--------------------------- MODULE ScheduleChange ---------------------------
(***************************************************************************)
(* Requests to change one's own day or to swap days with a colleague. A    *)
(* request is answered by the colleague, then by the managers its chain    *)
(* names, in turn; the last approval carries it out on the roster as it is *)
(* by then. The chain comes from the leave approval rules (ApprovalChain). *)
(***************************************************************************)
EXTENDS Roster

CONSTANTS
  Requests,
  Wanted,       \* what people ask for: [by, with, days, wish]
  Approvers,    \* who may be in a chain, colleagues included
  ChainOf       \* the managers' chain of each requester

ASSUME ScheduleChangeAssumption ==
  /\ Employees \subseteq Approvers
  /\ ChainOf \in [Employees -> Seq(Approvers)]
  /\ \A e \in Employees : \A i, j \in DOMAIN ChainOf[e] : ChainOf[e][i] = ChainOf[e][j] => i = j
  /\ Wanted \subseteq [by : Employees, with : Employees \cup {None}, days : SUBSET Days,
                     wish : {"work", "rest", "times"}]

VARIABLE request   \* the row of each request and its steps

changeVars == <<vars, request>>

(* A change asks for a kind of shift, or only for other times.             *)
Step == [approver : Approvers, status : {"pending", "approved", "rejected"}]
Request == [by : Employees, with : Employees \cup {None}, days : SUBSET Days,
            wish : {"work", "rest", "times"}, steps : Seq(Step),
            status : {"pending", "approved", "rejected", "cancelled"}]

ChangeTypeOK == request \in [Requests -> Request \cup {None}]

ChangeInit == Init /\ request = [q \in Requests |-> None]

Involved(r) == {r.by} \cup (IF r.with = None THEN {} ELSE {r.with})

(* validate_request, and again when it is carried out: not on a day of     *)
(* leave.                                                                  *)
Possible(r) == \A c \in Involved(r) \X r.days : ~Held(c)

(* The colleague comes first, and is not asked again as a manager. *)
Managers(r) ==
  LET chain == ChainOf[r.by]
      Again(i) == chain[i] = r.with
  IN IF \E i \in DOMAIN chain : Again(i) THEN Without(chain, CHOOSE i \in DOMAIN chain : Again(i))
     ELSE chain

Steps(r) ==
  LET people == IF r.with = None THEN Managers(r) ELSE <<r.with>> \o Managers(r)
  IN [i \in DOMAIN people |-> [approver |-> people[i], status |-> "pending"]]

Ask(q, w) ==
  /\ request[q] = None
  /\ w.by # w.with
  /\ Possible(w)
  /\ request' = [request EXCEPT ![q] = [by |-> w.by, with |-> w.with, days |-> w.days,
                                       wish |-> w.wish, steps |-> Steps(w),
                                       status |-> "pending"]]
  /\ UNCHANGED vars

(* Each takes the other's shifts of the day, rows and all.                 *)
Swapped(r) ==
  [c \in Involved(r) \X r.days |->
     LET other == <<CHOOSE e \in Involved(r) : e # c[1], c[2]>>
     IN [i \in DOMAIN roster[other] |-> [roster[other][i] EXCEPT !.holiday = None]]]

(* Every shift of the day becomes what was asked; an empty day gets one,   *)
(* published.                                                              *)
Changed(r) ==
  [c \in {r.by} \X r.days |->
     IF roster[c] = <<>>
     THEN <<[Draft(IF r.wish = "times" THEN "work" ELSE r.wish) EXCEPT !.published = TRUE]>>
     ELSE [i \in DOMAIN roster[c] |->
             [roster[c][i] EXCEPT !.kind = IF r.wish = "times" THEN @ ELSE r.wish,
                                  !.holiday = None]]]

CarryOut(r) ==
  LET change == IF r.with = None THEN Changed(r) ELSE Swapped(r)
  IN /\ Possible(r)
     /\ \A c \in DOMAIN change : \A i \in DOMAIN change[c] : Fits(c, change[c][i].kind)
     /\ Unlocked(DOMAIN change)
     /\ Write(change)
     /\ UNCHANGED <<approved, holiday, locked, cleared, writes>>

(* A slip: a step may be decided out of turn. *)
AnyTurn(r, i) == TRUE

(* The reviewer's step: the first pending one that is theirs, and only     *)
(* once all before it are approved.                                        *)
Mine(r, u) == {i \in DOMAIN r.steps : r.steps[i].approver = u /\ r.steps[i].status = "pending"}
Turn(r, i) == \A j \in DOMAIN r.steps : j < i => r.steps[j].status = "approved"
Reviews(r, u, i) == i \in Mine(r, u) /\ (\A j \in Mine(r, u) : i <= j) /\ Turn(r, i)

Reject(q, u) ==
  LET r == request[q]
  IN /\ r # None
     /\ r.status = "pending"
     /\ \E i \in DOMAIN r.steps :
          /\ Reviews(r, u, i)
          /\ request' = [request EXCEPT ![q].steps[i].status = "rejected", ![q].status = "rejected"]
     /\ UNCHANGED vars

(* The change is made before the step is recorded, so one that is refused  *)
(* leaves the request as it was.                                           *)
Approve(q, u) ==
  LET r == request[q]
  IN /\ r # None
     /\ r.status = "pending"
     /\ \E i \in DOMAIN r.steps :
          LET last == \A j \in DOMAIN r.steps : j # i => r.steps[j].status # "pending"
          IN /\ Reviews(r, u, i)
             /\ IF last THEN CarryOut(r) ELSE UNCHANGED vars
             /\ request' = [request EXCEPT ![q].steps[i].status = "approved",
                                           ![q].status = IF last THEN "approved" ELSE @]

Cancel(q) ==
  /\ request[q] # None
  /\ request[q].status = "pending"
  /\ request' = [request EXCEPT ![q].status = "cancelled"]
  /\ UNCHANGED vars

Asking == \E q \in Requests, w \in Wanted : Ask(q, w)

Answering ==
  \/ \E q \in Requests, u \in Approvers : Approve(q, u) \/ Reject(q, u)
  \/ \E q \in Requests : Cancel(q)

ChangeNext ==
  \/ Next /\ UNCHANGED request
  \/ Asking
  \/ Answering

ChangeSpec == ChangeInit /\ [][ChangeNext]_changeVars

-----------------------------------------------------------------------------
(* A request is carried out once everyone whose turn it was has agreed, in *)
(* the order of the steps, and never after one of them refused.            *)
AgreedInTurn ==
  /\ ChangeTypeOK
  /\ \A q \in Requests :
       LET r == request[q]
       IN r # None =>
            /\ r.status = "approved" => \A i \in DOMAIN r.steps : r.steps[i].status = "approved"
            /\ \A i, j \in DOMAIN r.steps : i < j /\ r.steps[j].status # "pending" =>
                                              r.steps[i].status = "approved"
            /\ r.status = "rejected" <=> \E i \in DOMAIN r.steps : r.steps[i].status = "rejected"
=============================================================================
