--------------------------- MODULE LeaveBalances ---------------------------
(***************************************************************************)
(* What one employee's leave requests cost: which days of a request are    *)
(* counted, what each year's balance of a leave type is under the policy   *)
(* that covers the employee, and which filings and edits the rules of that *)
(* policy refuse.  Days are counted in halves: a whole day is 2.  A date   *)
(* stands for a part of a year: credits accrue with the parts.             *)
(***************************************************************************)
EXTENDS Integers, FiniteSets, Functions

CONSTANTS
    Requests,
    Types,         \* leave types a company may offer
    Dates,         \* dates, from 1
    Parts,         \* dates in a year
    Holidays,      \* dates on the holiday calendar
    WorkWeek,      \* dates that are worked when the roster is silent
    Hired,         \* the date of hire
    DefaultDays,   \* AppSettings.default_leave_days
    Policies,      \* ids of policies
    Terms,         \* what a policy may say, its entitlements aside
    Credits,       \* what an entitlement may grant a year
    General,       \* the leave type of an untyped adjustment
    NoRequest,
    Unwritten,
    Spells,        \* bound: the spells of leave that are asked for
    MaxChanges     \* bound on what administrators and planners change

ASSUME BalanceAssumption ==
    /\ NoRequest \notin Requests /\ Unwritten \notin Policies /\ General \notin Types
    /\ IsFiniteSet(Requests) /\ IsFiniteSet(Types) /\ Policies \subseteq Nat
    /\ 1 \in Dates /\ Dates \subseteq Nat \ {0} /\ \A a, b \in Dates : a..b \subseteq Dates
    /\ Parts \in Nat \ {0} /\ Hired \in Nat /\ DefaultDays \in Nat /\ MaxChanges \in Nat
    /\ Credits \subseteq Nat /\ \A terms \in Terms : terms.pooled \in Nat
    /\ Spells \subseteq [from : Dates, to : Dates, half : BOOLEAN]

NotEntitled == -1

Years == {(d - 1) \div Parts : d \in Dates}
YearOf(d) == (d - 1) \div Parts
PartOf(d) == ((d - 1) % Parts) + 1

VARIABLES
    today,     \* company_today
    request,   \* request[r]: the row of leave_applications
    shift,     \* shift[d]: what the roster shows the employee on d
    cover,     \* cover[d]: the request whose overlay that is
    hidden,    \* hidden[d]: what the overlay hides, "none" if it made the shift
    credit,    \* credit[y][t]: the overtime turned into days of t in year y
    debit,     \* the tardiness record: the year and type it was charged to
    offered,   \* the leave types that are active
    policy,    \* policy[p]: a row of leave_policies with its entitlements
    amended

balanceVars == <<today, request, shift, cover, hidden, credit, debit, offered, policy, amended>>

NoDays == [d \in {} |-> 0]
Unfiled == [status |-> "none", type |-> General, days |-> NoDays]
NoDebit == [year |-> -1, type |-> General]

BalanceTypeOK ==
    /\ today \in Dates
    /\ \A r \in Requests :
          /\ request[r].status \in {"none", "pending", "approved", "closed"}
          /\ request[r].type \in Types \union {General}
          /\ DOMAIN request[r].days \subseteq Dates
          /\ \A d \in DOMAIN request[r].days : request[r].days[d] \in 0..2
    /\ shift \in [Dates -> {"none", "work", "rest", "leave"}]
    /\ cover \in [Dates -> Requests \union {NoRequest}]
    /\ hidden \in [Dates -> {"none", "work", "rest"}]
    /\ credit \in [Years -> [Types -> Nat]]
    /\ debit = NoDebit \/ debit \in [year : Years, type : Types \union {General}]
    /\ offered \subseteq Types
    /\ \A p \in Policies : policy[p] # Unwritten =>
          policy[p].grants \in [Types -> Credits \union {NotEntitled}]
    /\ amended \in 0..MaxChanges

BalanceInit ==
    /\ today = 1
    /\ request = [r \in Requests |-> Unfiled]
    /\ shift = [d \in Dates |-> "none"]
    /\ cover = [d \in Dates |-> NoRequest]
    /\ hidden = [d \in Dates |-> "none"]
    /\ credit = [y \in Years |-> [t \in Types |-> 0]]
    /\ debit = NoDebit
    /\ offered = Types
    /\ policy = [p \in Policies |-> Unwritten]
    /\ amended = 0

-----------------------------------------------------------------------------
(* The days of a request.                                                  *)

\* What the roster says of a date, apart from a request's own overlay.
Seen(d, own) == IF own # NoRequest /\ cover[d] = own THEN hidden[d] ELSE shift[d]

\* count_leave_days: a date counts when it is worked and no holiday.
Count(from, to, half, own) ==
    [d \in from..to |->
        IF /\ d \notin Holidays
           /\ Seen(d, own) = "work" \/ (Seen(d, own) = "none" /\ d \in WorkWeek)
        THEN IF half THEN 1 ELSE 2
        ELSE 0]

\* application_days_in_year, and days_by_year of what is asked for.
DaysIn(days, y) == SumFunctionOnSet(days, {d \in DOMAIN days : YearOf(d) = y})

Alive(r) == request[r].status \in {"pending", "approved"}
Taken(types, y) ==
    SumFunction([r \in {q \in Requests : Alive(q) /\ request[q].type \in types} |->
                    DaysIn(request[r].days, y)])

-----------------------------------------------------------------------------
(* The balance of a year.                                                  *)

\* get_policy_for_employee: the first active policy for the type of employment,
\* then the active default.
InForce == {p \in Policies : policy[p] # Unwritten /\ policy[p].active}
Governing ==
    LET own == {p \in InForce : policy[p].covers}
        standard == {p \in InForce : policy[p].standard}
    IN IF own # {} THEN CHOOSE p \in own : \A q \in own : p <= q
       ELSE IF standard # {} THEN CHOOSE p \in standard : \A q \in standard : p <= q
       ELSE Unwritten

\* compute_accrued_credits.  Who joins during a year earns the rest of it.
Accrued(granted, method, y) ==
    LET first == IF y = YearOf(Hired) THEN PartOf(Hired) ELSE 1
        last == IF method = "monthly" /\ y = YearOf(today) THEN PartOf(today) ELSE Parts
    IN IF y < YearOf(Hired) \/ y > YearOf(today) \/ last < first THEN 0
       ELSE (granted * (last - first + 1)) \div Parts

Debited(t, y) == IF debit = [year |-> y, type |-> t] THEN 1 ELSE 0
Adjusted(t, y) == credit[y][t] - Debited(t, y)

\* compute_balances: the total of the item that for_type finds, or nothing when
\* the type has no item.
HasItem(t, y) ==
    \/ Governing = Unwritten /\ t \in offered
    \/ Governing # Unwritten /\ policy[Governing].terms.pool = "shared"
    \/ Governing # Unwritten /\ policy[Governing].grants[t] # NotEntitled
    \/ Adjusted(t, y) > 0

Total(t, y) ==
    IF Governing = Unwritten
    THEN IF t \in offered
         THEN Accrued(DefaultDays, "annual", y) + Adjusted(t, y) - Debited(General, y)
         ELSE Adjusted(t, y)
    ELSE LET terms == policy[Governing].terms
             granted == policy[Governing].grants[t]
         IN IF terms.pool = "shared"
            THEN Accrued(terms.pooled, terms.accrual, y) - Debited(General, y)
                   + SumFunction([u \in Types |-> Adjusted(u, y)])
            ELSE IF granted # NotEntitled
            THEN Accrued(granted, terms.accrual, y) + Adjusted(t, y) - Debited(General, y)
            ELSE Adjusted(t, y)

Sharing(t) == IF Governing # Unwritten /\ policy[Governing].terms.pool = "shared"
              THEN Types ELSE {t}

Available(t, y) == IF HasItem(t, y) THEN Total(t, y) - Taken(Sharing(t), y) ELSE 0

-----------------------------------------------------------------------------
(* The rules of filing.                                                    *)

Mode(rule) == IF Governing = Unwritten THEN "off" ELSE policy[Governing].terms.mode[rule]

\* LeaveRuleService._own_days: what the request holds in a year already.
OwnDays(own, y) == IF own # NoRequest /\ Alive(own) THEN DaysIn(request[own].days, y) ELSE 0

\* A slip: a request is charged to the year it starts in.
OverdrawsAtStart(t, days, own) ==
    LET y == YearOf(CHOOSE d \in DOMAIN days : \A e \in DOMAIN days : d <= e)
    IN DaysIn(days, y) > Available(t, y) + OwnDays(own, y)

Overdraws(t, days, own) ==
    \E y \in Years : /\ DaysIn(days, y) > 0
                     /\ DaysIn(days, y) > Available(t, y) + OwnDays(own, y)

Crossing(days, own) ==
    \E r \in Requests \ {own} : Alive(r) /\ DOMAIN request[r].days \cap DOMAIN days # {}

Whole(days) == SumFunction(days)

\* What the terms say of one type: documents are attached or they are not. Who
\* asks for no notice lets leave be filed for days that are over.
Refused(t, days, own, documented) ==
    /\ Governing # Unwritten
    /\ LET terms == policy[Governing].terms
           entitled == terms.pool = "per_type" /\ policy[Governing].grants[t] # NotEntitled
       IN \/ Mode("balance") = "block" /\ Overdraws(t, days, own)
          \/ /\ Mode("notice") = "block" /\ entitled
             /\ terms.notice > 0 /\ \E d \in DOMAIN days : d - today < terms.notice
          \/ /\ Mode("longest") = "block" /\ (entitled \/ terms.pool = "shared")
             /\ terms.longest > 0 /\ Whole(days) > terms.longest
          \/ Mode("overlap") = "block" /\ Crossing(days, own)
          \/ Mode("documents") = "block" /\ entitled /\ terms.documents /\ ~documented

Askable(t, from, to, half) == t \in offered /\ from <= to /\ (half => from = to)

-----------------------------------------------------------------------------
(* The life of a request, as far as its days go.                           *)

\* create_leave_application.
File(r, t, from, to, half, documented) ==
    LET days == Count(from, to, half, NoRequest)
    IN /\ request[r].status = "none"
       /\ Askable(t, from, to, half)
       /\ Whole(days) > 0
       /\ ~Refused(t, days, NoRequest, documented)
       /\ request' = [request EXCEPT ![r] =
                        [status |-> "pending", type |-> t, days |-> days]]
       /\ UNCHANGED <<today, shift, cover, hidden, credit, debit, offered, policy, amended>>

\* update_leave_application; the type is asked about only when it is sent.
Update(r, t, from, to, half, documented) ==
    LET days == Count(from, to, half, r)
    IN /\ request[r].status = "pending"
       /\ Askable(t, from, to, half) \/ (t = request[r].type /\ from <= to /\ (half => from = to))
       /\ Whole(days) > 0
       /\ ~Refused(t, days, r, documented)
       /\ request' = [request EXCEPT ![r] =
                        [status |-> "pending", type |-> t, days |-> days]]
       /\ UNCHANGED <<today, shift, cover, hidden, credit, debit, offered, policy, amended>>

\* The last approval and _apply_overlay: the counted days, unless another leave
\* holds them.  The balance is looked at again, for a warning.
Approve(r) ==
    LET days == request[r].days
        laid == {d \in DOMAIN days : days[d] > 0 /\ cover[d] = NoRequest}
    IN /\ request[r].status = "pending"
       /\ request' = [request EXCEPT ![r].status = "approved"]
       /\ shift' = [d \in Dates |-> IF d \in laid THEN "leave" ELSE shift[d]]
       /\ hidden' = [d \in Dates |-> IF d \in laid THEN shift[d] ELSE hidden[d]]
       /\ cover' = [d \in Dates |-> IF d \in laid THEN r ELSE cover[d]]
       /\ UNCHANGED <<today, credit, debit, offered, policy, amended>>

\* Rejected, cancelled or expired: the request holds no days any more.
Closed == [Unfiled EXCEPT !.status = "closed"]
Close(r) ==
    /\ request[r].status = "pending"
    /\ request' = [request EXCEPT ![r] = Closed]
    /\ UNCHANGED <<today, shift, cover, hidden, credit, debit, offered, policy, amended>>

\* The overlay comes off; another approved leave takes the dates it spans.
RevokeRequest(r) ==
    LET freed == {d \in Dates : cover[d] = r}
        Next(d) == {q \in Requests \ {r} : /\ request[q].status = "approved"
                                           /\ d \in DOMAIN request[q].days}
        again == {d \in freed : Next(d) # {}}
    IN /\ request[r].status = "approved"
       /\ \E row \in {[request[r] EXCEPT !.status = "pending"], Closed} :
             request' = [request EXCEPT ![r] = row]
       /\ shift' = [d \in Dates |-> IF d \in freed \ again THEN hidden[d] ELSE shift[d]]
       /\ hidden' = [d \in Dates |-> IF d \in freed \ again THEN "none" ELSE hidden[d]]
       /\ cover' = [d \in Dates |-> IF d \in again THEN CHOOSE q \in Next(d) : TRUE
                                    ELSE IF d \in freed THEN NoRequest ELSE cover[d]]
       /\ UNCHANGED <<today, credit, debit, offered, policy, amended>>

-----------------------------------------------------------------------------
(* What changes under the requests.                                        *)

Change == amended < MaxChanges /\ amended' = amended + 1

\* A planner writes a date nobody is on leave. "rest" is whatever is not worked,
\* a leave that a planner writes included: count_leave_days counts none of it.
Reschedule(d, kind) ==
    /\ Change
    /\ cover[d] = NoRequest /\ shift[d] # kind
    /\ kind = "work" => ~\E r \in Requests : /\ request[r].status = "approved"
                                             /\ d \in DOMAIN request[r].days
    /\ shift' = [shift EXCEPT ![d] = kind]
    /\ UNCHANGED <<today, request, cover, hidden, credit, debit, offered, policy>>

\* OvertimeService.convert_to_leave: the credit names an active type.
Convert(t) ==
    /\ Change
    /\ t \in offered
    /\ credit' = [credit EXCEPT ![YearOf(today)][t] = @ + 2]
    /\ UNCHANGED <<today, request, shift, cover, hidden, debit, offered, policy>>

\* resolve_tardiness: another outcome takes the place of the last one.
ResolveTardiness(t) ==
    /\ Change
    /\ debit' \in {NoDebit, [year |-> YearOf(today), type |-> t]}
    /\ UNCHANGED <<today, request, shift, cover, hidden, credit, offered, policy>>

\* create_leave_type, update_leave_type and delete_leave_type.
SwitchType(t) ==
    /\ Change
    /\ offered' = IF t \in offered THEN offered \ {t} ELSE offered \union {t}
    /\ UNCHANGED <<today, request, shift, cover, hidden, credit, debit, policy>>

\* One policy at most is the default.
Written(p, row) ==
    [q \in Policies |->
        IF q = p THEN row
        ELSE IF row.standard /\ policy[q] # Unwritten THEN [policy[q] EXCEPT !.standard = FALSE]
        ELSE policy[q]]

WritePolicy(p, row) ==
    /\ Change
    /\ policy' = Written(p, row)
    /\ UNCHANGED <<today, request, shift, cover, hidden, credit, debit, offered>>

\* create_leave_policy; entitlements are read for a pool per type only.
CreatePolicy(p) ==
    /\ policy[p] = Unwritten
    /\ \E terms \in Terms, covers, standard \in BOOLEAN,
          grants \in [Types -> Credits \union {NotEntitled}] :
          /\ terms.pool = "shared" => \A t \in Types : grants[t] = NotEntitled
          /\ WritePolicy(p, [active |-> TRUE, standard |-> standard, covers |-> covers,
                             terms |-> terms, grants |-> grants])

\* update_leave_policy writes the fields it is sent, whatever the others say.
UpdatePolicy(p) ==
    /\ policy[p] # Unwritten
    /\ \E terms \in Terms, covers, standard, active \in BOOLEAN :
          WritePolicy(p, [policy[p] EXCEPT !.terms = terms, !.covers = covers,
                                           !.standard = standard, !.active = active])

DeletePolicy(p) ==
    /\ policy[p] # Unwritten
    /\ Change
    /\ policy' = [policy EXCEPT ![p].active = FALSE]
    /\ UNCHANGED <<today, request, shift, cover, hidden, credit, debit, offered>>

\* clone_leave_policy: an inactive copy that is no default.
ClonePolicy(p, q) ==
    /\ policy[p] # Unwritten /\ policy[q] = Unwritten
    /\ WritePolicy(q, [policy[p] EXCEPT !.active = FALSE, !.standard = FALSE])

\* add_, update_ and delete_policy_entitlement.
SetEntitlement(p, t, granted) ==
    /\ policy[p] # Unwritten
    /\ WritePolicy(p, [policy[p] EXCEPT !.grants[t] = granted])

\* bulk_replace_entitlements.
ReplaceEntitlements(p, grants) ==
    /\ policy[p] # Unwritten
    /\ WritePolicy(p, [policy[p] EXCEPT !.grants = grants])

DayPasses ==
    /\ today + 1 \in Dates
    /\ today' = today + 1
    /\ UNCHANGED <<request, shift, cover, hidden, credit, debit, offered, policy, amended>>

-----------------------------------------------------------------------------
BalanceNext ==
    \/ \E r \in Requests, t \in Types, s \in Spells, documented \in BOOLEAN :
          \/ File(r, t, s.from, s.to, s.half, documented)
          \/ Update(r, t, s.from, s.to, s.half, documented)
    \/ \E r \in Requests : Approve(r) \/ Close(r) \/ RevokeRequest(r)
    \/ \E d \in Dates, kind \in {"none", "work", "rest"} : Reschedule(d, kind)
    \/ \E t \in Types : Convert(t) \/ SwitchType(t)
    \/ \E t \in Types \union {General} : ResolveTardiness(t)
    \/ \E p \in Policies : CreatePolicy(p) \/ UpdatePolicy(p) \/ DeletePolicy(p)
    \/ \E p, q \in Policies : ClonePolicy(p, q)
    \/ \E p \in Policies, t \in Types, granted \in Credits \union {NotEntitled} :
          SetEntitlement(p, t, granted)
    \/ \E p \in Policies, grants \in [Types -> Credits \union {NotEntitled}] :
          ReplaceEntitlements(p, grants)
    \/ DayPasses

BalanceSpec == BalanceInit /\ [][BalanceNext]_balanceVars

-----------------------------------------------------------------------------
(* A request cannot take what the policy withholds: where the balance rule *)
(* is enforced, no filing leaves a year in which the request takes days    *)
(* with more days taken than it has.  The year is reckoned day by day.     *)
Overdrawn(r) == {d \in DOMAIN request[r].days : /\ request[r].days[d] > 0
                                                /\ Available(request[r].type, YearOf(d)) < 0}
FilingStep ==
    \A r \in Requests :
        (request[r].status = "none" /\ request'[r].status = "pending" /\ Mode("balance") = "block")
        => Overdrawn(r)' = {}
FilingKeepsWithinTheBalance == [][FilingStep]_balanceVars

(* Where overlaps are enforced, whatever is filed or edited never has two  *)
(* requests of the employee pending or approved over the same date that    *)
(* did not share one before.                                               *)
Shared(r, q) == Alive(r) /\ Alive(q) /\ DOMAIN request[r].days \cap DOMAIN request[q].days # {}
OverlapStep ==
    \A r \in Requests : \A q \in Requests \ {r} :
        (Mode("overlap") = "block" /\ Shared(r, q)') => Shared(r, q)
NoOverlapIsLetIn == [][OverlapStep]_balanceVars

(* Laying a leave on the roster does not change what the leave costs: its  *)
(* days are counted the same after as before ("recounting an approved      *)
(* request gives the same answer").                                        *)
Recounted(r) == LET days == request[r].days
                IN [d \in DOMAIN days |-> Count(d, d, FALSE, r)[d]]
ApprovingStep ==
    \A r \in Requests :
        (request[r].status = "pending" /\ request'[r].status = "approved")
        => Recounted(r)' = Recounted(r)
ApprovingChangesNoCount == [][ApprovingStep]_balanceVars

(* There is one default policy at most, so that who is covered by no other *)
(* policy knows which one applies.                                         *)
OneStandardPolicy ==
    \A p, q \in Policies :
        (p # q /\ policy[p] # Unwritten /\ policy[q] # Unwritten)
        => ~(policy[p].standard /\ policy[q].standard)

(* update_leave_application: "Any change re-runs every leave rule against  *)
(* the new dates and type": where the balance rule is enforced, an edit    *)
(* that goes through leaves no year of the request overdrawn.              *)
EditingKeepsWithinTheBalance ==
    [][\A r \in Requests :
          ( /\ request[r].status = "pending" /\ request'[r].status = "pending"
            /\ request'[r] # request[r] /\ Mode("balance") = "block" )
          => Overdrawn(r)' = {}]_balanceVars

(* The leave rules hold for every request together with those before it,   *)
(* and keep holding while requests are approved and policies change.       *)
LeaveRulesHold ==
    /\ [](BalanceTypeOK /\ OneStandardPolicy)
    /\ FilingKeepsWithinTheBalance /\ NoOverlapIsLetIn /\ ApprovingChangesNoCount
=============================================================================
