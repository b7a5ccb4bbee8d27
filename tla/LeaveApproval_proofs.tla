------------------------ MODULE LeaveApproval_proofs ------------------------
(***************************************************************************)
(* Proofs about LeaveApproval, for any company, any number of requests,    *)
(* any chain resolver that keeps the promise ChainFor, and any clock.      *)
(*                                                                         *)
(* The invariant is one request at a time: Sound(r, a) is what is true of  *)
(* request r when its row is a. Each handler of LeaveHandlers keeps it,    *)
(* which is one lemma per handler, and every action of LeaveApproval       *)
(* writes rows that come from a handler.                                   *)
(***************************************************************************)
EXTENDS LeaveApproval, FiniteSets, SequenceTheorems, WellFoundedInduction, TLAPS

StepStatuses == {"pending", "approved", "rejected", "skipped"}

Sound(r, a) ==
  /\ a \in RequestRecords
  /\ SomebodysTurn(a)
  /\ StepsTellThe(a)
  /\ OwnStepAlone(r, a)
  /\ ElseApproved(r, a)

-----------------------------------------------------------------------------
(* Every non-empty set of naturals has a least member, so "the first       *)
(* editor" and "the caller's own step" are what their names say.           *)
LEMMA LeastExists ==
  ASSUME NEW T, T \subseteq Nat, T # {}
  PROVE  Least(T) \in T
<1> DEFINE R == {ss \in Nat \X Nat : ss[1] < ss[2]}
<1>1. IsWellFoundedOn(R, Nat)
  BY NatLessThanWellFounded, Zenon DEF OpToRel
<1>2. PICK x \in T : \A y \in T : ~ (<<y, x>> \in R)
  BY <1>1, WFMin
<1>3. \A y \in T : ~ (y < x)
  BY <1>2
<1>4. \E p \in T : \A q \in T : p <= q
  BY <1>3
<1> QED BY <1>4 DEF Least

(* Replacing the steps of a request by steps of the same number.           *)
LEMMA StepsOfType ==
  ASSUME NEW a \in RequestRecords, NEW f, f \in [DOMAIN a.steps -> StepRecords]
  PROVE  /\ f \in {s \in Seq(StepRecords) : Len(s) <= MaxLevels}
         /\ DOMAIN f = DOMAIN a.steps
         /\ Len(f) = Len(a.steps)
<1>1. a.steps \in Seq(StepRecords) /\ Len(a.steps) <= MaxLevels
  BY DEF RequestRecords
<1>2. DOMAIN a.steps = 1 .. Len(a.steps) /\ Len(a.steps) \in Nat
  BY <1>1
<1>3. f \in Seq(StepRecords)
  BY <1>2, IsASeq
<1> QED BY <1>1, <1>2, <1>3

(* What deciding one step does to a request.                               *)
LEMMA MarkedIs ==
  ASSUME NEW a \in RequestRecords, NEW i \in DOMAIN a.steps,
         NEW st \in StepStatuses, NEW d \in Days
  PROVE  /\ Marked(a, i, st, d) \in RequestRecords
         /\ Marked(a, i, st, d).status = a.status
         /\ Marked(a, i, st, d).reviewer = a.reviewer
         /\ DOMAIN Marked(a, i, st, d).steps = DOMAIN a.steps
         /\ Len(Marked(a, i, st, d).steps) = Len(a.steps)
         /\ \A j \in DOMAIN a.steps :
              /\ Marked(a, i, st, d).steps[j].approver = a.steps[j].approver
              /\ Marked(a, i, st, d).steps[j].status =
                   IF j = i THEN st ELSE a.steps[j].status
<1> DEFINE f == [a.steps EXCEPT ![i] = [@ EXCEPT !.status = st, !.decided = d]]
<1>0. a.steps \in Seq(StepRecords) /\ \A j \in DOMAIN a.steps : a.steps[j] \in StepRecords
  BY DEF RequestRecords
<1>1. [a.steps[i] EXCEPT !.status = st, !.decided = d] \in StepRecords
  BY <1>0 DEF StepRecords, StepStatuses
<1>2. f \in [DOMAIN a.steps -> StepRecords]
  BY <1>0, <1>1
<1>3. Marked(a, i, st, d) = [a EXCEPT !.steps = f]
  BY DEF Marked, RequestRecords
<1>4. [a EXCEPT !.steps = f].steps = f
  BY DEF RequestRecords
<1>5. \A j \in DOMAIN a.steps :
        f[j].approver = a.steps[j].approver
        /\ f[j].status = IF j = i THEN st ELSE a.steps[j].status
  BY <1>0 DEF StepRecords
<1>6. [a EXCEPT !.steps = f] \in RequestRecords
  BY <1>2, StepsOfType DEF RequestRecords
<1>7. [a EXCEPT !.steps = f].status = a.status /\ [a EXCEPT !.steps = f].reviewer = a.reviewer
  BY DEF RequestRecords
<1> HIDE DEF f
<1> QED BY <1>2, <1>3, <1>4, <1>5, <1>6, <1>7, StepsOfType

(* Closing the open steps leaves no step open and changes no name.         *)
LEMMA SkipOpenIs ==
  ASSUME NEW a \in RequestRecords, NEW d \in Days
  PROVE  /\ SkipOpen(a.steps, d) \in [DOMAIN a.steps -> StepRecords]
         /\ \A j \in DOMAIN a.steps :
              /\ SkipOpen(a.steps, d)[j].approver = a.steps[j].approver
              /\ SkipOpen(a.steps, d)[j].status =
                   IF a.steps[j].status = "pending" THEN "skipped" ELSE a.steps[j].status
<1>1. \A j \in DOMAIN a.steps : a.steps[j] \in StepRecords
  BY DEF RequestRecords
<1>2. ASSUME NEW j \in DOMAIN a.steps
      PROVE  [a.steps[j] EXCEPT !.status = "skipped", !.decided = d] \in StepRecords
  BY <1>1 DEF StepRecords
<1> QED BY <1>1, <1>2 DEF SkipOpen, StepRecords

(* Putting the steps back leaves every step open and changes no name.      *)
LEMMA ReopenIs ==
  ASSUME NEW a \in RequestRecords
  PROVE  /\ Reopen(a.steps) \in [DOMAIN a.steps -> StepRecords]
         /\ \A j \in DOMAIN a.steps :
              /\ Reopen(a.steps)[j].approver = a.steps[j].approver
              /\ Reopen(a.steps)[j].status = "pending"
<1>1. \A j \in DOMAIN a.steps : a.steps[j] \in StepRecords
  BY DEF RequestRecords
<1>2. ASSUME NEW j \in DOMAIN a.steps
      PROVE  [a.steps[j] EXCEPT !.status = "pending", !.decided = NoDay] \in StepRecords
  BY <1>1 DEF StepRecords
<1> QED BY <1>1, <1>2 DEF Reopen, StepRecords

(* What closing a request does to it.                                      *)
LEMMA ClosedIs ==
  ASSUME NEW a \in RequestRecords, NEW st \in Statuses, NEW d \in Days
  PROVE  /\ Closed(a, st, d) \in RequestRecords
         /\ Closed(a, st, d).status = st
         /\ Closed(a, st, d).reviewer = a.reviewer
         /\ DOMAIN Closed(a, st, d).steps = DOMAIN a.steps
         /\ Len(Closed(a, st, d).steps) = Len(a.steps)
         /\ \A j \in DOMAIN a.steps :
              /\ Closed(a, st, d).steps[j].approver = a.steps[j].approver
              /\ Closed(a, st, d).steps[j].status =
                   IF a.steps[j].status = "pending" THEN "skipped" ELSE a.steps[j].status
<1> DEFINE f == SkipOpen(a.steps, d)
<1>1. Closed(a, st, d) = [a EXCEPT !.status = st, !.steps = f]
  BY DEF Closed
<1>2. /\ f \in [DOMAIN a.steps -> StepRecords]
      /\ \A j \in DOMAIN a.steps :
           /\ f[j].approver = a.steps[j].approver
           /\ f[j].status =
                IF a.steps[j].status = "pending" THEN "skipped" ELSE a.steps[j].status
  BY SkipOpenIs
<1> HIDE DEF f
<1>3. /\ f \in {s \in Seq(StepRecords) : Len(s) <= MaxLevels}
      /\ DOMAIN f = DOMAIN a.steps /\ Len(f) = Len(a.steps)
  BY <1>2, StepsOfType
<1>4. /\ [a EXCEPT !.status = st, !.steps = f] \in RequestRecords
      /\ [a EXCEPT !.status = st, !.steps = f].status = st
      /\ [a EXCEPT !.status = st, !.steps = f].reviewer = a.reviewer
      /\ [a EXCEPT !.status = st, !.steps = f].steps = f
  BY <1>3 DEF RequestRecords
<1> QED BY <1>1, <1>2, <1>3, <1>4

-----------------------------------------------------------------------------
(* Whose turn it is. In a pending request with steps the ones before the   *)
(* current step are approved, and it and the ones after it are open.       *)
LEMMA TheTurn ==
  ASSUME NEW a \in RequestRecords, SomebodysTurn(a), a.status = "pending",
         NEW i, IsCurrent(a, i)
  PROVE  \A j \in DOMAIN a.steps :
           a.steps[j].status = IF j < i THEN "approved" ELSE "pending"
<1>1. i \in DOMAIN a.steps /\ a.steps \in Seq(StepRecords) /\ a.steps # <<>>
  BY DEF IsCurrent, IsOpen, RequestRecords
<1>2. DOMAIN a.steps = 1 .. Len(a.steps) /\ Len(a.steps) \in Nat
  BY <1>1
<1>3. PICK k \in DOMAIN a.steps :
        IsCurrent(a, k) /\ \A j \in DOMAIN a.steps : j >= k => IsOpen(a, j)
  BY <1>1 DEF SomebodysTurn
<1>4. ~ (k < i)
  <2> SUFFICES ASSUME k < i PROVE FALSE
    OBVIOUS
  <2>1. k \in 1 .. i-1
    BY <1>1, <1>2, <1>3
  <2> QED BY <2>1, <1>3 DEF IsCurrent, IsOpen
<1>5. ~ (i < k)
  <2> SUFFICES ASSUME i < k PROVE FALSE
    OBVIOUS
  <2>1. i \in 1 .. k-1
    BY <1>1, <1>2, <1>3
  <2> QED BY <2>1, <1>3 DEF IsCurrent, IsOpen
<1>6. i = k
  BY <1>1, <1>2, <1>3, <1>4, <1>5
<1> SUFFICES ASSUME NEW j \in DOMAIN a.steps
             PROVE  a.steps[j].status = IF j < i THEN "approved" ELSE "pending"
  OBVIOUS
<1>7. CASE j < i
  <2>1. j \in 1 .. i-1
    BY <1>1, <1>2, <1>7
  <2> QED BY <2>1, <1>7 DEF IsCurrent
<1>8. CASE ~ (j < i)
  <2>1. j >= k
    BY <1>1, <1>2, <1>6, <1>8
  <2> QED BY <2>1, <1>3, <1>8 DEF IsOpen
<1> QED BY <1>7, <1>8

(* A pending request with steps has a current one, and Current finds it.   *)
LEMMA SomebodyIsCurrent ==
  ASSUME NEW a \in RequestRecords, SomebodysTurn(a), a.status = "pending",
         a.steps # <<>>
  PROVE  HasCurrent(a) /\ Current(a) \in DOMAIN a.steps /\ IsCurrent(a, Current(a))
<1>1. HasCurrent(a)
  BY DEF SomebodysTurn, HasCurrent
<1> QED BY <1>1 DEF HasCurrent, Current

(* A request whose steps have all to be decided again is in order.         *)
LEMMA FreshIsSound ==
  ASSUME NEW r \in Requests, NEW b \in RequestRecords,
         b.status = "pending", OwnStepAlone(r, b),
         \A j \in DOMAIN b.steps : b.steps[j].status = "pending"
  PROVE  Sound(r, b)
<1>1. b.steps \in Seq(StepRecords)
  BY DEF RequestRecords
<1>2. b.steps # <<>> => 1 \in DOMAIN b.steps
  BY <1>1, EmptySeq
<1>3. SomebodysTurn(b)
  <2> SUFFICES ASSUME b.steps # <<>>
               PROVE  \E i \in DOMAIN b.steps :
                        IsCurrent(b, i) /\ \A j \in DOMAIN b.steps : j >= i => IsOpen(b, j)
    BY DEF SomebodysTurn
  <2>1. IsCurrent(b, 1)
    BY <1>2 DEF IsCurrent, IsOpen
  <2>2. \A j \in DOMAIN b.steps : IsOpen(b, j)
    BY DEF IsOpen
  <2> QED BY <1>2, <2>1, <2>2
<1>4. StepsTellThe(b) /\ ElseApproved(r, b)
  BY DEF StepsTellThe, ElseApproved
<1> QED BY <1>3, <1>4 DEF Sound

(* A change that gives the requester no step keeps their own step alone.   *)
LEMMA OwnStepKept ==
  ASSUME NEW r \in Requests, NEW a \in RequestRecords, NEW b \in RequestRecords,
         OwnStepAlone(r, a),
         DOMAIN b.steps = DOMAIN a.steps, Len(b.steps) = Len(a.steps),
         \A j \in DOMAIN a.steps :
           b.steps[j].approver = a.steps[j].approver \/ b.steps[j].approver # Owner[r]
  PROVE  OwnStepAlone(r, b)
BY DEF OwnStepAlone, Approvers

(* Giving open steps to other people than the requester keeps a pending    *)
(* request in order.                                                       *)
LEMMA ReroutedIsSound ==
  ASSUME NEW r \in Requests, NEW a \in RequestRecords, NEW b \in RequestRecords,
         Sound(r, a), a.status = "pending", b.status = "pending",
         DOMAIN b.steps = DOMAIN a.steps, Len(b.steps) = Len(a.steps),
         \A j \in DOMAIN a.steps :
           /\ b.steps[j].status = a.steps[j].status
           /\ b.steps[j].approver = a.steps[j].approver \/ b.steps[j].approver # Owner[r]
  PROVE  Sound(r, b)
<1>1. OwnStepAlone(r, b)
  BY OwnStepKept DEF Sound
<1>2. b.steps # <<>> => a.steps # <<>>
  BY DEF RequestRecords
<1>3. DOMAIN a.steps = 1 .. Len(a.steps) /\ Len(a.steps) \in Nat
  BY DEF RequestRecords
<1>4. ASSUME NEW i \in DOMAIN a.steps, IsCurrent(a, i) PROVE IsCurrent(b, i)
  <2>1. \A j \in 1 .. i-1 : j \in DOMAIN a.steps
    BY <1>3
  <2> QED BY <1>4, <2>1 DEF IsCurrent, IsOpen
<1>5. SomebodysTurn(b)
  BY <1>2, <1>4 DEF Sound, SomebodysTurn, IsOpen
<1>6. StepsTellThe(b) /\ ElseApproved(r, b)
  BY DEF StepsTellThe, ElseApproved
<1> QED BY <1>1, <1>5, <1>6 DEF Sound

-----------------------------------------------------------------------------
(* The handlers, one lemma each: given a request in order, and the guard   *)
(* of the action that runs it, a handler leaves a request in order.        *)

(* The steps made of a resolved chain: open, and the requester's own only  *)
(* when it is the only one.                                                *)
StepsFor(org, r, d) == NewSteps(ResolveChain(org, Owner[r], {}), d)

(* A resolved chain makes a sequence of open steps, short enough, in which *)
(* the requester only ever stands alone.                                   *)
LEMMA NewStepsAre ==
  ASSUME NEW org \in Companies, NEW r \in Requests, NEW d \in Days,
         NEW steps, steps = StepsFor(org, r, d)
  PROVE  /\ steps \in {s \in Seq(StepRecords) : Len(s) <= MaxLevels}
         /\ \A j \in DOMAIN steps : steps[j].status = "pending"
         /\ \/ Len(steps) = 1
            \/ \A j \in DOMAIN steps : steps[j].approver # Owner[r]
         /\ Editors(org) \ {Owner[r]} # {} => steps # <<>>
<1> DEFINE chain == ResolveChain(org, Owner[r], {})
<1>1. ChainFor(org, Owner[r], {}, MaxLevels, chain)
  BY ChainContract
<1> HIDE DEF chain
<1>2. /\ chain \in Seq(People) /\ Len(chain) <= MaxLevels
      /\ DOMAIN chain = 1 .. Len(chain) /\ Len(chain) \in Nat
  BY <1>1 DEF ChainFor
<1>3. steps = [i \in DOMAIN chain |->
         [approver |-> chain[i], status |-> "pending", decided |-> NoDay,
          created |-> d, moved |-> NoDay, escalations |-> 0]]
  BY DEF StepsFor, NewSteps, chain
<1>4. \A i \in DOMAIN chain : chain[i] \in People
  BY <1>2
<1>5. steps \in [1 .. Len(chain) -> StepRecords]
  BY <1>2, <1>3, <1>4 DEF StepRecords
<1>6. steps \in Seq(StepRecords) /\ Len(steps) = Len(chain) /\ DOMAIN steps = DOMAIN chain
  BY <1>2, <1>5, IsASeq
<1>7. \/ Len(chain) = 1
      \/ \A j \in DOMAIN chain : chain[j] # Owner[r]
  <2>1. CASE \A i \in DOMAIN chain : chain[i] \in org.active \ ({} \cup {Owner[r]})
    BY <2>1
  <2>2. CASE chain = <<Owner[r]>>
    BY <2>2
  <2> QED BY <1>1, <2>1, <2>2 DEF ChainFor
<1>8. Editors(org) \ {Owner[r]} # {} => chain # <<>>
  BY <1>1 DEF ChainFor
<1>9. chain # <<>> => steps # <<>>
  <2>1. chain # <<>> => Len(chain) # 0
    BY <1>2, EmptySeq
  <2> QED BY <2>1, <1>6
<1>10. \A j \in DOMAIN steps :
         steps[j].status = "pending" /\ steps[j].approver = chain[j]
  BY <1>3
<1> QED BY <1>2, <1>6, <1>7, <1>8, <1>9, <1>10

(* Filing.                                                                 *)
LEMMA FiledIsSound ==
  ASSUME NEW org \in Companies, NEW r \in Requests, NEW d \in Days, NEW span \in Spans
  PROVE  /\ Sound(r, Filed(org, r, span, d))
         /\ Filed(org, r, span, d).status = "pending"
<1> DEFINE b == Filed(org, r, span, d)
           steps == StepsFor(org, r, d)
<1>1. /\ steps \in {s \in Seq(StepRecords) : Len(s) <= MaxLevels}
      /\ \A j \in DOMAIN steps : steps[j].status = "pending"
      /\ Len(steps) = 1 \/ \A j \in DOMAIN steps : steps[j].approver # Owner[r]
  BY NewStepsAre
<1>2. b = [status |-> "pending", first |-> span[1], last |-> span[2],
           reviewer |-> NoOne, steps |-> steps]
  BY DEF Filed, StepsFor
<1> HIDE DEF b, steps
<1>3. span[1] \in Nat /\ span[2] \in Nat
  BY HandlersAssumption
<1>4. b \in RequestRecords /\ b.status = "pending" /\ b.steps = steps
  BY <1>1, <1>2, <1>3 DEF RequestRecords, Statuses
<1>5. OwnStepAlone(r, b)
  BY <1>1, <1>4 DEF OwnStepAlone, Approvers
<1>6. Sound(r, b)
  BY <1>1, <1>4, <1>5, FreshIsSound
<1> QED BY <1>4, <1>6 DEF b

(* Loading: the missing steps of a pending request, as long as somebody    *)
(* else can approve, make it one that somebody can decide.                 *)
LEMMA EnsuredIsSound ==
  ASSUME NEW org \in Companies, NEW r \in Requests, NEW d \in Days,
         NEW a, Sound(r, a)
  PROVE  /\ Sound(r, Ensured(org, r, a, d))
         /\ Ensured(org, r, a, d).status = a.status
         /\ a.status = "pending" /\ Editors(org) \ {Owner[r]} # {} =>
              Ensured(org, r, a, d).steps # <<>>
<1> DEFINE steps == StepsFor(org, r, d)
           b == [a EXCEPT !.steps = steps]
<1>1. /\ steps \in {s \in Seq(StepRecords) : Len(s) <= MaxLevels}
      /\ \A j \in DOMAIN steps : steps[j].status = "pending"
      /\ Len(steps) = 1 \/ \A j \in DOMAIN steps : steps[j].approver # Owner[r]
      /\ Editors(org) \ {Owner[r]} # {} => steps # <<>>
  BY NewStepsAre
<1>2. Ensured(org, r, a, d) = IF a.status = "pending" /\ a.steps = <<>> THEN b ELSE a
  BY DEF Ensured, StepsFor
<1>3. a \in RequestRecords
  BY DEF Sound
<1>4. b = [a EXCEPT !.steps = steps]
  OBVIOUS
<1> HIDE DEF b, steps
<1>5. b \in RequestRecords /\ b.status = a.status /\ b.steps = steps
  BY <1>1, <1>3, <1>4 DEF RequestRecords
<1>6. OwnStepAlone(r, b)
  BY <1>1, <1>5 DEF OwnStepAlone, Approvers
<1>7. a.status = "pending" => Sound(r, b)
  BY <1>1, <1>5, <1>6, FreshIsSound
<1> QED BY <1>1, <1>2, <1>5, <1>7

(* The requester changes the dates.                                        *)
LEMMA UpdatedIsSound ==
  ASSUME NEW r \in Requests, NEW a, Sound(r, a), a.status = "pending", NEW span \in Spans
  PROVE  Sound(r, Updated(a, span)) /\ Updated(a, span).status = "pending"
<1> DEFINE f == Reopen(a.steps)
           b == [a EXCEPT !.first = span[1], !.last = span[2], !.steps = f]
<1>1. a \in RequestRecords /\ OwnStepAlone(r, a)
  BY DEF Sound
<1>2. /\ f \in [DOMAIN a.steps -> StepRecords]
      /\ \A j \in DOMAIN a.steps :
           f[j].approver = a.steps[j].approver /\ f[j].status = "pending"
  BY <1>1, ReopenIs
<1>3. Updated(a, span) = b
  BY DEF Updated
<1>4. b = [a EXCEPT !.first = span[1], !.last = span[2], !.steps = f]
  OBVIOUS
<1> HIDE DEF b, f
<1>5. /\ f \in {s \in Seq(StepRecords) : Len(s) <= MaxLevels}
      /\ DOMAIN f = DOMAIN a.steps /\ Len(f) = Len(a.steps)
  BY <1>1, <1>2, StepsOfType
<1>6. span[1] \in Nat /\ span[2] \in Nat
  BY HandlersAssumption
<1>7. b \in RequestRecords /\ b.status = "pending" /\ b.steps = f
  BY <1>1, <1>4, <1>5, <1>6 DEF RequestRecords
<1>8. OwnStepAlone(r, b)
  BY <1>1, <1>2, <1>5, <1>7, OwnStepKept
<1> QED BY <1>2, <1>3, <1>5, <1>7, <1>8, FreshIsSound

(* An approval is taken back and the chain starts again.                   *)
LEMMA UnapprovedIsSound ==
  ASSUME NEW r \in Requests, NEW a, Sound(r, a)
  PROVE  Sound(r, Unapproved(a)) /\ Unapproved(a).status = "pending"
<1> DEFINE f == Reopen(a.steps)
           b == [a EXCEPT !.status = "pending", !.reviewer = NoOne, !.steps = f]
<1>1. a \in RequestRecords /\ OwnStepAlone(r, a)
  BY DEF Sound
<1>2. /\ f \in [DOMAIN a.steps -> StepRecords]
      /\ \A j \in DOMAIN a.steps :
           f[j].approver = a.steps[j].approver /\ f[j].status = "pending"
  BY <1>1, ReopenIs
<1>3. Unapproved(a) = b
  BY DEF Unapproved
<1>4. b = [a EXCEPT !.status = "pending", !.reviewer = NoOne, !.steps = f]
  OBVIOUS
<1> HIDE DEF b, f
<1>5. /\ f \in {s \in Seq(StepRecords) : Len(s) <= MaxLevels}
      /\ DOMAIN f = DOMAIN a.steps /\ Len(f) = Len(a.steps)
  BY <1>1, <1>2, StepsOfType
<1>6. b \in RequestRecords /\ b.status = "pending" /\ b.steps = f
  BY <1>1, <1>4, <1>5 DEF RequestRecords, Statuses
<1>7. OwnStepAlone(r, b)
  BY <1>1, <1>2, <1>5, <1>6, OwnStepKept
<1> QED BY <1>2, <1>3, <1>5, <1>6, <1>7, FreshIsSound

(* Closing a request nobody approved: withdrawn or out of time.            *)
LEMMA WithdrawnIsSound ==
  ASSUME NEW r \in Requests, NEW a, Sound(r, a), a.status = "pending",
         NEW st \in {"cancelled", "expired"}, NEW d \in Days
  PROVE  Sound(r, Closed(a, st, d)) /\ Closed(a, st, d).status = st
<1> DEFINE b == Closed(a, st, d)
<1>1. a \in RequestRecords /\ OwnStepAlone(r, a) /\ st \in Statuses
  BY DEF Sound, Statuses
<1>2. /\ b \in RequestRecords /\ b.status = st
      /\ DOMAIN b.steps = DOMAIN a.steps /\ Len(b.steps) = Len(a.steps)
      /\ \A j \in DOMAIN a.steps :
           /\ b.steps[j].approver = a.steps[j].approver
           /\ b.steps[j].status =
                IF a.steps[j].status = "pending" THEN "skipped" ELSE a.steps[j].status
  BY <1>1, ClosedIs
<1> HIDE DEF b
<1>3. OwnStepAlone(r, b)
  BY <1>1, <1>2, OwnStepKept
<1>4. SomebodysTurn(b) /\ ElseApproved(r, b)
  BY <1>2 DEF SomebodysTurn, ElseApproved
<1>5. StepsTellThe(b)
  BY <1>2 DEF StepsTellThe, Having
<1> QED BY <1>2, <1>3, <1>4, <1>5 DEF Sound, b

(* Deciding the steps of a pending request one way or the other: what      *)
(* review, override and self-approval have in common.                      *)
LEMMA DecidedIsSound ==
  ASSUME NEW r \in Requests, NEW a \in RequestRecords, OwnStepAlone(r, a),
         NEW b \in RequestRecords, NEW i \in DOMAIN a.steps,
         DOMAIN b.steps = DOMAIN a.steps, Len(b.steps) = Len(a.steps),
         \A j \in DOMAIN a.steps : b.steps[j].approver = a.steps[j].approver,
         b.status \in {"approved", "rejected"},
         b.steps[i].status = b.status,
         \A j \in DOMAIN a.steps \ {i} : b.steps[j].status \in {"approved", "skipped"},
         b.status = "approved" =>
           b.reviewer \in People /\ (b.reviewer = Owner[r] => Len(a.steps) = 1
                                       /\ a.steps[i].approver = Owner[r])
  PROVE  Sound(r, b)
<1>1. OwnStepAlone(r, b)
  BY OwnStepKept
<1>2. SomebodysTurn(b)
  BY DEF SomebodysTurn
<1>3. StepsTellThe(b)
  <2>1. Having(b, "pending") = {}
    BY DEF Having
  <2>2. CASE b.status = "approved"
    BY <2>1, <2>2 DEF StepsTellThe, Having
  <2>3. CASE b.status = "rejected"
    <3>1. Having(b, "rejected") = {i}
      BY <2>3 DEF Having
    <3> QED BY <2>1, <2>3, <3>1 DEF StepsTellThe
  <2> QED BY <2>2, <2>3
<1>4. ElseApproved(r, b)
  <2> SUFFICES ASSUME b.status = "approved", b.reviewer = Owner[r]
               PROVE  Approvers(b) = {Owner[r]}
    BY DEF ElseApproved
  <2>1. Len(a.steps) = 1 /\ DOMAIN a.steps = 1 .. Len(a.steps)
    BY DEF RequestRecords
  <2>2. DOMAIN a.steps = {i}
    BY <2>1
  <2> QED BY <2>2 DEF Approvers
<1> QED BY <1>1, <1>2, <1>3, <1>4 DEF Sound

(* An approver's decision: all steps before are approved, so approving the *)
(* last open one leaves only approved steps.                               *)
LEMMA ReviewedIsSound ==
  ASSUME NEW r \in Requests, NEW a, Sound(r, a), a.status = "pending",
         NEW i, IsCurrent(a, i), NEW p \in People \ {Owner[r]},
         NEW verdict \in Verdicts, NEW d \in Days
  PROVE  /\ Sound(r, Reviewed(a, i, verdict, p, d))
         /\ Reviewed(a, i, verdict, p, d).status \in {"pending", "approved", "rejected"}
<1>1. a \in RequestRecords /\ OwnStepAlone(r, a) /\ SomebodysTurn(a) /\ i \in DOMAIN a.steps
  BY DEF Sound, IsCurrent, IsOpen
<1>2. \A j \in DOMAIN a.steps :
        a.steps[j].status = IF j < i THEN "approved" ELSE "pending"
  BY <1>1, TheTurn
<1>3. DOMAIN a.steps = 1 .. Len(a.steps) /\ Len(a.steps) \in Nat
  BY <1>1 DEF RequestRecords
<1>4. CASE verdict = "approved"
  <2> DEFINE m == Marked(a, i, "approved", d)
             b == [m EXCEPT !.status = "approved", !.reviewer = p]
  <2>1. /\ m \in RequestRecords /\ m.status = a.status
        /\ DOMAIN m.steps = DOMAIN a.steps /\ Len(m.steps) = Len(a.steps)
        /\ \A j \in DOMAIN a.steps :
             /\ m.steps[j].approver = a.steps[j].approver
             /\ m.steps[j].status = IF j = i THEN "approved" ELSE a.steps[j].status
    BY <1>1, MarkedIs DEF StepStatuses
  <2>2. Reviewed(a, i, verdict, p, d) =
          IF \E j \in DOMAIN m.steps : IsOpen(m, j) THEN m ELSE b
    BY <1>4 DEF Reviewed, Approved
  <2>3. b = [m EXCEPT !.status = "approved", !.reviewer = p]
    OBVIOUS
  <2> HIDE DEF m, b
  <2>4. b \in RequestRecords /\ b.status = "approved" /\ b.reviewer = p /\ b.steps = m.steps
    BY <2>1, <2>3 DEF RequestRecords, Statuses
  <2>5. CASE \E j \in DOMAIN m.steps : IsOpen(m, j)
    <3>1. i + 1 \in DOMAIN m.steps
      <4>1. PICK j \in DOMAIN m.steps : m.steps[j].status = "pending"
        BY <2>5 DEF IsOpen
      <4>2. ~ (j < i) /\ j # i
        BY <1>2, <2>1, <4>1
      <4> QED BY <1>1, <1>3, <2>1, <4>2
    <3>2. \A j \in DOMAIN m.steps :
            m.steps[j].status = IF j < i + 1 THEN "approved" ELSE "pending"
      BY <1>1, <1>2, <1>3, <2>1
    <3>3. IsCurrent(m, i + 1)
      <4>1. \A j \in 1 .. (i+1) - 1 : j \in DOMAIN m.steps /\ j < i + 1
        BY <1>1, <1>3, <2>1
      <4>2. m.steps[i + 1].status = "pending"
        BY <1>1, <1>3, <3>1, <3>2
      <4> QED BY <3>1, <3>2, <4>1, <4>2 DEF IsCurrent, IsOpen
    <3>4. \A j \in DOMAIN m.steps : j >= i + 1 => IsOpen(m, j)
      BY <1>1, <1>3, <2>1, <3>2 DEF IsOpen
    <3>5. SomebodysTurn(m)
      BY <3>1, <3>3, <3>4 DEF SomebodysTurn
    <3>6. OwnStepAlone(r, m)
      BY <1>1, <2>1, OwnStepKept
    <3>7. StepsTellThe(m) /\ ElseApproved(r, m)
      BY <2>1 DEF StepsTellThe, ElseApproved
    <3> QED BY <2>1, <2>2, <2>5, <3>5, <3>6, <3>7 DEF Sound
  <2>6. CASE ~ \E j \in DOMAIN m.steps : IsOpen(m, j)
    <3>1. \A j \in DOMAIN a.steps : b.steps[j].status = "approved"
      BY <1>2, <2>1, <2>4, <2>6 DEF IsOpen
    <3>2. /\ DOMAIN b.steps = DOMAIN a.steps /\ Len(b.steps) = Len(a.steps)
          /\ \A j \in DOMAIN a.steps : b.steps[j].approver = a.steps[j].approver
      BY <2>1, <2>4
    <3>3. b.reviewer \in People /\ b.reviewer # Owner[r]
      BY <2>4
    <3>4. Sound(r, b)
      BY <1>1, <2>4, <3>1, <3>2, <3>3, DecidedIsSound
    <3> QED BY <2>2, <2>4, <2>6, <3>4
  <2> QED BY <2>5, <2>6
<1>5. CASE verdict = "rejected"
  <2> DEFINE m == Marked(a, i, "rejected", d)
             c == Closed(m, "rejected", d)
             b == [c EXCEPT !.reviewer = p]
  <2>1. /\ m \in RequestRecords
        /\ DOMAIN m.steps = DOMAIN a.steps /\ Len(m.steps) = Len(a.steps)
        /\ \A j \in DOMAIN a.steps :
             /\ m.steps[j].approver = a.steps[j].approver
             /\ m.steps[j].status = IF j = i THEN "rejected" ELSE a.steps[j].status
    BY <1>1, MarkedIs DEF StepStatuses
  <2>2. Reviewed(a, i, verdict, p, d) = b
    BY <1>5 DEF Reviewed, Rejected
  <2> HIDE DEF m
  <2>3. /\ c \in RequestRecords /\ c.status = "rejected"
        /\ DOMAIN c.steps = DOMAIN m.steps /\ Len(c.steps) = Len(m.steps)
        /\ \A j \in DOMAIN m.steps :
             /\ c.steps[j].approver = m.steps[j].approver
             /\ c.steps[j].status =
                  IF m.steps[j].status = "pending" THEN "skipped" ELSE m.steps[j].status
    <3>1. "rejected" \in Statuses
      BY DEF Statuses
    <3> QED BY <2>1, <3>1, ClosedIs
  <2>4. b = [c EXCEPT !.reviewer = p]
    OBVIOUS
  <2> HIDE DEF c, b
  <2>5. b \in RequestRecords /\ b.status = "rejected" /\ b.steps = c.steps
    BY <2>3, <2>4 DEF RequestRecords
  <2>6. /\ \A j \in DOMAIN a.steps \ {i} : b.steps[j].status \in {"approved", "skipped"}
        /\ b.steps[i].status = "rejected"
    BY <1>1, <1>2, <2>1, <2>3, <2>5
  <2>7. /\ DOMAIN b.steps = DOMAIN a.steps /\ Len(b.steps) = Len(a.steps)
        /\ \A j \in DOMAIN a.steps : b.steps[j].approver = a.steps[j].approver
    BY <2>1, <2>3, <2>5
  <2>8. Sound(r, b)
    BY <1>1, <2>5, <2>6, <2>7, DecidedIsSound
  <2> QED BY <2>2, <2>5, <2>8
<1> QED BY <1>4, <1>5 DEF Verdicts

(* The requester's own step: it is the only one.                           *)
LEMMA SelfApprovedIsSound ==
  ASSUME NEW r \in Requests, NEW a, Sound(r, a),
         NEW i \in DOMAIN a.steps, a.steps[i].approver = Owner[r], NEW d \in Days
  PROVE  Sound(r, SelfApproved(r, a, i, d)) /\ SelfApproved(r, a, i, d).status = "approved"
<1> DEFINE m == Marked(a, i, "approved", d)
           b == [m EXCEPT !.status = "approved", !.reviewer = Owner[r]]
<1>1. a \in RequestRecords /\ OwnStepAlone(r, a)
  BY DEF Sound
<1>2. /\ m \in RequestRecords
      /\ DOMAIN m.steps = DOMAIN a.steps /\ Len(m.steps) = Len(a.steps)
      /\ \A j \in DOMAIN a.steps :
           /\ m.steps[j].approver = a.steps[j].approver
           /\ m.steps[j].status = IF j = i THEN "approved" ELSE a.steps[j].status
  BY <1>1, MarkedIs DEF StepStatuses
<1>3. SelfApproved(r, a, i, d) = b
  BY DEF SelfApproved
<1>4. b = [m EXCEPT !.status = "approved", !.reviewer = Owner[r]]
  OBVIOUS
<1> HIDE DEF m, b
<1>5. Owner[r] \in People
  BY HandlersAssumption
<1>6. /\ b \in RequestRecords /\ b.status = "approved" /\ b.reviewer = Owner[r]
      /\ b.steps = m.steps
  BY <1>2, <1>4, <1>5 DEF RequestRecords, Statuses
<1>7. Len(a.steps) = 1 /\ DOMAIN a.steps = 1 .. Len(a.steps)
  BY <1>1 DEF OwnStepAlone, Approvers, RequestRecords
<1>8. DOMAIN a.steps = {i}
  BY <1>7
<1>9. \A j \in DOMAIN a.steps : b.steps[j].approver = a.steps[j].approver
  BY <1>2, <1>6
<1>10. DOMAIN b.steps = DOMAIN a.steps /\ Len(b.steps) = Len(a.steps) /\ b.steps[i].status = "approved"
  BY <1>2, <1>6
<1>11. Sound(r, b)
  BY <1>1, <1>5, <1>6, <1>7, <1>8, <1>9, <1>10, DecidedIsSound
<1> QED BY <1>3, <1>6, <1>11

(* Somebody steps in: the current step carries the decision, the rest are  *)
(* skipped.                                                                *)
LEMMA OverriddenIsSound ==
  ASSUME NEW r \in Requests, NEW a, Sound(r, a), a.status = "pending", a.steps # <<>>,
         NEW p \in People \ {Owner[r]}, NEW verdict \in Verdicts, NEW d \in Days
  PROVE  /\ Sound(r, Overridden(a, verdict, p, d))
         /\ Overridden(a, verdict, p, d).status = verdict
<1> DEFINE i == Current(a)
           m == Marked(a, i, verdict, d)
           c == Closed(m, verdict, d)
           b == [c EXCEPT !.reviewer = p]
<1>1. a \in RequestRecords /\ OwnStepAlone(r, a) /\ SomebodysTurn(a)
  BY DEF Sound
<1>2. HasCurrent(a) /\ i \in DOMAIN a.steps /\ IsCurrent(a, i)
  BY <1>1, SomebodyIsCurrent
<1>3. \A j \in DOMAIN a.steps :
        a.steps[j].status = IF j < i THEN "approved" ELSE "pending"
  BY <1>1, <1>2, TheTurn
<1>4. Overridden(a, verdict, p, d) = b
  BY <1>2 DEF Overridden
<1> HIDE DEF i
<1>5. /\ m \in RequestRecords
      /\ DOMAIN m.steps = DOMAIN a.steps /\ Len(m.steps) = Len(a.steps)
      /\ \A j \in DOMAIN a.steps :
           /\ m.steps[j].approver = a.steps[j].approver
           /\ m.steps[j].status = IF j = i THEN verdict ELSE a.steps[j].status
  BY <1>1, <1>2, MarkedIs DEF StepStatuses, Verdicts
<1> HIDE DEF m
<1>6. /\ c \in RequestRecords /\ c.status = verdict
      /\ DOMAIN c.steps = DOMAIN m.steps /\ Len(c.steps) = Len(m.steps)
      /\ \A j \in DOMAIN m.steps :
           /\ c.steps[j].approver = m.steps[j].approver
           /\ c.steps[j].status =
                IF m.steps[j].status = "pending" THEN "skipped" ELSE m.steps[j].status
  <2>1. verdict \in Statuses
    BY DEF Statuses, Verdicts
  <2> QED BY <1>5, <2>1, ClosedIs
<1>7. b = [c EXCEPT !.reviewer = p]
  OBVIOUS
<1> HIDE DEF c, b
<1>8. b \in RequestRecords /\ b.status = verdict /\ b.reviewer = p /\ b.steps = c.steps
  BY <1>6, <1>7 DEF RequestRecords
<1>9. /\ \A j \in DOMAIN a.steps \ {i} : b.steps[j].status \in {"approved", "skipped"}
      /\ b.steps[i].status = verdict
  BY <1>2, <1>3, <1>5, <1>6, <1>8 DEF Verdicts
<1>10. /\ DOMAIN b.steps = DOMAIN a.steps /\ Len(b.steps) = Len(a.steps)
       /\ \A j \in DOMAIN a.steps : b.steps[j].approver = a.steps[j].approver
  BY <1>5, <1>6, <1>8
<1>11. Sound(r, b)
  BY <1>1, <1>2, <1>8, <1>9, <1>10, DecidedIsSound DEF Verdicts
<1> QED BY <1>4, <1>8, <1>11

(* The step a refusal marks, the caller's own or the last, is one of them. *)
LEMMA RevokeTargetIs ==
  ASSUME NEW a \in RequestRecords, a.steps # <<>>, NEW p
  PROVE  RevokeTarget(a, p) \in DOMAIN a.steps
<1>1. DOMAIN a.steps = 1 .. Len(a.steps) /\ Len(a.steps) \in Nat \ {0}
  BY EmptySeq DEF RequestRecords
<1>2. CASE OwnApproved(a, p) # {}
  <2>1. OwnApproved(a, p) \subseteq DOMAIN a.steps /\ DOMAIN a.steps \subseteq Nat
    BY <1>1 DEF OwnApproved
  <2>2. Least(OwnApproved(a, p)) \in OwnApproved(a, p)
    BY <1>2, <2>1, LeastExists
  <2> QED BY <1>2, <2>1, <2>2 DEF RevokeTarget
<1>3. CASE OwnApproved(a, p) = {}
  BY <1>1, <1>3 DEF RevokeTarget
<1> QED BY <1>2, <1>3

(* An approval is turned into a refusal: one approved step, or the last,   *)
(* becomes the only rejected one.                                          *)
LEMMA RefusedIsSound ==
  ASSUME NEW r \in Requests, NEW a, Sound(r, a), a.status = "approved", a.steps # <<>>,
         NEW p \in People, NEW d \in Days
  PROVE  Sound(r, Refused(a, p, d)) /\ Refused(a, p, d).status = "rejected"
<1> DEFINE i == RevokeTarget(a, p)
           m == Marked(a, i, "rejected", d)
           b == [m EXCEPT !.status = "rejected", !.reviewer = p]
<1>1. a \in RequestRecords /\ OwnStepAlone(r, a) /\ StepsTellThe(a)
  BY DEF Sound
<1>3. i \in DOMAIN a.steps
  BY <1>1, RevokeTargetIs
<1>4. Refused(a, p, d) = b
  BY DEF Refused
<1> HIDE DEF i
<1>5. /\ m \in RequestRecords
      /\ DOMAIN m.steps = DOMAIN a.steps /\ Len(m.steps) = Len(a.steps)
      /\ \A j \in DOMAIN a.steps :
           /\ m.steps[j].approver = a.steps[j].approver
           /\ m.steps[j].status = IF j = i THEN "rejected" ELSE a.steps[j].status
  BY <1>1, <1>3, MarkedIs DEF StepStatuses
<1>6. b = [m EXCEPT !.status = "rejected", !.reviewer = p]
  OBVIOUS
<1> HIDE DEF m, b
<1>7. b \in RequestRecords /\ b.status = "rejected" /\ b.steps = m.steps
  BY <1>5, <1>6 DEF RequestRecords, Statuses
<1>8. \A j \in DOMAIN a.steps : a.steps[j].status \in {"approved", "skipped"}
  <2>1. \A j \in DOMAIN a.steps : a.steps[j].status \in {"pending", "approved", "rejected", "skipped"}
    <3>1. \A j \in DOMAIN a.steps : a.steps[j] \in StepRecords
      BY <1>1 DEF RequestRecords
    <3> QED BY <3>1 DEF StepRecords
  <2> QED BY <1>1, <2>1 DEF StepsTellThe, Having
<1>9. /\ \A j \in DOMAIN a.steps \ {i} : b.steps[j].status \in {"approved", "skipped"}
      /\ b.steps[i].status = "rejected"
  BY <1>3, <1>5, <1>7, <1>8
<1>10. /\ DOMAIN b.steps = DOMAIN a.steps /\ Len(b.steps) = Len(a.steps)
       /\ \A j \in DOMAIN a.steps : b.steps[j].approver = a.steps[j].approver
  BY <1>5, <1>7
<1>11. Sound(r, b)
  BY <1>1, <1>3, <1>7, <1>9, <1>10, DecidedIsSound
<1> QED BY <1>4, <1>7, <1>11

(* A step goes to somebody else.                                           *)
LEMMA ReassignedIsSound ==
  ASSUME NEW r \in Requests, NEW a, Sound(r, a), a.status = "pending",
         NEW i \in DOMAIN a.steps, NEW q \in People \ {Owner[r]}, NEW d \in Days
  PROVE  Sound(r, Reassigned(a, i, q, d)) /\ Reassigned(a, i, q, d).status = "pending"
<1> DEFINE f == [a.steps EXCEPT ![i] = [@ EXCEPT !.approver = q, !.moved = d]]
           b == [a EXCEPT !.steps = f]
<1>1. a \in RequestRecords
  BY DEF Sound
<1>2. a.steps \in Seq(StepRecords) /\ \A j \in DOMAIN a.steps : a.steps[j] \in StepRecords
  BY <1>1 DEF RequestRecords
<1>3. [a.steps[i] EXCEPT !.approver = q, !.moved = d] \in StepRecords
  BY <1>2 DEF StepRecords
<1>4. f \in [DOMAIN a.steps -> StepRecords]
  BY <1>2, <1>3
<1>5. \A j \in DOMAIN a.steps :
        /\ f[j].status = a.steps[j].status
        /\ f[j].approver = a.steps[j].approver \/ f[j].approver # Owner[r]
  BY <1>2 DEF StepRecords
<1>6. Reassigned(a, i, q, d) = b
  BY <1>1 DEF Reassigned, RequestRecords
<1>7. b = [a EXCEPT !.steps = f]
  OBVIOUS
<1> HIDE DEF f, b
<1>8. /\ f \in {s \in Seq(StepRecords) : Len(s) <= MaxLevels}
      /\ DOMAIN f = DOMAIN a.steps /\ Len(f) = Len(a.steps)
  BY <1>1, <1>4, StepsOfType
<1>9. b \in RequestRecords /\ b.status = "pending" /\ b.steps = f
  BY <1>1, <1>7, <1>8 DEF RequestRecords
<1> QED BY <1>1, <1>5, <1>6, <1>8, <1>9, ReroutedIsSound

-----------------------------------------------------------------------------
(* The daily job and the handover of a leaver's steps.                     *)

(* Whoever an escalation names is a person, and not the requester.         *)
LEMMA EscalationTargetIs ==
  ASSUME NEW org, org.active \subseteq People, NEW r \in Requests, NEW approver \in People
  PROVE  EscalationTarget(org, r, approver) = NoOne
         \/ EscalationTarget(org, r, approver) \in org.active \ {Owner[r]}
<1> DEFINE others == FullScopeEditors(org) \ {Owner[r], approver}
<1>1. others \subseteq org.active \ {Owner[r]} /\ others \subseteq Nat
  BY AccessAssumption DEF FullScopeEditors
<1>2. others # {} => Least(others \cap FullScopeEditors(org)) \in others
                       /\ Least(others) \in others
  <2> SUFFICES ASSUME others # {}
               PROVE  Least(others \cap FullScopeEditors(org)) \in others
                        /\ Least(others) \in others
    OBVIOUS
  <2>1. others \cap FullScopeEditors(org) = others
    OBVIOUS
  <2>2. Least(others) \in others
    BY <1>1, LeastExists
  <2> QED BY <2>1, <2>2
<1>3. others # {} => FirstEditor(org, others) \in org.active \ {Owner[r]}
  BY <1>1, <1>2 DEF FirstEditor
<1>4. ReportsTo[approver] \in org.active \ {Owner[r], approver} =>
        ReportsTo[approver] \in org.active \ {Owner[r]}
  OBVIOUS
<1> HIDE DEF others
<1>5. EscalationTarget(org, r, approver) =
        IF ReportsTo[approver] \in org.active \ {Owner[r], approver} THEN ReportsTo[approver]
        ELSE IF others # {} THEN FirstEditor(org, others) ELSE NoOne
  BY DEF EscalationTarget, others
<1> QED BY <1>3, <1>4, <1>5

(* The job passes a step on.                                               *)
LEMMA EscalatedIsSound ==
  ASSUME NEW r \in Requests, NEW a, Sound(r, a), a.status = "pending",
         NEW i \in DOMAIN a.steps, NEW q \in People \ {Owner[r]}, NEW d \in Days
  PROVE  Sound(r, Escalated(a, i, q, d)) /\ Escalated(a, i, q, d).status = "pending"
<1> DEFINE n == a.steps[i].escalations + 1
           f == [a.steps EXCEPT ![i] =
                   [@ EXCEPT !.approver = q, !.escalations = n, !.moved = d]]
           b == [a EXCEPT !.steps = f]
<1>1. a \in RequestRecords
  BY DEF Sound
<1>2. a.steps \in Seq(StepRecords) /\ \A j \in DOMAIN a.steps : a.steps[j] \in StepRecords
  BY <1>1 DEF RequestRecords
<1>3. [a.steps[i] EXCEPT !.approver = q, !.escalations = n, !.moved = d] \in StepRecords
  <2>1. a.steps[i] \in StepRecords
    BY <1>2
  <2>2. n \in Nat
    BY <2>1 DEF StepRecords
  <2> HIDE DEF n
  <2> QED BY <2>1, <2>2 DEF StepRecords
<1>4. f \in [DOMAIN a.steps -> StepRecords]
  BY <1>2, <1>3
<1>5. \A j \in DOMAIN a.steps :
        /\ f[j].status = a.steps[j].status
        /\ f[j].approver = a.steps[j].approver \/ f[j].approver # Owner[r]
  BY <1>2 DEF StepRecords
<1>6. Escalated(a, i, q, d) = b
  BY <1>1 DEF Escalated, RequestRecords
<1>7. b = [a EXCEPT !.steps = f]
  OBVIOUS
<1> HIDE DEF f, b
<1>8. /\ f \in {s \in Seq(StepRecords) : Len(s) <= MaxLevels}
      /\ DOMAIN f = DOMAIN a.steps /\ Len(f) = Len(a.steps)
  BY <1>1, <1>4, StepsOfType
<1>9. b \in RequestRecords /\ b.status = "pending" /\ b.steps = f
  BY <1>1, <1>7, <1>8 DEF RequestRecords
<1> QED BY <1>1, <1>5, <1>6, <1>8, <1>9, ReroutedIsSound

(* The daily job on one request: it may route, pass on or expire it, and   *)
(* never touches an approval.                                              *)
LEMMA JobIsSound ==
  ASSUME NEW org \in Companies, NEW r \in Requests, NEW a, Sound(r, a), NEW d \in Days
  PROVE  /\ Sound(r, JobOn(org, r, a, Ensured(org, r, a, d), d))
         /\ JobOn(org, r, a, Ensured(org, r, a, d), d).status = "approved" <=>
              a.status = "approved"
<1> DEFINE chained == Ensured(org, r, a, d)
           i == Current(a)
           target == EscalationTarget(org, r, a.steps[i].approver)
<1>1. Sound(r, chained) /\ chained.status = a.status
  BY EnsuredIsSound
<1>2. a \in RequestRecords /\ SomebodysTurn(a) /\ org.active \subseteq People
  BY DEF Sound, Companies
<1>3. CASE a.status # "pending" \/ chained # a
  BY <1>1, <1>3 DEF JobOn
<1>4. CASE a.status = "pending" /\ chained = a
  <2>1. JobOn(org, r, a, chained, d) = Worked(org, r, a, d)
    BY <1>4 DEF JobOn
  <2>2. CASE a.last < d
    BY <1>4, <2>1, <2>2, WithdrawnIsSound DEF Worked
  <2>3. CASE ~ (a.last < d) /\ ~ HasCurrent(a)
    BY <1>4, <2>1, <2>3 DEF Worked
  <2>4. CASE ~ (a.last < d) /\ HasCurrent(a)
    <3>1. Worked(org, r, a, d) = OnWaiting(org, r, a, i, d)
      BY <2>4 DEF Worked
    <3>2. i \in DOMAIN a.steps
      BY <2>4 DEF HasCurrent, Current, IsCurrent, IsOpen
    <3>3. a.steps[i].approver \in People
      <4>1. a.steps[i] \in StepRecords
        BY <1>2, <3>2 DEF RequestRecords
      <4> QED BY <4>1 DEF StepRecords
    <3>4. target = NoOne \/ target \in People \ {Owner[r]}
      BY <1>2, <3>3, EscalationTargetIs
    <3> HIDE DEF i
    <3>5. \/ Worked(org, r, a, d) = a
          \/ target # NoOne /\ Worked(org, r, a, d) = Escalated(a, i, target, d)
      BY <3>1 DEF OnWaiting, Chased
    <3> HIDE DEF target
    <3>6. CASE Worked(org, r, a, d) = a
      BY <1>4, <2>1, <3>6
    <3>7. CASE target # NoOne /\ Worked(org, r, a, d) = Escalated(a, i, target, d)
      <4>1. Sound(r, Escalated(a, i, target, d)) /\ Escalated(a, i, target, d).status = "pending"
        BY <1>4, <3>2, <3>4, <3>7, EscalatedIsSound
      <4> QED BY <1>4, <2>1, <3>7, <4>1
    <3> QED BY <3>5, <3>6, <3>7
  <2> QED BY <2>2, <2>3, <2>4
<1> QED BY <1>3, <1>4

(* Whoever takes over from a leaver is a person, and not the requester.    *)
LEMMA ReplacementIs ==
  ASSUME NEW org \in Companies, NEW r \in Requests,
         NEW leaving \in People, NEW taken \in SUBSET People
  PROVE  Replacement(org, r, leaving, taken) = NoOne
         \/ Replacement(org, r, leaving, taken) \in org.active \ {Owner[r]}
<1> DEFINE banned == {Owner[r], leaving}
           chain == ResolveChain(org, Owner[r], banned \cup taken)
           fallback == Fallback(org, Owner[r], banned)
           others == FullScopeEditors(org) \ (banned \cup {Owner[r]})
<1>0. Owner[r] \in People /\ org.active \subseteq People
  BY HandlersAssumption DEF Companies
<1>1. others \subseteq org.active \ {Owner[r]} /\ others \subseteq Nat
  BY <1>0, AccessAssumption DEF FullScopeEditors
<1>2. others # {} => FirstEditor(org, others) \in org.active \ {Owner[r]}
  <2> SUFFICES ASSUME others # {} PROVE FirstEditor(org, others) \in org.active \ {Owner[r]}
    OBVIOUS
  <2>1. others \cap FullScopeEditors(org) = others
    OBVIOUS
  <2>2. Least(others) \in others
    BY <1>1, LeastExists
  <2> QED BY <1>1, <2>1, <2>2 DEF FirstEditor
<1>3. fallback = NoOne \/ fallback \in org.active \ {Owner[r]}
  <2>1. fallback = IF ReportsTo[Owner[r]] \in org.active \ (banned \cup {Owner[r]})
                   THEN ReportsTo[Owner[r]]
                   ELSE IF others # {} THEN FirstEditor(org, others) ELSE NoOne
    BY DEF Fallback
  <2> HIDE DEF fallback, others
  <2> QED BY <1>0, <1>2, <2>1
<1>4. /\ chain \in Seq(People)
      /\ \/ \A i \in DOMAIN chain : chain[i] \in org.active
         \/ chain = <<Owner[r]>>
  <2>1. banned \cup taken \in SUBSET People
    BY <1>0
  <2>2. ChainFor(org, Owner[r], banned \cup taken, MaxLevels, chain)
    BY <2>1, ChainContract
  <2> QED BY <2>2 DEF ChainFor
<1>5. Replacement(org, r, leaving, taken) =
        IF chain # <<>> /\ chain[1] \notin banned \cup taken THEN chain[1] ELSE fallback
  BY DEF Replacement, Successor
<1>6. chain # <<>> => chain[1] \in org.active \/ chain[1] = Owner[r]
  <2> HIDE DEF chain
  <2>1. chain # <<>> => 1 \in DOMAIN chain
    BY <1>4, EmptySeq
  <2> QED BY <1>4, <2>1
<1>7. Owner[r] \in banned
  OBVIOUS
<1> HIDE DEF chain, fallback, others
<1> QED BY <1>3, <1>5, <1>6, <1>7

(* The steps of a leaver go to others.                                     *)
LEMMA ReleasedIsSound ==
  ASSUME NEW org \in Companies, NEW r \in Requests, NEW a, Sound(r, a), a.status = "pending",
         NEW p \in People, NEW to \in [1 .. MaxLevels -> People],
         HandedOver(org, r, a, p, to), NEW d \in Days
  PROVE  Sound(r, Released(a, to, d)) /\ Released(a, to, d).status = "pending"
<1> DEFINE f == [i \in DOMAIN a.steps |->
                   IF a.steps[i].approver # to[i]
                   THEN [a.steps[i] EXCEPT !.approver = to[i], !.moved = d]
                   ELSE a.steps[i]]
           b == [a EXCEPT !.steps = f]
<1>1. a \in RequestRecords
  BY DEF Sound
<1>2. /\ a.steps \in Seq(StepRecords) /\ Len(a.steps) <= MaxLevels
      /\ \A j \in DOMAIN a.steps : a.steps[j] \in StepRecords
      /\ DOMAIN a.steps = 1 .. Len(a.steps) /\ Len(a.steps) \in Nat
  BY <1>1 DEF RequestRecords
<1>3. ASSUME NEW j \in DOMAIN a.steps
      PROVE  to[j] \in People /\ (to[j] = a.steps[j].approver \/ to[j] # Owner[r])
  <2> DEFINE taken == {to[k] : k \in 1 .. j-1}
                      \cup {a.steps[k].approver : k \in j .. Len(a.steps)}
  <2>0. MaxLevels \in Nat
    BY HandlersAssumption
  <2>1. to[j] \in People /\ \A k \in 1 .. j-1 : to[k] \in People
    BY <1>2, <2>0
  <2>2. taken \in SUBSET People
    BY <1>2, <2>1 DEF StepRecords
  <2>3. HandsOver(a.steps[j], p, Replacement(org, r, p, taken), to[j])
    BY DEF HandedOver
  <2> HIDE DEF taken
  <2>4. Replacement(org, r, p, taken) = NoOne
        \/ Replacement(org, r, p, taken) \in People \ {Owner[r]}
    BY <2>2, ReplacementIs DEF Companies
  <2> QED BY <2>1, <2>3, <2>4 DEF HandsOver
<1>4. \A j \in DOMAIN a.steps :
        [a.steps[j] EXCEPT !.approver = to[j], !.moved = d] \in StepRecords
  BY <1>2, <1>3 DEF StepRecords
<1>5. f \in [DOMAIN a.steps -> StepRecords]
  BY <1>2, <1>4
<1>6. \A j \in DOMAIN a.steps :
        /\ f[j].status = a.steps[j].status
        /\ f[j].approver = a.steps[j].approver \/ f[j].approver # Owner[r]
  BY <1>2, <1>3 DEF StepRecords
<1>7. Released(a, to, d) = b
  BY DEF Released
<1>8. b = [a EXCEPT !.steps = f]
  OBVIOUS
<1> HIDE DEF f, b
<1>9. /\ f \in {s \in Seq(StepRecords) : Len(s) <= MaxLevels}
      /\ DOMAIN f = DOMAIN a.steps /\ Len(f) = Len(a.steps)
  BY <1>1, <1>5, StepsOfType
<1>10. b \in RequestRecords /\ b.status = "pending" /\ b.steps = f
  BY <1>1, <1>8, <1>9 DEF RequestRecords
<1> QED BY <1>1, <1>6, <1>7, <1>9, <1>10, ReroutedIsSound

-----------------------------------------------------------------------------
(* The invariant. AlwaysSomebodysTurn, StepsTellTheDecision and the rest   *)
(* are not inductive one by one: that a rejection leaves one rejected step *)
(* needs somebody's turn, that a refused revocation does needs that the    *)
(* approved request had none, and that a self-approval leaves no open step *)
(* needs that the requester's step stands alone.                           *)
Inv ==
  /\ TypeOK
  /\ \A r \in Requests : Sound(r, app[r])
  /\ RosterFollowsApproval

(* What the resolver is given is a company in the sense of its contract.   *)
LEMMA CompanyIs ==
  ASSUME TypeOK
  PROVE  /\ Company \in Companies
         /\ \A p \in People : CompanyWithout(p) \in Companies
<1>1. Away \subseteq People
  BY DEF Away
<1>2. Company \in Companies
  BY <1>1 DEF TypeOK, Company, Companies
<1>3. ASSUME NEW p \in People PROVE CompanyWithout(p) \in Companies
  <2>1. /\ Without(head, p) \in [Units -> Heads \cup {NoOne}]
        /\ Without(deputy, p) \in [Units -> Deputies \cup {NoOne}]
    BY DEF TypeOK, Without
  <2>2. CompanyWithout(p) = [Company EXCEPT !.active = active \ {p},
           !.head = Without(head, p), !.deputy = Without(deputy, p)]
    BY DEF CompanyWithout
  <2>3. active \ {p} \subseteq People
    BY DEF TypeOK
  <2> QED BY <1>2, <2>1, <2>2, <2>3 DEF Companies
<1> QED BY <1>2, <1>3

(* The reviewer role given to a new approver keeps the roles within the    *)
(* combinations the company uses.                                          *)
LEMMA RolesStayTyped ==
  ASSUME roles \in RoleMaps, NEW S
  PROVE  WithReviewerRole(roles, S) \in RoleMaps
<1>1. \A p \in People : roles[p] \in RolesFor[p] /\ roles[p] \in SUBSET RoleCodes
  BY DEF RoleMaps
<1>2. ASSUME NEW p \in People, roles[p] \cap ReviewerRoles = {}
      PROVE  /\ roles[p] \cup {"leave_approver"} \in RolesFor[p]
             /\ roles[p] \cup {"leave_approver"} \in SUBSET RoleCodes
  BY <1>1, <1>2, HandlersAssumption, AccessAssumption
<1> QED BY <1>1, <1>2 DEF WithReviewerRole, RoleMaps

(* Storing sound requests.                                                 *)
LEMMA CommitIs ==
  ASSUME Inv, NEW new \in [Requests -> RequestRecords],
         \A r \in Requests : Sound(r, new[r]), Commit(new)
  PROVE  /\ app' \in [Requests -> RequestRecords]
         /\ \A r \in Requests : app'[r] = new[r] /\ Sound(r, app'[r])
         /\ roles' \in RoleMaps
<1>1. app' = new
  BY DEF Commit
<1>2. roles' \in RoleMaps
  BY RolesStayTyped DEF Commit, Inv, TypeOK
<1> QED BY <1>1, <1>2

(* Storing one sound request.                                              *)
LEMMA SaveIs ==
  ASSUME Inv, NEW r \in Requests, NEW b, Sound(r, b), Save(r, b)
  PROVE  /\ app' \in [Requests -> RequestRecords]
         /\ app'[r] = b /\ \A q \in Requests \ {r} : app'[q] = app[q]
         /\ \A q \in Requests : Sound(q, app'[q])
         /\ roles' \in RoleMaps
<1> DEFINE new == [app EXCEPT ![r] = b]
<1>1. app \in [Requests -> RequestRecords] /\ b \in RequestRecords
  BY DEF Inv, TypeOK, Sound
<1>2. /\ new \in [Requests -> RequestRecords]
      /\ new[r] = b /\ \A q \in Requests \ {r} : new[q] = app[q]
  BY <1>1
<1>3. \A q \in Requests : Sound(q, new[q])
  BY <1>2 DEF Inv
<1>4. Commit(new)
  BY DEF Save
<1> HIDE DEF new
<1> QED BY <1>2, <1>3, <1>4, CommitIs

(* Storing a decision about a request that was not approved before.        *)
LEMMA DecidePreserves ==
  ASSUME Inv, NEW r \in Requests, app[r].status # "approved",
         NEW b, Sound(r, b), Decide(r, b)
  PROVE  Inv'
<1>1. /\ app' \in [Requests -> RequestRecords]
      /\ app'[r] = b /\ \A q \in Requests \ {r} : app'[q] = app[q]
      /\ \A q \in Requests : Sound(q, app'[q])
      /\ roles' \in RoleMaps
  BY SaveIs DEF Decide
<1>2. UNCHANGED <<today, people>>
      /\ roster' = IF b.status = "approved" THEN roster \cup {r} ELSE roster
  BY DEF Decide
<1>3. roster = {q \in Requests : app[q].status = "approved"}
  BY DEF Inv, RosterFollowsApproval
<1>4. RosterFollowsApproval'
  BY <1>1, <1>2, <1>3 DEF RosterFollowsApproval
<1>5. TypeOK'
  BY <1>1, <1>2, <1>3 DEF Inv, TypeOK, people
<1> QED BY <1>1, <1>4, <1>5 DEF Inv

(* Storing a change that is no decision.                                   *)
LEMMA KeepPreserves ==
  ASSUME Inv, NEW r \in Requests, app[r].status # "approved",
         NEW b, Sound(r, b), b.status # "approved", Keep(r, b)
  PROVE  Inv'
<1>1. /\ app' \in [Requests -> RequestRecords]
      /\ app'[r] = b /\ \A q \in Requests \ {r} : app'[q] = app[q]
      /\ \A q \in Requests : Sound(q, app'[q])
      /\ roles' \in RoleMaps
  BY SaveIs DEF Keep
<1>2. UNCHANGED <<today, people, roster>>
  BY DEF Keep
<1>3. RosterFollowsApproval'
  BY <1>1, <1>2 DEF Inv, RosterFollowsApproval
<1>4. TypeOK'
  BY <1>1, <1>2 DEF Inv, TypeOK, people
<1> QED BY <1>1, <1>3, <1>4 DEF Inv

(* Storing what takes an approval back.                                    *)
LEMMA RevokePreserves ==
  ASSUME Inv, NEW r \in Requests, NEW a, NEW p,
         NEW b, Sound(r, b), b.status # "approved", Revoke(r, a, p, b)
  PROVE  Inv'
<1>1. /\ app' \in [Requests -> RequestRecords]
      /\ app'[r] = b /\ \A q \in Requests \ {r} : app'[q] = app[q]
      /\ \A q \in Requests : Sound(q, app'[q])
      /\ roles' \in RoleMaps
  BY SaveIs DEF Revoke
<1>2. UNCHANGED <<today, people>> /\ roster' = roster \ {r}
  BY DEF Revoke
<1>3. RosterFollowsApproval'
  BY <1>1, <1>2 DEF Inv, RosterFollowsApproval
<1>4. TypeOK'
  BY <1>1, <1>2 DEF Inv, TypeOK, people
<1> QED BY <1>1, <1>3, <1>4 DEF Inv

-----------------------------------------------------------------------------
(* Nothing is filed on the first day.                                      *)
LEMMA InitHolds == Init => Inv
<1> SUFFICES ASSUME Init PROVE Inv
  OBVIOUS
<1>1. PICK org \in FirstDays :
        /\ active = org.active /\ roles = org.roles
        /\ head = org.head /\ deputy = org.deputy /\ rules = org.rules
  BY DEF Init
<1>2. org \in Companies
  BY <1>1, ApprovalAssumption
<1>3. Unfiled \in RequestRecords
  <2>1. <<>> \in {s \in Seq(StepRecords) : Len(s) <= MaxLevels}
    BY EmptySeq, HandlersAssumption
  <2> QED BY <2>1 DEF Unfiled, RequestRecords, Statuses
<1>4. TypeOK
  BY <1>1, <1>2, <1>3, ApprovalAssumption DEF Init, TypeOK, Companies, Days
<1>5. ASSUME NEW r \in Requests PROVE Sound(r, app[r])
  <2>1. app[r] = Unfiled
    BY DEF Init
  <2>2. Unfiled.status = "unfiled" /\ DOMAIN Unfiled.steps = {}
    BY DEF Unfiled
  <2> QED BY <1>3, <2>1, <2>2 DEF Sound, SomebodysTurn, StepsTellThe, Having,
             OwnStepAlone, Approvers, ElseApproved
<1>6. RosterFollowsApproval
  BY DEF Init, RosterFollowsApproval, Unfiled
<1> QED BY <1>4, <1>5, <1>6 DEF Inv

(* One lemma per action from here on.                                      *)
LEMMA FilePreserves ==
  ASSUME Inv, NEW r \in Requests, NEW span \in Spans, File(r, span)
  PROVE  Inv'
<1> DEFINE b == Filed(Company, r, span, today)
<1>1. Company \in Companies /\ today \in Days
  BY CompanyIs DEF Inv, TypeOK
<1>2. Sound(r, b) /\ b.status = "pending"
  BY <1>1, FiledIsSound
<1>3. app[r].status # "approved" /\ Keep(r, b)
  BY DEF File
<1> HIDE DEF b
<1> QED BY <1>2, <1>3, KeepPreserves

(* The handlers, each on the request as it was loaded.                     *)
LEMMA HandlePreserves ==
  ASSUME Inv, NEW r \in Requests, NEW a, a = Ensured(Company, r, app[r], today),
         Handle(r, a)
  PROVE  Inv'
<1>1. Company \in Companies /\ today \in Days /\ active \subseteq People
  BY CompanyIs DEF Inv, TypeOK
<1>2. /\ Sound(r, a) /\ a.status = app[r].status
      /\ a.status = "pending" /\ Editors(Company) \ {Owner[r]} # {} => a.steps # <<>>
  BY <1>1, EnsuredIsSound DEF Inv
<1>3. ASSUME Open(r, a) PROVE Inv'
  <2>1. app[r].status = "pending"
    BY <1>3 DEF Open, Ensured
  <2> QED BY <1>2, <1>3, <2>1, KeepPreserves DEF Open
<1>4. ASSUME Cancel(r, a) PROVE Inv'
  <2>1. Sound(r, Cancelled(a, today)) /\ Cancelled(a, today).status = "cancelled"
    BY <1>1, <1>2, <1>4, WithdrawnIsSound DEF Cancel, Cancelled
  <2> QED BY <1>2, <1>4, <2>1, KeepPreserves DEF Cancel
<1>5. ASSUME NEW span \in Spans, Update(r, a, span) PROVE Inv'
  <2>1. Sound(r, Updated(a, span)) /\ Updated(a, span).status = "pending"
    BY <1>2, <1>5, UpdatedIsSound DEF Update
  <2> QED BY <1>2, <1>5, <2>1, KeepPreserves DEF Update
<1>6. ASSUME NEW i \in DOMAIN a.steps, SelfApprove(r, a, i) PROVE Inv'
  <2>1. Sound(r, SelfApproved(r, a, i, today))
    BY <1>1, <1>2, <1>6, SelfApprovedIsSound DEF SelfApprove
  <2> QED BY <1>2, <1>6, <2>1, DecidePreserves DEF SelfApprove
<1>7. ASSUME NEW i \in DOMAIN a.steps, NEW p \in People, NEW v \in Verdicts,
             Review(r, a, i, p, v)
      PROVE  Inv'
  <2>1. Sound(r, Reviewed(a, i, v, p, today))
    BY <1>1, <1>2, <1>7, ReviewedIsSound DEF Review
  <2> QED BY <1>2, <1>7, <2>1, DecidePreserves DEF Review
<1>8. ASSUME NEW i \in DOMAIN a.steps, NEW p \in People, NEW q \in People,
             Reassign(r, a, p, i, q)
      PROVE  Inv'
  <2>1. Sound(r, Reassigned(a, i, q, today)) /\ Reassigned(a, i, q, today).status = "pending"
    BY <1>1, <1>2, <1>8, ReassignedIsSound DEF Reassign
  <2> QED BY <1>2, <1>8, <2>1, KeepPreserves DEF Reassign
<1>9. ASSUME NEW p \in People, Unapprove(r, a, p) PROVE Inv'
  <2>1. Sound(r, Unapproved(a)) /\ Unapproved(a).status = "pending"
    BY <1>2, UnapprovedIsSound
  <2> QED BY <1>9, <2>1, RevokePreserves DEF Unapprove
<1>10. ASSUME NEW p \in People, Refuse(r, a, p) PROVE Inv'
  <2>1. a.status = "approved" /\ a.steps # <<>>
    BY <1>10 DEF Refuse, Revoke
  <2>2. Sound(r, Refused(a, p, today)) /\ Refused(a, p, today).status = "rejected"
    BY <1>1, <1>2, <2>1, RefusedIsSound
  <2> QED BY <1>10, <2>2, RevokePreserves DEF Refuse
<1>11. ASSUME NEW p \in People, NEW v \in Verdicts, Override(r, a, p, v) PROVE Inv'
  <2>1. a.status = "pending" /\ p # Owner[r] /\ a.steps # <<>>
    BY <1>2, <1>11 DEF Override, CanOverride
  <2>2. Sound(r, Overridden(a, v, p, today))
    BY <1>1, <1>2, <2>1, OverriddenIsSound
  <2> QED BY <1>2, <1>11, <2>1, <2>2, DecidePreserves DEF Override
<1> QED
  BY <1>3, <1>4, <1>5, <1>6, <1>7, <1>8, <1>9, <1>10, <1>11 DEF Handle

(* The job works on all requests in one step.                              *)
LEMMA JobPreserves ==
  ASSUME Inv, Job PROVE Inv'
<1> DEFINE new == [r \in Requests |->
             JobOn(Company, r, app[r], Ensured(Company, r, app[r], today), today)]
<1>1. Company \in Companies /\ today \in Days
  BY CompanyIs DEF Inv, TypeOK
<1>2. ASSUME NEW r \in Requests
      PROVE  /\ Sound(r, new[r]) /\ new[r] \in RequestRecords
             /\ new[r].status = "approved" <=> app[r].status = "approved"
  BY <1>1, JobIsSound DEF Inv, Sound
<1>3. Commit(new) /\ UNCHANGED <<today, people, roster>>
  BY DEF Job
<1>4. new \in [Requests -> RequestRecords]
  BY <1>2
<1> HIDE DEF new
<1>5. /\ app' \in [Requests -> RequestRecords]
      /\ \A r \in Requests : app'[r] = new[r] /\ Sound(r, app'[r])
      /\ roles' \in RoleMaps
  BY <1>2, <1>3, <1>4, CommitIs
<1>6. RosterFollowsApproval'
  BY <1>2, <1>3, <1>5 DEF Inv, RosterFollowsApproval
<1>7. TypeOK'
  BY <1>3, <1>5 DEF Inv, TypeOK, people
<1> QED BY <1>5, <1>6, <1>7 DEF Inv

(* A separation works on all requests the leaver holds.                    *)
LEMMA SeparatePreserves ==
  ASSUME Inv, NEW p \in People, Separate(p) PROVE Inv'
<1>1. CompanyWithout(p) \in Companies /\ today \in Days
  BY CompanyIs DEF Inv, TypeOK
<1>2. PICK to \in [HeldBy(p) -> [1 .. MaxLevels -> People]] :
        /\ \A r \in HeldBy(p) : HandedOver(CompanyWithout(p), r, app[r], p, to[r])
        /\ Commit([r \in Requests |->
             IF r \in HeldBy(p) THEN Released(app[r], to[r], today) ELSE app[r]])
  BY DEF Separate, HandOver
<1> DEFINE new == [r \in Requests |->
             IF r \in HeldBy(p) THEN Released(app[r], to[r], today) ELSE app[r]]
<1>3. ASSUME NEW r \in Requests
      PROVE  /\ Sound(r, new[r]) /\ new[r] \in RequestRecords
             /\ new[r].status = app[r].status
  <2>1. Sound(r, app[r])
    BY DEF Inv
  <2>2. CASE r \in HeldBy(p)
    <3>1. app[r].status = "pending"
      BY <2>2 DEF HeldBy
    <3>2. to[r] \in [1 .. MaxLevels -> People]
      BY <2>2
    <3>3. Sound(r, Released(app[r], to[r], today))
          /\ Released(app[r], to[r], today).status = "pending"
      BY <1>1, <1>2, <2>1, <2>2, <3>1, <3>2, ReleasedIsSound
    <3> QED BY <2>2, <3>1, <3>3 DEF Sound
  <2>3. CASE r \notin HeldBy(p)
    BY <2>1, <2>3 DEF Sound
  <2> QED BY <2>2, <2>3
<1>4. Commit(new)
  BY <1>2
<1>5. new \in [Requests -> RequestRecords]
  BY <1>3
<1> HIDE DEF new
<1>6. /\ app' \in [Requests -> RequestRecords]
      /\ \A r \in Requests : app'[r] = new[r] /\ Sound(r, app'[r])
      /\ roles' \in RoleMaps
  BY <1>3, <1>4, <1>5, CommitIs
<1>7. /\ active' = active \ {p} /\ rules' = rules \ RulesNaming[p]
      /\ head' = Without(head, p) /\ deputy' = Without(deputy, p)
      /\ UNCHANGED <<today, roster>>
  BY DEF Separate
<1>8. /\ head' \in [Units -> Heads \cup {NoOne}]
      /\ deputy' \in [Units -> Deputies \cup {NoOne}]
  BY <1>7 DEF Inv, TypeOK, Without
<1>9. RosterFollowsApproval'
  BY <1>3, <1>6, <1>7 DEF Inv, RosterFollowsApproval
<1>10. TypeOK'
  BY <1>6, <1>7, <1>8 DEF Inv, TypeOK
<1> QED BY <1>6, <1>9, <1>10 DEF Inv

(* Every step keeps the invariant.                                         *)
LEMMA StepPreserves == Inv /\ [Next]_vars => Inv'
<1> SUFFICES ASSUME Inv, [Next]_vars PROVE Inv'
  OBVIOUS
<1>1. ASSUME NEW r \in Requests, NEW span \in Spans, File(r, span) PROVE Inv'
  BY <1>1, FilePreserves
<1>2. ASSUME NEW r \in Requests, NEW a \in {Ensured(Company, r, app[r], today)}, Handle(r, a)
      PROVE  Inv'
  BY <1>2, HandlePreserves
<1>3. ASSUME Job PROVE Inv'
  BY <1>3, JobPreserves
<1>4. ASSUME NEW p \in People, Separate(p) PROVE Inv'
  BY <1>4, SeparatePreserves
<1>5. ASSUME NEW p \in People, Reinstate(p) PROVE Inv'
  BY <1>5 DEF Reinstate, Inv, TypeOK, RosterFollowsApproval
<1>6. ASSUME NEW p \in People, NEW S \in RolesFor[p], SetRoles(p, S) PROVE Inv'
  <2>1. roles' \in RoleMaps
    <3>1. S \in SUBSET RoleCodes
      BY <1>6, HandlersAssumption
    <3> QED BY <1>6, <3>1 DEF SetRoles, RoleMaps, Inv, TypeOK
  <2> QED BY <1>6, <2>1 DEF SetRoles, Inv, TypeOK, RosterFollowsApproval, people
<1>7. ASSUME Tick PROVE Inv'
  <2>1. today' \in Days
    BY <1>7, ApprovalAssumption DEF Tick, Inv, TypeOK, Days
  <2> QED BY <1>7, <2>1 DEF Tick, Inv, TypeOK, RosterFollowsApproval, people
<1>8. ASSUME UNCHANGED vars PROVE Inv'
  BY <1>8 DEF vars, people, Inv, TypeOK, RosterFollowsApproval
<1> QED BY <1>1, <1>2, <1>3, <1>4, <1>5, <1>6, <1>7, <1>8 DEF Next

(* So it always holds.                                                     *)
LEMMA Invariance == Spec => []Inv
<1> QED BY InitHolds, StepPreserves, PTL DEF Spec

-----------------------------------------------------------------------------
(* The state is always of its type.                                        *)
THEOREM TypeCorrect == Spec => []TypeOK
<1>1. Inv => TypeOK
  BY DEF Inv
<1> QED BY <1>1, Invariance, PTL

(* A pending request that has steps always waits for exactly one of them,  *)
(* through reviews, edits, revocations, escalations and separations.       *)
THEOREM TurnTheorem == Spec => []AlwaysSomebodysTurn
<1>1. Inv => AlwaysSomebodysTurn
  BY DEF Inv, Sound, AlwaysSomebodysTurn
<1> QED BY <1>1, Invariance, PTL

(* The steps of a closed request agree with how it was closed.             *)
THEOREM DecisionTheorem == Spec => []StepsTellTheDecision
<1>1. Inv => StepsTellTheDecision
  BY DEF Inv, Sound, StepsTellTheDecision
<1> QED BY <1>1, Invariance, PTL

(* The requester's own step is never one of several.                       *)
THEOREM OwnStepTheorem == Spec => []OwnStepStandsAlone
<1>1. Inv => OwnStepStandsAlone
  BY DEF Inv, Sound, OwnStepStandsAlone
<1> QED BY <1>1, Invariance, PTL

(* The steps of every request make sense together.                         *)
THEOREM StepsTheorem == Spec => []StepsAreCoherent
<1> QED BY TurnTheorem, DecisionTheorem, OwnStepTheorem, PTL DEF StepsAreCoherent

(* An approved request was approved by somebody else, or by the requester  *)
(* alone.                                                                  *)
THEOREM ElseTheorem == Spec => []SomebodyElseApproved
<1>1. Inv => SomebodyElseApproved
  BY DEF Inv, Sound, SomebodyElseApproved
<1> QED BY <1>1, Invariance, PTL

(* The roster shows the days of the approved requests and of no others.    *)
THEOREM RosterTheorem == Spec => []RosterFollowsApproval
<1>1. Inv => RosterFollowsApproval
  BY DEF Inv
<1> QED BY <1>1, Invariance, PTL

-----------------------------------------------------------------------------
(***************************************************************************)
(* What the steps of LeaveApproval come to.                                *)
(*                                                                         *)
(* First, they implement LeaveLifecycle: every step of the handlers, of    *)
(* the job and of the people around them is one step of a request's life,  *)
(* several requests expiring together, or none. The invariant is needed:   *)
(* revoking, for instance, takes a request off the roster that the         *)
(* abstract life has there too, by RosterFollowsApproval.                  *)
(*                                                                         *)
(* Then, what a step may never do: rewrite a decision, keep an approval    *)
(* for other dates, route a request to somebody who cannot act on it, let  *)
(* a request run out that nobody was asked about, or let its owner approve *)
(* it while another could. The argument is per handler: Proper(a, b, S) is *)
(* what may become of one row in one step, with S the people who may be    *)
(* put on a step. It holds from the row as it was loaded, hence from the   *)
(* row as it was stored, which differs by steps that were missing.         *)
(***************************************************************************)



(* The mapping of LeaveApproval's INSTANCE, by name.                       *)
StatusOf(requests) == [r \in Requests |-> requests[r].status]
ApproverOf(requests) ==
  [r \in Requests |->
     IF requests[r].status = "approved" THEN {requests[r].reviewer} ELSE {}]

(* Whoever may decide now or after a step is one of the people.            *)
LEMMA AbleArePeople ==
  ASSUME TypeOK PROVE Editors(Company) \subseteq People
BY DEF TypeOK, Editors, Company

(* The same of the state after a step.                                     *)
LEMMA AbleWillBePeople ==
  ASSUME TypeOK' PROVE Editors(Company)' \subseteq People
BY DEF TypeOK, Editors, Company

(* Storing one request changes its entries of the two maps only.           *)
LEMMA StoredIs ==
  ASSUME NEW new, NEW r \in Requests, NEW b,
         app \in [Requests -> RequestRecords], new = [app EXCEPT ![r] = b]
  PROVE  /\ StatusOf(new) = [StatusOf(app) EXCEPT ![r] = b.status]
         /\ ApproverOf(new) = [ApproverOf(app) EXCEPT ![r] =
              IF b.status = "approved" THEN {b.reviewer} ELSE {}]
BY DEF StatusOf, ApproverOf

(* What Decide and Keep store.                                             *)
LEMMA SaveStores ==
  ASSUME NEW r \in Requests, NEW b, Save(r, b)
  PROVE  app' = [app EXCEPT ![r] = b]
BY DEF Save, Commit

-----------------------------------------------------------------------------
(* The abstract actions, from what a step does to the two maps.            *)
LEMMA AsTurnover ==
  ASSUME TypeOK', StatusOf(app') = StatusOf(app), ApproverOf(app') = ApproverOf(app),
         roster' = roster
  PROVE  Lifecycle!Turnover
BY AbleWillBePeople DEF Lifecycle!Turnover, StatusOf, ApproverOf

(* A request that starts to wait was filed.                                *)
LEMMA AsFile ==
  ASSUME TypeOK', NEW r \in Requests, app[r].status = "unfiled",
         StatusOf(app') = [StatusOf(app) EXCEPT ![r] = "pending"],
         ApproverOf(app') = ApproverOf(app), roster' = roster
  PROVE  Lifecycle!File(r)
BY AbleWillBePeople DEF Lifecycle!File, StatusOf, ApproverOf

(* One that gets an approver, and its days on the roster, was approved.    *)
LEMMA AsApprove ==
  ASSUME TypeOK', NEW r \in Requests, NEW p, app[r].status = "pending",
         p = Owner[r] => Editors(Company) \subseteq {p},
         StatusOf(app') = [StatusOf(app) EXCEPT ![r] = "approved"],
         ApproverOf(app') = [ApproverOf(app) EXCEPT ![r] = {p}],
         roster' = roster \cup {r}
  PROVE  Lifecycle!Approve(r, p)
BY AbleWillBePeople DEF Lifecycle!Approve, StatusOf, ApproverOf

(* One that ends without them was declined.                                *)
LEMMA AsDecline ==
  ASSUME TypeOK', NEW r \in Requests, NEW end, app[r].status = "pending",
         StatusOf(app') = [StatusOf(app) EXCEPT ![r] = end],
         ApproverOf(app') = ApproverOf(app), roster' = roster
  PROVE  Lifecycle!Decline(r, end)
BY AbleWillBePeople DEF Lifecycle!Decline, StatusOf, ApproverOf

(* One that loses its approver and its days had its approval undone.       *)
LEMMA AsUndo ==
  ASSUME TypeOK', NEW r \in Requests, NEW to, app[r].status = "approved",
         StatusOf(app') = [StatusOf(app) EXCEPT ![r] = to],
         ApproverOf(app') = [ApproverOf(app) EXCEPT ![r] = {}],
         roster' = roster \ {r}
  PROVE  Lifecycle!Undo(r, to)
BY AbleWillBePeople DEF Lifecycle!Undo, StatusOf, ApproverOf

(* Waiting ones that end together expired.                                 *)
LEMMA AsExpire ==
  ASSUME TypeOK', NEW S \in SUBSET Requests, S # {}, \A r \in S : app[r].status = "pending",
         StatusOf(app') =
           [r \in Requests |-> IF r \in S THEN "expired" ELSE StatusOf(app)[r]],
         ApproverOf(app') = ApproverOf(app), roster' = roster
  PROVE  Lifecycle!Expire(S)
BY AbleWillBePeople DEF Lifecycle!Expire, StatusOf, ApproverOf

-----------------------------------------------------------------------------
(* Storing a request with the status it had.                               *)
LEMMA KeptIsTurnover ==
  ASSUME Inv, TypeOK', NEW r \in Requests, NEW b, Keep(r, b),
         b.status = app[r].status, b.status # "approved"
  PROVE  Lifecycle!Turnover
<1>1. /\ StatusOf(app') = [StatusOf(app) EXCEPT ![r] = b.status]
      /\ ApproverOf(app') = [ApproverOf(app) EXCEPT ![r] = {}]
      /\ roster' = roster
  BY SaveStores, StoredIs DEF Keep, Inv, TypeOK
<1>2. StatusOf(app)[r] = b.status /\ ApproverOf(app)[r] = {}
  BY DEF StatusOf, ApproverOf
<1>3. StatusOf(app') = StatusOf(app) /\ ApproverOf(app') = ApproverOf(app)
  BY <1>1, <1>2 DEF StatusOf, ApproverOf
<1> QED BY <1>1, <1>3, AsTurnover

(* Storing a decision of p about a pending request.                        *)
LEMMA DecidedIsLife ==
  ASSUME Inv, TypeOK', NEW r \in Requests, app[r].status = "pending",
         NEW b, Decide(r, b), b.status \in {"pending", "approved", "rejected"},
         NEW p \in People, b.status = "approved" => b.reviewer = p,
         p = Owner[r] => Editors(Company) \subseteq {p}
  PROVE  Lifecycle!Next
<1>1. /\ StatusOf(app') = [StatusOf(app) EXCEPT ![r] = b.status]
      /\ ApproverOf(app') = [ApproverOf(app) EXCEPT ![r] =
           IF b.status = "approved" THEN {b.reviewer} ELSE {}]
      /\ roster' = IF b.status = "approved" THEN roster \cup {r} ELSE roster
  BY SaveStores, StoredIs DEF Decide, Inv, TypeOK
<1>2. StatusOf(app)[r] = "pending" /\ ApproverOf(app)[r] = {}
  BY DEF StatusOf, ApproverOf
<1>3. CASE b.status = "approved"
  <2>1. Lifecycle!Approve(r, p)
    BY <1>1, <1>3, AsApprove
  <2> QED BY <2>1 DEF Lifecycle!Next
<1>4. CASE b.status # "approved"
  <2>1. ApproverOf(app') = ApproverOf(app) /\ roster' = roster
    BY <1>1, <1>2, <1>4 DEF ApproverOf
  <2>2. CASE b.status = "rejected"
    <3>1. Lifecycle!Decline(r, "rejected")
      BY <1>1, <2>1, <2>2, AsDecline
    <3> QED BY <3>1 DEF Lifecycle!Next
  <2>3. CASE b.status = "pending"
    <3>1. StatusOf(app') = StatusOf(app)
      BY <1>1, <1>2, <2>3 DEF StatusOf
    <3>2. Lifecycle!Turnover
      BY <2>1, <3>1, AsTurnover
    <3> QED BY <3>2 DEF Lifecycle!Next
  <2> QED BY <1>4, <2>2, <2>3
<1> QED BY <1>3, <1>4

(* Storing what takes an approval back.                                    *)
LEMMA RevokedIsUndo ==
  ASSUME Inv, TypeOK', NEW r \in Requests, app[r].status = "approved",
         NEW a, NEW p, NEW b, Revoke(r, a, p, b), b.status \in {"pending", "rejected"}
  PROVE  Lifecycle!Undo(r, b.status)
<1>1. /\ StatusOf(app') = [StatusOf(app) EXCEPT ![r] = b.status]
      /\ ApproverOf(app') = [ApproverOf(app) EXCEPT ![r] = {}]
      /\ roster' = roster \ {r}
  BY SaveStores, StoredIs DEF Revoke, Inv, TypeOK
<1> QED BY <1>1, AsUndo

(* The reviewer of a request a review or an override approves.             *)
LEMMA ReviewerIs ==
  ASSUME NEW a \in RequestRecords, NEW i \in DOMAIN a.steps, NEW v \in Verdicts,
         NEW p \in People, NEW d \in Days, a.status = "pending",
         Reviewed(a, i, v, p, d).status = "approved"
  PROVE  Reviewed(a, i, v, p, d).reviewer = p
<1> DEFINE m == Marked(a, i, v, d)
<1>1. m \in RequestRecords /\ m.status = "pending"
  BY MarkedIs DEF Verdicts, StepStatuses
<1>2. v = "approved"
  <2>1. CASE v = "rejected"
    <3>1. Closed(m, "rejected", d).status = "rejected" /\ Closed(m, "rejected", d) \in RequestRecords
      BY <1>1, ClosedIs DEF Statuses
    <3>2. Reviewed(a, i, v, p, d) = [Closed(m, "rejected", d) EXCEPT !.reviewer = p]
      BY <2>1 DEF Reviewed, Rejected
    <3> QED BY <3>1, <3>2 DEF RequestRecords
  <2> QED BY <2>1 DEF Verdicts
<1> HIDE DEF m
<1>3. Reviewed(a, i, v, p, d) = Approved(m, p)
  BY <1>2 DEF Reviewed, m
<1> QED BY <1>1, <1>3 DEF Approved, RequestRecords

(* Whoever overrides is the reviewer.                                      *)
LEMMA OverriderIs ==
  ASSUME NEW a \in RequestRecords, NEW v \in Verdicts, NEW p \in People, NEW d \in Days
  PROVE  Overridden(a, v, p, d).reviewer = p
<1> DEFINE m == IF HasCurrent(a) THEN Marked(a, Current(a), v, d) ELSE a
<1>1. m \in RequestRecords
  BY MarkedIs DEF HasCurrent, Current, Verdicts, StepStatuses
<1> HIDE DEF m
<1>2. Closed(m, v, d) \in RequestRecords
  BY <1>1, ClosedIs DEF Statuses, Verdicts
<1> QED BY <1>2 DEF Overridden, RequestRecords, m

-----------------------------------------------------------------------------
(* The handlers.                                                           *)
LEMMA HandleIsLife ==
  ASSUME Inv, TypeOK', NEW r \in Requests, NEW a, a = Ensured(Company, r, app[r], today),
         Handle(r, a)
  PROVE  Lifecycle!Next
<1>1. Company \in Companies /\ today \in Days /\ active \subseteq People
  BY CompanyIs DEF Inv, TypeOK
<1>2. /\ Sound(r, a) /\ a.status = app[r].status /\ a \in RequestRecords
      /\ a.status = "pending" /\ Editors(Company) \ {Owner[r]} # {} => a.steps # <<>>
  BY <1>1, EnsuredIsSound DEF Inv, Sound
<1>3. ASSUME Lifecycle!Turnover PROVE Lifecycle!Next
  BY <1>3 DEF Lifecycle!Next
<1>4. ASSUME Open(r, a) PROVE Lifecycle!Next
  <2>1. app[r].status = "pending"
    BY <1>4 DEF Open, Ensured
  <2> QED BY <1>2, <1>3, <1>4, <2>1, KeptIsTurnover DEF Open
<1>5. ASSUME Cancel(r, a) PROVE Lifecycle!Next
  <2>1. Cancelled(a, today).status = "cancelled"
    BY <1>1, <1>2, <1>5, WithdrawnIsSound DEF Cancel, Cancelled
  <2>2. app[r].status = "pending" /\ Keep(r, Cancelled(a, today))
    BY <1>2, <1>5 DEF Cancel
  <2>3. /\ StatusOf(app') = [StatusOf(app) EXCEPT ![r] = "cancelled"]
        /\ ApproverOf(app') = [ApproverOf(app) EXCEPT ![r] = {}]
        /\ roster' = roster
    BY <2>1, <2>2, SaveStores, StoredIs DEF Keep, Inv, TypeOK
  <2>4. ApproverOf(app') = ApproverOf(app)
    BY <2>2, <2>3 DEF ApproverOf
  <2>5. Lifecycle!Decline(r, "cancelled")
    BY <2>2, <2>3, <2>4, AsDecline
  <2> QED BY <2>5 DEF Lifecycle!Next
<1>6. ASSUME NEW span \in Spans, Update(r, a, span) PROVE Lifecycle!Next
  <2>1. Updated(a, span).status = "pending"
    BY <1>2, <1>6, UpdatedIsSound DEF Update
  <2> QED BY <1>2, <1>3, <1>6, <2>1, KeptIsTurnover DEF Update
<1>7. ASSUME NEW i \in DOMAIN a.steps, SelfApprove(r, a, i) PROVE Lifecycle!Next
  <2>1. /\ a.status = "pending" /\ Decide(r, SelfApproved(r, a, i, today))
        /\ a.steps[i].approver = Owner[r] /\ Editors(Company) \ {Owner[r]} = {}
        /\ Owner[r] \in People
    BY <1>1, <1>7, HandlersAssumption DEF SelfApprove
  <2>2. SelfApproved(r, a, i, today).status = "approved"
    BY <1>1, <1>2, <2>1, SelfApprovedIsSound
  <2>3. SelfApproved(r, a, i, today).reviewer = Owner[r]
    <3>1. Marked(a, i, "approved", today) \in RequestRecords
      BY <1>1, <1>2, MarkedIs DEF StepStatuses
    <3> QED BY <3>1 DEF SelfApproved, RequestRecords
  <2> QED BY <1>2, <2>1, <2>2, <2>3, DecidedIsLife
<1>8. ASSUME NEW i \in DOMAIN a.steps, NEW p \in People, NEW v \in Verdicts,
             Review(r, a, i, p, v)
      PROVE  Lifecycle!Next
  <2>1. /\ a.status = "pending" /\ IsCurrent(a, i) /\ p # Owner[r]
        /\ Decide(r, Reviewed(a, i, v, p, today))
    BY <1>8 DEF Review
  <2>2. Reviewed(a, i, v, p, today).status \in {"pending", "approved", "rejected"}
    BY <1>1, <1>2, <2>1, ReviewedIsSound
  <2>3. Reviewed(a, i, v, p, today).status = "approved"
        => Reviewed(a, i, v, p, today).reviewer = p
    BY <1>1, <1>2, <2>1, ReviewerIs
  <2> QED BY <1>2, <2>1, <2>2, <2>3, DecidedIsLife
<1>9. ASSUME NEW i \in DOMAIN a.steps, NEW p \in People, NEW q \in People,
             Reassign(r, a, p, i, q)
      PROVE  Lifecycle!Next
  <2>1. Reassigned(a, i, q, today).status = "pending"
    BY <1>1, <1>2, <1>9, ReassignedIsSound DEF Reassign
  <2> QED BY <1>2, <1>3, <1>9, <2>1, KeptIsTurnover DEF Reassign
<1>10. ASSUME NEW p \in People, Unapprove(r, a, p) PROVE Lifecycle!Next
  <2>1. Unapproved(a).status = "pending" /\ app[r].status = "approved"
    BY <1>2, <1>10, UnapprovedIsSound DEF Unapprove, Revoke
  <2>2. Lifecycle!Undo(r, "pending")
    BY <1>10, <2>1, RevokedIsUndo DEF Unapprove
  <2> QED BY <2>2 DEF Lifecycle!Next
<1>11. ASSUME NEW p \in People, Refuse(r, a, p) PROVE Lifecycle!Next
  <2>1. a.status = "approved" /\ a.steps # <<>>
    BY <1>11 DEF Refuse, Revoke
  <2>2. Refused(a, p, today).status = "rejected"
    BY <1>1, <1>2, <2>1, RefusedIsSound
  <2>3. Lifecycle!Undo(r, "rejected")
    BY <1>2, <1>11, <2>1, <2>2, RevokedIsUndo DEF Refuse
  <2> QED BY <2>3 DEF Lifecycle!Next
<1>12. ASSUME NEW p \in People, NEW v \in Verdicts, Override(r, a, p, v)
       PROVE  Lifecycle!Next
  <2>1. /\ a.status = "pending" /\ p # Owner[r] /\ a.steps # <<>>
        /\ Decide(r, Overridden(a, v, p, today))
    BY <1>2, <1>12 DEF Override, CanOverride
  <2>2. Overridden(a, v, p, today).status = v
    BY <1>1, <1>2, <2>1, OverriddenIsSound
  <2>3. Overridden(a, v, p, today).reviewer = p
    BY <1>1, <1>2, OverriderIs
  <2> QED BY <1>2, <2>1, <2>2, <2>3, DecidedIsLife DEF Verdicts
<1> QED
  BY <1>4, <1>5, <1>6, <1>7, <1>8, <1>9, <1>10, <1>11, <1>12 DEF Handle

(* What the daily job may do to a request's status: end it, if it waits.   *)
LEMMA JobEndsOrKeeps ==
  ASSUME NEW org \in Companies, NEW r \in Requests, NEW a, Sound(r, a), NEW d \in Days,
         NEW b, b = JobOn(org, r, a, Ensured(org, r, a, d), d)
  PROVE  \/ b.status = a.status
         \/ a.status = "pending" /\ b.status = "expired"
<1> DEFINE chained == Ensured(org, r, a, d)
           i == Current(a)
           target == EscalationTarget(org, r, a.steps[i].approver)
<1>1. chained.status = a.status
  BY EnsuredIsSound
<1>2. CASE a.status # "pending" \/ chained # a
  BY <1>1, <1>2 DEF JobOn
<1>3. CASE a.status = "pending" /\ chained = a
  <2>1. b = Worked(org, r, a, d)
    BY <1>3 DEF JobOn
  <2>2. CASE a.last < d
    BY <1>3, <2>1, <2>2, WithdrawnIsSound DEF Worked
  <2>3. CASE ~ (a.last < d)
    <3>1. b = a \/ b = Escalated(a, i, target, d)
      BY <2>1, <2>3 DEF Worked, OnWaiting, Chased
    <3>2. Escalated(a, i, target, d).status = a.status
      BY DEF Escalated, Sound, RequestRecords
    <3> QED BY <3>1, <3>2
  <2> QED BY <2>2, <2>3
<1> QED BY <1>2, <1>3

(* A run of the job is one expiry of all the requests it ends, or nothing. *)
LEMMA JobIsLife ==
  ASSUME Inv, TypeOK', Job PROVE Lifecycle!Next
<1>1. Company \in Companies /\ today \in Days
  BY CompanyIs DEF Inv, TypeOK
<1>2. ASSUME NEW r \in Requests
      PROVE  /\ \/ app'[r].status = app[r].status
                \/ app[r].status = "pending" /\ app'[r].status = "expired"
             /\ app[r].status = "approved" => app'[r] = app[r]
  <2>1. app'[r] = JobOn(Company, r, app[r], Ensured(Company, r, app[r], today), today)
    BY DEF Job, Commit
  <2>2. Sound(r, app[r])
    BY DEF Inv
  <2>3. app[r].status = "approved" => app'[r] = app[r]
    BY <2>1 DEF JobOn
  <2> QED BY <1>1, <2>1, <2>2, <2>3, JobEndsOrKeeps
<1>3. ApproverOf(app') = ApproverOf(app) /\ roster' = roster
  BY <1>2 DEF ApproverOf, Job
<1>4. PICK S \in SUBSET Requests :
        S = {r \in Requests : app[r].status = "pending" /\ app'[r].status = "expired"}
  OBVIOUS
<1>5. StatusOf(app') = [r \in Requests |-> IF r \in S THEN "expired" ELSE StatusOf(app)[r]]
  BY <1>2, <1>4 DEF StatusOf
<1>6. CASE S = {}
  <2>1. StatusOf(app') = StatusOf(app)
    BY <1>5, <1>6 DEF StatusOf
  <2> QED BY <1>3, <2>1, AsTurnover DEF Lifecycle!Next
<1>7. CASE S # {}
  <2>1. Lifecycle!Expire(S)
    BY <1>3, <1>4, <1>5, <1>7, AsExpire
  <2> QED BY <2>1 DEF Lifecycle!Next
<1> QED BY <1>6, <1>7

(* A handover changes who decides and nothing of the request's life.       *)
LEMMA SeparateIsTurnover ==
  ASSUME Inv, TypeOK', NEW p \in People, Separate(p) PROVE Lifecycle!Turnover
<1>1. PICK to \in [HeldBy(p) -> [1 .. MaxLevels -> People]] :
        Commit([r \in Requests |->
             IF r \in HeldBy(p) THEN Released(app[r], to[r], today) ELSE app[r]])
  BY DEF Separate, HandOver
<1>2. ASSUME NEW r \in Requests
      PROVE  /\ app'[r].status = app[r].status
             /\ app[r].status = "approved" => app'[r] = app[r]
  <2>1. app'[r] = IF r \in HeldBy(p) THEN Released(app[r], to[r], today) ELSE app[r]
    BY <1>1 DEF Commit
  <2>2. Released(app[r], to[r], today).status = app[r].status
    BY DEF Released, Inv, TypeOK, RequestRecords
  <2> QED BY <2>1, <2>2 DEF HeldBy
<1>3. StatusOf(app') = StatusOf(app) /\ ApproverOf(app') = ApproverOf(app)
  BY <1>2 DEF StatusOf, ApproverOf
<1>4. roster' = roster
  BY DEF Separate
<1> QED BY <1>3, <1>4, AsTurnover

-----------------------------------------------------------------------------
(* So every step is one of a request's life.                               *)
LEMMA StepIsLife ==
  ASSUME Inv, TypeOK', [Next]_vars PROVE Lifecycle!Next
<1>1. ASSUME NEW r \in Requests, NEW span \in Spans, File(r, span)
      PROVE  Lifecycle!Next
  <2>1. /\ app[r].status = "unfiled"
        /\ Keep(r, Filed(Company, r, span, today))
    BY <1>1 DEF File
  <2>2. Filed(Company, r, span, today).status = "pending"
    BY DEF Filed
  <2>3. /\ StatusOf(app') = [StatusOf(app) EXCEPT ![r] = "pending"]
        /\ ApproverOf(app') = [ApproverOf(app) EXCEPT ![r] = {}]
        /\ roster' = roster
    BY <2>1, <2>2, SaveStores, StoredIs DEF Keep, Inv, TypeOK
  <2>4. ApproverOf(app') = ApproverOf(app)
    BY <2>1, <2>3 DEF ApproverOf
  <2> QED BY <2>1, <2>3, <2>4, AsFile DEF Lifecycle!Next
<1>2. ASSUME NEW r \in Requests, NEW a \in {Ensured(Company, r, app[r], today)}, Handle(r, a)
      PROVE  Lifecycle!Next
  BY <1>2, HandleIsLife
<1>3. ASSUME Job PROVE Lifecycle!Next
  BY <1>3, JobIsLife
<1>4. ASSUME NEW p \in People, Separate(p) PROVE Lifecycle!Next
  BY <1>4, SeparateIsTurnover DEF Lifecycle!Next
<1>5. ASSUME UNCHANGED <<app, roster>> PROVE Lifecycle!Next
  <2>1. StatusOf(app') = StatusOf(app) /\ ApproverOf(app') = ApproverOf(app)
    BY <1>5
  <2> QED BY <1>5, <2>1, AsTurnover DEF Lifecycle!Next
<1>6. ASSUME NEW p \in People, Reinstate(p) PROVE Lifecycle!Next
  BY <1>5, <1>6 DEF Reinstate
<1>7. ASSUME NEW p \in People, NEW S \in RolesFor[p], SetRoles(p, S) PROVE Lifecycle!Next
  BY <1>5, <1>7 DEF SetRoles
<1>8. ASSUME Tick PROVE Lifecycle!Next
  BY <1>5, <1>8 DEF Tick
<1>9. ASSUME UNCHANGED vars PROVE Lifecycle!Next
  BY <1>5, <1>9 DEF vars
<1> QED BY <1>1, <1>2, <1>3, <1>4, <1>6, <1>7, <1>8, <1>9 DEF Next

(* And the requests start their lives unfiled.                             *)
LEMMA StartIsLife ==
  ASSUME Init, Inv PROVE Lifecycle!Init
<1>1. app = [r \in Requests |-> Unfiled] /\ roster = {}
  BY DEF Init
<1>2. TypeOK
  BY DEF Inv
<1>3. StatusOf(app) = [r \in Requests |-> "unfiled"] /\ ApproverOf(app) = [r \in Requests |-> {}]
  BY <1>1 DEF StatusOf, ApproverOf, Unfiled
<1> QED BY <1>1, <1>2, <1>3, AbleArePeople DEF Lifecycle!Init, StatusOf, ApproverOf

(* LeaveApproval implements the life of a leave request: whatever people   *)
(* and the job do, a request moves only as LeaveLifecycle allows, its days *)
(* come on and off the roster with its approval, and nobody approves their *)
(* own leave while another could.                                          *)
THEOREM PromiseTheorem == Spec => KeepsThePromises
<1>1. Inv /\ Init => Lifecycle!Init
  BY StartIsLife
<1>2. Inv /\ Inv' /\ [Next]_vars => [Lifecycle!Next]_(Lifecycle!vars)
  BY StepIsLife DEF Inv
<1> QED BY <1>1, <1>2, Invariance, PTL DEF Spec, KeepsThePromises, Lifecycle!SafeSpec

-----------------------------------------------------------------------------
(* An open step carries no day of decision, and a request that was never   *)
(* filed no steps. The first is why putting a step back that was open      *)
(* anyway changes nothing about it.                                        *)
Tidy(a) ==
  /\ \A j \in DOMAIN a.steps : a.steps[j].status = "pending" => a.steps[j].decided = NoDay
  /\ a.status = "unfiled" => a.steps = <<>>

AllTidy == \A r \in Requests : Tidy(app[r])

Proper(a, b, S) ==
  /\ \A j \in DOMAIN a.steps :
       /\ j \in DOMAIN b.steps
       /\ a.steps[j].status # "pending" => b.steps[j].approver = a.steps[j].approver
       /\ b.steps[j].status = a.steps[j].status => b.steps[j].decided = a.steps[j].decided
  /\ <<b.first, b.last>> # <<a.first, a.last>> =>
       \A j \in DOMAIN b.steps : b.steps[j].status = "pending"
  /\ \A j \in DOMAIN b.steps :
       \/ b.steps[j].approver \in S
       \/ j \in DOMAIN a.steps /\ b.steps[j].approver = a.steps[j].approver
  /\ Tidy(b)

(* Leaving a row as it is is proper.                                       *)
LEMMA NothingIsProper ==
  ASSUME NEW a, Tidy(a), NEW S PROVE Proper(a, a, S)
BY DEF Proper

-----------------------------------------------------------------------------
(* The days a decision, a closing and a reopening write.                   *)
LEMMA MarkedDays ==
  ASSUME NEW a \in RequestRecords, NEW i \in DOMAIN a.steps,
         NEW st \in StepStatuses, NEW d \in Days
  PROVE  /\ Marked(a, i, st, d).first = a.first /\ Marked(a, i, st, d).last = a.last
         /\ \A j \in DOMAIN a.steps :
              Marked(a, i, st, d).steps[j].decided = IF j = i THEN d ELSE a.steps[j].decided
<1> DEFINE f == [a.steps EXCEPT ![i] = [@ EXCEPT !.status = st, !.decided = d]]
<1>1. \A j \in DOMAIN a.steps : a.steps[j] \in StepRecords
  BY DEF RequestRecords
<1>2. Marked(a, i, st, d) = [a EXCEPT !.steps = f]
  BY DEF Marked, RequestRecords
<1>3. \A j \in DOMAIN a.steps : f[j].decided = IF j = i THEN d ELSE a.steps[j].decided
  BY <1>1 DEF StepRecords
<1> HIDE DEF f
<1> QED BY <1>2, <1>3 DEF RequestRecords

(* Closing dates the steps it skips, and no other.                         *)
LEMMA ClosedDays ==
  ASSUME NEW a \in RequestRecords, NEW st \in Statuses, NEW d \in Days
  PROVE  /\ Closed(a, st, d).first = a.first /\ Closed(a, st, d).last = a.last
         /\ \A j \in DOMAIN a.steps :
              Closed(a, st, d).steps[j].decided =
                IF a.steps[j].status = "pending" THEN d ELSE a.steps[j].decided
<1> DEFINE f == SkipOpen(a.steps, d)
<1>1. \A j \in DOMAIN a.steps : a.steps[j] \in StepRecords
  BY DEF RequestRecords
<1>2. Closed(a, st, d) = [a EXCEPT !.status = st, !.steps = f]
  BY DEF Closed
<1>3. \A j \in DOMAIN a.steps :
        f[j].decided = IF a.steps[j].status = "pending" THEN d ELSE a.steps[j].decided
  BY <1>1 DEF StepRecords, SkipOpen
<1> HIDE DEF f
<1> QED BY <1>2, <1>3 DEF RequestRecords

(* Reopening leaves no step dated.                                         *)
LEMMA ReopenDays ==
  ASSUME NEW a \in RequestRecords
  PROVE  /\ DOMAIN Reopen(a.steps) = DOMAIN a.steps
         /\ \A j \in DOMAIN a.steps : Reopen(a.steps)[j].decided = NoDay
<1>1. \A j \in DOMAIN a.steps : a.steps[j] \in StepRecords
  BY DEF RequestRecords
<1> QED BY <1>1 DEF StepRecords, Reopen

(* The steps made of a resolved chain are undecided and belong to active   *)
(* people; there are none only if nobody may edit leave.                   *)
LEMMA NewStepsNames ==
  ASSUME NEW org \in Companies, NEW r \in Requests, NEW d \in Days,
         NEW steps, steps = StepsFor(org, r, d)
  PROVE  /\ \A j \in DOMAIN steps :
              steps[j].decided = NoDay /\ steps[j].approver \in org.active
         /\ steps = <<>> => Editors(org) = {}
<1> DEFINE chain == ResolveChain(org, Owner[r], {})
<1>1. ChainFor(org, Owner[r], {}, MaxLevels, chain)
  BY ChainContract
<1> HIDE DEF chain
<1>2. chain \in Seq(People) /\ DOMAIN chain = 1 .. Len(chain) /\ Len(chain) \in Nat
  BY <1>1 DEF ChainFor
<1>3. steps = [i \in DOMAIN chain |->
         [approver |-> chain[i], status |-> "pending", decided |-> NoDay,
          created |-> d, moved |-> NoDay, escalations |-> 0]]
  BY DEF StepsFor, NewSteps, chain
<1>4. \A i \in DOMAIN chain : chain[i] \in org.active
  <2>1. Editors(org) \subseteq org.active
    BY DEF Editors
  <2>2. CASE chain = <<Owner[r]>> /\ Owner[r] \in Editors(org)
    BY <2>1, <2>2
  <2> QED BY <1>1, <2>2 DEF ChainFor
<1>5. steps = <<>> => chain = <<>>
  <2>1. steps = <<>> => DOMAIN chain = {}
    BY <1>3
  <2> QED BY <1>2, <2>1, EmptySeq
<1>6. chain = <<>> => Editors(org) = {}
  BY <1>1 DEF ChainFor
<1> QED BY <1>3, <1>4, <1>5, <1>6

-----------------------------------------------------------------------------
(* Filing gives a row its first steps.                                     *)
LEMMA FiledIsProper ==
  ASSUME NEW org \in Companies, NEW r \in Requests, NEW d \in Days, NEW span \in Spans,
         NEW a, a.steps = <<>>
  PROVE  Proper(a, Filed(org, r, span, d), org.active)
<1> DEFINE b == Filed(org, r, span, d)
           steps == StepsFor(org, r, d)
<1>1. \A j \in DOMAIN steps :
        steps[j].decided = NoDay /\ steps[j].approver \in org.active /\ steps[j].status = "pending"
  BY NewStepsAre, NewStepsNames
<1>2. b.status = "pending" /\ b.steps = steps
  BY DEF Filed, StepsFor
<1>3. DOMAIN a.steps = {}
  OBVIOUS
<1> HIDE DEF b, steps
<1> QED BY <1>1, <1>2, <1>3 DEF Proper, Tidy, b

(* Loading does the same to a row that has none; what is proper from the   *)
(* row as it was loaded is proper from the row as it was stored.           *)
LEMMA EnsuredIsProper ==
  ASSUME NEW org \in Companies, NEW r \in Requests, NEW d \in Days,
         NEW a \in RequestRecords, Tidy(a)
  PROVE  /\ Tidy(Ensured(org, r, a, d))
         /\ \A b : Proper(Ensured(org, r, a, d), b, org.active) => Proper(a, b, org.active)
         /\ Proper(a, Ensured(org, r, a, d), org.active)
<1> DEFINE e == Ensured(org, r, a, d)
           steps == StepsFor(org, r, d)
<1>1. CASE e = a
  BY <1>1, NothingIsProper
<1>2. CASE e # a
  <2>1. a.steps = <<>> /\ a.status = "pending" /\ e = [a EXCEPT !.steps = steps]
    BY <1>2 DEF Ensured, StepsFor
  <2>2. \A j \in DOMAIN steps :
          steps[j].decided = NoDay /\ steps[j].approver \in org.active /\ steps[j].status = "pending"
    BY NewStepsAre, NewStepsNames
  <2> HIDE DEF e, steps
  <2>3. e.steps = steps /\ e.status = "pending" /\ e.first = a.first /\ e.last = a.last
    BY <2>1 DEF RequestRecords
  <2>4. DOMAIN a.steps = {}
    BY <2>1
  <2>5. Tidy(e)
    BY <2>2, <2>3 DEF Tidy
  <2>6. Proper(a, e, org.active)
    BY <2>2, <2>3, <2>4, <2>5 DEF Proper
  <2>7. ASSUME NEW b, Proper(e, b, org.active) PROVE Proper(a, b, org.active)
    <3>1. \A j \in DOMAIN b.steps : b.steps[j].approver \in org.active
      BY <2>2, <2>3, <2>7 DEF Proper
    <3>2. <<b.first, b.last>> # <<a.first, a.last>> =>
            \A j \in DOMAIN b.steps : b.steps[j].status = "pending"
      BY <2>3, <2>7 DEF Proper
    <3> QED BY <2>4, <2>7, <3>1, <3>2 DEF Proper
  <2> QED BY <2>5, <2>6, <2>7 DEF e
<1> QED BY <1>1, <1>2

(* Reopening: changed dates, or an approval taken back.                    *)
LEMMA UpdatedIsProper ==
  ASSUME NEW a \in RequestRecords, Tidy(a), a.status = "pending", NEW span \in Spans, NEW S
  PROVE  Proper(a, Updated(a, span), S)
<1> DEFINE f == Reopen(a.steps)
           b == [a EXCEPT !.first = span[1], !.last = span[2], !.steps = f]
<1>1. /\ DOMAIN f = DOMAIN a.steps
      /\ \A j \in DOMAIN a.steps :
           /\ f[j].approver = a.steps[j].approver
           /\ f[j].status = "pending" /\ f[j].decided = NoDay
  BY ReopenIs, ReopenDays
<1>2. Updated(a, span) = b
  BY DEF Updated
<1> HIDE DEF f
<1>3. b.steps = f /\ b.status = "pending"
  BY DEF RequestRecords
<1> HIDE DEF b
<1> QED BY <1>1, <1>2, <1>3 DEF Proper, Tidy

(* Taking an approval back reopens the steps of the dates there were.      *)
LEMMA UnapprovedIsProper ==
  ASSUME NEW a \in RequestRecords, Tidy(a), NEW S
  PROVE  Proper(a, Unapproved(a), S)
<1> DEFINE f == Reopen(a.steps)
           b == [a EXCEPT !.status = "pending", !.reviewer = NoOne, !.steps = f]
<1>1. /\ DOMAIN f = DOMAIN a.steps
      /\ \A j \in DOMAIN a.steps :
           /\ f[j].approver = a.steps[j].approver
           /\ f[j].status = "pending" /\ f[j].decided = NoDay
  BY ReopenIs, ReopenDays
<1>2. Unapproved(a) = b
  BY DEF Unapproved
<1> HIDE DEF f
<1>3. b.steps = f /\ b.status = "pending"
  BY DEF RequestRecords
<1> HIDE DEF b
<1> QED BY <1>1, <1>2, <1>3 DEF Proper, Tidy

(* Closing without a decision.                                             *)
LEMMA ClosedIsProper ==
  ASSUME NEW a \in RequestRecords, NEW st \in {"cancelled", "expired"}, NEW d \in Days, NEW S
  PROVE  Proper(a, Closed(a, st, d), S)
<1> DEFINE b == Closed(a, st, d)
<1>1. st \in Statuses
  BY DEF Statuses
<1>2. /\ b.status = st /\ DOMAIN b.steps = DOMAIN a.steps
      /\ b.first = a.first /\ b.last = a.last
      /\ \A j \in DOMAIN a.steps :
           /\ b.steps[j].approver = a.steps[j].approver
           /\ b.steps[j].status =
                IF a.steps[j].status = "pending" THEN "skipped" ELSE a.steps[j].status
           /\ b.steps[j].decided =
                IF a.steps[j].status = "pending" THEN d ELSE a.steps[j].decided
  BY <1>1, ClosedIs, ClosedDays
<1> HIDE DEF b
<1> QED BY <1>2 DEF Proper, Tidy, b

(* A decision about one step: its status changes, so its day may.          *)
LEMMA MarkedIsProper ==
  ASSUME NEW a \in RequestRecords, Tidy(a), NEW i \in DOMAIN a.steps,
         NEW st \in StepStatuses, st # "pending", a.steps[i].status # st,
         NEW d \in Days, NEW b, b.status # "unfiled",
         b.steps = Marked(a, i, st, d).steps, b.first = a.first, b.last = a.last, NEW S
  PROVE  Proper(a, b, S)
<1>1. /\ DOMAIN b.steps = DOMAIN a.steps
      /\ \A j \in DOMAIN a.steps :
           /\ b.steps[j].approver = a.steps[j].approver
           /\ b.steps[j].status = IF j = i THEN st ELSE a.steps[j].status
           /\ b.steps[j].decided = IF j = i THEN d ELSE a.steps[j].decided
  BY MarkedIs, MarkedDays
<1> QED BY <1>1 DEF Proper, Tidy

(* The same when the steps after it are skipped.                           *)
LEMMA MarkedAndClosedIsProper ==
  ASSUME NEW a \in RequestRecords, Tidy(a), NEW i \in DOMAIN a.steps,
         NEW st \in Verdicts, a.steps[i].status # st,
         NEW d \in Days, NEW p \in People, NEW S
  PROVE  Proper(a, [Closed(Marked(a, i, st, d), st, d) EXCEPT !.reviewer = p], S)
<1> DEFINE m == Marked(a, i, st, d)
           c == Closed(m, st, d)
           b == [c EXCEPT !.reviewer = p]
<1>1. st \in StepStatuses /\ st \in Statuses /\ st # "pending" /\ st # "unfiled"
  BY DEF StepStatuses, Statuses, Verdicts
<1>2. /\ m \in RequestRecords /\ DOMAIN m.steps = DOMAIN a.steps
      /\ m.first = a.first /\ m.last = a.last
      /\ \A j \in DOMAIN a.steps :
           /\ m.steps[j].approver = a.steps[j].approver
           /\ m.steps[j].status = IF j = i THEN st ELSE a.steps[j].status
           /\ m.steps[j].decided = IF j = i THEN d ELSE a.steps[j].decided
  BY <1>1, MarkedIs, MarkedDays
<1> HIDE DEF m
<1>3. /\ c \in RequestRecords /\ c.status = st /\ DOMAIN c.steps = DOMAIN m.steps
      /\ c.first = m.first /\ c.last = m.last
      /\ \A j \in DOMAIN m.steps :
           /\ c.steps[j].approver = m.steps[j].approver
           /\ c.steps[j].status =
                IF m.steps[j].status = "pending" THEN "skipped" ELSE m.steps[j].status
           /\ c.steps[j].decided =
                IF m.steps[j].status = "pending" THEN d ELSE m.steps[j].decided
  BY <1>1, <1>2, ClosedIs, ClosedDays
<1> HIDE DEF c
<1>4. b.steps = c.steps /\ b.status = st /\ b.first = c.first /\ b.last = c.last
  BY <1>3 DEF RequestRecords
<1> HIDE DEF b
<1>5. Tidy(b)
  BY <1>1, <1>2, <1>3, <1>4 DEF Tidy
<1>6. Proper(a, b, S)
  BY <1>1, <1>2, <1>3, <1>4, <1>5 DEF Proper
<1> QED BY <1>6 DEF b, c, m

(* An approver decides the current step, which was open.                   *)
LEMMA ReviewedIsProper ==
  ASSUME NEW a \in RequestRecords, Tidy(a), a.status = "pending", NEW i, IsCurrent(a, i),
         NEW p \in People, NEW verdict \in Verdicts, NEW d \in Days, NEW S
  PROVE  Proper(a, Reviewed(a, i, verdict, p, d), S)
<1>1. i \in DOMAIN a.steps /\ a.steps[i].status = "pending"
  BY DEF IsCurrent, IsOpen
<1>2. CASE verdict = "rejected"
  <2>1. Reviewed(a, i, verdict, p, d)
          = [Closed(Marked(a, i, "rejected", d), "rejected", d) EXCEPT !.reviewer = p]
    BY <1>2 DEF Reviewed, Rejected
  <2> QED BY <1>1, <1>2, <2>1, MarkedAndClosedIsProper
<1>3. CASE verdict = "approved"
  <2> DEFINE m == Marked(a, i, "approved", d)
             b == Reviewed(a, i, verdict, p, d)
  <2>1. m \in RequestRecords /\ m.status = a.status /\ m.first = a.first /\ m.last = a.last
    BY <1>1, MarkedIs, MarkedDays DEF StepStatuses
  <2>2. b = m \/ b = [m EXCEPT !.status = "approved", !.reviewer = p]
    BY <1>3 DEF Reviewed, Approved
  <2> HIDE DEF m, b
  <2>3. /\ b.steps = m.steps /\ b.first = a.first /\ b.last = a.last
        /\ b.status # "unfiled"
    BY <2>1, <2>2 DEF RequestRecords
  <2>4. "approved" \in StepStatuses
    BY DEF StepStatuses
  <2>5. b.steps = Marked(a, i, "approved", d).steps
    BY <2>3 DEF m
  <2>6. Proper(a, b, S)
    BY <1>1, <2>3, <2>4, <2>5, MarkedIsProper
  <2> QED BY <2>6 DEF b
<1> QED BY <1>2, <1>3 DEF Verdicts

(* The requester decides the step that was theirs.                         *)
LEMMA SelfApprovedIsProper ==
  ASSUME NEW r \in Requests, NEW a \in RequestRecords, Tidy(a), NEW i, IsCurrent(a, i),
         NEW d \in Days, NEW S
  PROVE  Proper(a, SelfApproved(r, a, i, d), S)
<1> DEFINE m == Marked(a, i, "approved", d)
           b == [m EXCEPT !.status = "approved", !.reviewer = Owner[r]]
<1>1. i \in DOMAIN a.steps /\ a.steps[i].status = "pending" /\ "approved" \in StepStatuses
  BY DEF IsCurrent, IsOpen, StepStatuses
<1>2. m \in RequestRecords /\ m.first = a.first /\ m.last = a.last
  BY <1>1, MarkedIs, MarkedDays
<1>3. SelfApproved(r, a, i, d) = b
  BY DEF SelfApproved
<1>4. b.steps = m.steps /\ b.first = a.first /\ b.last = a.last /\ b.status = "approved"
  BY <1>2 DEF RequestRecords
<1> HIDE DEF b
<1> QED BY <1>1, <1>3, <1>4, MarkedIsProper

(* An override decides the current step, which was open.                   *)
LEMMA OverriddenIsProper ==
  ASSUME NEW r \in Requests, NEW a, Sound(r, a), Tidy(a), a.status = "pending",
         a.steps # <<>>, NEW p \in People, NEW verdict \in Verdicts, NEW d \in Days, NEW S
  PROVE  Proper(a, Overridden(a, verdict, p, d), S)
<1>1. a \in RequestRecords /\ SomebodysTurn(a)
  BY DEF Sound
<1>2. HasCurrent(a) /\ Current(a) \in DOMAIN a.steps /\ IsCurrent(a, Current(a))
  BY <1>1, SomebodyIsCurrent
<1>3. a.steps[Current(a)].status # verdict
  BY <1>2 DEF IsCurrent, IsOpen, Verdicts
<1>4. Overridden(a, verdict, p, d)
        = [Closed(Marked(a, Current(a), verdict, d), verdict, d) EXCEPT !.reviewer = p]
  BY <1>2 DEF Overridden
<1> QED BY <1>1, <1>2, <1>3, <1>4, MarkedAndClosedIsProper

(* The step a refusal marks is an approved or a skipped one.               *)
LEMMA RefusedIsProper ==
  ASSUME NEW r \in Requests, NEW a, Sound(r, a), Tidy(a), a.status = "approved",
         a.steps # <<>>, NEW p \in People, NEW d \in Days, NEW S
  PROVE  Proper(a, Refused(a, p, d), S)
<1> DEFINE i == RevokeTarget(a, p)
           m == Marked(a, i, "rejected", d)
           b == [m EXCEPT !.status = "rejected", !.reviewer = p]
<1>1. a \in RequestRecords /\ StepsTellThe(a)
  BY DEF Sound
<1>3. i \in DOMAIN a.steps
  BY <1>1, RevokeTargetIs
<1>4. Refused(a, p, d) = b
  BY DEF Refused
<1> HIDE DEF i
<1>5. a.steps[i].status # "rejected" /\ "rejected" \in StepStatuses
  BY <1>1, <1>3 DEF StepsTellThe, Having, StepStatuses
<1>6. m \in RequestRecords /\ m.first = a.first /\ m.last = a.last
  BY <1>1, <1>3, <1>5, MarkedIs, MarkedDays
<1>7. b.steps = m.steps /\ b.first = a.first /\ b.last = a.last /\ b.status = "rejected"
  BY <1>6 DEF RequestRecords
<1> HIDE DEF b
<1> QED BY <1>1, <1>3, <1>4, <1>5, <1>7, MarkedIsProper

-----------------------------------------------------------------------------
(* Handing an open step to somebody in S, whatever else is noted on it.    *)
LEMMA MovedIsProper ==
  ASSUME NEW a \in RequestRecords, Tidy(a), NEW S,
         NEW b \in RequestRecords,
         b.status = a.status, b.first = a.first, b.last = a.last,
         DOMAIN b.steps = DOMAIN a.steps,
         \A j \in DOMAIN a.steps :
           /\ b.steps[j].status = a.steps[j].status
           /\ b.steps[j].decided = a.steps[j].decided
           /\ \/ b.steps[j].approver = a.steps[j].approver
              \/ a.steps[j].status = "pending" /\ b.steps[j].approver \in S
  PROVE  Proper(a, b, S)
<1>1. a.steps = <<>> => b.steps = <<>>
  BY EmptySeq DEF RequestRecords
<1> QED BY <1>1 DEF Proper, Tidy

(* A reassignment moves one open step.                                     *)
LEMMA ReassignedIsProper ==
  ASSUME NEW r \in Requests, NEW a, Sound(r, a), Tidy(a), a.status = "pending",
         NEW i, IsOpen(a, i), NEW S \in SUBSET People, NEW q \in S \ {Owner[r]}, NEW d \in Days
  PROVE  Proper(a, Reassigned(a, i, q, d), S)
<1> DEFINE f == [a.steps EXCEPT ![i] = [@ EXCEPT !.approver = q, !.moved = d]]
           b == Reassigned(a, i, q, d)
<1>1. a \in RequestRecords /\ i \in DOMAIN a.steps /\ a.steps[i].status = "pending"
  BY DEF Sound, IsOpen
<1>2. \A j \in DOMAIN a.steps : a.steps[j] \in StepRecords
  BY <1>1 DEF RequestRecords
<1>3. b = [a EXCEPT !.steps = f]
  BY <1>1 DEF Reassigned, RequestRecords
<1>4. b \in RequestRecords
  BY <1>1, ReassignedIsSound DEF Sound
<1> HIDE DEF b
<1>5. \A j \in DOMAIN a.steps :
        /\ f[j].status = a.steps[j].status /\ f[j].decided = a.steps[j].decided
        /\ \/ f[j].approver = a.steps[j].approver
           \/ a.steps[j].status = "pending" /\ f[j].approver \in S
  BY <1>1, <1>2 DEF StepRecords
<1>6. DOMAIN f = DOMAIN a.steps
  OBVIOUS
<1> HIDE DEF f
<1>7. b.steps = f /\ b.status = a.status /\ b.first = a.first /\ b.last = a.last
  BY <1>1, <1>3 DEF RequestRecords
<1>8. Proper(a, b, S)
  BY <1>1, <1>4, <1>5, <1>6, <1>7, MovedIsProper
<1> QED BY <1>8 DEF b

(* The job's escalation, to whom EscalationTarget names.                   *)
LEMMA EscalatedIsProper ==
  ASSUME NEW r \in Requests, NEW a, Sound(r, a), Tidy(a), a.status = "pending",
         NEW i, IsOpen(a, i), NEW S \in SUBSET People, NEW q \in S \ {Owner[r]}, NEW d \in Days
  PROVE  Proper(a, Escalated(a, i, q, d), S)
<1> DEFINE n == a.steps[i].escalations + 1
           f == [a.steps EXCEPT ![i] =
                   [@ EXCEPT !.approver = q, !.escalations = n, !.moved = d]]
           b == Escalated(a, i, q, d)
<1>1. a \in RequestRecords /\ i \in DOMAIN a.steps /\ a.steps[i].status = "pending"
  BY DEF Sound, IsOpen
<1>2. \A j \in DOMAIN a.steps : a.steps[j] \in StepRecords
  BY <1>1 DEF RequestRecords
<1>3. b = [a EXCEPT !.steps = f]
  BY <1>1 DEF Escalated, RequestRecords
<1>4. b \in RequestRecords
  BY <1>1, EscalatedIsSound DEF Sound
<1> HIDE DEF b, n
<1>5. \A j \in DOMAIN a.steps :
        /\ f[j].status = a.steps[j].status /\ f[j].decided = a.steps[j].decided
        /\ \/ f[j].approver = a.steps[j].approver
           \/ a.steps[j].status = "pending" /\ f[j].approver \in S
  BY <1>1, <1>2 DEF StepRecords
<1>6. DOMAIN f = DOMAIN a.steps
  OBVIOUS
<1> HIDE DEF f
<1>7. b.steps = f /\ b.status = a.status /\ b.first = a.first /\ b.last = a.last
  BY <1>1, <1>3 DEF RequestRecords
<1>8. Proper(a, b, S)
  BY <1>1, <1>4, <1>5, <1>6, <1>7, MovedIsProper
<1> QED BY <1>8 DEF b

(* The handover moves the leaver's open steps to whoever takes over, who   *)
(* is active in the company without them.                                  *)
LEMMA ReleasedIsProper ==
  ASSUME NEW org \in Companies, NEW r \in Requests, NEW a, Sound(r, a), Tidy(a),
         a.status = "pending", NEW p \in People, NEW to \in [1 .. MaxLevels -> People],
         HandedOver(org, r, a, p, to), NEW d \in Days
  PROVE  Proper(a, Released(a, to, d), org.active)
<1> DEFINE f == [i \in DOMAIN a.steps |->
                   IF a.steps[i].approver # to[i]
                   THEN [a.steps[i] EXCEPT !.approver = to[i], !.moved = d]
                   ELSE a.steps[i]]
           b == Released(a, to, d)
<1>1. a \in RequestRecords
  BY DEF Sound
<1>2. /\ a.steps \in Seq(StepRecords) /\ Len(a.steps) <= MaxLevels
      /\ \A j \in DOMAIN a.steps : a.steps[j] \in StepRecords
      /\ DOMAIN a.steps = 1 .. Len(a.steps) /\ Len(a.steps) \in Nat
  BY <1>1 DEF RequestRecords
<1>3. ASSUME NEW j \in DOMAIN a.steps
      PROVE  \/ to[j] = a.steps[j].approver
             \/ a.steps[j].status = "pending" /\ to[j] \in org.active
  <2> DEFINE taken == {to[k] : k \in 1 .. j-1}
                      \cup {a.steps[k].approver : k \in j .. Len(a.steps)}
  <2>1. \A k \in 1 .. j-1 : to[k] \in People
    BY <1>2, HandlersAssumption
  <2>2. taken \in SUBSET People
    BY <1>2, <2>1 DEF StepRecords
  <2>3. HandsOver(a.steps[j], p, Replacement(org, r, p, taken), to[j])
    BY DEF HandedOver
  <2> HIDE DEF taken
  <2>4. Replacement(org, r, p, taken) = NoOne \/ Replacement(org, r, p, taken) \in org.active
    BY <2>2, ReplacementIs
  <2> QED BY <2>3, <2>4 DEF HandsOver
<1>4. b = [a EXCEPT !.steps = f]
  BY DEF Released
<1>5. b \in RequestRecords
  BY <1>1, ReleasedIsSound DEF Sound
<1> HIDE DEF b
<1>6. \A j \in DOMAIN a.steps :
        /\ f[j].status = a.steps[j].status /\ f[j].decided = a.steps[j].decided
        /\ \/ f[j].approver = a.steps[j].approver
           \/ a.steps[j].status = "pending" /\ f[j].approver \in org.active
  BY <1>2, <1>3 DEF StepRecords
<1>7. DOMAIN f = DOMAIN a.steps
  OBVIOUS
<1> HIDE DEF f
<1>8. b.steps = f /\ b.status = a.status /\ b.first = a.first /\ b.last = a.last
  BY <1>1, <1>4 DEF RequestRecords
<1>9. Proper(a, b, org.active)
  BY <1>1, <1>5, <1>6, <1>7, <1>8, MovedIsProper
<1> QED BY <1>9 DEF b

(* The job on one request. A request it ends without steps is one nobody   *)
(* may decide.                                                             *)
LEMMA JobIsProper ==
  ASSUME NEW org \in Companies, NEW r \in Requests, NEW a, Sound(r, a), Tidy(a), NEW d \in Days,
         NEW b, b = JobOn(org, r, a, Ensured(org, r, a, d), d)
  PROVE  /\ Proper(a, b, org.active)
         /\ a.status = "pending" /\ b.status = "expired" /\ b.steps = <<>> => Editors(org) = {}
<1> DEFINE chained == Ensured(org, r, a, d)
           i == Current(a)
           target == EscalationTarget(org, r, a.steps[i].approver)
<1>1. Proper(a, chained, org.active) /\ chained.status = a.status
  BY EnsuredIsProper, EnsuredIsSound DEF Sound
<1>2. a \in RequestRecords /\ org.active \in SUBSET People
  BY DEF Sound, Companies
<1>3. CASE a.status # "pending"
  BY <1>3, NothingIsProper DEF JobOn
<1>4. CASE a.status = "pending" /\ chained # a
  BY <1>1, <1>4 DEF JobOn
<1>5. CASE a.status = "pending" /\ chained = a
  <2>1. b = Worked(org, r, a, d)
    BY <1>5 DEF JobOn
  <2>2. CASE a.last < d
    <3>1. b = Closed(a, "expired", d)
      BY <2>1, <2>2 DEF Worked
    <3>2. b.steps = <<>> => a.steps = <<>>
      <4>1. "expired" \in Statuses
        BY DEF Statuses
      <4>2. Len(b.steps) = Len(a.steps) /\ b \in RequestRecords
        BY <1>2, <3>1, <4>1, ClosedIs
      <4>3. a.steps \in Seq(StepRecords) /\ b.steps \in Seq(StepRecords)
        BY <1>2, <4>2 DEF RequestRecords
      <4> QED BY <4>2, <4>3, EmptySeq
    <3>3. a.steps = <<>> => Editors(org) = {}
      <4> DEFINE steps == StepsFor(org, r, d)
      <4>1. a.steps = <<>> => chained = [a EXCEPT !.steps = steps]
        BY <1>5 DEF Ensured, StepsFor
      <4> HIDE DEF steps
      <4>2. a.steps = <<>> => steps = <<>>
        BY <1>2, <1>5, <4>1 DEF RequestRecords
      <4> QED BY <4>2, NewStepsNames DEF steps
    <3> QED BY <1>2, <3>1, <3>2, <3>3, ClosedIsProper
  <2>3. CASE ~ (a.last < d) /\ ~ HasCurrent(a)
    BY <1>5, <2>1, <2>3, NothingIsProper DEF Worked
  <2>4. CASE ~ (a.last < d) /\ HasCurrent(a)
    <3>1. b = OnWaiting(org, r, a, i, d)
      BY <2>1, <2>4 DEF Worked
    <3>2. IsOpen(a, i)
      BY <2>4 DEF HasCurrent, Current, IsCurrent
    <3>3. a.steps[i].approver \in People
      <4>1. a.steps[i] \in StepRecords
        BY <1>2, <3>2 DEF RequestRecords, IsOpen
      <4> QED BY <4>1 DEF StepRecords
    <3>4. target = NoOne \/ target \in org.active \ {Owner[r]}
      BY <1>2, <3>3, EscalationTargetIs
    <3> HIDE DEF i
    <3>5. b = a \/ (target # NoOne /\ b = Escalated(a, i, target, d))
      BY <3>1 DEF OnWaiting, Chased
    <3> HIDE DEF target
    <3>6. CASE b = a
      BY <1>5, <3>6, NothingIsProper
    <3>7. CASE target # NoOne /\ b = Escalated(a, i, target, d)
      <4>1. Proper(a, b, org.active)
        BY <1>2, <1>5, <3>2, <3>4, <3>7, EscalatedIsProper
      <4>2. b.status = "pending"
        BY <1>5, <3>2, <3>4, <3>7, <1>2, EscalatedIsSound DEF IsOpen
      <4> QED BY <4>1, <4>2
    <3> QED BY <3>5, <3>6, <3>7
  <2> QED BY <2>2, <2>3, <2>4
<1> QED BY <1>3, <1>4, <1>5

-----------------------------------------------------------------------------
(* What is proved of every step, but for the two that end a request.       *)
StepsInOrder ==
  /\ NewApproversCanActStep
  /\ DecisionsKeepTheirAuthorStep
  /\ ChangedDatesAreApprovedAgainStep
  /\ AllTidy'

(* Storing rows that are proper after the stored ones does all of it. The  *)
(* role of a new approver is the one Commit gives.                         *)
LEMMA CommitInOrder ==
  ASSUME active' \subseteq People, NEW new, Commit(new),
         \A r \in Requests : Proper(app[r], new[r], active')
  PROVE  StepsInOrder
<1>1. app' = new
  BY DEF Commit
<1>2. \A r \in Requests : Proper(app[r], app'[r], active')
  BY <1>1
<1>3. DecisionsKeepTheirAuthorStep /\ ChangedDatesAreApprovedAgainStep /\ AllTidy'
  BY <1>2 DEF Proper, DecisionsKeepTheirAuthorStep, ChangedDatesAreApprovedAgainStep, AllTidy
<1>4. NewApproversCanActStep
  <2> SUFFICES ASSUME NEW r \in Requests, NEW p \in Named(app[r], app'[r])
               PROVE  /\ p \in active'
                      /\ p # Owner[r] => roles'[p] \cap ReviewerRoles # {}
    BY DEF NewApproversCanActStep
  <2>1. p \in active'
    BY <1>2 DEF Named, Proper
  <2> DEFINE S == UNION {Named(app[q], new[q]) \ {Owner[q]} : q \in Requests}
  <2>2. p # Owner[r] => p \in S
    BY <1>1
  <2>3. roles' = WithReviewerRole(roles, S)
    BY DEF Commit
  <2> HIDE DEF S
  <2>4. p \in S => roles'[p] \cap ReviewerRoles # {}
    BY <2>1, <2>3 DEF WithReviewerRole, ReviewerRoles
  <2> QED BY <2>1, <2>2, <2>4
<1> QED BY <1>3, <1>4 DEF StepsInOrder

(* Storing one row.                                                        *)
LEMMA SaveInOrder ==
  ASSUME Inv, AllTidy, NEW r \in Requests, NEW b, Save(r, b), active' = active,
         Proper(app[r], b, active)
  PROVE  StepsInOrder
<1> DEFINE new == [app EXCEPT ![r] = b]
<1>1. app \in [Requests -> RequestRecords] /\ active' \subseteq People
  BY DEF Inv, TypeOK
<1>2. new[r] = b /\ \A q \in Requests \ {r} : new[q] = app[q]
  BY <1>1
<1>3. \A q \in Requests : Proper(app[q], new[q], active')
  BY <1>2, NothingIsProper DEF AllTidy
<1>4. Commit(new)
  BY DEF Save
<1> HIDE DEF new
<1> QED BY <1>1, <1>3, <1>4, CommitInOrder

(* A step that writes no row.                                              *)
LEMMA NothingInOrder ==
  ASSUME AllTidy, UNCHANGED app PROVE StepsInOrder
BY DEF StepsInOrder, AllTidy, NewApproversCanActStep, Named, DecisionsKeepTheirAuthorStep,
       ChangedDatesAreApprovedAgainStep

(* The handlers: each is proper after the row as it was loaded, so after   *)
(* the row as it was stored, and none of them ends a request for being out *)
(* of time.                                                                *)
LEMMA HandleInOrder ==
  ASSUME Inv, AllTidy, NEW r \in Requests, NEW a, a = Ensured(Company, r, app[r], today),
         Handle(r, a)
  PROVE  StepsInOrder /\ NothingExpiresUnroutedStep
<1>1. /\ Company \in Companies /\ Company.active = active /\ today \in Days
      /\ active \in SUBSET People
  BY CompanyIs DEF Inv, TypeOK, Company
<1>2. app[r] \in RequestRecords /\ Sound(r, app[r]) /\ Tidy(app[r])
  BY DEF Inv, AllTidy, Sound
<1>3. /\ Sound(r, a) /\ a.status = app[r].status /\ a \in RequestRecords
      /\ a.status = "pending" /\ Editors(Company) \ {Owner[r]} # {} => a.steps # <<>>
  BY <1>1, <1>2, EnsuredIsSound DEF Sound
<1>4. /\ Tidy(a) /\ Proper(app[r], a, active)
      /\ \A b : Proper(a, b, active) => Proper(app[r], b, active)
  BY <1>1, <1>2, EnsuredIsProper
<1>5. ASSUME NEW b, Save(r, b), active' = active, Proper(a, b, active), b.status # "expired"
      PROVE  StepsInOrder /\ NothingExpiresUnroutedStep
  <2>1. StepsInOrder
    BY <1>2, <1>4, <1>5, SaveInOrder
  <2>2. app' = [app EXCEPT ![r] = b] /\ app \in [Requests -> RequestRecords]
    BY <1>5, SaveStores DEF Inv, TypeOK
  <2>3. \A q \in Requests : app'[q].status = "expired" => app[q].status = "expired"
    BY <1>5, <2>2
  <2> QED BY <2>1, <2>3 DEF NothingExpiresUnroutedStep
<1> DEFINE Goal == StepsInOrder /\ NothingExpiresUnroutedStep
<1>6. ASSUME NEW b, Keep(r, b) \/ Decide(r, b) PROVE Save(r, b) /\ active' = active
  BY <1>6 DEF Keep, Decide, people
<1>7. ASSUME Open(r, a) PROVE Goal
  <2>1. Keep(r, a) /\ a.status = "pending"
    BY <1>3, <1>7 DEF Open, Ensured
  <2>2. Proper(a, a, active)
    BY <1>4, NothingIsProper
  <2> QED BY <1>5, <1>6, <2>1, <2>2
<1>8. ASSUME Cancel(r, a) PROVE Goal
  <2>1. Proper(a, Cancelled(a, today), active) /\ Cancelled(a, today).status = "cancelled"
    BY <1>1, <1>3, <1>8, ClosedIsProper, WithdrawnIsSound DEF Cancel, Cancelled
  <2> QED BY <1>5, <1>6, <1>8, <2>1 DEF Cancel
<1>9. ASSUME NEW span \in Spans, Update(r, a, span) PROVE Goal
  <2>1. Proper(a, Updated(a, span), active) /\ Updated(a, span).status = "pending"
    BY <1>3, <1>4, <1>9, UpdatedIsProper, UpdatedIsSound DEF Update
  <2> QED BY <1>5, <1>6, <1>9, <2>1 DEF Update
<1>10. ASSUME NEW i \in DOMAIN a.steps, SelfApprove(r, a, i) PROVE Goal
  <2>1. /\ Proper(a, SelfApproved(r, a, i, today), active)
        /\ SelfApproved(r, a, i, today).status = "approved"
    BY <1>1, <1>3, <1>4, <1>10, SelfApprovedIsProper, SelfApprovedIsSound DEF SelfApprove
  <2> QED BY <1>5, <1>6, <1>10, <2>1 DEF SelfApprove
<1>11. ASSUME NEW i \in DOMAIN a.steps, NEW p \in People, NEW v \in Verdicts,
              Review(r, a, i, p, v)
       PROVE  Goal
  <2>1. /\ a.status = "pending" /\ IsCurrent(a, i) /\ p \in People \ {Owner[r]}
        /\ Decide(r, Reviewed(a, i, v, p, today))
    BY <1>11 DEF Review
  <2>2. /\ Proper(a, Reviewed(a, i, v, p, today), active)
        /\ Reviewed(a, i, v, p, today).status \in {"pending", "approved", "rejected"}
    BY <1>1, <1>3, <1>4, <2>1, ReviewedIsProper, ReviewedIsSound
  <2> QED BY <1>5, <1>6, <2>1, <2>2
<1>12. ASSUME NEW i \in DOMAIN a.steps, NEW p \in People, NEW q \in People,
              Reassign(r, a, p, i, q)
       PROVE  Goal
  <2>1. /\ a.status = "pending" /\ IsOpen(a, i) /\ q \in active \ {Owner[r]}
        /\ Keep(r, Reassigned(a, i, q, today))
    BY <1>12 DEF Reassign
  <2>2. /\ Proper(a, Reassigned(a, i, q, today), active)
        /\ Reassigned(a, i, q, today).status = "pending"
    BY <1>1, <1>3, <1>4, <2>1, ReassignedIsProper, ReassignedIsSound
  <2> QED BY <1>5, <1>6, <2>1, <2>2
<1>13. ASSUME NEW p \in People, Unapprove(r, a, p) PROVE Goal
  <2>1. Save(r, Unapproved(a)) /\ active' = active
    BY <1>13 DEF Unapprove, Revoke, people
  <2>2. Proper(a, Unapproved(a), active) /\ Unapproved(a).status = "pending"
    BY <1>3, <1>4, UnapprovedIsProper, UnapprovedIsSound
  <2> QED BY <1>5, <2>1, <2>2
<1>14. ASSUME NEW p \in People, Refuse(r, a, p) PROVE Goal
  <2>1. /\ a.status = "approved" /\ a.steps # <<>>
        /\ Save(r, Refused(a, p, today)) /\ active' = active
    BY <1>14 DEF Refuse, Revoke, people
  <2>2. Proper(a, Refused(a, p, today), active) /\ Refused(a, p, today).status = "rejected"
    BY <1>1, <1>3, <1>4, <2>1, RefusedIsProper, RefusedIsSound
  <2> QED BY <1>5, <2>1, <2>2
<1>15. ASSUME NEW p \in People, NEW v \in Verdicts, Override(r, a, p, v) PROVE Goal
  <2>1. /\ a.status = "pending" /\ p \in People \ {Owner[r]} /\ a.steps # <<>>
        /\ Decide(r, Overridden(a, v, p, today))
    BY <1>3, <1>15 DEF Override, CanOverride
  <2>2. /\ Proper(a, Overridden(a, v, p, today), active)
        /\ Overridden(a, v, p, today).status = v
    BY <1>1, <1>3, <1>4, <2>1, OverriddenIsProper, OverriddenIsSound
  <2>3. v # "expired"
    BY DEF Verdicts
  <2> QED BY <1>5, <1>6, <2>1, <2>2, <2>3
<1> QED
  BY <1>7, <1>8, <1>9, <1>10, <1>11, <1>12, <1>13, <1>14, <1>15 DEF Handle

(* The job, on all requests.                                               *)
LEMMA JobInOrder ==
  ASSUME Inv, AllTidy, Job PROVE StepsInOrder /\ NothingExpiresUnroutedStep
<1> DEFINE new == [r \in Requests |->
             JobOn(Company, r, app[r], Ensured(Company, r, app[r], today), today)]
<1>1. /\ Company \in Companies /\ Company.active = active /\ today \in Days
      /\ active \subseteq People
  BY CompanyIs DEF Inv, TypeOK, Company
<1>2. ASSUME NEW r \in Requests
      PROVE  /\ Proper(app[r], new[r], active)
             /\ app[r].status = "pending" /\ new[r].status = "expired" /\ new[r].steps = <<>>
                  => Editors(Company) = {}
  BY <1>1, JobIsProper DEF Inv, AllTidy
<1>3. Commit(new) /\ active' = active
  BY DEF Job, people
<1> HIDE DEF new
<1>4. StepsInOrder
  BY <1>1, <1>2, <1>3, CommitInOrder
<1>5. app' = new
  BY <1>3 DEF Commit
<1> QED BY <1>2, <1>4, <1>5 DEF NothingExpiresUnroutedStep

(* A separation: new approvers are active in the company without the       *)
(* leaver.                                                                 *)
LEMMA SeparateInOrder ==
  ASSUME Inv, AllTidy, NEW p \in People, Separate(p)
  PROVE  StepsInOrder /\ NothingExpiresUnroutedStep
<1> DEFINE org == CompanyWithout(p)
           held == HeldBy(p)
<1>1. org \in Companies /\ today \in Days /\ active \subseteq People
  BY CompanyIs DEF Inv, TypeOK
<1>2. org.active = active \ {p} /\ active' = active \ {p}
  BY DEF CompanyWithout, Company, Separate
<1>3. PICK to \in [held -> [1 .. MaxLevels -> People]] :
        /\ \A r \in held : HandedOver(org, r, app[r], p, to[r])
        /\ Commit([r \in Requests |->
             IF r \in held THEN Released(app[r], to[r], today) ELSE app[r]])
  BY DEF Separate, HandOver
<1> DEFINE new == [r \in Requests |->
             IF r \in held THEN Released(app[r], to[r], today) ELSE app[r]]
<1>4. \A r \in held : r \in Requests /\ app[r].status = "pending"
  BY DEF HeldBy
<1> HIDE DEF org, held
<1>5. ASSUME NEW r \in Requests
      PROVE  Proper(app[r], new[r], active') /\ new[r].status = app[r].status
  <2>1. Sound(r, app[r]) /\ Tidy(app[r])
    BY DEF Inv, AllTidy
  <2>2. CASE r \in held
    <3>1. /\ app[r].status = "pending" /\ HandedOver(org, r, app[r], p, to[r])
          /\ to[r] \in [1 .. MaxLevels -> People]
      BY <1>3, <1>4, <2>2
    <3>2. /\ Proper(app[r], Released(app[r], to[r], today), org.active)
          /\ Released(app[r], to[r], today).status = "pending"
      BY <1>1, <2>1, <3>1, ReleasedIsProper, ReleasedIsSound
    <3> QED BY <1>2, <2>2, <3>1, <3>2
  <2>3. CASE r \notin held
    BY <2>1, <2>3, NothingIsProper
  <2> QED BY <2>2, <2>3
<1>6. Commit(new)
  BY <1>3
<1> HIDE DEF new
<1>7. StepsInOrder
  BY <1>1, <1>2, <1>5, <1>6, CommitInOrder
<1>8. app' = new
  BY <1>6 DEF Commit
<1> QED BY <1>5, <1>7, <1>8 DEF NothingExpiresUnroutedStep

(* A filing starts from a row without steps.                               *)
LEMMA FileInOrder ==
  ASSUME Inv, AllTidy, NEW r \in Requests, NEW span \in Spans, File(r, span)
  PROVE  StepsInOrder /\ NothingExpiresUnroutedStep
<1> DEFINE b == Filed(Company, r, span, today)
<1>1. Company \in Companies /\ Company.active = active /\ today \in Days
  BY CompanyIs DEF Inv, TypeOK, Company
<1>2. Save(r, b) /\ active' = active /\ app[r].steps = <<>> /\ app[r].status = "unfiled"
  BY DEF File, Keep, people, AllTidy, Tidy
<1>3. Proper(app[r], b, active) /\ b.status = "pending"
  BY <1>1, <1>2, FiledIsProper, FiledIsSound
<1> HIDE DEF b
<1>4. StepsInOrder
  BY <1>2, <1>3, SaveInOrder
<1>5. app' = [app EXCEPT ![r] = b] /\ app \in [Requests -> RequestRecords]
  BY <1>2, SaveStores DEF Inv, TypeOK
<1> QED BY <1>3, <1>4, <1>5 DEF NothingExpiresUnroutedStep

(* So every step is in order.                                              *)
LEMMA StepInOrder ==
  ASSUME Inv, AllTidy, [Next]_vars
  PROVE  StepsInOrder /\ NothingExpiresUnroutedStep
<1>1. ASSUME NEW r \in Requests, NEW span \in Spans, File(r, span)
      PROVE  StepsInOrder /\ NothingExpiresUnroutedStep
  BY <1>1, FileInOrder
<1>2. ASSUME NEW r \in Requests, NEW a \in {Ensured(Company, r, app[r], today)}, Handle(r, a)
      PROVE  StepsInOrder /\ NothingExpiresUnroutedStep
  BY <1>2, HandleInOrder
<1>3. ASSUME Job PROVE StepsInOrder /\ NothingExpiresUnroutedStep
  BY <1>3, JobInOrder
<1>4. ASSUME NEW p \in People, Separate(p) PROVE StepsInOrder /\ NothingExpiresUnroutedStep
  BY <1>4, SeparateInOrder
<1>5. ASSUME UNCHANGED app PROVE StepsInOrder /\ NothingExpiresUnroutedStep
  BY <1>5, NothingInOrder DEF NothingExpiresUnroutedStep
<1>6. ASSUME NEW p \in People, Reinstate(p) PROVE UNCHANGED app
  BY <1>6 DEF Reinstate
<1>7. ASSUME NEW p \in People, NEW S \in RolesFor[p], SetRoles(p, S) PROVE UNCHANGED app
  BY <1>7 DEF SetRoles
<1>8. ASSUME Tick PROVE UNCHANGED app
  BY <1>8 DEF Tick
<1>9. ASSUME UNCHANGED vars PROVE UNCHANGED app
  BY <1>9 DEF vars
<1> QED BY <1>1, <1>2, <1>3, <1>4, <1>5, <1>6, <1>7, <1>8, <1>9 DEF Next

(* No request starts with steps.                                           *)
LEMMA TidyAtFirst == Init => AllTidy
<1>1. DOMAIN Unfiled.steps = {} /\ Unfiled.steps = <<>>
  BY DEF Unfiled
<1> QED BY <1>1 DEF Init, AllTidy, Tidy

(* And none is ever untidy.                                                *)
LEMMA Tidiness == Spec => []AllTidy
<1>1. Inv /\ AllTidy /\ [Next]_vars => AllTidy'
  BY StepInOrder DEF StepsInOrder
<1> QED BY <1>1, TidyAtFirst, Invariance, PTL DEF Spec

(* In the abstract life only an approval approves, and only for one        *)
(* request; that it is by its owner says who else was able to.             *)
LEMMA ApprovedByOwnerAlone ==
  ASSUME Inv, Inv', [Next]_vars PROVE SelfApprovalOnlyWhenAloneStep
<1> SUFFICES ASSUME NEW r \in Requests,
                    app[r].status = "pending", app'[r].status = "approved",
                    app'[r].reviewer = Owner[r]
             PROVE  Editors(Company) \ {Owner[r]} = {}
  BY DEF SelfApprovalOnlyWhenAloneStep
<1>1. Lifecycle!Next
  <2>1. [Lifecycle!Next]_(Lifecycle!vars)
    BY StepIsLife DEF Inv
  <2>2. StatusOf(app')[r] # StatusOf(app)[r]
    BY DEF StatusOf
  <2>3. [q \in Requests |-> app'[q].status] # [q \in Requests |-> app[q].status]
    BY <2>2 DEF StatusOf
  <2> QED BY <2>1, <2>3 DEF Lifecycle!vars
<1>2. /\ StatusOf(app)[r] = "pending" /\ StatusOf(app')[r] = "approved"
      /\ ApproverOf(app')[r] = {Owner[r]}
  BY DEF StatusOf, ApproverOf
<1>3. ASSUME NEW q \in Requests, Lifecycle!File(q) PROVE FALSE
  <2>1. StatusOf(app') = [StatusOf(app) EXCEPT ![q] = "pending"]
    BY <1>3 DEF Lifecycle!File, StatusOf
  <2> QED BY <1>2, <2>1 DEF StatusOf
<1>4. ASSUME NEW q \in Requests, NEW end \in {"rejected", "cancelled"}, Lifecycle!Decline(q, end)
      PROVE  FALSE
  <2>1. StatusOf(app') = [StatusOf(app) EXCEPT ![q] = end]
    BY <1>4 DEF Lifecycle!Decline, StatusOf
  <2> QED BY <1>2, <2>1 DEF StatusOf
<1>5. ASSUME NEW q \in Requests, NEW to \in {"pending", "rejected"}, Lifecycle!Undo(q, to)
      PROVE  FALSE
  <2>1. StatusOf(app') = [StatusOf(app) EXCEPT ![q] = to]
    BY <1>5 DEF Lifecycle!Undo, StatusOf
  <2> QED BY <1>2, <2>1 DEF StatusOf
<1>6. ASSUME NEW T \in SUBSET Requests, Lifecycle!Expire(T) PROVE FALSE
  <2>1. StatusOf(app') =
          [q \in Requests |-> IF q \in T THEN "expired" ELSE StatusOf(app)[q]]
    BY <1>6 DEF Lifecycle!Expire, StatusOf
  <2> QED BY <1>2, <2>1
<1>7. ASSUME Lifecycle!Turnover PROVE FALSE
  <2>1. StatusOf(app') = StatusOf(app)
    BY <1>7 DEF Lifecycle!Turnover, StatusOf
  <2> QED BY <1>2, <2>1
<1>8. PICK q \in Requests, p \in People : Lifecycle!Approve(q, p)
  BY <1>1, <1>3, <1>4, <1>5, <1>6, <1>7 DEF Lifecycle!Next
<1>9. /\ StatusOf(app') = [StatusOf(app) EXCEPT ![q] = "approved"]
      /\ ApproverOf(app') = [ApproverOf(app) EXCEPT ![q] = {p}]
      /\ p = Owner[q] => Editors(Company) \subseteq {p}
  BY <1>8 DEF Lifecycle!Approve, StatusOf, ApproverOf
<1>10. q = r
  BY <1>2, <1>9 DEF StatusOf
<1>11. p = Owner[r]
  BY <1>2, <1>9, <1>10 DEF ApproverOf
<1> QED BY <1>9, <1>10, <1>11

-----------------------------------------------------------------------------
(* Whoever is put on a step can act on it.                                 *)
THEOREM ApproversTheorem == Spec => NewApproversCanAct
<1>1. Inv /\ AllTidy /\ [Next]_vars => [NewApproversCanActStep]_vars
  BY StepInOrder DEF StepsInOrder
<1> QED BY <1>1, Invariance, Tidiness, PTL DEF Spec, NewApproversCanAct

(* No handover, escalation, separation or later handler rewrites a         *)
(* decision.                                                               *)
THEOREM AuthorTheorem == Spec => DecisionsKeepTheirAuthor
<1>1. Inv /\ AllTidy /\ [Next]_vars => [DecisionsKeepTheirAuthorStep]_vars
  BY StepInOrder DEF StepsInOrder
<1> QED BY <1>1, Invariance, Tidiness, PTL DEF Spec, DecisionsKeepTheirAuthor

(* An approval does not outlive the dates it was given for.                *)
THEOREM DatesTheorem == Spec => ChangedDatesAreApprovedAgain
<1>1. Inv /\ AllTidy /\ [Next]_vars => [ChangedDatesAreApprovedAgainStep]_vars
  BY StepInOrder DEF StepsInOrder
<1> QED BY <1>1, Invariance, Tidiness, PTL DEF Spec, ChangedDatesAreApprovedAgain

(* No request runs out without having been anybody's while somebody could  *)
(* have decided it.                                                        *)
THEOREM RoutedTheorem == Spec => NothingExpiresUnrouted
<1>1. Inv /\ AllTidy /\ [Next]_vars => [NothingExpiresUnroutedStep]_vars
  BY StepInOrder
<1> QED BY <1>1, Invariance, Tidiness, PTL DEF Spec, NothingExpiresUnrouted

(* Nobody approves their own leave while somebody else could.              *)
THEOREM AloneTheorem == Spec => SelfApprovalOnlyWhenAlone
<1>1. Inv /\ Inv' /\ [Next]_vars => [SelfApprovalOnlyWhenAloneStep]_vars
  BY ApprovedByOwnerAlone
<1> QED BY <1>1, Invariance, PTL DEF Spec, SelfApprovalOnlyWhenAlone

(* Nobody approves their own leave, but alone.                             *)
THEOREM OwnLeaveTheorem == Spec => NobodyApprovesTheirOwn
<1> QED BY ElseTheorem, AloneTheorem DEF NobodyApprovesTheirOwn
=============================================================================
