--------------------------- MODULE Services_proofs ---------------------------
(***************************************************************************)
(* What goes on in the background does not repeat itself, for any number   *)
(* of server processes, days, failures and time-outs: the daily leave job  *)
(* (ReminderLedger), and the reports, the outbox and the year end of the   *)
(* scheduler (BackgroundJobs). And plugins run under a licence only        *)
(* (Plugins), however late their events are delivered. And a report        *)
(* (Exports) has every row that belongs in it, once, in order, for any     *)
(* data, columns, filters, groups, totals and sorts.                       *)
(***************************************************************************)
EXTENDS ReminderLedger, BackgroundJobs, Plugins, Exports, FiniteSetTheorems, TLAPS

-----------------------------------------------------------------------------
(* The leave job. Between its claim and its commit a run's row is neither  *)
(* there nor claimed by anybody else: that, and not who leads, is what     *)
(* keeps a notice from being sent twice. An expiry has no step, and its    *)
(* rows are no obstacle to one another.                                    *)

Claims(w) == run[w].phase = "claimed" /\ run[w].action # "expire"

ClaimsAreSole ==
  /\ \A w \in Workers : run[w].phase = "claimed" => run[w].action \in Actions
  /\ \A w \in Workers : Claims(w) => rows[<<run[w].action, run[w].today>>] = 0
  /\ \A v, w \in Workers :
       /\ Claims(v) /\ Claims(w)
       /\ run[v].action = run[w].action /\ run[v].today = run[w].today
       => v = w

LedgerInv == TypeOK /\ StepNoticesOnceADay /\ ClaimsAreSole

Run == [phase : {"none", "read", "claimed"}, today : Days,
        escalated : SUBSET Days, action : Actions \cup {"none"}]

LEMMA LedgerInit == Init => LedgerInv
BY LedgerAssumption
   DEF Init, LedgerInv, TypeOK, StepNoticesOnceADay, ClaimsAreSole, Claims, Days, Actions, NoRun

(* A run that ends without a commit, or has not claimed yet, leaves the    *)
(* claims of the others as they were.                                      *)
LEMMA RunMovesOn ==
  ASSUME LedgerInv, NEW w \in Workers, NEW r \in Run, r.phase # "claimed",
         run' = [run EXCEPT ![w] = r], rows' = rows
  PROVE  StepNoticesOnceADay' /\ ClaimsAreSole' /\ run' \in [Workers -> Run]
<1>1. run \in [Workers -> Run]
  BY DEF LedgerInv, TypeOK, Run
<1>2. \A v \in Workers : run'[v] = IF v = w THEN r ELSE run[v]
  BY <1>1
<1>3. \A v \in Workers : Claims(v)' => v # w /\ Claims(v) /\ run'[v] = run[v]
  BY <1>2 DEF Claims
<1>4. \A v \in Workers : run'[v].phase = "claimed" => v # w /\ run'[v] = run[v]
  BY <1>2
<1>5. ClaimsAreSole'
  BY <1>3, <1>4 DEF LedgerInv, ClaimsAreSole
<1>6. StepNoticesOnceADay'
  BY DEF LedgerInv, StepNoticesOnceADay
<1> QED BY <1>1, <1>5, <1>6

LEMMA ClaimKeepsLedger ==
  ASSUME LedgerInv, NEW w \in Workers, NEW action \in Actions, Claim(w, action)
  PROVE  LedgerInv'
<1> DEFINE r == [run[w] EXCEPT !.phase = "claimed", !.action = action]
<1>1. run \in [Workers -> Run]
  BY DEF LedgerInv, TypeOK, Run
<1>2. run' = [run EXCEPT ![w] = r] /\ r \in Run /\ r.phase = "claimed" /\ r.action = action
      /\ r.today = run[w].today
  BY <1>1 DEF Claim, Run
<1>3. UNCHANGED <<day, status, escalated, rows, lock, leads, failures>>
  BY DEF Claim
<1> HIDE DEF r
<1>4. \A v \in Workers : run'[v] = IF v = w THEN r ELSE run[v]
  BY <1>1, <1>2
<1>5. TypeOK'
  BY <1>1, <1>2, <1>3 DEF LedgerInv, TypeOK, Run
<1>6. rows[<<action, run[w].today>>] = 0
  <2>1. rows[<<action, run[w].today>>] \in Nat
    BY <1>1 DEF LedgerInv, TypeOK, Run
  <2>2. ~(rows[<<action, run[w].today>>] > 0)
    BY DEF Claim, Chosen, Refused
  <2> QED BY <2>1, <2>2
<1>7. action # "expire" =>
        \A v \in Workers \ {w} :
          ~(run[v].phase = "claimed" /\ run[v].action = action /\ run[v].today = run[w].today)
  BY DEF Claim, Blocked
<1>8. ClaimsAreSole'
  <2>1. \A v \in Workers : run'[v].phase = "claimed" => run'[v].action \in Actions
    BY <1>2, <1>4 DEF LedgerInv, ClaimsAreSole
  <2>2. \A v \in Workers : Claims(v)' => rows'[<<run'[v].action, run'[v].today>>] = 0
    BY <1>2, <1>3, <1>4, <1>6 DEF LedgerInv, ClaimsAreSole, Claims
  <2>3. ASSUME NEW u \in Workers, NEW v \in Workers, Claims(u)', Claims(v)',
               run'[u].action = run'[v].action, run'[u].today = run'[v].today
        PROVE  u = v
    <3>1. CASE u # w /\ v # w
      BY <2>3, <3>1, <1>4 DEF LedgerInv, ClaimsAreSole, Claims
    <3>2. CASE u = w /\ v # w
      BY <2>3, <3>2, <1>2, <1>4, <1>7 DEF Claims
    <3>3. CASE u # w /\ v = w
      BY <2>3, <3>3, <1>2, <1>4, <1>7 DEF Claims
    <3> QED BY <3>1, <3>2, <3>3
  <2> QED BY <2>1, <2>2, <2>3 DEF ClaimsAreSole
<1>9. StepNoticesOnceADay'
  BY <1>3 DEF LedgerInv, StepNoticesOnceADay
<1> QED BY <1>5, <1>8, <1>9 DEF LedgerInv

LEMMA CommitKeepsLedger ==
  ASSUME LedgerInv, NEW w \in Workers, Commit(w)
  PROVE  LedgerInv'
<1> DEFINE a == run[w].action
           d == run[w].today
<1>1. run \in [Workers -> Run] /\ rows \in [Actions \X Days -> Nat]
  BY DEF LedgerInv, TypeOK, Run
<1>2. run[w].phase = "claimed" /\ a \in Actions /\ d \in Days /\ run[w].escalated \subseteq Days
  BY <1>1 DEF Commit, LedgerInv, ClaimsAreSole, Run
<1>3. /\ run' = [run EXCEPT ![w] = NoRun]
      /\ rows' = [rows EXCEPT ![<<a, d>>] = @ + 1]
      /\ UNCHANGED <<day, lock, leads, failures>>
      /\ status' \in {status, "expired"} /\ escalated' \in {escalated, escalated \cup {d}}
  BY DEF Commit
<1>4. NoRun \in Run /\ NoRun.phase = "none"
  BY LedgerAssumption DEF NoRun, Run, Days
<1> HIDE DEF a, d
<1>5. \A v \in Workers : run'[v] = IF v = w THEN NoRun ELSE run[v]
  BY <1>1, <1>3
<1>6. /\ rows' \in [Actions \X Days -> Nat]
      /\ \A b \in Actions, e \in Days :
           rows'[<<b, e>>] = IF b = a /\ e = d THEN rows[<<b, e>>] + 1 ELSE rows[<<b, e>>]
  BY <1>1, <1>2, <1>3
<1>7. TypeOK'
  BY <1>1, <1>2, <1>3, <1>4, <1>6 DEF LedgerInv, TypeOK, Run
<1>8. a # "expire" => rows[<<a, d>>] = 0
  BY <1>2 DEF LedgerInv, ClaimsAreSole, Claims, a, d
<1>9. StepNoticesOnceADay'
  <2>1. \A b \in Actions \ {"expire"}, e \in Days : rows[<<b, e>>] \in Nat /\ rows[<<b, e>>] <= 1
    BY <1>1 DEF LedgerInv, StepNoticesOnceADay
  <2>2. \A b \in Actions \ {"expire"}, e \in Days : rows'[<<b, e>>] <= 1
    <3> SUFFICES ASSUME NEW b \in Actions \ {"expire"}, NEW e \in Days PROVE rows'[<<b, e>>] <= 1
      OBVIOUS
    <3>1. CASE b = a /\ e = d
      <4>1. rows[<<b, e>>] = 0
        BY <3>1, <1>8
      <4>2. rows'[<<b, e>>] = rows[<<b, e>>] + 1
        BY <3>1, <1>6
      <4> QED BY <4>1, <4>2
    <3>2. CASE ~(b = a /\ e = d)
      <4>1. rows'[<<b, e>>] = rows[<<b, e>>]
        BY <3>2, <1>6
      <4> QED BY <4>1, <2>1
    <3> QED BY <3>1, <3>2
  <2> QED BY <2>2 DEF StepNoticesOnceADay
<1>10. ClaimsAreSole'
  <2>1. \A v \in Workers : run'[v].phase = "claimed" => v # w /\ run'[v] = run[v]
    BY <1>4, <1>5
  <2>2. \A v \in Workers : Claims(v)' => v # w /\ Claims(v) /\ run'[v] = run[v]
    BY <2>1 DEF Claims
  <2>3. \A v \in Workers : Claims(v)' => rows'[<<run'[v].action, run'[v].today>>] = 0
    <3>1. SUFFICES ASSUME NEW v \in Workers, Claims(v)'
                   PROVE  rows'[<<run'[v].action, run'[v].today>>] = 0
      OBVIOUS
    <3>2. /\ v # w /\ Claims(v) /\ run'[v] = run[v]
          /\ run[v].action \in Actions /\ run[v].today \in Days
          /\ rows[<<run[v].action, run[v].today>>] = 0
      BY <3>1, <2>2, <1>1 DEF LedgerInv, ClaimsAreSole, Claims, Run
    <3>3. ~(run[v].action = a /\ run[v].today = d)
      BY <3>2, <1>2 DEF LedgerInv, ClaimsAreSole, Claims, a, d
    <3> QED BY <3>2, <3>3, <1>6
  <2> QED BY <2>1, <2>2, <2>3 DEF LedgerInv, ClaimsAreSole
<1> QED BY <1>7, <1>9, <1>10 DEF LedgerInv

(* Who leads, what day it is, and runs that are given up.                  *)
LEMMA LedgerStep == LedgerInv /\ [Next]_vars => LedgerInv'
<1> SUFFICES ASSUME LedgerInv, [Next]_vars PROVE LedgerInv'
  OBVIOUS
<1>1. /\ run \in [Workers -> Run]
      /\ day \in Days /\ leads \subseteq Workers /\ lock \in leads \cup {NoWorker}
      /\ escalated \subseteq Days
  BY DEF LedgerInv, TypeOK, Run
<1>2. NoRun \in Run /\ NoRun.phase # "claimed"
  BY LedgerAssumption DEF NoRun, Run, Days
<1>3. ASSUME UNCHANGED <<run, rows>> PROVE StepNoticesOnceADay' /\ ClaimsAreSole'
  BY <1>3 DEF LedgerInv, StepNoticesOnceADay, ClaimsAreSole, Claims
<1>4. ASSUME NEW w \in Workers, Progress(w) PROVE LedgerInv'
  <2>1. CASE Elect(w)
    <3>1. TypeOK'
      BY <2>1 DEF Elect, LedgerInv, TypeOK
    <3> QED BY <1>3, <2>1, <3>1 DEF Elect, LedgerInv
  <2>2. CASE NoticeLoss(w)
    <3>1. TypeOK'
      BY <2>2 DEF NoticeLoss, LedgerInv, TypeOK
    <3> QED BY <1>3, <2>2, <3>1 DEF NoticeLoss, LedgerInv
  <2>3. CASE Read(w)
    <3> DEFINE r == [phase |-> "read", today |-> day, escalated |-> escalated, action |-> "none"]
    <3>1. r \in Run /\ r.phase # "claimed"
      BY <1>1 DEF Run
    <3>2. run' = [run EXCEPT ![w] = r]
      BY <2>3 DEF Read
    <3>3. UNCHANGED <<day, status, escalated, rows, lock, leads, failures>>
      BY <2>3 DEF Read
    <3> HIDE DEF r
    <3>4. StepNoticesOnceADay' /\ ClaimsAreSole' /\ run' \in [Workers -> Run]
      BY <3>1, <3>2, <3>3, RunMovesOn
    <3> QED BY <3>3, <3>4 DEF LedgerInv, TypeOK, Run
  <2>4. CASE NothingToDo(w)
    <3>1. StepNoticesOnceADay' /\ ClaimsAreSole' /\ run' \in [Workers -> Run]
      BY <1>2, <2>4, RunMovesOn DEF NothingToDo
    <3> QED BY <2>4, <3>1 DEF NothingToDo, LedgerInv, TypeOK, Run
  <2>5. CASE Commit(w)
    BY <2>5, CommitKeepsLedger
  <2>6. CASE \E action \in Actions : Claim(w, action)
    BY <2>6, ClaimKeepsLedger
  <2> QED BY <1>4, <2>1, <2>2, <2>3, <2>4, <2>5, <2>6 DEF Progress
<1>5. ASSUME NEW w \in Workers, LoseConnection(w) PROVE LedgerInv'
  <2>1. TypeOK'
    BY <1>5, LedgerAssumption DEF LoseConnection, LedgerInv, TypeOK
  <2> QED BY <1>3, <1>5, <2>1 DEF LoseConnection, LedgerInv
<1>6. ASSUME NEW w \in Workers, Abort(w) PROVE LedgerInv'
  <2>1. StepNoticesOnceADay' /\ ClaimsAreSole' /\ run' \in [Workers -> Run]
    BY <1>2, <1>6, RunMovesOn DEF Abort
  <2> QED BY <1>6, <2>1, LedgerAssumption DEF Abort, LedgerInv, TypeOK, Run
<1>7. ASSUME NEW w \in Workers, Crash(w) PROVE LedgerInv'
  <2>1. StepNoticesOnceADay' /\ ClaimsAreSole' /\ run' \in [Workers -> Run]
    BY <1>2, <1>7, RunMovesOn DEF Crash
  <2>2. leads' \subseteq Workers /\ lock' \in leads' \cup {NoWorker}
    BY <1>1, <1>7 DEF Crash
  <2> QED BY <1>7, <2>1, <2>2, LedgerAssumption DEF Crash, LedgerInv, TypeOK, Run
<1>8. CASE Tick
  <2>1. TypeOK'
    BY <1>8, LedgerAssumption DEF Tick, LedgerInv, TypeOK, Days
  <2> QED BY <1>3, <1>8, <2>1 DEF Tick, LedgerInv
<1>9. CASE UNCHANGED vars
  <2>1. TypeOK'
    BY <1>9 DEF vars, LedgerInv, TypeOK
  <2> QED BY <1>3, <1>9, <2>1 DEF vars, LedgerInv
<1> QED BY <1>4, <1>5, <1>6, <1>7, <1>8, <1>9 DEF Next

(* The rows of the leave job's ledger are of their types, whoever holds    *)
(* the lock knows it, and no step is reminded of or passed on twice a day. *)
THEOREM NoticesTheorem == Spec => []NoticesAreSole
<1>1. LedgerInv => NoticesAreSole
  BY DEF LedgerInv, NoticesAreSole
<1> QED BY <1>1, LedgerInit, LedgerStep, PTL DEF Spec

-----------------------------------------------------------------------------
(* The scheduler's jobs. What it takes for the work not to be repeated     *)
(* differs from job to job.                                                *)
(*                                                                         *)
(* A run of the report that was sent, or is being sent, lies before the    *)
(* next run of its row, and a process that read an older one finds it      *)
(* moved on.                                                               *)
RunsAreClaimedOnce ==
  /\ \A w \in JobWorkers : pc[w] \in {"claim", "send"} => seen[w] <= today
  /\ \A d \in JobDays : sent[d] <= 1 /\ (sent[d] > 0 => d <= today)
  /\ \A w \in JobWorkers : pc[w] = "send" => sent[seen[w]] = 0
  /\ \A v, w \in JobWorkers : pc[v] = "send" /\ pc[w] = "send" /\ seen[v] = seen[w] => v = w
  /\ schedule # Nothing /\ schedule.active =>
       /\ schedule.next # Nothing
       /\ \A d \in JobDays : sent[d] > 0 => d < schedule.next
       /\ \A w \in JobWorkers : pc[w] = "send" => seen[w] < schedule.next

(* Who may still hand the email over without further trouble: a process    *)
(* that lost the lead in the middle of its tick, each at most once, and    *)
(* the leaders together once, while the email is not sent.                 *)
Owed == {w \in JobWorkers : w # leader /\ pc[w] \in ExportSteps \cup {"pick", "talk", "refused"}}
Asking == \E w \in JobWorkers : w = leader /\ pc[w] \in {"talk", "refused"}
Accepted == \E w \in JobWorkers : w = leader /\ pc[w] = "accepted"
Open == IF Asking \/ (mail.status # "sent" /\ ~Accepted) THEN 1 ELSE 0
CopiesAreOwed == delivered + Open + Cardinality(Owed) <= 1 + troubles

(* The process that holds the year's claim is younger than a stale claim,  *)
(* so whoever means to take over finds the claim renewed or finished.      *)
Holding(w) == pc[w] \in {"check", "write", "success", "failed"}
YearIsClaimedOnce ==
  /\ \A w \in JobWorkers : Holding(w) => claim.status = "running" /\ claim.age <= age[w]
  /\ \A v, w \in JobWorkers : Holding(v) /\ Holding(w) => v = w
  /\ \A w \in JobWorkers : pc[w] = "take over" =>
       /\ claim.status # "none" /\ seen[w] <= claim.takeovers
       /\ claim.status = "running" /\ seen[w] = claim.takeovers => claim.age >= StaleAfter
  /\ \A w \in JobWorkers : pc[w] = "write" => seen[w] = carried
  /\ \A w \in JobWorkers : pc[w] = "success" => carried = 1
  /\ CarriedOverOnce

JobInv == JobTypeOK /\ RunsAreClaimedOnce /\ CopiesAreOwed /\ YearIsClaimedOnce

Steps == {"idle"} \cup ExportSteps \cup MailSteps \cup YearSteps
Report == [active : BOOLEAN, next : 1 .. MaxDays + 1 \cup {Nothing}]
Mail == [status : {"queued", "sent", "failed", "skipped"}, attempts : Nat, due : BOOLEAN]
ClaimRow == [status : {"none", "running", "success", "failed"}, takeovers : Nat, age : 0 .. StaleAfter]

LEMMA JobBounds == /\ JobTimeout \in Nat \ {0} /\ StaleAfter \in Nat /\ JobTimeout < StaleAfter
                   /\ MaxDays \in Nat /\ MaxTroubles \in Nat /\ MaxChanges \in Nat
                   /\ Nothing \notin JobWorkers /\ Nothing \notin Nat /\ IsFiniteSet(JobWorkers)
BY BackgroundAssumption

(* What a process does between two steps, and where it goes.               *)
LEMMA GotoFacts ==
  ASSUME JobTypeOK, NEW w \in JobWorkers, NEW step \in Steps, NEW n \in Nat, Goto(w, step, n)
  PROVE  /\ pc' \in [JobWorkers -> Steps] /\ seen' \in [JobWorkers -> Nat]
         /\ \A v \in JobWorkers : pc'[v] = IF v = w THEN step ELSE pc[v]
         /\ \A v \in JobWorkers : seen'[v] = IF v = w THEN n ELSE seen[v]
         /\ UNCHANGED <<age, leader, troubles, changes>>
BY DEF Goto, JobTypeOK, Steps, schedulerVars

LEMMA NextJobType == ASSUME NEW w \in JobWorkers PROVE NextJob(w) \in {"pick", "look", "idle"}
BY DEF NextJob

LEMMA StopsFacts ==
  ASSUME JobTypeOK, NEW w \in JobWorkers, NEW step \in Steps, Stops(w, step)
  PROVE  /\ pc' \in [JobWorkers -> Steps] /\ seen' \in [JobWorkers -> Nat]
         /\ age' \in [JobWorkers -> 0 .. JobTimeout]
         /\ \A v \in JobWorkers : pc'[v] = IF v = w THEN step ELSE pc[v]
         /\ \A v \in JobWorkers : seen'[v] = IF v = w THEN 0 ELSE seen[v]
         /\ \A v \in JobWorkers : age'[v] = IF v = w THEN 0 ELSE age[v]
BY JobBounds DEF Stops, JobTypeOK, Steps

LEMMA DoneFacts ==
  ASSUME JobTypeOK, NEW w \in JobWorkers, Done(w)
  PROVE  /\ pc' \in [JobWorkers -> Steps] /\ seen' \in [JobWorkers -> Nat]
         /\ age' \in [JobWorkers -> 0 .. JobTimeout]
         /\ \A v \in JobWorkers : pc'[v] = IF v = w THEN NextJob(w) ELSE pc[v]
         /\ \A v \in JobWorkers : seen'[v] = IF v = w THEN 0 ELSE seen[v]
         /\ \A v \in JobWorkers : age'[v] = IF v = w THEN 0 ELSE age[v]
         /\ UNCHANGED <<leader, troubles, changes>>
<1>1. NextJob(w) \in Steps
  BY NextJobType DEF Steps, MailSteps, YearSteps
<1>2. Stops(w, NextJob(w)) /\ UNCHANGED <<leader, troubles, changes>>
  BY DEF Done, Stops, schedulerVars
<1> QED BY <1>1, <1>2, StopsFacts

LEMMA JobInitInv == JobInit => JobInv
<1> SUFFICES ASSUME JobInit PROVE JobInv
  OBVIOUS
<1> USE JobBounds
<1>1. JobTypeOK
  BY DEF JobInit, JobTypeOK, JobDays
<1>2. RunsAreClaimedOnce
  BY DEF JobInit, RunsAreClaimedOnce, JobDays
<1>3. CopiesAreOwed
  <2>1. Owed = {}
    BY DEF JobInit, Owed, ExportSteps
  <2>2. Open \in {0, 1}
    BY DEF Open
  <2> QED BY <2>1, <2>2, FS_EmptySet DEF JobInit, CopiesAreOwed
<1>4. YearIsClaimedOnce
  BY DEF JobInit, YearIsClaimedOnce, Holding, CarriedOverOnce
<1> QED BY <1>1, <1>2, <1>3, <1>4 DEF JobInv

(* A job that is not touched keeps its part of the invariant.              *)
LEMMA ReportRests ==
  ASSUME RunsAreClaimedOnce, UNCHANGED exportVars,
         \A v \in JobWorkers : pc'[v] \in {"claim", "send"} => pc'[v] = pc[v] /\ seen'[v] = seen[v]
  PROVE  RunsAreClaimedOnce'
BY DEF RunsAreClaimedOnce, exportVars, JobDays

LEMMA YearRests ==
  ASSUME YearIsClaimedOnce, UNCHANGED yearVars,
         \A v \in JobWorkers : pc'[v] \in YearSteps \ {"look", "insert"} =>
           pc'[v] = pc[v] /\ seen'[v] = seen[v] /\ age'[v] = age[v]
  PROVE  YearIsClaimedOnce'
BY DEF YearIsClaimedOnce, Holding, CarriedOverOnce, yearVars, YearSteps

LEMMA OwedIsFinite ==
  JobTypeOK => /\ IsFiniteSet(Owed) /\ Cardinality(Owed) \in Nat /\ Open \in {0, 1}
               /\ delivered \in Nat /\ troubles \in Nat
<1>1. IsFiniteSet(Owed) /\ Cardinality(Owed) \in Nat /\ Open \in {0, 1}
  BY JobBounds, FS_Subset, FS_CardinalityType DEF Owed, Open
<1> QED BY <1>1, JobBounds DEF JobTypeOK

LEMMA CreditStays ==
  ASSUME JobInv, Owed' \subseteq Owed, troubles' = troubles,
         \/ delivered' = delivered /\ Open' <= Open
         \/ delivered' = delivered + 1 /\ Open' < Open
  PROVE  CopiesAreOwed'
<1>1. /\ IsFiniteSet(Owed) /\ Cardinality(Owed) \in Nat /\ Open \in {0, 1}
      /\ delivered \in Nat /\ troubles \in Nat
      /\ delivered + Open + Cardinality(Owed) <= 1 + troubles
  BY OwedIsFinite DEF JobInv, CopiesAreOwed
<1>2. Cardinality(Owed') \in Nat /\ Cardinality(Owed') <= Cardinality(Owed)
  BY <1>1, FS_Subset, FS_CardinalityType
<1>3. Open' \in {0, 1}
  BY DEF Open
<1>4. delivered' + Open' + Cardinality(Owed') <= 1 + troubles
  BY <1>1, <1>2, <1>3
<1> QED BY <1>4 DEF CopiesAreOwed

LEMMA CreditSpent ==
  ASSUME JobInv, NEW w \in Owed, Owed' \subseteq Owed \ {w}, troubles' = troubles,
         \/ delivered' = delivered
         \/ delivered' = delivered + 1 /\ Open' <= Open
  PROVE  CopiesAreOwed'
<1>1. /\ IsFiniteSet(Owed) /\ Cardinality(Owed) \in Nat /\ Open \in {0, 1}
      /\ delivered \in Nat /\ troubles \in Nat
      /\ delivered + Open + Cardinality(Owed) <= 1 + troubles
  BY OwedIsFinite DEF JobInv, CopiesAreOwed
<1>2. IsFiniteSet(Owed \ {w}) /\ Cardinality(Owed \ {w}) = Cardinality(Owed) - 1
  BY <1>1, FS_RemoveElement
<1>3. Cardinality(Owed') \in Nat /\ Cardinality(Owed') <= Cardinality(Owed \ {w})
  BY <1>2, FS_Subset, FS_CardinalityType
<1>4. Open' \in {0, 1}
  BY DEF Open
<1>5. delivered' + Open' + Cardinality(Owed') <= 1 + troubles
  BY <1>1, <1>2, <1>3, <1>4
<1> QED BY <1>5 DEF CopiesAreOwed

LEMMA CreditForTrouble ==
  ASSUME JobInv, NEW w \in JobWorkers, delivered' = delivered, troubles' = troubles + 1,
         \/ Owed' \subseteq Owed
         \/ Owed' \subseteq Owed \cup {w} /\ Open' <= Open
  PROVE  CopiesAreOwed'
<1>1. /\ IsFiniteSet(Owed) /\ Cardinality(Owed) \in Nat /\ Open \in {0, 1}
      /\ delivered \in Nat /\ troubles \in Nat
      /\ delivered + Open + Cardinality(Owed) <= 1 + troubles
  BY OwedIsFinite DEF JobInv, CopiesAreOwed
<1>2. Open' \in {0, 1}
  BY DEF Open
<1>3. CASE Owed' \subseteq Owed
  <2>1. Cardinality(Owed') \in Nat /\ Cardinality(Owed') <= Cardinality(Owed)
    BY <1>1, <1>3, FS_Subset, FS_CardinalityType
  <2> QED BY <1>1, <1>2, <2>1 DEF CopiesAreOwed
<1>4. CASE Owed' \subseteq Owed \cup {w} /\ Open' <= Open
  <2>0. /\ IsFiniteSet(Owed \cup {w})
        /\ Cardinality(Owed \cup {w}) =
             IF w \in Owed THEN Cardinality(Owed) ELSE Cardinality(Owed) + 1
    BY <1>1, FS_AddElement
  <2>1. /\ IsFiniteSet(Owed \cup {w})
        /\ Cardinality(Owed \cup {w}) \in Nat
        /\ Cardinality(Owed \cup {w}) <= Cardinality(Owed) + 1
    <3> HIDE DEF Owed
    <3> QED BY <1>1, <2>0
  <2>2. Cardinality(Owed') \in Nat /\ Cardinality(Owed') <= Cardinality(Owed \cup {w})
    BY <1>4, <2>1, FS_Subset, FS_CardinalityType
  <2> QED BY <1>1, <1>2, <1>4, <2>1, <2>2 DEF CopiesAreOwed
<1> QED BY <1>3, <1>4

(* A step outside the conversation with the mail server.                   *)
LEMMA MailRests ==
  ASSUME JobInv, NEW w \in JobWorkers, UNCHANGED <<leader, troubles, delivered, mail>>,
         \A v \in JobWorkers \ {w} : pc'[v] = pc[v],
         pc[w] \notin {"talk", "accepted", "refused"}, pc'[w] \notin {"talk", "accepted", "refused"},
         \/ pc'[w] \notin ExportSteps \cup {"pick"}
         \/ w = leader
         \/ pc[w] \in ExportSteps \cup {"pick"}
  PROVE  CopiesAreOwed'
<1>1. Owed' \subseteq Owed
  BY DEF Owed
<1>2. Asking' = Asking /\ Accepted' = Accepted
  BY DEF Asking, Accepted
<1>3. Open' = Open
  BY <1>2 DEF Open
<1>4. delivered \in Nat /\ Open \in {0, 1}
  BY OwedIsFinite DEF JobInv, JobTypeOK
<1> QED BY <1>1, <1>3, <1>4, CreditStays

(* A process is done with a job, and left everything as it was.            *)
LEMMA JobEnds ==
  ASSUME JobInv, NEW w \in JobWorkers, Done(w), UNCHANGED <<exportVars, mailVars, yearVars>>,
         pc[w] \in ExportSteps \cup {"pick"} \cup YearSteps
  PROVE  JobInv'
<1>0. /\ JobTypeOK
      /\ UNCHANGED <<today, schedule, sent, mail, delivered, smtp, claim, carried>>
  BY DEF JobInv, exportVars, mailVars, yearVars
<1>1. NextJob(w) \in {"pick", "look", "idle"} /\ (NextJob(w) = "pick" => pc[w] \in ExportSteps)
  BY DEF NextJob
<1>2. /\ pc' \in [JobWorkers -> Steps] /\ seen' \in [JobWorkers -> Nat]
      /\ age' \in [JobWorkers -> 0 .. JobTimeout]
      /\ \A v \in JobWorkers : pc'[v] = IF v = w THEN NextJob(w) ELSE pc[v]
      /\ \A v \in JobWorkers : seen'[v] = IF v = w THEN 0 ELSE seen[v]
      /\ \A v \in JobWorkers : age'[v] = IF v = w THEN 0 ELSE age[v]
      /\ UNCHANGED <<leader, troubles, changes>>
  BY <1>0, DoneFacts
<1>3. JobTypeOK'
  BY <1>0, <1>2 DEF JobTypeOK, Steps
<1>4. RunsAreClaimedOnce'
  BY <1>0, <1>1, <1>2, ReportRests DEF JobInv, exportVars
<1>5. CopiesAreOwed'
  BY <1>0, <1>1, <1>2, MailRests DEF ExportSteps, YearSteps
<1>6. YearIsClaimedOnce'
  BY <1>0, <1>1, <1>2, YearRests DEF JobInv, yearVars, YearSteps
<1> QED BY <1>3, <1>4, <1>5, <1>6 DEF JobInv

-----------------------------------------------------------------------------
(* The reports.                                                            *)
LEMMA StartKeepsJobs ==
  ASSUME JobInv, NEW w \in JobWorkers, StartTick(w)
  PROVE  JobInv'
<1>1. /\ leader = w /\ pc[w] = "idle" /\ pc' \in [JobWorkers -> Steps]
      /\ \A v \in JobWorkers : pc'[v] = IF v = w THEN "select" ELSE pc[v]
      /\ UNCHANGED <<leader, troubles, seen, age, today, schedule, sent, mail, delivered, smtp,
                     claim, carried, changes>>
  BY DEF StartTick, JobInv, JobTypeOK, Steps, ExportSteps, schedulerVars, exportVars, mailVars, yearVars
<1>2. JobTypeOK'
  BY <1>1 DEF JobInv, JobTypeOK, Steps
<1>3. RunsAreClaimedOnce'
  BY <1>1, ReportRests DEF JobInv, exportVars
<1>4. CopiesAreOwed'
  BY <1>1, MailRests
<1>5. YearIsClaimedOnce'
  BY <1>1, YearRests DEF JobInv, yearVars, YearSteps
<1> QED BY <1>2, <1>3, <1>4, <1>5 DEF JobInv

LEMMA SelectKeepsJobs ==
  ASSUME JobInv, NEW w \in JobWorkers, Select(w)
  PROVE  JobInv'
<1>0. /\ pc[w] = "select" /\ JobTypeOK
      /\ UNCHANGED <<today, schedule, sent, mail, delivered, smtp, claim, carried>>
  BY DEF Select, JobInv, exportVars, mailVars, yearVars
<1>1. CASE IsDue
  <2>1. /\ schedule.next \in Nat /\ schedule.next <= today
    BY <1>0, <1>1, JobBounds DEF IsDue, JobTypeOK
  <2>2. Goto(w, "claim", schedule.next) /\ "claim" \in Steps
    BY <1>1 DEF Select, Steps, ExportSteps
  <2>3. /\ pc' \in [JobWorkers -> Steps] /\ seen' \in [JobWorkers -> Nat]
        /\ \A v \in JobWorkers : pc'[v] = IF v = w THEN "claim" ELSE pc[v]
        /\ \A v \in JobWorkers : seen'[v] = IF v = w THEN schedule.next ELSE seen[v]
        /\ UNCHANGED <<age, leader, troubles, changes>>
    BY <1>0, <2>1, <2>2, GotoFacts
  <2>4. JobTypeOK'
    BY <1>0, <2>3 DEF JobTypeOK, Steps
  <2>5. RunsAreClaimedOnce'
    BY <1>0, <2>1, <2>3 DEF JobInv, RunsAreClaimedOnce
  <2>6. CopiesAreOwed'
    BY <1>0, <2>3, MailRests DEF ExportSteps
  <2>7. YearIsClaimedOnce'
    BY <1>0, <2>3, YearRests DEF JobInv, yearVars, YearSteps
  <2> QED BY <2>4, <2>5, <2>6, <2>7 DEF JobInv
<1>2. CASE ~IsDue
  BY <1>0, <1>2, JobEnds DEF Select, ExportSteps
<1> QED BY <1>1, <1>2

LEMMA ClaimRunKeepsJobs ==
  ASSUME JobInv, NEW w \in JobWorkers, ClaimRun(w)
  PROVE  JobInv'
<1>0. /\ pc[w] = "claim" /\ JobTypeOK
      /\ UNCHANGED <<today, sent, mail, delivered, smtp, claim, carried>>
  BY DEF ClaimRun, JobInv, mailVars, yearVars
<1>1. CASE Unclaimed(w)
  <2>1. seen[w] \in Nat /\ seen[w] <= today /\ today \in 0 .. MaxDays
        /\ schedule # Nothing /\ schedule.active /\ schedule.next = seen[w]
    BY <1>0, <1>1 DEF Unclaimed, JobInv, JobTypeOK, RunsAreClaimedOnce, JobDays
  <2>2. Goto(w, "send", seen[w]) /\ "send" \in Steps /\ schedule' = [schedule EXCEPT !.next = today + 1]
    BY <1>1 DEF ClaimRun, Steps, ExportSteps
  <2>3. /\ pc' \in [JobWorkers -> Steps] /\ seen' \in [JobWorkers -> Nat]
        /\ \A v \in JobWorkers : pc'[v] = IF v = w THEN "send" ELSE pc[v]
        /\ \A v \in JobWorkers : seen'[v] = seen[v]
        /\ UNCHANGED <<age, leader, troubles, changes>>
    BY <1>0, <2>1, <2>2, GotoFacts
  <2>s. schedule \in Report /\ schedule' \in Report /\ schedule'.next = today + 1
    BY <1>0, <2>1, <2>2, JobBounds DEF JobTypeOK, Report
  <2>4. JobTypeOK'
    BY <1>0, <2>3, <2>s DEF JobTypeOK, Steps, Report
  <2>5. RunsAreClaimedOnce'
    <3>1. \A d \in JobDays : sent[d] > 0 => d < seen[w] /\ d <= today
      BY <2>1 DEF JobInv, RunsAreClaimedOnce
    <3>2. \A v \in JobWorkers : pc[v] = "send" => seen[v] < seen[w] /\ seen[v] <= today
      BY <2>1 DEF JobInv, RunsAreClaimedOnce
    <3>3. sent[seen[w]] = 0
      <4>1. seen[w] \in JobDays /\ seen[w] \in Nat
        BY <2>1, <1>0, JobBounds DEF JobTypeOK, JobDays
      <4>2. sent[seen[w]] \in Nat
        BY <4>1, <1>0 DEF JobTypeOK
      <4> QED BY <3>1, <4>1, <4>2
    <3>4. \A v \in JobWorkers : seen[v] \in Nat
      BY <1>0 DEF JobTypeOK
    <3>5. \A v \in JobWorkers : pc'[v] \in {"claim", "send"} => seen'[v] <= today
      BY <1>0, <2>1, <2>3 DEF JobInv, RunsAreClaimedOnce
    <3>6. \A v \in JobWorkers : pc'[v] = "send" => sent[seen'[v]] = 0 /\ seen'[v] <= today
      BY <3>2, <3>3, <2>1, <2>3 DEF JobInv, RunsAreClaimedOnce
    <3>7. \A u, v \in JobWorkers : pc'[u] = "send" /\ pc'[v] = "send" /\ seen'[u] = seen'[v] => u = v
      BY <3>2, <3>4, <2>3 DEF JobInv, RunsAreClaimedOnce
    <3>8. /\ schedule'.next # Nothing
          /\ \A d \in JobDays : sent[d] > 0 => d < schedule'.next
          /\ \A v \in JobWorkers : pc'[v] = "send" => seen'[v] < schedule'.next
      <4>1. today + 1 # Nothing
        BY <2>1, JobBounds
      <4>2. \A d \in JobDays : sent[d] > 0 => d < today + 1
        BY <2>1, <3>1, JobBounds DEF JobDays
      <4>3. \A v \in JobWorkers : pc'[v] = "send" => seen'[v] < today + 1
        BY <2>1, <2>3, <3>4, <3>6, JobBounds
      <4> QED BY <4>1, <4>2, <4>3, <2>s
    <3>9. \A d \in JobDays : sent[d] <= 1
      BY DEF JobInv, RunsAreClaimedOnce
    <3> QED BY <1>0, <3>1, <3>5, <3>6, <3>7, <3>8, <3>9 DEF RunsAreClaimedOnce
  <2>6. CopiesAreOwed'
    BY <1>0, <2>3, MailRests DEF ExportSteps
  <2>7. YearIsClaimedOnce'
    BY <1>0, <2>3, YearRests DEF JobInv, yearVars, YearSteps
  <2> QED BY <2>4, <2>5, <2>6, <2>7 DEF JobInv
<1>2. CASE ~Unclaimed(w)
  BY <1>0, <1>2, JobEnds DEF ClaimRun, ExportSteps, exportVars
<1> QED BY <1>1, <1>2

LEMMA SendKeepsJobs ==
  ASSUME JobInv, NEW w \in JobWorkers, Send(w)
  PROVE  JobInv'
<1>0. /\ pc[w] = "send" /\ JobTypeOK /\ Done(w) /\ NextJob(w) = "pick"
      /\ UNCHANGED <<today, schedule, mail, delivered, smtp, claim, carried>>
  BY DEF Send, JobInv, mailVars, yearVars, NextJob, ExportSteps
<1>1. /\ pc' \in [JobWorkers -> Steps] /\ seen' \in [JobWorkers -> Nat]
      /\ age' \in [JobWorkers -> 0 .. JobTimeout]
      /\ \A v \in JobWorkers : pc'[v] = IF v = w THEN "pick" ELSE pc[v]
      /\ \A v \in JobWorkers : seen'[v] = IF v = w THEN 0 ELSE seen[v]
      /\ \A v \in JobWorkers : age'[v] = IF v = w THEN 0 ELSE age[v]
      /\ UNCHANGED <<leader, troubles, changes>>
  BY <1>0, DoneFacts
<1>2. /\ seen[w] \in JobDays /\ sent[seen[w]] = 0 /\ seen[w] <= today
      /\ sent \in [JobDays -> Nat]
  BY <1>0, JobBounds DEF JobInv, JobTypeOK, RunsAreClaimedOnce, JobDays
<1>3. /\ sent' \in [JobDays -> Nat]
      /\ \A d \in JobDays : sent'[d] = sent[d] \/ (d = seen[w] /\ sent'[d] = 1)
  BY <1>2 DEF Send
<1>4. JobTypeOK'
  BY <1>0, <1>1, <1>3 DEF JobTypeOK, Steps
<1>5. RunsAreClaimedOnce'
  <2>1. \A v \in JobWorkers : pc'[v] \in {"claim", "send"} => v # w /\ pc'[v] = pc[v] /\ seen'[v] = seen[v]
    BY <1>1
  <2>2. \A v \in JobWorkers : pc'[v] \in {"claim", "send"} => seen'[v] <= today
    BY <2>1 DEF JobInv, RunsAreClaimedOnce
  <2>3. \A d \in JobDays : sent'[d] <= 1 /\ (sent'[d] > 0 => d <= today)
    BY <1>2, <1>3 DEF JobInv, RunsAreClaimedOnce
  <2>4. \A v \in JobWorkers : pc'[v] = "send" => sent'[seen'[v]] = 0
    <3>1. SUFFICES ASSUME NEW v \in JobWorkers, pc'[v] = "send" PROVE sent'[seen[v]] = 0
      BY <2>1
    <3>2. v # w /\ pc[v] = "send" /\ seen[v] \in JobDays /\ sent[seen[v]] = 0 /\ seen[v] # seen[w]
      BY <1>0, <2>1, <3>1, JobBounds DEF JobInv, JobTypeOK, RunsAreClaimedOnce, JobDays
    <3> QED BY <1>3, <3>2
  <2>5. \A u, v \in JobWorkers : pc'[u] = "send" /\ pc'[v] = "send" /\ seen'[u] = seen'[v] => u = v
    BY <2>1 DEF JobInv, RunsAreClaimedOnce
  <2>6. schedule # Nothing /\ schedule.active =>
          /\ schedule.next # Nothing
          /\ \A d \in JobDays : sent'[d] > 0 => d < schedule.next
          /\ \A v \in JobWorkers : pc'[v] = "send" => seen'[v] < schedule.next
    BY <1>0, <1>2, <1>3, <2>1 DEF JobInv, RunsAreClaimedOnce
  <2> QED BY <1>0, <2>2, <2>3, <2>4, <2>5, <2>6 DEF RunsAreClaimedOnce
<1>6. CopiesAreOwed'
  BY <1>0, <1>1, MailRests DEF ExportSteps
<1>7. YearIsClaimedOnce'
  BY <1>0, <1>1, YearRests DEF JobInv, yearVars, YearSteps
<1> QED BY <1>4, <1>5, <1>6, <1>7 DEF JobInv

-----------------------------------------------------------------------------
(* What people do with the report and the email, and the calendar.         *)
LEMMA NobodyMoves ==
  ASSUME JobInv, UNCHANGED <<leader, troubles, delivered, pc>>,
         (mail'.status = "sent") = (mail.status = "sent")
  PROVE  CopiesAreOwed'
<1>1. Owed' = Owed /\ Asking' = Asking /\ Accepted' = Accepted
  BY DEF Owed, Asking, Accepted
<1>2. Open' = Open
  BY <1>1 DEF Open
<1>3. Open \in {0, 1}
  BY OwedIsFinite DEF JobInv
<1> QED BY <1>1, <1>2, <1>3, CreditStays

LEMMA RescheduleKeepsJobs ==
  ASSUME JobInv, NEW to,
         \/ to = [active |-> TRUE, next |-> today + 1]
         \/ to = [active |-> FALSE, next |-> Nothing]
         \/ to = Nothing,
         Reschedule(to)
  PROVE  JobInv'
<1>0. /\ schedule' = to /\ changes' = changes + 1 /\ changes < MaxChanges /\ JobTypeOK
      /\ UNCHANGED <<leader, troubles, pc, seen, age, today, sent, mail, delivered, smtp, claim, carried>>
  BY DEF Reschedule, JobInv, schedulerVars, mailVars, yearVars
<1>1. today \in 0 .. MaxDays /\ to \in Report \cup {Nothing}
  <2>1. today \in 0 .. MaxDays
    BY <1>0 DEF JobTypeOK, JobDays
  <2>2. today + 1 \in 1 .. MaxDays + 1
    BY <2>1, JobBounds
  <2>3. CASE to = [active |-> TRUE, next |-> today + 1]
    BY <2>1, <2>2, <2>3 DEF Report
  <2>4. CASE to = [active |-> FALSE, next |-> Nothing]
    BY <2>1, <2>4 DEF Report
  <2> QED BY <2>1, <2>3, <2>4
<1>2. JobTypeOK'
  BY <1>0, <1>1, JobBounds DEF JobTypeOK, Report
<1>3. RunsAreClaimedOnce'
  <2>1. schedule' # Nothing /\ schedule'.active => schedule'.next = today + 1
    BY <1>0
  <2>2. \A d \in JobDays : sent[d] > 0 => d < today + 1
    BY <1>1, JobBounds DEF JobInv, RunsAreClaimedOnce, JobDays
  <2>3. \A v \in JobWorkers : pc[v] = "send" => seen[v] < today + 1
    BY <1>0, <1>1, JobBounds DEF JobInv, RunsAreClaimedOnce, JobTypeOK
  <2>4. today + 1 # Nothing
    BY <1>1, JobBounds
  <2> QED BY <1>0, <2>1, <2>2, <2>3, <2>4 DEF JobInv, RunsAreClaimedOnce
<1>4. CopiesAreOwed'
  BY <1>0, NobodyMoves
<1>5. YearIsClaimedOnce'
  BY <1>0, YearRests DEF JobInv, yearVars
<1> QED BY <1>2, <1>3, <1>4, <1>5 DEF JobInv

LEMMA MailPeopleKeepJobs ==
  ASSUME JobInv, Retry \/ SwitchEmail \/ Backoff
  PROVE  JobInv'
<1>1. /\ UNCHANGED <<leader, troubles, pc, seen, age, today, schedule, sent, delivered, claim, carried>>
      /\ mail' = mail \/ mail' = [status |-> "queued", attempts |-> 0, due |-> TRUE]
                      \/ mail' = [mail EXCEPT !.due = TRUE]
      /\ (mail'.status = "sent") = (mail.status = "sent")
      /\ smtp' \in BOOLEAN /\ changes' \in 0 .. MaxChanges
  <2>1. CASE Retry
    BY <2>1, JobBounds DEF JobInv, JobTypeOK, Retry, schedulerVars, exportVars, yearVars
  <2>2. CASE SwitchEmail
    BY <2>2, JobBounds DEF JobInv, JobTypeOK, SwitchEmail, schedulerVars, exportVars, yearVars
  <2>3. CASE Backoff
    BY <2>3 DEF JobInv, JobTypeOK, Backoff, schedulerVars, exportVars, yearVars
  <2> QED BY <2>1, <2>2, <2>3
<1>2. JobTypeOK'
  <2>0. mail \in Mail
    BY DEF JobInv, JobTypeOK, Mail
  <2>a. [mail EXCEPT !.due = TRUE] \in Mail
    BY <2>0 DEF Mail
  <2>b. [status |-> "queued", attempts |-> 0, due |-> TRUE] \in Mail
    BY DEF Mail
  <2>1. mail' \in Mail
    BY <1>1, <2>0, <2>a, <2>b
  <2> QED BY <1>1, <2>1 DEF JobInv, JobTypeOK, Mail
<1>3. RunsAreClaimedOnce'
  BY <1>1, ReportRests DEF JobInv, exportVars
<1>4. CopiesAreOwed'
  BY <1>1, NobodyMoves
<1>5. YearIsClaimedOnce'
  BY <1>1, YearRests DEF JobInv, yearVars
<1> QED BY <1>2, <1>3, <1>4, <1>5 DEF JobInv

LEMMA NextDayKeepsJobs ==
  ASSUME JobInv, NextDay
  PROVE  JobInv'
<1>1. /\ today' = today + 1 /\ today < MaxDays /\ JobTypeOK
      /\ UNCHANGED <<leader, troubles, pc, seen, age, schedule, sent, mail, delivered, smtp, claim, carried, changes>>
  BY DEF NextDay, JobInv, schedulerVars, mailVars, yearVars
<1>2. today \in 0 .. MaxDays
  BY <1>1 DEF JobTypeOK, JobDays
<1>3. JobTypeOK'
  BY <1>1, <1>2, JobBounds DEF JobTypeOK, JobDays
<1>4. RunsAreClaimedOnce'
  <2>1. \A v \in JobWorkers : pc[v] \in {"claim", "send"} => seen[v] <= today + 1
    BY <1>1, <1>2, JobBounds DEF JobInv, RunsAreClaimedOnce, JobTypeOK
  <2>2. \A d \in JobDays : sent[d] > 0 => d <= today + 1
    BY <1>2, JobBounds DEF JobInv, RunsAreClaimedOnce, JobDays
  <2> QED BY <1>1, <2>1, <2>2 DEF JobInv, RunsAreClaimedOnce
<1>5. CopiesAreOwed'
  BY <1>1, NobodyMoves
<1>6. YearIsClaimedOnce'
  BY <1>1, YearRests DEF JobInv, yearVars
<1> QED BY <1>3, <1>4, <1>5, <1>6 DEF JobInv

-----------------------------------------------------------------------------
(* The outbox.                                                             *)
LEMMA PickMailKeepsJobs ==
  ASSUME JobInv, NEW w \in JobWorkers, PickMail(w)
  PROVE  JobInv'
<1>0. /\ pc[w] = "pick" /\ JobTypeOK /\ mail \in Mail
      /\ UNCHANGED <<today, schedule, sent, delivered, smtp, claim, carried>>
  BY DEF PickMail, JobInv, JobTypeOK, Mail, exportVars, yearVars
<1>1. CASE mail.status # "queued" \/ ~mail.due
  BY <1>0, <1>1, JobEnds DEF PickMail, exportVars, mailVars, yearVars
<1>2. CASE mail.status = "queued" /\ mail.due /\ ~smtp
  <2>1. Done(w) /\ NextJob(w) = "look" /\ mail' = [mail EXCEPT !.status = "skipped"]
    BY <1>0, <1>2 DEF PickMail, NextJob, ExportSteps, MailSteps
  <2>2. /\ pc' \in [JobWorkers -> Steps] /\ seen' \in [JobWorkers -> Nat]
        /\ age' \in [JobWorkers -> 0 .. JobTimeout]
        /\ \A v \in JobWorkers : pc'[v] = IF v = w THEN "look" ELSE pc[v]
        /\ \A v \in JobWorkers : seen'[v] = IF v = w THEN 0 ELSE seen[v]
        /\ \A v \in JobWorkers : age'[v] = IF v = w THEN 0 ELSE age[v]
        /\ UNCHANGED <<leader, troubles, changes>>
    BY <1>0, <2>1, DoneFacts
  <2>3. mail' \in Mail /\ mail'.status = "skipped"
    BY <1>0, <2>1 DEF Mail
  <2>4. JobTypeOK'
    BY <1>0, <2>2, <2>3 DEF JobTypeOK, Steps, Mail
  <2>5. RunsAreClaimedOnce'
    BY <1>0, <2>2, ReportRests DEF JobInv, exportVars
  <2>6. CopiesAreOwed'
    <3>1. Owed' \subseteq Owed
      BY <2>2 DEF Owed, ExportSteps
    <3>2. Asking' = Asking /\ Accepted' = Accepted
      BY <1>0, <2>2 DEF Asking, Accepted
    <3>3. Open' = Open /\ Open \in {0, 1}
      BY <1>2, <2>3, <3>2 DEF Open
    <3> QED BY <1>0, <2>2, <3>1, <3>3, CreditStays
  <2>7. YearIsClaimedOnce'
    BY <1>0, <2>2, YearRests DEF JobInv, yearVars, YearSteps
  <2> QED BY <2>4, <2>5, <2>6, <2>7 DEF JobInv
<1>3. CASE mail.status = "queued" /\ mail.due /\ smtp
  <2>1. /\ mail' = [mail EXCEPT !.attempts = @ + 1, !.due = FALSE]
        /\ mail.attempts + 1 \in Nat /\ Goto(w, "talk", mail.attempts + 1) /\ "talk" \in Steps
    BY <1>0, <1>3 DEF PickMail, Mail, Steps, MailSteps
  <2>2. /\ pc' \in [JobWorkers -> Steps] /\ seen' \in [JobWorkers -> Nat]
        /\ \A v \in JobWorkers : pc'[v] = IF v = w THEN "talk" ELSE pc[v]
        /\ \A v \in JobWorkers : v # w => seen'[v] = seen[v]
        /\ UNCHANGED <<age, leader, troubles, changes>>
    BY <1>0, <2>1, GotoFacts
  <2>3. mail' \in Mail /\ mail'.status = "queued"
    BY <1>0, <1>3, <2>1 DEF Mail
  <2>4. JobTypeOK'
    BY <1>0, <2>2, <2>3 DEF JobTypeOK, Steps, Mail
  <2>5. RunsAreClaimedOnce'
    BY <1>0, <2>2, ReportRests DEF JobInv, exportVars
  <2>6. CopiesAreOwed'
    <3>1. Owed' \subseteq Owed
      BY <1>0, <2>2 DEF Owed
    <3>2. Accepted' = Accepted
      BY <1>0, <2>2 DEF Accepted
    <3>3. CASE w = leader
      <4>1. ~Accepted
        BY <1>0, <3>3 DEF Accepted
      <4>2. Open = 1 /\ Open' \in {0, 1}
        BY <1>3, <4>1 DEF Open
      <4> QED BY <1>0, <2>2, <3>1, <4>2, CreditStays
    <3>4. CASE w # leader
      <4>1. Asking' = Asking
        BY <2>2, <3>4 DEF Asking
      <4>2. Open' = Open /\ Open \in {0, 1}
        BY <1>3, <2>3, <3>2, <4>1 DEF Open
      <4> QED BY <1>0, <2>2, <3>1, <4>2, CreditStays
    <3> QED BY <3>3, <3>4
  <2>7. YearIsClaimedOnce'
    BY <1>0, <2>2, YearRests DEF JobInv, yearVars, YearSteps
  <2> QED BY <2>4, <2>5, <2>6, <2>7 DEF JobInv
<1> QED BY <1>0, <1>1, <1>2, <1>3 DEF JobTypeOK

LEMMA TalkKeepsJobs ==
  ASSUME JobInv, NEW w \in JobWorkers, Talk(w)
  PROVE  JobInv'
<1>0. /\ pc[w] = "talk" /\ JobTypeOK /\ seen[w] \in Nat
      /\ UNCHANGED <<today, schedule, sent, mail, smtp, claim, carried>>
  BY DEF Talk, JobInv, JobTypeOK, exportVars, yearVars
<1>1. PICK step \in {"accepted", "refused"} :
        /\ Goto(w, step, seen[w])
        /\ step = "accepted" => delivered' = delivered + 1
        /\ step = "refused" => delivered' = delivered
  BY DEF Talk
<1>2. /\ pc' \in [JobWorkers -> Steps] /\ seen' \in [JobWorkers -> Nat]
      /\ \A v \in JobWorkers : pc'[v] = IF v = w THEN step ELSE pc[v]
      /\ \A v \in JobWorkers : v # w => seen'[v] = seen[v]
      /\ UNCHANGED <<age, leader, troubles, changes>>
  <2>1. step \in Steps
    BY DEF Steps, MailSteps
  <2> QED BY <1>0, <1>1, <2>1, GotoFacts
<1>3. delivered \in Nat /\ delivered' \in Nat
  BY <1>0, <1>1 DEF JobTypeOK
<1>4. JobTypeOK'
  BY <1>0, <1>2, <1>3 DEF JobTypeOK, Steps
<1>5. RunsAreClaimedOnce'
  BY <1>0, <1>2, ReportRests DEF JobInv, exportVars
<1>6. CopiesAreOwed'
  <2>1. Owed' \subseteq Owed /\ (step = "accepted" => Owed' \subseteq Owed \ {w})
    BY <1>0, <1>2 DEF Owed, ExportSteps
  <2>2. CASE w = leader
    <3>1. Asking /\ Open = 1
      BY <1>0, <2>2 DEF Asking, Open
    <3>2. Open' \in {0, 1}
      BY DEF Open
    <3>3. CASE step = "refused"
      BY <1>1, <1>2, <2>1, <3>1, <3>2, <3>3, CreditStays
    <3>4. CASE step = "accepted"
      <4>1. ~Asking' /\ Accepted'
        BY <1>2, <2>2, <3>4 DEF Asking, Accepted
      <4>2. Open' = 0
        BY <4>1 DEF Open
      <4> QED BY <1>1, <1>2, <2>1, <3>1, <3>4, <4>2, CreditStays
    <3> QED BY <3>3, <3>4
  <2>3. CASE w # leader
    <3>1. w \in Owed
      BY <1>0, <2>3 DEF Owed
    <3>2. Asking' = Asking /\ Accepted' = Accepted
      BY <1>2, <2>3 DEF Asking, Accepted
    <3>3. Open' = Open /\ Open \in {0, 1}
      BY <1>0, <3>2 DEF Open
    <3>4. CASE step = "refused"
      BY <1>1, <1>2, <2>1, <3>3, <3>4, CreditStays
    <3>5. CASE step = "accepted"
      BY <1>1, <1>2, <2>1, <3>1, <3>3, <3>5, CreditSpent
    <3> QED BY <3>4, <3>5
  <2> QED BY <2>2, <2>3
<1>7. YearIsClaimedOnce'
  BY <1>0, <1>2, YearRests DEF JobInv, yearVars, YearSteps
<1> QED BY <1>4, <1>5, <1>6, <1>7 DEF JobInv

LEMMA SettleKeepsJobs ==
  ASSUME JobInv, NEW w \in JobWorkers, Settle(w)
  PROVE  JobInv'
<1>0. /\ pc[w] \in {"accepted", "refused"} /\ JobTypeOK /\ mail \in Mail
      /\ Done(w) /\ NextJob(w) = "look"
      /\ UNCHANGED <<today, schedule, sent, delivered, smtp, claim, carried>>
  BY DEF Settle, JobInv, JobTypeOK, Mail, exportVars, yearVars, NextJob, ExportSteps, MailSteps
<1>1. /\ pc' \in [JobWorkers -> Steps] /\ seen' \in [JobWorkers -> Nat]
      /\ age' \in [JobWorkers -> 0 .. JobTimeout]
      /\ \A v \in JobWorkers : pc'[v] = IF v = w THEN "look" ELSE pc[v]
      /\ \A v \in JobWorkers : seen'[v] = IF v = w THEN 0 ELSE seen[v]
      /\ \A v \in JobWorkers : age'[v] = IF v = w THEN 0 ELSE age[v]
      /\ UNCHANGED <<leader, troubles, changes>>
  BY <1>0, DoneFacts
<1>2. /\ mail' \in Mail
      /\ pc[w] = "accepted" => mail'.status = "sent"
  <2>1. /\ [mail EXCEPT !.status = "sent"] \in Mail /\ [mail EXCEPT !.status = "failed"] \in Mail
        /\ [mail EXCEPT !.status = "sent"].status = "sent"
    BY <1>0 DEF Mail
  <2> QED BY <1>0, <2>1 DEF Settle
<1>3. JobTypeOK'
  BY <1>0, <1>1, <1>2 DEF JobTypeOK, Steps, Mail
<1>4. RunsAreClaimedOnce'
  BY <1>0, <1>1, ReportRests DEF JobInv, exportVars
<1>5. CopiesAreOwed'
  <2>1. Owed' \subseteq Owed \ {w}
    BY <1>1 DEF Owed, ExportSteps
  <2>2. Open \in {0, 1} /\ Open' \in {0, 1}
    BY DEF Open
  <2>3. CASE w = leader /\ pc[w] = "accepted"
    <3>1. ~Asking'
      BY <1>1, <2>3 DEF Asking
    <3>2. Open' = 0
      BY <1>2, <2>3, <3>1 DEF Open
    <3> QED BY <1>0, <1>1, <2>1, <2>2, <3>2, CreditStays
  <2>4. CASE w = leader /\ pc[w] = "refused"
    <3>1. Asking
      BY <2>4 DEF Asking
    <3>2. Open = 1
      BY <3>1 DEF Open
    <3> QED BY <1>0, <1>1, <2>1, <2>2, <3>2, CreditStays
  <2>5. CASE w # leader /\ pc[w] = "accepted"
    <3>1. Asking' = Asking /\ Accepted' = Accepted
      BY <1>1, <2>5 DEF Asking, Accepted
    <3>2. Open' = 1 => Open = 1
      BY <1>2, <2>5, <3>1 DEF Open
    <3> QED BY <1>0, <1>1, <2>1, <2>2, <3>2, CreditStays
  <2>6. CASE w # leader /\ pc[w] = "refused"
    <3>1. w \in Owed
      BY <2>6 DEF Owed
    <3> QED BY <1>0, <1>1, <2>1, <3>1, CreditSpent
  <2> QED BY <1>0, <2>3, <2>4, <2>5, <2>6
<1>6. YearIsClaimedOnce'
  BY <1>0, <1>1, YearRests DEF JobInv, yearVars, YearSteps
<1> QED BY <1>3, <1>4, <1>5, <1>6 DEF JobInv

-----------------------------------------------------------------------------
(* The year end: a process that moves on within it.                        *)
LEMMA YearMovesOn ==
  ASSUME JobInv, NEW w \in JobWorkers, NEW step \in YearSteps, NEW n \in Nat, Goto(w, step, n),
         pc[w] \in YearSteps, UNCHANGED <<exportVars, mailVars>>,
         claim' \in ClaimRow, carried' \in Nat
  PROVE  /\ JobTypeOK' /\ RunsAreClaimedOnce' /\ CopiesAreOwed'
         /\ \A v \in JobWorkers : pc'[v] = IF v = w THEN step ELSE pc[v]
         /\ \A v \in JobWorkers : seen'[v] = IF v = w THEN n ELSE seen[v]
         /\ age' = age
<1>1. JobTypeOK /\ step \in Steps
      /\ UNCHANGED <<today, schedule, sent, mail, delivered, smtp>>
  BY DEF JobInv, Steps, exportVars, mailVars
<1>2. /\ pc' \in [JobWorkers -> Steps] /\ seen' \in [JobWorkers -> Nat]
      /\ \A v \in JobWorkers : pc'[v] = IF v = w THEN step ELSE pc[v]
      /\ \A v \in JobWorkers : seen'[v] = IF v = w THEN n ELSE seen[v]
      /\ UNCHANGED <<age, leader, troubles, changes>>
  BY <1>1, GotoFacts
<1>3. JobTypeOK'
  BY <1>1, <1>2 DEF JobTypeOK, Steps, ClaimRow
<1>4. RunsAreClaimedOnce'
  BY <1>1, <1>2, ReportRests DEF JobInv, exportVars, YearSteps
<1>5. CopiesAreOwed'
  BY <1>1, <1>2, MailRests DEF ExportSteps, YearSteps
<1> QED BY <1>2, <1>3, <1>4, <1>5

LEMMA ClaimTypes ==
  JobInv => /\ claim \in ClaimRow /\ carried \in Nat /\ carried <= 1 /\ claim.age \in Nat
            /\ \A v \in JobWorkers : seen[v] \in Nat /\ age[v] \in Nat /\ age[v] <= JobTimeout
<1> SUFFICES ASSUME JobInv
             PROVE  /\ claim \in ClaimRow /\ carried \in Nat /\ carried <= 1 /\ claim.age \in Nat
                    /\ \A v \in JobWorkers : seen[v] \in Nat /\ age[v] \in Nat /\ age[v] <= JobTimeout
  OBVIOUS
<1>1. claim \in ClaimRow /\ carried \in Nat /\ carried <= 1
  BY DEF JobInv, JobTypeOK, YearIsClaimedOnce, CarriedOverOnce, ClaimRow
<1>2. claim.age \in Nat
  BY <1>1, JobBounds DEF ClaimRow
<1>3. \A v \in JobWorkers : seen[v] \in Nat /\ age[v] \in Nat /\ age[v] <= JobTimeout
  BY JobBounds DEF JobInv, JobTypeOK
<1> QED BY <1>1, <1>2, <1>3

LEMMA LookKeepsJobs ==
  ASSUME JobInv, NEW w \in JobWorkers, Look(w)
  PROVE  JobInv'
<1>0. /\ pc[w] = "look" /\ UNCHANGED <<exportVars, mailVars, yearVars>>
      /\ UNCHANGED <<claim, carried>>
  BY DEF Look, yearVars
<1>1. CASE claim.status = "none"
  <2>1. Goto(w, "insert", 0)
    BY <1>1 DEF Look
  <2>2. /\ JobTypeOK' /\ RunsAreClaimedOnce' /\ CopiesAreOwed'
        /\ \A v \in JobWorkers : pc'[v] = IF v = w THEN "insert" ELSE pc[v]
        /\ \A v \in JobWorkers : seen'[v] = IF v = w THEN 0 ELSE seen[v]
        /\ age' = age
    BY <1>0, <2>1, YearMovesOn, ClaimTypes DEF YearSteps
  <2>3. YearIsClaimedOnce'
    BY <1>0, <2>2, YearRests DEF JobInv
  <2> QED BY <2>2, <2>3 DEF JobInv
<1>2. CASE claim.status = "running" /\ Stale
  <2>1. Goto(w, "take over", claim.takeovers) /\ claim.takeovers \in Nat
    BY <1>2, ClaimTypes DEF Look, ClaimRow
  <2>2. /\ JobTypeOK' /\ RunsAreClaimedOnce' /\ CopiesAreOwed'
        /\ \A v \in JobWorkers : pc'[v] = IF v = w THEN "take over" ELSE pc[v]
        /\ \A v \in JobWorkers : seen'[v] = IF v = w THEN claim.takeovers ELSE seen[v]
        /\ age' = age
    BY <1>0, <2>1, YearMovesOn, ClaimTypes DEF YearSteps
  <2>3. \A v \in JobWorkers : pc'[v] # "take over" => pc'[v] = pc[v] /\ seen'[v] = seen[v]
    BY <2>2
  <2>4. \A v \in JobWorkers : Holding(v)' => Holding(v) /\ pc'[v] = pc[v] /\ seen'[v] = seen[v]
    BY <2>3 DEF Holding
  <2>5. \A v \in JobWorkers : pc'[v] = "take over" =>
          \/ v = w /\ seen'[v] = claim.takeovers
          \/ pc[v] = "take over" /\ seen'[v] = seen[v]
    BY <2>2
  <2>6. \A v \in JobWorkers : pc'[v] = "take over" =>
          /\ claim.status # "none" /\ seen'[v] <= claim.takeovers
          /\ claim.status = "running" /\ seen'[v] = claim.takeovers => claim.age >= StaleAfter
    <3>1. SUFFICES ASSUME NEW v \in JobWorkers, pc'[v] = "take over"
                   PROVE  /\ claim.status # "none" /\ seen'[v] <= claim.takeovers
                          /\ claim.status = "running" /\ seen'[v] = claim.takeovers => claim.age >= StaleAfter
      OBVIOUS
    <3>2. CASE v = w /\ seen'[v] = claim.takeovers
      <4>1. claim.status = "running" /\ claim.age >= StaleAfter
        BY <1>2 DEF Stale
      <4>2. seen'[v] <= claim.takeovers
        <5>1. claim.takeovers \in Nat
          BY <2>1
        <5>2. claim.takeovers <= claim.takeovers
          BY <5>1
        <5> QED BY <3>2, <5>2, Zenon
      <4> QED BY <4>1, <4>2
    <3>3. CASE pc[v] = "take over" /\ seen'[v] = seen[v]
      BY <3>3 DEF JobInv, YearIsClaimedOnce
    <3> QED BY <2>5, <3>1, <3>2, <3>3
  <2>7. CarriedOverOnce'
    BY <1>0 DEF JobInv, YearIsClaimedOnce, CarriedOverOnce
  <2>8. \A v \in JobWorkers : (pc'[v] = "write" => seen'[v] = carried) /\ (pc'[v] = "success" => carried = 1)
    BY <2>4 DEF JobInv, YearIsClaimedOnce, Holding
  <2>9. YearIsClaimedOnce'
    BY <1>0, <2>2, <2>4, <2>6, <2>7, <2>8 DEF JobInv, YearIsClaimedOnce
  <2> QED BY <2>2, <2>9 DEF JobInv
<1>3. CASE ~(claim.status = "none") /\ ~(claim.status = "running" /\ Stale)
  <2>1. Done(w)
    BY <1>3 DEF Look
  <2> QED BY <1>0, <2>1, JobEnds DEF YearSteps
<1> QED BY <1>1, <1>2, <1>3

LEMMA InsertKeepsJobs ==
  ASSUME JobInv, NEW w \in JobWorkers, Insert(w)
  PROVE  JobInv'
<1>0. pc[w] = "insert" /\ UNCHANGED <<exportVars, mailVars>> /\ carried' = carried
  BY DEF Insert
<1>1. CASE Free(w)
  <2>1. Goto(w, "check", 0) /\ claim' = [status |-> "running", takeovers |-> 0, age |-> 0]
    BY <1>1 DEF Insert
  <2>2. claim' \in ClaimRow
    BY <2>1, JobBounds DEF ClaimRow
  <2>3. /\ JobTypeOK' /\ RunsAreClaimedOnce' /\ CopiesAreOwed'
        /\ \A v \in JobWorkers : pc'[v] = IF v = w THEN "check" ELSE pc[v]
        /\ \A v \in JobWorkers : seen'[v] = IF v = w THEN 0 ELSE seen[v]
        /\ age' = age
    BY <1>0, <2>1, <2>2, YearMovesOn, ClaimTypes DEF YearSteps
  <2>4. \A v \in JobWorkers : ~Holding(v) /\ pc[v] # "take over"
    BY <1>1 DEF JobInv, YearIsClaimedOnce, Free
  <2>5. \A v \in JobWorkers : pc'[v] # "take over" /\ (Holding(v)' => v = w /\ pc'[v] = "check")
    BY <2>3, <2>4 DEF Holding
  <2>6. claim'.status = "running" /\ claim'.age = 0 /\ CarriedOverOnce'
    BY <1>0, <2>1, ClaimTypes DEF CarriedOverOnce
  <2>7. YearIsClaimedOnce'
    <3>1. \A v \in JobWorkers : Holding(v)' => claim'.status = "running" /\ claim'.age <= age'[v]
      BY <2>3, <2>6, ClaimTypes
    <3>2. \A v \in JobWorkers : pc'[v] \notin {"write", "success"}
      BY <2>5 DEF Holding
    <3> QED BY <2>5, <2>6, <3>1, <3>2 DEF YearIsClaimedOnce
  <2> QED BY <2>3, <2>7 DEF JobInv
<1>2. CASE ~Free(w)
  BY <1>0, <1>2, JobEnds DEF Insert, yearVars, YearSteps
<1> QED BY <1>1, <1>2

LEMMA TakeOverKeepsJobs ==
  ASSUME JobInv, NEW w \in JobWorkers, TakeOver(w)
  PROVE  JobInv'
<1>0. pc[w] = "take over" /\ UNCHANGED <<exportVars, mailVars>> /\ carried' = carried
  BY DEF TakeOver
<1>1. CASE claim.status = "running" /\ claim.takeovers = seen[w]
  <2>1. Goto(w, "check", 0) /\ claim' = [claim EXCEPT !.takeovers = @ + 1, !.age = 0]
    BY <1>1 DEF TakeOver
  <2>2. /\ claim' \in ClaimRow /\ claim'.status = "running" /\ claim'.age = 0
        /\ claim'.takeovers = claim.takeovers + 1 /\ claim.takeovers \in Nat
    <3>1. claim \in ClaimRow /\ 0 \in 0 .. StaleAfter
      BY ClaimTypes, JobBounds
    <3>2. claim.takeovers \in Nat /\ claim.takeovers + 1 \in Nat
      BY <3>1 DEF ClaimRow
    <3>3. claim' \in ClaimRow
      BY <2>1, <3>1, <3>2 DEF ClaimRow
    <3>4. /\ claim'.status = claim.status /\ claim'.age = 0
          /\ claim'.takeovers = claim.takeovers + 1
      BY <2>1, <3>1 DEF ClaimRow
    <3> QED BY <1>1, <3>2, <3>3, <3>4
  <2>3. /\ JobTypeOK' /\ RunsAreClaimedOnce' /\ CopiesAreOwed'
        /\ \A v \in JobWorkers : pc'[v] = IF v = w THEN "check" ELSE pc[v]
        /\ \A v \in JobWorkers : seen'[v] = IF v = w THEN 0 ELSE seen[v]
        /\ age' = age
    BY <1>0, <2>1, <2>2, YearMovesOn, ClaimTypes DEF YearSteps
  (* Whoever held the claim would have been cancelled by now.             *)
  <2>4. claim.age >= StaleAfter
    BY <1>0, <1>1 DEF JobInv, YearIsClaimedOnce
  <2>5. \A v \in JobWorkers : ~Holding(v)
    <3>1. \A v \in JobWorkers : Holding(v) => claim.age <= age[v]
      BY DEF JobInv, YearIsClaimedOnce
    <3> QED BY <2>4, <3>1, ClaimTypes, JobBounds
  <2>6. \A v \in JobWorkers : pc'[v] = "take over" => v # w /\ pc[v] = "take over" /\ seen'[v] = seen[v]
    BY <2>3
  <2>7. \A v \in JobWorkers : pc'[v] = "take over" => seen'[v] <= claim.takeovers /\ seen'[v] \in Nat
    BY <2>6, ClaimTypes DEF JobInv, YearIsClaimedOnce
  <2>8. \A v \in JobWorkers : pc'[v] = "take over" =>
          /\ claim'.status # "none" /\ seen'[v] <= claim'.takeovers
          /\ ~(seen'[v] = claim'.takeovers)
    <3>1. SUFFICES ASSUME NEW v \in JobWorkers, pc'[v] = "take over"
                   PROVE  seen'[v] <= claim'.takeovers /\ ~(seen'[v] = claim'.takeovers)
      BY <2>2
    <3>2. seen'[v] <= claim.takeovers /\ seen'[v] \in Nat
      BY <3>1, <2>7
    <3> QED BY <2>2, <3>2
  <2>9. \A v \in JobWorkers : Holding(v)' => v = w /\ pc'[v] = "check"
    BY <2>3, <2>5 DEF Holding
  <2>10. CarriedOverOnce'
    BY <1>0, <2>2, ClaimTypes DEF CarriedOverOnce
  <2>11. YearIsClaimedOnce'
    <3>1. \A v \in JobWorkers : Holding(v)' => claim'.status = "running" /\ claim'.age <= age'[v]
      BY <2>2, <2>3, ClaimTypes
    <3>2. \A v \in JobWorkers : pc'[v] \notin {"write", "success"}
      BY <2>9 DEF Holding
    <3> QED BY <2>8, <2>9, <2>10, <3>1, <3>2 DEF YearIsClaimedOnce
  <2> QED BY <2>3, <2>11 DEF JobInv
<1>2. CASE ~(claim.status = "running" /\ claim.takeovers = seen[w])
  BY <1>0, <1>2, JobEnds DEF TakeOver, yearVars, YearSteps
<1> QED BY <1>1, <1>2

LEMMA CheckKeepsJobs ==
  ASSUME JobInv, NEW w \in JobWorkers, Check(w)
  PROVE  JobInv'
<1>0. /\ pc[w] = "check" /\ UNCHANGED <<exportVars, mailVars, yearVars>>
      /\ UNCHANGED <<claim, carried>> /\ Holding(w)
  BY DEF Check, yearVars, Holding
<1>1. PICK step \in {"write", "failed"}, n \in {0, carried} :
        Goto(w, step, n) /\ (step = "write" => n = carried)
  BY DEF Check
<1>2. /\ JobTypeOK' /\ RunsAreClaimedOnce' /\ CopiesAreOwed'
      /\ \A v \in JobWorkers : pc'[v] = IF v = w THEN step ELSE pc[v]
      /\ \A v \in JobWorkers : seen'[v] = IF v = w THEN n ELSE seen[v]
      /\ age' = age
  <2>1. carried \in Nat /\ claim \in ClaimRow
    BY ClaimTypes
  <2>2. n \in Nat
    BY <2>1
  <2>3. step \in YearSteps /\ pc[w] \in YearSteps
    BY <1>0 DEF YearSteps
  <2> QED BY <1>0, <1>1, <2>1, <2>2, <2>3, YearMovesOn
<1>3. \A v \in JobWorkers : Holding(v)' => Holding(v)
  BY <1>0, <1>2 DEF Holding
<1>4. YearIsClaimedOnce'
  BY <1>0, <1>1, <1>2, <1>3 DEF JobInv, YearIsClaimedOnce, Holding, CarriedOverOnce
<1> QED BY <1>2, <1>4 DEF JobInv

LEMMA WriteRowsKeepsJobs ==
  ASSUME JobInv, NEW w \in JobWorkers, WriteRows(w)
  PROVE  JobInv'
<1>0. /\ pc[w] = "write" /\ UNCHANGED <<exportVars, mailVars>> /\ claim' = claim
      /\ Holding(w) /\ Goto(w, "success", 0)
      /\ carried' = IF seen[w] = 0 THEN carried + 1 ELSE carried
  BY DEF WriteRows, Holding
<1>1. carried' = 1
  <2>1. seen[w] = carried
    BY <1>0 DEF JobInv, YearIsClaimedOnce
  <2>2. carried = 0 \/ carried = 1
    BY ClaimTypes
  <2> QED BY <1>0, <2>1, <2>2
<1>2. /\ JobTypeOK' /\ RunsAreClaimedOnce' /\ CopiesAreOwed'
      /\ \A v \in JobWorkers : pc'[v] = IF v = w THEN "success" ELSE pc[v]
      /\ \A v \in JobWorkers : seen'[v] = IF v = w THEN 0 ELSE seen[v]
      /\ age' = age
  <2>1. "success" \in YearSteps /\ pc[w] \in YearSteps /\ claim' \in ClaimRow /\ carried' \in Nat
    BY <1>0, <1>1, ClaimTypes DEF YearSteps
  <2> QED BY <1>0, <2>1, YearMovesOn
<1>3. \A v \in JobWorkers : Holding(v)' => v = w
  BY <1>0, <1>2 DEF JobInv, YearIsClaimedOnce, Holding
<1>4. \A v \in JobWorkers : pc'[v] = "take over" => pc[v] = "take over" /\ seen'[v] = seen[v]
  BY <1>2
<1>5. CarriedOverOnce' /\ (\A v \in JobWorkers : pc'[v] # "write")
  BY <1>1, <1>2, <1>3 DEF CarriedOverOnce, Holding
<1>6. \A v \in JobWorkers : Holding(v)' => claim'.status = "running" /\ claim'.age <= age'[v]
  BY <1>0, <1>2, <1>3 DEF JobInv, YearIsClaimedOnce
<1>7. YearIsClaimedOnce'
  BY <1>0, <1>1, <1>3, <1>4, <1>5, <1>6 DEF JobInv, YearIsClaimedOnce
<1> QED BY <1>2, <1>7 DEF JobInv

LEMMA FinishKeepsJobs ==
  ASSUME JobInv, NEW w \in JobWorkers, Finish(w)
  PROVE  JobInv'
<1>0. /\ pc[w] \in {"success", "failed"} /\ JobTypeOK /\ Holding(w) /\ Done(w)
      /\ claim' = [claim EXCEPT !.status = pc[w]] /\ NextJob(w) = "idle"
      /\ UNCHANGED <<today, schedule, sent, mail, delivered, smtp, carried>>
  BY DEF Finish, JobInv, Holding, NextJob, ExportSteps, MailSteps, exportVars, mailVars
<1>1. /\ pc' \in [JobWorkers -> Steps] /\ seen' \in [JobWorkers -> Nat]
      /\ age' \in [JobWorkers -> 0 .. JobTimeout]
      /\ \A v \in JobWorkers : pc'[v] = IF v = w THEN "idle" ELSE pc[v]
      /\ \A v \in JobWorkers : seen'[v] = IF v = w THEN 0 ELSE seen[v]
      /\ \A v \in JobWorkers : age'[v] = IF v = w THEN 0 ELSE age[v]
      /\ UNCHANGED <<leader, troubles, changes>>
  BY <1>0, DoneFacts
<1>2. claim' \in ClaimRow /\ claim'.status = pc[w] /\ claim'.takeovers = claim.takeovers
  BY <1>0, ClaimTypes DEF ClaimRow
<1>3. JobTypeOK'
  BY <1>0, <1>1, <1>2 DEF JobTypeOK, Steps, ClaimRow
<1>4. RunsAreClaimedOnce'
  BY <1>0, <1>1, ReportRests DEF JobInv, exportVars
<1>5. CopiesAreOwed'
  BY <1>0, <1>1, MailRests DEF ExportSteps
<1>6. YearIsClaimedOnce'
  <2>1. \A v \in JobWorkers : ~Holding(v)'
    BY <1>0, <1>1 DEF JobInv, YearIsClaimedOnce, Holding
  <2>2. CarriedOverOnce'
    BY <1>0, <1>2 DEF JobInv, YearIsClaimedOnce, CarriedOverOnce
  <2>3. \A v \in JobWorkers : pc'[v] = "take over" =>
          pc[v] = "take over" /\ seen'[v] = seen[v] /\ seen[v] <= claim.takeovers
    BY <1>1 DEF JobInv, YearIsClaimedOnce
  <2> QED BY <1>0, <1>2, <2>1, <2>2, <2>3 DEF YearIsClaimedOnce, Holding
<1> QED BY <1>3, <1>4, <1>5, <1>6 DEF JobInv

-----------------------------------------------------------------------------
(* Who leads, and what goes wrong.                                         *)
LEMMA TakeLeadKeepsJobs ==
  ASSUME JobInv, NEW w \in JobWorkers, TakeLead(w)
  PROVE  JobInv'
<1>0. /\ leader = Nothing /\ leader' = w /\ leader \notin JobWorkers
      /\ UNCHANGED <<troubles, pc, seen, age, changes, today, schedule, sent, mail, delivered, smtp, claim, carried>>
  BY JobBounds DEF TakeLead, exportVars, mailVars, yearVars
<1>1. JobTypeOK'
  BY <1>0 DEF JobInv, JobTypeOK
<1>2. RunsAreClaimedOnce'
  BY <1>0, ReportRests DEF JobInv, exportVars
<1>3. CopiesAreOwed'
  <2>1. ~Asking /\ ~Accepted /\ Owed' \subseteq Owed
    BY <1>0 DEF Asking, Accepted, Owed
  <2>2. Open \in {0, 1} /\ Open' \in {0, 1}
    BY DEF Open
  <2>3. CASE Asking'
    <3>1. w \in Owed /\ Owed' \subseteq Owed \ {w}
      BY <1>0, <2>3 DEF Asking, Owed
    <3> QED BY <1>0, <3>1, CreditSpent
  <2>4. CASE ~Asking'
    <3>1. Open' = 1 => Open = 1
      BY <1>0, <2>1, <2>4 DEF Open
    <3> QED BY <1>0, <2>1, <2>2, <3>1, CreditStays
  <2> QED BY <2>3, <2>4
<1>4. YearIsClaimedOnce'
  BY <1>0, YearRests DEF JobInv, yearVars
<1> QED BY <1>1, <1>2, <1>3, <1>4 DEF JobInv

LEMMA LoseLeadKeepsJobs ==
  ASSUME JobInv, LoseLead
  PROVE  JobInv'
<1>0. /\ leader \in JobWorkers /\ leader' = Nothing /\ leader' \notin JobWorkers
      /\ troubles' = troubles + 1 /\ troubles < MaxTroubles
      /\ UNCHANGED <<pc, seen, age, changes, today, schedule, sent, mail, delivered, smtp, claim, carried>>
  BY JobBounds DEF LoseLead, Trouble, exportVars, mailVars, yearVars, JobInv, JobTypeOK
<1>1. JobTypeOK'
  BY <1>0, JobBounds DEF JobInv, JobTypeOK
<1>2. RunsAreClaimedOnce'
  BY <1>0, ReportRests DEF JobInv, exportVars
<1>3. CopiesAreOwed'
  <2>1. Owed' \subseteq Owed \cup {leader} /\ ~Asking' /\ ~Accepted'
    BY <1>0 DEF Owed, Asking, Accepted
  <2>2. Open \in {0, 1} /\ Open' \in {0, 1}
    BY DEF Open
  <2>3. CASE pc[leader] = "accepted"
    <3>1. Owed' \subseteq Owed
      BY <1>0, <2>3 DEF Owed, ExportSteps
    <3> QED BY <1>0, <3>1, CreditForTrouble
  <2>4. CASE pc[leader] # "accepted"
    <3>1. ~Accepted
      BY <2>4 DEF Accepted
    <3>2. Open' = 1 => Open = 1
      BY <1>0, <2>1, <3>1 DEF Open
    <3> QED BY <1>0, <2>1, <2>2, <3>2, CreditForTrouble
  <2> QED BY <2>3, <2>4
<1>4. YearIsClaimedOnce'
  BY <1>0, YearRests DEF JobInv, yearVars
<1> QED BY <1>1, <1>2, <1>3, <1>4 DEF JobInv

(* A process that is stopped in the middle of a job, for good or to go on  *)
(* with the next one.                                                      *)
LEMMA StoppedKeepsJobs ==
  ASSUME JobInv, NEW w \in JobWorkers, NEW step \in {"idle", "pick", "look"}, Trouble,
         Stops(w, step), step = "pick" => pc[w] \in ExportSteps,
         leader' \in {leader, Nothing}, leader' = Nothing /\ leader # Nothing => leader = w /\ step = "idle"
  PROVE  JobInv'
<1>0. /\ troubles' = troubles + 1 /\ troubles < MaxTroubles /\ JobTypeOK
      /\ UNCHANGED <<changes, today, schedule, sent, mail, delivered, smtp, claim, carried>>
  BY DEF Trouble, exportVars, mailVars, yearVars, JobInv
<1>1. /\ pc' \in [JobWorkers -> Steps] /\ seen' \in [JobWorkers -> Nat]
      /\ age' \in [JobWorkers -> 0 .. JobTimeout]
      /\ \A v \in JobWorkers : pc'[v] = IF v = w THEN step ELSE pc[v]
      /\ \A v \in JobWorkers : seen'[v] = IF v = w THEN 0 ELSE seen[v]
      /\ \A v \in JobWorkers : age'[v] = IF v = w THEN 0 ELSE age[v]
  <2>1. step \in Steps
    BY DEF Steps, MailSteps, YearSteps
  <2> QED BY <1>0, <2>1, StopsFacts
<1>2. JobTypeOK'
  BY <1>0, <1>1, JobBounds DEF JobTypeOK, Steps
<1>3. RunsAreClaimedOnce'
  BY <1>0, <1>1, ReportRests DEF JobInv, exportVars
<1>4. CopiesAreOwed'
  <2>1. Owed' \subseteq Owed
    BY <1>1, JobBounds DEF Owed, ExportSteps
  <2> QED BY <1>0, <2>1, CreditForTrouble
<1>5. YearIsClaimedOnce'
  BY <1>0, <1>1, YearRests DEF JobInv, yearVars, YearSteps
<1> QED BY <1>2, <1>3, <1>4, <1>5 DEF JobInv

LEMMA TimeKeepsJobs ==
  ASSUME JobInv, TimePasses
  PROVE  JobInv'
<1>0. /\ JobTypeOK
      /\ UNCHANGED <<leader, troubles, pc, seen, changes, today, schedule, sent, mail, delivered, smtp, carried>>
  BY DEF TimePasses, JobInv, schedulerVars, exportVars, mailVars
<1>1. /\ age' = [v \in JobWorkers |-> IF pc[v] = "idle" THEN 0 ELSE age[v] + 1]
      /\ \A v \in JobWorkers : age[v] < JobTimeout
      /\ claim' = [claim EXCEPT !.age = IF claim.status = "running" /\ @ < StaleAfter THEN @ + 1 ELSE @]
  BY DEF TimePasses
<1>2. age' \in [JobWorkers -> 0 .. JobTimeout]
  <2>1. \A v \in JobWorkers : age[v] + 1 \in 0 .. JobTimeout
    BY <1>0, <1>1, JobBounds DEF JobTypeOK
  <2>2. 0 \in 0 .. JobTimeout
    BY JobBounds
  <2> QED BY <1>1, <2>1, <2>2
<1>3. /\ claim' \in ClaimRow /\ claim'.status = claim.status /\ claim'.takeovers = claim.takeovers
      /\ claim'.age \in {claim.age, claim.age + 1}
      /\ claim.age >= StaleAfter => claim'.age = claim.age
  <2>1. claim \in ClaimRow /\ claim.age \in 0 .. StaleAfter
    BY ClaimTypes DEF ClaimRow
  <2> DEFINE a == IF claim.status = "running" /\ claim.age < StaleAfter THEN claim.age + 1 ELSE claim.age
  <2>2. a \in 0 .. StaleAfter /\ a \in {claim.age, claim.age + 1} /\ (claim.age >= StaleAfter => a = claim.age)
    BY <2>1, JobBounds
  <2>3. claim' = [claim EXCEPT !.age = a]
    BY <1>1
  <2> HIDE DEF a
  <2> QED BY <2>1, <2>2, <2>3 DEF ClaimRow
<1>4. JobTypeOK'
  BY <1>0, <1>2, <1>3 DEF JobTypeOK, ClaimRow
<1>5. RunsAreClaimedOnce'
  BY <1>0, ReportRests DEF JobInv, exportVars
<1>6. CopiesAreOwed'
  BY <1>0, NobodyMoves
<1>7. YearIsClaimedOnce'
  <2>1. ASSUME NEW v \in JobWorkers, Holding(v) PROVE claim'.age <= age'[v]
    <3>1. claim.age <= age[v] /\ pc[v] # "idle"
      BY <2>1 DEF JobInv, YearIsClaimedOnce, Holding
    <3>2. age'[v] = age[v] + 1
      BY <1>1, <3>1
    <3> QED BY <1>3, <3>1, <3>2, ClaimTypes
  <2>2. \A v \in JobWorkers : pc[v] = "take over" =>
          /\ claim'.status # "none" /\ seen[v] <= claim'.takeovers
          /\ claim'.status = "running" /\ seen[v] = claim'.takeovers => claim'.age >= StaleAfter
    BY <1>3 DEF JobInv, YearIsClaimedOnce
  <2>3. CarriedOverOnce'
    BY <1>0, <1>3 DEF JobInv, YearIsClaimedOnce, CarriedOverOnce
  <2> QED BY <1>0, <1>3, <2>1, <2>2, <2>3 DEF JobInv, YearIsClaimedOnce, Holding
<1> QED BY <1>4, <1>5, <1>6, <1>7 DEF JobInv

-----------------------------------------------------------------------------
LEMMA JobStep == JobInv /\ [JobNext]_jobVars => JobInv'
<1> SUFFICES ASSUME JobInv, [JobNext]_jobVars PROVE JobInv'
  OBVIOUS
<1>1. ASSUME NEW w \in JobWorkers, Work(w) PROVE JobInv'
  <2>1. CASE StartTick(w)
    BY <2>1, StartKeepsJobs
  <2>2. CASE Exports(w)
    BY <2>2, SelectKeepsJobs, ClaimRunKeepsJobs, SendKeepsJobs DEF Exports
  <2>3. CASE Outbox(w)
    BY <2>3, PickMailKeepsJobs, TalkKeepsJobs, SettleKeepsJobs DEF Outbox
  <2>4. CASE YearEnd(w)
    BY <2>4, LookKeepsJobs, InsertKeepsJobs, TakeOverKeepsJobs, CheckKeepsJobs, WriteRowsKeepsJobs,
       FinishKeepsJobs DEF YearEnd
  <2> QED BY <1>1, <2>1, <2>2, <2>3, <2>4 DEF Work
<1>2. ASSUME NEW w \in JobWorkers, TakeLead(w) PROVE JobInv'
  BY <1>2, TakeLeadKeepsJobs
<1>3. ASSUME NEW w \in JobWorkers, Die(w) PROVE JobInv'
  BY <1>3, StoppedKeepsJobs, JobBounds DEF Die
<1>4. ASSUME NEW w \in JobWorkers, Cancel(w) PROVE JobInv'
  <2>1. NextJob(w) \in {"idle", "pick", "look"} /\ (NextJob(w) = "pick" => pc[w] \in ExportSteps)
    BY DEF NextJob
  <2> QED BY <1>4, <2>1, StoppedKeepsJobs DEF Cancel
<1>5. CASE LoseLead
  BY <1>5, LoseLeadKeepsJobs
<1>6. CASE People
  <2>1. CASE Edit \/ Pause \/ Delete
    BY <2>1, RescheduleKeepsJobs DEF Edit, Pause, Delete
  <2>2. CASE Retry \/ SwitchEmail
    BY <2>2, MailPeopleKeepJobs
  <2> QED BY <1>6, <2>1, <2>2 DEF People
<1>7. CASE Clock
  BY <1>7, TimeKeepsJobs, NextDayKeepsJobs, MailPeopleKeepJobs DEF Clock
<1>8. CASE UNCHANGED jobVars
  <2>1. UNCHANGED <<leader, troubles, pc, seen, age, changes, today, schedule, sent, mail, delivered,
                    smtp, claim, carried>>
    BY <1>8 DEF jobVars, schedulerVars, exportVars, mailVars, yearVars
  <2>2. JobTypeOK'
    BY <2>1 DEF JobInv, JobTypeOK
  <2>3. RunsAreClaimedOnce' /\ YearIsClaimedOnce'
    BY <2>1, ReportRests, YearRests DEF JobInv, exportVars, yearVars
  <2>4. CopiesAreOwed'
    BY <2>1, NobodyMoves
  <2> QED BY <2>2, <2>3, <2>4 DEF JobInv
<1> QED BY <1>1, <1>2, <1>3, <1>4, <1>5, <1>6, <1>7, <1>8 DEF JobNext

(* No claim lets work be done twice: a report's run is sent once, every    *)
(* additional copy of an email has a trouble behind it, and the days are   *)
(* carried over once, whoever leads, crashes, is cancelled or goes on      *)
(* without the lead. It rests on JOB_TIMEOUT being shorter than            *)
(* STALE_AFTER, and on nothing else about the constants.                   *)
THEOREM OnceTheorem == JobSpec => []WorkIsNotRepeated
<1>1. JobInv => WorkIsNotRepeated
  <2> SUFFICES ASSUME JobInv PROVE WorkIsNotRepeated
    OBVIOUS
  <2>1. EachRunIsSentOnce
    BY DEF JobInv, RunsAreClaimedOnce, EachRunIsSentOnce
  <2>2. NoCopiesWithoutTrouble
    <3>1. Cardinality(Owed) \in Nat /\ Open \in {0, 1} /\ delivered \in Nat /\ troubles \in Nat
      BY OwedIsFinite DEF JobInv
    <3>2. delivered + Open + Cardinality(Owed) <= 1 + troubles
      BY DEF JobInv, CopiesAreOwed
    <3> QED BY <3>1, <3>2 DEF NoCopiesWithoutTrouble
  <2>3. CarriedOverOnce
    BY DEF JobInv, YearIsClaimedOnce
  <2> QED BY <2>1, <2>2, <2>3 DEF JobInv, WorkIsNotRepeated
<1> QED BY <1>1, JobInitInv, JobStep, PTL DEF JobSpec

-----------------------------------------------------------------------------
(* The plugins. That setting the clock back starts nothing is because the  *)
(* mark never falls while a key stays: an expiry that was found is one at  *)
(* the mark. That deliveries are honest is because whatever a batch has    *)
(* picked or handles stays queued, so that no retry resets its attempts.   *)
Delivery == [status : {"none", "queued", "sent", "failed", "skipped"}, attempts : Nat, due : BOOLEAN]
Batch == [picked : SUBSET Events, open : BOOLEAN, view : BOOLEAN,
          on : {"unread", "on", "off"}, handling : SUBSET Events]

ExpiryIsMarked == lapsed => key # NoKey /\ ExpiredOn(Later(mark, key.issued))

BatchIsSound ==
  /\ \A e \in batch.picked \cup batch.handling : queue[e].status = "queued"
  /\ batch.picked \cap batch.handling = {}
  /\ \A e \in batch.handling : queue[e].attempts > 0
  /\ batch.handling # {} => batch.on = "on"

Honest(q, got) ==
  \A e \in Events :
    /\ q[e].status = "sent" => e \in got
    /\ q[e].status = "failed" => q[e].attempts >= MaxAttempts

PluginInv ==
  /\ PluginTypeOK /\ queue \in [Events -> Delivery] /\ batch \in Batch
  /\ ExpiryIsMarked /\ BatchIsSound /\ Honest(queue, received)

LEMMA PluginInitInv == PluginInit => PluginInv
<1> SUFFICES ASSUME PluginInit PROVE PluginInv
  OBVIOUS
<1> USE PluginAssumption
<1>1. Unsent \in Delivery /\ Idle \in Batch
  BY DEF Unsent, Delivery, Idle, Batch
<1>2. queue \in [Events -> Delivery] /\ batch \in Batch /\ \A e \in Events : queue[e] = Unsent
  BY <1>1 DEF PluginInit
<1>3. PluginTypeOK
  <2>1. staff \in 0 .. MostEmployees /\ clock \in 0 .. LastLicenceDay
    BY DEF PluginInit
  <2>2. \A e \in Events : queue[e].status = "none"
    BY <1>2 DEF Unsent
  <2>3. setting \in [on : BOOLEAN, filled : BOOLEAN]
    BY DEF PluginInit
  <2> QED BY <2>1, <2>2, <2>3 DEF PluginInit, PluginTypeOK
<1>4. BatchIsSound
  BY DEF PluginInit, BatchIsSound, Idle
<1> QED BY <1>2, <1>3, <1>4 DEF PluginInit, PluginInv, ExpiryIsMarked, Honest, Unsent

(* The licence's side: the queue and the batch stay.                       *)
LEMMA LicenceKeeps ==
  ASSUME PluginInv, UNCHANGED hostVars,
         clock' \in 0 .. LastLicenceDay, mark' \in Nat, over' \in Nat \cup {Never},
         key' \in Keys \cup {NoKey}, staff' \in 0 .. MostEmployees, lapsed' \in BOOLEAN,
         ExpiryIsMarked'
  PROVE  PluginInv'
BY DEF PluginInv, PluginTypeOK, BatchIsSound, Honest, hostVars

LEMMA LicenceStep ==
  ASSUME PluginInv,
         \/ \E k \in Keys : ApplyKey(k)
         \/ RemoveKey \/ LicenceUpkeep \/ Hire \/ Leave \/ DayBegins \/ SetClockBack
  PROVE  PluginInv'
<1> USE PluginAssumption
<1>1. /\ clock \in 0 .. LastLicenceDay /\ mark \in Nat /\ over \in Nat \cup {Never}
      /\ key \in Keys \cup {NoKey} /\ staff \in 0 .. MostEmployees /\ lapsed \in BOOLEAN
      /\ key # NoKey => key.issued \in Nat /\ key.expires \in Nat /\ key.trial \in BOOLEAN
      /\ ExpiryIsMarked
  BY DEF PluginInv, PluginTypeOK
<1>2. UNCHANGED hostVars
  BY DEF ApplyKey, RemoveKey, LicenceUpkeep, Hire, Leave, DayBegins, SetClockBack
<1>3. ASSUME NEW k \in Keys, ApplyKey(k) PROVE PluginInv'
  <2>1. mark' \in Nat /\ key' = k /\ lapsed' = FALSE /\ UNCHANGED <<clock, over, staff>>
    BY <1>1, <1>3 DEF ApplyKey, Later
  <2>2. ExpiryIsMarked'
    BY <2>1 DEF ExpiryIsMarked
  <2> QED BY <1>1, <1>2, <2>1, <2>2, LicenceKeeps
<1>4. CASE RemoveKey
  <2>1. key' = NoKey /\ lapsed' = FALSE /\ UNCHANGED <<clock, mark, over, staff>>
    BY <1>4 DEF RemoveKey
  <2>2. ExpiryIsMarked'
    BY <2>1 DEF ExpiryIsMarked
  <2> QED BY <1>1, <1>2, <2>1, <2>2, LicenceKeeps
<1>5. CASE LicenceUpkeep
  <2>1. mark' = Marked /\ Marked \in Nat /\ Marked >= mark /\ Marked >= clock
    BY <1>1, <1>5 DEF LicenceUpkeep, Marked, Later
  <2>2. key # NoKey => Judged(clock, mark') = Later(mark', key.issued)
    BY <1>1, <2>1 DEF Judged, Later
  <2>3. Judged(clock, mark') \in Nat
    BY <1>1, <2>1 DEF Judged, Later
  <2>4. over' \in Nat \cup {Never} /\ lapsed' \in BOOLEAN /\ UNCHANGED <<clock, key, staff>>
    BY <1>1, <1>5, <2>3 DEF LicenceUpkeep
  <2>5. ExpiryIsMarked'
    <3>1. CASE lapsed
      <4>1. key # NoKey /\ ExpiredOn(Later(mark, key.issued))
        BY <1>1, <3>1 DEF ExpiryIsMarked
      <4>2. Later(mark', key.issued) >= Later(mark, key.issued) /\ Later(mark, key.issued) \in Nat
            /\ Later(mark', key.issued) \in Nat
        BY <1>1, <2>1, <4>1 DEF Later
      <4>3. ExpiredOn(Later(mark', key.issued))
        BY <1>1, <4>1, <4>2 DEF ExpiredOn
      <4> QED BY <2>4, <4>1, <4>3 DEF ExpiryIsMarked, ExpiredOn
    <3>2. CASE ~lapsed
      <4>1. lapsed' => key # NoKey /\ ExpiredOn(Judged(clock, mark'))
        BY <1>1, <1>5, <3>2 DEF LicenceUpkeep
      <4> QED BY <2>2, <2>4, <4>1 DEF ExpiryIsMarked, ExpiredOn
    <3> QED BY <3>1, <3>2
  <2> QED BY <1>1, <1>2, <2>1, <2>4, <2>5, LicenceKeeps
<1>6. CASE Hire \/ Leave \/ DayBegins \/ SetClockBack
  <2>1. /\ clock' \in 0 .. LastLicenceDay /\ staff' \in 0 .. MostEmployees
        /\ UNCHANGED <<mark, over, key, lapsed>>
    BY <1>1, <1>6 DEF Hire, Leave, DayBegins, SetClockBack
  <2>2. ExpiryIsMarked'
    BY <1>1, <2>1 DEF ExpiryIsMarked, ExpiredOn
  <2> QED BY <1>1, <1>2, <2>1, <2>2, LicenceKeeps
<1> QED BY <1>3, <1>4, <1>5, <1>6

(* The host's side: the licence stays.                                     *)
LEMMA HostFacts ==
  ASSUME PluginInv
  PROVE  /\ setting \in [on : BOOLEAN, filled : BOOLEAN] /\ installed \in BOOLEAN
         /\ received \subseteq Events
         /\ queue \in [Events -> Delivery] /\ batch \in Batch
         /\ BatchIsSound /\ Honest(queue, received)
BY DEF PluginInv, PluginTypeOK

LEMMA HostKeeps ==
  ASSUME PluginInv, UNCHANGED licenceVars,
         setting' \in [on : BOOLEAN, filled : BOOLEAN], installed' \in BOOLEAN,
         received' \subseteq Events, queue' \in [Events -> Delivery], batch' \in Batch,
         BatchIsSound', Honest(queue', received')
  PROVE  PluginInv'
<1>1. PluginTypeOK'
  BY DEF PluginInv, PluginTypeOK, licenceVars, Delivery
<1>2. ExpiryIsMarked'
  BY DEF PluginInv, ExpiryIsMarked, ExpiredOn, licenceVars
<1> QED BY <1>1, <1>2 DEF PluginInv, Honest

LEMMA SettingStep ==
  ASSUME PluginInv,
         (\E filled \in BOOLEAN : SaveSettings(filled)) \/ Enable \/ Disable
  PROVE  PluginInv'
<1>1. /\ UNCHANGED licenceVars /\ UNCHANGED <<installed, queue, batch, received>>
      /\ setting' \in [on : BOOLEAN, filled : BOOLEAN]
  BY HostFacts DEF SaveSettings, Enable, Disable
<1>2. BatchIsSound' /\ Honest(queue', received')
  BY <1>1, HostFacts DEF BatchIsSound
<1> QED BY <1>1, <1>2, HostFacts, HostKeeps

(* No batch, as after a crash or a restart.                                *)
LEMMA IdleStep ==
  ASSUME PluginInv,
         Restart \/ EndBatch \/ \E e \in Events : CrashInDelivery(e)
  PROVE  PluginInv'
<1>1. /\ UNCHANGED licenceVars /\ UNCHANGED <<setting, queue>>
      /\ installed' \in BOOLEAN /\ received \subseteq received' /\ received' \subseteq Events
      /\ batch' = Idle
  BY HostFacts DEF Restart, EndBatch, CrashInDelivery
<1>2. Idle \in Batch
  BY DEF Idle, Batch
<1>3. BatchIsSound' /\ Honest(queue', received')
  BY <1>1, HostFacts DEF BatchIsSound, Idle, Honest
<1> QED BY <1>1, <1>2, <1>3, HostFacts, HostKeeps

(* One row of the queue is written, of an event no batch has in hand.      *)
LEMMA RowStep ==
  ASSUME PluginInv, NEW e \in Events, Publish(e) \/ RetryDelivery(e) \/ BackoffPasses(e)
  PROVE  PluginInv'
<1>1. UNCHANGED licenceVars /\ UNCHANGED <<installed, setting, batch, received>>
  BY DEF Publish, RetryDelivery, BackoffPasses
<1>2. queue[e] \in Delivery
  BY HostFacts
<1>3. PICK new \in Delivery :
        /\ queue' = [queue EXCEPT ![e] = new] /\ new.status = "queued"
        /\ e \in batch.picked \cup batch.handling => new.attempts = queue[e].attempts
  <2>1. CASE Publish(e) \/ RetryDelivery(e)
    <3>1. queue' = [queue EXCEPT ![e] = [status |-> "queued", attempts |-> 0, due |-> TRUE]]
          /\ queue[e].status # "queued"
      BY <2>1 DEF Publish, RetryDelivery
    <3>2. [status |-> "queued", attempts |-> 0, due |-> TRUE] \in Delivery
      BY DEF Delivery
    <3> QED BY <3>1, <3>2, HostFacts DEF BatchIsSound
  <2>2. CASE BackoffPasses(e)
    <3>1. queue' = [queue EXCEPT ![e] = [queue[e] EXCEPT !.due = TRUE]] /\ queue[e].status = "queued"
      BY <2>2, HostFacts DEF BackoffPasses
    <3>2. /\ [queue[e] EXCEPT !.due = TRUE] \in Delivery
          /\ [queue[e] EXCEPT !.due = TRUE].status = queue[e].status
          /\ [queue[e] EXCEPT !.due = TRUE].attempts = queue[e].attempts
      BY <1>2 DEF Delivery
    <3> QED BY <3>1, <3>2
  <2> QED BY <2>1, <2>2
<1>4. queue' \in [Events -> Delivery] /\ \A x \in Events : queue'[x] = IF x = e THEN new ELSE queue[x]
  BY <1>3, HostFacts
<1>5. Honest(queue', received')
  BY <1>1, <1>3, <1>4, HostFacts DEF Honest
<1>6. BatchIsSound'
  <2>1. batch.picked \subseteq Events /\ batch.handling \subseteq Events
    BY HostFacts DEF Batch
  <2>2. \A x \in batch.picked \cup batch.handling :
          queue'[x].status = "queued" /\ queue'[x].attempts = queue[x].attempts
    BY <1>3, <1>4, <2>1, HostFacts DEF BatchIsSound
  <2> QED BY <1>1, <2>2, HostFacts DEF BatchIsSound
<1> QED BY <1>1, <1>4, <1>5, <1>6, HostFacts, HostKeeps

LEMMA PickStep == PluginInv /\ Pick => PluginInv'
<1> SUFFICES ASSUME PluginInv, Pick PROVE PluginInv'
  OBVIOUS
<1>1. /\ UNCHANGED licenceVars /\ UNCHANGED <<installed, setting, queue, received>>
      /\ batch' = [Idle EXCEPT !.picked = Due, !.open = TRUE, !.view = Runs]
  BY DEF Pick
<1>2. Due \subseteq Events /\ \A e \in Due : queue[e].status = "queued"
  BY DEF Due
<1>3. Runs \in BOOLEAN
  BY HostFacts DEF Runs
<1>4. batch' = [picked |-> Due, open |-> TRUE, view |-> Runs, on |-> "unread", handling |-> {}]
  BY <1>1 DEF Idle
<1>5. batch' \in Batch /\ BatchIsSound'
  <2>1. batch' \in Batch
    BY <1>2, <1>3, <1>4 DEF Batch
  <2>2. batch'.picked = Due /\ batch'.handling = {}
    BY <1>4
  <2>3. BatchIsSound'
    BY <1>1, <1>2, <2>2 DEF BatchIsSound
  <2> QED BY <2>1, <2>3
<1> QED BY <1>1, <1>5, HostFacts, HostKeeps

LEMMA ReadFacts ==
  ASSUME PluginInv
  PROVE  /\ ReadBatch \in Batch /\ ReadBatch.on = IF On THEN "on" ELSE "off"
         /\ ReadBatch.picked = batch.picked /\ ReadBatch.handling = batch.handling
BY HostFacts DEF ReadBatch, Batch

LEMMA SkipStep ==
  ASSUME PluginInv, NEW e \in Events, Skip(e)
  PROVE  PluginInv'
<1>1. /\ UNCHANGED licenceVars /\ UNCHANGED <<installed, setting, received>>
      /\ batch.handling = {} /\ e \in batch.picked
      /\ queue' = [queue EXCEPT ![e] = [queue[e] EXCEPT !.status = "skipped"]]
      /\ batch' = [ReadBatch EXCEPT !.picked = batch.picked \ {e}]
  BY ReadFacts, HostFacts DEF Skip
<1>2. /\ [queue[e] EXCEPT !.status = "skipped"] \in Delivery
      /\ [queue[e] EXCEPT !.status = "skipped"].status = "skipped"
  <2>1. queue[e] \in Delivery
    BY HostFacts
  <2> QED BY <2>1 DEF Delivery
<1>3. /\ queue' \in [Events -> Delivery]
      /\ \A x \in Events : x # e => queue'[x] = queue[x]
      /\ queue'[e].status = "skipped"
  BY <1>1, <1>2, HostFacts
<1>4. batch' \in Batch /\ batch'.picked = batch.picked \ {e} /\ batch'.handling = {}
  BY <1>1, ReadFacts, HostFacts DEF Batch
<1>5. Honest(queue', received')
  BY <1>1, <1>3, HostFacts DEF Honest
<1>6. BatchIsSound'
  BY <1>3, <1>4, HostFacts DEF BatchIsSound, Batch
<1> QED BY <1>1, <1>3, <1>4, <1>5, <1>6, HostFacts, HostKeeps

LEMMA AttemptStep ==
  ASSUME PluginInv, NEW e \in Events, Attempt(e)
  PROVE  PluginInv'
<1> DEFINE new == [queue[e] EXCEPT !.attempts = queue[e].attempts + 1, !.due = FALSE]
<1>1. /\ UNCHANGED licenceVars /\ UNCHANGED <<installed, setting, received>>
      /\ batch.handling = {} /\ e \in batch.picked /\ On
      /\ queue' = [queue EXCEPT ![e] = new]
      /\ batch' = [ReadBatch EXCEPT !.picked = batch.picked \ {e}, !.handling = {e}]
  BY ReadFacts, HostFacts DEF Attempt
<1>2. new \in Delivery /\ new.status = queue[e].status /\ new.attempts = queue[e].attempts + 1
      /\ queue[e].attempts \in Nat
  <2>1. queue[e] \in Delivery
    BY HostFacts
  <2>2. PICK n \in Nat : n = queue[e].attempts + 1
    BY <2>1 DEF Delivery
  <2>3. /\ [queue[e] EXCEPT !.attempts = n, !.due = FALSE] \in Delivery
        /\ [queue[e] EXCEPT !.attempts = n, !.due = FALSE].status = queue[e].status
        /\ [queue[e] EXCEPT !.attempts = n, !.due = FALSE].attempts = n
    BY <2>1 DEF Delivery
  <2>4. queue[e].attempts \in Nat
    BY <2>1 DEF Delivery
  <2> QED BY <2>2, <2>3, <2>4
<1> HIDE DEF new
<1>3. queue' \in [Events -> Delivery] /\ \A x \in Events : queue'[x] = IF x = e THEN new ELSE queue[x]
  BY <1>1, <1>2, HostFacts
<1>4. /\ batch' \in Batch /\ batch'.picked = batch.picked \ {e} /\ batch'.handling = {e}
      /\ batch'.on = "on"
  BY <1>1, ReadFacts, HostFacts DEF Batch
<1>5. Honest(queue', received')
  <2>1. queue[e].status = "queued"
    BY <1>1, HostFacts DEF BatchIsSound
  <2> QED BY <1>1, <1>2, <1>3, <2>1, HostFacts DEF Honest
<1>6. BatchIsSound'
  <2>1. \A x \in batch.picked : x \in Events /\ queue'[x].status = "queued"
    BY <1>2, <1>3, HostFacts DEF BatchIsSound, Batch
  <2>2. queue'[e].attempts > 0
    BY <1>2, <1>3
  <2> QED BY <1>1, <1>4, <2>1, <2>2 DEF BatchIsSound
<1> QED BY <1>1, <1>3, <1>4, <1>5, <1>6, HostFacts, HostKeeps

LEMMA HandleStep ==
  ASSUME PluginInv, NEW e \in Events, Handle(e)
  PROVE  PluginInv'
<1>1. /\ UNCHANGED licenceVars /\ UNCHANGED <<installed, setting>>
      /\ e \in batch.handling /\ batch' = [batch EXCEPT !.handling = {}]
  BY DEF Handle
<1>2. PICK ok \in BOOLEAN :
        /\ queue' = Settled(e, ok) /\ received \subseteq received' /\ received' \subseteq Events
        /\ ok => e \in received'
  BY HostFacts DEF Handle
<1>3. queue[e] \in Delivery /\ queue[e].status = "queued"
  BY <1>1, HostFacts DEF BatchIsSound
<1>4. PICK new \in Delivery :
        /\ queue' = [queue EXCEPT ![e] = new] /\ new.attempts = queue[e].attempts
        /\ new.status = IF ok THEN "sent" ELSE IF queue[e].attempts >= MaxAttempts THEN "failed" ELSE "queued"
  <2> DEFINE outcome == IF ok THEN "sent" ELSE IF queue[e].attempts >= MaxAttempts THEN "failed" ELSE "queued"
  <2>1. queue' = [queue EXCEPT ![e] = [queue[e] EXCEPT !.status = outcome]]
    BY <1>2, <1>3, HostFacts DEF Settled
  <2>2. outcome \in {"none", "queued", "sent", "failed", "skipped"}
    OBVIOUS
  <2>3. outcome = IF ok THEN "sent" ELSE IF queue[e].attempts >= MaxAttempts THEN "failed" ELSE "queued"
    OBVIOUS
  <2> HIDE DEF outcome
  <2>4. /\ [queue[e] EXCEPT !.status = outcome] \in Delivery
        /\ [queue[e] EXCEPT !.status = outcome].attempts = queue[e].attempts
        /\ [queue[e] EXCEPT !.status = outcome].status = outcome
    BY <1>3, <2>2 DEF Delivery
  <2> QED BY <2>1, <2>3, <2>4
<1>5. queue' \in [Events -> Delivery] /\ \A x \in Events : queue'[x] = IF x = e THEN new ELSE queue[x]
  BY <1>4, HostFacts
<1>6. batch' \in Batch /\ batch'.picked = batch.picked /\ batch'.handling = {}
  BY <1>1, HostFacts DEF Batch
<1>7. Honest(queue', received')
  BY <1>2, <1>4, <1>5, HostFacts DEF Honest
<1>8. BatchIsSound'
  <2>1. \A x \in batch.picked : x \in Events /\ x # e /\ queue[x].status = "queued"
    BY <1>1, HostFacts DEF BatchIsSound, Batch
  <2> QED BY <1>5, <1>6, <2>1 DEF BatchIsSound
<1> QED BY <1>1, <1>2, <1>5, <1>6, <1>7, <1>8, HostFacts, HostKeeps

LEMMA PluginStep == PluginInv /\ [PluginNext]_pluginVars => PluginInv'
<1> SUFFICES ASSUME PluginInv, [PluginNext]_pluginVars PROVE PluginInv'
  OBVIOUS
<1>1. CASE UNCHANGED pluginVars
  BY <1>1, HostKeeps, HostFacts DEF pluginVars, licenceVars, BatchIsSound
<1>2. CASE PluginNext
  BY <1>2, LicenceStep, SettingStep, IdleStep, RowStep, PickStep, SkipStep, AttemptStep, HandleStep
     DEF PluginNext, Delivering
<1> QED BY <1>1, <1>2

LEMMA ExpiryMeans == PluginInv => ExpiryStands
<1> SUFFICES ASSUME PluginInv, lapsed, Runs PROVE FALSE
  BY DEF ExpiryStands
<1>1. /\ clock \in Nat /\ mark \in Nat /\ key \in Keys /\ key # NoKey
      /\ key.issued \in Nat /\ key.expires \in Nat /\ Grace \in Nat
      /\ ExpiredOn(Later(mark, key.issued)) /\ ~ExpiredOn(Today)
  BY PluginAssumption DEF PluginInv, PluginTypeOK, ExpiryIsMarked, Runs
<1>2. /\ Today >= Later(mark, key.issued) /\ Today \in Nat /\ Later(mark, key.issued) \in Nat
  BY <1>1 DEF Today, Judged, Later
<1> QED BY <1>1, <1>2 DEF ExpiredOn

(* Nothing reaches a receiver but through a handler whose batch found the  *)
(* plugin on, and which opened the secrets itself.                         *)
LEMMA DeliveredUnderLicence ==
  ASSUME PluginInv, [PluginNext]_pluginVars, received' # received
  PROVE  Runs /\ batch.on = "on"
<1>1. PICK e \in Events : Handle(e) \/ CrashInDelivery(e)
  BY DEF PluginNext, Delivering, pluginVars, hostVars, ApplyKey, RemoveKey, LicenceUpkeep, Hire, Leave,
     DayBegins, SetClockBack, SaveSettings, Enable, Disable, Restart, Publish, BackoffPasses,
     RetryDelivery, Pick, EndBatch, Skip, Attempt
<1>2. e \in batch.handling /\ MayOpen
  BY <1>1 DEF Handle, CrashInDelivery
<1> QED BY <1>2, HostFacts DEF MayOpen, BatchIsSound

(* A plugin's events are delivered under its licence, at least once, and   *)
(* the records of both tell the truth, whatever is switched, crashes or    *)
(* is set back meanwhile.                                                  *)
THEOREM LicenceTheorem == PluginSpec => PluginsKeepTheLicence
<1>1. PluginInv => PluginTypeOK /\ ExpiryStands /\ DeliveriesAreHonest
  BY ExpiryMeans DEF PluginInv, DeliveriesAreHonest, Honest, BatchIsSound
<1>2. PluginInv /\ [PluginNext]_pluginVars => [received' # received => Runs /\ batch.on = "on"]_pluginVars
  BY DeliveredUnderLicence
<1> QED BY <1>1, <1>2, PluginInitInv, PluginStep, PTL
        DEF PluginSpec, PluginsKeepTheLicence, ReceivedUnderLicence

-----------------------------------------------------------------------------
(* Reports.                                                                *)
LEMMA LeastOf ==
  ASSUME NEW T, T \subseteq Nat, T # {}
  PROVE  Min(T) \in T /\ \A q \in T : Min(T) <= q
<1>1. \E x \in T : \A q \in T : x <= q
  BY LeastExists
<1> QED BY <1>1 DEF Min

(* Every item of every list is in the one they are joined to.              *)
LEMMA Flattened ==
  ASSUME NEW X, NEW ss \in Seq(Seq(X))
  PROVE  /\ FlattenSeq(ss) \in Seq(X)
         /\ \A i \in DOMAIN ss : \A k \in DOMAIN ss[i] : \E n \in DOMAIN FlattenSeq(ss) : FlattenSeq(ss)[n] = ss[i][k]
<1> DEFINE N == Len(ss)
           body(h) == [i \in 1 .. N |-> IF i = 1 THEN ss[i] ELSE h[i - 1] \o ss[i]]
           flat == CHOOSE h : h = body(h)
           F == [z \in (1 .. N) \X Seq(X) |-> z[2] \o ss[z[1]]]
<1>1. N \in Nat /\ DOMAIN ss = 1 .. N /\ \A i \in 1 .. N : ss[i] \in Seq(X)
  OBVIOUS
<1>2. CASE N = 0
  BY <1>1, <1>2 DEF FlattenSeq
<1>3. CASE N # 0
  <2>1. FlattenSeq(ss) = flat[N]
    BY <1>3 DEF FlattenSeq
  <2>2. Stays(F, N, Seq(X))
    <3>1. ASSUME NEW n \in 1 .. N, NEW x \in Seq(X) PROVE F[<<n, x>>] \in Seq(X)
      <4>1. F[<<n, x>>] = x \o ss[n]
        BY <1>1
      <4> QED BY <1>1, <4>1
    <3> HIDE DEF F
    <3> QED BY <3>1 DEF Stays
  <2>3. <<>> \in Seq(X)
    OBVIOUS
  <2>4. PICK g \in [0 .. N -> Seq(X)] : g[0] = <<>> /\ \A n \in 1 .. N : g[n] = F[<<n, g[n - 1]>>]
    <3>1. N \in Nat
      BY <1>1
    <3> DEFINE S == Seq(X)
               a == <<>>
    <3>2. Stays(F, N, S) /\ a \in S
      BY <2>2, <2>3
    <3> HIDE DEF F, N, S, a
    <3>3. \E g \in [0 .. N -> S] : g[0] = a /\ \A n \in 1 .. N : g[n] = F[<<n, g[n - 1]>>]
      BY <3>1, <3>2, Rounds
    <3> QED BY <3>3 DEF S, a
  <2>5. \A n \in 1 .. N : g[n - 1] \in Seq(X) /\ g[n] \in Seq(X) /\ g[n] = g[n - 1] \o ss[n]
    <3> SUFFICES ASSUME NEW n \in 1 .. N
                 PROVE  g[n - 1] \in Seq(X) /\ g[n] \in Seq(X) /\ g[n] = g[n - 1] \o ss[n]
      OBVIOUS
    <3>1. n - 1 \in 0 .. N /\ n \in 0 .. N
      BY <1>1
    <3>2. <<n, g[n - 1]>> \in (1 .. N) \X Seq(X)
      BY <3>1
    <3> QED BY <2>4, <3>1, <3>2
  <2> DEFINE h0 == [i \in 1 .. N |-> g[i]]
  <2>6. h0 = body(h0)
    <3>1. ASSUME NEW i \in 1 .. N PROVE h0[i] = IF i = 1 THEN ss[i] ELSE h0[i - 1] \o ss[i]
      <4>1. CASE i = 1
        <5>3. 1 \in 1 .. N /\ 1 - 1 = 0 /\ g[0] = <<>>
          BY <2>4, <4>1
        <5>1. g[1] = <<>> \o ss[1]
          <6>1. g[1] = g[1 - 1] \o ss[1]
            <7> HIDE DEF N
            <7> QED BY <2>5, <5>3
          <6>2. g[1 - 1] = <<>>
            BY <5>3
          <6> QED BY <6>1, <6>2
        <5>2. <<>> \o ss[1] = ss[1]
          BY <1>1, <4>1
        <5> QED BY <4>1, <5>1, <5>2
      <4>2. CASE i # 1
        <5>1. i - 1 \in 1 .. N
          BY <1>1, <4>2
        <5> QED BY <2>5, <4>2, <5>1
      <4> QED BY <4>1, <4>2
    <3> HIDE DEF N
    <3> QED BY <3>1
  <2>7. flat = body(flat)
    BY <2>6
  <2> HIDE DEF flat
  <2>8. \A i \in 1 .. N : flat[i] = IF i = 1 THEN ss[i] ELSE flat[i - 1] \o ss[i]
    BY <2>7
  <2> DEFINE All(n) == /\ flat[n] \in Seq(X)
                       /\ \A i \in 1 .. n : \A k \in DOMAIN ss[i] : \E p \in DOMAIN flat[n] : flat[n][p] = ss[i][k]
             T == {n \in Nat : n + 1 \in 1 .. N => All(n + 1)}
  <2>9. 0 \in T
    <3>1. flat[1] = ss[1]
      BY <1>1, <1>3, <2>8
    <3>2. All(1)
      BY <1>1, <1>3, <3>1
    <3> QED BY <3>2
  <2>10. ASSUME NEW n \in Nat, n \in T PROVE n + 1 \in T
    <3> SUFFICES ASSUME (n + 1) + 1 \in 1 .. N PROVE All((n + 1) + 1)
      OBVIOUS
    <3> DEFINE m == n + 1
    <3>1. m \in 1 .. N /\ m + 1 \in 1 .. N /\ m \in Nat /\ m + 1 # 1 /\ (m + 1) - 1 = m
      BY <1>1
    <3>2. All(m)
      BY <2>10, <3>1
    <3> DEFINE a == flat[m]
               b == ss[m + 1]
    <3> HIDE DEF m
    <3>3. flat[m + 1] = a \o b
      BY <2>8, <3>1
    <3>4. a \in Seq(X) /\ b \in Seq(X)
      BY <1>1, <3>1, <3>2
    <3>5. (a \o b) \in Seq(X) /\ Len(a) \in Nat /\ Len(b) \in Nat
          /\ DOMAIN a = 1 .. Len(a) /\ DOMAIN b = 1 .. Len(b) /\ DOMAIN (a \o b) = 1 .. Len(a) + Len(b)
          /\ (\A p \in 1 .. Len(a) : (a \o b)[p] = a[p])
          /\ \A p \in 1 .. Len(b) : Len(a) + p \in 1 .. Len(a) + Len(b) /\ (a \o b)[Len(a) + p] = b[p]
      <4> HIDE DEF a, b
      <4>1. (a \o b) \in Seq(X) /\ Len(a \o b) = Len(a) + Len(b) /\ Len(a) \in Nat /\ Len(b) \in Nat
        BY <3>4
      <4>2. DOMAIN a = 1 .. Len(a) /\ DOMAIN b = 1 .. Len(b)
        BY <3>4
      <4> DEFINE w == a \o b
      <4>3. DOMAIN w = 1 .. Len(w)
        <5>1. w \in Seq(X)
          BY <4>1
        <5> HIDE DEF w
        <5> QED BY <5>1
      <4>4. \A p \in 1 .. Len(a) : (a \o b)[p] = a[p]
        BY <3>4
      <4>5. \A p \in 1 .. Len(b) : Len(a) + p \in 1 .. Len(a) + Len(b) /\ (a \o b)[Len(a) + p] = b[p]
        BY <3>4
      <4> QED BY <4>1, <4>2, <4>3, <4>4, <4>5
    <3>6. ASSUME NEW i \in 1 .. m + 1, NEW k \in DOMAIN ss[i]
          PROVE  \E p \in DOMAIN (a \o b) : (a \o b)[p] = ss[i][k]
      <4>1. CASE i = m + 1
        <5>1. k \in 1 .. Len(b)
          BY <3>5, <4>1
        <5>2. Len(a) + k \in DOMAIN (a \o b) /\ (a \o b)[Len(a) + k] = b[k]
          BY <3>5, <5>1
        <5> QED BY <4>1, <5>2
      <4>2. CASE i # m + 1
        <5>1. i \in 1 .. m
          BY <3>1, <4>2
        <5>2. PICK p \in DOMAIN a : a[p] = ss[i][k]
          BY <3>2, <5>1
        <5> HIDE DEF a, b
        <5>3. p \in 1 .. Len(a) /\ Len(a) \in Nat /\ Len(b) \in Nat
          BY <3>5
        <5>4. p \in 1 .. Len(a) + Len(b)
          BY <5>3
        <5> QED BY <3>5, <5>2, <5>3, <5>4
      <4> QED BY <4>1, <4>2
    <3> HIDE DEF a, b
    <3>7. All(m + 1)
      BY <3>3, <3>5, <3>6
    <3> QED BY <3>7 DEF m
  <2> HIDE DEF T
  <2>11. \A n \in Nat : n \in T
    BY <2>9, <2>10, Induction
  <2>12. All(N)
    <3>1. N - 1 \in Nat /\ (N - 1) + 1 = N /\ N \in 1 .. N
      BY <1>1, <1>3
    <3> HIDE DEF All, N
    <3> QED BY <2>11, <3>1 DEF T
  <2> HIDE DEF N
  <2> QED BY <1>1, <2>1, <2>12
<1> QED BY <1>2, <1>3

(* What the assumptions say of the report at hand.                         *)
LEMMA TheReport ==
  ASSUME ExportTypeOK
  PROVE  /\ report.columns \in Seq(Columns) /\ report.columns # <<>>
         /\ report.groups \in Seq(Columns)
         /\ report.totals \in Seq([func : Aggregates, column : Columns, key : Columns \cup Names])
         /\ report.sorts \in Seq([column : Columns \cup Names, desc : BOOLEAN])
BY ExportAssumption DEF ExportTypeOK, ReportOK

(* What a source, its matches and the joined rows are made of.             *)
LEMMA LoadedFacts ==
  ASSUME ExportTypeOK, NEW source \in Sources
  PROVE  Loaded(source) \in Seq(Rows)
<1> DEFINE s == data[source]
           I == {i \in DOMAIN s : Within(s[i], source)}
<1>1. s \in Seq(Rows) /\ I \subseteq DOMAIN s
  BY DEF ExportTypeOK
<1>2. Kept(s, I) \in Seq(Rows)
  <2> HIDE DEF s, I
  <2> QED BY <1>1, KeptItems
<1> QED BY <1>2 DEF Loaded

LEMMA UsedFacts ==
  ASSUME ExportTypeOK
  PROVE  /\ Used \in Seq(Sources) /\ Used # <<>> /\ Range(Used) \subseteq Sources
         /\ \A k \in DOMAIN report.columns : report.columns[k][1] \in Range(Used)
<1> DEFINE n == Len(report.columns)
           named == [k \in 1 .. n |-> report.columns[k][1]]
           I == {k \in 1 .. n : \A l \in 1 .. k - 1 : named[l] # named[k]}
<1>1. n \in Nat /\ 1 \in 1 .. n /\ DOMAIN report.columns = 1 .. n
  BY TheReport
<1>2. named \in Seq(Sources) /\ DOMAIN named = 1 .. n
  <2>1. \A k \in 1 .. n : report.columns[k][1] \in Sources
    BY <1>1, TheReport DEF Columns
  <2> HIDE DEF n
  <2> QED BY <1>1, <2>1
<1>3. Used = Kept(named, I)
  <2> HIDE DEF n
  <2> QED BY <1>1 DEF Used
<1>4. ASSUME NEW k \in 1 .. n PROVE \E i \in I : named[i] = named[k]
  <2> DEFINE T == {l \in 1 .. n : named[l] = named[k]}
  <2> HIDE DEF n, named
  <2>1. T # {} /\ T \subseteq Nat
    BY <1>1
  <2>2. PICK i \in T : \A q \in T : i <= q
    <3> HIDE DEF T
    <3> QED BY <2>1, LeastExists
  <2>3. ASSUME NEW l \in 1 .. i - 1, named[l] = named[i] PROVE FALSE
    <3>1. l \in 1 .. n /\ l < i /\ l \in Nat /\ i \in Nat
      BY <1>1, <2>2
    <3>2. l \in T
      BY <2>2, <2>3, <3>1
    <3>3. i <= l
      BY <2>2, <3>2
    <3> QED BY <3>1, <3>3
  <2> QED BY <2>2, <2>3
<1>5. /\ Kept(named, I) \in Seq(Sources)
      /\ \A i \in I : \E k \in DOMAIN Kept(named, I) : Kept(named, I)[k] = named[i]
  <2>1. I \subseteq DOMAIN named
    BY <1>2
  <2>2. named \in Seq(Sources)
    BY <1>2
  <2> HIDE DEF I, named
  <2>3. Kept(named, I) \in Seq(Sources)
    BY <2>1, <2>2, KeptItems
  <2>4. \A i \in I : \E k \in DOMAIN Kept(named, I) : Kept(named, I)[k] = named[i]
    BY <2>1, <2>2, KeptItems
  <2> QED BY <2>3, <2>4
<1>6. \A k \in DOMAIN report.columns : report.columns[k][1] \in Range(Used)
  <2> SUFFICES ASSUME NEW k \in DOMAIN report.columns PROVE report.columns[k][1] \in Range(Used)
    OBVIOUS
  <2>1. k \in 1 .. n /\ named[k] = report.columns[k][1]
    BY <1>1
  <2> HIDE DEF n, named, I
  <2>2. PICK i \in I : named[i] = named[k]
    BY <1>4, <2>1
  <2> QED BY <1>3, <1>5, <2>1, <2>2 DEF Range
<1> HIDE DEF n, named, I
<1>7. Used # <<>>
  BY <1>1, <1>6 DEF Range
<1>8. Range(Used) \subseteq Sources
  BY <1>3, <1>5 DEF Range
<1> QED BY <1>3, <1>5, <1>6, <1>7, <1>8

LEMMA LongestIsOne ==
  ASSUME ExportTypeOK, NEW keys \in Seq(Sources), keys # <<>>
  PROVE  Longest(keys) \in Range(keys)
<1> DEFINE D == DOMAIN keys
           f == [i \in D |-> Len(Loaded(keys[i]))]
           T == {i \in D : \A j \in D : Len(Loaded(keys[j])) <= Len(Loaded(keys[i]))}
<1>1. D = 1 .. Len(keys) /\ Len(keys) \in Nat /\ D # {} /\ D \subseteq Nat
  OBVIOUS
<1>2. IsFiniteSet(D)
  BY <1>1, FS_Interval
<1>3. \A i \in D : f[i] \in Int
  <2> SUFFICES ASSUME NEW i \in D PROVE f[i] \in Int
    OBVIOUS
  <2>1. Loaded(keys[i]) \in Seq(Rows)
    BY LoadedFacts
  <2> QED BY <2>1
<1>4. \E x \in D : \A y \in D : f[y] <= f[x]
  <2> HIDE DEF D, f
  <2> QED BY <1>1, <1>2, <1>3, MostExists
<1>5. T # {} /\ T \subseteq Nat
  BY <1>1, <1>4
<1>6. Min(T) \in T
  <2> HIDE DEF T
  <2> QED BY <1>5, LeastOf
<1>7. Longest(keys) = keys[Min(T)]
  BY DEF Longest
<1> HIDE DEF T
<1>8. Min(T) \in D
  BY <1>6 DEF T
<1> QED BY <1>7, <1>8 DEF Range

LEMMA PrimaryIsUsed ==
  ASSUME ExportTypeOK
  PROVE  Primary \in Range(Used)
<1> DEFINE I == {i \in DOMAIN Used : Used[i] \in Dated}
           dated == Kept(Used, I)
<1>1. Used \in Seq(Sources) /\ Used # <<>>
  BY UsedFacts
<1>2. /\ dated \in Seq(Sources)
      /\ \A k \in DOMAIN dated : \E i \in I : dated[k] = Used[i]
  <2>1. I \subseteq DOMAIN Used
    OBVIOUS
  <2> HIDE DEF I
  <2> QED BY <1>1, <2>1, KeptItems
<1>3. Range(dated) \subseteq Range(Used)
  BY <1>2 DEF Range
<1> HIDE DEF dated
<1>4. dated # <<>> => Longest(dated) \in Range(dated)
  BY <1>2, LongestIsOne
<1>5. Longest(Used) \in Range(Used)
  BY <1>1, LongestIsOne
<1>6. Primary = IF dated # <<>> THEN Longest(dated)
                ELSE IF "employees" \in Range(Used) THEN "employees" ELSE Longest(Used)
  BY DEF Primary, dated
<1> QED BY <1>3, <1>4, <1>5, <1>6

LEMMA SecondariesFacts ==
  ASSUME ExportTypeOK
  PROVE  /\ Secondaries \in Seq(Sources)
         /\ Range(Secondaries) = Range(Used) \ {Primary}
<1> DEFINE I == {i \in DOMAIN Used : Used[i] # Primary}
           others == Kept(Used, I)
<1>1. Used \in Seq(Sources)
  BY UsedFacts
<1>2. /\ others \in Seq(Sources)
      /\ \A k \in DOMAIN others : \E i \in I : others[k] = Used[i]
      /\ \A i \in I : \E k \in DOMAIN others : others[k] = Used[i]
  <2>1. I \subseteq DOMAIN Used
    OBVIOUS
  <2> HIDE DEF I
  <2> QED BY <1>1, <2>1, KeptItems
<1>3. Secondaries = others
  BY DEF Secondaries
<1> HIDE DEF others
<1>4. Range(others) = Range(Used) \ {Primary}
  BY <1>2 DEF Range
<1> QED BY <1>2, <1>3, <1>4

LEMMA MatchesFacts ==
  ASSUME ExportTypeOK, NEW source \in Sources, NEW main
  PROVE  Matches(source, main) \in Seq(Rows)
<1> DEFINE s == Loaded(source)
           I == {i \in DOMAIN s : Fits(s[i], source, main)}
<1>1. s \in Seq(Rows) /\ I \subseteq DOMAIN s
  BY LoadedFacts
<1>2. Kept(s, I) \in Seq(Rows)
  <2> HIDE DEF s, I
  <2> QED BY <1>1, KeptItems
<1> QED BY <1>2 DEF Matches

LEMMA SeenFacts ==
  ASSUME ExportTypeOK
  PROVE  \A c \in Seen : c[1] \in Range(Used) /\ c[2] \in Fields
<1>1. \A k \in DOMAIN report.columns : report.columns[k] \in Columns /\ report.columns[k][1] \in Range(Used)
  BY TheReport, UsedFacts
<1>2. Used[1] \in Range(Used)
  BY UsedFacts DEF Range
<1>3. CASE report.multi
  BY <1>1, <1>3 DEF Seen, Range, Columns
<1>4. CASE ~report.multi
  BY <1>2, <1>4 DEF Seen
<1> QED BY <1>3, <1>4

LEMMA OfFacts ==
  ASSUME ExportTypeOK, NEW parts \in [Range(Used) -> Seq(Rows)]
  PROVE  Of(parts) \in [Seen -> CellValue]
<1>1. ASSUME NEW c \in Seen
      PROVE  (IF parts[c[1]] = <<>> THEN Blank ELSE Head(parts[c[1]])[c[2]]) \in CellValue
  <2>1. c[1] \in Range(Used) /\ c[2] \in Fields
    BY SeenFacts
  <2>2. parts[c[1]] \in Seq(Rows)
    BY <2>1
  <2>3. CASE parts[c[1]] = <<>>
    BY <2>3 DEF CellValue
  <2>4. CASE parts[c[1]] # <<>>
    <3>1. Head(parts[c[1]]) \in Rows
      BY <2>2, <2>4
    <3>2. Head(parts[c[1]]) \in [employee : Int, date : CellValue, cell : CellValue]
      BY <3>1, ExportAssumption
    <3>3. Head(parts[c[1]])[c[2]] \in CellValue
      BY <2>1, <3>2 DEF Fields, CellValue
    <3> QED BY <2>4, <3>3
  <2> QED BY <2>3, <2>4
<1> QED BY <1>1 DEF Of

(* The rows one row of the primary source becomes.                         *)
LEMMA FannedFacts ==
  ASSUME ExportTypeOK, NEW main \in Rows
  PROVE  /\ Fanned(main) \in Seq([Seen -> CellValue])
         /\ \A s \in Range(Secondaries) : Len(Secondaries) = 1 =>
              \A other \in Range(Matches(s, main)) : \E k \in DOMAIN Fanned(main) :
                \A c \in Seen : Fanned(main)[k][c] = IF c[1] = s THEN other[c[2]] ELSE main[c[2]]
<1> DEFINE several == {i \in DOMAIN Secondaries : Len(Matches(Secondaries[i], main)) > 1}
           parts == [s \in Range(Used) |-> IF s = Primary THEN <<main>> ELSE Matches(s, main)]
           fan == Secondaries[Min(several)]
           table == Matches(fan, main)
           one(k) == [parts EXCEPT ![fan] = <<table[k]>>]
<1>1. Fanned(main) = IF several = {} THEN <<Of(parts)>> ELSE [k \in DOMAIN table |-> Of(one(k))]
  BY DEF Fanned
<1>2. parts \in [Range(Used) -> Seq(Rows)]
  <2>1. \A s \in Range(Used) : Matches(s, main) \in Seq(Rows)
    BY UsedFacts, MatchesFacts
  <2> QED BY <2>1
<1>3. several # {} => Min(several) \in several
  <2>1. several \subseteq Nat
    BY SecondariesFacts
  <2> HIDE DEF several
  <2> QED BY <2>1, LeastOf
<1>4. several # {} => fan \in Range(Secondaries) /\ fan \in Range(Used) /\ fan # Primary /\ table \in Seq(Rows)
  <2> SUFFICES ASSUME several # {}
               PROVE  fan \in Range(Secondaries) /\ fan \in Range(Used) /\ fan # Primary /\ table \in Seq(Rows)
    OBVIOUS
  <2>1. Min(several) \in DOMAIN Secondaries
    BY <1>3
  <2> HIDE DEF several
  <2>2. fan \in Range(Secondaries)
    BY <2>1 DEF Range
  <2>3. fan \in Sources /\ fan \in Range(Used) /\ fan # Primary
    BY <2>2, SecondariesFacts, UsedFacts
  <2> HIDE DEF fan
  <2> QED BY <2>2, <2>3, MatchesFacts
<1>5. several # {} => \A k \in DOMAIN table : one(k) \in [Range(Used) -> Seq(Rows)]
  <2> HIDE DEF several, parts, fan, table
  <2> QED BY <1>2, <1>4
<1>6. Fanned(main) \in Seq([Seen -> CellValue])
  <2>1. CASE several = {}
    <3> HIDE DEF several, parts
    <3>1. Of(parts) \in [Seen -> CellValue]
      BY <1>2, OfFacts
    <3> QED BY <1>1, <2>1, <3>1
  <2>2. CASE several # {}
    <3> DEFINE made == [k \in DOMAIN table |-> Of(one(k))]
    <3>1. \A k \in DOMAIN table : Of(one(k)) \in [Seen -> CellValue]
      <4> SUFFICES ASSUME NEW k \in DOMAIN table PROVE Of(one(k)) \in [Seen -> CellValue]
        OBVIOUS
      <4>1. one(k) \in [Range(Used) -> Seq(Rows)]
        BY <1>5, <2>2
      <4> HIDE DEF one
      <4> QED BY <4>1, OfFacts
    <3>2. table \in Seq(Rows)
      BY <1>4, <2>2
    <3> HIDE DEF table, one
    <3>3. made \in Seq([Seen -> CellValue])
      BY <3>1, <3>2
    <3> QED BY <1>1, <2>2, <3>3
  <2> QED BY <2>1, <2>2
<1>7. ASSUME NEW s \in Range(Secondaries), Len(Secondaries) = 1, NEW other \in Range(Matches(s, main))
      PROVE  \E k \in DOMAIN Fanned(main) :
               \A c \in Seen : Fanned(main)[k][c] = IF c[1] = s THEN other[c[2]] ELSE main[c[2]]
  <2>1. Secondaries \in Seq(Sources) /\ DOMAIN Secondaries = {1} /\ s = Secondaries[1]
    BY <1>7, SecondariesFacts DEF Range
  <2>2. s \in Range(Used) /\ s # Primary /\ Range(Used) \ {Primary} = {s}
    BY <1>7, <2>1, SecondariesFacts DEF Range
  <2>3. \A c \in Seen : c[1] \in Range(Used) /\ (c[1] # s => c[1] = Primary)
    BY <2>2, SeenFacts
  <2>4. Matches(s, main) \in Seq(Rows)
    BY <2>2, UsedFacts, MatchesFacts
  <2>5. PICK n \in DOMAIN Matches(s, main) : other = Matches(s, main)[n]
    BY DEF Range
  <2>6. Primary \in Range(Used) /\ parts[Primary] = <<main>> /\ parts[s] = Matches(s, main)
    BY <2>2, PrimaryIsUsed
  <2>7. CASE several = {}
    <3>1. Len(Matches(s, main)) = 1
      BY <2>1, <2>4, <2>5, <2>7
    <3>2. n = 1 /\ Matches(s, main) # <<>> /\ Head(Matches(s, main)) = other
      <4> DEFINE M == Matches(s, main)
      <4>1. M \in Seq(Rows) /\ n \in DOMAIN M /\ other = M[n] /\ Len(M) = 1
        BY <2>4, <2>5, <3>1
      <4> HIDE DEF M
      <4>2. DOMAIN M = 1 .. 1
        BY <4>1
      <4>4. n = 1 /\ M # <<>>
        <5>1. n = 1
          BY <4>1, <4>2
        <5>2. M # <<>>
          <6>1. Len(<<>>) = 0
            OBVIOUS
          <6>2. Len(M) # 0
            BY <4>1
          <6> QED BY <6>1, <6>2, Zenon
        <5> QED BY <5>1, <5>2
      <4>5. Head(M) = M[1]
        BY <4>1, <4>4
      <4>3. n = 1 /\ M # <<>> /\ Head(M) = M[1]
        BY <4>4, <4>5
      <4> QED BY <4>1, <4>3 DEF M
    <3>3. Fanned(main) = <<Of(parts)>> /\ 1 \in DOMAIN <<Of(parts)>> /\ <<Of(parts)>>[1] = Of(parts)
      BY <1>1, <2>7
    <3>4. ASSUME NEW c \in Seen PROVE Of(parts)[c] = IF c[1] = s THEN other[c[2]] ELSE main[c[2]]
      <4>1. Of(parts)[c] = IF parts[c[1]] = <<>> THEN Blank ELSE Head(parts[c[1]])[c[2]]
        BY DEF Of
      <4> HIDE DEF parts
      <4>2. <<main>> # <<>> /\ Head(<<main>>) = main
        OBVIOUS
      <4> QED BY <2>2, <2>3, <2>6, <3>2, <4>1, <4>2
    <3> HIDE DEF parts
    <3> QED BY <3>3, <3>4
  <2>8. CASE several # {}
    <3>1. fan = s
      BY <1>3, <2>1, <2>8
    <3>2. table = Matches(s, main) /\ n \in DOMAIN table /\ table[n] = other
      BY <2>5, <3>1
    <3>3. one(n)[s] = <<other>> /\ one(n)[Primary] = <<main>>
      BY <2>2, <2>6, <3>1, <3>2
    <3>4. Fanned(main)[n] = Of(one(n)) /\ n \in DOMAIN Fanned(main)
      <4> HIDE DEF several, table, one
      <4> QED BY <1>1, <2>8, <3>2
    <3>5. ASSUME NEW c \in Seen PROVE Of(one(n))[c] = IF c[1] = s THEN other[c[2]] ELSE main[c[2]]
      <4>1. Of(one(n))[c] = IF one(n)[c[1]] = <<>> THEN Blank ELSE Head(one(n)[c[1]])[c[2]]
        BY DEF Of
      <4> HIDE DEF one
      <4>2. <<main>> # <<>> /\ Head(<<main>>) = main /\ <<other>> # <<>> /\ Head(<<other>>) = other
        OBVIOUS
      <4> QED BY <2>2, <2>3, <3>3, <4>1, <4>2
    <3> QED BY <3>4, <3>5
  <2> QED BY <2>7, <2>8
<1> QED BY <1>6, <1>7

LEMMA MergedFacts ==
  ASSUME ExportTypeOK
  PROVE  /\ Merged \in Seq([Seen -> CellValue])
         /\ \A i \in DOMAIN Loaded(Primary) : \A k \in DOMAIN Fanned(Loaded(Primary)[i]) :
              \E n \in DOMAIN Merged : Merged[n] = Fanned(Loaded(Primary)[i])[k]
<1> DEFINE mains == Loaded(Primary)
           ss == [i \in DOMAIN mains |-> Fanned(mains[i])]
           X == [Seen -> CellValue]
<1>1. mains \in Seq(Rows)
  BY PrimaryIsUsed, UsedFacts, LoadedFacts
<1>2. \A i \in DOMAIN mains : Fanned(mains[i]) \in Seq(X)
  <2> HIDE DEF mains
  <2> QED BY <1>1, FannedFacts
<1> HIDE DEF mains
<1>3. ss \in Seq(Seq(X)) /\ DOMAIN ss = DOMAIN mains /\ \A i \in DOMAIN mains : ss[i] = Fanned(mains[i])
  <2> HIDE DEF X
  <2> QED BY <1>1, <1>2
<1> HIDE DEF ss, X
<1>4. /\ FlattenSeq(ss) \in Seq(X)
      /\ \A i \in DOMAIN ss : \A k \in DOMAIN ss[i] : \E n \in DOMAIN FlattenSeq(ss) : FlattenSeq(ss)[n] = ss[i][k]
  BY <1>3, Flattened
<1>5. Merged = FlattenSeq(ss)
  BY DEF Merged, ss, mains
<1> QED BY <1>3, <1>4, <1>5 DEF X, mains

(* JoiningDropsNothing, of the report at hand.                             *)
LEMMA NothingIsDropped == ASSUME ExportTypeOK PROVE JoiningDropsNothing
<1> SUFFICES ASSUME NEW main \in Range(Loaded(Primary)), NEW s \in Range(Secondaries), Len(Secondaries) = 1,
                    NEW other \in Range(Matches(s, main))
             PROVE  \E row \in Range(Merged) :
                      \A c \in Seen : row[c] = IF c[1] = s THEN other[c[2]] ELSE main[c[2]]
  BY DEF JoiningDropsNothing
<1>1. PICK i \in DOMAIN Loaded(Primary) : main = Loaded(Primary)[i]
  BY DEF Range
<1>2. main \in Rows
  BY <1>1, PrimaryIsUsed, UsedFacts, LoadedFacts
<1>3. PICK k \in DOMAIN Fanned(main) :
        \A c \in Seen : Fanned(main)[k][c] = IF c[1] = s THEN other[c[2]] ELSE main[c[2]]
  BY <1>2, FannedFacts
<1>4. PICK n \in DOMAIN Merged : Merged[n] = Fanned(main)[k]
  BY <1>1, MergedFacts
<1>5. Merged[n] \in Range(Merged)
  BY DEF Range
<1> QED BY <1>3, <1>4, <1>5

LEMMA FilteredFacts ==
  ASSUME ExportTypeOK
  PROVE  Filtered \in Seq([Seen -> CellValue])
<1> DEFINE s == Merged
           I == {i \in DOMAIN s : Lets(s[i])}
           X == [Seen -> CellValue]
<1>1. s \in Seq(X) /\ I \subseteq DOMAIN s
  BY MergedFacts
<1>2. Kept(s, I) \in Seq(X)
  <2> HIDE DEF s, I, X
  <2> QED BY <1>1, KeptItems
<1> QED BY <1>2 DEF Filtered, Passed

LEMMA CellFacts ==
  ASSUME ExportTypeOK, NEW row \in [Seen -> CellValue], NEW column
  PROVE  Cell(row, column) \in CellValue
BY DEF Cell, CellValue

(* The numbers of a column are those of its cells that are not blank.      *)
Marks(table, column) == [i \in DOMAIN table |-> Cell(table[i], column)]

Filled(table, column) == {i \in DOMAIN table : Cell(table[i], column) # Blank}

LEMMA NumbersFacts ==
  ASSUME ExportTypeOK, NEW table \in Seq([Seen -> CellValue]), NEW column
  PROVE  /\ Numbers(table, column) \in Seq(Int)
         /\ IsFiniteSet(Filled(table, column)) /\ \A i \in Filled(table, column) : Marks(table, column)[i] \in Int
         /\ SumFunction(Numbers(table, column)) = SumFunctionOnSet(Marks(table, column), Filled(table, column))
<1> DEFINE numbers == Numbers(table, column)
           v == Marks(table, column)
           I == Filled(table, column)
<1>0. v = [i \in DOMAIN table |-> Cell(table[i], column)] /\ I = {i \in DOMAIN table : v[i] # Blank}
  BY DEF Marks, Filled
<1>1. v \in Seq(CellValue) /\ I \subseteq DOMAIN v /\ I = {i \in DOMAIN v : v[i] # Blank}
  <2>1. \A i \in DOMAIN table : Cell(table[i], column) \in CellValue
    <3> SUFFICES ASSUME NEW i \in DOMAIN table PROVE Cell(table[i], column) \in CellValue
      OBVIOUS
    <3>1. table[i] \in [Seen -> CellValue]
      OBVIOUS
    <3> QED BY <3>1, CellFacts
  <2>2. DOMAIN table = 1 .. Len(table) /\ Len(table) \in Nat
    OBVIOUS
  <2> HIDE DEF v, I
  <2>3. v = [i \in 1 .. Len(table) |-> v[i]] /\ \A i \in 1 .. Len(table) : v[i] \in CellValue
    BY <1>0, <2>1, <2>2
  <2>4. v \in Seq(CellValue) /\ DOMAIN v = DOMAIN table
    BY <2>2, <2>3
  <2> QED BY <1>0, <2>4
<1>2. numbers = Kept(v, I)
  BY <1>1 DEF Numbers, Marks
<1>3. \A i \in I : v[i] \in Int
  BY <1>1 DEF CellValue
<1> HIDE DEF v, I
<1>4. numbers \in Seq(Int)
  <2>1. /\ numbers \in Seq(CellValue)
        /\ \A k \in DOMAIN numbers : \E i \in I : numbers[k] = v[i]
    <3>1. v \in Seq(CellValue) /\ I \subseteq DOMAIN v
      BY <1>1
    <3>2. /\ Kept(v, I) \in Seq(CellValue)
          /\ \A k \in DOMAIN Kept(v, I) : \E i \in I : Kept(v, I)[k] = v[i]
      BY <3>1, KeptItems
    <3> HIDE DEF numbers
    <3> QED BY <1>2, <3>2
  <2>2. \A k \in DOMAIN numbers : numbers[k] \in Int
    BY <1>3, <2>1
  <2> HIDE DEF numbers
  <2> QED BY <2>1, <2>2
<1>5. PICK m \in Nat : \E g \in [1 .. m -> I] : Picks(Kept(v, I), v, I, m, g)
  BY <1>1, KeptPlaces
<1>6. PICK g \in [1 .. m -> I] : Picks(numbers, v, I, m, g)
  BY <1>2, <1>5
<1> HIDE DEF numbers
<1>11. I \subseteq Nat
  BY <1>1
<1>7. PicksAt(numbers, v, I, m, g)
  BY <1>6, <1>11 DEF PicksAt
<1>8. DOMAIN numbers = 1 .. m /\ \A x \in 1 .. m : numbers[x] = v[g[x]]
  BY <1>7, PickedFacts, SMTT(60)
<1>9. /\ IsFiniteSet(I)
      /\ SumFunctionOnSet(numbers, PickedIn(I, m, g)) = SumFunctionOnSet(v, I)
  <2>1. PickedValues(I, m, g, I, v, numbers)
    BY <1>3, <1>8 DEF PickedValues
  <2>2. IsFiniteSet(I)
    BY <1>7, PickedFacts
  <2>3. SumFunctionOnSet(numbers, PickedIn(I, m, g)) = SumFunctionOnSet(v, I)
    BY <1>7, <2>1, SumPicked
  <2> QED BY <2>2, <2>3
<1>10. PickedIn(I, m, g) = DOMAIN numbers
  BY <1>7, <1>8 DEF PickedIn, PicksAt
<1> QED BY <1>3, <1>4, <1>9, <1>10 DEF numbers, v, I, SumFunction

(* A total of rows is a number or blank.                                   *)
LEMMA TotalsAreCells ==
  ASSUME ExportTypeOK, NEW table \in Seq([Seen -> CellValue]), NEW total, total.func \in Aggregates
  PROVE  Aggregate(table, total) \in CellValue
<1> DEFINE numbers == Numbers(table, total.column)
           v == Marks(table, total.column)
           I == Filled(table, total.column)
           D == DOMAIN numbers
<1>1. numbers \in Seq(Int) /\ SumFunction(numbers) = SumFunctionOnSet(v, I)
      /\ IsFiniteSet(I) /\ \A i \in I : v[i] \in Int
  BY NumbersFacts
<1> HIDE DEF v, I, numbers
<1>2. SumFunction(numbers) \in Int
  <2>1. IsFiniteSet(I) /\ \A i \in I : v[i] \in Int
    BY <1>1
  <2>2. SumFunctionOnSet(v, I) \in Int
    BY <2>1, SumFirst
  <2> QED BY <1>1, <2>2
<1>3. D = 1 .. Len(numbers) /\ Len(numbers) \in Nat /\ IsFiniteSet(D) /\ \A x \in D : numbers[x] \in Int
  <2>1. D = 1 .. Len(numbers) /\ Len(numbers) \in Nat
    BY <1>1
  <2> QED BY <1>1, <2>1, FS_Interval
<1>4. Cardinality(Range(numbers)) \in Int
  <2>1. Range(numbers) = {numbers[x] : x \in D}
    BY DEF Range
  <2>2. IsFiniteSet({numbers[x] : x \in D})
    BY <1>3, FiniteImage
  <2> QED BY <2>1, <2>2, FS_CardinalityType
<1>5. numbers # <<>> => D # {}
  <2>1. Len(numbers) = 0 => numbers = <<>>
    BY <1>1
  <2>2. D = {} => Len(numbers) = 0
    BY <1>3
  <2> QED BY <2>1, <2>2
<1>6. numbers # <<>> => Head(numbers) \in Int
  BY <1>1
<1>7. numbers # <<>> => Max(Range(numbers)) \in Int
  <2> SUFFICES ASSUME numbers # <<>> PROVE Max(Range(numbers)) \in Int
    OBVIOUS
  <2>1. \E x \in D : \A y \in D : numbers[y] <= numbers[x]
    <3> HIDE DEF D
    <3> QED BY <1>3, <1>5, MostExists
  <2>2. \E x \in Range(numbers) : \A y \in Range(numbers) : x >= y
    BY <1>3, <2>1 DEF Range
  <2>3. Range(numbers) \subseteq Int
    BY <1>3 DEF Range
  <2> QED BY <2>2, <2>3 DEF Max
<1>8. numbers # <<>> => Min(Range(numbers)) \in Int
  <2> SUFFICES ASSUME numbers # <<>> PROVE Min(Range(numbers)) \in Int
    OBVIOUS
  <2> DEFINE f == [x \in D |-> 0 - numbers[x]]
  <2>1. \E x \in D : \A y \in D : f[y] <= f[x]
    <3>1. \A x \in D : f[x] \in Int
      BY <1>3
    <3> HIDE DEF D, f
    <3> QED BY <1>3, <1>5, <3>1, MostExists
  <2>2. PICK x \in D : \A y \in D : f[y] <= f[x]
    BY <2>1
  <2>3. \A y \in D : numbers[x] <= numbers[y]
    BY <1>3, <2>2
  <2>4. \E z \in Range(numbers) : \A y \in Range(numbers) : z <= y
    BY <2>3 DEF Range
  <2>5. Range(numbers) \subseteq Int
    BY <1>3 DEF Range
  <2> QED BY <2>4, <2>5 DEF Min
<1>9. Len(table) \in Int
  OBVIOUS
<1>10. Aggregate(table, total) \in Int \cup {Blank}
  BY <1>2, <1>4, <1>6, <1>7, <1>8, <1>9 DEF Aggregate, Aggregates, numbers
<1> QED BY <1>10 DEF CellValue

(* The groups are as many as there are keys, each key once.                *)
KeysOnce(keys, m, table) ==
  /\ m \in Nat /\ DOMAIN keys = 1 .. m
  /\ \A a, b \in 1 .. m : keys[a] = keys[b] => a = b
  /\ \A k \in 1 .. m : \E i \in DOMAIN table : keys[k] = Key(table[i])
  /\ \A i \in DOMAIN table : \E k \in 1 .. m : keys[k] = Key(table[i])

LEMMA GroupKeysFacts ==
  ASSUME NEW X, NEW table \in Seq(X)
  PROVE  \E m \in Nat : KeysOnce(GroupKeys(table), m, table)
<1> DEFINE I == {i \in DOMAIN table : \A j \in 1 .. i - 1 : Key(table[j]) # Key(table[i])}
           firsts == Kept(table, I)
           keys == GroupKeys(table)
<1>1. keys = [k \in DOMAIN firsts |-> Key(firsts[k])]
  BY DEF GroupKeys
<1>2. I \subseteq DOMAIN table /\ I \subseteq Nat /\ DOMAIN table \subseteq Nat
  OBVIOUS
<1>3. PICK m \in Nat : \E g \in [1 .. m -> I] : Picks(firsts, table, I, m, g)
  <2> HIDE DEF I
  <2> QED BY <1>2, KeptPlaces
<1>4. PICK g \in [1 .. m -> I] : Picks(firsts, table, I, m, g)
  BY <1>3
<1>5. /\ DOMAIN firsts = 1 .. m /\ \A k \in 1 .. m : firsts[k] = table[g[k]]
      /\ \A a, b \in 1 .. m : g[a] = g[b] => a = b
      /\ \A i \in I : \E k \in 1 .. m : g[k] = i
  <2> HIDE DEF I, firsts
  <2>1. PicksAt(firsts, table, I, m, g)
    BY <1>2, <1>4 DEF PicksAt
  <2>2. \A a, b \in 1 .. m : g[a] = g[b] => a = b
    BY <2>1, PickedFacts
  <2>3. \A i \in I : \E k \in 1 .. m : g[k] = i
    BY <2>1, PickedFacts
  <2>4. firsts = [k \in 1 .. m |-> table[g[k]]]
    BY <2>1, Zenon DEF PicksAt, Picks
  <2>5. DOMAIN firsts = 1 .. m /\ \A k \in 1 .. m : firsts[k] = table[g[k]]
    BY <2>4, Zenon
  <2> QED BY <2>2, <2>3, <2>5
<1> HIDE DEF firsts, keys
<1>6. \A k \in 1 .. m : keys[k] = Key(table[g[k]]) /\ g[k] \in I
  BY <1>1, <1>5
<1>7. ASSUME NEW a \in 1 .. m, NEW b \in 1 .. m, keys[a] = keys[b] PROVE a = b
  <2> DEFINE x == g[a]
             y == g[b]
  <2>1. x \in I /\ y \in I /\ Key(table[x]) = Key(table[y])
    BY <1>6, <1>7
  <2>2. x \in Nat /\ y \in Nat /\ x >= 1 /\ y >= 1
    BY <2>1
  <2>3. ~(x < y)
    <3> SUFFICES ASSUME x < y PROVE FALSE
      OBVIOUS
    <3>1. x \in 1 .. y - 1
      BY <2>2
    <3>2. \A j \in 1 .. y - 1 : Key(table[j]) # Key(table[y])
      BY <2>1
    <3> HIDE DEF x, y
    <3> QED BY <2>1, <3>1, <3>2
  <2>4. ~(y < x)
    <3> SUFFICES ASSUME y < x PROVE FALSE
      OBVIOUS
    <3>1. y \in 1 .. x - 1
      BY <2>2
    <3>2. \A j \in 1 .. x - 1 : Key(table[j]) # Key(table[x])
      BY <2>1
    <3> HIDE DEF x, y
    <3> QED BY <2>1, <3>1, <3>2
  <2>5. x = y
    <3> HIDE DEF x, y
    <3> QED BY <2>2, <2>3, <2>4
  <2> QED BY <1>5, <2>5
<1>8. ASSUME NEW k \in 1 .. m PROVE \E i \in DOMAIN table : keys[k] = Key(table[i])
  <2>1. g[k] \in DOMAIN table /\ keys[k] = Key(table[g[k]])
    BY <1>6
  <2> QED BY <2>1
<1>9. ASSUME NEW i \in DOMAIN table PROVE \E k \in 1 .. m : keys[k] = Key(table[i])
  <2> DEFINE T == {j \in DOMAIN table : Key(table[j]) = Key(table[i])}
  <2>1. T # {} /\ T \subseteq Nat
    OBVIOUS
  <2>2. PICK j \in T : \A q \in T : j <= q
    <3> HIDE DEF T
    <3> QED BY <2>1, LeastExists
  <2>3. j \in I
    <3>1. j \in DOMAIN table /\ Key(table[j]) = Key(table[i]) /\ DOMAIN table = 1 .. Len(table) /\ Len(table) \in Nat
      BY <2>2
    <3>2. ASSUME NEW q \in 1 .. j - 1, Key(table[q]) = Key(table[j]) PROVE FALSE
      <4>1. q \in DOMAIN table /\ q < j
        BY <3>1
      <4>2. q \in T /\ j \in Nat /\ q \in Nat
        BY <3>1, <3>2, <4>1
      <4>3. j <= q
        BY <2>2, <4>2
      <4> QED BY <4>1, <4>2, <4>3
    <3> QED BY <3>1, <3>2
  <2>4. PICK k \in 1 .. m : g[k] = j
    BY <1>5, <2>3
  <2>5. keys[k] = Key(table[j]) /\ Key(table[j]) = Key(table[i])
    BY <1>6, <2>2, <2>4
  <2> QED BY <2>5
<1>10. DOMAIN keys = 1 .. m
  BY <1>1, <1>5
<1>11. KeysOnce(keys, m, table)
  BY <1>7, <1>8, <1>9, <1>10 DEF KeysOnce
<1> QED BY <1>11 DEF keys

Members(tag, table) == {i \in DOMAIN table : Key(table[i]) = tag}

(* A group has the totals of its members, but those that are lost, and is  *)
(* told by its key, unless a total took the name of one of its columns.    *)
OwnNames == \A t \in Range(report.totals) : t.key \notin Range(report.groups)

LEMMA GroupOfFacts ==
  ASSUME ExportTypeOK, NEW table \in Seq([Seen -> CellValue]), NEW j \in DOMAIN table,
         NEW tag, tag = Key(table[j])
  PROVE  /\ OwnNames => Key(GroupOf(tag, table)) = tag
         /\ \A n \in DOMAIN report.totals : ~Lost(n) =>
              GroupOf(tag, table)[report.totals[n].key]
              = Aggregate(Kept(table, Members(tag, table)), report.totals[n])
         /\ \A column : Cell(GroupOf(tag, table), column) \in CellValue
<1> DEFINE group == GroupOf(tag, table)
           members == Kept(table, Members(tag, table))
           total == report.totals
           named(c) == {i \in DOMAIN total : total[i].key = c}
           value(c) == IF named(c) # {} THEN Aggregate(members, total[Max(named(c))])
                       ELSE tag[CHOOSE i \in DOMAIN report.groups : report.groups[i] = c]
           names == {t.key : t \in Range(total)} \cup Range(report.groups)
<1>1. group = [c \in names |-> value(c)]
  BY DEF GroupOf, Members
<1>2. members \in Seq([Seen -> CellValue])
  <2>1. Members(tag, table) \subseteq DOMAIN table
    BY DEF Members
  <2> QED BY <2>1, KeptItems
<1>3. /\ DOMAIN total = 1 .. Len(total) /\ Len(total) \in Nat
      /\ \A n \in DOMAIN total : total[n].func \in Aggregates
  <2> DEFINE X == [func : Aggregates, column : Columns, key : Columns \cup Names]
  <2>1. total \in Seq(X)
    BY TheReport
  <2>2. \A t \in X : t.func \in Aggregates
    OBVIOUS
  <2> HIDE DEF X, total
  <2> QED BY <2>1, <2>2
<1>4. ASSUME NEW c, named(c) # {}
      PROVE  Max(named(c)) \in named(c) /\ \A n \in named(c) : n <= Max(named(c))
  <2> DEFINE T == named(c)
             same == [n \in T |-> n]
  <2>1. T \subseteq DOMAIN total /\ T # {}
    BY <1>4
  <2>2. T \subseteq Nat /\ IsFiniteSet(T)
    <3> HIDE DEF T, total
    <3>1. Len(total) \in Int /\ 1 \in Int
      BY <1>3
    <3>2. IsFiniteSet(1 .. Len(total))
      BY <3>1, FS_Interval
    <3> QED BY <1>3, <2>1, <3>2, FS_Subset
  <2>3. \A n \in T : same[n] \in Int
    BY <2>2
  <2>4. \E x \in T : \A y \in T : same[y] <= same[x]
    <3> HIDE DEF T, same
    <3> QED BY <2>1, <2>2, <2>3, MostExists
  <2>5. \E x \in T : \A y \in T : x >= y
    <3> HIDE DEF T
    <3> QED BY <2>2, <2>4
  <2>6. Max(T) \in T /\ \A y \in T : Max(T) >= y
    <3> HIDE DEF T
    <3> QED BY <2>5 DEF Max
  <2> QED BY <2>2, <2>6
<1>5. ASSUME NEW n \in DOMAIN total, ~Lost(n) PROVE group[total[n].key] = Aggregate(members, total[n])
  <2> DEFINE c == total[n].key
  <2>1. n \in named(c) /\ c \in names
    BY DEF Range
  <2> DEFINE k == Max(named(c))
  <2>2. k \in named(c) /\ n <= k
    BY <1>4, <2>1
  <2>3. k \in DOMAIN total /\ total[k].key = total[n].key
    BY <2>2
  <2> HIDE DEF k
  <2>4. ~(k > n)
    BY <1>5, <2>3 DEF Lost
  <2>5. k = n
    BY <1>3, <2>2, <2>3, <2>4
  <2>6. value(c) = Aggregate(members, total[n])
    <3>1. named(c) # {}
      BY <2>1
    <3> HIDE DEF named, members, c, total
    <3> QED BY <2>5, <3>1 DEF k
  <2> HIDE DEF value, names
  <2> QED BY <1>1, <2>1, <2>6
<1>7. \A i \in DOMAIN report.groups : tag[i] = Cell(table[j], report.groups[i])
  BY DEF Key
<1>8. \A i \in DOMAIN report.groups : named(report.groups[i]) = {} => value(report.groups[i]) = tag[i]
  <2> SUFFICES ASSUME NEW i \in DOMAIN report.groups, named(report.groups[i]) = {}
               PROVE  value(report.groups[i]) = tag[i]
    OBVIOUS
  <2> DEFINE n == CHOOSE x \in DOMAIN report.groups : report.groups[x] = report.groups[i]
  <2>1. value(report.groups[i]) = tag[n]
    <3> HIDE DEF named, members
    <3> QED OBVIOUS
  <2>2. n \in DOMAIN report.groups /\ report.groups[n] = report.groups[i]
    OBVIOUS
  <2> HIDE DEF n, value
  <2> QED BY <1>7, <2>1, <2>2
<1>9. \A i \in DOMAIN report.groups : OwnNames => Cell(group, report.groups[i]) = tag[i]
  <2> SUFFICES ASSUME NEW i \in DOMAIN report.groups, OwnNames
               PROVE  Cell(group, report.groups[i]) = tag[i]
    OBVIOUS
  <2>1. report.groups[i] \in names
    BY DEF Range
  <2>2. named(report.groups[i]) = {}
    BY DEF OwnNames, Range
  <2> HIDE DEF names, value, named
  <2>3. group[report.groups[i]] = tag[i] /\ DOMAIN group = names
    BY <1>1, <1>8, <2>1, <2>2
  <2> HIDE DEF group
  <2> QED BY <2>1, <2>3 DEF Cell
<1>10. OwnNames => Key(group) = tag
  <2>1. OwnNames => Key(group) = [i \in DOMAIN report.groups |-> tag[i]]
    <3> HIDE DEF group
    <3> QED BY <1>9 DEF Key
  <2>2. tag = [i \in DOMAIN report.groups |-> tag[i]]
    BY DEF Key
  <2> QED BY <2>1, <2>2
<1>11. ASSUME NEW c \in names PROVE value(c) \in CellValue
  <2>1. CASE named(c) # {}
    <3> DEFINE k == Max(named(c))
    <3>1. k \in named(c)
      BY <1>4, <2>1
    <3>2. k \in DOMAIN total
      BY <3>1
    <3>3. value(c) = Aggregate(members, total[k]) /\ total[k].func \in Aggregates
      <4> HIDE DEF k, members
      <4> QED BY <1>3, <2>1, <3>2 DEF k
    <3> HIDE DEF value, members, k
    <3> QED BY <1>2, <3>3, TotalsAreCells
  <2>2. CASE named(c) = {}
    <3>1. c \notin {t.key : t \in Range(total)}
      BY <2>2 DEF Range
    <3>2. PICK i \in DOMAIN report.groups : c = report.groups[i]
      BY <3>1 DEF Range
    <3>3. table[j] \in [Seen -> CellValue]
      OBVIOUS
    <3> HIDE DEF value, named
    <3>4. value(c) = tag[i] /\ tag[i] = Cell(table[j], report.groups[i])
      BY <1>7, <1>8, <2>2, <3>2
    <3> QED BY <3>3, <3>4, CellFacts
  <2> QED BY <2>1, <2>2
<1>12. ASSUME NEW column PROVE Cell(group, column) \in CellValue
  <2> HIDE DEF value, names
  <2>1. column \in names => group[column] \in CellValue
    BY <1>1, <1>11
  <2>2. DOMAIN group = names
    BY <1>1
  <2> HIDE DEF group
  <2> QED BY <2>1, <2>2 DEF Cell, CellValue
<1> QED BY <1>5, <1>10, <1>12

(* What a total of some of the rows comes to.                              *)
LEMMA PartTotals ==
  ASSUME ExportTypeOK, NEW table \in Seq([Seen -> CellValue]), NEW t, NEW A, A \subseteq DOMAIN table
  PROVE  /\ IsFiniteSet(A) /\ IsFiniteSet(A \cap Filled(table, t.column))
         /\ t.func = "count" => Aggregate(Kept(table, A), t) = Cardinality(A)
         /\ t.func = "sum" => Aggregate(Kept(table, A), t)
                              = SumFunctionOnSet(Marks(table, t.column), A \cap Filled(table, t.column))
<1> DEFINE part == Kept(table, A)
           c == t.column
           J == A \cap Filled(table, c)
           v == Marks(table, c)
           w == Marks(part, c)
<1>1. PICK m \in Nat : \E g \in [1 .. m -> A] : Picks(part, table, A, m, g)
  BY KeptPlaces
<1>2. PICK g \in [1 .. m -> A] : Picks(part, table, A, m, g)
  BY <1>1
<1>3. A \subseteq Nat
  OBVIOUS
<1>4. part \in Seq([Seen -> CellValue])
  BY KeptItems
<1> HIDE DEF part
<1>5. PicksAt(part, table, A, m, g)
  BY <1>2, <1>3 DEF PicksAt
<1>6. /\ IsFiniteSet(A) /\ Cardinality(A) = m
      /\ DOMAIN part = 1 .. m /\ \A x \in 1 .. m : part[x] = table[g[x]]
  <2>1. IsFiniteSet(A) /\ Cardinality(A) = m
    BY <1>5, PickedFacts
  <2>2. DOMAIN part = 1 .. m
    BY <1>5, PickedFacts
  <2>3. \A x \in 1 .. m : part[x] = table[g[x]]
    <3>1. part = [x \in 1 .. m |-> table[g[x]]]
      BY <1>2 DEF Picks
    <3> QED BY <3>1
  <2> QED BY <2>1, <2>2, <2>3
<1>7. Len(part) = m
  BY <1>4, <1>6
<1>8. IsFiniteSet(J)
  BY <1>6, FS_Subset
<1>9. t.func = "count" => Aggregate(part, t) = Cardinality(A)
  BY <1>6, <1>7 DEF Aggregate
<1>10. J \in SUBSET A /\ (\A i \in J : v[i] \in Int)
  BY NumbersFacts
<1>11. \A x \in 1 .. m : w[x] = v[g[x]]
  BY <1>6 DEF Marks
<1> HIDE DEF J, v, w
<1>12. SumFunctionOnSet(w, PickedIn(J, m, g)) = SumFunctionOnSet(v, J)
  <2>1. PickedValues(A, m, g, J, v, w)
    BY <1>10, <1>11 DEF PickedValues
  <2>2. SumFunctionOnSet(w, PickedIn(J, m, g)) = SumFunctionOnSet(v, J)
    BY <1>5, <2>1, SumPicked
  <2> QED BY <2>2
<1>13. PickedIn(J, m, g) = Filled(part, c)
  <2>1. \A x \in 1 .. m : g[x] \in J <=> Cell(part[x], c) # Blank
    BY <1>6 DEF J, Filled
  <2> QED BY <1>6, <2>1 DEF PickedIn, Filled
<1>14. SumFunction(Numbers(part, c)) = SumFunctionOnSet(v, J)
  BY <1>4, <1>12, <1>13, NumbersFacts DEF w
<1>15. t.func = "sum" => Aggregate(part, t) = SumFunctionOnSet(v, J)
  BY <1>14 DEF Aggregate
<1> QED BY <1>6, <1>8, <1>9, <1>15 DEF part, J, v

(* GroupsAddUp, of the report at hand.                                     *)
LEMMA EveryRowIsInOneGroup == ASSUME ExportTypeOK PROVE GroupsAddUp
<1> DEFINE table == Filtered
           keys == GroupKeys(table)
           groups == Grouped(table)
<1>1. table \in Seq([Seen -> CellValue])
  BY FilteredFacts
<1> HIDE DEF table
<1> SUFFICES ASSUME report.groups # <<>>
             PROVE  /\ Len(groups) = Cardinality({Key(table[i]) : i \in DOMAIN table})
                    /\ OwnNames => \A i, j \in DOMAIN groups : Key(groups[i]) = Key(groups[j]) => i = j
                    /\ \A n \in DOMAIN report.totals :
                         LET t == report.totals[n]
                         IN t.func \in {"count", "sum"} /\ ~Lost(n) =>
                              SumFunction([k \in DOMAIN groups |-> groups[k][t.key]]) = Aggregate(table, t)
  BY DEF GroupsAddUp, TheyAddUp, OwnNames, table
<1>2. PICK m \in Nat : KeysOnce(keys, m, table)
  <2> DEFINE X == [Seen -> CellValue]
  <2>1. table \in Seq(X)
    BY <1>1
  <2> HIDE DEF X
  <2> QED BY <2>1, GroupKeysFacts
<1>3. groups = [k \in DOMAIN keys |-> GroupOf(keys[k], table)]
  BY DEF Grouped
<1> HIDE DEF keys, groups
<1>12. /\ DOMAIN keys = 1 .. m
       /\ \A a, b \in 1 .. m : keys[a] = keys[b] => a = b
       /\ \A k \in 1 .. m : \E i \in DOMAIN table : keys[k] = Key(table[i])
       /\ \A i \in DOMAIN table : \E k \in 1 .. m : keys[k] = Key(table[i])
  BY <1>2 DEF KeysOnce
<1>4. DOMAIN groups = 1 .. m /\ \A k \in 1 .. m : groups[k] = GroupOf(keys[k], table)
  BY <1>3, <1>12
<1> DEFINE S == 1 .. m
           A == [k \in S |-> Members(keys[k], table)]
<1>5. \A k \in S :
        /\ OwnNames => Key(groups[k]) = keys[k]
        /\ \A n \in DOMAIN report.totals : ~Lost(n) =>
             groups[k][report.totals[n].key] = Aggregate(Kept(table, A[k]), report.totals[n])
  <2> SUFFICES ASSUME NEW k \in S
               PROVE  /\ OwnNames => Key(groups[k]) = keys[k]
                      /\ \A n \in DOMAIN report.totals : ~Lost(n) =>
                           groups[k][report.totals[n].key] = Aggregate(Kept(table, A[k]), report.totals[n])
    OBVIOUS
  <2>1. PICK j \in DOMAIN table : keys[k] = Key(table[j])
    BY <1>12
  <2>2. groups[k] = GroupOf(keys[k], table) /\ A[k] = Members(keys[k], table)
    BY <1>4
  <2> HIDE DEF A
  <2> QED BY <1>1, <2>1, <2>2, GroupOfFacts
<1>6. OwnNames => \A i, j \in DOMAIN groups : Key(groups[i]) = Key(groups[j]) => i = j
  BY <1>4, <1>5, <1>12
<1>13. Len(groups) = Cardinality({Key(table[i]) : i \in DOMAIN table})
  <2> DEFINE K == {Key(table[i]) : i \in DOMAIN table}
  <2>1. keys = [k \in 1 .. m |-> keys[k]] /\ \A k \in 1 .. m : keys[k] \in K
    <3>1. \A k \in 1 .. m : keys[k] \in K
      BY <1>12
    <3>2. keys = [k \in DOMAIN keys |-> keys[k]]
      BY DEF GroupKeys, keys
    <3> HIDE DEF K
    <3> QED BY <1>12, <3>1, <3>2
  <2>2. \A x \in K : \E k \in 1 .. m : keys[k] = x
    BY <1>12
  <2> HIDE DEF K
  <2>3. keys \in Bijection(1 .. m, K)
    BY <1>12, <2>1, <2>2 DEF Bijection, Injection, Surjection, IsInjective
  <2>4. IsFiniteSet(1 .. m) /\ Cardinality(1 .. m) = m
    <3>1. m \in Int /\ 1 \in Int /\ (IF 1 > m THEN 0 ELSE m - 1 + 1) = m
      BY <1>2
    <3> QED BY <3>1, FS_Interval
  <2>5. Cardinality(K) = m
    BY <2>3, <2>4, FS_Bijection DEF ExistsBijection
  <2>6. Len(groups) = m
    BY <1>3, <1>12
  <2> QED BY <2>5, <2>6 DEF K
<1>7. /\ \A k \in S : A[k] \subseteq DOMAIN table
      /\ \A x, y \in S : x # y => A[x] \cap A[y] = {}
      /\ \A i \in DOMAIN table : \E k \in S : i \in A[k]
  BY <1>12 DEF Members
<1>8. IsFiniteSet(S)
  BY FS_Interval
<1>9. DOMAIN groups = S
  BY <1>4
<1> HIDE DEF A, S
<1>10. UNION {A[k] : k \in S} = DOMAIN table
  BY <1>7
<1>11. ASSUME NEW n \in DOMAIN report.totals, report.totals[n].func \in {"count", "sum"}, ~Lost(n)
       PROVE  LET t == report.totals[n]
              IN SumFunction([k \in DOMAIN groups |-> groups[k][t.key]]) = Aggregate(table, t)
  <2> DEFINE t == report.totals[n]
             f == [k \in DOMAIN groups |-> groups[k][t.key]]
             c == t.column
             v == Marks(table, c)
             B == [k \in S |-> A[k] \cap Filled(table, c)]
  <2>1. DOMAIN f = S /\ \A k \in S : f[k] = Aggregate(Kept(table, A[k]), t)
    BY <1>5, <1>9, <1>11
  <2>2. SumFunction(f) = SumFunctionOnSet(f, S)
    BY <2>1 DEF SumFunction
  <2>3. \A k \in S :
          /\ IsFiniteSet(A[k]) /\ IsFiniteSet(A[k] \cap Filled(table, c))
          /\ t.func = "count" => f[k] = Cardinality(A[k])
          /\ t.func = "sum" => f[k] = SumFunctionOnSet(v, A[k] \cap Filled(table, c))
    <3> SUFFICES ASSUME NEW k \in S
                 PROVE  /\ IsFiniteSet(A[k]) /\ IsFiniteSet(A[k] \cap Filled(table, c))
                        /\ t.func = "count" => f[k] = Cardinality(A[k])
                        /\ t.func = "sum" => f[k] = SumFunctionOnSet(v, A[k] \cap Filled(table, c))
      OBVIOUS
    <3> DEFINE P == A[k]
    <3>1. P \subseteq DOMAIN table /\ f[k] = Aggregate(Kept(table, P), t)
      BY <1>7, <2>1
    <3> HIDE DEF P, f
    <3>2. /\ IsFiniteSet(P) /\ IsFiniteSet(P \cap Filled(table, c))
          /\ t.func = "count" => Aggregate(Kept(table, P), t) = Cardinality(P)
          /\ t.func = "sum" => Aggregate(Kept(table, P), t) = SumFunctionOnSet(v, P \cap Filled(table, c))
      BY <1>1, <3>1, PartTotals
    <3> QED BY <3>1, <3>2 DEF P
  <2> HIDE DEF f
  <2>4. CASE t.func = "count"
    <3>1. (\A k \in S : IsFiniteSet(A[k])) /\ (\A k \in S : f[k] = Cardinality(A[k]))
          /\ \A x, y \in S : x # y => A[x] \cap A[y] = {}
      <4>1. \A k \in S : IsFiniteSet(A[k])
        BY <2>3
      <4>2. \A k \in S : f[k] = Cardinality(A[k])
        BY <2>3, <2>4
      <4>3. \A x, y \in S : x # y => A[x] \cap A[y] = {}
        BY <1>7
      <4> QED BY <4>1, <4>2, <4>3
    <3>2. Cardinality(UNION {A[k] : k \in S}) = SumFunctionOnSet(f, S)
      BY <1>8, <3>1, PartsAddUp
    <3>3. Cardinality(DOMAIN table) = Len(table)
      <4>1. DOMAIN table = 1 .. Len(table) /\ Len(table) \in Nat
        BY <1>1
      <4> QED BY <4>1, FS_Interval
    <3>4. Aggregate(table, t) = Len(table)
      BY <2>4 DEF Aggregate
    <3> QED BY <1>10, <2>2, <3>2, <3>3, <3>4 DEF f
  <2>5. CASE t.func = "sum"
    <3>1. \A k \in S : B[k] = A[k] \cap Filled(table, c)
      OBVIOUS
    <3>2. Filled(table, c) \subseteq DOMAIN table /\ \A i \in Filled(table, c) : v[i] \in Int
      BY <1>1, NumbersFacts DEF Filled
    <3>3. UNION {B[k] : k \in S} = Filled(table, c)
      BY <1>7, <3>1, <3>2
    <3> HIDE DEF B
    <3>4. /\ \A k \in S : IsFiniteSet(B[k])
          /\ \A x, y \in S : x # y => B[x] \cap B[y] = {}
          /\ \A k \in S : \A i \in B[k] : v[i] \in Int
          /\ \A k \in S : f[k] = SumFunctionOnSet(v, B[k])
      <4> HIDE DEF v
      <4>1. \A k \in S : IsFiniteSet(B[k])
        BY <2>3, <3>1
      <4>2. \A x, y \in S : x # y => B[x] \cap B[y] = {}
        BY <1>7, <3>1
      <4>3. \A k \in S : \A i \in B[k] : v[i] \in Int
        BY <3>1, <3>2
      <4>4. \A k \in S : f[k] = SumFunctionOnSet(v, B[k])
        BY <2>3, <2>5, <3>1
      <4> QED BY <4>1, <4>2, <4>3, <4>4
    <3>5. SumFunctionOnSet(v, UNION {B[k] : k \in S}) = SumFunctionOnSet(f, S)
      <4> HIDE DEF v
      <4>1. \A k \in S : IsFiniteSet(B[k])
        BY <3>4
      <4>2. \A x, y \in S : x # y => B[x] \cap B[y] = {}
        BY <3>4
      <4>3. \A k \in S : \A i \in B[k] : v[i] \in Int
        BY <3>4
      <4>4. \A k \in S : f[k] = SumFunctionOnSet(v, B[k])
        BY <3>4
      <4>5. SumsUp(S, B, v, f)
        BY <1>8, <4>1, <4>2, <4>3, <4>4 DEF SumsUp
      <4> QED BY <4>5, SumsOfParts
    <3>6. Aggregate(table, t) = SumFunction(Numbers(table, c))
      BY <2>5 DEF Aggregate
    <3>7. SumFunction(Numbers(table, c)) = SumFunctionOnSet(v, Filled(table, c))
      BY <1>1, NumbersFacts
    <3> QED BY <2>2, <3>3, <3>5, <3>6, <3>7 DEF f
  <2> QED BY <1>11, <2>4, <2>5
<1> QED BY <1>6, <1>11, <1>13

(* A key tells some items apart; those it does not tell apart are alike.   *)
Weak(W, P) ==
  /\ \A i, j \in P : <<i, j>> \in W => <<j, i>> \notin W
  /\ \A i, j, k \in P : <<i, k>> \in W => <<i, j>> \in W \/ <<j, k>> \in W

Stably(W, P) == {ij \in P \X P : ij \in W \/ (ij[1] < ij[2] /\ <<ij[2], ij[1]>> \notin W)}

Behind(V, W, P) == {ij \in P \X P : ij \in V \/ (<<ij[2], ij[1]>> \notin V /\ ij \in W)}

LEMMA StablyFacts ==
  ASSUME NEW W, NEW P
  PROVE  \A i, j \in P : <<i, j>> \in Stably(W, P) <=> <<i, j>> \in W \/ (i < j /\ <<j, i>> \notin W)
BY DEF Stably

LEMMA BehindFacts ==
  ASSUME NEW V, NEW W, NEW P
  PROVE  \A i, j \in P : <<i, j>> \in Behind(V, W, P) <=> <<i, j>> \in V \/ (<<j, i>> \notin V /\ <<i, j>> \in W)
BY DEF Behind

LEMMA StablyOrders ==
  ASSUME NEW P, P \subseteq Int, NEW W, Weak(W, P)
  PROVE  Orders(Stably(W, P), P)
<1> DEFINE R == Stably(W, P)
<1>1. \A i, j \in P : <<i, j>> \in R <=> <<i, j>> \in W \/ (i < j /\ <<j, i>> \notin W)
  BY StablyFacts
<1> HIDE DEF R
<1>2. ASSUME NEW x \in P PROVE <<x, x>> \notin R
  BY <1>1 DEF Weak
<1>3. ASSUME NEW x \in P, NEW y \in P, x # y PROVE <<x, y>> \in R \/ <<y, x>> \in R
  <2>1. x < y \/ y < x
    BY <1>3
  <2> QED BY <1>1, <2>1
<1>4. ASSUME NEW x \in P, NEW y \in P, NEW z \in P, <<x, y>> \in R, <<y, z>> \in R PROVE <<x, z>> \in R
  <2>1. /\ <<x, y>> \in W => <<y, x>> \notin W
        /\ <<y, z>> \in W => <<z, y>> \notin W
        /\ <<x, y>> \in W => <<x, z>> \in W \/ <<z, y>> \in W
        /\ <<y, z>> \in W => <<y, x>> \in W \/ <<x, z>> \in W
        /\ <<z, x>> \in W => <<z, y>> \in W \/ <<y, x>> \in W
    BY DEF Weak
  <2>2. x < y /\ y < z => x < z
    OBVIOUS
  <2>3. /\ <<x, y>> \in W \/ (x < y /\ <<y, x>> \notin W)
        /\ <<y, z>> \in W \/ (y < z /\ <<z, y>> \notin W)
    BY <1>1, <1>4
  <2>4. <<x, z>> \in W \/ (x < z /\ <<z, x>> \notin W)
    BY <2>1, <2>2, <2>3
  <2> QED BY <1>1, <2>4
<1> QED BY <1>2, <1>3, <1>4 DEF Orders, R

LEMMA BehindIsWeak ==
  ASSUME NEW P, NEW V, NEW W, Weak(V, P), Weak(W, P)
  PROVE  Weak(Behind(V, W, P), P)
<1> DEFINE B == Behind(V, W, P)
<1>1. \A i, j \in P : <<i, j>> \in B <=> <<i, j>> \in V \/ (<<j, i>> \notin V /\ <<i, j>> \in W)
  BY BehindFacts
<1> HIDE DEF B
<1>2. ASSUME NEW i \in P, NEW j \in P, <<i, j>> \in B PROVE <<j, i>> \notin B
  BY <1>1, <1>2 DEF Weak
<1>3. ASSUME NEW i \in P, NEW j \in P, NEW k \in P, <<i, k>> \in B PROVE <<i, j>> \in B \/ <<j, k>> \in B
  <2>1. /\ <<i, k>> \in V => <<i, j>> \in V \/ <<j, k>> \in V
        /\ <<j, i>> \in V => <<j, k>> \in V \/ <<k, i>> \in V
        /\ <<k, j>> \in V => <<k, i>> \in V \/ <<i, j>> \in V
        /\ <<i, k>> \in W => <<i, j>> \in W \/ <<j, k>> \in W
    BY DEF Weak
  <2>2. <<i, k>> \in V \/ (<<k, i>> \notin V /\ <<i, k>> \in W)
    BY <1>1, <1>3
  <2>3. \/ <<i, j>> \in V \/ (<<j, i>> \notin V /\ <<i, j>> \in W)
        \/ <<j, k>> \in V \/ (<<k, j>> \notin V /\ <<j, k>> \in W)
    BY <2>1, <2>2
  <2> QED BY <1>1, <2>3
<1> QED BY <1>2, <1>3 DEF Weak, B

(* Sorting what is sorted by W stably by V sorts by V, and then by W.      *)
Carried(P, V, W, s, V2, t) ==
  /\ \E N \in Nat : P = 1 .. N
  /\ Weak(V, P) /\ Weak(W, P)
  /\ s = InOrder(P, Stably(W, P))
  /\ V2 \subseteq P \X P /\ \A a, b \in P : <<a, b>> \in V2 <=> <<s[a], s[b]>> \in V
  /\ t = InOrder(P, Stably(V2, P))

LEMMA SortedTwice ==
  ASSUME NEW P, NEW V, NEW W, NEW s, NEW V2, NEW t, Carried(P, V, W, s, V2, t)
  PROVE  /\ s \in [P -> P] /\ t \in [P -> P]
         /\ \A n \in P : InOrder(P, Stably(Behind(V, W, P), P))[n] = s[t[n]]
<1>13. PICK N \in Nat : P = 1 .. N
  BY DEF Carried
<1>14. /\ Weak(V, P) /\ Weak(W, P)
       /\ s = InOrder(P, Stably(W, P))
       /\ V2 \subseteq P \X P /\ \A a, b \in P : <<a, b>> \in V2 <=> <<s[a], s[b]>> \in V
       /\ t = InOrder(P, Stably(V2, P))
  BY DEF Carried
<1>1. IsFiniteSet(P) /\ Cardinality(P) = N /\ P \subseteq Int
  <2>1. IsFiniteSet(1 .. N) /\ Cardinality(1 .. N) = N
    BY FS_Interval
  <2> QED BY <1>13, <2>1
<1>2. Orders(Stably(W, P), P)
  BY <1>1, <1>14, StablyOrders
<1>3. s \in [P -> P] /\ (\A x \in P : \E n \in P : s[n] = x)
      /\ \A i, j \in P : i < j => <<s[i], s[j]>> \in Stably(W, P)
  <2> DEFINE R == Stably(W, P)
  <2>1. Orders(R, P)
    BY <1>2
  <2> HIDE DEF R
  <2>2. Stand(P, P, R, InOrder(P, R))
    BY <1>13, <2>1, InPlaceOrder
  <2>3. Stand(P, P, R, s)
    BY <1>14, <2>2 DEF R
  <2> QED BY <2>3 DEF Stand, R
<1>4. Weak(V2, P)
  <2>1. \A a \in P : s[a] \in P
    BY <1>3
  <2>2. ASSUME NEW a \in P, NEW b \in P, <<a, b>> \in V2 PROVE <<b, a>> \notin V2
    <3>1. <<s[a], s[b]>> \in V
      BY <1>14, <2>2
    <3>2. <<s[b], s[a]>> \notin V
      BY <1>14, <2>1, <3>1 DEF Weak
    <3> QED BY <1>14, <3>2
  <2>3. ASSUME NEW a \in P, NEW b \in P, NEW c \in P, <<a, c>> \in V2 PROVE <<a, b>> \in V2 \/ <<b, c>> \in V2
    <3>1. <<s[a], s[c]>> \in V
      BY <1>14, <2>3
    <3>2. <<s[a], s[b]>> \in V \/ <<s[b], s[c]>> \in V
      BY <1>14, <2>1, <3>1 DEF Weak
    <3> QED BY <1>14, <3>2
  <2> QED BY <2>2, <2>3 DEF Weak
<1>5. Orders(Stably(V2, P), P)
  BY <1>1, <1>4, StablyOrders
<1>6. t \in [P -> P] /\ (\A x \in P : \E n \in P : t[n] = x)
      /\ \A i, j \in P : i < j => <<t[i], t[j]>> \in Stably(V2, P)
  <2> DEFINE R == Stably(V2, P)
  <2>1. Orders(R, P)
    BY <1>5
  <2> HIDE DEF R
  <2>2. Stand(P, P, R, InOrder(P, R))
    BY <1>13, <2>1, InPlaceOrder
  <2>3. Stand(P, P, R, t)
    BY <1>14, <2>2 DEF R
  <2> QED BY <2>3 DEF Stand, R
<1> DEFINE B == Behind(V, W, P)
           u == [n \in P |-> s[t[n]]]
<1>7. Orders(Stably(B, P), P)
  BY <1>1, <1>14, BehindIsWeak, StablyOrders
<1>8. u \in [P -> P]
  BY <1>3, <1>6
<1>9. \A x \in P : \E i \in P : u[i] = x
  <2> SUFFICES ASSUME NEW x \in P PROVE \E i \in P : u[i] = x
    OBVIOUS
  <2>1. PICK n \in P : s[n] = x
    BY <1>3
  <2>2. PICK i \in P : t[i] = n
    BY <1>6
  <2> QED BY <2>1, <2>2
<1>10. ASSUME NEW i \in P, NEW j \in P, i < j PROVE <<u[i], u[j]>> \in Stably(B, P)
  <2> DEFINE a == t[i]
             b == t[j]
             x == s[a]
             y == s[b]
  <2>1. a \in P /\ b \in P /\ x \in P /\ y \in P /\ u[i] = x /\ u[j] = y
    BY <1>3, <1>6
  <2>2. <<a, b>> \in V2 \/ (a < b /\ <<b, a>> \notin V2)
    <3>1. <<a, b>> \in Stably(V2, P)
      BY <1>6, <1>10
    <3> HIDE DEF a, b
    <3>2. \A i1, j1 \in P : <<i1, j1>> \in Stably(V2, P) <=> <<i1, j1>> \in V2 \/ (i1 < j1 /\ <<j1, i1>> \notin V2)
      BY DEF Stably
    <3> QED BY <2>1, <3>1, <3>2
  <2>3. /\ <<a, b>> \in V2 <=> <<x, y>> \in V
        /\ <<b, a>> \in V2 <=> <<y, x>> \in V
    BY <1>14, <2>1
  <2>4. a < b => <<x, y>> \in W \/ (x < y /\ <<y, x>> \notin W)
    <3> SUFFICES ASSUME a < b PROVE <<x, y>> \in W \/ (x < y /\ <<y, x>> \notin W)
      OBVIOUS
    <3>1. <<x, y>> \in Stably(W, P)
      BY <1>3, <2>1
    <3> HIDE DEF x, y
    <3>2. \A i1, j1 \in P : <<i1, j1>> \in Stably(W, P) <=> <<i1, j1>> \in W \/ (i1 < j1 /\ <<j1, i1>> \notin W)
      BY DEF Stably
    <3> QED BY <2>1, <3>1, <3>2
  <2> HIDE DEF a, b, x, y, B, u
  <2>5. /\ <<x, y>> \in B <=> <<x, y>> \in V \/ (<<y, x>> \notin V /\ <<x, y>> \in W)
        /\ <<y, x>> \in B <=> <<y, x>> \in V \/ (<<x, y>> \notin V /\ <<y, x>> \in W)
    <3>1. \A i1, j1 \in P : <<i1, j1>> \in B <=> <<i1, j1>> \in V \/ (<<j1, i1>> \notin V /\ <<i1, j1>> \in W)
      BY DEF B, Behind
    <3> QED BY <2>1, <3>1
  <2>6. <<x, y>> \in B \/ (x < y /\ <<y, x>> \notin B)
    BY <2>2, <2>3, <2>4, <2>5
  <2>7. \A i1, j1 \in P : <<i1, j1>> \in Stably(B, P) <=> <<i1, j1>> \in B \/ (i1 < j1 /\ <<j1, i1>> \notin B)
    BY DEF Stably
  <2>8. <<x, y>> \in Stably(B, P)
    BY <2>1, <2>6, <2>7
  <2> QED BY <2>1, <2>8
<1>11. u = InOrder(P, Stably(B, P))
  <2> DEFINE R == Stably(B, P)
  <2>1. Orders(R, P)
    BY <1>7
  <2>2. Stand(P, P, R, u)
    <3> HIDE DEF u, R
    <3>1. \A i, j \in P : i < j => <<u[i], u[j]>> \in R
      BY <1>10 DEF R
    <3> QED BY <1>8, <1>9, <3>1 DEF Stand
  <2> HIDE DEF R, u
  <2>3. u = InOrder(P, R)
    BY <1>13, <2>1, <2>2, InPlaceOrder
  <2> QED BY <2>3 DEF R
<1>12. \A n \in P : u[n] = s[t[n]]
  OBVIOUS
<1> HIDE DEF u, B
<1> QED BY <1>3, <1>6, <1>11, <1>12 DEF B

(* The rows of a report, and the cells a key may look at.                  *)
Tabular(table) ==
  /\ \E N \in Nat : DOMAIN table = 1 .. N
  /\ table = [p \in DOMAIN table |-> table[p]]
  /\ \A p \in DOMAIN table : \A column : Cell(table[p], column) \in CellValue

ToldBy(table, l) == {ij \in (DOMAIN table) \X (DOMAIN table) : Precedes(report.sorts[l], table[ij[1]], table[ij[2]])}

(* What the last k keys tell apart.                                        *)
ToldLast(table, k) ==
  LET n == Len(report.sorts)
  IN {ij \in (DOMAIN table) \X (DOMAIN table) :
        \E l \in n - k + 1 .. n : /\ ij \in ToldBy(table, l)
                                  /\ \A q \in n - k + 1 .. l - 1 : <<ij[2], ij[1]>> \notin ToldBy(table, q)}

SortedTo(table, k) == [p \in DOMAIN table |-> table[InOrder(DOMAIN table, Stably(ToldLast(table, k), DOMAIN table))[p]]]

LEMMA BeforeIsWeak ==
  /\ \A a, b \in CellValue : Before(a, b) => ~Before(b, a)
  /\ \A a, b, c \in CellValue : Before(a, c) => Before(a, b) \/ Before(b, c)
<1>1. Blank \notin Int
  BY ExportAssumption
<1>2. ASSUME NEW a \in CellValue, NEW b \in CellValue, Before(a, b) PROVE ~Before(b, a)
  BY <1>1, <1>2 DEF Before, CellValue
<1>3. ASSUME NEW a \in CellValue, NEW b \in CellValue, NEW c \in CellValue, Before(a, c)
      PROVE  Before(a, b) \/ Before(b, c)
  BY <1>1, <1>3 DEF Before, CellValue
<1> QED BY <1>2, <1>3

LEMMA ToldByIsWeak ==
  ASSUME NEW table, Tabular(table), NEW l
  PROVE  Weak(ToldBy(table, l), DOMAIN table)
<1> DEFINE D == DOMAIN table
           sort == report.sorts[l]
           cell(i) == Cell(table[i], sort.column)
           V == ToldBy(table, l)
<1>1. \A i \in D : cell(i) \in CellValue
  BY DEF Tabular
<1>2. \A i, j \in D : <<i, j>> \in V <=> IF sort.desc THEN Before(cell(j), cell(i)) ELSE Before(cell(i), cell(j))
  <2>1. \A i, j \in D : <<i, j>> \in V <=> Precedes(sort, table[i], table[j])
    <3> SUFFICES ASSUME NEW i \in D, NEW j \in D
                 PROVE  <<i, j>> \in V <=> Precedes(sort, table[i], table[j])
      OBVIOUS
    <3>1. <<i, j>> \in D \X D /\ <<i, j>>[1] = i /\ <<i, j>>[2] = j
      OBVIOUS
    <3>2. <<i, j>> \in V <=> <<i, j>> \in D \X D /\ Precedes(sort, table[<<i, j>>[1]], table[<<i, j>>[2]])
      BY DEF ToldBy
    <3> HIDE DEF V, D, sort
    <3> QED BY <3>1, <3>2
  <2>2. \A i, j \in D : Precedes(sort, table[i], table[j])
                        <=> IF sort.desc THEN Before(cell(j), cell(i)) ELSE Before(cell(i), cell(j))
    BY DEF Precedes
  <2> QED BY <2>1, <2>2
<1> HIDE DEF cell, V
<1>3. ASSUME NEW i \in D, NEW j \in D, <<i, j>> \in V PROVE <<j, i>> \notin V
  BY <1>1, <1>2, <1>3, BeforeIsWeak
<1>4. ASSUME NEW i \in D, NEW j \in D, NEW k \in D, <<i, k>> \in V PROVE <<i, j>> \in V \/ <<j, k>> \in V
  <2>1. cell(i) \in CellValue /\ cell(j) \in CellValue /\ cell(k) \in CellValue
    BY <1>1
  <2>2. CASE sort.desc
    <3>1. Before(cell(k), cell(i))
      BY <1>2, <1>4, <2>2
    <3>2. Before(cell(k), cell(j)) \/ Before(cell(j), cell(i))
      BY <2>1, <3>1, BeforeIsWeak
    <3> QED BY <1>2, <2>2, <3>2
  <2>3. CASE ~sort.desc
    <3>1. Before(cell(i), cell(k))
      BY <1>2, <1>4, <2>3
    <3>2. Before(cell(i), cell(j)) \/ Before(cell(j), cell(k))
      BY <2>1, <3>1, BeforeIsWeak
    <3> QED BY <1>2, <2>3, <3>2
  <2> QED BY <2>2, <2>3
<1> QED BY <1>3, <1>4 DEF Weak, V

LEMMA ToldLastFacts ==
  ASSUME NEW table, Len(report.sorts) \in Nat
  PROVE  /\ ToldLast(table, 0) = {}
         /\ \A k \in 1 .. Len(report.sorts) :
              ToldLast(table, k)
                = Behind(ToldBy(table, Len(report.sorts) - k + 1), ToldLast(table, k - 1), DOMAIN table)
<1> DEFINE D == DOMAIN table
           n == Len(report.sorts)
<1>1. \A k : ToldLast(table, k) =
        {ij \in D \X D : \E l \in n - k + 1 .. n :
           /\ ij \in ToldBy(table, l)
           /\ \A q \in n - k + 1 .. l - 1 : <<ij[2], ij[1]>> \notin ToldBy(table, q)}
  <2> SUFFICES ASSUME NEW k
               PROVE  ToldLast(table, k) =
                        {ij \in D \X D : \E l \in n - k + 1 .. n :
                           /\ ij \in ToldBy(table, l)
                           /\ \A q \in n - k + 1 .. l - 1 : <<ij[2], ij[1]>> \notin ToldBy(table, q)}
    OBVIOUS
  <2> QED BY DEF ToldLast
<1>4. n \in Nat
  OBVIOUS
<1> HIDE DEF n, D
<1>2. ToldLast(table, 0) = {}
  <2>1. n - 0 + 1 .. n = {}
    BY <1>4
  <2> QED BY <1>1, <2>1
<1>3. ASSUME NEW k \in 1 .. n
      PROVE  ToldLast(table, k) = Behind(ToldBy(table, n - k + 1), ToldLast(table, k - 1), D)
  <2> DEFINE a == n - k + 1
             W == ToldLast(table, k - 1)
             T == ToldLast(table, k)
  <2>1. a \in Int /\ a <= n /\ n - (k - 1) + 1 = a + 1
    BY <1>4
  <2>2. T = {ij \in D \X D : \E l \in a .. n :
               ij \in ToldBy(table, l) /\ \A q \in a .. l - 1 : <<ij[2], ij[1]>> \notin ToldBy(table, q)}
    BY <1>1, <2>1
  <2>3. W = {ij \in D \X D : \E l \in a + 1 .. n :
               ij \in ToldBy(table, l) /\ \A q \in a + 1 .. l - 1 : <<ij[2], ij[1]>> \notin ToldBy(table, q)}
    BY <1>1, <2>1
  <2> HIDE DEF a, W, T
  <2>4. ASSUME NEW i \in D, NEW j \in D, <<i, j>> \in T
        PROVE  <<i, j>> \in ToldBy(table, a) \/ (<<j, i>> \notin ToldBy(table, a) /\ <<i, j>> \in W)
    <3>1. PICK l \in a .. n : <<i, j>> \in ToldBy(table, l) /\ \A q \in a .. l - 1 : <<j, i>> \notin ToldBy(table, q)
      BY <2>2, <2>4
    <3>2. CASE l = a
      BY <3>1, <3>2
    <3>3. CASE l # a
      <4>1. a \in a .. l - 1 /\ l \in a + 1 .. n /\ \A q \in a + 1 .. l - 1 : q \in a .. l - 1
        BY <2>1, <3>3
      <4> QED BY <2>3, <3>1, <4>1
    <3> QED BY <3>2, <3>3
  <2>5. ASSUME NEW i \in D, NEW j \in D, <<i, j>> \in ToldBy(table, a) PROVE <<i, j>> \in T
    <3>1. a \in a .. n /\ a .. a - 1 = {}
      BY <2>1
    <3> QED BY <2>2, <2>5, <3>1
  <2>6. ASSUME NEW i \in D, NEW j \in D, <<j, i>> \notin ToldBy(table, a), <<i, j>> \in W PROVE <<i, j>> \in T
    <3>1. PICK l \in a + 1 .. n :
            <<i, j>> \in ToldBy(table, l) /\ \A q \in a + 1 .. l - 1 : <<j, i>> \notin ToldBy(table, q)
      BY <2>3, <2>6
    <3>2. l \in a .. n /\ \A q \in a .. l - 1 : q = a \/ q \in a + 1 .. l - 1
      BY <2>1
    <3>3. \A q \in a .. l - 1 : <<j, i>> \notin ToldBy(table, q)
      BY <2>6, <3>1, <3>2
    <3> QED BY <2>2, <3>1, <3>2, <3>3
  <2>7. T \subseteq D \X D /\ Behind(ToldBy(table, a), W, D) \subseteq D \X D
    BY <2>2 DEF Behind
  <2>8. \A i, j \in D : <<i, j>> \in T <=> <<i, j>> \in Behind(ToldBy(table, a), W, D)
    <3>1. \A i, j \in D : <<i, j>> \in Behind(ToldBy(table, a), W, D) <=>
                             <<i, j>> \in ToldBy(table, a) \/ (<<j, i>> \notin ToldBy(table, a) /\ <<i, j>> \in W)
      BY DEF Behind
    <3> QED BY <2>4, <2>5, <2>6, <3>1
  <2>9. T = Behind(ToldBy(table, a), W, D)
    <3> DEFINE B == Behind(ToldBy(table, a), W, D)
    <3>1. T \subseteq D \X D /\ B \subseteq D \X D /\ \A i, j \in D : <<i, j>> \in T <=> <<i, j>> \in B
      BY <2>7, <2>8
    <3> HIDE DEF B
    <3>2. \A x \in D \X D : \E i, j \in D : x = <<i, j>>
      OBVIOUS
    <3>3. \A x \in D \X D : x \in T <=> x \in B
      BY <3>1, <3>2
    <3>4. T = B
      BY <3>1, <3>3, Zenon
    <3> QED BY <3>4 DEF B
  <2> QED BY <2>9 DEF a, W, T
<1> QED BY <1>2, <1>3 DEF D, n

LEMMA ToldLastIsWeak ==
  ASSUME NEW table, Tabular(table), Len(report.sorts) \in Nat
  PROVE  \A k \in 0 .. Len(report.sorts) : Weak(ToldLast(table, k), DOMAIN table)
<1> DEFINE D == DOMAIN table
           n == Len(report.sorts)
           T == {k \in Nat : k \in 0 .. n => Weak(ToldLast(table, k), D)}
<1>1. 0 \in T
  <2>1. Weak({}, D)
    BY DEF Weak
  <2> QED BY <2>1, ToldLastFacts
<1>2. ASSUME NEW k \in Nat, k \in T PROVE k + 1 \in T
  <2> SUFFICES ASSUME k + 1 \in 0 .. n PROVE Weak(ToldLast(table, k + 1), D)
    OBVIOUS
  <2>1. k + 1 \in 1 .. n /\ k \in 0 .. n /\ (k + 1) - 1 = k
    OBVIOUS
  <2>2. Weak(ToldLast(table, k), D)
    BY <1>2, <2>1
  <2>3. ToldLast(table, k + 1) = Behind(ToldBy(table, n - (k + 1) + 1), ToldLast(table, k), D)
    BY <2>1, ToldLastFacts
  <2>4. Weak(ToldBy(table, n - (k + 1) + 1), D)
    BY ToldByIsWeak
  <2> HIDE DEF D
  <2> QED BY <2>2, <2>3, <2>4, BehindIsWeak
<1> HIDE DEF T
<1>3. \A k \in Nat : k \in T
  BY <1>1, <1>2, Induction
<1> QED BY <1>3 DEF T

(* Sorting is by the last key, then by the one before it, and so on.       *)
LEMMA FirstSort ==
  ASSUME NEW table, Tabular(table), Len(report.sorts) \in Nat
  PROVE  SortedTo(table, 0) = table
<1> DEFINE P == DOMAIN table
           R == Stably({}, P)
           same == [p \in P |-> p]
<1>1. PICK N \in Nat : P = 1 .. N
  BY DEF Tabular
<1>2. Weak({}, P) /\ P \subseteq Int
  BY <1>1 DEF Weak
<1> HIDE DEF P
<1>3. Orders(R, P)
  BY <1>2, StablyOrders
<1>4. Stand(P, P, R, same)
  <2>1. \A i, j \in P : i < j => <<i, j>> \in R
    BY DEF Stably
  <2> HIDE DEF R
  <2> QED BY <2>1 DEF Stand
<1>5. same = InOrder(P, R)
  <2> HIDE DEF R, same
  <2> QED BY <1>1, <1>3, <1>4, InPlaceOrder
<1>6. SortedTo(table, 0) = [p \in P |-> table[InOrder(P, R)[p]]]
  BY ToldLastFacts DEF SortedTo, P
<1>7. \A p \in P : table[InOrder(P, R)[p]] = table[p]
  <2> SUFFICES ASSUME NEW p \in P PROVE table[InOrder(P, R)[p]] = table[p]
    OBVIOUS
  <2>1. same[p] = p
    OBVIOUS
  <2> HIDE DEF R, same
  <2> QED BY <1>5, <2>1
<1>8. table = [p \in P |-> table[p]]
  BY DEF Tabular, P
<1> HIDE DEF R
<1> QED BY <1>6, <1>7, <1>8

LEMMA NextSort ==
  ASSUME NEW table, Tabular(table), Len(report.sorts) \in Nat, NEW k \in 1 .. Len(report.sorts)
  PROVE  StablySorted(SortedTo(table, k - 1), report.sorts[Len(report.sorts) - k + 1]) = SortedTo(table, k)
<1> DEFINE P == DOMAIN table
           l == Len(report.sorts) - k + 1
           V == ToldBy(table, l)
           W == ToldLast(table, k - 1)
           s == InOrder(P, Stably(W, P))
           before == SortedTo(table, k - 1)
           V2 == {ab \in P \X P : Precedes(report.sorts[l], before[ab[1]], before[ab[2]])}
           t == InOrder(P, Stably(V2, P))
<1>1. PICK N \in Nat : P = 1 .. N
  BY DEF Tabular
<1>2. Weak(V, P)
  BY ToldByIsWeak
<1>3. Weak(W, P)
  <2>1. k - 1 \in 0 .. Len(report.sorts)
    OBVIOUS
  <2> QED BY <2>1, ToldLastIsWeak
<1>4. ToldLast(table, k) = Behind(V, W, P)
  BY ToldLastFacts
<1>5. before = [p \in P |-> table[s[p]]]
  BY DEF SortedTo
<1>6. StablySorted(before, report.sorts[l]) = [p \in P |-> before[t[p]]]
  <2>1. DOMAIN before = P
    BY DEF SortedTo
  <2>2. {ij \in P \X P : \/ Precedes(report.sorts[l], before[ij[1]], before[ij[2]])
                         \/ ij[1] < ij[2] /\ ~Precedes(report.sorts[l], before[ij[2]], before[ij[1]])}
        = Stably(V2, P)
    <3> HIDE DEF before, P, l
    <3>1. \A ij \in P \X P : /\ ij \in V2 <=> Precedes(report.sorts[l], before[ij[1]], before[ij[2]])
                             /\ <<ij[2], ij[1]>> \in V2 <=> Precedes(report.sorts[l], before[ij[2]], before[ij[1]])
      OBVIOUS
    <3> HIDE DEF V2
    <3> QED BY <3>1 DEF Stably
  <2> HIDE DEF before, P, l, V2
  <2>3. StablySorted(before, report.sorts[l]) = [p \in P |-> before[InOrder(P, Stably(V2, P))[p]]]
    BY <2>1, <2>2 DEF StablySorted
  <2> QED BY <2>3
<1> HIDE DEF P
<1>7. s \in [P -> P]
  <2> DEFINE R == Stably(W, P)
  <2>1. Orders(R, P)
    BY <1>1, <1>3, StablyOrders
  <2> HIDE DEF R
  <2>2. Stand(P, P, R, InOrder(P, R))
    BY <1>1, <2>1, InPlaceOrder
  <2>3. InOrder(P, R) \in [P -> P]
    BY <2>2 DEF Stand
  <2> QED BY <2>3 DEF R
<1>8. \A a, b \in P : <<a, b>> \in V2 <=> <<s[a], s[b]>> \in V
  <2> SUFFICES ASSUME NEW a \in P, NEW b \in P PROVE <<a, b>> \in V2 <=> <<s[a], s[b]>> \in V
    OBVIOUS
  <2> HIDE DEF s, l, before
  <2>1. before[a] = table[s[a]] /\ before[b] = table[s[b]] /\ s[a] \in P /\ s[b] \in P
    BY <1>5, <1>7
  <2>2. <<a, b>> \in V2 <=> Precedes(report.sorts[l], before[a], before[b])
    OBVIOUS
  <2>3. <<s[a], s[b]>> \in V <=> Precedes(report.sorts[l], table[s[a]], table[s[b]])
    BY <2>1 DEF ToldBy, P
  <2> HIDE DEF V, V2
  <2> QED BY <2>1, <2>2, <2>3
<1>9. V2 \subseteq P \X P
  OBVIOUS
<1> HIDE DEF V2, before, V, W
<1>10. t \in [P -> P] /\ \A p \in P : InOrder(P, Stably(Behind(V, W, P), P))[p] = s[t[p]]
  <2>1. s = InOrder(P, Stably(W, P)) /\ t = InOrder(P, Stably(V2, P))
    OBVIOUS
  <2> HIDE DEF s, t
  <2>2. Carried(P, V, W, s, V2, t)
    BY <1>1, <1>2, <1>3, <1>8, <1>9, <2>1 DEF Carried
  <2> QED BY <2>2, SortedTwice
<1> HIDE DEF s, t
<1>11. \A p \in P : before[t[p]] = table[InOrder(P, Stably(Behind(V, W, P), P))[p]]
  <2> SUFFICES ASSUME NEW p \in P PROVE before[t[p]] = table[InOrder(P, Stably(Behind(V, W, P), P))[p]]
    OBVIOUS
  <2>1. t[p] \in P /\ InOrder(P, Stably(Behind(V, W, P), P))[p] = s[t[p]]
    BY <1>10
  <2> QED BY <1>5, <2>1
<1>12. SortedTo(table, k) = [p \in P |-> table[InOrder(P, Stably(Behind(V, W, P), P))[p]]]
  BY <1>4 DEF SortedTo, P
<1> QED BY <1>6, <1>11, <1>12 DEF before

LEMMA SortedIs ==
  ASSUME NEW table, Tabular(table), Len(report.sorts) \in Nat
  PROVE  Sorted(table) = SortedTo(table, Len(report.sorts))
<1> DEFINE n == Len(report.sorts)
           body(h) == [k \in 0 .. n |-> IF k = 0 THEN table ELSE StablySorted(h[k - 1], report.sorts[n - k + 1])]
           sorted == CHOOSE h : h = body(h)
           g == [k \in 0 .. n |-> SortedTo(table, k)]
<1>1. Sorted(table) = sorted[n]
  BY DEF Sorted
<1>2. n \in Nat
  OBVIOUS
<1>3. \A k \in 0 .. n : SortedTo(table, k) =
        IF k = 0 THEN table ELSE StablySorted(SortedTo(table, k - 1), report.sorts[n - k + 1])
  <2> SUFFICES ASSUME NEW k \in 0 .. n
               PROVE  SortedTo(table, k) = IF k = 0 THEN table
                                          ELSE StablySorted(SortedTo(table, k - 1), report.sorts[n - k + 1])
    OBVIOUS
  <2>1. CASE k = 0
    BY <2>1, FirstSort
  <2>2. CASE k # 0
    <3>1. k \in 1 .. n
      BY <1>2, <2>2
    <3> QED BY <2>2, <3>1, NextSort
  <2> QED BY <2>1, <2>2
<1> HIDE DEF n
<1>4. g = body(g)
  <2>1. \A k \in 0 .. n : k # 0 => k - 1 \in 0 .. n
    BY <1>2
  <2>2. \A k \in 0 .. n : g[k] = IF k = 0 THEN table ELSE StablySorted(g[k - 1], report.sorts[n - k + 1])
    BY <1>3, <2>1
  <2> QED BY <2>2
<1>5. sorted = body(sorted)
  BY <1>4
<1> HIDE DEF sorted
<1>6. \A k \in 0 .. n : sorted[k] = IF k = 0 THEN table ELSE StablySorted(sorted[k - 1], report.sorts[n - k + 1])
  BY <1>5
<1> DEFINE T == {k \in Nat : k \in 0 .. n => sorted[k] = SortedTo(table, k)}
<1>7. 0 \in T
  BY <1>2, <1>3, <1>6
<1>8. ASSUME NEW k \in Nat, k \in T PROVE k + 1 \in T
  <2> SUFFICES ASSUME k + 1 \in 0 .. n PROVE sorted[k + 1] = SortedTo(table, k + 1)
    OBVIOUS
  <2>1. k \in 0 .. n /\ (k + 1) - 1 = k /\ k + 1 # 0
    BY <1>2
  <2>2. sorted[k] = SortedTo(table, k)
    BY <1>8, <2>1
  <2>3. /\ sorted[k + 1] = StablySorted(sorted[k], report.sorts[n - (k + 1) + 1])
        /\ SortedTo(table, k + 1) = StablySorted(SortedTo(table, k), report.sorts[n - (k + 1) + 1])
    BY <1>3, <1>6, <2>1
  <2> QED BY <2>2, <2>3
<1> HIDE DEF T
<1>9. \A k \in Nat : k \in T
  BY <1>7, <1>8, Induction
<1>10. sorted[n] = SortedTo(table, n)
  BY <1>2, <1>9 DEF T
<1> QED BY <1>1, <1>10 DEF n

(* The rows of a report are a table, grouped or not.                       *)
LEMMA GroupedIsTabular ==
  ASSUME ExportTypeOK
  PROVE  Tabular(Grouped(Filtered))
<1> DEFINE table == Filtered
           keys == GroupKeys(table)
           X == [Seen -> CellValue]
<1>1. table \in Seq(X)
  BY FilteredFacts
<1> HIDE DEF table
<1>2. Tabular(table)
  <2>1. ASSUME NEW p \in DOMAIN table, NEW column PROVE Cell(table[p], column) \in CellValue
    <3>1. table[p] \in [Seen -> CellValue]
      BY <1>1
    <3> QED BY <3>1, CellFacts
  <2> HIDE DEF X
  <2>2. Len(table) \in Nat /\ DOMAIN table = 1 .. Len(table) /\ table = [p \in DOMAIN table |-> table[p]]
    BY <1>1
  <2> QED BY <2>1, <2>2 DEF Tabular
<1>3. CASE report.groups = <<>>
  <2>1. Grouped(table) = table
    BY <1>3 DEF Grouped
  <2> QED BY <1>2, <2>1 DEF table
<1>4. CASE report.groups # <<>>
  <2>1. Grouped(table) = [k \in DOMAIN keys |-> GroupOf(keys[k], table)]
    BY <1>4 DEF Grouped
  <2>2. PICK m \in Nat : KeysOnce(keys, m, table)
    <3> HIDE DEF X
    <3> QED BY <1>1, GroupKeysFacts
  <2> HIDE DEF keys
  <2>3. DOMAIN keys = 1 .. m /\ \A k \in 1 .. m : \E i \in DOMAIN table : keys[k] = Key(table[i])
    BY <2>2 DEF KeysOnce
  <2>4. ASSUME NEW k \in 1 .. m, NEW column PROVE Cell(GroupOf(keys[k], table), column) \in CellValue
    <3>1. PICK j \in DOMAIN table : keys[k] = Key(table[j])
      BY <2>3
    <3> QED BY <1>1, <3>1, GroupOfFacts
  <2> DEFINE groups == Grouped(table)
  <2>5. DOMAIN groups = 1 .. m /\ groups = [k \in 1 .. m |-> groups[k]]
        /\ \A k \in 1 .. m : groups[k] = GroupOf(keys[k], table)
    BY <2>1, <2>3
  <2> HIDE DEF groups
  <2>6. Tabular(groups)
    BY <2>4, <2>5 DEF Tabular
  <2> QED BY <2>6 DEF groups, table
<1> QED BY <1>3, <1>4

(* SortedByEveryKey, of the report at hand.                                *)
LEMMA EveryKeyCounts == ASSUME ExportTypeOK PROVE SortedByEveryKey
<1> DEFINE table == Grouped(Filtered)
           P == DOMAIN table
           n == Len(report.sorts)
           W == ToldLast(table, n)
           order == {ij \in P \X P : \/ Told(table[ij[1]], table[ij[2]])
                                     \/ ij[1] < ij[2] /\ ~Told(table[ij[2]], table[ij[1]])}
<1>1. Tabular(table)
  BY GroupedIsTabular
<1>2. n \in Nat /\ DOMAIN report.sorts = 1 .. n
  <2> DEFINE X == [column : Columns \cup Names, desc : BOOLEAN]
  <2>1. report.sorts \in Seq(X)
    BY TheReport
  <2> HIDE DEF X
  <2> QED BY <2>1
<1> SUFFICES Sorted(table) = [k \in P |-> table[InOrder(P, order)[k]]]
  BY DEF SortedByEveryKey, SortedByKeys
<1> HIDE DEF table
<1>3. Sorted(table) = [p \in P |-> table[InOrder(P, Stably(W, P))[p]]]
  BY <1>1, <1>2, SortedIs DEF SortedTo
<1>4. \A i, j \in P : <<i, j>> \in W <=> Told(table[i], table[j])
  <2> SUFFICES ASSUME NEW i \in P, NEW j \in P PROVE <<i, j>> \in W <=> Told(table[i], table[j])
    OBVIOUS
  <2>1. \A l : /\ <<i, j>> \in ToldBy(table, l) <=> Precedes(report.sorts[l], table[i], table[j])
               /\ <<j, i>> \in ToldBy(table, l) <=> Precedes(report.sorts[l], table[j], table[i])
    BY DEF ToldBy
  <2>2. W = {ij \in P \X P : \E l \in n - n + 1 .. n :
               /\ ij \in ToldBy(table, l)
               /\ \A q \in n - n + 1 .. l - 1 : <<ij[2], ij[1]>> \notin ToldBy(table, q)}
    BY DEF ToldLast
  <2>3. n - n + 1 = 1
    BY <1>2
  <2> HIDE DEF n, P, W
  <2>4. <<i, j>> \in W <=>
          \E l \in 1 .. n : <<i, j>> \in ToldBy(table, l) /\ \A q \in 1 .. l - 1 : <<j, i>> \notin ToldBy(table, q)
    BY <2>2, <2>3
  <2> QED BY <1>2, <2>1, <2>4 DEF Told
<1>5. order = Stably(W, P)
  <2> HIDE DEF P, W
  <2>1. \A ij \in P \X P : /\ ij \in W <=> Told(table[ij[1]], table[ij[2]])
                           /\ <<ij[2], ij[1]>> \in W <=> Told(table[ij[2]], table[ij[1]])
    BY <1>4
  <2> QED BY <2>1 DEF Stably
<1> HIDE DEF order
<1> QED BY <1>3, <1>5

(* Whatever is recorded and however a report is defined, it has each row   *)
(* that belongs in it, in one group, in the order of its keys. Totals of   *)
(* one name, or of a group's, are no exception: what is said of them is    *)
(* what the code makes of them.                                            *)
THEOREM ReportsTheorem == ExportSpec => ReportsAreWhole
<1>1. ExportInit => ExportTypeOK
  <2>1. <<>> \in Seq(Rows)
    OBVIOUS
  <2> QED BY <2>1 DEF ExportInit, ExportTypeOK
<1>2. ExportTypeOK /\ [ExportNext]_reportVars => ExportTypeOK'
  <2> SUFFICES ASSUME ExportTypeOK, [ExportNext]_reportVars PROVE ExportTypeOK'
    OBVIOUS
  <2>1. CASE ExportNext
    <3>1. PICK s \in Sources, row \in Rows : Record(s, row)
      BY <2>1 DEF ExportNext
    <3>2. data \in [Sources -> Seq(Rows)] /\ report \in Reports
      BY DEF ExportTypeOK
    <3>3. Append(data[s], row) \in Seq(Rows)
      BY <3>2
    <3> QED BY <3>1, <3>2, <3>3 DEF Record, ExportTypeOK
  <2>2. CASE UNCHANGED reportVars
    BY <2>2 DEF reportVars, ExportTypeOK
  <2> QED BY <2>1, <2>2
<1>3. ExportTypeOK => ReportIsWhole
  BY NothingIsDropped, EveryRowIsInOneGroup, EveryKeyCounts DEF ReportIsWhole
<1>4. ReportIsWhole => (TotalRows > 0 => ReportIsWhole)
  OBVIOUS
<1> QED BY <1>1, <1>2, <1>3, <1>4, PTL DEF ExportSpec, ReportsAreWhole
=============================================================================
