--------------------------- MODULE BackgroundJobs ---------------------------
(***************************************************************************)
(* Three jobs of the background scheduler, one after another in each tick  *)
(* of the leader: the scheduled reports, the email outbox and the leave    *)
(* year end, with one scheduled report, one email, one year to close and   *)
(* one employee who has days to carry over.                                *)
(*                                                                         *)
(* A leader that lost its database connection finishes its tick while      *)
(* another process leads; a process may crash; a job that runs for too     *)
(* long is cancelled. How the lock is held is in ReminderLedger. A step is *)
(* a transaction, or a conversation with the mail server. `seen` is what a *)
(* process remembers from one step to the next.                            *)
(***************************************************************************)
EXTENDS Naturals, FiniteSets

CONSTANTS
  JobWorkers,
  Nothing,       \* no leader, no report, no next run
  JobTimeout,    \* JOB_TIMEOUT
  StaleAfter,    \* STALE_AFTER
  MostTries,     \* MAX_ATTEMPTS
  MaxDays,       \* bound on the days that pass
  MaxTroubles,   \* bound on crashes, lost connections and cancelled jobs
  MaxChanges     \* bound on what people do with the report and the email

ASSUME BackgroundAssumption ==
  /\ IsFiniteSet(JobWorkers) /\ Nothing \notin JobWorkers \cup Nat
  /\ {JobTimeout, StaleAfter, MostTries} \subseteq Nat \ {0} /\ JobTimeout < StaleAfter
  /\ {MaxDays, MaxTroubles, MaxChanges} \subseteq Nat

VARIABLES
  leader, pc, seen,
  age,        \* for how long each process has been in its job
  today,
  schedule,   \* the row of the scheduled report: active, next_run_at
  sent,       \* how often the report of each day was sent
  mail,       \* the outbox row: status, attempts, and whether its next attempt is due
  delivered,  \* how often the mail server accepted the email
  smtp,       \* whether email is set up
  claim,      \* the job ledger's row of the year: status, takeovers, age
  carried,    \* the carry-over rows of the employee
  troubles,   \* crashes, lost connections and cancelled jobs so far
  changes     \* what people did so far

schedulerVars == <<leader, troubles>>
exportVars == <<today, schedule, sent>>
mailVars == <<mail, delivered, smtp>>
yearVars == <<claim, carried>>
jobVars == <<schedulerVars, pc, seen, age, exportVars, mailVars, yearVars, changes>>

JobDays == 0 .. MaxDays
ExportSteps == {"select", "claim", "send"}
MailSteps == {"pick", "talk", "accepted", "refused"}
YearSteps == {"look", "insert", "take over", "check", "write", "success", "failed"}

JobTypeOK ==
  /\ leader \in JobWorkers \cup {Nothing}
  /\ pc \in [JobWorkers -> {"idle"} \cup ExportSteps \cup MailSteps \cup YearSteps]
  /\ seen \in [JobWorkers -> Nat]
  /\ age \in [JobWorkers -> 0 .. JobTimeout]
  /\ today \in JobDays
  /\ schedule \in [active : BOOLEAN, next : 1 .. MaxDays + 1 \cup {Nothing}] \cup {Nothing}
  /\ sent \in [JobDays -> Nat]
  /\ mail \in [status : {"queued", "sent", "failed", "skipped"}, attempts : Nat, due : BOOLEAN]
  /\ delivered \in Nat /\ smtp \in BOOLEAN
  /\ claim \in [status : {"none", "running", "success", "failed"}, takeovers : Nat,
                age : 0 .. StaleAfter]
  /\ carried \in Nat
  /\ troubles \in 0 .. MaxTroubles /\ changes \in 0 .. MaxChanges

JobInit ==
  /\ leader = Nothing
  /\ pc = [w \in JobWorkers |-> "idle"]
  /\ seen = [w \in JobWorkers |-> 0]
  /\ age = [w \in JobWorkers |-> 0]
  /\ today = 0
  /\ schedule = [active |-> TRUE, next |-> 1]
  /\ sent = [d \in JobDays |-> 0]
  /\ mail = [status |-> "queued", attempts |-> 0, due |-> TRUE]
  /\ delivered = 0 /\ smtp = TRUE
  /\ claim = [status |-> "none", takeovers |-> 0, age |-> 0]
  /\ carried = 0
  /\ troubles = 0 /\ changes = 0

-----------------------------------------------------------------------------
(* Moving on within a job, and from one job of the tick to the next.       *)
Goto(w, step, remembered) ==
  /\ pc' = [pc EXCEPT ![w] = step]
  /\ seen' = [seen EXCEPT ![w] = remembered]
  /\ UNCHANGED <<age, schedulerVars, changes>>

NextJob(w) ==
  IF pc[w] \in ExportSteps THEN "pick" ELSE IF pc[w] \in MailSteps THEN "look" ELSE "idle"

Done(w) ==
  /\ pc' = [pc EXCEPT ![w] = NextJob(w)]
  /\ seen' = [seen EXCEPT ![w] = 0]
  /\ age' = [age EXCEPT ![w] = 0]
  /\ UNCHANGED <<schedulerVars, changes>>

(* A tick of the leader.                                                   *)
StartTick(w) ==
  /\ leader = w /\ pc[w] = "idle"
  /\ pc' = [pc EXCEPT ![w] = "select"]
  /\ UNCHANGED <<schedulerVars, seen, age, exportVars, mailVars, yearVars, changes>>

-----------------------------------------------------------------------------
(* The scheduled reports. A run is claimed by moving next_run_at on.       *)
IsDue == schedule # Nothing /\ schedule.active /\ schedule.next # Nothing /\ schedule.next <= today

Select(w) ==
  /\ pc[w] = "select"
  /\ IF IsDue THEN Goto(w, "claim", schedule.next) ELSE Done(w)
  /\ UNCHANGED <<exportVars, mailVars, yearVars>>

(* A slip: the claim does not ask whether the run is still there.          *)
StillThere(w) == schedule # Nothing /\ schedule.active

Unclaimed(w) == schedule # Nothing /\ schedule.active /\ schedule.next = seen[w]

ClaimRun(w) ==
  /\ pc[w] = "claim"
  /\ IF Unclaimed(w)
     THEN schedule' = [schedule EXCEPT !.next = today + 1] /\ Goto(w, "send", seen[w])
     ELSE Done(w) /\ UNCHANGED schedule
  /\ UNCHANGED <<today, sent, mailVars, yearVars>>

(* run_one: nothing is sent of a report that is gone, or whose owner may   *)
(* not run it any more, or when email fails.                               *)
Send(w) ==
  /\ pc[w] = "send"
  /\ \/ sent' = [sent EXCEPT ![seen[w]] = @ + 1] /\ schedule # Nothing /\ smtp
     \/ UNCHANGED sent
  /\ Done(w)
  /\ UNCHANGED <<today, schedule, mailVars, yearVars>>

(* Pausing, resuming, editing and deleting the report.                     *)
Reschedule(to) ==
  /\ changes < MaxChanges /\ schedule # Nothing
  /\ schedule' = to
  /\ changes' = changes + 1
  /\ UNCHANGED <<schedulerVars, pc, seen, age, today, sent, mailVars, yearVars>>

Edit == Reschedule([active |-> TRUE, next |-> today + 1])
Pause == Reschedule([active |-> FALSE, next |-> Nothing])
Delete == Reschedule(Nothing)

-----------------------------------------------------------------------------
(* The outbox. An attempt is counted before the mail server is asked.      *)
PickMail(w) ==
  /\ pc[w] = "pick"
  /\ IF mail.status # "queued" \/ ~mail.due
     THEN Done(w) /\ UNCHANGED mail
     ELSE IF ~smtp
     THEN Done(w) /\ mail' = [mail EXCEPT !.status = "skipped"]
     ELSE /\ mail' = [mail EXCEPT !.attempts = @ + 1, !.due = FALSE]
          /\ Goto(w, "talk", mail.attempts + 1)
  /\ UNCHANGED <<exportVars, delivered, smtp, yearVars>>

Talk(w) ==
  /\ pc[w] = "talk"
  /\ \/ Goto(w, "accepted", seen[w]) /\ delivered' = delivered + 1
     \/ Goto(w, "refused", seen[w]) /\ UNCHANGED delivered
  /\ UNCHANGED <<exportVars, mail, smtp, yearVars>>

Settle(w) ==
  /\ pc[w] \in {"accepted", "refused"}
  /\ mail' = IF pc[w] = "accepted" THEN [mail EXCEPT !.status = "sent"]
             ELSE IF seen[w] >= MostTries THEN [mail EXCEPT !.status = "failed"]
             ELSE mail
  /\ Done(w)
  /\ UNCHANGED <<exportVars, delivered, smtp, yearVars>>

(* The next attempt is due; an administrator tries again, or sets email up *)
(* or switches it off.                                                     *)
Backoff ==
  /\ mail.status = "queued" /\ ~mail.due
  /\ mail' = [mail EXCEPT !.due = TRUE]
  /\ UNCHANGED <<schedulerVars, pc, seen, age, exportVars, delivered, smtp, yearVars, changes>>

Retry ==
  /\ changes < MaxChanges /\ mail.status \in {"failed", "skipped"}
  /\ mail' = [status |-> "queued", attempts |-> 0, due |-> TRUE]
  /\ changes' = changes + 1
  /\ UNCHANGED <<schedulerVars, pc, seen, age, exportVars, delivered, smtp, yearVars>>

SwitchEmail ==
  /\ changes < MaxChanges
  /\ smtp' = ~smtp
  /\ changes' = changes + 1
  /\ UNCHANGED <<schedulerVars, pc, seen, age, exportVars, mail, delivered, yearVars>>

-----------------------------------------------------------------------------
(* The year end. The ledger's row of the year is looked at first, inserted *)
(* if there is none, and taken over if it is stale.                        *)

(* A slip: a claim is never taken over.                                    *)
StaleNever == FALSE

Stale == claim.age >= StaleAfter

Look(w) ==
  /\ pc[w] = "look"
  /\ CASE claim.status = "none"               -> Goto(w, "insert", 0)
       [] claim.status = "running" /\ Stale   -> Goto(w, "take over", claim.takeovers)
       [] OTHER                               -> Done(w)
  /\ UNCHANGED <<exportVars, mailVars, yearVars>>

Free(w) == claim.status = "none"

Insert(w) ==
  /\ pc[w] = "insert"
  /\ IF Free(w)
     THEN claim' = [status |-> "running", takeovers |-> 0, age |-> 0] /\ Goto(w, "check", 0)
     ELSE Done(w) /\ UNCHANGED claim
  /\ UNCHANGED <<exportVars, mailVars, carried>>

TakeOver(w) ==
  /\ pc[w] = "take over"
  /\ IF claim.status = "running" /\ claim.takeovers = seen[w]
     THEN claim' = [claim EXCEPT !.takeovers = @ + 1, !.age = 0] /\ Goto(w, "check", 0)
     ELSE Done(w) /\ UNCHANGED claim
  /\ UNCHANGED <<exportVars, mailVars, carried>>

(* _run_carry_over: what is there already is looked up, and what is        *)
(* missing is committed later, all together; or the job fails.             *)
Check(w) ==
  /\ pc[w] = "check"
  /\ Goto(w, "write", carried) \/ Goto(w, "failed", 0)
  /\ UNCHANGED <<exportVars, mailVars, yearVars>>

WriteRows(w) ==
  /\ pc[w] = "write"
  /\ carried' = IF seen[w] = 0 THEN carried + 1 ELSE carried
  /\ Goto(w, "success", 0)
  /\ UNCHANGED <<exportVars, mailVars, claim>>

(* finish() writes over whatever the row says.                             *)
Finish(w) ==
  /\ pc[w] \in {"success", "failed"}
  /\ claim' = [claim EXCEPT !.status = pc[w]]
  /\ Done(w)
  /\ UNCHANGED <<exportVars, mailVars, carried>>

-----------------------------------------------------------------------------
(* Time, and what goes wrong.                                              *)

TakeLead(w) ==
  /\ leader = Nothing
  /\ leader' = w
  /\ UNCHANGED <<troubles, pc, seen, age, exportVars, mailVars, yearVars, changes>>

Trouble ==
  /\ troubles < MaxTroubles
  /\ troubles' = troubles + 1
  /\ UNCHANGED <<exportVars, mailVars, yearVars, changes>>

LoseLead ==
  /\ Trouble
  /\ leader # Nothing /\ leader' = Nothing
  /\ UNCHANGED <<pc, seen, age>>

Stops(w, step) ==
  /\ pc' = [pc EXCEPT ![w] = step]
  /\ seen' = [seen EXCEPT ![w] = 0]
  /\ age' = [age EXCEPT ![w] = 0]

Die(w) ==
  /\ Trouble
  /\ pc[w] # "idle" /\ Stops(w, "idle")
  /\ leader' = IF leader = w THEN Nothing ELSE leader

(* wait_for cancels the job, and the tick goes on with the next one.       *)
Cancel(w) ==
  /\ Trouble
  /\ age[w] = JobTimeout /\ Stops(w, NextJob(w))
  /\ UNCHANGED leader

(* As much time as a job may take passes; nothing runs for longer.         *)
TimePasses ==
  /\ \A w \in JobWorkers : age[w] < JobTimeout
  /\ age' = [w \in JobWorkers |-> IF pc[w] = "idle" THEN 0 ELSE age[w] + 1]
  /\ claim' = [claim EXCEPT !.age = IF claim.status = "running" /\ @ < StaleAfter THEN @ + 1 ELSE @]
  /\ <<age, claim>> # <<age', claim'>>
  /\ UNCHANGED <<schedulerVars, pc, seen, exportVars, mailVars, carried, changes>>

NextDay ==
  /\ today < MaxDays
  /\ today' = today + 1
  /\ UNCHANGED <<schedulerVars, pc, seen, age, schedule, sent, mailVars, yearVars, changes>>

Exports(w) == Select(w) \/ ClaimRun(w) \/ Send(w)
Outbox(w) == PickMail(w) \/ Talk(w) \/ Settle(w)
YearEnd(w) == Look(w) \/ Insert(w) \/ TakeOver(w) \/ Check(w) \/ WriteRows(w) \/ Finish(w)
Work(w) == StartTick(w) \/ Exports(w) \/ Outbox(w) \/ YearEnd(w)

People == Edit \/ Pause \/ Delete \/ Retry \/ SwitchEmail
Clock == TimePasses \/ NextDay \/ Backoff

JobNext ==
  \/ \E w \in JobWorkers : Work(w) \/ TakeLead(w) \/ Die(w) \/ Cancel(w)
  \/ LoseLead
  \/ People
  \/ Clock

(* Every process goes on with its tick, one of them leads, and time passes.*)
JobSpec ==
  /\ JobInit /\ [][JobNext]_jobVars
  /\ \A w \in JobWorkers : WF_jobVars(Work(w))
  /\ WF_jobVars(\E w \in JobWorkers : TakeLead(w))
  /\ WF_jobVars(TimePasses) /\ WF_jobVars(Backoff)

-----------------------------------------------------------------------------
(* "A due schedule is sent once": no run of the report is sent twice,      *)
(* whichever processes find it due, and whoever crashes or edits it.       *)
EachRunIsSentOnce == \A d \in JobDays : sent[d] <= 1

(* Every additional copy of an email has a crash, a lost connection or a   *)
(* cancelled job behind it.                                                *)
NoCopiesWithoutTrouble == delivered <= 1 + troubles

(* The days are carried over once, and the ledger does not say so of days  *)
(* that were not, though a claim may be taken over from a process whose    *)
(* job went on.                                                            *)
CarriedOverOnce == carried <= 1 /\ (claim.status = "success" => carried = 1)

(* What is due is dealt with in the end: the email leaves the queue, the   *)
(* report moves on to its next run, the year is closed or has failed.      *)
WorkIsDone ==
  /\ (mail.status = "queued") ~> (mail.status # "queued")
  /\ IsDue ~> ~IsDue
  /\ <>(claim.status \in {"success", "failed"})

(* No claim lets work be done twice, whoever leads, crashes or is          *)
(* cancelled.                                                              *)
WorkIsNotRepeated ==
  JobTypeOK /\ EachRunIsSentOnce /\ NoCopiesWithoutTrouble /\ CarriedOverOnce
=============================================================================
