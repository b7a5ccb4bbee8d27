--------------------------- MODULE ReminderLedger ---------------------------
(***************************************************************************)
(* The daily leave job when more than one server process is running:       *)
(* services/scheduler.py elects the process that runs the jobs with a      *)
(* PostgreSQL advisory lock, and leave_reminder_service claims each        *)
(* reminder, escalation and expiry with a row of leave_approval_events.    *)
(*                                                                         *)
(* One request with one step, waiting since day 0 for an approver who does *)
(* not decide. What the job sends is committed together with its row, so   *)
(* the rows are also the notices people receive.                           *)
(***************************************************************************)
EXTENDS Integers

CONSTANTS
  Workers,        \* the server processes
  NoWorker,
  RemindAfter,    \* AppSettings.leave_reminder_after_days
  EscalateAfter,  \* AppSettings.leave_escalate_after_days, 0 = never
  LastDay,        \* the request's end_date
  MaxDay,         \* bound: the model's last day
  MaxFailures     \* bound: connections lost, crashes and time-outs

ASSUME LedgerAssumption ==
  /\ NoWorker \notin Workers
  /\ RemindAfter \in Nat \ {0} /\ EscalateAfter \in Nat
  /\ LastDay \in Nat /\ MaxDay \in Nat /\ LastDay < MaxDay
  /\ MaxFailures \in Nat

VARIABLES
  day,        \* the tenant's day
  status,     \* the request: "pending" or "expired"
  escalated,  \* the days it was escalated on
  rows,       \* <<action, day>> -> committed ledger rows
  lock,       \* the worker whose database session holds the advisory lock
  leads,      \* the workers that believe they lead (LeaderLock._conn is set)
  run,        \* worker -> the run it is in the middle of
  failures

vars == <<day, status, escalated, rows, lock, leads, run, failures>>

Actions == {"reminder", "escalate", "expire"}
Days == 0 .. MaxDay
NoRun == [phase |-> "none", today |-> 0, escalated |-> {}, action |-> "none"]

Init ==
  /\ day = 0 /\ status = "pending" /\ escalated = {}
  /\ rows = [key \in Actions \X Days |-> 0]
  /\ lock = NoWorker /\ leads = {} /\ failures = 0
  /\ run = [w \in Workers |-> NoRun]

-----------------------------------------------------------------------------
(* LeaderLock.hold, when the worker has no connection. *)
Elect(w) ==
  /\ w \notin leads /\ run[w] = NoRun /\ lock = NoWorker
  /\ lock' = w /\ leads' = leads \cup {w}
  /\ UNCHANGED <<day, status, escalated, rows, run, failures>>

(* hold() steps down when the connection turns out to be dead.             *)
NoticeLoss(w) ==
  /\ w \in leads /\ run[w] = NoRun /\ lock # w
  /\ leads' = leads \ {w}
  /\ UNCHANGED <<day, status, escalated, rows, lock, run, failures>>

(* run_for_tenant works out the tenant's day and reads the request and its *)
(* events; only a pending request is looked at.                            *)
Read(w) ==
  /\ w \in leads /\ run[w] = NoRun /\ lock = w
  /\ status = "pending"
  /\ run' = [run EXCEPT ![w] =
       [phase |-> "read", today |-> day, escalated |-> escalated, action |-> "none"]]
  /\ UNCHANGED <<day, status, escalated, rows, lock, leads, failures>>

Waited(seen) ==
  IF seen.escalated = {} THEN seen.today
  ELSE seen.today - (CHOOSE d \in seen.escalated : \A e \in seen.escalated : e <= d)

(* What a run wants to do about what it read. A claim that fails moves it  *)
(* on: from the escalation to the reminder, from either end to nothing.    *)
Wants(seen, action) ==
  CASE action = "expire" -> LastDay < seen.today
    [] action = "escalate" ->
         /\ LastDay >= seen.today
         /\ EscalateAfter > 0 /\ Waited(seen) >= EscalateAfter /\ seen.escalated = {}
    [] action = "reminder" -> LastDay >= seen.today /\ Waited(seen) >= RemindAfter

Refused(seen, action) == rows[<<action, seen.today>>] > 0

Chosen(seen, action) ==
  /\ Wants(seen, action) /\ ~Refused(seen, action)
  /\ action = "reminder" /\ Wants(seen, "escalate") => Refused(seen, "escalate")

(* A slip: no unique index. *)
NeverBlocked(w, action) == FALSE

(* The unique index makes an insert wait for another transaction with the  *)
(* same (step, action, day). An expiry has no step, and NULLs are distinct.*)
Blocked(w, action) ==
  /\ action # "expire"
  /\ \E v \in Workers \ {w} :
       run[v].phase = "claimed" /\ run[v].action = action /\ run[v].today = run[w].today

(* _claim. *)
Claim(w, action) ==
  /\ run[w].phase = "read"
  /\ Chosen(run[w], action)
  /\ ~Blocked(w, action)
  /\ action = "reminder" /\ Wants(run[w], "escalate") => ~Blocked(w, "escalate")
  /\ run' = [run EXCEPT ![w].phase = "claimed", ![w].action = action]
  /\ UNCHANGED <<day, status, escalated, rows, lock, leads, failures>>

NothingToDo(w) ==
  /\ run[w].phase = "read"
  /\ \A action \in Actions : ~Chosen(run[w], action)
  /\ run' = [run EXCEPT ![w] = NoRun]
  /\ UNCHANGED <<day, status, escalated, rows, lock, leads, failures>>

(* The tenant's commit: the row, what it did, and its notices.             *)
Commit(w) ==
  LET mine == run[w]
  IN /\ mine.phase = "claimed"
     /\ rows' = [rows EXCEPT ![<<mine.action, mine.today>>] = @ + 1]
     /\ status' = IF mine.action = "expire" THEN "expired" ELSE status
     /\ escalated' = IF mine.action = "escalate" THEN escalated \cup {mine.today} ELSE escalated
     /\ run' = [run EXCEPT ![w] = NoRun]
     /\ UNCHANGED <<day, lock, leads, failures>>

-----------------------------------------------------------------------------
(* The leader's own connection drops: the server frees the lock, while the *)
(* job, on a connection of the pool, goes on.                              *)
LoseConnection(w) ==
  /\ lock = w /\ failures < MaxFailures
  /\ lock' = NoWorker /\ failures' = failures + 1
  /\ UNCHANGED <<day, status, escalated, rows, leads, run>>

(* The run is rolled back: JOB_TIMEOUT, or an exception in the job.        *)
Abort(w) ==
  /\ run[w] # NoRun /\ failures < MaxFailures
  /\ run' = [run EXCEPT ![w] = NoRun] /\ failures' = failures + 1
  /\ UNCHANGED <<day, status, escalated, rows, lock, leads>>

Crash(w) ==
  /\ failures < MaxFailures
  /\ failures' = failures + 1
  /\ run' = [run EXCEPT ![w] = NoRun]
  /\ leads' = leads \ {w}
  /\ lock' = IF lock = w THEN NoWorker ELSE lock
  /\ UNCHANGED <<day, status, escalated, rows>>

Tick ==
  /\ day < MaxDay
  /\ day' = day + 1
  /\ UNCHANGED <<status, escalated, rows, lock, leads, run, failures>>

Progress(w) ==
  \/ Elect(w) \/ NoticeLoss(w) \/ Read(w) \/ NothingToDo(w) \/ Commit(w)
  \/ \E action \in Actions : Claim(w, action)

Next ==
  \/ \E w \in Workers : Progress(w) \/ LoseConnection(w) \/ Abort(w) \/ Crash(w)
  \/ Tick

(* Every worker's scheduler_loop goes round (tick_seconds), and the clock. *)
Fairness == WF_vars(Tick) /\ \A w \in Workers : WF_vars(Progress(w))

Spec == Init /\ [][Next]_vars /\ Fairness

-----------------------------------------------------------------------------
(* The types; and whoever holds the leadership lock knows it leads (else   *)
(* the lock would be held for ever with nobody running the jobs).          *)
TypeOK ==
  /\ day \in Days /\ status \in {"pending", "expired"} /\ escalated \subseteq Days
  /\ rows \in [Actions \X Days -> Nat]
  /\ leads \subseteq Workers /\ lock \in leads \cup {NoWorker}
  /\ run \in [Workers -> [phase : {"none", "read", "claimed"}, today : Days,
                          escalated : SUBSET Days, action : Actions \cup {"none"}]]
  /\ failures \in 0 .. MaxFailures

(* Nobody is reminded, and no step passed on, twice on the same day, also  *)
(* while two workers believe they lead.                                    *)
StepNoticesOnceADay ==
  \A action \in Actions \ {"expire"}, d \in Days : rows[<<action, d>>] <= 1

(* The request does not stay pending past its last day, though workers     *)
(* lose their leadership and their runs on the way.                        *)
ExpiresInTheEnd == <>(status = "expired")

(* The rows of the ledger are the notices people get: one reminder and one *)
(* escalation of a step a day. An expiry may be told of twice.             *)
NoticesAreSole ==
  TypeOK /\ StepNoticesOnceADay
=============================================================================
