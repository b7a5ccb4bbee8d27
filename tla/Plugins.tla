------------------------------ MODULE Plugins ------------------------------
(***************************************************************************)
(* A paid plugin: the licence it runs under, its settings, and the queue   *)
(* of events that the scheduler delivers to it.  Licences are judged in    *)
(* days.  A delivery's backoff is much shorter: it passes at any moment    *)
(* after an attempt, but not while the attempt still runs.                 *)
(***************************************************************************)
EXTENDS Integers, FiniteSets

CONSTANTS
    Keys,          \* licence keys signed for this install
    NoKey,
    Grace,         \* days a plugin runs on after its licence expired
    OverGrace,     \* days it runs with more employees than seats
    Events,        \* reported changes, each queued once at most
    MaxAttempts,
    LastLicenceDay,       \* bound on the clock
    MostEmployees, \* bound on the active accounts
    MaxMoves       \* bound on what administrators, clock and crashes may do

Never == -1
Unlimited == -1  \* a licence without a limit on employees; 0 is a limit

ASSUME PluginAssumption ==
    /\ NoKey \notin Keys
    /\ \A k \in Keys : k.issued \in Nat /\ k.expires \in Nat /\ k.seats \in Nat \union {Unlimited} /\ k.trial \in BOOLEAN
    /\ {Grace, OverGrace, LastLicenceDay, MaxMoves} \subseteq Nat /\ {MostEmployees, MaxAttempts} \subseteq Nat \ {0}

VARIABLES
    clock,      \* the system clock
    mark,       \* licence_state.high_water
    over,       \* licence_state.over_since: more people than seats since then
    key,        \* the applied key
    staff,      \* active accounts
    installed,  \* this version of the server has the plugin, and it loads
    setting,    \* the row of plugin_settings
    queue,      \* queue[e]: the row of plugin_event_outbox
    batch,      \* the scheduler's job: what it picked, and what it has read
    received,   \* the events that reached the receiver
    lapsed,     \* history: the hourly job has found this key expired
    moves

pluginVars == <<clock, mark, over, key, staff, installed, setting, queue, batch, received, lapsed, moves>>

licenceVars == <<clock, mark, over, key, staff, lapsed>>
hostVars == <<installed, setting, queue, batch, received>>

Unsent == [status |-> "none", attempts |-> 0, due |-> FALSE]
Idle == [picked |-> {}, open |-> FALSE, view |-> FALSE, on |-> "unread", handling |-> {}]

PluginTypeOK ==
    /\ clock \in 0..LastLicenceDay /\ mark \in Nat /\ over \in Nat \union {Never}
    /\ key \in Keys \union {NoKey} /\ staff \in 0..MostEmployees /\ lapsed \in BOOLEAN
    /\ installed \in BOOLEAN /\ setting \in [on : BOOLEAN, filled : BOOLEAN]
    /\ \A e \in Events : queue[e].status \in {"none", "queued", "sent", "failed", "skipped"}
    /\ received \subseteq Events

PluginInit ==
    /\ clock = 0 /\ mark = 0 /\ over = Never /\ key = NoKey /\ staff = 1 /\ lapsed = FALSE
    /\ installed = TRUE
    /\ setting = [on |-> FALSE, filled |-> FALSE]
    /\ queue = [e \in Events |-> Unsent]
    /\ batch = Idle
    /\ received = {}
    /\ moves = 0

Move == moves < MaxMoves /\ moves' = moves + 1

-----------------------------------------------------------------------------
(* The licence.                                                            *)

Later(a, b) == IF a >= b THEN a ELSE b

\* effective_now: neither the clock set back nor an old state goes below what
\* has been seen.
Judged(told, seen) == Later(Later(told, seen), IF key = NoKey THEN 0 ELSE key.issued)
Today == Judged(clock, mark)

ExpiredOn(d) == d > key.expires + (IF key.trial THEN 0 ELSE Grace)
Crowded == key.seats # Unlimited /\ staff > key.seats
OverSince == IF over = Never THEN Today ELSE over

\* evaluate: active, trial, in grace, or over the limit for a while.
Runs == /\ installed /\ key # NoKey
        /\ ~ExpiredOn(Today)
        /\ Crowded => Today - OverSince < OverGrace

\* apply: no older key takes the place of a newer one, and the signed issue
\* time resets the mark.
ApplyKey(k) ==
    /\ Move
    /\ key # NoKey => key.issued <= k.issued
    /\ key' = k
    /\ mark' = Later(clock, k.issued)
    /\ lapsed' = FALSE
    /\ UNCHANGED <<clock, over, staff>> /\ UNCHANGED hostVars

RemoveKey ==
    /\ Move
    /\ key # NoKey
    /\ key' = NoKey
    /\ lapsed' = FALSE
    /\ UNCHANGED <<clock, mark, over, staff>> /\ UNCHANGED hostVars

\* The high-water mark only ever rises.
Marked == Later(mark, clock)

\* run_hourly.
LicenceUpkeep ==
    /\ mark' = Marked
    /\ over' = IF key # NoKey /\ Crowded
               THEN IF over = Never THEN Judged(clock, mark') ELSE over
               ELSE Never
    /\ lapsed' = (lapsed \/ (key # NoKey /\ ExpiredOn(Judged(clock, mark'))))
    /\ UNCHANGED <<clock, key, staff, moves>> /\ UNCHANGED hostVars

Hire == /\ Move /\ staff < MostEmployees /\ staff' = staff + 1
        /\ UNCHANGED <<clock, mark, over, key, lapsed>> /\ UNCHANGED hostVars
Leave == /\ Move /\ staff > 0 /\ staff' = staff - 1
         /\ UNCHANGED <<clock, mark, over, key, lapsed>> /\ UNCHANGED hostVars

DayBegins == /\ clock < LastLicenceDay /\ clock' = clock + 1
             /\ UNCHANGED <<mark, over, key, staff, lapsed, moves>> /\ UNCHANGED hostVars
SetClockBack == /\ Move /\ clock' \in 0..(clock - 1)
                /\ UNCHANGED <<mark, over, key, staff, lapsed>> /\ UNCHANGED hostVars

-----------------------------------------------------------------------------
(* The plugin and its settings.                                            *)

\* save_settings: what is required cannot be emptied while the plugin is on.
SaveSettings(filled) ==
    /\ Move
    /\ setting.on => filled
    /\ setting' = [setting EXCEPT !.filled = filled]
    /\ UNCHANGED licenceVars /\ UNCHANGED <<installed, queue, batch, received>>

Enable ==
    /\ Move
    /\ Runs /\ setting.filled
    /\ setting' = [setting EXCEPT !.on = TRUE]
    /\ UNCHANGED licenceVars /\ UNCHANGED <<installed, queue, batch, received>>

Disable ==
    /\ Move
    /\ setting.on
    /\ setting' = [setting EXCEPT !.on = FALSE]
    /\ UNCHANGED licenceVars /\ UNCHANGED <<installed, queue, batch, received>>

\* The server restarts, perhaps into a version without the plugin.
Restart ==
    /\ Move
    /\ installed' \in BOOLEAN
    /\ batch' = Idle
    /\ UNCHANGED licenceVars /\ UNCHANGED <<setting, queue, received>>

-----------------------------------------------------------------------------
(* The queue.                                                              *)

\* publish, in the transaction of the change: a row for a plugin that is on and
\* licensed, or none.
Publish(e) ==
    /\ queue[e].status = "none"
    /\ setting.on /\ Runs
    /\ queue' = [queue EXCEPT ![e] = [status |-> "queued", attempts |-> 0, due |-> TRUE]]
    /\ UNCHANGED licenceVars /\ UNCHANGED <<installed, setting, batch, received, moves>>

Due == {e \in Events : queue[e].status = "queued" /\ queue[e].due}

\* deliver picks what is due and judges the licence once.
Pick ==
    /\ ~batch.open
    /\ Due # {}
    /\ batch' = [Idle EXCEPT !.picked = Due, !.open = TRUE, !.view = Runs]
    /\ UNCHANGED licenceVars /\ UNCHANGED <<installed, setting, queue, received, moves>>

\* The row of settings is read once: the session keeps what it has read.
On == IF batch.on = "unread" THEN setting.on ELSE batch.on = "on"
ReadBatch == [batch EXCEPT !.on = IF On THEN "on" ELSE "off"]

Skip(e) ==
    /\ batch.open /\ batch.handling = {} /\ e \in batch.picked
    /\ ~(installed /\ On /\ batch.view)
    /\ queue' = [queue EXCEPT ![e].status = "skipped"]
    /\ batch' = [ReadBatch EXCEPT !.picked = @ \ {e}]
    /\ UNCHANGED licenceVars /\ UNCHANGED <<installed, setting, received, moves>>

\* The attempt and its backoff are committed before the plugin runs.
Attempt(e) ==
    /\ batch.open /\ batch.handling = {} /\ e \in batch.picked
    /\ installed /\ On /\ batch.view
    /\ queue' = [queue EXCEPT ![e].attempts = @ + 1, ![e].due = FALSE]
    /\ batch' = [ReadBatch EXCEPT !.picked = @ \ {e}, !.handling = {e}]
    /\ UNCHANGED licenceVars /\ UNCHANGED <<installed, setting, received, moves>>

Settled(e, ok) ==
    [queue EXCEPT ![e].status = IF ok THEN "sent"
                                ELSE IF @ = "queued" /\ queue[e].attempts >= MaxAttempts THEN "failed"
                                ELSE @]

\* A slip: the secrets are opened on the word of the batch.
MayOpenByBatch == batch.view

\* _runtime asks again where the secrets are decrypted.
MayOpen == Runs

\* The handler runs, and its end is committed: it answered, or it failed, or it
\* reached the receiver and failed nevertheless (a time-out).
Handle(e) ==
    /\ e \in batch.handling
    /\ \/ /\ MayOpen
          /\ received' = received \union {e}
          /\ queue' \in {Settled(e, TRUE), Settled(e, FALSE)}
       \/ /\ queue' = Settled(e, FALSE)
          /\ UNCHANGED received
    /\ batch' = [batch EXCEPT !.handling = {}]
    /\ UNCHANGED licenceVars /\ UNCHANGED <<installed, setting, moves>>

EndBatch ==
    /\ batch.open /\ batch.picked = {} /\ batch.handling = {}
    /\ batch' = Idle
    /\ UNCHANGED licenceVars /\ UNCHANGED <<installed, setting, queue, received, moves>>

BackoffPasses(e) ==
    /\ queue[e].status = "queued" /\ ~queue[e].due /\ e \notin batch.handling
    /\ queue' = [queue EXCEPT ![e].due = TRUE]
    /\ UNCHANGED licenceVars /\ UNCHANGED <<installed, setting, batch, received, moves>>

\* The process dies with a handler running; the receiver may have got it.
CrashInDelivery(e) ==
    /\ Move
    /\ e \in batch.handling
    /\ received' \in {received, received \union {e}}
    /\ MayOpen \/ received' = received
    /\ batch' = Idle
    /\ UNCHANGED licenceVars /\ UNCHANGED <<installed, setting, queue>>

\* retry_delivery: an administrator sends it again.
RetryDelivery(e) ==
    /\ Move
    /\ queue[e].status \in {"failed", "skipped"}
    /\ queue' = [queue EXCEPT ![e] = [status |-> "queued", attempts |-> 0, due |-> TRUE]]
    /\ UNCHANGED licenceVars /\ UNCHANGED <<installed, setting, batch, received>>

-----------------------------------------------------------------------------
Delivering == Pick \/ EndBatch \/ \E e \in Events : Skip(e) \/ Attempt(e) \/ Handle(e)

PluginNext ==
    \/ \E k \in Keys : ApplyKey(k)
    \/ RemoveKey \/ LicenceUpkeep \/ Hire \/ Leave \/ DayBegins \/ SetClockBack
    \/ \E filled \in BOOLEAN : SaveSettings(filled)
    \/ Enable \/ Disable \/ Restart
    \/ \E e \in Events : Publish(e) \/ BackoffPasses(e) \/ CrashInDelivery(e) \/ RetryDelivery(e)
    \/ Delivering

\* The scheduler goes on, and backoffs pass.
PluginFairness == WF_pluginVars(Delivering) /\ \A e \in Events : WF_pluginVars(BackoffPasses(e))
PluginSpec == PluginInit /\ [][PluginNext]_pluginVars /\ PluginFairness

-----------------------------------------------------------------------------
(* Nothing reaches a plugin's receiver but while the licence runs, however *)
(* long ago the batch judged it, and only if the plugin was on when the    *)
(* batch first looked.                                                     *)
ReceivedUnderLicence ==
    [][received' # received => Runs /\ batch.on = "on"]_pluginVars

(* Once the hourly job has found the key expired, setting the clock back   *)
(* does not start the plugin again: only applying a key does.              *)
ExpiryStands == lapsed => ~Runs

(* Delivery is at least once, and honest: what is marked sent was received *)
(* and what is given up was tried as often as promised, the attempts a     *)
(* crash cut short included.                                               *)
DeliveriesAreHonest ==
    \A e \in Events :
        /\ queue[e].status = "sent" => e \in received
        /\ queue[e].status = "failed" => queue[e].attempts >= MaxAttempts
        /\ batch.handling = {e} => queue[e].attempts > 0

(* A queued event is settled in the end: sent, given up or skipped.        *)
EventsAreSettled ==
    \A e \in Events : (queue[e].status = "queued") ~> (queue[e].status # "queued")

(* A plugin's events are delivered under its licence, at least once, and   *)
(* the records of both tell the truth.                                     *)
PluginsKeepTheLicence ==
    [](PluginTypeOK /\ ExpiryStands /\ DeliveriesAreHonest) /\ ReceivedUnderLicence
=============================================================================
