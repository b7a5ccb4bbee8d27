------------------------------ MODULE Holidays ------------------------------
(***************************************************************************)
(* A company's calendar of holidays and the feed it is kept up to date     *)
(* from: administrators enter, edit, move and delete remarks, a sync       *)
(* merges what the feed says, and both give everybody who has nothing      *)
(* planned on a holiday the day off and take it back. The day is that of   *)
(* one employee. The sync is two steps, because the feed is fetched over   *)
(* the network first and the calendar is read when it has answered.        *)
(***************************************************************************)
EXTENDS Integers, FiniteSets, FiniteSetsExt

CONSTANTS
  Dates,      \* dates, as integers
  Year,       \* after how many of them a date recurs
  Regions,
  National,   \* of a feed holiday that is not regional
  Feeds,      \* what the feed may say: sets of [date, region, kind]
  Down,       \* the feed cannot be used
  NoFetch,    \* no sync under way
  MaxEdits    \* bound on what people do

ASSUME HolidayAssumption ==
  /\ Dates \subseteq Nat \ {0} /\ \E n \in Dates : Dates = 1 .. n
  /\ Year \in Nat \ {0}
  /\ National \notin Regions /\ Down \notin Feeds

VARIABLES
  remarks,   \* the row of date_remarks of each date
  dayOf,    \* the employee's day: Empty, PlannedOff, or the date of the remark
             \* whose holiday_off it holds
  feed,      \* what the feed would answer now
  regions,   \* include_regions
  autoOff,   \* auto_create_holiday_off
  autoSync,  \* auto_sync
  synced,    \* a successful sync within SYNC_EVERY
  failed,    \* a failed one within RETRY_AFTER_FAILURE
  fetched,   \* what the sync under way has read of the feed and the source
  today,
  edits

holidayVars ==
  <<remarks, dayOf, feed, regions, autoOff, autoSync, synced, failed, fetched, today, edits>>
calendarVars == <<remarks, dayOf>>
sourceVars == <<feed, regions, autoSync, synced, failed, fetched>>

HolidayKinds == {"regular", "special", "review"}
Remark == [source : {"manual", "feed"}, kind : HolidayKinds, holiday : BOOLEAN, recurring : BOOLEAN,
           edited : BOOLEAN, gone : BOOLEAN]
NoRemark == [source |-> "none"]
Empty == 0
PlannedOff == -1

HolidayTypeOK ==
  /\ remarks \in [Dates -> Remark \cup {NoRemark}]
  /\ dayOf \in [Dates -> {Empty, PlannedOff} \cup Dates]
  /\ feed \in Feeds \cup {Down} /\ regions \subseteq Regions
  /\ fetched = NoFetch \/ fetched.holidays \in Feeds \cup {Down}
  /\ today \in Dates

HolidayInit ==
  /\ remarks = [d \in Dates |-> NoRemark]
  /\ dayOf = [d \in Dates |-> Empty]
  /\ feed \in Feeds \cup {Down} /\ regions = {}
  /\ autoOff \in BOOLEAN /\ autoSync \in BOOLEAN
  /\ synced = FALSE /\ failed = FALSE /\ fetched = NoFetch
  /\ today = Min(Dates) /\ edits = 0

Edited == edits < MaxEdits /\ edits' = edits + 1

There(d) == remarks[d] # NoRemark /\ ~remarks[d].gone

-----------------------------------------------------------------------------
(* The days off a holiday gives.                                           *)

\* _generation_dates: a recurring one over the year from today.
GenerationDates(r, d) ==
  IF ~r.holiday \/ r.gone THEN {}
  ELSE IF ~r.recurring THEN {d}
  ELSE {e \in Dates : e >= today /\ e <= today + Year /\ e >= d /\ (e - d) % Year = 0}

\* apply_holiday_off, _generate_holiday_off_shifts: additive only.
GivenOff(days, d, on) ==
  [e \in Dates |-> IF autoOff /\ e \in on /\ days[e] = Empty THEN d ELSE days[e]]

\* remove_generated_holiday_off.
OffTakenBack(days, d, on) == [e \in Dates |-> IF e \in on /\ days[e] = d THEN Empty ELSE days[e]]

\* The days off point to the row, wherever it moves.
Following(days, d, e) == [x \in Dates |-> IF days[x] = d THEN e ELSE days[x]]

-----------------------------------------------------------------------------
(* Administrators of the calendar.                                         *)

\* A tombstone becomes the new remark.
CreateDateRemark(d, kind, holiday, recurring) ==
  LET r == [source |-> "manual", kind |-> kind, holiday |-> holiday, recurring |-> recurring,
            edited |-> FALSE, gone |-> FALSE]
  IN /\ Edited
     /\ ~There(d)
     /\ remarks' = [remarks EXCEPT ![d] = r]
     /\ dayOf' = GivenOff(dayOf, d, GenerationDates(r, d))
     /\ UNCHANGED <<sourceVars, autoOff, today>>

LeftOff(days, d, old, new) == OffTakenBack(days, d, old \ new)

UpdateDateRemark(d, e, kind, holiday, recurring) ==
  LET r == [source |-> remarks[d].source, kind |-> kind, holiday |-> holiday, recurring |-> recurring,
            edited |-> remarks[d].edited \/ remarks[d].source = "feed", gone |-> FALSE]
      old == GenerationDates(remarks[d], d)
      new == GenerationDates(r, e)
  IN /\ Edited
     /\ There(d)
     /\ e # d => ~There(e)
     /\ e # d \/ kind # remarks[d].kind \/ holiday # remarks[d].holiday \/ recurring # remarks[d].recurring
     /\ remarks' = [[remarks EXCEPT ![d] = NoRemark] EXCEPT ![e] = r]
     /\ dayOf' = GivenOff(Following(LeftOff(dayOf, d, old, new), d, e), e, new \ old)
     /\ UNCHANGED <<sourceVars, autoOff, today>>

\* delete_date_remark: of a feed holiday a tombstone stays.
DeleteDateRemark(d) ==
  /\ Edited
  /\ There(d)
  /\ remarks' = [remarks EXCEPT ![d] =
       IF @.source = "feed" THEN [@ EXCEPT !.gone = TRUE, !.holiday = FALSE] ELSE NoRemark]
  /\ dayOf' = OffTakenBack(dayOf, d, Dates)
  /\ UNCHANGED <<sourceVars, autoOff, today>>

\* set_holiday_source: the status was that of the feed before.
SetSource(wanted, auto, f) ==
  /\ Edited
  /\ <<wanted, auto, f>> # <<regions, autoSync, feed>>
  /\ regions' = wanted /\ autoSync' = auto /\ feed' = f
  /\ failed' = (failed /\ f = feed)
  /\ UNCHANGED <<calendarVars, synced, fetched, autoOff, today>>

SetAutoOff ==
  /\ Edited
  /\ autoOff' = ~autoOff
  /\ UNCHANGED <<calendarVars, sourceVars, today>>

\* A planner fills a day or clears it.
PlanDay(d) ==
  /\ Edited
  /\ dayOf' = [dayOf EXCEPT ![d] = IF @ = PlannedOff THEN Empty ELSE PlannedOff]
  /\ UNCHANGED <<remarks, sourceVars, autoOff, today>>

-----------------------------------------------------------------------------
(* What the feed says.                                                     *)

\* classify: when the feed labels any of its holidays, one it does not label
\* is for somebody to look at.
Classified(h, all) ==
  IF h.kind # "unlabelled" THEN h.kind
  ELSE IF \E o \in all : o.kind # "unlabelled" THEN "review" ELSE "regular"

WantedOn(d, f) == {h \in f.holidays : h.date = d /\ h.region \in f.regions \cup {National}}
Announced(f) == {d \in Dates : WantedOn(d, f) # {}}

\* desired_by_date: a regular holiday makes the day regular.
DesiredKind(d, f) ==
  LET kinds == {Classified(h, f.holidays) : h \in WantedOn(d, f)}
  IN CASE kinds = {"special"} -> "special"
       [] "regular" \in kinds -> "regular"
       [] OTHER -> "review"

FromFeed(kind) == [source |-> "feed", kind |-> kind, holiday |-> TRUE, recurring |-> FALSE,
                   edited |-> FALSE, gone |-> FALSE]

\* A slip: whether somebody has edited the row is not asked.
UntouchedOrEdited(r) == r # NoRemark /\ r.source = "feed" /\ ~r.gone

Untouched(r) == r # NoRemark /\ r.source = "feed" /\ ~r.gone /\ ~r.edited

ToAdd(rows, f) == {d \in Announced(f) : rows[d] = NoRemark}
ToChange(rows, f) ==
  {d \in Announced(f) : Untouched(rows[d]) /\ (~rows[d].holiday \/ rows[d].kind # DesiredKind(d, f))}

\* Only future holidays within the reach of the feed.
ToRemove(rows, f) ==
  LET reach == Announced(f)
  IN {d \in Dates : /\ d > today /\ Untouched(rows[d]) /\ rows[d].holiday
                    /\ \E last \in reach : d <= last
                    /\ d \notin reach}

Merged(rows, f) ==
  LET gone == ToRemove(rows, f)
      changed == ToChange(rows, f)
      added == ToAdd(rows, f)
  IN [d \in Dates |->
        CASE d \in gone -> NoRemark
          [] d \in changed -> [rows[d] EXCEPT !.kind = DesiredKind(d, f), !.holiday = TRUE]
          [] d \in added -> FromFeed(DesiredKind(d, f))
          [] OTHER -> rows[d]]

\* apply_feed: what goes takes its days off with it, what is new gives them.
ApplyFeed(f) ==
  /\ remarks' = Merged(remarks, f)
  /\ dayOf' = [e \in Dates |->
       LET left == IF dayOf[e] \in ToRemove(remarks, f) THEN Empty ELSE dayOf[e]
       IN IF autoOff /\ left = Empty /\ e \in ToAdd(remarks, f) THEN e ELSE left]

-----------------------------------------------------------------------------
(* Syncs.                                                                  *)

\* sync_holidays by hand, and run_due, which leaves a fresh source and one
\* that has just failed alone.
Fetch ==
  /\ fetched = NoFetch
  /\ fetched' = [holidays |-> feed, regions |-> regions]
  /\ UNCHANGED <<calendarVars, feed, regions, autoSync, synced, failed, autoOff, today>>

SyncByHand == Edited /\ Fetch
RunDue == autoSync /\ ~synced /\ ~failed /\ Fetch /\ UNCHANGED edits

\* sync_tenant, when the feed has answered or has not.
FinishSync ==
  /\ fetched # NoFetch
  /\ fetched' = NoFetch
  /\ IF fetched.holidays \in {Down, {}}
     THEN failed' = TRUE /\ UNCHANGED <<calendarVars, synced>>
     ELSE ApplyFeed(fetched) /\ synced' = TRUE /\ failed' = FALSE
  /\ UNCHANGED <<feed, regions, autoSync, autoOff, today, edits>>

\* The process dies while it waits for the feed.
CrashInSync ==
  /\ fetched # NoFetch /\ Edited
  /\ fetched' = NoFetch
  /\ UNCHANGED <<calendarVars, feed, regions, autoSync, synced, failed, autoOff, today>>

FeedChanges(f) ==
  /\ Edited
  /\ f # feed
  /\ feed' = f
  /\ UNCHANGED <<calendarVars, regions, autoSync, synced, failed, fetched, autoOff, today>>

HourPasses ==
  /\ failed /\ failed' = FALSE
  /\ UNCHANGED <<calendarVars, feed, regions, autoSync, synced, fetched, autoOff, today, edits>>

DayPasses ==
  /\ today < Max(Dates)
  /\ today' = today + 1
  /\ synced' = FALSE /\ failed' = FALSE
  /\ UNCHANGED <<calendarVars, feed, regions, autoSync, fetched, autoOff, edits>>

HolidayNext ==
  \/ \E d \in Dates, kind \in {"regular", "special"}, holiday, recurring \in BOOLEAN :
       \/ CreateDateRemark(d, kind, holiday, recurring)
       \/ \E e \in Dates : UpdateDateRemark(d, e, kind, holiday, recurring)
  \/ \E d \in Dates : DeleteDateRemark(d) \/ PlanDay(d)
  \/ \E wanted \in SUBSET Regions, auto \in BOOLEAN, f \in Feeds \cup {Down} :
       SetSource(wanted, auto, f)
  \/ SetAutoOff
  \/ SyncByHand \/ RunDue \/ FinishSync \/ CrashInSync
  \/ \E f \in Feeds \cup {Down} : FeedChanges(f)
  \/ HourPasses \/ DayPasses

HolidaySpec == HolidayInit /\ [][HolidayNext]_holidayVars

-----------------------------------------------------------------------------
(* What an administrator has entered, edited or deleted is never changed   *)
(* by a sync, and neither is what is past removed by one: payroll has      *)
(* reckoned with it.                                                       *)
LeavesTheirWork ==
  FinishSync =>
    \A d \in Dates :
      /\ remarks[d] # NoRemark /\ (remarks[d].source = "manual" \/ remarks[d].edited \/ remarks[d].gone)
           => remarks'[d] = remarks[d]
      /\ There(d) /\ d <= today => remarks'[d] # NoRemark /\ remarks'[d].holiday = remarks[d].holiday

SyncsLeaveThePeoplesWork == [][LeavesTheirWork]_holidayVars

(* A day off that a holiday gave, from today on, is the day off of a       *)
(* holiday that is on that day: none outlives a holiday that was moved,    *)
(* un-marked, deleted or taken off by a sync.                              *)
DaysOffHaveTheirHoliday ==
  \A e \in Dates : e >= today /\ dayOf[e] \in Dates =>
    /\ There(dayOf[e]) /\ remarks[dayOf[e]].holiday
    /\ dayOf[e] = e \/ (remarks[dayOf[e]].recurring /\ dayOf[e] < e /\ (e - dayOf[e]) % Year = 0)

(* "a second sync of an unchanged feed changes nothing", whatever has been *)
(* edited on the calendar in between and whichever regions are included.   *)
SyncsAreIdempotent ==
  \A f \in Feeds, wanted \in SUBSET Regions :
    LET answer == [holidays |-> f, regions |-> wanted]
        after == Merged(remarks, answer)
    IN Merged(after, answer) = after

(* The calendar is the people's: syncs add to it, and days off follow it.  *)
CalendarIsThePeoples ==
    [](HolidayTypeOK /\ DaysOffHaveTheirHoliday /\ SyncsAreIdempotent) /\ SyncsLeaveThePeoplesWork
=============================================================================
