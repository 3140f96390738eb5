----------------------------- MODULE Scheduler -----------------------------
(***************************************************************************)
(* The feed daemon: scheduler/runner.py (run_loop, tick, the feed actions) *)
(* over the cadence table of scheduler/schedule.py and the due-math of     *)
(* scheduler/calendar.py, with the run-state the store keeps for it.       *)
(*                                                                         *)
(* A tick reads the clock once, then goes through the table in order: a    *)
(* feed whose next scheduled instant has passed is fired, if the tick is   *)
(* in the session window, and its fire is recorded at the tick's time.     *)
(* The daemon may die between a feed's work and the record of it; a dead   *)
(* login ends it; launchd starts it again.                                 *)
(*                                                                         *)
(* A moment is a day and one of a few slots of the day (the session opens, *)
(* each feed's scheduled time, the session closes, after the close).       *)
(*                                                                         *)
(* A definition whose name ends in an underscore and a word is a plausible *)
(* slip in the definition that follows it; the runs are shown to catch it. *)
(***************************************************************************)
EXTENDS Integers, Sequences, FiniteSetsExt

CONSTANTS
    MaxDay,        \* bound: the last day
    LastSlot,      \* the last slot of a day
    FirstWeekday,  \* weekday of day 0, Monday being 0
    Months,        \* the first day of every month
    WINDOW_OPEN, WINDOW_CLOSE, EOD_TIME, SCREENER_TIME, FAST_MODE_TIME, HASTE_MODE_TIME,
    MaxLag,        \* bound: slots the clock may pass during one tick
    MaxFaults      \* bound: kills, feed errors and expired sessions

Slots == 0..LastSlot
Days == 0..MaxDay

ASSUME SlotAssumption ==
    /\ LastSlot \in Nat
    /\ {WINDOW_OPEN, WINDOW_CLOSE, EOD_TIME, SCREENER_TIME, FAST_MODE_TIME, HASTE_MODE_TIME}
          \subseteq Slots
ASSUME CalendarAssumption ==
    /\ MaxDay \in Nat
    /\ FirstWeekday \in 0..6
    /\ Months \subseteq Int
    /\ (\E m \in Months : m <= 0) /\ (\E m \in Months : m > MaxDay)
ASSUME BoundAssumption == MaxLag \in Nat /\ MaxFaults \in Nat

VARIABLES
    clock,    \* the wall clock
    pc,       \* "down", "sleep" between ticks, "tick", "record"
    now,      \* the tick's one reading of the clock
    turn,     \* the tick's position in FEED_SCHEDULES
    result,   \* outcome of the feed just run, to be recorded
    last,     \* table scheduler_runs: feed -> last_fired_at of its latest row
    outcome,  \* table scheduler_runs: feed -> outcome of its latest row
    screened, \* as_of of the first cached SCR-0 survivors
    pulled,   \* days the end-of-day ingest completed
    armed,    \* the armed auto-trader
    stepped,  \* auto-trader -> its processed-day guard
    authed,   \* is the operator's session alive
    faults

vars == <<clock, pc, now, turn, result, last, outcome, screened, pulled, armed, stepped,
          authed, faults>>
tables == <<last, outcome>>
effects == <<screened, pulled, stepped>>

-----------------------------------------------------------------------------
(* Calendar.                                                                *)

Never == [day |-> -1, slot |-> 0]
Before(x, y) == x.day < y.day \/ (x.day = y.day /\ x.slot < y.slot)
After(x) == IF x.slot < LastSlot THEN [x EXCEPT !.slot = @ + 1]
                                 ELSE [day |-> x.day + 1, slot |-> 0]
Weekday(d) == (d + FirstWeekday) % 7

AppliesNow(t) == Weekday(t.day) < 5 /\ WINDOW_OPEN <= t.slot /\ t.slot <= WINDOW_CLOSE

(* Back over the weekend, a day at a time.                                  *)
PreviousTradingDay_Yesterday(d) == d - 1

PreviousTradingDay(d) == Max({e \in (d - 3)..(d - 1) : Weekday(e) < 5})

(* The day a cadence falls on in the period (day, week, month) of day d,    *)
(* and in the period after that.                                            *)
MON == 0
Occurrence(every, d) ==
    CASE every = "day" -> d
      [] every = "week" -> d - Weekday(d) + MON
      [] every = "month" -> Max({m \in Months : m <= d})

Following_NextDay(every, d) == d + 1

Following(every, d) ==
    CASE every = "day" -> d + 1
      [] every = "week" -> d + 7
      [] every = "month" -> Min({m \in Months : m > d})

(* Anchored to this period if the feed never fired; else the first          *)
(* scheduled instant after its last fire.                                   *)
NextFire_NotStrict(f, t) ==
    LET anchor == IF last[f.feed] = Never THEN t.day ELSE last[f.feed].day
        occ == [day |-> Occurrence(f.every, anchor), slot |-> f.at]
    IN IF last[f.feed] = Never \/ ~Before(occ, last[f.feed]) THEN occ
       ELSE [occ EXCEPT !.day = Following(f.every, @)]

NextFire(f, t) ==
    LET anchor == IF last[f.feed] = Never THEN t.day ELSE last[f.feed].day
        occ == [day |-> Occurrence(f.every, anchor), slot |-> f.at]
    IN IF last[f.feed] = Never \/ Before(last[f.feed], occ) THEN occ
       ELSE [occ EXCEPT !.day = Following(f.every, @)]

IsDue(f, t) == ~Before(t, NextFire(f, t))

-----------------------------------------------------------------------------
(* The cadence table, in firing order.                                      *)

Feed(feed, every, at, scope) == [feed |-> feed, every |-> every, at |-> at, scope |-> scope]

FEED_SCHEDULES_TradeFirst ==
    << Feed("universe_screener", "day", SCREENER_TIME, "NONE"),
       Feed("fast_mode", "day", FAST_MODE_TIME, "UNIVERSE"),
       Feed("haste_mode", "day", HASTE_MODE_TIME, "UNIVERSE"),
       Feed("eod_ingest", "day", EOD_TIME, "UNIVERSE"),
       Feed("index_membership", "week", EOD_TIME, "UNIVERSE"),
       Feed("ksei_ownership", "week", EOD_TIME, "UNIVERSE"),
       Feed("pattern_oos", "month", EOD_TIME, "NONE") >>

FEED_SCHEDULES ==
    << Feed("universe_screener", "day", SCREENER_TIME, "NONE"),
       Feed("eod_ingest", "day", EOD_TIME, "UNIVERSE"),
       Feed("index_membership", "week", EOD_TIME, "UNIVERSE"),
       Feed("ksei_ownership", "week", EOD_TIME, "UNIVERSE"),
       Feed("fast_mode", "day", FAST_MODE_TIME, "UNIVERSE"),
       Feed("haste_mode", "day", HASTE_MODE_TIME, "UNIVERSE"),
       Feed("pattern_oos", "month", EOD_TIME, "NONE") >>

Table == {FEED_SCHEDULES[i] : i \in DOMAIN FEED_SCHEDULES}
Names == {f.feed : f \in Table}
Traders == {"fast_mode", "haste_mode"}
Online == {"universe_screener", "eod_ingest", "index_membership", "ksei_ownership"}

(* scr0_universe: survivors cached strictly before the tick.                *)
Universe(t) == screened # Never /\ Before(screened, t)
Scoped(f) == f.scope = "NONE" \/ Universe(now)

-----------------------------------------------------------------------------
(* The clock, the processes, the operator.                                  *)

(* A daemon asleep wakes every minute, so the clock cannot pass a slot      *)
(* without a tick; it may while a feed is at work.                          *)
Advance ==
    /\ After(clock).day <= MaxDay
    /\ pc = "sleep" => now = clock
    /\ pc # "tick"
    /\ pc = "record" => clock.day = now.day /\ clock.slot < now.slot + MaxLag
    /\ clock' = After(clock)
    /\ UNCHANGED <<pc, now, turn, result, tables, effects, armed, authed, faults>>

(* launchd starts the daemon unless another process has the database.       *)
Launch ==
    /\ pc = "down"
    /\ pc' = "sleep"
    /\ UNCHANGED <<clock, now, turn, result, tables, effects, armed, authed, faults>>

Exit == pc' = "down" /\ now' = Never /\ turn' = 1 /\ result' = "none"

Kill ==
    /\ pc # "down"
    /\ faults < MaxFaults
    /\ faults' = faults + 1
    /\ Exit
    /\ UNCHANGED <<clock, tables, effects, armed, authed>>

SessionExpires ==
    /\ authed
    /\ faults < MaxFaults
    /\ faults' = faults + 1
    /\ authed' = FALSE
    /\ UNCHANGED <<clock, pc, now, turn, result, tables, effects, armed>>

Login ==
    /\ ~authed
    /\ authed' = TRUE
    /\ UNCHANGED <<clock, pc, now, turn, result, tables, effects, armed, faults>>

(* The operator arms or disarms a trader in the terminal, which needs the   *)
(* database to itself.                                                      *)
SetArmed(mode) ==
    /\ pc = "down"
    /\ armed # mode
    /\ mode = "none" \/ armed = "none"
    /\ armed' = mode
    /\ UNCHANGED <<clock, pc, now, turn, result, tables, effects, authed, faults>>

-----------------------------------------------------------------------------
(* One tick.  A second tick in the same slot finds nothing due.             *)

StartTick ==
    /\ pc = "sleep"
    /\ now # clock
    /\ now' = clock
    /\ turn' = 1
    /\ pc' = "tick"
    /\ UNCHANGED <<clock, result, tables, effects, armed, authed, faults>>

InTurn(f) == pc = "tick" /\ turn <= Len(FEED_SCHEDULES) /\ f = FEED_SCHEDULES[turn]
Firing(f) == InTurn(f) /\ IsDue(f, now) /\ AppliesNow(now)

PassOver(f) ==
    /\ InTurn(f)
    /\ ~(IsDue(f, now) /\ AppliesNow(now))
    /\ turn' = turn + 1
    /\ UNCHANGED <<clock, pc, now, result, tables, effects, armed, authed, faults>>

Return(res) ==
    /\ pc' = "record"
    /\ result' = res
    /\ UNCHANGED <<clock, now, turn, tables, armed, authed>>

(* run_scr0: the survivors are cached with the tick's time as as_of; there  *)
(* may be none.                                                             *)
FireScreener(f) ==
    /\ Firing(f) /\ f.feed = "universe_screener" /\ authed
    /\ screened' \in {screened, IF screened = Never THEN now ELSE screened}
    /\ Return("OK")
    /\ UNCHANGED <<pulled, stepped, faults>>

FireEod(f) ==
    /\ Firing(f) /\ f.feed = "eod_ingest" /\ Scoped(f) /\ authed
    /\ pulled' = pulled \cup {PreviousTradingDay(now.day)}
    /\ Return("OK")
    /\ UNCHANGED <<screened, stepped, faults>>

(* The weekly rosters and the monthly catalog accrual, which may find       *)
(* nothing to do.                                                           *)
FireOther(f) ==
    /\ Firing(f) /\ f.feed \in {"index_membership", "ksei_ownership", "pattern_oos"}
    /\ Scoped(f) /\ (f.feed \in Online => authed)
    /\ \E res \in {"OK"} \cup (IF f.feed = "pattern_oos" THEN {"EMPTY"} ELSE {}) : Return(res)
    /\ UNCHANGED <<effects, faults>>

(* run_fast_mode_step of the previous trading day, also over an empty       *)
(* universe; a disarmed mode or a processed day is a no-op.                 *)
FireTrader(f) ==
    /\ Firing(f) /\ f.feed \in Traders
    /\ LET day == PreviousTradingDay(now.day)
       IN stepped' = IF armed = f.feed /\ day > stepped[f.feed]
                     THEN [stepped EXCEPT ![f.feed] = day] ELSE stepped
    /\ Return(IF armed = f.feed THEN "OK" ELSE "EMPTY")
    /\ UNCHANGED <<screened, pulled, faults>>

(* No universe yet: nothing is asked, the fire is recorded all the same.    *)
FireEmpty(f) ==
    /\ Firing(f) /\ f.feed \notin Traders /\ ~Scoped(f)
    /\ Return("EMPTY")
    /\ UNCHANGED <<effects, faults>>

(* A call that failed for good: recorded, retried at the next instant.      *)
FireError(f) ==
    /\ Firing(f) /\ f.feed \in Online /\ Scoped(f) /\ authed
    /\ faults < MaxFaults
    /\ faults' = faults + 1
    /\ Return("ERROR")
    /\ UNCHANGED effects

(* AuthError: nothing is recorded, run_loop returns and the process ends.   *)
FireUnauthorised(f) ==
    /\ Firing(f) /\ f.feed \in Online /\ Scoped(f) /\ ~authed
    /\ Exit
    /\ UNCHANGED <<clock, tables, effects, armed, authed, faults>>

(* write_scheduler_run.                                                     *)
Record_Stops ==
    /\ pc = "record"
    /\ last' = [last EXCEPT ![FEED_SCHEDULES[turn].feed] = now]
    /\ outcome' = [outcome EXCEPT ![FEED_SCHEDULES[turn].feed] = result]
    /\ result' = "none"
    /\ turn' = IF result = "ERROR" THEN Len(FEED_SCHEDULES) + 1 ELSE turn + 1
    /\ pc' = "tick"
    /\ UNCHANGED <<clock, now, effects, armed, authed, faults>>

Record_NextInstant ==
    /\ pc = "record"
    /\ LET f == FEED_SCHEDULES[turn] IN
       /\ last' = [last EXCEPT ![f.feed] = [day |-> Following(f.every, now.day), slot |-> f.at]]
       /\ outcome' = [outcome EXCEPT ![f.feed] = result]
    /\ result' = "none"
    /\ turn' = turn + 1
    /\ pc' = "tick"
    /\ UNCHANGED <<clock, now, effects, armed, authed, faults>>

Record ==
    /\ pc = "record"
    /\ last' = [last EXCEPT ![FEED_SCHEDULES[turn].feed] = now]
    /\ outcome' = [outcome EXCEPT ![FEED_SCHEDULES[turn].feed] = result]
    /\ result' = "none"
    /\ turn' = turn + 1
    /\ pc' = "tick"
    /\ UNCHANGED <<clock, now, effects, armed, authed, faults>>

EndTick ==
    /\ pc = "tick"
    /\ turn > Len(FEED_SCHEDULES)
    /\ pc' = "sleep"
    /\ UNCHANGED <<clock, now, turn, result, tables, effects, armed, authed, faults>>

-----------------------------------------------------------------------------
(* A fresh install, or a store with a universe the terminal cached.         *)
Init ==
    /\ clock = [day |-> 0, slot |-> 0]
    /\ pc = "down"
    /\ now = Never
    /\ turn = 1
    /\ result = "none"
    /\ last = [f \in Names |-> Never]
    /\ outcome = [f \in Names |-> "none"]
    /\ screened \in {Never, clock}
    /\ pulled = {}
    /\ armed = "none"
    /\ stepped = [f \in Traders |-> -7]
    /\ authed = TRUE
    /\ faults = 0

Fire(f) ==
    \/ FireScreener(f)
    \/ FireEod(f)
    \/ FireOther(f)
    \/ FireTrader(f)
    \/ FireEmpty(f)
    \/ FireError(f)
    \/ FireUnauthorised(f)

Next ==
    \/ Advance
    \/ Launch
    \/ Kill
    \/ SessionExpires
    \/ Login
    \/ \E mode \in Traders \cup {"none"} : SetArmed(mode)
    \/ StartTick
    \/ \E f \in Table : PassOver(f) \/ Fire(f)
    \/ Record
    \/ EndTick

Spec == Init /\ [][Next]_vars

-----------------------------------------------------------------------------
(* Properties                                                               *)

Moments == [day : Days, slot : Slots]
Outcomes == {"OK", "EMPTY", "ERROR"}

(* The run-state rows and the tick's locals are of their declared types,    *)
(* and no fire is recorded in the future.                                   *)
TypeOK ==
    /\ clock \in Moments
    /\ pc \in {"down", "sleep", "tick", "record"}
    /\ now \in Moments \cup {Never} /\ ~Before(clock, now)
    /\ turn \in 1..(Len(FEED_SCHEDULES) + 1)
    /\ result \in Outcomes \cup {"none"} /\ (pc = "record" <=> result # "none")
    /\ last \in [Names -> Moments \cup {Never}]
    /\ \A f \in Names : ~Before(clock, last[f])
    /\ outcome \in [Names -> Outcomes \cup {"none"}]
    /\ screened \in Moments \cup {Never}
    /\ pulled \subseteq Int
    /\ armed \in Traders \cup {"none"}
    /\ stepped \in [Traders -> Int]
    /\ authed \in BOOLEAN
    /\ faults \in 0..MaxFaults

(* The scheduled instants of a feed, stated without the due-math.           *)
ScheduledOn(f, d) ==
    /\ f.every = "week" => Weekday(d) = MON
    /\ f.every = "month" => d \in Months
PassedSince(f, from, to) ==
    \E d \in from.day..to.day :
        LET x == [day |-> d, slot |-> f.at]
        IN ScheduledOn(f, d) /\ Before(from, x) /\ ~Before(to, x)

(* next_fire never fires twice for one scheduled instant: between two fires *)
(* of a feed, restarts and slow ticks included, an instant of its cadence   *)
(* has passed, and a fire never moves the anchor back.                      *)
OneFirePerInstant ==
    [][\A f \in Table :
         last'[f.feed] # last[f.feed] /\ last[f.feed] # Never
            => PassedSince(f, last[f.feed], last'[f.feed])]_vars

(* A tick inside the window leaves no feed behind: whatever died or failed  *)
(* before it, when it ends no instant has passed since a feed's last fire.  *)
TickServesAllDue ==
    pc = "sleep" /\ now # Never /\ AppliesNow(now) =>
        \A f \in Table : IF last[f.feed] = Never
                         THEN Before(now, [day |-> Occurrence(f.every, now.day), slot |-> f.at])
                         ELSE ~PassedSince(f, last[f.feed], now)

(* The auto-traders are last, so that they read the day's freshly ingested  *)
(* bars (schedule.py): no trader steps a day before the end-of-day ingest   *)
(* of the same morning was run and recorded.                                *)
StepsFollowIngest ==
    [][\A f \in Traders :
         stepped'[f] # stepped[f] => last["eod_ingest"].day = now.day]_vars

(* An end-of-day hole has a cause on record: when a tick in the window has  *)
(* ended, the session before that day was pulled, or this morning's ingest  *)
(* is recorded as failed or as without a universe.                          *)
HolesAreRecorded ==
    pc = "sleep" /\ now # Never /\ AppliesNow(now) =>
        \/ outcome["eod_ingest"] \in {"ERROR", "EMPTY"}
        \/ Before(now, [day |-> now.day, slot |-> EOD_TIME])
        \/ \E d \in pulled : /\ d < now.day /\ Weekday(d) < 5
                             /\ \A e \in (d + 1)..(now.day - 1) : Weekday(e) >= 5

(* The weekly and the monthly feed fire once per calendar week and month.   *)
OncePerPeriod ==
    [][\A f \in Table :
         f.every # "day" /\ last'[f.feed] # last[f.feed] /\ last[f.feed] # Never
            => Occurrence(f.every, last'[f.feed].day) # Occurrence(f.every, last[f.feed].day)]_vars

(* "DailyAt(at) fires once per day at/after at" (schedule.py), a weekend    *)
(* instant waits "without ever double-firing" (calendar.py).                *)
OncePerDay ==
    [][\A f \in Table :
         f.every = "day" /\ last'[f.feed] # last[f.feed]
            => last'[f.feed].day # last[f.feed].day]_vars
=============================================================================
