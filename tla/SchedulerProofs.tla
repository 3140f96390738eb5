-------------------------- MODULE SchedulerProofs --------------------------
(***************************************************************************)
(* Theorems about Scheduler: its types and no fire recorded in the future, *)
(* the auto-traders stepping only after the morning's ingest, every tick   *)
(* serving all the feeds it finds due, no feed fired twice for an instant  *)
(* or a period, and a cause behind every hole in the EOD bars.             *)
(***************************************************************************)
EXTENDS Scheduler, SetLemmas, TLAPS

(* The table as the proofs use it: seven feeds, the ingest the second, the  *)
(* traders after it.                                                        *)
LEMMA TableShape ==
    /\ Len(FEED_SCHEDULES) = 7
    /\ \A i \in 1..7 : FEED_SCHEDULES[i].feed \in Names
    /\ \A i \in 1..7 : FEED_SCHEDULES[i].feed = "eod_ingest" => i = 2
    /\ \A i \in 1..7 : FEED_SCHEDULES[i].feed \in Traders => i > 2
    /\ FEED_SCHEDULES[2] = Feed("eod_ingest", "day", EOD_TIME, "UNIVERSE")
<1>1. Len(FEED_SCHEDULES) = 7 /\ DOMAIN FEED_SCHEDULES = 1..7
    BY DEF FEED_SCHEDULES
<1>2. \A i \in 1..7 : FEED_SCHEDULES[i].feed \in Names
    BY <1>1 DEF Names, Table
<1>3. /\ FEED_SCHEDULES[1].feed = "universe_screener"
      /\ FEED_SCHEDULES[2] = Feed("eod_ingest", "day", EOD_TIME, "UNIVERSE")
      /\ FEED_SCHEDULES[3].feed = "index_membership"
      /\ FEED_SCHEDULES[4].feed = "ksei_ownership"
      /\ FEED_SCHEDULES[5].feed = "fast_mode"
      /\ FEED_SCHEDULES[6].feed = "haste_mode"
      /\ FEED_SCHEDULES[7].feed = "pattern_oos"
    BY DEF FEED_SCHEDULES, Feed
<1>4. FEED_SCHEDULES[2].feed = "eod_ingest"
    BY <1>3 DEF Feed
<1>5. \A i \in 1..7 : i = 1 \/ i = 2 \/ i = 3 \/ i = 4 \/ i = 5 \/ i = 6 \/ i = 7
    OBVIOUS
<1> QED
    BY <1>1, <1>2, <1>3, <1>4, <1>5 DEF Traders

(* The previous trading day of a day is a day.                              *)
LEMMA PreviousDay == ASSUME NEW d \in Int PROVE PreviousTradingDay(d) \in Int
<1> DEFINE S == {e \in (d - 3)..(d - 1) : Weekday(e) < 5}
<1>1. \E x \in S : \A y \in S : x >= y
  <2>1. CASE Weekday(d - 1) < 5
    BY <2>1, d - 1 \in S
  <2>2. CASE Weekday(d - 1) >= 5 /\ Weekday(d - 2) < 5
    BY <2>2, d - 2 \in S
  <2>3. CASE Weekday(d - 1) >= 5 /\ Weekday(d - 2) >= 5
    <3>1. Weekday(d - 3) < 5
        BY <2>3, CalendarAssumption DEF Weekday
    <3> QED
        BY <3>1, <2>3, d - 3 \in S
  <2> QED
    <3>1. Weekday(d - 1) \in Int /\ Weekday(d - 2) \in Int
        BY CalendarAssumption DEF Weekday
    <3> QED
        BY <2>1, <2>2, <2>3, <3>1
<1>2. PreviousTradingDay(d) \in S
    BY <1>1 DEF PreviousTradingDay, Max
<1> QED
    BY <1>2

LEMMA NowIsMoment ==
    ASSUME NEW x \in Moments \cup {Never}
    PROVE  x.day \in Int /\ x.slot \in Int /\ x.day >= -1
           /\ (x = Never \/ (x \in Moments /\ x.day >= 0 /\ x # Never))
<1>1. CASE x \in Moments
    BY <1>1, CalendarAssumption, SlotAssumption DEF Moments, Never, Days, Slots
<1>2. CASE x = Never
    BY <1>2 DEF Never
<1> QED
    BY <1>1, <1>2

(* "Before" orders moments.                                                 *)
IsMoment(x) == x.day \in Int /\ x.slot \in Int

LEMMA BeforeOrder ==
    ASSUME NEW x, NEW y, NEW z, IsMoment(x), IsMoment(y), IsMoment(z)
    PROVE  /\ ~Before(x, x)
           /\ ~Before(y, x) /\ ~Before(z, y) => ~Before(z, x)
BY DEF IsMoment, Before

LEMMA AfterIsLater ==
    ASSUME NEW x \in Moments, After(x).day <= MaxDay
    PROVE  After(x) \in Moments /\ ~Before(After(x), x)
<1>1. x.day \in Nat /\ x.slot \in Nat /\ x.slot <= LastSlot /\ x.day <= MaxDay
      /\ x = [day |-> x.day, slot |-> x.slot]
    BY CalendarAssumption, SlotAssumption DEF Moments, Days, Slots
<1>2. CASE x.slot < LastSlot
  <2>1. After(x) = [day |-> x.day, slot |-> x.slot + 1]
    BY <1>1, <1>2 DEF After
  <2> QED
    BY <1>1, <1>2, <2>1, CalendarAssumption, SlotAssumption DEF Moments, Days, Slots, Before
<1>3. CASE ~(x.slot < LastSlot)
  <2>1. After(x) = [day |-> x.day + 1, slot |-> 0]
    BY <1>3 DEF After
  <2> QED
    BY <1>1, <2>1, CalendarAssumption, SlotAssumption DEF Moments, Days, Slots, Before
<1> QED
    BY <1>2, <1>3

-----------------------------------------------------------------------------
(* Types.  A fire in progress has a tick of its own, whose time is real.    *)
TickHasTime == pc \in {"tick", "record"} => now \in Moments
TurnInTable == pc = "record" => turn \in 1..7

TypeInv == TypeOK /\ TickHasTime /\ TurnInTable

LEMMA TypeInit == Init => TypeInv
<1> SUFFICES ASSUME Init PROVE TypeInv
    OBVIOUS
<1>1. clock \in Moments /\ clock = [day |-> 0, slot |-> 0]
    BY CalendarAssumption, SlotAssumption DEF Init, Moments, Days, Slots
<1>2. /\ ~Before(clock, Never)
      /\ 1 \in 1..(Len(FEED_SCHEDULES) + 1)
    BY <1>1, TableShape DEF Before, Never
<1>3. now = Never /\ turn = 1 /\ result = "none" /\ pc = "down"
    BY DEF Init
<1>4. /\ last \in [Names -> Moments \cup {Never}]
      /\ \A f \in Names : last[f] = Never
      /\ outcome \in [Names -> Outcomes \cup {"none"}]
    BY DEF Init
<1>5. /\ screened \in Moments \cup {Never} /\ pulled \subseteq Int
      /\ armed \in Traders \cup {"none"} /\ stepped \in [Traders -> Int]
      /\ authed \in BOOLEAN /\ faults \in 0..MaxFaults
    BY <1>1, BoundAssumption DEF Init
<1> QED
    BY <1>1, <1>2, <1>3, <1>4, <1>5 DEF TypeInv, TypeOK, TickHasTime, TurnInTable, Outcomes

(* What every step leaves alone of the tables a feed writes to.             *)
EffectsTyped ==
    /\ screened \in Moments \cup {Never}
    /\ pulled \subseteq Int
    /\ stepped \in [Traders -> Int]

LEMMA FireEffects ==
    ASSUME TypeInv, NEW f \in Table, Fire(f)
    PROVE  /\ EffectsTyped'
           /\ faults' \in 0..MaxFaults
           /\ UNCHANGED <<clock, last, outcome, armed, authed>>
           /\ \/ pc' = "record" /\ pc = "tick" /\ turn \in 1..7 /\ result' \in Outcomes
                 /\ UNCHANGED <<now, turn>>
              \/ Exit
<1> USE DEF TypeInv, TypeOK, EffectsTyped
<1>0. ASSUME Firing(f)
      PROVE  pc = "tick" /\ turn \in 1..7 /\ now \in Moments /\ now.day \in Int
    BY <1>0, TableShape, CalendarAssumption DEF Firing, InTurn, TickHasTime, Moments, Days
<1>1. CASE FireScreener(f)
    BY <1>1, <1>0 DEF FireScreener, Return, tables, Outcomes
<1>2. CASE FireEod(f)
  <2>1. PreviousTradingDay(now.day) \in Int
    BY <1>2, <1>0, PreviousDay DEF FireEod
  <2> QED
    BY <1>2, <1>0, <2>1 DEF FireEod, Return, tables, Outcomes
<1>3. CASE FireOther(f)
  <2>1. \E res \in Outcomes : Return(res)
    BY <1>3 DEF FireOther, Outcomes
  <2> QED
    BY <1>3, <1>0, <2>1 DEF FireOther, Return, tables, effects
<1>4. CASE FireTrader(f)
  <2>1. PreviousTradingDay(now.day) \in Int
    BY <1>4, <1>0, PreviousDay DEF FireTrader
  <2>2. stepped' \in [Traders -> Int]
    BY <1>4, <2>1 DEF FireTrader
  <2>3. \E res \in Outcomes : Return(res)
    BY <1>4 DEF FireTrader, Outcomes
  <2> QED
    BY <1>4, <1>0, <2>2, <2>3 DEF FireTrader, Return, tables
<1>5. CASE FireEmpty(f)
    BY <1>5, <1>0 DEF FireEmpty, Return, tables, effects, Outcomes
<1>6. CASE FireError(f)
    BY <1>6, <1>0, BoundAssumption DEF FireError, Return, tables, effects, Outcomes
<1>7. CASE FireUnauthorised(f)
    BY <1>7 DEF FireUnauthorised, tables, effects
<1> QED
    BY <1>1, <1>2, <1>3, <1>4, <1>5, <1>6, <1>7 DEF Fire

LEMMA ExitTyped ==
    ASSUME TypeInv, Exit
    PROVE  /\ pc' = "down" /\ now' = Never /\ turn' \in 1..8 /\ result' = "none"
           /\ ~Before(clock, now')
BY NowIsMoment DEF Exit, TypeInv, TypeOK, Never, Before, Moments, Days, Slots

LEMMA TypeStep == TypeInv /\ [Next]_vars => TypeInv'
<1> SUFFICES ASSUME TypeInv, [Next]_vars PROVE TypeInv'
    OBVIOUS
<1> USE TableShape DEF TypeInv, TypeOK, TickHasTime, TurnInTable
<1>m. \A x \in Moments \cup {Never} : IsMoment(x)
    BY NowIsMoment DEF IsMoment
<1>n. Never \in Moments \cup {Never} /\ "none" \notin Outcomes
    BY DEF Outcomes
<1>1. CASE Advance
  <2>1. clock' \in Moments /\ ~Before(clock', clock)
    BY <1>1, AfterIsLater DEF Advance
  <2>2. UNCHANGED <<pc, now, turn, result, last, outcome, screened, pulled, stepped, armed,
                    authed, faults>>
    BY <1>1 DEF Advance, tables, effects
  <2>3. ~Before(clock', now) /\ \A f \in Names : ~Before(clock', last[f])
    BY <2>1, <1>m, BeforeOrder
  <2> QED
    BY <2>1, <2>2, <2>3
<1>2. CASE Launch
    BY <1>2 DEF Launch, tables, effects
<1>3. CASE Kill
    BY <1>3, <1>n, ExitTyped, BoundAssumption DEF Kill, tables, effects
<1>4. CASE SessionExpires
  <2>1. authed' \in BOOLEAN
    BY <1>4, Zenon DEF SessionExpires
  <2>3. faults < MaxFaults /\ faults' = faults + 1
    BY <1>4, Zenon DEF SessionExpires
  <2>4. faults' \in 0..MaxFaults
    BY <2>3, BoundAssumption
  <2>2. UNCHANGED <<clock, pc, now, turn, result, last, outcome, screened, pulled, stepped, armed>>
    BY <1>4 DEF SessionExpires, tables, effects
  <2> QED
    BY <2>1, <2>2, <2>4
<1>5. CASE Login
    BY <1>5 DEF Login, tables, effects
<1>6. ASSUME NEW mode \in Traders \cup {"none"}, SetArmed(mode) PROVE TypeInv'
    BY <1>6 DEF SetArmed, tables, effects
<1>7. CASE StartTick
  <2>1. ~Before(clock, clock)
    BY <1>m, BeforeOrder
  <2> QED
    BY <1>7, <2>1 DEF StartTick, tables, effects
<1>8. ASSUME NEW f \in Table, PassOver(f) PROVE TypeInv'
    BY <1>8 DEF PassOver, InTurn, tables, effects
<1>9. ASSUME NEW f \in Table, Fire(f) PROVE TypeInv'
  <2>1. EffectsTyped' /\ faults' \in 0..MaxFaults /\ UNCHANGED <<clock, last, outcome, armed, authed>>
    BY <1>9, FireEffects
  <2>2. CASE pc' = "record" /\ pc = "tick" /\ turn \in 1..7 /\ result' \in Outcomes
             /\ UNCHANGED <<now, turn>>
    BY <2>1, <2>2, <1>n DEF EffectsTyped
  <2>3. CASE Exit
    BY <2>1, <2>3, <1>n, ExitTyped DEF EffectsTyped
  <2> QED
    BY <1>9, <2>2, <2>3, FireEffects
<1>10. CASE Record
  <2>1. FEED_SCHEDULES[turn].feed \in Names /\ now \in Moments /\ result \in Outcomes
    BY <1>10 DEF Record
  <2>2. /\ last' \in [Names -> Moments \cup {Never}]
        /\ \A f \in Names : ~Before(clock, last'[f])
        /\ outcome' \in [Names -> Outcomes \cup {"none"}]
    BY <1>10, <2>1 DEF Record
  <2> QED
    BY <1>10, <2>2 DEF Record, effects
<1>11. CASE EndTick
    BY <1>11 DEF EndTick, tables, effects
<1>12. CASE UNCHANGED vars
    BY <1>12 DEF vars, tables, effects
<1> QED
    BY <1>1, <1>2, <1>3, <1>4, <1>5, <1>6, <1>7, <1>8, <1>9, <1>10, <1>11, <1>12 DEF Next

(* Types, for any calendar and cadence times: the run-state and the tick's  *)
(* locals are typed, and no fire is recorded in the future.                 *)
THEOREM SchedulerTypes == Spec => []TypeOK
<1>1. Init => TypeInv
    BY TypeInit
<1>2. TypeInv /\ [Next]_vars => TypeInv'
    BY TypeStep
<1>3. TypeInv => TypeOK
    BY DEF TypeInv
<1> QED
    BY <1>1, <1>2, <1>3, PTL DEF Spec

-----------------------------------------------------------------------------
(* The ingest before the traders.  A tick never starts before a recorded    *)
(* fire, and one in the window that is past the ingest's turn has the       *)
(* ingest recorded today: passed over, it had been fired today already.     *)
IngestRow == last["eod_ingest"]
Underway == pc \in {"tick", "record"}
NotBeforeIngest == Underway => ~Before(now, IngestRow)
IngestedToday == Underway /\ AppliesNow(now) /\ turn > 2 => IngestRow.day = now.day

IngestInv == TypeInv /\ NotBeforeIngest /\ IngestedToday

LEMMA IngestNamed == "eod_ingest" \in Names
BY TableShape DEF Feed

(* In the window an ingest that is not due has fired on this very day.      *)
LEMMA NotDueIsToday ==
    ASSUME EOD_TIME <= WINDOW_OPEN, TypeInv, NotBeforeIngest, pc = "tick",
           AppliesNow(now), ~IsDue(FEED_SCHEDULES[2], now)
    PROVE  IngestRow.day = now.day
<1> DEFINE f == FEED_SCHEDULES[2]
<1>1. f.feed = "eod_ingest" /\ f.every = "day" /\ f.at = EOD_TIME
    BY TableShape DEF Feed
<1>2. /\ now \in Moments /\ IngestRow \in Moments \cup {Never}
      /\ ~Before(now, IngestRow) /\ WINDOW_OPEN <= now.slot
    BY IngestNamed DEF TypeInv, TypeOK, TickHasTime, NotBeforeIngest, Underway, IngestRow,
                       AppliesNow
<1>3. /\ now.day \in Int /\ now.slot \in Int /\ now.day >= 0
      /\ IngestRow.day \in Int /\ IngestRow.slot \in Int
      /\ EOD_TIME \in Int /\ WINDOW_OPEN \in Int
    BY <1>2, NowIsMoment, CalendarAssumption, SlotAssumption DEF Slots, Moments, Days
<1>4. Before(now, NextFire(f, now))
    BY DEF IsDue
<1>5. CASE IngestRow = Never
  <2>1. NextFire(f, now) = [day |-> now.day, slot |-> EOD_TIME]
    BY <1>1, <1>5 DEF NextFire, Occurrence, IngestRow
  <2> QED
    BY <1>2, <1>3, <1>4, <2>1 DEF Before
<1>6. CASE IngestRow # Never
  <2> DEFINE occ == [day |-> IngestRow.day, slot |-> EOD_TIME]
  <2>1. NextFire(f, now) = IF Before(IngestRow, occ) THEN occ
                           ELSE [day |-> IngestRow.day + 1, slot |-> EOD_TIME]
    BY <1>1, <1>6 DEF NextFire, Occurrence, Following, IngestRow
  <2> QED
    BY <1>2, <1>3, <1>4, <2>1 DEF Before
<1> QED
    BY <1>5, <1>6

LEMMA IngestStep ==
    ASSUME EOD_TIME <= WINDOW_OPEN, IngestInv, [Next]_vars
    PROVE  NotBeforeIngest' /\ IngestedToday'
<1> USE DEF NotBeforeIngest, IngestedToday, Underway, IngestRow, AppliesNow
<1>1. TypeInv /\ NotBeforeIngest /\ IngestedToday
    BY DEF IngestInv
<1>2. CASE Advance
    BY <1>1, <1>2 DEF Advance, tables
<1>3. CASE Launch
    BY <1>1, <1>3 DEF Launch, tables
<1>4. CASE Kill
    BY <1>4 DEF Kill, Exit
<1>5. CASE SessionExpires
    BY <1>1, <1>5 DEF SessionExpires, tables
<1>6. CASE Login
    BY <1>1, <1>6 DEF Login, tables
<1>7. ASSUME NEW mode \in Traders \cup {"none"}, SetArmed(mode)
      PROVE  NotBeforeIngest' /\ IngestedToday'
    BY <1>1, <1>7 DEF SetArmed, tables
<1>8. CASE StartTick
    BY <1>1, <1>8, IngestNamed DEF StartTick, tables, TypeInv, TypeOK
<1>9. ASSUME NEW f \in Table, PassOver(f) PROVE NotBeforeIngest' /\ IngestedToday'
  <2>1. UNCHANGED <<pc, now, last>> /\ turn' = turn + 1 /\ pc = "tick" /\ turn \in 1..8
    BY <1>1, <1>9, TableShape DEF PassOver, InTurn, tables, TypeInv, TypeOK
  <2>2. CASE turn = 2
    <3>1. f = FEED_SCHEDULES[2]
        BY <1>9, <2>2 DEF PassOver, InTurn
    <3>2. AppliesNow(now) => IngestRow.day = now.day
        BY <1>1, <1>9, <2>1, <3>1, NotDueIsToday DEF PassOver
    <3> QED
        BY <1>1, <2>1, <3>2
  <2> QED
    BY <1>1, <2>1, <2>2
<1>10. ASSUME NEW f \in Table, Fire(f) PROVE NotBeforeIngest' /\ IngestedToday'
    BY <1>1, <1>10, FireEffects DEF Exit
<1>11. CASE Record
  <2>1. /\ pc = "record" /\ UNCHANGED now /\ turn' = turn + 1 /\ turn \in 1..7
        /\ last' = [last EXCEPT ![FEED_SCHEDULES[turn].feed] = now]
        /\ last \in [Names -> Moments \cup {Never}] /\ now \in Moments
    BY <1>1, <1>11 DEF Record, TypeInv, TypeOK, TickHasTime, TurnInTable
  <2>2. CASE FEED_SCHEDULES[turn].feed = "eod_ingest"
    <3>1. last'["eod_ingest"] = now
        BY <2>1, <2>2, IngestNamed
    <3>2. ~Before(now, now)
        BY <2>1, NowIsMoment, BeforeOrder DEF IsMoment
    <3> QED
        BY <2>1, <3>1, <3>2
  <2>3. CASE FEED_SCHEDULES[turn].feed # "eod_ingest"
    <3>1. last'["eod_ingest"] = last["eod_ingest"]
        BY <2>1, <2>3, IngestNamed
    <3>2. turn # 2
        BY <2>3, TableShape DEF Feed
    <3> QED
        BY <1>1, <2>1, <3>1, <3>2
  <2> QED
    BY <2>2, <2>3
<1>12. CASE EndTick
    BY <1>12 DEF EndTick
<1>13. CASE UNCHANGED vars
    BY <1>1, <1>13 DEF vars, tables
<1> QED
    BY <1>2, <1>3, <1>4, <1>5, <1>6, <1>7, <1>8, <1>9, <1>10, <1>11, <1>12, <1>13 DEF Next

(* Only a trader's own turn steps it.                                       *)
LEMMA StepsInTurn ==
    ASSUME TypeInv, [Next]_vars, NEW t \in Traders, stepped'[t] # stepped[t]
    PROVE  pc = "tick" /\ turn > 2 /\ AppliesNow(now)
<1>1. PICK f \in Table : Fire(f)
  <2>1. stepped' # stepped
    OBVIOUS
  <2> QED
    BY <2>1 DEF Next, Advance, Launch, Kill, SessionExpires, Login, SetArmed, StartTick,
                PassOver, Record, EndTick, effects, vars
<1>2. FireTrader(f)
    BY <1>1 DEF Fire, FireScreener, FireEod, FireOther, FireEmpty, FireError, FireUnauthorised,
                effects
<1>3. /\ pc = "tick" /\ AppliesNow(now) /\ turn \in 1..7
      /\ FEED_SCHEDULES[turn].feed \in Traders
    BY <1>2, TableShape DEF FireTrader, Firing, InTurn, TypeInv, TypeOK
<1> QED
    BY <1>3, TableShape

(* Schedule.py's order does what its comment says, for any calendar and     *)
(* cadence times with the ingest due when the window opens: no auto-trader  *)
(* steps before that morning's ingest is recorded, through crashes, errors  *)
(* and logins.                                                              *)
THEOREM TradersAfterIngest ==
    ASSUME EOD_TIME <= WINDOW_OPEN
    PROVE  Spec => StepsFollowIngest
<1>1. Init => IngestInv
    BY TypeInit DEF Init, IngestInv, NotBeforeIngest, IngestedToday, Underway
<1>2. IngestInv /\ [Next]_vars => IngestInv'
    BY TypeStep, IngestStep DEF IngestInv
<1>3. IngestInv /\ [Next]_vars
        => [\A f \in Traders : stepped'[f] # stepped[f] => last["eod_ingest"].day = now.day]_vars
    BY StepsInTurn DEF IngestInv, IngestedToday, Underway, IngestRow
<1> QED
    BY <1>1, <1>2, <1>3, PTL DEF Spec, StepsFollowIngest

-----------------------------------------------------------------------------
(* The due-math.  A feed's next fire is the first instant of its cadence    *)
(* after its last fire.                                                     *)

LEMMA TableFeeds ==
    /\ \A i \in 1..7 : FEED_SCHEDULES[i] \in Table
    /\ \A f \in Table : \E i \in 1..7 : f = FEED_SCHEDULES[i]
    /\ \A i, j \in 1..7 : FEED_SCHEDULES[i].feed = FEED_SCHEDULES[j].feed => i = j
    /\ \A f \in Table :
          /\ f.feed \in Names /\ f.at \in Slots /\ f.every \in {"day", "week", "month"}
          /\ f.every # "day" => f.at = EOD_TIME
<1>1. Len(FEED_SCHEDULES) = 7 /\ DOMAIN FEED_SCHEDULES = 1..7
    BY DEF FEED_SCHEDULES
<1>2. /\ FEED_SCHEDULES[1] = Feed("universe_screener", "day", SCREENER_TIME, "NONE")
      /\ FEED_SCHEDULES[2] = Feed("eod_ingest", "day", EOD_TIME, "UNIVERSE")
      /\ FEED_SCHEDULES[3] = Feed("index_membership", "week", EOD_TIME, "UNIVERSE")
      /\ FEED_SCHEDULES[4] = Feed("ksei_ownership", "week", EOD_TIME, "UNIVERSE")
      /\ FEED_SCHEDULES[5] = Feed("fast_mode", "day", FAST_MODE_TIME, "UNIVERSE")
      /\ FEED_SCHEDULES[6] = Feed("haste_mode", "day", HASTE_MODE_TIME, "UNIVERSE")
      /\ FEED_SCHEDULES[7] = Feed("pattern_oos", "month", EOD_TIME, "NONE")
    BY DEF FEED_SCHEDULES
<1>3. \A i \in 1..7 : i = 1 \/ i = 2 \/ i = 3 \/ i = 4 \/ i = 5 \/ i = 6 \/ i = 7
    OBVIOUS
<1>4. \A i \in 1..7 : FEED_SCHEDULES[i] \in Table
    BY <1>1 DEF Table
<1>5. \A f \in Table : \E i \in 1..7 : f = FEED_SCHEDULES[i]
    BY <1>1 DEF Table
<1>6. \A i, j \in 1..7 : FEED_SCHEDULES[i].feed = FEED_SCHEDULES[j].feed => i = j
  <2>1. /\ FEED_SCHEDULES[1].feed = "universe_screener" /\ FEED_SCHEDULES[2].feed = "eod_ingest"
        /\ FEED_SCHEDULES[3].feed = "index_membership" /\ FEED_SCHEDULES[4].feed = "ksei_ownership"
        /\ FEED_SCHEDULES[5].feed = "fast_mode" /\ FEED_SCHEDULES[6].feed = "haste_mode"
        /\ FEED_SCHEDULES[7].feed = "pattern_oos"
    BY <1>2 DEF Feed
  <2> QED
    BY <1>3, <2>1
<1>7. ASSUME NEW i \in 1..7
      PROVE  /\ FEED_SCHEDULES[i].at \in Slots
             /\ FEED_SCHEDULES[i].every \in {"day", "week", "month"}
             /\ FEED_SCHEDULES[i].every # "day" => FEED_SCHEDULES[i].at = EOD_TIME
    BY <1>2, <1>3, SlotAssumption DEF Feed
<1> QED
    BY <1>4, <1>5, <1>6, <1>7 DEF Names

LEMMA Weekdays ==
    ASSUME NEW d \in Int
    PROVE  /\ Weekday(d) \in 0..6
           /\ Weekday(d - Weekday(d)) = 0 /\ Weekday(d + 7) = Weekday(d)
           /\ \A e \in Int : Weekday(d) = 0 /\ Weekday(e) = 0 /\ d < e => d + 7 <= e
<1> DEFINE c == d + FirstWeekday
<1>1. c \in Int /\ FirstWeekday \in Int
    BY CalendarAssumption
<1>2. c % 7 \in 0..6 /\ (c - (c % 7)) % 7 = 0 /\ (c + 7) % 7 = c % 7
    BY <1>1
<1>3. ASSUME NEW e \in Int, c % 7 = 0, (e + FirstWeekday) % 7 = 0, d < e
      PROVE  d + 7 <= e
    BY <1>1, <1>3
<1> QED
    BY <1>1, <1>2, <1>3 DEF Weekday

(* The day a cadence falls on: the last one scheduled up to a day.          *)
LEMMA OccurrenceIsLast ==
    ASSUME NEW f \in Table, NEW d \in Days
    PROVE  /\ Occurrence(f.every, d) \in Int /\ Occurrence(f.every, d) <= d
           /\ ScheduledOn(f, Occurrence(f.every, d))
           /\ \A e \in Int : ScheduledOn(f, e) /\ e <= d => e <= Occurrence(f.every, d)
<1> USE DEF Occurrence, ScheduledOn
<1>0. d \in Int /\ 0 <= d /\ d <= MaxDay /\ MaxDay \in Int
    BY CalendarAssumption DEF Days
<1>1. CASE f.every = "day"
    BY <1>0, <1>1
<1>2. CASE f.every = "week"
  <2>1. Occurrence(f.every, d) = d - Weekday(d) /\ Weekday(d) \in 0..6
    BY <1>0, <1>2, Weekdays DEF MON
  <2>2. ASSUME NEW e \in Int, Weekday(e) = 0, e <= d PROVE e <= d - Weekday(d)
    BY <1>0, <2>1, <2>2, Weekdays, d - Weekday(d) \in Int
  <2> QED
    BY <1>0, <1>2, <2>1, <2>2, Weekdays DEF MON
<1>3. CASE f.every = "month"
  <2> DEFINE S == {m \in Months : m <= d}
  <2>1. S \in SUBSET Int /\ S # {} /\ \A x \in S : x <= d
    <3>1. PICK k \in Months : k <= 0
      BY CalendarAssumption
    <3>2. k \in S
      BY <1>0, <3>1, CalendarAssumption
    <3> QED
      BY <3>2, CalendarAssumption
  <2>2. Max(S) \in S /\ \A x \in S : x <= Max(S)
    <3> HIDE DEF S
    <3> QED
      BY <1>0, <2>1, MaxOfBounded
  <2>3. Occurrence(f.every, d) = Max(S)
    BY <1>3
  <2> QED
    BY <1>3, <2>1, <2>2, <2>3
<1> QED
    BY <1>1, <1>2, <1>3, TableFeeds

(* The day after that: the first one scheduled later.                       *)
LEMMA FollowingIsFirst ==
    ASSUME NEW f \in Table, NEW o \in Int, ScheduledOn(f, o), o <= MaxDay
    PROVE  /\ Following(f.every, o) \in Int /\ o < Following(f.every, o)
           /\ ScheduledOn(f, Following(f.every, o))
           /\ \A e \in Int : ScheduledOn(f, e) /\ o < e => Following(f.every, o) <= e
<1> USE DEF Following, ScheduledOn
<1>1. CASE f.every = "day"
    BY <1>1
<1>2. CASE f.every = "week"
    BY <1>2, Weekdays DEF MON
<1>3. CASE f.every = "month"
  <2> DEFINE S == {m \in Months : m > o}
  <2>1. S \in SUBSET Int /\ S # {} /\ \A x \in S : o <= x
    <3>1. PICK k \in Months : k > MaxDay
      BY CalendarAssumption
    <3>2. k \in S
      BY <3>1, CalendarAssumption
    <3>3. \A x \in S : x \in Int /\ x > o
      BY CalendarAssumption
    <3>4. \A x \in S : o <= x
      BY <3>3
    <3> QED
      BY <3>2, <3>3, <3>4
  <2>2. Min(S) \in S /\ \A x \in S : Min(S) <= x
    <3> HIDE DEF S
    <3> QED
      BY <2>1, MinOfBounded
  <2>3. Following(f.every, o) = Min(S)
    BY <1>3
  <2> QED
    BY <1>3, <2>1, <2>2, <2>3
<1> QED
    BY <1>1, <1>2, <1>3, TableFeeds

Instant(f, d) == [day |-> d, slot |-> f.at]

LEMMA NextFireIsFirst ==
    ASSUME NEW f \in Table, NEW t, last[f.feed] \in Moments
    PROVE  \E d \in Int :
              /\ NextFire(f, t) = Instant(f, d)
              /\ ScheduledOn(f, d) /\ Before(last[f.feed], Instant(f, d))
              /\ \A e \in Int : ScheduledOn(f, e) /\ Before(last[f.feed], Instant(f, e)) => d <= e
<1> DEFINE l == last[f.feed]
           o == Occurrence(f.every, l.day)
           n == Following(f.every, o)
<1> USE DEF Instant
<1>1. /\ l.day \in Days /\ l.day \in Int /\ l.slot \in Int /\ l # Never
      /\ l.day <= MaxDay /\ f.at \in Int
  <2>1. l.day \in Days /\ l.slot \in Slots /\ f.at \in Slots
    BY TableFeeds DEF Moments
  <2>2. l # Never
    BY NowIsMoment, CalendarAssumption DEF Moments, Days, Never
  <2> QED
    BY <2>1, <2>2, CalendarAssumption, SlotAssumption DEF Days, Slots
<1>2. /\ o \in Int /\ o <= l.day /\ ScheduledOn(f, o) /\ o <= MaxDay
      /\ \A e \in Int : ScheduledOn(f, e) /\ e <= l.day => e <= o
    BY <1>1, OccurrenceIsLast, CalendarAssumption
<1>3. /\ n \in Int /\ o < n /\ ScheduledOn(f, n)
      /\ \A e \in Int : ScheduledOn(f, e) /\ o < e => n <= e
    BY <1>2, FollowingIsFirst
<1>4. NextFire(f, t) = IF Before(l, [day |-> o, slot |-> f.at]) THEN [day |-> o, slot |-> f.at]
                       ELSE [day |-> n, slot |-> f.at]
    BY <1>1 DEF NextFire
<1> HIDE DEF l, o, n
<1>5. CASE Before(l, [day |-> o, slot |-> f.at])
  <2>1. o = l.day
    BY <1>1, <1>2, <1>5 DEF Before
  <2>2. \A e \in Int : Before(l, [day |-> e, slot |-> f.at]) => o <= e
    BY <1>1, <2>1 DEF Before
  <2> QED
    BY <1>2, <1>4, <1>5, <2>2 DEF l
<1>6. CASE ~Before(l, [day |-> o, slot |-> f.at])
  <2>1. l.day < n
    BY <1>1, <1>2, <1>3
  <2>2. Before(l, [day |-> n, slot |-> f.at])
    BY <1>1, <1>3, <2>1 DEF Before
  <2>3. ASSUME NEW e \in Int, ScheduledOn(f, e), Before(l, [day |-> e, slot |-> f.at]) PROVE n <= e
    <3>1. l.day <= e
      BY <1>1, <2>3 DEF Before
    <3>2. e # o
      BY <1>6, <2>3
    <3> QED
      BY <1>1, <1>2, <1>3, <2>3, <3>1, <3>2
  <2> QED
    BY <1>3, <1>4, <1>6, <2>2, <2>3 DEF l
<1> QED
    BY <1>5, <1>6

(* Due: an instant of the cadence has passed since the last fire.  Not due: *)
(* none has.                                                                *)
LEMMA DueIsPassed ==
    ASSUME NEW f \in Table, NEW t \in Moments, last[f.feed] \in Moments
    PROVE  IsDue(f, t) <=> PassedSince(f, last[f.feed], t)
<1> DEFINE l == last[f.feed]
<1>1. PICK d \in Int :
          /\ NextFire(f, t) = Instant(f, d)
          /\ ScheduledOn(f, d) /\ Before(l, Instant(f, d))
          /\ \A e \in Int : ScheduledOn(f, e) /\ Before(l, Instant(f, e)) => d <= e
    BY NextFireIsFirst
<1>2. /\ l.day \in Int /\ l.slot \in Int /\ t.day \in Int /\ t.slot \in Int /\ f.at \in Int
    BY TableFeeds, CalendarAssumption, SlotAssumption DEF Moments, Days, Slots
<1>3. IsDue(f, t) <=> ~Before(t, [day |-> d, slot |-> f.at])
    BY <1>1 DEF IsDue, Instant
<1> HIDE DEF l
<1>4. ASSUME ~Before(t, [day |-> d, slot |-> f.at]) PROVE PassedSince(f, l, t)
  <2>1. d \in l.day..t.day
    BY <1>1, <1>2, <1>4 DEF Before, Instant
  <2> QED
    BY <1>1, <1>4, <2>1 DEF PassedSince, Instant
<1>5. ASSUME PassedSince(f, l, t) PROVE ~Before(t, [day |-> d, slot |-> f.at])
  <2>1. PICK e \in l.day..t.day :
            /\ ScheduledOn(f, e) /\ Before(l, [day |-> e, slot |-> f.at])
            /\ ~Before(t, [day |-> e, slot |-> f.at])
    BY <1>5 DEF PassedSince
  <2>2. e \in Int /\ d <= e
    BY <1>1, <1>2, <2>1 DEF Instant
  <2> QED
    BY <1>2, <2>1, <2>2 DEF Before
<1> QED
    BY <1>3, <1>4, <1>5 DEF l

-----------------------------------------------------------------------------
(* What a tick has done so far.  No tick starts before a recorded fire; a   *)
(* fire under way was due; the feeds before the tick's turn are served; a   *)
(* daemon that is down has no tick; every recorded fire was in the window.  *)
Served(f, t) ==
    IF last[f.feed] = Never
    THEN Before(t, [day |-> Occurrence(f.every, t.day), slot |-> f.at])
    ELSE ~PassedSince(f, last[f.feed], t)

NotBeforeFires == now # Never => \A f \in Names : ~Before(now, last[f])
FiresWhenDue == pc = "record" => IsDue(FEED_SCHEDULES[turn], now) /\ AppliesNow(now)
EarlierServed ==
    Underway /\ AppliesNow(now) => \A i \in 1..7 : i < turn => Served(FEED_SCHEDULES[i], now)
DownHasNoTick == pc = "down" => now = Never
FiresInWindow == \A f \in Names : last[f] # Never => AppliesNow(last[f])

Cadence ==
    /\ NotBeforeFires /\ FiresWhenDue /\ EarlierServed /\ DownHasNoTick /\ FiresInWindow
    /\ TickServesAllDue

CadenceInv == TypeInv /\ Cadence

LEMMA CadenceInit == Init => CadenceInv
<1> SUFFICES ASSUME Init PROVE CadenceInv
    OBVIOUS
<1>1. pc = "down" /\ now = Never /\ \A f \in Names : last[f] = Never
    BY DEF Init
<1> QED
    BY <1>1, TypeInit
       DEF CadenceInv, Cadence, NotBeforeFires, FiresWhenDue, EarlierServed, DownHasNoTick, FiresInWindow,
           TickServesAllDue, Underway

(* A feed that a tick in the window passes over was served before it.       *)
LEMMA NotDueIsServed ==
    ASSUME TypeInv, pc = "tick", NEW f \in Table, ~IsDue(f, now)
    PROVE  Served(f, now)
<1>1. now \in Moments /\ last[f.feed] \in Moments \cup {Never}
    BY TableFeeds DEF TypeInv, TypeOK, TickHasTime
<1>2. CASE last[f.feed] = Never
  <2>1. NextFire(f, now) = [day |-> Occurrence(f.every, now.day), slot |-> f.at]
    BY <1>2 DEF NextFire
  <2> QED
    BY <1>2, <2>1 DEF Served, IsDue
<1>3. CASE last[f.feed] # Never
    BY <1>1, <1>3, DueIsPassed DEF Served
<1> QED
    BY <1>2, <1>3

(* A fire recorded at the tick's time serves its feed, and only its feed.   *)
LEMMA RecordServes ==
    ASSUME TypeInv, Record, NEW i \in 1..7
    PROVE  /\ i = turn => Served(FEED_SCHEDULES[i], now)'
           /\ i # turn => last'[FEED_SCHEDULES[i].feed] = last[FEED_SCHEDULES[i].feed]
<1>1. /\ turn \in 1..7 /\ now \in Moments /\ UNCHANGED now
      /\ last' = [last EXCEPT ![FEED_SCHEDULES[turn].feed] = now]
      /\ FEED_SCHEDULES[i].feed \in Names /\ FEED_SCHEDULES[turn].feed \in Names
      /\ DOMAIN last = Names
    BY TableFeeds DEF TypeInv, TypeOK, TickHasTime, TurnInTable, Record
<1>2. i # turn => FEED_SCHEDULES[i].feed # FEED_SCHEDULES[turn].feed
    BY <1>1, TableFeeds
<1>3. i = turn => last'[FEED_SCHEDULES[i].feed] = now
    BY <1>1
<1>4. now # Never /\ ~PassedSince(FEED_SCHEDULES[i], now, now)
  <2>1. now # Never
    BY <1>1, CalendarAssumption DEF Moments, Days, Never
  <2>2. ~PassedSince(FEED_SCHEDULES[i], now, now)
    BY DEF PassedSince
  <2> QED
    BY <2>1, <2>2
<1>5. i = turn => Served(FEED_SCHEDULES[i], now)'
  <2> SUFFICES ASSUME i = turn PROVE Served(FEED_SCHEDULES[i], now)'
    OBVIOUS
  <2>1. /\ last'[FEED_SCHEDULES[i].feed] # Never
        /\ ~PassedSince(FEED_SCHEDULES[i], last'[FEED_SCHEDULES[i].feed], now')
    BY <1>1, <1>3, <1>4
  <2>2. FEED_SCHEDULES' = FEED_SCHEDULES
    BY DEF FEED_SCHEDULES, Feed
  <2> QED
    BY <2>1, <2>2 DEF Served, PassedSince, ScheduledOn, Before, Weekday
<1> QED
    BY <1>1, <1>2, <1>5

(* Nothing a feed's cadence depends on has moved.                           *)
LEMMA RowKept ==
    ASSUME NEW f \in Table, last'[f.feed] = last[f.feed], UNCHANGED now
    PROVE  /\ IsDue(f, now)' <=> IsDue(f, now)
           /\ Served(f, now)' <=> Served(f, now)
<1>1. NextFire(f, now)' = NextFire(f, now)
    BY DEF NextFire, Before, Occurrence, Following, Weekday
<1>2. PassedSince(f, last[f.feed], now)' <=> PassedSince(f, last[f.feed], now)
    BY DEF PassedSince, ScheduledOn, Before, Weekday
<1>3. Never' = Never
    BY DEF Never
<1> QED
    BY <1>1, <1>2, <1>3 DEF IsDue, Served, Before, Occurrence, Weekday

LEMMA CadenceKept ==
    ASSUME CadenceInv, UNCHANGED <<pc, now, turn, last>>
    PROVE  Cadence'
<1>1. NotBeforeFires' /\ DownHasNoTick' /\ FiresInWindow'
    BY DEF CadenceInv, Cadence, NotBeforeFires, DownHasNoTick, FiresInWindow, Underway, Before, AppliesNow,
           Weekday, Never
<1>2. AppliesNow(now)' <=> AppliesNow(now)
    BY DEF AppliesNow, Weekday
<1>3. \A f \in Table : (IsDue(f, now)' <=> IsDue(f, now)) /\ (Served(f, now)' <=> Served(f, now))
    BY RowKept
<1>4. FiresWhenDue'
  <2> SUFFICES ASSUME pc = "record" PROVE (IsDue(FEED_SCHEDULES[turn], now) /\ AppliesNow(now))'
    BY DEF FiresWhenDue
  <2>1. PICK i \in 1..7 : turn = i
    BY DEF CadenceInv, Cadence, TypeInv, TurnInTable
  <2>2. IsDue(FEED_SCHEDULES[i], now)
    BY <2>1 DEF CadenceInv, Cadence, FiresWhenDue
  <2>3. IsDue(FEED_SCHEDULES[i], now)'
    BY <1>3, <2>2, TableFeeds
  <2> QED
    BY <1>2, <2>1, <2>3 DEF CadenceInv, Cadence, FiresWhenDue
<1>5. EarlierServed'
    BY <1>2, <1>3, TableFeeds DEF CadenceInv, Cadence, EarlierServed, Underway
<1>6. TickServesAllDue'
    BY <1>2, <1>3 DEF CadenceInv, Cadence, TickServesAllDue, Served
<1> QED
    BY <1>1, <1>4, <1>5, <1>6 DEF Cadence

(* A daemon that goes down keeps its rows and drops its tick.               *)
LEMMA CadenceExit ==
    ASSUME CadenceInv, Exit, UNCHANGED last
    PROVE  Cadence'
<1>1. pc' = "down" /\ now' = Never
    BY DEF Exit
<1>2. Never' = Never
    BY DEF Never
<1>3. FiresInWindow'
    BY <1>2 DEF CadenceInv, Cadence, FiresInWindow, AppliesNow, Weekday
<1> QED
    BY <1>1, <1>2, <1>3
       DEF Cadence, NotBeforeFires, FiresWhenDue, EarlierServed, DownHasNoTick, TickServesAllDue, Underway

LEMMA CadenceStart ==
    ASSUME CadenceInv, StartTick
    PROVE  Cadence'
<1>1. pc' = "tick" /\ now' = clock /\ turn' = 1 /\ UNCHANGED last
    BY DEF StartTick, tables
<1>2. NotBeforeFires'
    BY <1>1 DEF CadenceInv, Cadence, TypeInv, TypeOK, NotBeforeFires, Before
<1>3. EarlierServed'
    BY <1>1 DEF EarlierServed
<1>4. FiresInWindow'
    BY <1>1 DEF CadenceInv, Cadence, FiresInWindow, AppliesNow, Weekday, Never
<1> QED
    BY <1>1, <1>2, <1>3, <1>4 DEF Cadence, FiresWhenDue, DownHasNoTick, TickServesAllDue

(* Passing over a feed needs it served already, if the tick is in the       *)
(* window.                                                                  *)
LEMMA CadencePassOver ==
    ASSUME CadenceInv, NEW f \in Table, PassOver(f)
    PROVE  Cadence'
<1>1. /\ pc = "tick" /\ f = FEED_SCHEDULES[turn] /\ turn \in 1..7 /\ turn' = turn + 1
      /\ ~(IsDue(f, now) /\ AppliesNow(now)) /\ UNCHANGED <<pc, now, last>>
    BY TableShape DEF CadenceInv, Cadence, TypeInv, TypeOK, PassOver, InTurn, tables
<1>2. AppliesNow(now) => Served(f, now)
    BY <1>1, NotDueIsServed DEF CadenceInv, Cadence
<1>3. AppliesNow(now)' <=> AppliesNow(now)
    BY <1>1 DEF AppliesNow, Weekday
<1>4. ASSUME AppliesNow(now), NEW i \in 1..7, i < turn' PROVE Served(FEED_SCHEDULES[i], now)'
  <2>1. Served(FEED_SCHEDULES[i], now)
    <3>1. CASE i < turn
      BY <1>1, <1>4, <3>1 DEF CadenceInv, Cadence, EarlierServed, Underway
    <3>2. CASE i = turn
      BY <1>1, <1>2, <1>4, <3>2
    <3> QED
      BY <1>1, <1>4, <3>1, <3>2
  <2> QED
    BY <1>1, <2>1, RowKept, TableFeeds
<1>5. EarlierServed'
    BY <1>3, <1>4 DEF EarlierServed
<1>6. NotBeforeFires' /\ FiresInWindow'
    BY <1>1 DEF CadenceInv, Cadence, NotBeforeFires, FiresInWindow, Underway, Before, AppliesNow, Weekday, Never
<1> QED
    BY <1>1, <1>5, <1>6 DEF Cadence, FiresWhenDue, DownHasNoTick, TickServesAllDue

LEMMA CadenceFire ==
    ASSUME CadenceInv, NEW f \in Table, Fire(f)
    PROVE  Cadence'
<1>1. CASE Exit
    BY <1>1, CadenceExit, FireEffects DEF CadenceInv, Cadence
<1>2. CASE pc' = "record" /\ pc = "tick" /\ turn \in 1..7 /\ UNCHANGED <<now, turn>>
  <2>1. UNCHANGED last
    BY FireEffects DEF CadenceInv, Cadence
  <2>2. Firing(f)
    BY DEF Fire, FireScreener, FireEod, FireOther, FireTrader, FireEmpty, FireError, FireUnauthorised
  <2>3. PICK i \in 1..7 : turn = i /\ f = FEED_SCHEDULES[i]
    BY <1>2, <2>2 DEF Firing, InTurn
  <2>4. IsDue(FEED_SCHEDULES[i], now) /\ AppliesNow(now)
    BY <2>2, <2>3 DEF Firing
  <2>5. /\ \A g \in Table : IsDue(g, now)' <=> IsDue(g, now)
        /\ \A g \in Table : Served(g, now)' <=> Served(g, now)
    BY <1>2, <2>1, RowKept
  <2>6. AppliesNow(now)' <=> AppliesNow(now)
    BY <1>2 DEF AppliesNow, Weekday
  <2>7. IsDue(FEED_SCHEDULES[i], now)'
    BY <2>4, <2>5, TableFeeds
  <2>8. FiresWhenDue'
    BY <1>2, <2>3, <2>4, <2>6, <2>7 DEF FiresWhenDue
  <2>9. EarlierServed'
    BY <1>2, <2>5, <2>6, TableFeeds DEF CadenceInv, Cadence, EarlierServed, Underway
  <2>10. NotBeforeFires' /\ FiresInWindow'
    BY <1>2, <2>1
       DEF CadenceInv, Cadence, NotBeforeFires, FiresInWindow, Underway, Before, AppliesNow, Weekday, Never
  <2> QED
    BY <1>2, <2>8, <2>9, <2>10 DEF Cadence, DownHasNoTick, TickServesAllDue
<1> QED
    BY <1>1, <1>2, FireEffects DEF CadenceInv, Cadence

LEMMA CadenceRecord ==
    ASSUME CadenceInv, Record
    PROVE  Cadence'
<1>1. /\ pc = "record" /\ pc' = "tick" /\ turn \in 1..7 /\ turn' = turn + 1 /\ UNCHANGED now
      /\ last' = [last EXCEPT ![FEED_SCHEDULES[turn].feed] = now]
      /\ last \in [Names -> Moments \cup {Never}] /\ now \in Moments
      /\ FEED_SCHEDULES[turn].feed \in Names
    BY TableShape DEF CadenceInv, Cadence, TypeInv, TypeOK, TickHasTime, TurnInTable, Record
<1>2. \A g \in Names : last'[g] = now \/ last'[g] = last[g]
    BY <1>1
<1>3. ~Before(now, now) /\ AppliesNow(now)
    BY <1>1, NowIsMoment, BeforeOrder DEF Cadence, IsMoment, CadenceInv, FiresWhenDue
<1>4. NotBeforeFires'
  <2>1. now # Never
    BY <1>1, CalendarAssumption DEF Moments, Days, Never
  <2>2. \A g \in Names : ~Before(now, last[g])
    BY <2>1 DEF CadenceInv, Cadence, NotBeforeFires
  <2>3. \A g \in Names : ~Before(now, last'[g])
    BY <1>2, <1>3, <2>2
  <2> QED
    BY <1>1, <2>3 DEF NotBeforeFires, Before
<1>5. FiresInWindow'
  <2>1. \A g \in Names : last'[g] # Never => AppliesNow(last'[g])
    BY <1>2, <1>3 DEF CadenceInv, Cadence, FiresInWindow
  <2> QED
    BY <2>1 DEF FiresInWindow, AppliesNow, Weekday, Never
<1>6. ASSUME NEW i \in 1..7, i < turn' PROVE Served(FEED_SCHEDULES[i], now)'
  <2>1. CASE i = turn
    BY <2>1, RecordServes DEF CadenceInv, Cadence
  <2>2. CASE i # turn
    <3>1. Served(FEED_SCHEDULES[i], now)
      BY <1>1, <1>3, <1>6, <2>2 DEF CadenceInv, Cadence, EarlierServed, Underway
    <3>2. last'[FEED_SCHEDULES[i].feed] = last[FEED_SCHEDULES[i].feed] /\ FEED_SCHEDULES[i] \in Table
      BY <2>2, RecordServes, TableFeeds DEF CadenceInv, Cadence
    <3> QED
      BY <1>1, <3>1, <3>2, RowKept
  <2> QED
    BY <2>1, <2>2
<1>7. EarlierServed'
    BY <1>6 DEF EarlierServed
<1> QED
    BY <1>1, <1>4, <1>5, <1>7 DEF Cadence, FiresWhenDue, DownHasNoTick, TickServesAllDue

LEMMA CadenceEnd ==
    ASSUME CadenceInv, EndTick
    PROVE  Cadence'
<1>1. pc = "tick" /\ pc' = "sleep" /\ turn > 7 /\ UNCHANGED <<now, last>>
    BY TableShape DEF EndTick, tables
<1>2. AppliesNow(now)' <=> AppliesNow(now)
    BY <1>1 DEF AppliesNow, Weekday
<1>3. ASSUME AppliesNow(now), NEW f \in Table PROVE Served(f, now)'
  <2>1. PICK i \in 1..7 : f = FEED_SCHEDULES[i]
    BY TableFeeds
  <2>2. turn \in Int
    BY TableShape DEF CadenceInv, Cadence, TypeInv, TypeOK
  <2>3. Served(f, now)
    BY <1>1, <1>3, <2>1, <2>2 DEF CadenceInv, Cadence, EarlierServed, Underway
  <2> QED
    BY <1>1, <2>3, RowKept
<1>4. TickServesAllDue'
    BY <1>2, <1>3 DEF TickServesAllDue, Served
<1>5. FiresInWindow' /\ NotBeforeFires'
    BY <1>1 DEF CadenceInv, Cadence, FiresInWindow, NotBeforeFires, AppliesNow, Before, Weekday, Never
<1> QED
    BY <1>1, <1>4, <1>5 DEF Cadence, NotBeforeFires, FiresWhenDue, EarlierServed, DownHasNoTick, Underway

LEMMA CadenceStep == CadenceInv /\ [Next]_vars => CadenceInv'
<1> SUFFICES ASSUME CadenceInv, [Next]_vars
             PROVE  Cadence'
    BY TypeStep DEF CadenceInv, Cadence
<1>1. CASE Advance \/ SessionExpires \/ Login \/ (\E mode \in Traders \cup {"none"} : SetArmed(mode))
           \/ UNCHANGED vars
  <2>1. UNCHANGED <<pc, now, turn, last>>
    BY <1>1 DEF Advance, SessionExpires, Login, SetArmed, vars, tables
  <2> QED
    BY <2>1, CadenceKept
<1>2. CASE Launch
  <2>1. pc = "down" /\ pc' = "sleep" /\ now' = now /\ now = Never /\ UNCHANGED last
    BY <1>2 DEF Cadence, Launch, tables, CadenceInv, DownHasNoTick
  <2>2. FiresInWindow'
    BY <2>1 DEF CadenceInv, Cadence, FiresInWindow, AppliesNow, Weekday, Never
  <2>3. Never' = Never
    BY DEF Never
  <2> QED
    BY <2>1, <2>2, <2>3
       DEF Cadence, NotBeforeFires, FiresWhenDue, EarlierServed, DownHasNoTick, TickServesAllDue, Underway
<1>3. CASE Kill
    BY <1>3, CadenceExit DEF Kill, tables
<1>4. CASE StartTick
    BY <1>4, CadenceStart
<1>5. ASSUME NEW f \in Table, PassOver(f) \/ Fire(f)
      PROVE  Cadence'
    BY <1>5, CadencePassOver, CadenceFire
<1>6. CASE Record
    BY <1>6, CadenceRecord
<1>7. CASE EndTick
    BY <1>7, CadenceEnd
<1> QED
    BY <1>1, <1>2, <1>3, <1>4, <1>5, <1>6, <1>7 DEF Next

(* A tick inside the window leaves no feed behind: whatever died, failed or *)
(* expired before it, when it ends no scheduled instant has passed since a  *)
(* feed's last fire (runner.py tick, schedule.py next_fire).                *)
THEOREM TicksServeAllDue == Spec => []TickServesAllDue
<1>1. CadenceInv => TickServesAllDue
    BY DEF CadenceInv, Cadence
<1> QED
    BY <1>1, CadenceInit, CadenceStep, PTL DEF Spec

-----------------------------------------------------------------------------
(* One fire per instant, once per period                                    *)

(* A row changes only where a fire that was due is recorded at the time of  *)
(* its tick.                                                                *)
LEMMA RowChanges ==
    ASSUME CadenceInv, [Next]_vars, NEW f \in Table, last'[f.feed] # last[f.feed]
    PROVE  /\ last'[f.feed] = now /\ now \in Moments /\ AppliesNow(now) /\ IsDue(f, now)
           /\ last[f.feed] \in Moments \cup {Never}
<1>1. last' # last
    OBVIOUS
<1>2. Record
  <2>1. \A g \in Table : Fire(g) => UNCHANGED last
    BY FireEffects DEF CadenceInv
  <2> QED
    BY <1>1, <2>1 DEF Next, Advance, Launch, Kill, SessionExpires, Login, SetArmed, StartTick,
                      PassOver, EndTick, tables, vars
<1>3. /\ pc = "record" /\ turn \in 1..7 /\ now \in Moments
      /\ last' = [last EXCEPT ![FEED_SCHEDULES[turn].feed] = now]
      /\ last \in [Names -> Moments \cup {Never}]
    BY <1>2, TableShape DEF CadenceInv, TypeInv, TypeOK, TickHasTime, TurnInTable, Record
<1>4. PICK i \in 1..7 : f = FEED_SCHEDULES[i]
    BY TableFeeds
<1>5. FEED_SCHEDULES[turn].feed = f.feed /\ f.feed \in Names
    BY <1>3, TableFeeds
<1>6. i = turn
    BY <1>3, <1>4, <1>5, TableFeeds
<1>7. IsDue(f, now) /\ AppliesNow(now)
    BY <1>3, <1>4, <1>6 DEF CadenceInv, Cadence, FiresWhenDue
<1> QED
    BY <1>3, <1>5, <1>7

(* next_fire never fires a feed twice for one scheduled instant: between    *)
(* two recorded fires an instant of its cadence has passed, through kills,  *)
(* restarts, slow ticks and failed feeds (schedule.py next_fire).           *)
THEOREM OneFireAnInstant == Spec => OneFirePerInstant
<1>1. ASSUME CadenceInv, [Next]_vars, NEW f \in Table,
             last'[f.feed] # last[f.feed], last[f.feed] # Never
      PROVE  PassedSince(f, last[f.feed], last'[f.feed])
  <2>1. /\ last'[f.feed] = now /\ now \in Moments /\ IsDue(f, now) /\ last[f.feed] \in Moments
    BY <1>1, RowChanges
  <2>2. PassedSince(f, last[f.feed], now)
    BY <2>1, DueIsPassed
  <2> QED
    BY <2>1, <2>2
<1>2. CadenceInv /\ [Next]_vars
        => [\A f \in Table :
              last'[f.feed] # last[f.feed] /\ last[f.feed] # Never
                 => PassedSince(f, last[f.feed], last'[f.feed])]_vars
    BY <1>1
<1> QED
    BY <1>2, CadenceInit, CadenceStep, PTL DEF Spec, OneFirePerInstant

(* With the weekly and monthly instants not after the opening of the        *)
(* window, as config.py has them, each fires once per calendar week and     *)
(* month: no fire can be recorded on the day of an instant and before it.   *)
THEOREM PeriodsFireOnce ==
    ASSUME EOD_TIME <= WINDOW_OPEN
    PROVE  Spec => OncePerPeriod
<1>1. ASSUME CadenceInv, [Next]_vars, NEW f \in Table,
             f.every # "day", last'[f.feed] # last[f.feed], last[f.feed] # Never
      PROVE  Occurrence(f.every, last'[f.feed].day) # Occurrence(f.every, last[f.feed].day)
  <2> DEFINE l == last[f.feed]
  <2>1. last'[f.feed] = now /\ now \in Moments /\ IsDue(f, now) /\ l \in Moments
    BY <1>1, RowChanges
  <2>2. PICK d \in l.day..now.day :
            /\ ScheduledOn(f, d) /\ Before(l, [day |-> d, slot |-> f.at])
            /\ ~Before(now, [day |-> d, slot |-> f.at])
    BY <2>1, DueIsPassed DEF PassedSince
  <2>3. f.at <= l.slot
    <3>1. f.at = EOD_TIME /\ AppliesNow(l)
      BY <1>1, TableFeeds DEF CadenceInv, Cadence, FiresInWindow
    <3>2. l.slot \in Int /\ WINDOW_OPEN \in Int /\ EOD_TIME \in Int
      BY <2>1, SlotAssumption DEF Moments, Slots
    <3> QED
      BY <3>1, <3>2 DEF AppliesNow
  <2>4. /\ l.day \in Days /\ now.day \in Days /\ l.day \in Int /\ now.day \in Int /\ l.slot \in Int
        /\ f.at \in Int
    BY <2>1, TableFeeds, CalendarAssumption, SlotAssumption DEF Moments, Days, Slots
  <2>5. l.day < d /\ d <= now.day
    BY <2>2, <2>3, <2>4 DEF Before
  <2>6. d <= Occurrence(f.every, now.day) /\ Occurrence(f.every, now.day) \in Int
    BY <2>2, <2>4, <2>5, OccurrenceIsLast
  <2>7. Occurrence(f.every, l.day) <= l.day /\ Occurrence(f.every, l.day) \in Int
    BY <2>4, OccurrenceIsLast
  <2> QED
    BY <2>1, <2>4, <2>5, <2>6, <2>7
<1>2. CadenceInv /\ [Next]_vars
        => [\A f \in Table :
              f.every # "day" /\ last'[f.feed] # last[f.feed] /\ last[f.feed] # Never
                 => Occurrence(f.every, last'[f.feed].day) # Occurrence(f.every, last[f.feed].day)]_vars
    BY <1>1
<1> QED
    BY <1>2, CadenceInit, CadenceStep, PTL DEF Spec, OncePerPeriod

-----------------------------------------------------------------------------
(* Holes                                                                    *)

(* The session before a day: the last weekday before it.                    *)
LastSession(p, d) ==
    /\ p \in Int /\ p < d /\ Weekday(p) < 5
    /\ \A e \in (p + 1)..(d - 1) : Weekday(e) >= 5

LEMMA PreviousIsLastSession ==
    ASSUME NEW d \in Int PROVE LastSession(PreviousTradingDay(d), d)
<1> DEFINE S == {e \in (d - 3)..(d - 1) : Weekday(e) < 5}
           p == PreviousTradingDay(d)
<1>1. p \in S /\ \A e \in S : e <= p
  <2>1. S \in SUBSET Int /\ \A e \in S : e <= d
    OBVIOUS
  <2>2. S # {}
    <3>1. /\ Weekday(d - 1) \in Int /\ Weekday(d - 2) \in Int
          /\ Weekday(d - 1) >= 5 /\ Weekday(d - 2) >= 5 => Weekday(d - 3) < 5
      BY CalendarAssumption DEF Weekday
    <3> QED
      BY <3>1, d - 1 \in (d - 3)..(d - 1), d - 2 \in (d - 3)..(d - 1), d - 3 \in (d - 3)..(d - 1)
  <2>3. Max(S) \in S /\ \A e \in S : e <= Max(S)
    <3> HIDE DEF S
    <3> QED
      BY <2>1, <2>2, MaxOfBounded
  <2> QED
    BY <2>3 DEF PreviousTradingDay
<1>2. ASSUME NEW e \in (p + 1)..(d - 1) PROVE Weekday(e) >= 5
  <2>1. p \in Int /\ d - 3 <= p
    BY <1>1
  <2>2. e \in (d - 3)..(d - 1) /\ e > p
    BY <2>1
  <2>3. e \notin S /\ Weekday(e) \in Int
    BY <1>1, <2>1, <2>2, Weekdays
  <2> QED
    BY <2>2, <2>3
<1> QED
    BY <1>1, <1>2 DEF LastSession

(* A fire of the ingest that is recorded, or about to be, as done has       *)
(* pulled the session before its day.                                       *)
EodRow ==
    /\ IngestRow # Never => outcome["eod_ingest"] \in Outcomes
    /\ outcome["eod_ingest"] = "OK" => PreviousTradingDay(IngestRow.day) \in pulled
    /\ pc = "record" /\ turn = 2 /\ result = "OK" => PreviousTradingDay(now.day) \in pulled

LEMMA EodInit == Init => EodRow
BY IngestNamed DEF Init, EodRow, IngestRow

LEMMA EodStep == CadenceInv /\ EodRow /\ [Next]_vars => EodRow'
<1> SUFFICES ASSUME CadenceInv, EodRow, [Next]_vars PROVE EodRow'
    OBVIOUS
<1> USE DEF IngestRow
<1>0. TypeInv
    BY DEF CadenceInv
<1>1. ASSUME UNCHANGED <<last, outcome>>, pulled \subseteq pulled',
             pc' = "record" =>
                \/ UNCHANGED <<pc, now, turn, result>>
                \/ (turn' = 2 /\ result' = "OK" => PreviousTradingDay(now'.day) \in pulled')
      PROVE  EodRow'
  <2>1. IngestRow' # Never => outcome'["eod_ingest"] \in Outcomes
    BY <1>1 DEF EodRow
  <2>2. outcome'["eod_ingest"] = "OK" => PreviousTradingDay(IngestRow'.day) \in pulled'
    BY <1>1 DEF EodRow
  <2>3. pc' = "record" /\ turn' = 2 /\ result' = "OK" => PreviousTradingDay(now'.day) \in pulled'
    BY <1>1 DEF EodRow
  <2> QED
    BY <2>1, <2>2, <2>3 DEF EodRow, Outcomes, Never
<1>2. CASE \/ Advance \/ SessionExpires \/ Login \/ UNCHANGED vars
           \/ \E mode \in Traders \cup {"none"} : SetArmed(mode)
  <2>1. UNCHANGED <<pc, now, turn, result, last, outcome, pulled>>
    BY <1>2 DEF Advance, SessionExpires, Login, SetArmed, vars, tables, effects
  <2> QED
    BY <1>1, <2>1
<1>3. CASE Launch \/ Kill \/ StartTick \/ EndTick
  <2>1. UNCHANGED <<last, outcome, pulled>> /\ pc' # "record"
    BY <1>3 DEF Launch, Kill, Exit, StartTick, EndTick, tables, effects
  <2> QED
    BY <1>1, <2>1
<1>4. ASSUME NEW f \in Table, PassOver(f) PROVE EodRow'
  <2>1. UNCHANGED <<last, outcome, pulled>> /\ pc' # "record"
    BY <1>4 DEF PassOver, InTurn, tables, effects
  <2> QED
    BY <1>1, <2>1
<1>5. ASSUME NEW f \in Table, Fire(f) PROVE EodRow'
  <2>1. UNCHANGED <<last, outcome>>
    BY <1>0, <1>5, FireEffects
  <2>2. CASE FireEod(f)
    <3>1. /\ pulled' = pulled \cup {PreviousTradingDay(now.day)} /\ UNCHANGED now
      BY <2>2 DEF FireEod, Return
    <3> QED
      BY <1>1, <2>1, <3>1
  <2>3. CASE ~FireEod(f)
    <3>1. pulled' = pulled /\ (Exit \/ Return("OK") \/ Return("EMPTY") \/ Return("ERROR"))
      BY <1>5, <2>3 DEF Fire, FireScreener, FireOther, FireTrader, FireEmpty, FireError,
                        FireUnauthorised, effects
    <3>2. pc' = "record" => turn' # 2 \/ result' # "OK"
      <4> SUFFICES ASSUME pc' = "record", turn = 2, result' = "OK", ~Exit PROVE FALSE
        BY <3>1 DEF Return, Exit
      <4>1. f = FEED_SCHEDULES[2] /\ f.feed = "eod_ingest" /\ f.scope = "UNIVERSE"
        BY <1>5, TableShape DEF Fire, FireScreener, FireEod, FireOther, FireTrader, FireEmpty,
                    FireError, FireUnauthorised, Firing, InTurn, Feed
      <4> QED
        BY <1>5, <2>3, <4>1
           DEF Fire, FireScreener, FireOther, FireTrader, FireEmpty, FireError, FireUnauthorised,
               Return, Traders, Exit
    <3> QED
      BY <1>1, <2>1, <3>1, <3>2
  <2> QED
    BY <2>2, <2>3
<1>6. CASE Record
  <2>1. /\ pc = "record" /\ pc' # "record" /\ turn \in 1..7 /\ UNCHANGED <<now, pulled>>
        /\ last' = [last EXCEPT ![FEED_SCHEDULES[turn].feed] = now]
        /\ outcome' = [outcome EXCEPT ![FEED_SCHEDULES[turn].feed] = result]
        /\ last \in [Names -> Moments \cup {Never}] /\ outcome \in [Names -> Outcomes \cup {"none"}]
        /\ result \in Outcomes
    BY <1>0, <1>6, TableShape DEF TypeInv, TypeOK, TurnInTable, Record, effects
  <2>2. CASE turn = 2
    <3>1. last'["eod_ingest"] = now /\ outcome'["eod_ingest"] = result
      BY <2>1, <2>2, IngestNamed, TableShape DEF Feed
    <3>2. result = "OK" => PreviousTradingDay(now.day) \in pulled
      BY <2>1, <2>2 DEF EodRow
    <3> QED
      BY <2>1, <3>1, <3>2 DEF EodRow, Outcomes, Never
  <2>3. CASE turn # 2
    <3>1. FEED_SCHEDULES[turn].feed # "eod_ingest"
      BY <2>1, <2>3, TableShape
    <3>2. last'["eod_ingest"] = last["eod_ingest"] /\ outcome'["eod_ingest"] = outcome["eod_ingest"]
      BY <2>1, <3>1, IngestNamed
    <3> QED
      BY <2>1, <3>2 DEF EodRow, Outcomes, Never
  <2> QED
    BY <2>2, <2>3
<1> QED
    BY <1>2, <1>3, <1>4, <1>5, <1>6 DEF Next

(* An end-of-day hole has a cause on record: when a tick in the window has  *)
(* ended and the ingest's instant has passed, either the ingest of this     *)
(* very day is recorded as failed or empty, or it pulled the session before *)
(* this day (runner.py run_eod, write_scheduler_run).                       *)
THEOREM HolesHaveACause == Spec => []HolesAreRecorded
<1>1. ASSUME CadenceInv, EodRow PROVE HolesAreRecorded
  <2> SUFFICES ASSUME pc = "sleep", now # Never, AppliesNow(now),
                      outcome["eod_ingest"] \notin {"ERROR", "EMPTY"},
                      ~Before(now, [day |-> now.day, slot |-> EOD_TIME])
               PROVE  LastSession(PreviousTradingDay(now.day), now.day)
                      /\ PreviousTradingDay(now.day) \in pulled
    BY DEF HolesAreRecorded, LastSession
  <2> DEFINE f == FEED_SCHEDULES[2]
  <2>1. f \in Table /\ f.feed = "eod_ingest" /\ f.every = "day" /\ f.at = EOD_TIME
    BY TableShape, TableFeeds DEF Feed
  <2>2. /\ now \in Moments /\ IngestRow \in Moments \cup {Never} /\ ~Before(clock, IngestRow)
        /\ now.day \in Int /\ now.slot \in Int /\ EOD_TIME \in Int
    BY <1>1, IngestNamed, CalendarAssumption, SlotAssumption
       DEF CadenceInv, TypeInv, TypeOK, IngestRow, Moments, Days, Slots
  <2>3. IngestRow # Never /\ ~PassedSince(f, IngestRow, now)
    BY <1>1, <2>1 DEF CadenceInv, Cadence, TickServesAllDue, IngestRow, Occurrence
  <2>4. outcome["eod_ingest"] = "OK"
    BY <1>1, <2>3 DEF EodRow, Outcomes
  <2>5. IngestRow.day = now.day
    <3>1. /\ IngestRow.day \in Int /\ IngestRow.slot \in Int
      BY <2>2, <2>3, NowIsMoment
    <3>2. CASE IngestRow.day > now.day
      <4>1. ~Before(now, IngestRow)
        BY <1>1, IngestNamed DEF CadenceInv, Cadence, NotBeforeFires, IngestRow
      <4> QED
        BY <2>2, <3>1, <3>2, <4>1 DEF Before
    <3>3. CASE IngestRow.day <= now.day
      <4>1. ~Before(IngestRow, [day |-> now.day, slot |-> f.at])
        BY <2>1, <2>2, <2>3, <3>1, <3>3 DEF PassedSince, ScheduledOn
      <4> QED
        BY <2>2, <3>1, <3>3, <4>1 DEF Before
    <3> QED
      BY <2>2, <3>1, <3>2, <3>3
  <2>6. PreviousTradingDay(now.day) \in pulled
    BY <1>1, <2>4, <2>5 DEF EodRow
  <2> QED
    BY <2>2, <2>6, PreviousIsLastSession
<1> QED
    BY <1>1, CadenceInit, CadenceStep, EodInit, EodStep, PTL DEF Spec
=============================================================================
