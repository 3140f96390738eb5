----------------------------- MODULE AutoTrader -----------------------------
(***************************************************************************)
(* The Fast / Haste auto paper-traders: arming (validation/fast_mode.py,   *)
(* set_enabled), the day-step (run_fast_mode_step over portfolio_runner's  *)
(* step_day) and the three tables it saves to (store/db.py).               *)
(*                                                                         *)
(* The tables are sets of rows.  Every statement the store executes is an  *)
(* autocommit of its own, so a save is a sequence of steps with a crash    *)
(* possible between any two.  DuckDB gives one process the database at a   *)
(* time: "holder" is that process, the terminal (Streamlit, many sessions  *)
(* sharing one Store) or a stepper (the scheduler daemon, or the CLI).     *)
(*                                                                         *)
(* Prices are small integers, a traded bar is its open (= close), slippage *)
(* is folded into flat fees, a quantity counts lots.                       *)
(*                                                                         *)
(* A definition whose name ends in an underscore and a word is a plausible *)
(* slip in the definition that follows it; the runs are shown to catch it. *)
(***************************************************************************)
EXTENDS Integers, FiniteSets, FiniteSetsExt

CONSTANTS
    Syms,          \* the names of the universe
    SectorOf,      \* name -> its sector (universe/sectors.py)
    Sessions,      \* browser sessions of the terminal
    MaxDay,        \* bound: number of trading days
    FirstPrice,    \* the bar of day 1, the history the store starts with
    Feeds,         \* what a day can bring for one name: see DayData
    Equity,        \* PortfolioConfig.equity, the fixed sizing base
    RiskBudget,    \* equity x 1% x tilt
    NameCap,       \* equity x EXPOSURE_CAP_NAME
    SectorCap,     \* equity x EXPOSURE_CAP_SECTOR
    HaltPct,       \* daily loss in percent that halts new entries
    PausePct,      \* drawdown in percent that pauses the system
    BandPct,       \* auto-reject band: a move that locks a name, in percent
    Premium,       \* how far above the last close a buy may fill
    StopGap,       \* last close minus the stop
    TargetGap,     \* target minus the last close
    BuyFee, SellFee, \* the fee stack of one fill
    CrashAllowed   \* may a stepper die in the middle of a day-step

Modes == {"FAST", "HASTE"}
Other(m) == IF m = "FAST" THEN "HASTE" ELSE "FAST"

(* One name's day as the store shows it: bar 0 is a day without a bar, cand *)
(* is membership of the cached SCR-0 universe, soft stands for the exits    *)
(* that hang on more than the last bar (trailing stop, signal decay).       *)
DayData == [bar : Nat, cohort : {"OUT", "WATCH", "ARMED"}, cand : BOOLEAN, soft : BOOLEAN]

ASSUME DayDataAssumption == Feeds \subseteq DayData /\ Feeds # {}
ASSUME MaxDayAssumption == MaxDay \in Nat /\ MaxDay >= 2
ASSUME MoneyAssumption ==
    /\ Equity \in Nat \ {0}
    /\ FirstPrice \in Nat \ {0}
    /\ \A x \in {RiskBudget, NameCap, SectorCap, HaltPct, PausePct, BandPct,
                 Premium, StopGap, TargetGap, BuyFee, SellFee} : x \in Nat
ASSUME CrashAssumption == CrashAllowed \in BOOLEAN

VARIABLES
    day,     \* the trading day a step run now would process
    mkt,     \* name -> today's DayData and the last bar before it
    pos,     \* table paper_position, per mode
    trades,  \* table paper_trade, per mode
    st,      \* table fast_mode_state, per mode; a row never written reads as NewRow
    holder,  \* the process that has the database open
    ses,     \* terminal session -> its set_enabled call in progress
    pc,      \* where the stepper is in run_fast_mode_step
    run      \* the stepper's local variables

vars == <<day, mkt, pos, trades, st, holder, ses, pc, run>>

-----------------------------------------------------------------------------
(* Rows                                                                     *)

Position == [sym : Syms, entry : Nat, price : Nat, stop : Int, target : Nat, qty : Nat \ {0}]
Trade == [sym : Syms, entry : Nat, exit : Nat, pnl : Int]
StateRow == [enabled : BOOLEAN, since : Nat, last : Nat,
             realized : Int, prev : Int, peak : Int]

NewRow == [enabled |-> FALSE, since |-> 0, last |-> 0,
           realized |-> 0, prev |-> Equity, peak |-> Equity]

IdleSession == [pc |-> "idle", mode |-> "FAST", want |-> FALSE, row |-> NewRow]
IdleRun == [mode |-> "FAST", row |-> NewRow, book |-> {}, closed |-> {}, todo |-> {},
            realized |-> 0, equity |-> Equity, peak |-> Equity]

Held(book) == {p.sym : p \in book}
TradeKey(t) == <<t.sym, t.entry, t.exit>>

-----------------------------------------------------------------------------
(* Exits: risk.evaluate_exit on the last bar visible before today, then the *)
(* sell at today's open unless the name is locked limit-down or has no bar. *)

ShouldExit_Undated(p) ==
    LET q == mkt[p.sym] IN q.lastClose <= p.stop \/ q.lastClose >= p.target \/ q.soft

ShouldExit(p) ==
    LET q == mkt[p.sym] IN
    /\ q.lastDay >= p.entry
    /\ q.lastClose <= p.stop \/ q.lastClose >= p.target \/ q.soft

LockedUp(q) == 100 * (q.bar - q.lastClose) >= BandPct * q.lastClose
LockedDown(q) == 100 * (q.lastClose - q.bar) >= BandPct * q.lastClose

Fillable(q) == q.bar > 0 /\ q.lastDay > 0
SellFills(q) == Fillable(q) /\ ~LockedDown(q)
BuyFills(q) == Fillable(q) /\ ~LockedUp(q) /\ q.bar <= q.lastClose + Premium

Exiting(book) == {p \in book : ShouldExit(p) /\ SellFills(mkt[p.sym])}

ClosedBy(p) ==
    [sym |-> p.sym, entry |-> p.entry, exit |-> day,
     pnl |-> (mkt[p.sym].bar - p.price) * p.qty - BuyFee - SellFee]

-----------------------------------------------------------------------------
(* Marks are the last close before today (fill price if there is none).     *)

Mark(p) == IF mkt[p.sym].lastDay > 0 THEN mkt[p.sym].lastClose ELSE p.price
Unrealized(book) == MapThenSumSet(LAMBDA p : (Mark(p) - p.price) * p.qty, book)
PnlOf(rows) == MapThenSumSet(LAMBDA t : t.pnl, rows)

PauseTripped(equity, peak) == peak # 0 /\ 100 * (peak - equity) >= PausePct * peak
HaltTripped(equity, prev) == prev # 0 /\ 100 * (prev - equity) >= HaltPct * prev
Tripped(equity, prev, peak) == PauseTripped(equity, peak) \/ HaltTripped(equity, prev)

-----------------------------------------------------------------------------
(* Entries: a name is a candidate when it is in today's universe or was     *)
(* held when the step began (its exit-only spec stays in the spec table).   *)

InCohort(m, s) ==
    IF m = "HASTE" THEN mkt[s].cohort \in {"WATCH", "ARMED"} ELSE mkt[s].cohort = "ARMED"

Candidates(m, heldBefore, book) ==
    {s \in Syms : /\ mkt[s].cand \/ s \in heldBefore
                  /\ s \notin Held(book)
                  /\ InCohort(m, s)
                  /\ mkt[s].lastDay > 0}

(* step_day blocks every entry of the day while a breaker is tripped.       *)
EntryQueue_Unmarked(m, book, equity, peak) ==
    IF Tripped(st[m].prev, st[m].prev, st[m].peak) THEN {}
    ELSE Candidates(m, Held(pos[m]), book)

EntryQueue_HaltOnly(m, book, equity, peak) ==
    IF HaltTripped(equity, st[m].prev) THEN {} ELSE Candidates(m, Held(pos[m]), book)

EntryQueue(m, book, equity, peak) ==
    IF Tripped(equity, st[m].prev, peak) THEN {} ELSE Candidates(m, Held(pos[m]), book)

(* The internal SMS orders entries; ARMED scores above WATCH by definition. *)
Rank(s) == IF mkt[s].cohort = "ARMED" THEN 1 ELSE 0

SectorMarks(book, sector) ==
    MapThenSumSet(LAMBDA p : Mark(p) * p.qty, {p \in book : SectorOf[p.sym] = sector})

(* generate_order: risk budget over risk per share, clamped by the name cap *)
(* and by the room the live book leaves in the sector; 0 is a rejection.    *)
OrderQty(s, book) ==
    LET limit == mkt[s].lastClose + Premium
        risk == StopGap + Premium
        room == SectorCap - SectorMarks(book, SectorOf[s])
    IN IF risk = 0 \/ room <= 0 \/ limit = 0 THEN 0
       ELSE Min({RiskBudget \div risk, NameCap \div limit, room \div limit})

Opened(s, q) ==
    [sym |-> s, entry |-> day, price |-> mkt[s].bar,
     stop |-> mkt[s].lastClose - StopGap, target |-> mkt[s].lastClose + TargetGap,
     qty |-> q]

-----------------------------------------------------------------------------
(* The environment: the market, and which process has the database open.    *)

(* A day passes between calls: a step and a toggle each read one clock.     *)
NextDay ==
    /\ pc = "idle"
    /\ \A t \in Sessions : ses[t].pc = "idle"
    /\ day < MaxDay
    /\ day' = day + 1
    /\ \E today \in [Syms -> Feeds] :
          mkt' = [s \in Syms |->
              [bar |-> today[s].bar, cohort |-> today[s].cohort,
               cand |-> today[s].cand, soft |-> today[s].soft,
               lastDay |-> IF mkt[s].bar > 0 THEN day ELSE mkt[s].lastDay,
               lastClose |-> IF mkt[s].bar > 0 THEN mkt[s].bar ELSE mkt[s].lastClose]]
    /\ UNCHANGED <<pos, trades, st, holder, ses, pc, run>>

OpenDatabase(p) ==
    /\ holder = "none"
    /\ holder' = p
    /\ UNCHANGED <<day, mkt, pos, trades, st, ses, pc, run>>

(* Stopping the terminal drops the set_enabled calls in progress.           *)
CloseTerminal ==
    /\ holder = "terminal"
    /\ holder' = "none"
    /\ ses' = [t \in Sessions |-> IdleSession]
    /\ UNCHANGED <<day, mkt, pos, trades, st, pc, run>>

CloseStepper ==
    /\ holder = "stepper"
    /\ pc = "idle"
    /\ holder' = "none"
    /\ UNCHANGED <<day, mkt, pos, trades, st, ses, pc, run>>

(* A stepper dies inside a day-step: the statements it executed stay.       *)
Crash ==
    /\ CrashAllowed
    /\ pc # "idle"
    /\ holder' = "none"
    /\ pc' = "idle"
    /\ run' = IdleRun
    /\ UNCHANGED <<day, mkt, pos, trades, st, ses>>

-----------------------------------------------------------------------------
(* set_enabled, called by a terminal session: read the rival's row (arming  *)
(* only; an armed rival refuses with ModeConflictError), read the own row,  *)
(* write the whole row back.                                                *)

ReadRival_Unchecked(t, m) ==
    /\ holder = "terminal"
    /\ ses[t].pc = "idle"
    /\ ses' = [ses EXCEPT ![t] = [pc |-> "read", mode |-> m, want |-> TRUE, row |-> NewRow]]
    /\ UNCHANGED <<day, mkt, pos, trades, st, holder, pc, run>>

ReadRival(t, m) ==
    /\ holder = "terminal"
    /\ ses[t].pc = "idle"
    /\ ~st[Other(m)].enabled
    /\ ses' = [ses EXCEPT ![t] = [pc |-> "read", mode |-> m, want |-> TRUE, row |-> NewRow]]
    /\ UNCHANGED <<day, mkt, pos, trades, st, holder, pc, run>>

StartDisarm(t, m) ==
    /\ holder = "terminal"
    /\ ses[t].pc = "idle"
    /\ ses' = [ses EXCEPT ![t] = [pc |-> "read", mode |-> m, want |-> FALSE, row |-> NewRow]]
    /\ UNCHANGED <<day, mkt, pos, trades, st, holder, pc, run>>

ReadPrev(t) ==
    /\ ses[t].pc = "read"
    /\ ses' = [ses EXCEPT ![t] = [pc |-> "write", mode |-> ses[t].mode, want |-> ses[t].want,
                                  row |-> st[ses[t].mode]]]
    /\ UNCHANGED <<day, mkt, pos, trades, st, holder, pc, run>>

(* Arming stamps the RULE B clock once; today is the day after "day".       *)
SetRow_Restamp(row, want) ==
    [enabled |-> want, since |-> IF want THEN day + 1 ELSE row.since,
     last |-> row.last, realized |-> row.realized, prev |-> row.prev, peak |-> row.peak]

SetRow(row, want) ==
    [enabled |-> want, since |-> IF want /\ row.since = 0 THEN day + 1 ELSE row.since,
     last |-> row.last, realized |-> row.realized, prev |-> row.prev, peak |-> row.peak]

WriteArm(t) ==
    /\ ses[t].pc = "write"
    /\ st' = [st EXCEPT ![ses[t].mode] = SetRow(ses[t].row, ses[t].want)]
    /\ ses' = [ses EXCEPT ![t] = IdleSession]
    /\ UNCHANGED <<day, mkt, pos, trades, holder, pc, run>>

-----------------------------------------------------------------------------
(* run_fast_mode_step.  A disarmed mode or a processed day is a no-op.      *)

StepDue_Repeats(m) == st[m].enabled

StepDue(m) == st[m].enabled /\ day > st[m].last

(* Load the book, exit, mark, derive the circuit state, rank candidates.    *)
StepBegin(m) ==
    /\ holder = "stepper"
    /\ pc = "idle"
    /\ StepDue(m)
    /\ LET book == pos[m] \ Exiting(pos[m])
           closed == {ClosedBy(p) : p \in Exiting(pos[m])}
           realized == st[m].realized + PnlOf(closed)
           equity == Equity + realized + Unrealized(book)
           peak == Max({st[m].peak, equity})
       IN run' = [mode |-> m, row |-> st[m], book |-> book, closed |-> closed,
                  todo |-> EntryQueue(m, book, equity, peak),
                  realized |-> realized, equity |-> equity, peak |-> peak]
    /\ pc' = "entries"
    /\ UNCHANGED <<day, mkt, pos, trades, st, holder, ses>>

(* One turn of the entry loop: the best remaining candidate.                *)
TryEntry_ZeroLots(s) ==
    /\ pc = "entries"
    /\ s \in run.todo
    /\ \A x \in run.todo : Rank(x) <= Rank(s)
    /\ run' = [run EXCEPT !.todo = @ \ {s},
                          !.book = IF BuyFills(mkt[s])
                                   THEN @ \cup {Opened(s, OrderQty(s, run.book))} ELSE @]
    /\ UNCHANGED <<day, mkt, pos, trades, st, holder, ses, pc>>

TryEntry_Retries(s) ==
    /\ pc = "entries"
    /\ s \in run.todo
    /\ \A x \in run.todo : Rank(x) <= Rank(s)
    /\ LET q == OrderQty(s, run.book) IN
       /\ q > 0 /\ BuyFills(mkt[s])
       /\ run' = [run EXCEPT !.todo = @ \ {s}, !.book = @ \cup {Opened(s, q)}]
    /\ UNCHANGED <<day, mkt, pos, trades, st, holder, ses, pc>>

TryEntry(s) ==
    /\ pc = "entries"
    /\ s \in run.todo
    /\ \A x \in run.todo : Rank(x) <= Rank(s)
    /\ LET q == OrderQty(s, run.book) IN
       run' = [run EXCEPT !.todo = @ \ {s},
                          !.book = IF q > 0 /\ BuyFills(mkt[s]) THEN @ \cup {Opened(s, q)} ELSE @]
    /\ UNCHANGED <<day, mkt, pos, trades, st, holder, ses, pc>>

(* replace_fast_positions: DELETE, then one INSERT per row.                 *)
DeleteBook ==
    /\ pc = "entries"
    /\ run.todo = {}
    /\ pos' = [pos EXCEPT ![run.mode] = {}]
    /\ pc' = "insert"
    /\ UNCHANGED <<day, mkt, trades, st, holder, ses, run>>

InsertPosition(p) ==
    /\ pc = "insert"
    /\ p \in run.book \ pos[run.mode]
    /\ pos' = [pos EXCEPT ![run.mode] = @ \cup {p}]
    /\ UNCHANGED <<day, mkt, trades, st, holder, ses, pc, run>>

(* append_fast_trades: INSERT ... ON CONFLICT DO NOTHING on the trade key.  *)
AppendTrade(t) ==
    /\ pc = "insert"
    /\ pos[run.mode] = run.book
    /\ t \in run.closed
    /\ \A old \in trades[run.mode] : TradeKey(old) # TradeKey(t)
    /\ trades' = [trades EXCEPT ![run.mode] = @ \cup {t}]
    /\ UNCHANGED <<day, mkt, pos, st, holder, ses, pc, run>>

(* write_fast_mode_state: the step's commit point.                          *)
WriteState_OldPnl ==
    /\ pc = "insert"
    /\ pos[run.mode] = run.book
    /\ \A t \in run.closed : \E old \in trades[run.mode] : TradeKey(old) = TradeKey(t)
    /\ st' = [st EXCEPT ![run.mode] =
                 [enabled |-> TRUE,
                  since |-> IF run.row.since # 0 THEN run.row.since ELSE day,
                  last |-> day,
                  realized |-> run.row.realized, prev |-> run.equity, peak |-> run.peak]]
    /\ pc' = "idle"
    /\ run' = IdleRun
    /\ UNCHANGED <<day, mkt, pos, trades, holder, ses>>

WriteState_OldPeak ==
    /\ pc = "insert"
    /\ pos[run.mode] = run.book
    /\ \A t \in run.closed : \E old \in trades[run.mode] : TradeKey(old) = TradeKey(t)
    /\ st' = [st EXCEPT ![run.mode] =
                 [enabled |-> TRUE,
                  since |-> IF run.row.since # 0 THEN run.row.since ELSE day,
                  last |-> day,
                  realized |-> run.realized, prev |-> run.equity, peak |-> run.row.peak]]
    /\ pc' = "idle"
    /\ run' = IdleRun
    /\ UNCHANGED <<day, mkt, pos, trades, holder, ses>>

WriteState ==
    /\ pc = "insert"
    /\ pos[run.mode] = run.book
    /\ \A t \in run.closed : \E old \in trades[run.mode] : TradeKey(old) = TradeKey(t)
    /\ st' = [st EXCEPT ![run.mode] =
                 [enabled |-> TRUE,
                  since |-> IF run.row.since # 0 THEN run.row.since ELSE day,
                  last |-> day,
                  realized |-> run.realized, prev |-> run.equity, peak |-> run.peak]]
    /\ pc' = "idle"
    /\ run' = IdleRun
    /\ UNCHANGED <<day, mkt, pos, trades, holder, ses>>

-----------------------------------------------------------------------------
(* The store starts with one bar of history, day 1's.                       *)
Init ==
    /\ day = 2
    /\ \E today \in [Syms -> Feeds] :
          mkt = [s \in Syms |->
              [bar |-> today[s].bar, cohort |-> today[s].cohort,
               cand |-> today[s].cand, soft |-> today[s].soft,
               lastDay |-> 1, lastClose |-> FirstPrice]]
    /\ pos = [m \in Modes |-> {}]
    /\ trades = [m \in Modes |-> {}]
    /\ st = [m \in Modes |-> NewRow]
    /\ holder = "none"
    /\ ses = [t \in Sessions |-> IdleSession]
    /\ pc = "idle"
    /\ run = IdleRun

Toggle(t) ==
    \/ \E m \in Modes : ReadRival(t, m) \/ StartDisarm(t, m)
    \/ ReadPrev(t)
    \/ WriteArm(t)

Save ==
    \/ DeleteBook
    \/ \E p \in run.book : InsertPosition(p)
    \/ \E t \in run.closed : AppendTrade(t)
    \/ WriteState

Next ==
    \/ NextDay
    \/ \E p \in {"terminal", "stepper"} : OpenDatabase(p)
    \/ CloseTerminal
    \/ CloseStepper
    \/ Crash
    \/ \E t \in Sessions : Toggle(t)
    \/ \E m \in Modes : StepBegin(m)
    \/ \E s \in run.todo : TryEntry(s)
    \/ Save

Spec == Init /\ [][Next]_vars

(* A stepper that is not killed runs its day-step to the end.               *)
Fairness == WF_vars(\E s \in run.todo : TryEntry(s)) /\ WF_vars(Save)
FairSpec == Spec /\ Fairness

-----------------------------------------------------------------------------
(* Properties                                                               *)

(* The tables and the stepper's locals hold rows of their declared types.   *)
TypeOK ==
    /\ day \in 1..MaxDay
    /\ mkt \in [Syms -> [bar : Nat, cohort : {"OUT", "WATCH", "ARMED"}, cand : BOOLEAN,
                         soft : BOOLEAN, lastDay : Nat, lastClose : Nat]]
    /\ pos \in [Modes -> SUBSET Position]
    /\ trades \in [Modes -> SUBSET Trade]
    /\ st \in [Modes -> StateRow]
    /\ holder \in {"none", "terminal", "stepper"}
    /\ ses \in [Sessions -> [pc : {"idle", "read", "write"}, mode : Modes,
                             want : BOOLEAN, row : StateRow]]
    /\ pc \in {"idle", "entries", "insert"}
    /\ run \in [mode : Modes, row : StateRow, book : SUBSET Position, closed : SUBSET Trade,
                todo : SUBSET Syms, realized : Int, equity : Int, peak : Int]

(* set_enabled refuses to arm a mode while the other is armed, so the two   *)
(* auto-traders are never armed together.                                   *)
ArmedXor == ~(st["FAST"].enabled /\ st["HASTE"].enabled)

(* A position, named by its mode, symbol and entry day, is in the book at   *)
(* most once, is closed at most once, and is never open again once closed,  *)
(* crashes in the middle of a save and re-runs of the day included.         *)
PositionIdentity ==
    \A m \in Modes :
        /\ \A p, q \in pos[m] : p.sym = q.sym => p = q
        /\ \A t, u \in trades[m] : t.sym = u.sym /\ t.entry = u.entry => t = u
        /\ \A t \in trades[m] : t.entry < t.exit
        /\ \A p \in pos[m], t \in trades[m] : ~(p.sym = t.sym /\ p.entry = t.entry)

(* The carried peak is a running high: it never lies below the carried      *)
(* equity, or the drawdown breaker would read a gain as the reference.      *)
PeakIsRunningHigh == \A m \in Modes : st[m].peak >= st[m].prev /\ st[m].peak >= Equity

(* Once a day is committed, the realized P&L of fast_mode_state is the sum  *)
(* of the P&L of the recorded trades (StepState.realized).                  *)
RealizedIsTradeSum ==
    pc = "idle" =>
        \A m \in Modes : st[m].last = day => st[m].realized = PnlOf(trades[m])

(* A tripped breaker blocks new entries (section 6): a committed day whose  *)
(* equity fell through the daily or the drawdown limit opened no position.  *)
BreakersBind ==
    [][\A m \in Modes :
         st'[m].last # st[m].last
         /\ Tripped(st'[m].prev, st[m].prev, st'[m].peak)
            => \A p \in pos'[m] : p.entry # st'[m].last]_vars

(* The drawdown pause has no way back without positions: realized P&L and   *)
(* peak no longer change, so a paused mode with an empty book never trades  *)
(* again, whatever the market does and however often it is re-armed.        *)
PausedEmpty(m) ==
    pc = "idle" /\ pos[m] = {} /\ PauseTripped(Equity + st[m].realized, st[m].peak)
PausedEmptyStaysEmpty == \A m \in Modes : [](PausedEmpty(m) => [](pos[m] = {}))

(* The processed-day guard never goes back, and the RULE B clock, once      *)
(* stamped, is never moved by disarming, re-arming, a step or a crash.      *)
ClocksKeep ==
    [][\A m \in Modes :
         /\ st'[m].last >= st[m].last
         /\ st[m].since # 0 => st'[m].since = st[m].since]_vars

(* Only names of the day's candidate set are bought.                        *)
BoughtFromCandidates ==
    pc = "idle" =>
        \A m \in Modes : \A p \in pos[m] :
            p.entry = day /\ st[m].last = day => mkt[p.sym].cand

(* A day-step that has begun commits its day: the entry loop and the save   *)
(* both end.                                                                *)
BegunStepCommits ==
    \A m \in Modes :
        (pc # "idle" /\ run.mode = m) ~> (pc = "idle" /\ st[m].last = day)

-----------------------------------------------------------------------------
(* Refinement: while a save is in progress the abstract book is still the   *)
(* one the step loaded; it changes at WriteState.                           *)
Saving(m) == pc # "idle" /\ run.mode = m
Id(p) == [sym |-> p.sym, entry |-> p.entry]
LoadedBook == {Id(p) : p \in {q \in run.book : q.entry < day}} \cup {Id(t) : t \in run.closed}

Book == INSTANCE PaperBook WITH
    armed <- [m \in Modes |-> st[m].enabled],
    last <- [m \in Modes |-> st[m].last],
    open <- [m \in Modes |-> IF Saving(m) THEN LoadedBook ELSE {Id(p) : p \in pos[m]}],
    closed <- [m \in Modes |->
        {[sym |-> t.sym, entry |-> t.entry, exit |-> t.exit] :
            t \in IF Saving(m) THEN trades[m] \ run.closed ELSE trades[m]}]

(* Without crashes, arming and the day-step implement PaperBook: a day is   *)
(* all or nothing, and at most one mode is armed.                           *)
ImplementsPaperBook == Book!BookSpec
=============================================================================
