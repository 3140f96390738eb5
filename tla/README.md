# CurrentFlow in TLA+

A verification project for CurrentFlow, an IDX smart-money screener and paper trader: one
DuckDB file that an ingest pipeline and a scheduler daemon fill from the operator's own
broker-data session, signals computed from it, two automatic paper traders that keep their
books in it, and a Streamlit terminal that shows it. The modules here model what keeps
state across failures and restarts (the paper traders, the ingest, the scheduler) and what
decides: logins and requests, the point-in-time universe, the signals of a tape, the engine,
the paper runs with their ledger, the pattern catalog and the weight optimizer, and what the
terminal shows of a past day: flows, rotation, lenses and the risk report.
Sources are under `src/currentflow/`; `PROJECT.json` maps every definition to its lines.

## Inventory

| component | state | operations | how it interacts | hard behaviour | what makes it correct |
|---|---|---|---|---|---|
| Auto paper-traders (`validation/fast_mode.py`, `autotrader_cli.py`) | `paper_position`, `paper_trade`, `fast_mode_state`, per mode | arm, disarm, day-step | called by the scheduler, the CLI and terminal sessions | save of three tables without a transaction, races of sessions, repeated days | a day is all or nothing; one mode armed; no position twice |
| Portfolio step and execution (`validation/portfolio_runner.py`, `validation/runner.py`, `execution/`, `paper/fill.py`) | none of its own | exits, mark, breakers, entries | called by the day-step and the backtests | order of the phases, caps on a changing book | breakers bind, caps hold, the batch and the daily run agree |
| Ingest (`ingest/`) | `daily_bar`, `broker_net` | plan, broker calls, paging, writes | over the exodus client; called by scheduler, CLI, bootstrap | cut off anywhere, data appearing while it is asked for | a stored bar commits its day, a range is complete |
| Scheduler (`scheduler/`) | `scheduler_runs` | tick, fire, record | drives ingest, screener, rosters and traders | restarts, dead login, weekends, slow feeds | one fire per scheduled instant, nothing due left behind |
| Exodus client and sessions (`dal/`, `ui/login_view.py`) | Keychain bearer and session, the login controller | request, retry, refresh, login rounds, sign-out | used by every online feed; terminal and command line share the keychain | retry against refresh, a login abandoned for another account, a session replaced under a request | requests end; an OTP is the typed account's; a failure costs no session |
| Store (`store/`) | the DuckDB file, one process at a time | append-only writes, look-ahead reads, migration | shared by all | statement-wise autocommit | what is visible was known before the decision |
| Universe (`universe/`, `signals/regime.py`) | `index_roster_pit`, `listing_snapshot`, survivors | derive periods, load, gate, replay | scope of feeds and scans | books in any order, relistings, a past day read from today's store | the universe of a day is the one known that day, and passes the live gate |
| Signals (`signals/`, `fundamentals/`) | none of their own | phase, ribbon, profile, decay, flows, score, vetoes, decision, lenses, replay frames | read the store as of a moment | late and refetched rows, thresholds, missing data | nothing changes a frame before its own stamp; observation decides nothing |
| Screeners (`screeners/`) | cached screens | filters over one response | feed the universe | missing totals | survivors are cached with their date |
| Paper runs and RULE B ledger (`validation/runner.py`, `promotion.py`) | open position, trades, validation state | step a day, backtest, award | over the engine and the fills | the forward run knows less than the backtest, and rows arrive after it has decided | both close the same trades as far as no late row reaches; the award is what those earn |
| Pattern catalog (`patterns/`) | `pattern_catalog`, `pattern_instance` | seed, scan, resolve, estimate | monthly feed, catalog page | rescans over resolved rows, kills, bars stored late into counted windows | what a rate counted moves only by a late price in its own window |
| ML (`ml/`) | weights, applied proposals | admit, fold, search, propose, apply | behind the ledger | leakage between folds, a gate that closes | folds are purged; weights stay valid |
| Research (`research/`, `ingest/publish_latency.py`) | files | measure | offline | none kept | out of scope |
| Views and risk (`signals/foreign_flow.py`, `accumulation.py`, `sector_rotation.py`, `heatmap.py`, `frameworks.py`, `risk_monitor.py`) | none of their own | aggregate over names and windows | read the store as of the terminal's moment | missing nets and closes, windows that end with the last bar, a terminal set back to a past day | a past day is shown as it was then, but for rows of earlier days that come late; the views count the same flow |
| Terminal (`ui/`) | widget state, the day it is set back to | toggles, rendering | sessions share one Store | concurrent sessions | arming goes through `set_enabled`; every view reads at one moment |

The hazards list of `PROJECT.json` names the lines where this can go wrong and the
properties that cover each; hazards without a property carry the reason.

## Modules

| module | models |
|---|---|
| `PaperBook` | the abstract promise of a paper trader: armed or not, one whole day at a time, all or nothing |
| `AutoTrader` | arming and the day-step with its save, statement by statement; implements `PaperBook` when nothing crashes |
| `AutoTraderProofs` | theorems about `AutoTrader`: exclusivity, clocks, identity, breakers, the refinement; and about its money: types, peak, pause, realized P&L |
| `Ingest` | a run of `ingest_symbol` over the paged feed, for every caller |
| `IngestProofs` | theorems about `Ingest` |
| `Scheduler` | calendar, cadence table, tick, run-state, restarts |
| `SchedulerProofs` | theorems about `Scheduler` |
| `ExodusAccess` | keychain, login screens and command, request loop, first-run pull |
| `ExodusAccessProofs` | theorems about `ExodusAccess` |
| `Config`, `Bands` | the thresholds of `config.py`; auto-reject bands and pinned closes |
| `PointInTime` | bars, rosters and books; gate, track, replayed universe, bias, regime |
| `TapeSignals` | phase, bar-character ribbon, volume profile and decay of one tape |
| `SignalEngine` | extends it: flows, ownership, score, vetoes, decision, tilt, lenses, frames |
| `PaperRun` | extends it: triggers, orders, fills, exits, forward run, backtest, ledger |
| `PatternCatalog` | extends `PointInTime` and reads `SignalEngine`: the catalog's monthly job |
| `DeskViews` | reads `PatternCatalog`'s store: foreign flow and tide, accumulation, sector rotation, heatmap, lenses over all names |
| `RiskMonitor` | extends it: the preview book and its risk report, and all that is shown of a day (`DeskShown`) |
| `WeightTuning` | purged folds, the search for weights, the store that applies proposals |
| `MCAutoTrader`, `MCIngest`, `MCScheduler`, `MCDesk` | the instances TLC checks |
| `SignalProofs` | theorems about one symbol: replay frames, the ribbon, the candidate readings, forward run and backtest; of the engine, the paper runs and `MCDesk` |
| `MarketProofs` | theorems about `PointInTime`, `DeskViews` and `RiskMonitor`: listings, the gate, which days a stored row leaves alone, on time or late, and that the views add up |
| `DeskProofs` | theorems about `PatternCatalog`, `WeightTuning` and the volume profile, and those of every component carried over to `MCDesk` |
| `SetLemmas` | what the proofs share: greatest and least elements, sums over finite sets (in parts, by class, by rows and by columns), two numbers, quotients, equal heads of sequences |

A definition named like another with an underscore and a word added is a deliberate slip in
that definition (a dropped guard, a wrong order). `PROJECT.json` "mutants" pairs each
checked property with one: with the slip in place TLC finds the property violated.

### AutoTrader

`pos`, `trades` and `st` are the three tables, sets of rows per mode. `holder` is the
process that has the DuckDB file open; the terminal's sessions share its one Store, which
is why `ses` is per session, while a stepper (daemon or CLI) is alone. `set_enabled` is
three steps, `ReadRival`, `ReadPrev`, `WriteArm`, because it reads and writes without a
transaction and Streamlit sessions run in threads. `run_fast_mode_step` is `StepBegin`
(load, exits, mark, breaker, ranking: no writes, so one step), `TryEntry` per ranked
candidate, `DeleteBook`, `InsertPosition`, `AppendTrade` and `WriteState`, one per
autocommitted statement. `Crash` may fall between any two. A killed stepper leaves
`last_run_day` unchanged, so the day is run again.

Data is reduced to what the properties tell apart: a bar is one price (open = close);
the cohort, candidate membership and the exits that hang on more than the last bar (trailing
stop, signal decay) are inputs of the day; slippage is folded into flat fees; a quantity
counts lots. Sizing keeps all of its clamps (risk budget, name cap, sector room).

### Ingest

`served` is what the exodus feed serves, bars and broker summaries separately, in either
order within the day. A run is `Start(window)`, per name `Plan` or `SkipCached`, then
`FetchBroker` per missing day, `SaveRow` per row, `FetchPage` per page, `SaveBar` per bar,
`Report`. `CutOff` ends it anywhere: a call that failed for good (names already done stay
done) or a killed process. Windows are those of the callers: the previous weekday for the
scheduler, ranges ending today for CLI, backfill and bootstrap. `early` records a request
for a summary before it was served; it is history only and guards nothing.

### Scheduler

A moment is a day and a slot of the day. `NextFire` is `next_fire` for daily, weekly and
monthly cadences; `FEED_SCHEDULES` is the table, in order. A tick reads the clock once
(`now`) and walks the table; a fire is two steps, the feed's work and `Record`, with `Kill`
possible in between and the clock running on. `FireUnauthorised` ends the process without a
record, as the `AuthError` does. The terminal holding the database is down time of the daemon.

### ExodusAccess

`keychain` is the two accounts of the OS keychain, shared by the terminal, the command line
and the client, which reads it again before each send. A login handler is one step: it
touches the keychain last. A request (`call`) is one step per turn of `_request`'s loop, so
the operator, another process and the service move between two sends. `boot` is the
first-run pull of `_maybe_bootstrap` and `bootstrap_ingest`: a chain of requests, which on
a refused token empties the keychain and goes back to the form. A token is named by its
account; what the service accepts (`accepted`) and whether it knows the device (`trusted`)
is the world's.

### PointInTime, TapeSignals, SignalEngine

Time is a sequence of days; the decision of day D reads what is stamped before it (`Seen`,
`BarsAt`, `FlowDays`, `SlicesAt` are the store's `as_of` reads). Writes are the only
actions: a day closes with a bar or without, a missed bar, summary or ownership slice is
stored later, books are transcribed and loaded, rosters loaded.

A row's stamp is not when it was stored. `dal/timing.py` stamps a bar with the close of its
own day, and broker rows with what the feed says or, without that, with the next morning of
their own day; the store inserts a row of any past day that is not there yet
(`write_daily_bars`, `write_broker_net`), which a retry, a resumed run or a backfill does.
`StoreLate` of `PointInTime` is that write: the bar a past day lacks, or the broker rows its
bar lacks, counting from that day on. `FillBar` is the same of one tape in `SignalEngine`,
where `FetchLate` brings broker rows with either stamp. `PointInTime` keeps the own-day
stamp only, the one that rewrites the past; broker rows stored before the bar of their day
are `Ingest`'s subject. All the rest is what a reader computes, as operators: prices and volumes are whole numbers and
ratios are compared by cross-multiplication; where the code needs a quotient (a
correlation, a profile's share, a return) the model keeps a fixed number of decimals and
says so. The engine reads a symbol's tape alone; the universe reads all symbols.

### PaperRun

`StepForward` is the loop body of `run_forward`; it shares `AttemptEntry` and `AttemptExit`
with `RunBacktest`, as the code does, but evaluates them when the day comes, on the store
of that day; `RunForward` is the same loop over one store. `StoreMoves` is all that the
store may do between two days: a close, a bar filled in, a summary with either stamp.
`firm` is a history variable: the day up to which no late row has changed what was stepped. A
row stamped d moves it back to d, a late bar of day d to d - 1, because an order of day d
is filled on that bar. It guards nothing. Orders, caps, bands, tick rounding, slippage, fees and the promotion rule are
translated with their constants.

### PatternCatalog

The monthly job is a step per transaction (`ScanPattern`, `ResolveOpen`, `Estimate` for each
pattern in turn) with `KillAccrual` between any two. Between jobs the store moves on as in
`PointInTime` (`StoreWritten`), late rows included. `moved` is a history variable: the
instances resolved as a hit or a miss between whose entry and end of horizon a price has
come late since (`Spanned`). The null rate, the confounds by regime, the decay flag and what a card may
show are kept; the interval arithmetic is reduced to the comparison it serves.

### DeskViews, RiskMonitor

The views keep nothing: they are operators over the rows visible before day D, over all
names. `Known(D)` is the terminal's list of names at that moment, `PreviewBook(D)` the
equal-lot book `ui/app.py` reports on, `DeskShown(D)` everything a terminal set to day D
reads. The report, the rotation and the heatmap are functions of what the code reads for
them (`ReportInputs`, `SymbolStats`, `Cell`), so that reading and computing are apart. A
missing net or close is dropped and a measurement without input is `Absent`, as in
the code. Ratios are thousandths rounded down; a correlation is its dot product and the
square of its norm, compared with the threshold squared. Left out: the z-score, VWAPs,
shares of a free float or a market cap, the loss in rupiahs, and sorting for display.

### WeightTuning

A backtest is external: for each weight vector the trades it would close. Folds, purge and
embargo, the coordinate ascent with its acceptance order, the improvement rule and the two
gates are the code's; a Sharpe ratio is rounded to tenths.

## Runs

| run | question | result |
|---|---|---|
| `book` | without crashes, is a day-step one step of `PaperBook`; does the money add up; do breakers bind; does a begun step commit | holds |
| `crash` | with crashes anywhere in a save and two modes: exclusivity, position identity, peak, clocks | holds |
| `torn` | is realized P&L the sum of recorded trades after a crash | violated |
| `exitonly` | are only candidates bought | violated |
| `twotabs` | are the modes exclusive with two terminal sessions | violated |
| `names` | two names, a holiday, overlapping and cut-off runs: bar commits the day, ranges complete | holds |
| `resume` | does every served bar reach the store in the end | holds |
| `hole` | is there "never a permanent broker hole" | violated |
| `rerun` | does a re-run over a completed range cost nothing | violated |
| `week` | one fire per instant, finished ticks leave nothing due, traders after ingest, holes on record, once per week and month | holds |
| `once` | does a daily feed fire once per day | violated |
| `desk` | the questions below, component by component | holds |

`desk` chooses one component (`part`) in its initial state and moves only that, so that the
parts share one run without multiplying. It checks that

- an OTP round belongs to the account typed last, a view that shows an error has left the
  keychain alone, every request ends, and a request's sends are its counted tries;
- a replayed name would have passed the live gate but for the gap leg, and the derived
  periods are disjoint, not empty and cover their books;
- what is shown of a past day (universe, regime, flows, accumulation, rotation, heatmap,
  lenses, risk report) is what was shown of it when it was about to open
  (`PastIsShownAsItWas`; `wasShown` is a history variable that keeps what was shown. It
  forgets the days after a row's own day when that row comes late, and all days when a
  roster or a listing is loaded, since these change the replayed past: the rows because of
  their stamp, the rosters by design); the sectors of the rotation map add up to the tides of its window (`ViewsAgree`),
  and the report's value at risk, sectors and crowded pairs are consistent with the book
  (`ReportHolds`; together `ShownAddsUp`);
- a printed bar character is never repainted, and the volume profile neither loses volume
  nor has a value area wider than it needs;
- rows stored for a moment change no frame before it, and the LD-13 readings change no
  phase, veto reason or state;
- what the forward run closed day by day is what a backtest of today's store closes up to
  `firm`, everything else it closed later, and an award over those trades is what they earn
  (`ForwardIsBacktest`);
- an instance a rate has counted as a hit or a miss is counted alike ever after, unless it
  is in `moved` (`KeepsCounted`), and a shown rate has a null;
- no fold trains on a trade its test block overlaps, every weight vector is valid, and the
  search for weights ends on valid ones (`SearchKeepsStructure`).

The six violated runs are statements of the code's own comments; "findings" in
`PROJECT.json` quotes them:

- `torn`: killed between `append_fast_trades` and `write_fast_mode_state`, the re-run no
  longer finds the closed positions and realized P&L stays without their result.
- `exitonly`: a held name's "exit-only" spec remains a candidate after its exit, so a name
  outside the day's universe can be bought back in the same step.
- `twotabs`: two sessions read each other's mode as disarmed and both arm.
- `hole`: a run that includes the current day can ask for its broker summary too early and
  still store its bar; the summary is never asked for again.
- `rerun`: a weekday holiday has no bar and is asked for by every run.
- `once`: a feed scheduled after 09:00 that is overdue on a Monday (or after down time)
  fires at 09:00 and again at its own time.

### Bounds and why they are enough

- `AutoTrader`: two names in one sector and one position per name suffice for caps to
  compete; the prices 8 and 10 against an equity of 40 trip the daily halt on a marked loss
  and the pause on a realized one. Days 2 to 4 (`book`) allow buy, hold, sell, buy back;
  days 2 and 3 (`crash`) allow a save, a crash in it and its re-run. Any number of crashes.
  The stepper's day is the current one, a toggle's date the day after, as with
  `previous_trading_day`.
- `Ingest`: four weekdays with one holiday, pages of two bars, so that a window ends on a
  short page, an empty page, or shifts between two pages. One cut-off run per behaviour
  (`MaxFaults`); repeated uncut runs are unbounded.
- `Scheduler`: Friday to Monday with a month beginning on the Saturday: every cadence fires
  twice, once as a catch-up and once for an instant on the weekend or on Monday. At most
  one kill, feed error or expired session, and a feed may take the clock two slots on
  (`MaxLag`). The 09:10 and 09:12 feeds share a slot.

- `desk`: windows are scaled down (a context of three bars, a range of two, a 20-day mean of
  two) with tapes of 4 (`tape`, `engine`) or 11 days (`paper`, long enough for a spring, an
  entry, an exit and a re-entry). The tape part takes every sequence of seven shapes of
  bars; engine and paper follow scripts that reach each phase, each veto, ARMED and WATCH,
  and each exit. The universe has one name in question and one that trades every day,
  each in a sector of its own, over four days; a roster is loaded on day 2 only, for a
  period that covers the days already decided or begins after them. Three books allow
  delisting, relisting and a late loading. Late rows: once three days are closed, the missing
  bar of any of them (in one of two shapes) or the missing broker rows of its bar may come, before the fourth day
  closes or with none to follow; in the catalog the bar x lacks on day 4, which falls between
  entry and horizon of what was resolved, comes when six days are closed,
  between the job on day 5 and the one on day 7; a tape of `engine` or `paper` may be filled at any
  time. The catalog has a seam at day 5 of 7 and two
  horizons, so instances resolve before and after it. One OTP round beyond
  the first and one retry; while a request is under way only one account signs in. Eight
  trades in three segments let one trade straddle a boundary and two share a day.

Deadlock checking is off everywhere: days are bounded, and a trader or daemon may stop.

### Fairness

`FairSpec` of `AutoTrader` is weak fairness of the entry loop and the save: a process that
is not killed executes its next statement (the run is crash-free). `FairSpec` of `Ingest`
adds strong fairness of starting a backfill over the range: somebody runs it again, which
is what "a retry resumes here" relies on; with `CutOff` bounded some run gets through.
`DeskSpec` has weak fairness of
`Send` alone: `_request` is a loop without waiting for anybody (its sleeps end), so a
request under way takes its next turn. `Spec` of `Scheduler` has no fairness: what it owes is stated about finished ticks.

## Proofs

`tlapm` checks every theorem for every value of the constants that meets the named
assumptions of the component's module. Nothing in them depends on the bounds of the runs.
Where a theorem assumes more, it says so in its `ASSUME`.

### The traders

- `FastXorHaste` and `ClocksNeverBack`, assuming one terminal session (`OneSession`; the
  run `twotabs` shows that the assumption is needed). `ArmedXor` is not inductive: between
  `ReadRival` and `WriteArm` no table says that the rival was seen disarmed. `ArmingInv`
  adds `OneProcess` (a toggle in progress means the terminal has the database, a day-step
  means a stepper has it), `TogglesCurrent` (what a toggle read is still true when it
  writes), `StepCurrent` (a day-step runs for an armed mode) and `DaysBehind`.
- `PositionsKeepIdentity`, for any number of sessions and with crashes anywhere in a save.
  `TablesInv` says of the tables what `PositionIdentity` does, with the dates; the rest of
  the invariant says the same of the book and the trades the stepper holds in memory, and
  how far the save has carried them into the tables. Exits being decided only on bars since
  the entry is what keeps a re-run of the day from closing what it has just opened.
- `DeskImplementsBook`: with one session and no crash, `AutoTrader` implements `PaperBook`
  (`ImplementsPaperBook`). The save is five statements and the book's day is one step, so
  the mapping shows the book the step loaded, reconstructed from what the stepper holds, until
  the state row is written. `DaysInv` joins the two invariants above and adds the dates
  (`WholeDays`): between day-steps a book holds nothing newer than its processed day, in a
  day-step the day is still ahead of it and what is closed is closed today. With them the
  reconstruction is exact: older rows and today's trades are what was loaded, the rest is new.
- `BreakersAlwaysBind`, under the same assumptions: `NothingBought` says that while a limit
  is exceeded the entry loop has no candidates and the book in memory holds nothing newer
  than the tables did.
- `TraderTypes`, `PeakStaysHigh` and `PauseIsForever` hold with crashes and any number of
  sessions; `RealizedSumsTrades` without crashes (the run `torn` shows that they break it).
  `Typed` types the memory of the stepper as well as the tables. `RowsHigh` says of every
  copy of a state row, in the table, in a toggle's hands and in the stepper's, that its peak
  is at its equity or above, because toggles write back rows they read earlier;
  `TogglesKeepMoney` that those rows still have the money of the table. `Stuck` is what a
  pause with an empty book keeps: no realized P&L, no equity, so no peak moves. `Ledger`
  says that a stepper's realized P&L is that of the recorded trades together with those it
  has yet to record.

### Ingest, scheduler, access

- `IngestTypes` and `BarsCommitDays`. `OrderInv` is the order of `ingest_symbol`: while a
  name is in hand, every day of its window is missing or stored, a missing day already
  asked for has its rows in the table or in memory unless it came back empty, and nothing
  is left in memory when bars are written.
- `RangesAreComplete`: `DueInv` names what the report of a name will owe, the bars served
  when its turn came, and where each of them is: stored, fetched and not yet written, or further down the
  feed's list than the pages read so far. Bars that appear between two pages shift the rest by their number,
  so a page may repeat rows but never skip one; that is an argument about cardinalities.
- `SchedulerTypes` and `TradersAfterIngest`. The second assumes that the ingest is due when
  the window opens (`config.py` has both at 09:00): otherwise a trader scheduled between
  the two would step first. `IngestInv` adds to the types that a tick never precedes a
  recorded ingest, and that a tick in the window past the ingest's turn finds it recorded
  today; `NotDueIsToday` is the case analysis of `next_fire` it rests on.
- `TicksServeAllDue` and `OneFireAnInstant` rest on `CadenceInv`: each feed the tick has
  passed is served at the tick's clock, a fire begun was due, and no fire is recorded after
  the clock or outside the window. `PeriodsFireOnce` follows for the weekly and monthly feeds if the end-of-day instant
  is not after the opening of the window (`EOD_TIME <= WINDOW_OPEN`, both 09:00 in
  `config.py`). `HolesHaveACause` needs `EodRow`, what a recorded ingest of today says of
  the session it pulled.
- `AccessTypes` (with the count of a request's sends), `OtpForTypedAccount` and
  `FailedLoginKeepsKeychain`, for any accounts, factors and retries. They are stated of
  `AccessSpec`, the component without the desk's fairness.

### The desk

- `BooksCovered` and `ReplayPassesGate` of `PointInTime` (`PitSpec`), with `PitTypes`.
  `PitInv` types the tables; the content is in the operators. The listing is a matter of runs of consecutive books:
  `RunAround` finds the run a book lies in, `RunsMeet` that two runs which share a day are
  one, `PeriodsCover` carries both over to the stored periods.
- `PastStands`: a row, stored on its day or any number of days late, changes nothing of
  `DeskShown(D)` for any D not after the row's day. All that is shown of D is decided by the
  bars before D and the rosters (`Kept(D)`), which is shown operator by operator, from the
  store's reads (`SeenStands`) to the risk report (`ShownStands`). `DeskPastIsShown` is
  `PastIsShownAsItWas` itself, from this step: the invariant says that what `wasShown`
  keeps is of a day not after the current one and equals what is shown of it now, so each
  close, and each late row that leaves it in `wasShown`, carries it on. What a late row does
  to the days after its own is not claimed: it changes them (see below).
- `DeskShownAddsUp`: in every market the views add up. For `ViewsAgree`, the flow of each
  name is a row, each day of the window a column, of one table: the rotation map adds it by
  rows and then by sector (`MapFlows`: names fall into classes by sector, so their sum is
  the sum of the sectors', `SetSumClasses`), the tides by columns (`NameFlows`,
  `TidesAdd`), and `FlowsMeet` exchanges the two sums (`SetSumSwap`). A name without a flow
  is on no row and in no day's tide, a sector of names without any has an absent flow that
  counts zero. For `ReportHolds`: the sectors partition what is invested (`SectorsAdd`);
  the nearest rank is the ceiling of the tail, so fewer days than it return less than the
  percentile (`RankCovers`, `PercentileRanks`), which is what bounds the days that lose
  more than the value at risk (`ValueAtRisk`); a positive dot product has a positive term,
  so a crowded pair has a broker who drives both, and it reads alike from either side
  (`LeadExists`, `LeadSame`, `PairsHold`).
- `CountsKept`: `KeepsCounted` is not inductive, because a rescan reopens what was counted.
  `CatalogInv` says where a counted instance is meanwhile: in the table, or reopened there
  with its resolution still to come before the next estimate; and that what is counted, in
  the table or in results, has on today's store the outcome it was counted with, unless it
  is in `moved`. That the resolution finds what it found before is `SettledStays`: prices
  are only ever added (`PricesGrow`), and one before the entry or after the end of the
  horizon moves neither, for every market and any order of arrival. `SettledRows` and
  `StoreSteps` tie `moved` to the instances it must contain. The exception is as narrow as
  it can be stated from the days alone: it names the instance and its own window, so late
  rows of other names, of other days and of brokers move nothing.
- `FoldsStayPure`: the rank of a trade is one more than the trades ahead of it in the order
  of entries, ties broken by position (`RanksDiffer`, `RanksTaken`: the ranks are a
  bijection), the segments of the ranks are disjoint and cover them (`SegmentsDiffer`,
  `SegmentsCover`), and the purge drops from a fold's training what overlaps its test.
  `WeightsStayValid`: proposals and applied weights keep the locked structure.
  `SearchKeepsWeights`: so does each step of the search, so its last check never refuses
  what it found. A move of `WEIGHT_STEP` between two unlocked components keeps the sum
  (`ShiftKeeps`); a pass and the climb are recursive functions, shown to exist by their
  least failing index (`TriesExist`, `ClimbExists`).
- `DeskProfilesHold`: in every volume profile of the tape the buckets hold what the bars of
  its window traded, and the value area is tight. What a bar leaves in a bucket is the
  distance between the bucket's edges once both are brought within the bar's range
  (`WideBarShare`), and those distances add up to the range (`SetSumSteps`, `BarSpread`);
  that no overlap falls outside the buckets of the bar's low and high, which the code's loop
  is limited to, is a matter of quotients (`QuotientFits`). `AllocateKeeps` exchanges the
  sums over bars and over buckets. For the area, `AreaAfter` is kept by each step of the
  growth (`AreaGrows`): what the end last added leaves behind did not hold enough, and after
  n steps the area holds enough or is n buckets wider, which it cannot be for ever.
- `DeskTypes`: the types of every part in one run, with what their bookkeeping says of
  itself: the catalog has one row a key and no rate without a null (`CatalogTyped`), an
  open position was entered on a day already stepped (`PaperTyped`), a request's sends are
  the outcomes counted and at most the retries and one refresh (`SendsCounted`).
- `DeskBooksCovered`, `DeskReplayPassesGate`, `DeskCountsKept`, `DeskFoldsStayPure` and
  `DeskSearchKeepsWeights` carry these over to `DeskSpec`, which the run `desk` checks.

### Signals and paper runs

- `FramesKept`: rows that arrive for a moment, however late, change no frame before it.
  `Agree(was, is, D)` is what two stores must share for the frames before D to be equal,
  shown operator by operator (`SnapshotAgrees`, `ReadingsAgree`, `FramesAgree`);
  `EngineInv` types the tape, so that a day appended is a later day.
- `ReadingsAreSilent`: with the candidate readings and without, the phase is the same because
  notes only annotate its events (`NotesAnnotate`), the veto reasons because they look at the
  phase alone (`ReasonsAgree`), and the score because each candidate weighs zero
  (`ScoresAgree`). The last needs that each strength is a number for every store, which is
  most of the proof: `OwnershipMeasured` finds the first and last slices, `VpaMeasured` and
  `VpMeasured` count over finite sets.
- `RunnersReconcile`: over one store, whatever is in it, `run_forward` and `run_backtest`
  close the same trades. A run of the loop is a walk, and
  `WalkIsBacktest` shows a walk to be the sweep: entries and exits alternate, and the sweep
  resumes on the day after an exit as the walk does. Both are recursive functions; that they
  exist is shown with the first day for which they fail to (`WalkExists`, `SweepExists`).
- `PaperIsBacktest`: the run that decided each day on the store as it then was has closed,
  up to `firm`, the trades a backtest sweeps out of today's store, and the rest after that
  day. `WalkStands` says that a decision stands when the store moves on by rows that do not
  reach it; `FirmDaysStand`, that a late row stamped d leaves the walk over the days up to d
  as it was, a late bar the days before it. The trades closed by then are a prefix of the run's, and what
  follows was closed later (`ExitClosed`, `ReachedDays`). Nothing is assumed of a late
  row's stamp: with the stamp of its own day it moves `firm` back, and beyond `firm` the two
  may differ (see below).
- `DeskFramesKept`, `DeskReadingsAreSilent` and `DeskPaperIsBacktest` say the same of
  `DeskSpec`; `DeskRibbonsStand` that a printed character stands, because it is read from
  the bars up to its own day.

### How, and what is left to TLC

Sums are over finite sets of any size. The library defines them by a recursive function,
and its induction theorems take an operator as a parameter, which the provers cannot
instantiate; `SetLemmas` proves instead that the function exists and is unique by looking
at a smallest set without one (`SmallestSet`, from the well-foundedness of the naturals),
and derives that a sum does not depend on the order (`SetSumRemove`, `SetSumUnion`).

Only model-checked: liveness (`BegunStepCommits`, `ServedIsStored`, `RequestEnds`), which is
out of this prover's reach.

What the theorems assume of the constants, beside the kinds of numbers that `config.py` and
the run's bounds are (each named in the module that declares them):

- `ConfigAssumption`: an absent value is no number (`None` in the code);
- `PointInTimeAssumption`: closes are counts of rupiahs or absent, foreign nets whole numbers or absent, and the names finitely
  many (they are rows of a table);
- `ViewsAssumption`: every name has a sector and none is called "MARKET"
  (`universe/sectors.py` maps a name it does not know to UNKNOWN; `foreign_flow.py` uses
  the word for the market's own row); a day's broker summary lists finitely many brokers
  with amounts that are counts or missing;
- `TapeAssumption`, `EngineAssumption`: the fields of a bar and of a summary have their types;
  and `VP_UNIT`, the fraction of a share in which the profile counts, is so fine that a
  bar's share of a bucket is a whole number. The code's floats round these shares, so there
  the sum of the buckets is the volume only up to rounding;
- `TuningAssumption`, `IncumbentAssumption`: components are a sequence of names, each
  track has weights and locked zeros among them, and the weights of `config.py` are valid, which `tests/test_sms.py` asserts;
- `OneSession`, `EOD_TIME <= WINDOW_OPEN` and the ingest due at the opening, where a
  theorem names them above.

## Observed disagreements

Met while modelling; the models follow the code. Beside the six violated runs:

- `dal/transport.py:16` says a re-pasted bearer takes effect on the next call; a stored
  session shadows it until it is cleared. A 401 of the first-run pull clears the keychain
  even if another process has just stored a session that works.
- `_maybe_bootstrap` says "a retry resumes there", but once one bar is stored it never
  runs again.
- `universe/track.py:38` says "same computation as the gate"; the gate counts days without
  trades as zero, the track leaves them out. `pit.py` counts traded bars as history where
  the gate counts all, and omits the gap leg, which `UNCHECKED_GATE_LEGS` does not name.
- A listing period stored open is never closed: a later book that delists the name inserts
  a second period only if its start differs (`store/db.py:556`).
- `signals/veto.py` says absent data cannot fire a veto; a buyer's missing row raises the
  share of the one that remains. Without any broker rows, Track A can still reach ARMED.
- `signals/sms.py` `_foreign_flow` speaks of net buying; a spike of net selling scores the same way.
- `signals/phase.py`: a spring up to eight bars old keeps phase C after the last close fell
  below support.
- `ui/timemachine.py` derives a past day from stamps alone, and `dal/timing.py` gives a bar,
  and broker rows of which the feed does not say when they were updated, a stamp of their
  own day whenever they are fetched. A bar or summary that a retry or a backfill
  stores late therefore changes what is shown for the days after its own, the frames from that
  day on and the rates counted over it, and a backtest then sees what the forward run did
  not: a paper trade, and the award it earned, may have no counterpart in the backtest of
  the same days. What is proved is how far such a row reaches.
- `patterns/accrual.py:71` says "EST is stable by construction - its window is closed", and
  `patterns/outcome.py:5` that terminal outcomes are "COUNTED, never dropped". In the model a
  name stops after day 3 and is flagged on day 4; while it is halted and the market open, the flag
  counts as a stopped name at both horizons. On day 7 it trades again, and the next month's
  scan reopens the flag and resolves it as a miss at horizon 1 and as open at horizon 2,
  where the estimate loses it. Flags just before the seam resolve after it, and late bars
  move outcomes. `CountsStand` is what does hold: hits and misses stand but for late prices.
- `ml/weights_store.py:14` says "silent degradation is impossible"; a proposal is compared
  with the incumbent of its own search, not with the weights live when it is applied.
- `signals/risk_monitor.py:301` calls the value at risk a "loss fraction of equity" and multiplies it
  by equity; the returns it ranks are weighted by what is invested, so cash inflates it.
- `EVENT_DRIVEN` never fires: no caller passes `has_material_news`.

## Plan

1. Done: `PaperBook`, `AutoTrader`, `Ingest`, `Scheduler`, each with its first theorems;
   `ExodusAccess`, `PointInTime`, `TapeSignals`, `SignalEngine`, `PaperRun`,
   `PatternCatalog`, `DeskViews`, `RiskMonitor`, `WeightTuning`, checked.
2. Done: the proofs under "Proofs"; every invariant and action property of the passing
   runs is a theorem, liveness apart.
3. Left to model: the slice-16 migration with a crash between its statements, and scheduler,
   ingest and trader on one calendar (a failed feed and the day the trader then skips).

The runs are kept few: the desk's parts share one run.

## Not modelled

Rendering (`ui/` but for the login screens, the toggles, the first-run pull, the catalog
page and the moment a view reads at), parsing of responses, the ML ranker, research
scripts, logging. The live `symbol_index` snapshot, which cannot be rewound, is left empty: a day
no roster period covers puts every name on Track B, as `ui/timemachine.py` says it does. `run_portfolio` is the day-step over days. The coverage report of
`store/integrity.py` is read-only. The rebalance-window multiplier scales the score and is
taken as 1, its default. The Interval cadence and the ARMED_WATCHLIST scope exist in the
scheduler but no feed uses them. The CLI's `--day` argument, which lets an operator step a
day ahead of the calendar, is outside `AutoTrader`'s calendar.
