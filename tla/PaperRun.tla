------------------------------ MODULE PaperRun ------------------------------
(***************************************************************************)
(* One symbol traded on paper: the entry trigger (execution/trigger.py),   *)
(* the sized limit order (order.py), the fill at the next open (paper/     *)
(* fill.py), the exit (risk.py), the two runners over them (validation/    *)
(* runner.py) and the state their trades earn (promotion.py, metrics.py).  *)
(*                                                                         *)
(* The forward run steps day by day while the store grows; the backtest    *)
(* sweeps all of it at once.  A decision for day D is taken before D opens, *)
(* on frame D - 1; its order fills at the open of D.  Prices of an order   *)
(* are thousandths of a rupiah, a fill's price whole rupiahs, fees and     *)
(* profits thousandths of a rupiah.                                        *)
(***************************************************************************)
EXTENDS SignalEngine, Bands

CONSTANTS
    RunConfigs, \* [track, fast_mode, include_watch, board, adv20, sector_now, circuit]
    Equity,     \* rupiahs, of every run
    Folds       \* folds of the walk-forward

ASSUME PaperAssumption == Equity \in Nat /\ Folds \in Nat \ {0}

VARIABLES
    run,     \* the run's RunConfig
    stepped, \* days the forward run has stepped
    held,    \* its open position, or Absent
    trades,  \* its closed trades
    firm,    \* history only: the days stepped on rows that no late row has since changed
    ledger   \* the validation record of its module: [months, n, state]

runVars == <<run, stepped, held, trades, firm, ledger>>
paperVars == <<engineVars, runVars>>

-----------------------------------------------------------------------------
\* The trigger: [entry, stop, target], or Absent where it is not valid

TargetOf(v) ==
    1000 * (v.range.resistance
              + (IF v.phase = "C" THEN 0 ELSE TARGET_MEASURED_MOVE_MULT * Span(v.range)))

\* the bar of the first spring or last point of support
ConfirmationBar(t, v) ==
    LET kind == IF v.phase = "C" THEN "SPRING" ELSE "LPS"
        e == SelectSeq(v.events, LAMBDA x : x.kind = kind)
    IN IF e = <<>> THEN Absent ELSE t[e[1].day]

Detect(t, v) ==
    LET bar == ConfirmationBar(t, v)
        entry == bar.close * (1000 - LIMIT_UNDERCUT)
        stop == bar.low * (1000 - STOP_BUFFER)
        valid == /\ stop < entry /\ entry < TargetOf(v)
                 /\ TargetOf(v) - entry >= RR_MIN * (entry - stop)
    IN IF bar = Absent \/ ~valid THEN Absent ELSE [entry |-> entry, stop |-> stop, target |-> TargetOf(v)]

\* Fast Mode: a limit just above the last close, whatever the reward
FastDetect(t, v) ==
    LET traded == SelectSeq(Stored(t), LAMBDA b : b.traded)
        entry == traded[Len(traded)].close * (1000 + FAST_MODE_LIMIT_PREMIUM)
        stop == v.range.support * (1000 - STOP_BUFFER)
    IN IF v.range.support <= 0 \/ traded = <<>> THEN Absent
       ELSE IF stop >= entry THEN Absent ELSE [entry |-> entry, stop |-> stop, target |-> TargetOf(v)]

Trigger(t, v, cfg) ==
    IF ~Tradeable(v) THEN Absent ELSE IF cfg.fast_mode THEN FastDetect(t, v) ELSE Detect(t, v)

-----------------------------------------------------------------------------
\* The order

TierForAdv(adv20) ==
    IF adv20 = Absent THEN "SMALL"
    ELSE IF adv20 >= SLIPPAGE_LARGE_ADV_IDR THEN "LARGE"
    ELSE IF adv20 >= SLIPPAGE_MID_ADV_IDR THEN "MID" ELSE "SMALL"

Lots(shares) == (shares \div LOT_SIZE) * LOT_SIZE

\* 1% of equity at risk to the stop, cut down to the caps per name and per sector
Quantity(sig, cfg) ==
    LET risk == ((Equity * RISK_PCT) \div 1000) * Tilt(Fundamentals).multiplier
        wanted == Lots(risk \div (sig.entry - sig.stop))
        room == Equity * EXPOSURE_CAP_SECTOR - 1000 * cfg.sector_now
        named == IF wanted * sig.entry > Equity * EXPOSURE_CAP_NAME
                 THEN Lots((Equity * EXPOSURE_CAP_NAME) \div sig.entry) ELSE wanted
    IN IF named * sig.entry > room THEN Lots(Max({0, room}) \div sig.entry) ELSE named

\* generate_order: Absent where it is rejected
Order(sig, cfg) ==
    IF cfg.circuit # "OK" \/ sig = Absent THEN Absent
    ELSE IF Quantity(sig, cfg) < LOT_SIZE THEN Absent
    ELSE sig @@ [qty |-> Quantity(sig, cfg), tier |-> TierForAdv(cfg.adv20)]

-----------------------------------------------------------------------------
\* The fill at the next open

\* tick of a price counted in parts of a rupiah; a price rounded to it, in rupiahs
TickSize(price, parts) == Max({band[2] : band \in {b \in TICK_BANDS : b[1] <= price \div parts}})
NearestTick(price, parts) ==
    LET tick == TickSize(price, parts) IN ((price + (tick * parts) \div 2) \div (tick * parts)) * tick
TickDown(price, parts) ==
    LET tick == TickSize(price, parts) IN (price \div (tick * parts)) * tick
TickUp(price, parts) ==
    IF TickDown(price, parts) * parts = price THEN TickDown(price, parts)
    ELSE TickDown(price, parts) + TickSize(price, parts)

\* the fee stack in millionths of the gross; VAT is charged on the commission
FeeRate(side) ==
    FEE_COMMISSION[side] + (FEE_COMMISSION[side] * FEE_VAT) \div 1000 + FEE_LEVY
      + (IF side = "SELL" THEN FEE_SELL_TAX ELSE 0)

NoFill == [filled |-> FALSE]

\* fill_order: the lot, the band's adverse side, the limit; slippage against the order
FillOrder(side, limit, qty, day, open, prev, board, tier) ==
    LET buy == side = "BUY"
        raw == open * (1000000 + (IF buy THEN SLIPPAGE[tier] ELSE -SLIPPAGE[tier]))
        candidate == NearestTick(raw, 1000000)
        price == IF buy THEN (IF 1000 * candidate <= limit THEN candidate ELSE TickDown(limit, 1000))
                 ELSE (IF 1000 * candidate >= limit THEN candidate ELSE TickUp(limit, 1000))
    IN IF qty <= 0 \/ qty % LOT_SIZE # 0 THEN NoFill
       ELSE IF Pinned(open, prev, board, Absent) = (IF buy THEN "PINNED_ARA" ELSE "PINNED_ARB") THEN NoFill
       ELSE IF (buy /\ 1000 * open > limit) \/ (~buy /\ 1000 * open < limit) THEN NoFill
       ELSE [filled |-> TRUE, side |-> side, day |-> day, price |-> price, qty |-> qty, tier |-> tier,
             fee |-> (price * qty * FeeRate(side)) \div 1000, settles |-> day + SETTLEMENT_DAYS]

-----------------------------------------------------------------------------
\* The exit: the reason, "NONE" to hold

ExitReason(t, pos, decay) ==
    LET window == SelectSeq(Stored(t), LAMBDA b : b.traded /\ b.day >= pos.entry.day)
        last == window[Len(window)]
        high == Max({b.close : b \in Range(window)})
    IN IF window = <<>> THEN "NONE"
       ELSE IF 1000 * last.low <= pos.stop THEN "STOP"
       ELSE IF 1000 * last.high >= pos.target THEN "TARGET"
       ELSE IF 1000 * last.close <= high * (1000 - pos.trail) THEN "TRAILING"
       ELSE IF decay # {} THEN "SIGNAL_DECAY" ELSE "NONE"

-----------------------------------------------------------------------------
\* The two steps the runners share, on day D of the store db

\* a slip of DecisionFrame: the bars for the fill, read to the end, decide too
DecisionFrame_AllBars(db, D) == Len(db.tape)

\* the frame a decision for day D may see
DecisionFrame(db, D) == D - 1

\* the days with a bar an order can fill at, and the last of them before D
FillDays(db) == {d \in DOMAIN db.tape : IF db.tape[d] = Absent THEN FALSE
                                        ELSE /\ db.tape[d].traded
                                             /\ db.tape[d].open # Absent /\ db.tape[d].close # Absent}
PrevFillDays(db, D) == {d \in FillDays(db) : d < D}
Fillable(db, D) == D \in FillDays(db) /\ PrevFillDays(db, D) # {}
PrevFillClose(db, D) == db.tape[Max(PrevFillDays(db, D))].close

InCohort(v, cfg) == v.state = "ARMED" \/ (cfg.include_watch /\ v.state = "WATCH")

AttemptEntry(db, D, cfg) ==
    LET F == DecisionFrame(db, D)
        ordered(v) == IF InCohort(v, cfg) THEN Order(Trigger(BarsAt(db, F), v, cfg), cfg) ELSE Absent
        opened(order, fill) == IF ~fill.filled THEN Absent
                               ELSE [entry |-> fill, stop |-> order.stop, target |-> order.target,
                                     trail |-> TRAIL[Tilt(Fundamentals).kind]]
        sent(order) == IF order = Absent THEN Absent
                       ELSE opened(order, FillOrder("BUY", order.entry, order.qty, D, db.tape[D].open,
                                                    PrevFillClose(db, D), cfg.board, order.tier))
    IN IF F < 1 THEN Absent
       ELSE IF ~Fillable(db, D) THEN Absent
       ELSE sent(ordered(Evaluate(db, F, cfg.track, Readings(db, F))))

\* an exit is a sell at any price; one that cannot fill carries the position a day
AttemptExit(db, pos, D, cfg) ==
    LET F == DecisionFrame(db, D)
        closed(reason, fill) == IF reason = "NONE" THEN Absent
                                ELSE IF ~fill.filled THEN Absent
                                ELSE [entry |-> pos.entry, exit |-> fill, reason |-> reason]
    IN IF ~Fillable(db, D) THEN Absent
       ELSE closed(ExitReason(BarsAt(db, F), pos, DecayFlags(db, F, Classify(BarsAt(db, F)))),
                   FillOrder("SELL", 1000, pos.entry.qty, D, db.tape[D].open, PrevFillClose(db, D), cfg.board,
                             pos.entry.tier))

\* run_backtest over the first n days: one position at a time, from the day after an exit;
\* without an exit in the window the sweep ends
ExitDays(db, n, cfg, pos, i) == {j \in (i + 1)..n : AttemptExit(db, pos, j, cfg) # Absent}

SweepFrom(db, n, cfg, later, i) ==
    LET round(pos, exits) == IF pos = Absent THEN later[i + 1]
                             ELSE IF exits = {} THEN <<>>
                             ELSE <<AttemptExit(db, pos, Min(exits), cfg)>> \o later[Min(exits) + 1]
        entered(pos) == round(pos, IF pos = Absent THEN {} ELSE ExitDays(db, n, cfg, pos, i))
    IN IF i > n THEN <<>> ELSE entered(AttemptEntry(db, i, cfg))

RunBacktest(db, n, cfg) ==
    LET sweep[i \in 1..(n + 1)] == SweepFrom(db, n, cfg, sweep, i) IN sweep[1]

\* run_forward's step over day D, from a position and the trades so far: flat, it looks for
\* an entry; holding, for an exit
FlatStart == [held |-> Absent, trades |-> <<>>]
StepOver(db, D, cfg, s) ==
    LET after(trade) == IF trade = Absent THEN s ELSE [held |-> Absent, trades |-> Append(s.trades, trade)]
    IN IF s.held = Absent THEN [held |-> AttemptEntry(db, D, cfg), trades |-> s.trades]
       ELSE after(AttemptExit(db, s.held, D, cfg))

\* run_forward over the first n days of one store
RunForward(db, n, cfg) ==
    LET walk[D \in 0..n] == IF D = 0 THEN FlatStart ELSE StepOver(db, D, cfg, walk[D - 1]) IN walk[n].trades

-----------------------------------------------------------------------------
\* What a record of trades earns

NetPnl(trade) ==
    1000 * (trade.exit.price - trade.entry.price) * trade.entry.qty - trade.entry.fee - trade.exit.fee
NetReturn(trade) == NetPnl(trade) \div (trade.entry.price * trade.entry.qty)

\* the mean return over its dispersion is positive; without dispersion it is undefined
PositiveSharpe(s) == Len(s) >= 2 /\ Cardinality(Range(s)) > 1 /\ Total(s) > 0

\* every sequential fold of the record has a positive Sharpe
WalkForward(record) ==
    LET size == Len(record) \div Folds
        fold(k) == SubSeq(record, (k - 1) * size + 1, IF k = Folds THEN Len(record) ELSE k * size)
    IN Len(record) >= 2 * Folds
         /\ \A k \in 1..Folds : PositiveSharpe([i \in DOMAIN fold(k) |-> NetReturn(fold(k)[i])])

ResolveState(months, record) ==
    IF months <= 0 THEN "OBSERVATION_ONLY"
    ELSE IF months >= PAPER_VALIDATION_MONTHS /\ WalkForward(record) THEN "VALIDATED" ELSE "VALIDATING"

-----------------------------------------------------------------------------
PaperInit ==
    /\ EngineInit
    /\ run \in RunConfigs /\ stepped = 0 /\ held = Absent /\ trades = <<>> /\ firm = 0
    /\ ledger = [months |-> 0, n |-> 0, state |-> "OBSERVATION_ONLY"]

\* the run as operation accrues steps over the next stored day, on the store of that moment
StepForward ==
    /\ stepped < Len(tape)
    /\ stepped' = stepped + 1
    /\ \E s \in {StepOver(Store, stepped + 1, run, [held |-> held, trades |-> trades])} :
          held' = s.held /\ trades' = s.trades
    /\ firm' = IF firm = stepped THEN stepped + 1 ELSE firm
    /\ UNCHANGED <<run, ledger, engineVars>>

\* record_forward_paper: the only writer of the ledger
RecordForwardPaper(months) ==
    /\ ledger' = [months |-> months, n |-> Len(trades), state |-> ResolveState(months, trades)]
    /\ UNCHANGED <<run, stepped, held, trades, firm, engineVars>>

\* the store moves on; a row that comes late is seen by the decisions after its stamp, a bar
\* that comes late by those, and by the fills of its own day too
StoreMoves ==
    /\ \/ (\E book \in Books \union {Absent} : CloseWith(book)) /\ UNCHANGED firm
       \/ \E d \in DOMAIN flows, book \in Books : \E stamp \in {d, Len(tape)} :
             FetchLate(d, book, stamp) /\ firm' = Min({firm, stamp})
       \/ \E d \in DOMAIN tape, b \in Bars : FillBar(d, b) /\ firm' = Min({firm, d - 1})
    /\ UNCHANGED <<run, stepped, held, trades, ledger>>

PaperNext ==
    \/ StepForward
    \/ \E months \in 0..PAPER_VALIDATION_MONTHS : RecordForwardPaper(months)
    \/ StoreMoves

-----------------------------------------------------------------------------
PaperTypeOK ==
    /\ stepped \in 0..Len(tape) /\ firm \in 0..stepped
    /\ held # Absent => held.entry.filled /\ held.entry.day \in 1..stepped
    /\ ledger.months \in 0..PAPER_VALIDATION_MONTHS /\ ledger.n \in 0..Len(trades)
    /\ ledger.state \in {"OBSERVATION_ONLY", "VALIDATING", "VALIDATED"}

(* The forward run, which decided each day on the store as it then was,     *)
(* reconciles with a backtest of the whole store of today as far as no late *)
(* row reaches: up to the day before the first decision such a row changes  *)
(* it closed the trades of the backtest, all else it closed after that day, *)
(* and an award that counted no more trades than those is what they earn    *)
(* (runner.py run_backtest, run_forward; promotion.py record_forward_paper; *)
(* timing.py broker_as_of).                                                 *)
ForwardIsBacktest ==
    \E backtest \in {RunBacktest(Store, firm, run)} :
        /\ Len(backtest) <= Len(trades) /\ backtest = SubSeq(trades, 1, Len(backtest))
        /\ \A i \in (Len(backtest) + 1)..Len(trades) : trades[i].exit.day > firm
        /\ ledger.n <= Len(backtest) =>
              ledger.state = ResolveState(ledger.months, SubSeq(backtest, 1, ledger.n))
=============================================================================
