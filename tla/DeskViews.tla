------------------------------ MODULE DeskViews ------------------------------
(***************************************************************************)
(* What the terminal shows of many names at once, before day D opens: the  *)
(* foreign flow and the market's tide (signals/foreign_flow.py), the       *)
(* accumulation detector (accumulation.py), the sector rotation map        *)
(* (sector_rotation.py), the heatmap (heatmap.py), the agreement of the    *)
(* lenses (frameworks.py) and the portfolio risk monitor (risk_monitor.py) *)
(* over the preview book of ui/app.py.  A ratio is a whole number of       *)
(* thousandths rounded down; a value missing is Absent, never zero.        *)
(***************************************************************************)
EXTENDS PatternCatalog

CONSTANTS
    Sector,             \* the operator's sector map: symbol -> sector
    PREVIEW_QTY,        \* shares of each name in the preview book
    FF_CUM_DAYS, SECTOR_WINDOW_DAYS,
    VAR_CONFIDENCE      \* in thousandths

ASSUME ViewsAssumption ==
    /\ {PREVIEW_QTY, FF_CUM_DAYS} \subseteq Nat \ {0}
    /\ SECTOR_WINDOW_DAYS \in Nat /\ VAR_CONFIDENCE \in 0..999
    \* universe/sectors.py maps every name, if only to UNKNOWN, and none to the market's own row
    /\ Symbols \subseteq DOMAIN Sector /\ "MARKET" \notin Range(Sector)
    /\ \A s \in Symbols : \A q \in Quotes[s] : q.broker # Absent =>
          /\ IsFiniteSet(DOMAIN q.broker)
          /\ \A b \in DOMAIN q.broker : {q.broker[b].buy, q.broker[b].sell} \subseteq Nat \union {Absent}

Known(D) == {s \in Symbols : Seen(s, D) # {}}
SumBy(Amt(_), S) == SumOver([x \in S |-> Amt(x)], S)
Ratio(n, d) == (1000 * n) \div d
Sign(x) == IF x = Absent THEN "NEUTRAL" ELSE IF x > 0 THEN "BUY" ELSE IF x < 0 THEN "SELL" ELSE "NEUTRAL"

-----------------------------------------------------------------------------
\* Foreign flow: days without a net are dropped, not zeroed

NetForeign(s, D) == [d \in {e \in Seen(s, D) : bars[s][e].foreign # Absent} |-> bars[s][d].foreign]

\* the days of one sign that end with the latest; a day of zero is of neither sign
CurrentRun(net) ==
    {d \in DOMAIN net : \A e \in DOMAIN net : e >= d => net[e] # 0 /\ Sign(net[e]) = Sign(net[Max(DOMAIN net)])}

\* an unbroken run is persistence, not a reversal
DetectReversal(net) ==
    IF CurrentRun(net) \in {{}, DOMAIN net} THEN Absent
    ELSE [side |-> Sign(net[Max(DOMAIN net)]), since |-> Min(CurrentRun(net)),
          persistence |-> Cardinality(CurrentRun(net))]

ForeignView(net) ==
    [net_last |-> IF DOMAIN net = {} THEN Absent ELSE net[Max(DOMAIN net)],
     cum_window |-> SumOver(net, DOMAIN net),
     cum_recent |-> SumOver(net, LastDays(FF_CUM_DAYS, DOMAIN net)),
     persistence |-> Cardinality(CurrentRun(net)),
     reversal |-> DetectReversal(net)]

\* market_tide: one row for the market and one per sector; without a net, no row
MarketTide(D, day) ==
    LET served == {s \in Known(D) : day \in DOMAIN NetForeign(s, D)}
        of(scope) == {s \in served : scope \in {"MARKET", Sector[s]}}
    IN [scope \in {sc \in {"MARKET"} \union Range(Sector) : of(sc) # {}} |->
          [net |-> SumBy(LAMBDA s : NetForeign(s, D)[day], of(scope)), symbols |-> Cardinality(of(scope))]]

-----------------------------------------------------------------------------
\* Stealth accumulation: the price goes nowhere while the top buyer buys more

DaySeq(S) == SetToSortSeq(S, LAMBDA d, e : d < e)
NetsOf(nets, b) == LET days == DaySeq(DOMAIN nets) IN [i \in DOMAIN days |-> NetOn(nets, days[i], b)]
Rising(nets, b) == Len(NetsOf(nets, b)) >= 2 /\ LET h == Halves(NetsOf(nets, b)) IN Total(h[2]) > Total(h[1])

Accumulation(db, F) ==
    LET snap == Snapshot(db, F)
        w == SelectSeq(Stored(BarsAt(db, F)), HasRange)
        n == Len(w)
        buyer == IF Buyers(snap.net) = {} THEN Absent ELSE Ranked(snap.net)[1]
        rising == buyer # Absent /\ Rising(snap.nets, buyer)
        halves == Halves(w)
        volume(h) == Total(Field("volume", h))
    IN [accumulator |-> buyer,
        rising |-> rising,
        stealth_divergence |-> n >= 2 /\ rising /\ 50 * (w[n].close - w[1].close) <= w[1].close,
        volume_dryup |-> IF n < 4 THEN Absent ELSE IF volume(halves[1]) = 0 THEN Absent
                         ELSE Ratio(volume(halves[2]) * Len(halves[1]), volume(halves[1]) * Len(halves[2])),
        tightness |-> IF n < 4 THEN Absent
                      ELSE Total([i \in DOMAIN halves[2] |-> Ratio(Spread(halves[2][i]), halves[2][i].close)])
                             \div Len(halves[2])]

-----------------------------------------------------------------------------
\* Sector rotation over the trailing window

Windowed(s, D) == {d \in Seen(s, D) : d >= Max(UNION {Seen(q, D) : q \in Symbols}) - SECTOR_WINDOW_DAYS}
Closes(s, S) == {d \in Traded(s, S) : Close(s, d) \notin {Absent, 0}}

WindowReturn(s, D) ==
    LET priced == Closes(s, Windowed(s, D))
    IN IF Cardinality(priced) < 2 THEN Absent
       ELSE Ratio(Close(s, Max(priced)) - Close(s, Min(priced)), Close(s, Min(priced)))
WindowNets(s, D) == DOMAIN NetForeign(s, D) \intersect Windowed(s, D)

\* a slip of SymbolStats: a name without a return brings no flow
SymbolStats_Priced(s, D) ==
    [return |-> WindowReturn(s, D),
     flow |-> IF WindowReturn(s, D) = Absent \/ WindowNets(s, D) = {} THEN Absent
              ELSE SumOver(NetForeign(s, D), WindowNets(s, D))]

SymbolStats(s, D) ==
    [return |-> WindowReturn(s, D),
     flow |-> IF WindowNets(s, D) = {} THEN Absent ELSE SumOver(NetForeign(s, D), WindowNets(s, D))]

Quadrant(rs, flow) ==
    IF flow >= 0 THEN (IF rs >= 0 THEN "LEADERS" ELSE "EARLY_RECOVERY")
    ELSE IF rs >= 0 THEN "DISTRIBUTION_WARN" ELSE "AVOID"

\* a row for each sector some name of which has a return or a net; a missing axis has no corner
SectorRotation(stats) ==
    LET priced == {s \in DOMAIN stats : stats[s].return # Absent}
        flowing == {s \in DOMAIN stats : stats[s].flow # Absent}
        mean(S) == SumBy(LAMBDA s : stats[s].return, S) \div Cardinality(S)
        row(members) ==
          LET flow == SumBy(LAMBDA s : stats[s].flow, members \intersect flowing)
              rs == mean(members \intersect priced) - mean(priced)
          IN [members |-> members,
              relative_strength |-> IF members \intersect priced = {} THEN Absent ELSE rs,
              flow |-> IF members \intersect flowing = {} THEN Absent ELSE flow,
              quadrant |-> IF {} \in {members \intersect priced, members \intersect flowing}
                           THEN Absent ELSE Quadrant(rs, flow)]
    IN [sector \in {Sector[s] : s \in priced \union flowing} |->
          row({s \in priced \union flowing : Sector[s] = sector})]
Rotation(D) == SectorRotation([s \in Known(D) |-> SymbolStats(s, D)])

-----------------------------------------------------------------------------
\* The heatmap: a name with neither a foreign net nor a broker has no cell

BrokerNets(s, D) == Snapshot(StoreOf(s, D), D - 1).net
LOCAL_DNA == {"LOCAL_INST", "SMART_MONEY"}

Cell(foreign, nets) ==
    LET local == SumOver(nets, {b \in DOMAIN nets : Dna[b] \in LOCAL_DNA})
    IN [foreign |-> foreign, local_smart |-> local, direction |-> Sign(foreign),
        divergence |-> {Sign(foreign), Sign(local)} = {"BUY", "SELL"}]

Heatmap(D) ==
    [s \in {q \in Known(D) : DOMAIN NetForeign(q, D) # {} \/ DOMAIN BrokerNets(q, D) # {}} |->
        Cell(ForeignView(NetForeign(s, D)).net_last, BrokerNets(s, D))]

-----------------------------------------------------------------------------
\* The lenses over every name, on its track, and the names that several of them flag

ReadSymbol(db, F, track) ==
    LET r == Readings(db, F)
        read(v) == [lenses |-> Lenses(db, F, r, v), engine_state |-> v.state, tradeable |-> Tradeable(v)]
    IN read(Evaluate(db, F, track, r))

Flagged(read) == {lens \in DOMAIN read.lenses : read.lenses[lens] = "FLAGGED"}
Confluences(reads, minimum) ==
    {[symbol |-> s, lenses |-> Flagged(reads[s]),
      engine_state |-> reads[s].engine_state, tradeable |-> reads[s].tradeable]
       : s \in {q \in DOMAIN reads : Cardinality(Flagged(reads[q])) >= minimum}}
LENS_STATES == {"FLAGGED", "NEUTRAL", "CONTRARY", "UNAVAILABLE", "NOT_APPLICABLE"}
LensTally(reads) ==
    LET in(lens, state) == {s \in DOMAIN reads : reads[s].lenses[lens] = state}
    IN [lens \in UNION {DOMAIN reads[s].lenses : s \in DOMAIN reads} |->
          [state \in LENS_STATES |-> Cardinality(in(lens, state))]]
Agreement(reads) == [confluences |-> Confluences(reads, 2), tally |-> LensTally(reads)]

-----------------------------------------------------------------------------
(* The views count the same flow: the sectors of the rotation map add up to *)
(* the tides of its window's days, each tide to its sectors, and the names  *)
(* left out of the heatmap or the map have nothing to show                  *)
(* (foreign_flow.py market_tide, sector_rotation.py, heatmap.py: skipped,   *)
(* not zeroed).                                                             *)
ViewsAgree ==
    \A D \in {today + 1} : Known(D) # {} =>
        LET rotation == Rotation(D)
            window == UNION {Windowed(s, D) : s \in Known(D)}
            tides == {d \in window : "MARKET" \in DOMAIN MarketTide(D, d)}
        IN /\ SumBy(LAMBDA x : IF rotation[x].flow = Absent THEN 0 ELSE rotation[x].flow, DOMAIN rotation)
                = SumBy(LAMBDA d : MarketTide(D, d)["MARKET"].net, tides)
           /\ \A d \in tides : \A tide \in {MarketTide(D, d)} :
                 tide["MARKET"].net = SumBy(LAMBDA x : tide[x].net, DOMAIN tide \ {"MARKET"})
           /\ \A s \in Known(D) \ UNION {rotation[x].members : x \in DOMAIN rotation} :
                 s \in DOMAIN Heatmap(D) => Heatmap(D)[s].foreign = Absent \/ WindowNets(s, D) = {}
=============================================================================
