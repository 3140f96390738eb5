----------------------------- MODULE RiskMonitor -----------------------------
(***************************************************************************)
(* The portfolio risk monitor (signals/risk_monitor.py): what a book is    *)
(* exposed to before day D opens, over the preview book ui/app.py shows it *)
(* for.  Money is in whole rupiahs, a return or a weight in thousandths,   *)
(* rounded down; a measurement without its input is Absent.                *)
(***************************************************************************)
EXTENDS DeskViews

-----------------------------------------------------------------------------
\* The book: an equal lot of every priced name, marked at its last visible close

PreviewBook(D) ==
    LET priced(s) == {d \in Seen(s, D) : Close(s, d) \notin {Absent, 0}}
    IN [positions |-> [s \in {q \in Known(D) : priced(q) # {}} |->
                         [sector |-> Sector[s], qty |-> PREVIEW_QTY, last |-> Close(s, Max(priced(s))),
                          entry |-> Absent, board |-> "MAIN"]],
        cash |-> 0]

Held(book) == DOMAIN book.positions
Worth(p) == p.qty * p.last
WorthOf(book, S) == SumBy(LAMBDA s : Worth(book.positions[s]), S)
Invested(book) == WorthOf(book, Held(book))
EquityOf(book) == Invested(book) + book.cash
Pnl(book) ==
    LET entered == {s \in Held(book) : book.positions[s].entry # Absent}
        pnl(p) == (p.last - p.entry) * p.qty
    IN IF entered = {} THEN Absent ELSE SumBy(LAMBDA s : pnl(book.positions[s]), entered)

-----------------------------------------------------------------------------
\* Exposure caps and concentration

Exposure(value, equity, cap, warn) ==
    [weight |-> IF equity > 0 THEN Ratio(value, equity) ELSE 0,
     over_cap |-> equity > 0 /\ 1000 * value > cap * equity,
     warn |-> equity > 0 /\ warn * equity < 1000 * value /\ 1000 * value <= cap * equity]

NameExposures(book) ==
    [s \in Held(book) |->
        Exposure(WorthOf(book, {s}), EquityOf(book), EXPOSURE_CAP_NAME, EXPOSURE_WARN_NAME)]

InSector(book, sector) == {s \in Held(book) : book.positions[s].sector = sector}
SectorValues(book) ==
    [sector \in {book.positions[s].sector : s \in Held(book)} |-> WorthOf(book, InSector(book, sector))]
SectorExposures(book) ==
    [sector \in DOMAIN SectorValues(book) |->
        Exposure(SectorValues(book)[sector], EquityOf(book), EXPOSURE_CAP_SECTOR, EXPOSURE_WARN_SECTOR)]

\* Herfindahl over the sectors' shares of what is invested
SectorHhi(book) ==
    LET share(x) == Ratio(SectorValues(book)[x], Invested(book))
    IN IF Invested(book) <= 0 THEN Absent
       ELSE SumBy(LAMBDA x : share(x) * share(x), DOMAIN SectorValues(book)) \div 1000

-----------------------------------------------------------------------------
\* Crowding: the same brokers on the same side of two names

Dot(a, b) == SumBy(LAMBDA k : a[k] * b[k], DOMAIN a \intersect DOMAIN b)

\* the cosine of two net vectors, as its dot product and the square of its norm
CrowdingCorrelation(a, b) ==
    IF Dot(a, a) = 0 \/ Dot(b, b) = 0 THEN Absent ELSE [dot |-> Dot(a, b), norm2 |-> Dot(a, a) * Dot(b, b)]

CrowdingMatrix(nets) ==
    [pair \in (DOMAIN nets) \X (DOMAIN nets) |->
        IF pair[1] # pair[2] THEN CrowdingCorrelation(nets[pair[1]], nets[pair[2]])
        ELSE IF DOMAIN nets[pair[1]] = {} THEN Absent ELSE [dot |-> 1, norm2 |-> 1]]

\* brokers that drive both names the most; of equals, any one is named
SharedLeadBroker(a, b) ==
    LET shared == {k \in DOMAIN a \intersect DOMAIN b : a[k] * b[k] > 0}
    IN {k \in shared : \A j \in shared : a[j] * b[j] <= a[k] * b[k]}

\* pairs at or over the threshold, each once, with the broker behind both
CorrelatedPairs(matrix, nets) ==
    LET crowded(rho) == rho # Absent /\ rho.dot > 0 /\
            100 * rho.dot * rho.dot >= CROWDING_CORR_THRESHOLD * CROWDING_CORR_THRESHOLD * rho.norm2
    IN {[names |-> {pair[1], pair[2]}, lead |-> SharedLeadBroker(nets[pair[1]], nets[pair[2]])]
          : pair \in {p \in DOMAIN matrix : p[1] # p[2] /\ crowded(matrix[p])}}

-----------------------------------------------------------------------------
\* Returns, beta and value at risk

\* the mean return of the names that have one, in place of an index
MarketProxyReturns(returns) ==
    LET on(d) == {r \in returns : r.day = d}
    IN [d \in {r.day : r \in returns} |-> SumBy(LAMBDA r : r.by, on(d)) \div Cardinality(on(d))]

\* daily_returns of one name
OwnReturns(s, D) == [d \in ReturnDays(s, D) |-> DailyReturn(s, d).by]

\* covariance over variance on the days both have; Absent if the proxy does not move
Beta(own, proxy) ==
    LET common == DOMAIN own \intersect DOMAIN proxy
        n == Cardinality(common)
        co(a, b) == n * SumBy(LAMBDA d : a[d] * b[d], common) - SumOver(a, common) * SumOver(b, common)
    IN IF n < 2 \/ co(proxy, proxy) = 0 THEN Absent ELSE Ratio(co(own, proxy), co(proxy, proxy))

\* weighted by market value over the names that have one
PortfolioBeta(book, returns, proxy) ==
    LET measured == {s \in Held(book) : Beta(returns[s], proxy) # Absent}
    IN IF measured = {} \/ Invested(book) <= 0 THEN Absent
       ELSE SumBy(LAMBDA s : WorthOf(book, {s}) * Beta(returns[s], proxy), measured) \div Invested(book)

\* a day's return sums the names that have one, weighted by their share of what is invested
PortfolioReturns(book, returns) ==
    LET on(d) == {s \in Held(book) : d \in DOMAIN returns[s]}
    IN IF Invested(book) <= 0 THEN <<>>
       ELSE [d \in UNION {DOMAIN returns[s] : s \in Held(book)} |->
               SumBy(LAMBDA s : WorthOf(book, {s}) * returns[s][d], on(d)) \div Invested(book)]

\* nearest rank: the rank-th smallest return, rank the ceiling of the tail
Percentile(returns, tail) ==
    LET rank == Max({1, (tail * Cardinality(DOMAIN returns) + 999) \div 1000})
        upTo(v) == {d \in DOMAIN returns : returns[d] <= v}
    IN Min({v \in Range(returns) : Cardinality(upTo(v)) >= rank})

\* the loss of the tail, floored at zero
VarHistorical(returns) ==
    IF Cardinality(DOMAIN returns) < 2 THEN Absent
    ELSE Max({0, -Percentile(returns, 1000 - VAR_CONFIDENCE)})

-----------------------------------------------------------------------------
\* Liquidity and scenarios

\* days to sell what is held at a share of the average value traded
DaysToExit(worth, s, D) ==
    LET known == {d \in Newest(ADV_WINDOW, Traded(s, Seen(s, D))) : bars[s][d].value # Absent}
    IN IF known = {} \/ Adds(s, known) <= 0 THEN Absent
       ELSE (1000 * worth * Cardinality(known)) \div (DTE_PARTICIPATION * Adds(s, known))

Shock(p, amount) == (p * amount) \div 1000

\* each row is a what-if; one without its input is Absent
ScenarioStress(book, beta, foreign) ==
    LET visible == {s \in Held(book) : DOMAIN foreign[s] # {}}
        bought == {s \in visible : SumOver(foreign[s], DOMAIN foreign[s]) > 0}
        worst == CHOOSE s \in Held(book) : \A q \in Held(book) : WorthOf(book, {q}) <= WorthOf(book, {s})
        band == BandPct(book.positions[worst].board, book.positions[worst].last, Absent)
    IN [ ihsg_gap |-> IF beta = Absent THEN Absent ELSE Shock(STRESS_IHSG_GAP, Shock(beta, Invested(book))),
         foreign_exodus |-> IF visible = {} THEN Absent
                            ELSE Shock(STRESS_FOREIGN_EXODUS, WorthOf(book, bought)),
         arb_lock |-> IF Held(book) = {} THEN Absent ELSE Shock(-band, WorthOf(book, {worst})),
         rupiah_shock |-> Shock(STRESS_RUPIAH_SHOCK, Invested(book)) ]

-----------------------------------------------------------------------------
\* what build_risk_report reads of the store: for each name held, and of the market
ReportInputs(book, D) ==
    [ returns |-> [s \in Held(book) |-> OwnReturns(s, D)],
      proxy |-> MarketProxyReturns(MarketReturns(Known(D), D)),
      liquidity |-> [s \in Held(book) |-> DaysToExit(WorthOf(book, {s}), s, D)],
      nets |-> [s \in Held(book) |-> BrokerNets(s, D)],
      foreign |-> [s \in Held(book) |-> NetForeign(s, D)] ]

\* build_risk_report
RiskReport(book, inputs) ==
    LET beta == PortfolioBeta(book, inputs.returns, inputs.proxy)
    IN [ equity |-> EquityOf(book), invested |-> Invested(book),
         name_exposures |-> NameExposures(book), sector_exposures |-> SectorExposures(book),
         sector_hhi |-> SectorHhi(book),
         portfolio_beta |-> beta,
         var_1d |-> VarHistorical(PortfolioReturns(book, inputs.returns)),
         liquidity |-> inputs.liquidity,
         crowding |-> CrowdingMatrix(inputs.nets),
         crowded_pairs |-> CorrelatedPairs(CrowdingMatrix(inputs.nets), inputs.nets),
         scenarios |-> ScenarioStress(book, beta, inputs.foreign),
         total_pnl |-> Pnl(book) ]

-----------------------------------------------------------------------------
(* What the report says holds of the book: the sectors hold what the names  *)
(* do; no more days than the tail allows lost more than the value at risk,  *)
(* which some day lost unless it is zero; and each crowded pair is named    *)
(* once, with a broker that drives both (risk_monitor.py var_historical,    *)
(* correlated_pairs).                                                       *)
ReportHolds ==
    \A D \in {today + 1} : \A book \in {PreviewBook(D)} :
        \A inputs \in {ReportInputs(book, D)} :
        \A report \in {RiskReport(book, inputs)}, returns \in {PortfolioReturns(book, inputs.returns)} :
            /\ SumBy(LAMBDA x : SectorValues(book)[x], DOMAIN SectorValues(book)) = Invested(book)
            /\ report.var_1d # Absent =>
                  /\ 1000 * Cardinality({d \in DOMAIN returns : -returns[d] > report.var_1d})
                       <= (1000 - VAR_CONFIDENCE) * Cardinality(DOMAIN returns)
                  /\ report.var_1d # 0 => \E d \in DOMAIN returns : -returns[d] = report.var_1d
            /\ \A p, q \in report.crowded_pairs : p.names = q.names => p = q
            /\ \A p \in report.crowded_pairs : p.lead # {} /\ Cardinality(p.names) = 2

\* all that is shown of the market before day D opens
DeskShown(D) ==
    [ universe |-> PitUniverse(D),
      regime |-> MarketRegime(MarketReturns(Passing(D), D), D),
      foreign |-> [s \in Known(D) |-> ForeignView(NetForeign(s, D))],
      tide |-> [d \in 1..(D - 1) |-> MarketTide(D, d)],
      accumulation |-> [s \in Known(D) |-> Accumulation(StoreOf(s, D), D - 1)],
      rotation |-> Rotation(D),
      heatmap |-> Heatmap(D),
      lenses |-> Agreement([s \in Known(D) |->
                    ReadSymbol(StoreOf(s, D), D - 1, ResolveTrack(s, D, Seen(s, D)))]),
      risk |-> RiskReport(PreviewBook(D), ReportInputs(PreviewBook(D), D)) ]
=============================================================================
