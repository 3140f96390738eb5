---------------------------- MODULE SignalEngine ----------------------------
(***************************************************************************)
(* The decision on one symbol, as it is taken live and as a replay         *)
(* reconstructs it: broker flow (signals/broker_flow.py), foreign flow     *)
(* (foreign_flow.py), KSEI ownership (ownership.py), the Smart Money Score *)
(* (sms.py), the vetoes (veto.py), the engine's state (engine.py), the     *)
(* replay frame (replay.py) and the five lenses (frameworks.py, with       *)
(* fundamentals/tilt.py).                                                  *)
(*                                                                         *)
(* The moment of frame D is 09:15 of day D + 1: the bars of the days up to *)
(* D are visible, and each row stamped no later than D (as_of in the code, *)
(* counted here in frames).  A share or a strength is a whole number of    *)
(* thousandths, rounded down.                                              *)
(***************************************************************************)
EXTENDS TapeSignals

CONSTANTS
    Brokers,      \* the broker codes, in alphabetical order
    Dna,          \* broker code -> its class in the registry
    Books,        \* a day's broker summaries: a function from some codes to [buy, sell]
    Shares,       \* foreign shares a KSEI slice may print, in tenths of a point
    SliceDays,    \* days KSEI slices are dated
    Fundamentals  \* the SCR-4 row of the symbol: [sector, mf_rank_pct, ev_ebit, roe]

ASSUME EngineAssumption ==
    /\ SliceDays \subseteq Nat /\ Shares \subseteq Nat \union {Absent}
    /\ \A b \in Books : DOMAIN b \subseteq Range(Brokers)

VARIABLES
    flows,  \* table broker_net: day -> [book, stamp], or Absent
    ksei    \* table ksei_ownership: slices [day, share, stamp]

engineVars == <<tape, flows, ksei>>

-----------------------------------------------------------------------------
\* The store's reads at frame D

Store == [tape |-> tape, flows |-> flows, ksei |-> ksei]

BarsAt(db, D) == SubSeq(db.tape, 1, D)

\* a slip of FlowDays: a row's own day stands for its stamp
FlowDays_ByDay(db, D) == {d \in DOMAIN db.flows : d <= D /\ db.flows[d] # Absent}

FlowDays(db, D) == {d \in DOMAIN db.flows : d <= D /\ db.flows[d] # Absent /\ db.flows[d].stamp <= D}

\* slices with a share, and the latest of them
SlicesAt(db, D) == {s \in db.ksei : s.stamp <= D /\ s.share # Absent}
LatestSlices(S) == {s \in S : Cardinality({r \in S : r.day > s.day}) < OWNERSHIP_WINDOW_SLICES}

-----------------------------------------------------------------------------
\* Broker flow: a row of unknown value is dropped

KnownBrokers(book) == {b \in DOMAIN book : book[b].buy # Absent \/ book[b].sell # Absent}
Amount(x) == IF x = Absent THEN 0 ELSE x
DailyNet(book) == [b \in KnownBrokers(book) |-> Amount(book[b].buy) - Amount(book[b].sell)]
NetsAt(db, D) == [d \in {e \in FlowDays(db, D) : KnownBrokers(db.flows[e].book) # {}} |-> DailyNet(db.flows[d].book)]
NetOn(nets, d, b) == IF b \in DOMAIN nets[d] THEN nets[d][b] ELSE 0
LatestNets(nets) == IF DOMAIN nets = {} THEN <<>> ELSE nets[Max(DOMAIN nets)]

CodeIndex(b) == CHOOSE i \in DOMAIN Brokers : Brokers[i] = b
Buyers(net) == {b \in DOMAIN net : net[b] > 0}
\* buyers of a net, the largest first, equals by code
Ranked(net) ==
    SetToSortSeq(Buyers(net),
                 LAMBDA a, b : net[a] > net[b] \/ (net[a] = net[b] /\ CodeIndex(a) < CodeIndex(b)))

\* the share of the first n buyers in all net buying; Absent without a buyer
TopShare(net, n) ==
    LET bought(s) == Total([i \in DOMAIN s |-> net[s[i]]])
    IN IF Buyers(net) = {} THEN Absent
       ELSE (1000 * bought(SubSeq(Ranked(net), 1, Min({n, Cardinality(Buyers(net))})))) \div bought(Ranked(net))

\* consecutive latest days on which b was a net buyer; a day without b breaks the streak
Persistence(nets, b) ==
    Cardinality({d \in DOMAIN nets : \A e \in DOMAIN nets : e >= d => NetOn(nets, e, b) > 0})

\* build_snapshot: the window's buying, selling and net of every broker seen
Snapshot(db, D) ==
    LET nets == NetsAt(db, D)
        seen == UNION {DOMAIN nets[d] : d \in DOMAIN nets}
        sum(b, side) == MapThenSumSet(LAMBDA d : IF b \in DOMAIN db.flows[d].book
                                                 THEN Amount(db.flows[d].book[b][side]) ELSE 0, DOMAIN nets)
        buy == [b \in seen |-> sum(b, "buy")]
        sell == [b \in seen |-> sum(b, "sell")]
    IN [nets |-> nets, buy |-> buy, sell |-> sell, net |-> [b \in seen |-> buy[b] - sell[b]],
        top2_share |-> TopShare(LatestNets(nets), 2)]

-----------------------------------------------------------------------------
\* Foreign flow: days with a net; the run of one sign that ends with the last of them

ForeignDays(t) == {d \in DOMAIN t : t[d] # Absent /\ t[d].foreign # Absent}

ForeignSnapshot(t) ==
    LET days == ForeignDays(t)
        last == t[Max(days)].foreign
        prior == LastDays(ADV_WINDOW, days \ {Max(days)})
        abs(x) == IF x < 0 THEN -x ELSE x
        mean == MapThenSumSet(LAMBDA d : abs(t[d].foreign), prior)
    IN IF days = {} THEN [net_last |-> Absent, magnitude |-> Absent]
       ELSE [net_last |-> last,
             \* the last net against the mean of the earlier ones, in thousandths
             magnitude |-> IF prior = {} \/ mean = 0 THEN Absent
                           ELSE (1000 * abs(last) * Cardinality(prior)) \div mean]

-----------------------------------------------------------------------------
\* Ownership: the change of the foreign share across the latest slices

PriceChangeKept(t, since, p) ==
    LET w == SelectSeq(Stored(t), LAMBDA b : b.traded /\ b.close # 0 /\ b.day >= since)
    IN IF Len(w) < 2 THEN Absent
       ELSE 1000 * (w[Len(w)].close - w[1].close) >= p * w[1].close

Unavailable(kind) == [kind |-> kind, available |-> FALSE, delta |-> Absent]

OwnershipDelta(db, D) ==
    LET w == LatestSlices(SlicesAt(db, D))
        first == CHOOSE s \in w : \A r \in w : s.day <= r.day
        last == CHOOSE s \in w : \A r \in w : r.day <= s.day
        delta == last.share - first.share
        kept == PriceChangeKept(BarsAt(db, D), first.day, OWNERSHIP_MARKUP_PCT)
        is(kind) == [kind |-> kind, available |-> TRUE, delta |-> delta]
    IN IF Cardinality(w) < 2 THEN Unavailable("NO_COMPOSITION")
       ELSE IF D + 1 - last.day > OWNERSHIP_STALE_DAYS THEN Unavailable("STALE_COMPOSITION")
       ELSE IF delta \in (-OWNERSHIP_MATERIAL_PP + 1)..(OWNERSHIP_MATERIAL_PP - 1) THEN is("OWNERSHIP_FLAT")
       ELSE IF delta > 0 THEN is("ACCUMULATION_CONFIRMED")
       ELSE IF kept = Absent THEN is("OWNERSHIP_EASING")
       ELSE IF kept THEN is("DISTRIBUTION_TELL") ELSE is("OWNERSHIP_EASING")

OwnershipSubscore(own) ==
    IF own.available THEN Max({0, Min({1000, (1000 * own.delta) \div OWNERSHIP_FULL_CREDIT_PP})}) ELSE 0

-----------------------------------------------------------------------------
\* Smart Money Score: each component's strength, 0 where its data are missing

Clamp(x) == Max({0, Min({1000, x})})
Priced(t) == SelectSeq(Stored(t), LAMBDA b : b.traded /\ b.close # Absent /\ b.volume # Absent)

\* correlation of two sequences in twentieths, at most 6 (0.30); Absent if it cannot be measured
Correlation(xs, ys) ==
    LET n == Len(xs)
        dot(a, b) == Total([i \in 1..n |-> a[i] * b[i]])
        co(a, b) == n * dot(a, b) - Total(a) * Total(b)
    IN IF n < 2 THEN Absent
       ELSE IF co(xs, xs) = 0 \/ co(ys, ys) = 0 THEN Absent
       ELSE IF co(xs, ys) <= 0 THEN 0
       ELSE Max({k \in 0..6 : k * k * co(xs, xs) * co(ys, ys) <= 400 * co(xs, ys) * co(xs, ys)})

CorrFactor(corr) ==
    IF corr = Absent THEN 500 ELSE Max({500, 1000 - (500 * 50 * corr) \div SMS_DIVERGENCE_CORR_MAX})

DivergenceOver(w) ==
    LET n == Len(w)
        calm == Total(Field("volume", SubSeq(w, 1, n - 1)))
        abs(x) == IF x < 0 THEN -x ELSE x
        move == [i \in 1..(n - 1) |-> (200 * abs(w[i + 1].close - w[i].close)) \div w[i].close]
        heavy == {i \in 1..(n - 1) : calm > 0 /\ 1000 * w[i + 1].volume * (n - 1) >= SMS_DIVERGENCE_HIVOL_MULT * calm}
        flat == {i \in heavy : 1000 * abs(w[i + 1].close - w[i].close) <= SMS_DIVERGENCE_FLAT_PCT * w[i].close}
        factor == CorrFactor(Correlation([i \in 1..(n - 1) |-> w[i + 1].volume], move))
    IN IF n < 3 \/ heavy = {} THEN 0 ELSE Clamp((Cardinality(flat) * factor) \div Cardinality(heavy))
Divergence(t) == DivergenceOver(LastN(SMS_DIVERGENCE_WINDOW, Priced(t)))

\* the close rose by more than 2% over the persistence window
Rose(t) ==
    LET w == Priced(t)
        n == Len(w)
    IN n > SMS_BROKER_PERSIST_DAYS /\ 100 * w[n].close > 102 * w[n - SMS_BROKER_PERSIST_DAYS].close

LeadPersistence(snap) ==
    LET lead == SubSeq(Ranked(snap.net), 1, Min({2, Cardinality(Buyers(snap.net))}))
    IN Max({0} \union {Persistence(snap.nets, b) : b \in Range(lead)})

HasConcentration(snap) == snap.top2_share # Absent /\ Buyers(snap.net) # {}
BrokerConcentration(snap, t) ==
    IF ~HasConcentration(snap) THEN 0
    ELSE IF LeadPersistence(snap) >= SMS_BROKER_PERSIST_DAYS /\ ~Rose(t) THEN snap.top2_share
    ELSE snap.top2_share \div 2

\* the magnitude of the last net, credited by half when it is not a buying run
ForeignFlow(t, track) ==
    LET f == ForeignSnapshot(t)
    IN IF track # "A" \/ f.net_last = Absent THEN 0
       ELSE IF f.magnitude = Absent THEN 0
       ELSE Clamp((1000 * f.magnitude) \div (SMS_FOREIGN_SPIKE_MULT * (IF f.net_last > 0 THEN 2 ELSE 4)))

Rvol(t) ==
    LET w == Priced(t)
        n == Len(w)
        prior == Field("volume", SubSeq(w, Max({1, n - ADV_WINDOW}), n - 1))
    IN IF n < 2 \/ Total(prior) <= 0 THEN 0
       ELSE Clamp((1000 * 1000 * (w[n].volume * Len(prior) - Total(prior)))
                     \div ((SMS_RVOL_MULT - 1000) * Total(prior)))

BlockTrade(snap, t) ==
    LET days == LastN(ADV_WINDOW, SelectSeq(Stored(t), LAMBDA b : b.traded))
        values == SelectSeq(Field("value", days), LAMBDA v : v # Absent)
        buy == Max({snap.buy[b] : b \in DOMAIN snap.buy})
    IN IF DOMAIN snap.buy = {} THEN 0
       ELSE IF Total(values) > 0
            THEN Clamp((1000 * 1000 * buy * Len(values)) \div (SMS_BLOCK_ADV_PCT * Total(values)))
       ELSE Clamp((1000 * buy) \div SMS_BLOCK_VALUE)

PhaseBonus(cls) ==
    IF EventKinds(cls) \intersect {"SPRING", "LPS"} # {} THEN 1000 ELSE IF "SOS" \in EventKinds(cls) THEN 500 ELSE 0

\* compute_sms: in thousandths of a point
Weigh(weights, strength) == MapThenSumSet(LAMBDA k : weights[k] * strength[k], DOMAIN strength)
Score(track, snap, t, cls, own, ribbon, profile) ==
    Weigh(SMS_WEIGHTS[track],
          [ divergence |-> Divergence(t), broker_concentration |-> BrokerConcentration(snap, t),
            foreign_flow |-> ForeignFlow(t, track), rvol |-> Rvol(t), block_trade |-> BlockTrade(snap, t),
            phase_bonus |-> PhaseBonus(cls), ownership_delta |-> OwnershipSubscore(own),
            bar_character |-> VpaSubscore(ribbon), vp_confluence |-> VpSubscore(profile, cls.events) ])

-----------------------------------------------------------------------------
\* Vetoes: every filter runs

Monopoly(snap) ==
    LET share == TopShare(LatestNets(snap.nets), 1)
    IN share # Absent /\ share > VETO_MONOPOLY_SHARE

\* the dominant buyer of the window sold on each of its latest days
BuyerFlipped(snap) ==
    LET recent == LastDays(VETO_FLIP_MIN_DAYS, DOMAIN snap.nets)
    IN /\ Buyers(snap.net) # {} /\ Cardinality(recent) >= VETO_FLIP_MIN_DAYS
       /\ \A d \in recent : NetOn(snap.nets, d, Ranked(snap.net)[1]) < 0

MarkupThin(t) ==
    LET w == Priced(t)
        n == Len(w)
        prior == SubSeq(w, Max({1, n - ADV_WINDOW}), n - 1)
    IN /\ n >= 2 /\ Total(Field("volume", prior)) > 0 /\ w[n - 1].close # 0
       /\ 1000 * (w[n].close - w[n - 1].close) >= VETO_MARKUP_PRICE_PCT * w[n - 1].close
       /\ VolumeAtMost(w[n], VETO_MARKUP_THIN_RVOL, prior)

WashChurn(snap) ==
    LET gross(b) == snap.buy[b] + snap.sell[b]
        total == MapThenSumSet(gross, DOMAIN snap.buy)
    IN \E b \in DOMAIN snap.buy :
          /\ total > 0 /\ 10 * gross(b) >= total
          /\ Max({snap.buy[b], snap.sell[b]}) > 0
          /\ 1000 * Min({snap.buy[b], snap.sell[b]}) >= VETO_WASH_RATIO * Max({snap.buy[b], snap.sell[b]})

\* concentrated on each latest day, by a different top buyer each day
BrokerRotation(snap) ==
    LET days == LastDays(VETO_ROTATION_MIN_DAYS, DOMAIN snap.nets)
    IN /\ Cardinality(days) >= VETO_ROTATION_MIN_DAYS
       /\ \A d \in days : Buyers(snap.nets[d]) # {}
       /\ \A d \in days : TopShare(snap.nets[d], 1) > 400
       /\ Cardinality({Ranked(snap.nets[d])[1] : d \in days}) = Cardinality(days)

RetailFomo(snap) ==
    LET bought(S) == MapThenSumSet(LAMBDA b : snap.buy[b], S)
    IN 1000 * bought({b \in DOMAIN snap.buy : Dna[b] = "RETAIL"}) > VETO_RETAIL_FOMO_SHARE * bought(DOMAIN snap.buy)

\* evaluate_vetoes: the reasons, and what the ownership reading adds to one of them
Fired(filters, own) ==
    [reasons |-> {r \in DOMAIN filters : filters[r]},
     corroborated |-> filters.DISTRIBUTION_DRESSED /\ own.kind = "DISTRIBUTION_TELL"]
Vetoes(snap, t, cls, own) ==
    Fired([ SINGLE_BANDAR_MONOPOLY |-> Monopoly(snap),
            DISTRIBUTION_DRESSED |-> cls.phase = "DISTRIBUTION" \/ BuyerFlipped(snap),
            MARKUP_ON_THIN_VOLUME |-> MarkupThin(t),
            WASH_CHURN |-> WashChurn(snap),
            BROKER_ROTATION |-> BrokerRotation(snap),
            RETAIL_FOMO |-> RetailFomo(snap),
            EVENT_DRIVEN |-> FALSE,  \* no caller says that there is material news
            PHASE_MISMATCH |-> ~Tradeable(cls) ], own)

-----------------------------------------------------------------------------
\* The engine: gate, then veto, then score

Decide(cls, vetoes, score) ==
    IF ~Tradeable(cls) THEN "GATE_REJECTED"
    ELSE IF vetoes.reasons # {} THEN "VETOED"
    ELSE IF (score + 5) \div 10 >= 100 * SMS_ARMED_THRESHOLD THEN "ARMED"
    ELSE "WATCH"

\* the candidate readings of frame D, and their absence
Readings(db, D) == [own |-> OwnershipDelta(db, D), ribbon |-> Ribbon(BarsAt(db, D)), profile |-> BuildProfile(BarsAt(db, D))]
NoReadings == [own |-> Unavailable("NO_COMPOSITION"), ribbon |-> <<>>, profile |-> NoProfile]

\* a slip of Judge: a falling composition rejects a name by itself
Judge_OwnershipVeto(cls, vetoes, own, score) ==
    LET held == IF own.kind = "DISTRIBUTION_TELL"
                THEN [vetoes EXCEPT !.reasons = @ \union {"DISTRIBUTION_DRESSED"}] ELSE vetoes
    IN [phase |-> cls.phase, events |-> cls.events, range |-> cls.range, vetoes |-> held,
        state |-> Decide(cls, held, score)]

Judge(cls, vetoes, own, score) ==
    [phase |-> cls.phase, events |-> cls.events, range |-> cls.range, vetoes |-> vetoes,
     state |-> Decide(cls, vetoes, score)]

Result(track, t, snap, cls, r) ==
    Judge(cls, Vetoes(snap, t, cls, r.own), r.own, Score(track, snap, t, cls, r.own, r.ribbon, r.profile))

Evaluate(db, D, track, r) ==
    Result(track, BarsAt(db, D), Snapshot(db, D), Corroborate(Classify(BarsAt(db, D)), r.ribbon, r.profile), r)

-----------------------------------------------------------------------------
\* The lenses: what each framework reads in a verdict already made

FLOW_ONLY_SECTORS == {"FINANCIALS", "FINANCE", "BANK", "UTILITIES", "INFRASTRUCTURE"}

\* percentiles and returns on equity in thousandths
Tilt(f) ==
    IF f.sector \in FLOW_ONLY_SECTORS
    THEN [kind |-> "FLOW_ONLY",
          multiplier |-> IF f.roe # Absent /\ f.roe > 120 THEN CONVICTION.COMPOUNDER ELSE CONVICTION.FLOW_ONLY]
    ELSE LET kind == IF f.ev_ebit # Absent /\ f.ev_ebit < 0 THEN "SPECULATIVE"
                     ELSE IF f.mf_rank_pct = Absent THEN "NEUTRAL"
                     ELSE IF f.mf_rank_pct >= 667 THEN "COMPOUNDER"
                     ELSE IF f.mf_rank_pct <= 333 THEN "SPECULATIVE" ELSE "NEUTRAL"
         IN [kind |-> kind, multiplier |-> CONVICTION[kind]]

BANDAR_VETOES == {"SINGLE_BANDAR_MONOPOLY", "WASH_CHURN", "BROKER_ROTATION", "DISTRIBUTION_DRESSED"}

WyckoffLens(t, v) ==
    IF Complete(t) = <<>> THEN "UNAVAILABLE"
    ELSE IF v.phase \in TRADEABLE_PHASES THEN "FLAGGED"
    ELSE IF v.phase \in {"DISTRIBUTION", "E", "DOWNTREND"} THEN "CONTRARY" ELSE "NEUTRAL"

Wyckoff2Lens(r, v) ==
    LET met == {v.events[i].kind : i \in {j \in DOMAIN v.events : Confluent(r.profile, v.events[j])}}
    IN IF ~r.profile.available THEN "UNAVAILABLE"
       ELSE IF met \intersect {"SPRING", "LPS"} # {} THEN "FLAGGED"
       ELSE IF "UTAD" \in met THEN "CONTRARY" ELSE "NEUTRAL"

VpaLens(r) ==
    IF ~Readable(r.ribbon) THEN "UNAVAILABLE"
    ELSE IF DemandSideBars(r.ribbon) > 0 THEN "FLAGGED"
    ELSE IF \E d \in DOMAIN r.ribbon : r.ribbon[d] \in SUPPLY_SIDE THEN "CONTRARY" ELSE "NEUTRAL"

BandarLens(db, D, r, v) ==
    LET snap == Snapshot(db, D)
    IN IF v.vetoes.reasons \intersect BANDAR_VETOES # {} THEN "CONTRARY"
       ELSE IF ~HasConcentration(snap) THEN "UNAVAILABLE"
       ELSE IF LeadPersistence(snap) >= SMS_BROKER_PERSIST_DAYS /\ ~Rose(BarsAt(db, D)) THEN "FLAGGED"
       ELSE IF r.own.kind = "DISTRIBUTION_TELL" THEN "CONTRARY" ELSE "NEUTRAL"

MagicFormulaLens(f) ==
    IF f.sector \in FLOW_ONLY_SECTORS THEN "NOT_APPLICABLE"
    ELSE IF f.mf_rank_pct = Absent /\ f.ev_ebit = Absent THEN "UNAVAILABLE"
    ELSE CASE Tilt(f).kind = "COMPOUNDER" -> "FLAGGED"
           [] Tilt(f).kind = "SPECULATIVE" -> "CONTRARY"
           [] Tilt(f).kind = "NEUTRAL" -> "NEUTRAL"

Lenses(db, D, r, v) ==
    [ WYCKOFF |-> WyckoffLens(BarsAt(db, D), v), WYCKOFF_2 |-> Wyckoff2Lens(r, v), VPA |-> VpaLens(r),
      BANDARMOLOGY |-> BandarLens(db, D, r, v), MAGIC_FORMULA |-> MagicFormulaLens(Fundamentals) ]

\* the net flow of the tape: the foreign net, else the brokers'
NetFlow(t, nets) ==
    [d \in DOMAIN t |->
        IF t[d] # Absent /\ t[d].foreign # Absent THEN t[d].foreign
        ELSE IF d \in DOMAIN nets THEN SumOver(nets[d], DOMAIN nets[d]) ELSE Absent]
DecayFlags(db, D, cls) == Decay(BarsAt(db, D), NetFlow(BarsAt(db, D), NetsAt(db, D)), cls)

-----------------------------------------------------------------------------
\* The replay frame of day D, with the verdict and the lenses shown at its moment

Frame(db, D, track) ==
    LET t == BarsAt(db, D)
        bar == t[D]
        prior == SubSeq(Stored(t), 1, Len(Stored(t)) - (IF bar = Absent THEN 0 ELSE 1))
        nets == NetsAt(db, D)
        r == Readings(db, D)
        v == Evaluate(db, D, track, r)
    IN [ close |-> IF bar = Absent THEN Absent ELSE bar.close,
         prev_close |-> IF prior = <<>> THEN Absent ELSE prior[Len(prior)].close,
         broker_net |-> IF D \in DOMAIN nets THEN SumOver(nets[D], DOMAIN nets[D]) ELSE Absent,
         smart_money |-> IF D \in DOMAIN nets
                         THEN SumOver(nets[D], {b \in DOMAIN nets[D] : Dna[b] = "SMART_MONEY"}) ELSE Absent,
         decay |-> DecayFlags(db, D, v),
         verdict |-> v,
         lenses |-> Lenses(db, D, r, v) ]

-----------------------------------------------------------------------------
EngineInit == TapeInit /\ flows = <<>> /\ ksei = {}

\* a day closes with its bar, or without; its broker summary may come next morning
CloseWith(book) ==
    /\ TapeNext
    /\ flows' = Append(flows, IF book = Absent THEN Absent ELSE [book |-> book, stamp |-> Len(tape')])
    /\ UNCHANGED ksei

\* a summary missed on its day is fetched later: the feed's own stamp is today's, the
\* conservative one is the day's own next morning
FetchLate(d, book, stamp) ==
    /\ d < Len(tape) /\ flows[d] = Absent
    /\ stamp \in {d, Len(tape)}
    /\ flows' = [flows EXCEPT ![d] = [book |-> book, stamp |-> stamp]]
    /\ UNCHANGED <<tape, ksei>>

\* a retry or a backfill stores the bar a past day lacks, under the stamp of that day
FillBar(d, b) ==
    /\ tape[d] = Absent
    /\ tape' = [tape EXCEPT ![d] = [b EXCEPT !.day = d]]
    /\ UNCHANGED <<flows, ksei>>

\* a KSEI slice is stamped with the moment of its fetch
FetchSlice(day, share) ==
    /\ day <= Len(tape) /\ \A s \in ksei : s.day # day
    /\ ksei' = ksei \union {[day |-> day, share |-> share, stamp |-> Len(tape)]}
    /\ UNCHANGED <<tape, flows>>

EngineNext ==
    \/ \E book \in Books \union {Absent} : CloseWith(book)
    \/ \E d \in DOMAIN flows, book \in Books : \E stamp \in {d, Len(tape)} : FetchLate(d, book, stamp)
    \/ \E d \in DOMAIN tape, b \in Bars : FillBar(d, b)
    \/ \E day \in SliceDays, share \in Shares : FetchSlice(day, share)

-----------------------------------------------------------------------------
EngineTypeOK ==
    /\ TapeTypeOK /\ Len(flows) = Len(tape)
    /\ \A d \in DOMAIN flows : flows[d] # Absent =>
          flows[d].book \in Books /\ flows[d].stamp \in d..Len(tape)
    /\ \A s \in ksei : s.day \in SliceDays /\ s.share \in Shares /\ s.stamp \in s.day..TapeDays

(* What is stored for a moment changes no frame before that moment: the     *)
(* bars, rows and slices a frame reads are those stamped at or before it,   *)
(* so its verdict, its vetoes and its lenses are what they were (store/db.py *)
(* _read, replay.py build_frame, engine.py evaluate).  A late row stamped   *)
(* with its own day, or a late bar, does repaint the frames from that day   *)
(* on.                                                                      *)
KeepsEarlierFrames ==
    \A D \in DOMAIN tape, track \in {"A", "B"}, was \in {Store}, is \in {Store'} :
        /\ is # was
        /\ \A s \in is.ksei \ was.ksei : D < s.stamp
        /\ \A d \in DOMAIN was.flows : is.flows[d] # was.flows[d] => D < is.flows[d].stamp
        /\ \A d \in DOMAIN was.tape : is.tape[d] # was.tape[d] => D < d
        => Frame(is, D, track) = Frame(was, D, track)

(* The readings of LD-13 decide nothing: with them and without, a symbol    *)
(* has the same phase, the same vetoes and the same state (sms.py, veto.py  *)
(* evaluate_vetoes, phase.py _corroborate: the set of rejected names is     *)
(* identical with and without them).                                        *)
CandidatesDecideNothing ==
    \A db \in {Store}, D \in {Len(tape)} \ {0}, track \in {"A", "B"} :
        \A with \in {Evaluate(db, D, track, Readings(db, D))}, without \in {Evaluate(db, D, track, NoReadings)} :
           /\ with.phase = without.phase /\ with.state = without.state
           /\ with.vetoes.reasons = without.vetoes.reasons
=============================================================================
