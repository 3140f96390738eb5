--------------------------- MODULE PatternCatalog ---------------------------
(***************************************************************************)
(* The pattern catalog: how often a claim of the catalog came true, beside  *)
(* how often it comes true anyway (patterns/*.py, with the features of     *)
(* signals/pattern_features.py and the cards of ui/catalog_view.py).       *)
(*                                                                         *)
(* The monthly accrual seeds the catalog and takes each estimable pattern  *)
(* through three transactions: a scan that writes its flags as OPEN        *)
(* instances, a resolution that looks at the bars after each flag, and an  *)
(* estimate that counts.  The process may be killed between any two.  Both *)
(* estimable patterns belong to track B and expect a fall of 10%.          *)
(***************************************************************************)
EXTENDS PointInTime, SignalEngine

CONSTANT Horizons  \* forward trading days of the estimable patterns

ASSUME CatalogAssumption == Horizons \subseteq Nat \ {0} /\ Horizons # {}

VARIABLES
    instances,  \* table pattern_instance
    catalog,    \* table pattern_catalog: pattern -> [status, results], or Absent; results of one estimate, or {}
    accrual,    \* the running job: [step, of]
    moved       \* history only: keys of the instances resolved on prices a late one has since come between

catalogVars == <<instances, catalog, accrual, moved>>
patternVars == <<pitVars, catalogVars>>

-----------------------------------------------------------------------------
\* The seeds

ESTIMABLE == <<"dominant-broker-flip", "stealth-divergence">>
SEED_PATTERNS ==
    Range(ESTIMABLE) \union
    {"quiet-accumulation", "concentrated-markup", "foreign-streak", "ksei-confirmed-accum"}
TrackOf(p) == IF p = "foreign-streak" THEN "A" ELSE "B"

\* a fall to the target; in floating point an exact tenth, 0.9 - 1, stays above it
Reached(close, entry) == 10 * close < 9 * entry

\* the symbol's own store, as it is read before day D opens
StoreOf(s, D) ==
    LET bar(d) == IF bars[s][d] = Absent THEN Absent ELSE bars[s][d] @@ [day |-> d]
        summary(d) == IF bars[s][d] = Absent THEN Absent
                      ELSE IF bars[s][d].broker = Absent THEN Absent
                      ELSE [book |-> bars[s][d].broker, stamp |-> d]
    IN [ tape |-> SubSeq([d \in Days |-> bar(d)], 1, D - 1),
         flows |-> SubSeq([d \in Days |-> summary(d)], 1, D - 1),
         ksei |-> {} ]

\* compute_features, the two features an estimable pattern asks for
Predicate(p, s, D) ==
    LET db == StoreOf(s, D)
        F == D - 1
    IN IF p = "dominant-broker-flip" THEN BuyerFlipped(Snapshot(db, F))
       ELSE "BEARISH_DIVERGENCE" \in DecayFlags(db, F, Classify(BarsAt(db, F)))

-----------------------------------------------------------------------------
\* The scan

LatestBarDate == Max({0} \union {d \in Days : \E s \in Symbols : bars[s][d] # Absent})

\* the names of the day's universe on a pattern's track
OnTrack(p, D) == {s \in Passing(D) : ResolveTrack(s, D, Seen(s, D)) = TrackOf(p)}

\* the days p flags s: a flag holds off the next until its longest horizon is over
FlagDays(p, s) ==
    LET flagged[d \in 1..LatestBarDate] ==
          /\ s \in OnTrack(p, d) /\ Predicate(p, s, d)
          /\ \A e \in 1..(d - 1) : d - e < Max(Horizons) => ~flagged[e]
    IN {d \in 1..LatestBarDate : flagged[d]}

WindowFor(d) == IF d >= CATALOG_HOLDOUT_START THEN "OOS" ELSE "EST"

Key(i) == <<i.pattern, i.symbol, i.flag, i.horizon>>
Upsert(table, rows) == {i \in table : \A r \in rows : Key(r) # Key(i)} \union rows

-----------------------------------------------------------------------------
\* The outcome of a flag, from the bars of its name

Prices(s) == {d \in Traded(s, Seen(s, MaxDay + 1)) : Close(s, d) \notin {Absent, 0}}
EntryPrice(s, flag) == Close(s, Max({d \in Prices(s) : d < flag}))
Forward(s, flag, h) ==
    LET after == {d \in Prices(s) : d >= flag}
    IN {d \in after : Cardinality({e \in after : e < d}) < h}
\* from the entry's day to the last of the horizon
Spanned(s, flag, h, d) == (\E e \in Forward(s, flag, h) : d <= e) /\ \A e \in Prices(s) : e < flag => e < d

\* a slip of OutcomeOf: a window still filling is a miss already
OutcomeOf_Early(s, flag, h) ==
    IF {d \in Prices(s) : d < flag} = {} THEN "OPEN"
    ELSE IF \E d \in Forward(s, flag, h) : Reached(Close(s, d), EntryPrice(s, flag)) THEN "HIT"
    ELSE IF Forward(s, flag, h) # {} THEN "MISS"
    ELSE IF Max(Traded(s, Seen(s, MaxDay + 1))) < LatestBarDate THEN "TERMINAL_DELIST" ELSE "OPEN"

OutcomeOf(s, flag, h) ==
    IF {d \in Prices(s) : d < flag} = {} THEN "OPEN"
    ELSE IF \E d \in Forward(s, flag, h) : Reached(Close(s, d), EntryPrice(s, flag)) THEN "HIT"
    ELSE IF Cardinality(Forward(s, flag, h)) >= h THEN "MISS"
    \* a name that stopped while the market went on
    ELSE IF Max(Traded(s, Seen(s, MaxDay + 1))) < LatestBarDate THEN "TERMINAL_DELIST" ELSE "OPEN"

\* a name that stopped fell, for a pattern that expects a fall
IsHit(outcome) == outcome \in {"HIT", "TERMINAL_DELIST"}

-----------------------------------------------------------------------------
\* The estimate, which counts the resolved instances of a pattern by horizon and window

Counted(p, h, window) ==
    {i \in instances : i.pattern = p /\ i.horizon = h /\ i.window = window /\ i.outcome # "OPEN"}

\* the null: every name on the track, on every day of the estimation window
Unconditional(p, h) ==
    LET flags == UNION {{<<s, d>> : s \in OnTrack(p, d)} : d \in 1..Min({LatestBarDate, CATALOG_HOLDOUT_START - 1})}
        closed == {f \in flags : OutcomeOf(f[1], f[2], h) # "OPEN"}
    IN [n |-> Cardinality(closed),
        hits |-> Cardinality({f \in closed : IsHit(OutcomeOf(f[1], f[2], h))})]

Hits(counted) == Cardinality({i \in counted : IsHit(i.outcome)})

\* the hit rate within each regime the market was in on the day of the flag
RegimeAt(d) == MarketRegime(MarketReturns(Passing(d), d), d)
Confounds(p) ==
    LET resolved == UNION {Counted(p, h, "EST") : h \in Horizons}
        stratum(r) == {i \in resolved : RegimeAt(i.flag) = r}
    IN [r \in {RegimeAt(i.flag) : i \in resolved} |-> [n |-> Cardinality(stratum(r)), hits |-> Hits(stratum(r))]]

Results(p) ==
    [horizons |-> [h \in Horizons |->
                     [est |-> Counted(p, h, "EST"), oos |-> Counted(p, h, "OOS"), null |-> Unconditional(p, h)]],
     confounds |-> Confounds(p)]

\* the rate out of sample is below the 90% Wilson interval of the estimate (z^2 = 2.706)
DecayFlag(r) ==
    LET n == Cardinality(r.est)
        m == Cardinality(r.oos)
        gap == Hits(r.est) * m - Hits(r.oos) * n
    IN m > 0 /\ gap > 0 /\ 1000 * gap * gap > 2706 * n * Hits(r.oos) * (m - Hits(r.oos))

\* _validate_results_json: a rate is stored only beside its null
Storable(results) ==
    \A h \in Horizons : results.horizons[h].est # {} => results.horizons[h].null.n > 0

Promoted == {"ESTIMATED", "OOS_CHECKED"}

\* what a card shows of one horizon
RateCell(r) ==
    IF r.est = {} THEN "no instances"
    ELSE IF Cardinality(r.est) < CATALOG_MIN_N THEN "interval" ELSE "rate and interval"

Cards ==
    {[pattern |-> p, status |-> catalog[p].status,
      rows |-> {[horizon |-> h, rate |-> RateCell(results.horizons[h]),
                 null |-> results.horizons[h].null.n > 0, decay |-> DecayFlag(results.horizons[h])]
                  : results \in catalog[p].results, h \in Horizons}]
       : p \in {q \in SEED_PATTERNS : catalog[q] # Absent}}

-----------------------------------------------------------------------------
Idle == [step |-> "idle", of |-> 0]
Running(step) == accrual.step = step
Subject == ESTIMABLE[accrual.of]

CatalogInit ==
    /\ PitInit
    /\ instances = {} /\ catalog = [p \in SEED_PATTERNS |-> Absent] /\ accrual = Idle /\ moved = {}

\* seed_catalog leaves a promoted entry alone
Seed ==
    catalog' = [p \in SEED_PATTERNS |->
                  IF catalog[p] # Absent /\ catalog[p].status \in Promoted THEN catalog[p]
                  ELSE [status |-> "DEFINED", results |-> {}]]

\* the first visit of the catalog page seeds an empty one
OpenCatalog ==
    /\ Running("idle") /\ \A p \in SEED_PATTERNS : catalog[p] = Absent
    /\ Seed
    /\ UNCHANGED <<pitVars, instances, accrual, moved>>

SeedAndStart ==
    /\ Running("idle")
    /\ Seed
    /\ accrual' = IF LatestBarDate = 0 THEN Idle ELSE [step |-> "scan", of |-> 1]
    /\ UNCHANGED <<pitVars, instances, moved>>

\* every flag of the window is written OPEN, over what an earlier month resolved
ScanPattern ==
    /\ Running("scan")
    /\ instances' = Upsert(instances,
                           UNION {{[pattern |-> Subject, symbol |-> s, flag |-> d, horizon |-> h,
                                    outcome |-> "OPEN", window |-> WindowFor(d)]
                                     : d \in FlagDays(Subject, s), h \in Horizons} : s \in Symbols})
    /\ accrual' = [accrual EXCEPT !.step = "resolve"]
    /\ UNCHANGED <<pitVars, catalog, moved>>

ResolveOpen ==
    /\ Running("resolve")
    /\ instances' = Upsert(instances,
                           {[i EXCEPT !.outcome = OutcomeOf(i.symbol, i.flag, i.horizon)]
                              : i \in {j \in instances : j.pattern = Subject /\ j.outcome = "OPEN"}})
    /\ accrual' = [accrual EXCEPT !.step = "estimate"]
    /\ UNCHANGED <<pitVars, catalog, moved>>

\* estimate upserts the row; results that cannot be stored raise, and end the job
StatusOf(results) == IF \E h \in Horizons : results.horizons[h].oos # {} THEN "OOS_CHECKED" ELSE "ESTIMATED"
Estimate ==
    /\ Running("estimate")
    /\ \E results \in {Results(Subject)} :
          \/ /\ Storable(results)
             /\ catalog' = [catalog EXCEPT ![Subject] =
                              [status |-> StatusOf(results), results |-> {results}]]
             /\ accrual' = IF accrual.of = Len(ESTIMABLE) THEN Idle ELSE [step |-> "scan", of |-> accrual.of + 1]
          \/ ~Storable(results) /\ accrual' = Idle /\ UNCHANGED catalog
    /\ UNCHANGED <<pitVars, instances, moved>>

\* the daemon is killed between two transactions
KillAccrual ==
    /\ accrual # Idle /\ accrual' = Idle
    /\ UNCHANGED <<pitVars, instances, catalog, moved>>

\* what is resolved, in the table or in the results of an estimate, on the bars of a window
Settled ==
    {i \in instances \union
           UNION {UNION {results.horizons[h].est \union results.horizons[h].oos
                           : results \in catalog[p].results, h \in Horizons}
                    : p \in {q \in SEED_PATTERNS : catalog[q] # Absent}} : i.outcome \in {"HIT", "MISS"}}

\* the store is written only while the job is not running: one process holds the file
StoreWritten ==
    /\ Running("idle") /\ PitNext
    /\ moved' = moved \union {Key(i) : i \in {j \in Settled :
                  \E d \in Prices(j.symbol)' \ Prices(j.symbol) : Spanned(j.symbol, j.flag, j.horizon, d)}}
    /\ UNCHANGED <<instances, catalog, accrual>>

CatalogNext ==
    \/ OpenCatalog
    \/ SeedAndStart
    \/ ScanPattern
    \/ ResolveOpen
    \/ Estimate
    \/ KillAccrual
    \/ StoreWritten

-----------------------------------------------------------------------------
CatalogTypeOK ==
    /\ accrual = Idle \/ accrual \in [step : {"scan", "resolve", "estimate"}, of : DOMAIN ESTIMABLE]
    /\ \A i, j \in instances : Key(i) = Key(j) => i = j
    /\ \A i \in instances : i.outcome \in {"OPEN", "HIT", "MISS", "TERMINAL_DELIST"} /\ i.window = WindowFor(i.flag)
    /\ \A card \in Cards : \A row \in card.rows : row.rate # "no instances" => row.null

(* What a rate has counted stays counted, but for one cause: an instance    *)
(* that a pattern's results count as a hit or a miss is counted the same in *)
(* all later results unless a price of its name has come late, between its  *)
(* entry and the end of its horizon.  Nothing else moves it: not the        *)
(* monthly rescan that reopens it, kills between scan, resolution and       *)
(* estimate, rosters loaded later, nor late bars and broker rows of other   *)
(* days, which may change what is flagged (accrual.py run_estimation,       *)
(* outcome.py resolve_instance: never forced to MISS).                      *)
Unmoved(counted) == {i \in counted : i.outcome # "TERMINAL_DELIST" /\ Key(i) \notin moved}
KeepsCounted ==
    \A p \in SEED_PATTERNS : catalog[p] # Absent /\ catalog'[p] # Absent =>
        \A was \in catalog[p].results : \E is \in catalog'[p].results : \A h \in Horizons :
            /\ Unmoved(was.horizons[h].est) \subseteq is.horizons[h].est
            /\ Unmoved(was.horizons[h].oos) \subseteq is.horizons[h].oos
=============================================================================
