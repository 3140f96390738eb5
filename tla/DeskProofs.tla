------------------------------ MODULE DeskProofs ------------------------------
(***************************************************************************)
(* The catalog and the weights, and the parts that run beside each other:  *)
(* what a rate of the catalog has counted stays counted as far as no late  *)
(* price has come into its windows; no fold is                             *)
(* trained on what its test shows, and the search for weights keeps their  *)
(* locked structure; a volume profile loses no volume and its value area   *)
(* is tight; and what the modules beside this one prove of a component     *)
(* holds of the terminal it is a part of.                                  *)
(***************************************************************************)
EXTENDS ExodusAccessProofs, SignalProofs, MarketProofs

-----------------------------------------------------------------------------
(* The catalog: what settles an instance                                    *)

\* no bar lies ahead of the day
BarsSoFar == \A s \in Symbols, d \in Days : bars[s][d] # Absent => d <= today

LEMMA BarsStep == PitInv /\ BarsSoFar /\ [PitNext]_pitVars => BarsSoFar'
<1> SUFFICES ASSUME PitInv, BarsSoFar, [PitNext]_pitVars PROVE BarsSoFar'
    OBVIOUS
<1>1. CASE CloseDay
  <2>1. PICK b \in [Symbols -> AnyBar] :
          bars' = [s \in Symbols |-> [bars[s] EXCEPT ![today + 1] = b[s]]]
    BY <1>1 DEF CloseDay, AnyBar
  <2>2. bars \in [Symbols -> [Days -> AnyBar]] /\ today \in Nat /\ today' = today + 1
    BY <1>1, PointInTimeAssumption DEF PitInv, PitTypeOK, CloseDay
  <2>3. ASSUME NEW s \in Symbols, NEW d \in Days, bars'[s][d] # Absent PROVE d <= today'
    <3>1. d = today + 1 \/ bars[s][d] # Absent
      BY <2>1, <2>2, <2>3
    <3> QED
      BY <2>2, <2>3, <3>1, DayTypes DEF BarsSoFar
  <2> QED
    BY <2>3 DEF BarsSoFar
<1>2. CASE bars' = bars /\ today' = today
    BY <1>2 DEF BarsSoFar
<1>3. ASSUME NEW s \in Symbols, NEW e \in Days, NEW q \in Quotes[s], StoreLate(s, e, q) PROVE BarsSoFar'
  <2>1. bars' = [bars EXCEPT ![s][e] = q] /\ today' = today /\ e <= today
    BY <1>3, PointInTimeAssumption DEF StoreLate, PitInv, PitTypeOK
  <2>2. bars \in [Symbols -> [Days -> AnyBar]]
    BY DEF PitInv
  <2>3. \A t \in Symbols, d \in Days : bars'[t][d] = bars[t][d] \/ d = e
    BY <2>1, <2>2
  <2> QED
    BY <2>1, <2>3 DEF BarsSoFar
<1> QED
    BY <1>1, <1>2, <1>3 DEF PitNext, Transcribe, LoadListings, LoadRosters, pitVars

\* a step may add prices, of the next day or late ones, and changes none
LEMMA PricesGrow ==
    ASSUME PitInv, BarsSoFar, [PitNext]_pitVars, NEW s \in Symbols
    PROVE  /\ Prices(s) \subseteq Prices(s)' /\ Prices(s)' \subseteq Days
           /\ \A d \in Prices(s) : Close(s, d)' = Close(s, d)
<1>0. bars \in [Symbols -> [Days -> AnyBar]] /\ today \in Nat
    BY PointInTimeAssumption DEF PitInv, PitTypeOK
<1>1. /\ Prices(s) = {d \in Days : d < MaxDay + 1 /\ bars[s][d] # Absent /\ bars[s][d].traded
                                     /\ bars[s][d].close \notin {Absent, 0}}
      /\ Prices(s)' = {d \in Days : d < MaxDay + 1 /\ bars'[s][d] # Absent /\ bars'[s][d].traded
                                     /\ bars'[s][d].close \notin {Absent, 0}}
    BY DEF Prices, Traded, Seen, Close
<1> DEFINE Same(d) == /\ bars'[s][d] # Absent /\ bars'[s][d].traded = bars[s][d].traded
                      /\ bars'[s][d].close = bars[s][d].close
<1>2. ASSUME NEW d \in Days, bars[s][d] # Absent PROVE Same(d)
  <2>1. CASE CloseDay
    <3>1. PICK b \in [Symbols -> AnyBar] :
            bars' = [q \in Symbols |-> [bars[q] EXCEPT ![today + 1] = b[q]]]
      BY <2>1 DEF CloseDay, AnyBar
    <3>2. d <= today /\ d \in Nat
      BY <1>2, DayTypes DEF BarsSoFar
    <3>3. d # today + 1
      BY <1>0, <3>2
    <3>4. bars'[s][d] = bars[s][d]
      BY <1>0, <3>1, <3>3
    <3> QED
      BY <1>2, <3>4
  <2>2. ASSUME NEW t \in Symbols, NEW e \in Days, NEW q \in Quotes[t], StoreLate(t, e, q) PROVE Same(d)
    <3>1. bars' = [bars EXCEPT ![t][e] = q] /\ bars[t][e] \in {Absent, [q EXCEPT !.broker = Absent]}
      BY <2>2 DEF StoreLate
    <3>2. CASE t = s /\ e = d
      <4>1. q # Absent /\ {"traded", "close"} \subseteq DOMAIN q
        BY PointInTimeAssumption
      <4>2. [q EXCEPT !.broker = Absent].traded = q.traded /\ [q EXCEPT !.broker = Absent].close = q.close
        BY <4>1
      <4>3. bars[s][d] = [q EXCEPT !.broker = Absent]
        BY <1>2, <3>1, <3>2
      <4>4. bars'[s][d] = q
        BY <1>0, <3>1, <3>2
      <4> QED
        BY <4>1, <4>2, <4>3, <4>4
    <3>3. CASE ~(t = s /\ e = d)
      <4>1. bars'[s][d] = bars[s][d]
        BY <1>0, <3>1, <3>3
      <4> QED
        BY <1>2, <4>1
    <3> QED
      BY <3>2, <3>3
  <2>3. CASE bars' = bars
    BY <1>2, <2>3
  <2> QED
    BY <2>1, <2>2, <2>3 DEF PitNext, Transcribe, LoadListings, LoadRosters, pitVars
<1>3. \A d \in Prices(s) : d \in Days /\ bars[s][d] # Absent
    BY <1>1
<1>4. Prices(s) \subseteq Prices(s)'
    BY <1>1, <1>2, <1>3
<1>5. \A d \in Prices(s) : Close(s, d)' = Close(s, d)
    BY <1>2, <1>3 DEF Close
<1> QED
    BY <1>1, <1>4, <1>5

LEMMA LastDay == ASSUME NEW S \in SUBSET Days, S # {} PROVE Max(S) \in S /\ \A d \in S : d <= Max(S)
<1>1. S \in SUBSET Int /\ MaxDay \in Int /\ \A d \in S : d <= MaxDay
    BY DayTypes
<1> QED
    BY <1>1, MaxOfBounded

\* a hit or a miss stays one while no price comes between its entry and its last day
LEMMA SettledStays ==
    ASSUME PitInv, BarsSoFar, [PitNext]_pitVars,
           NEW s \in Symbols, NEW flag \in Nat, NEW h \in Horizons,
           OutcomeOf(s, flag, h) \in {"HIT", "MISS"},
           \A d \in Prices(s)' \ Prices(s) : ~Spanned(s, flag, h, d)
    PROVE  OutcomeOf(s, flag, h)' = OutcomeOf(s, flag, h)
<1> SUFFICES ASSUME NEW P, P = Prices(s), NEW Q, Q = Prices(s)'
             PROVE  OutcomeOf(s, flag, h)' = OutcomeOf(s, flag, h)
    OBVIOUS
<1>1. /\ Q \subseteq Days /\ Q \subseteq Nat /\ P \subseteq Q /\ h \in Nat \ {0}
      /\ \A d \in P : Close(s, d)' = Close(s, d)
    BY PricesGrow, DayTypes, CatalogAssumption
<1> DEFINE early == {d \in P : d < flag}
           late == {d \in Q : d < flag}
           B == {d \in P : d >= flag}
           C == {d \in Q : d >= flag}
           F == {d \in B : Cardinality({e \in B : e < d}) < h}
           G == {d \in C : Cardinality({e \in C : e < d}) < h}
<1>2. F = Forward(s, flag, h)
    BY DEF Forward
<1> SUFFICES ASSUME NEW m, m = Max(early), NEW k, k = Max(late)
             PROVE  OutcomeOf(s, flag, h)' = OutcomeOf(s, flag, h)
    OBVIOUS
<1>3. /\ OutcomeOf(s, flag, h) = "HIT" <=> early # {} /\ \E d \in F : Reached(Close(s, d), Close(s, m))
      /\ OutcomeOf(s, flag, h) = "MISS"
           <=> early # {} /\ ~(\E d \in F : Reached(Close(s, d), Close(s, m))) /\ Cardinality(F) >= h
    BY DEF OutcomeOf, Forward, EntryPrice
<1>4. /\ OutcomeOf(s, flag, h)' = "HIT" <=> late # {} /\ \E d \in G : Reached(Close(s, d)', Close(s, k)')
      /\ OutcomeOf(s, flag, h)' = "MISS"
           <=> late # {} /\ ~(\E d \in G : Reached(Close(s, d)', Close(s, k)')) /\ Cardinality(G) >= h
    BY DEF OutcomeOf, Forward, EntryPrice
<1>5. early # {} /\ F # {}
  <2>1. Cardinality(F) >= h => F # {}
    <3>1. Cardinality({}) = 0
      BY FS_EmptySet
    <3> HIDE DEF F
    <3> QED
      BY <1>1, <3>1
  <2> HIDE DEF F, early
  <2> QED
    BY <1>3, <2>1
<1>6. ASSUME NEW d \in Q, d \notin P
      PROVE  (\A e \in F : e < d) \/ \E e \in early : d <= e
  <2>1. (\A e \in F : ~(d <= e)) \/ \E e \in P : e < flag /\ ~(e < d)
    BY <1>2, <1>6 DEF Spanned
  <2>2. d \in Nat /\ P \subseteq Nat /\ F \subseteq P
    BY <1>1
  <2> QED
    BY <2>1, <2>2
<1>7. m \in early /\ \A d \in early : d <= m
  <2>1. early \in SUBSET Days
    BY <1>1
  <2> QED
    BY <1>5, <2>1, LastDay
<1>8. early \subseteq late /\ \A d \in late : d <= m
  <2>1. ASSUME NEW d \in late, d \notin P PROVE d <= m
    <3>1. PICK f \in F : f >= flag /\ f \in Nat /\ d \in Nat /\ d < flag
      BY <1>1, <1>5, <2>1
    <3>2. ~(f < d)
      BY <3>1
    <3>3. PICK e \in early : d <= e
      BY <1>6, <2>1, <3>1, <3>2
    <3>4. e <= m /\ e \in Nat /\ m \in Nat
      BY <1>1, <1>7
    <3> QED
      BY <3>1, <3>3, <3>4
  <2> QED
    BY <1>1, <1>7, <2>1
<1>9. k = m
  <2>1. late \in SUBSET Days /\ late # {} /\ m \in late /\ m \in Nat
    BY <1>1, <1>7, <1>8
  <2>2. k \in late /\ \A d \in late : d <= k
    BY <2>1, LastDay
  <2>3. k \in Nat
    BY <1>1, <2>2
  <2> QED
    BY <1>8, <2>1, <2>2, <2>3
<1>10. Close(s, k)' = Close(s, m)
    BY <1>1, <1>7, <1>9
<1>11. B \subseteq C /\ F \subseteq B /\ C \subseteq Nat /\ \A d \in C : d \in B \/ \A e \in F : e < d
  <2>1. ASSUME NEW d \in C, d \notin B PROVE \A e \in F : e < d
    <3>1. d \in Q /\ d \notin P /\ d \in Nat /\ d >= flag
      BY <1>1, <2>1
    <3>2. \A e \in early : e \in Nat /\ ~(d <= e)
      BY <1>1, <3>1
    <3> QED
      BY <1>6, <3>1, <3>2
  <2> QED
    BY <1>1, <2>1
<1>12. IsFiniteSet(C)
  <2>1. C \in SUBSET (0..MaxDay) /\ MaxDay \in Nat
    BY <1>1, DayTypes
  <2>2. IsFiniteSet(0..MaxDay)
    BY <2>1, FS_Interval
  <2> HIDE DEF C
  <2> QED
    BY <2>1, <2>2, FS_Subset
<1>13. F \subseteq G /\ \A d \in F : Close(s, d)' = Close(s, d)
  <2>1. ASSUME NEW d \in F PROVE {e \in C : e < d} = {e \in B : e < d}
    <3>1. ASSUME NEW e \in C, e < d PROVE e \in B
      <4>1. e \in Nat /\ d \in Nat /\ ~(d < e)
        BY <1>11, <3>1
      <4> QED
        BY <1>11, <4>1
    <3> QED
      BY <1>11, <3>1
  <2>2. ASSUME NEW d \in F PROVE d \in G
    <3>1. d \in C /\ Cardinality({e \in B : e < d}) < h
      BY <1>11
    <3> QED
      BY <2>1, <3>1
  <2> QED
    BY <1>1, <1>11, <2>2
<1>14. ASSUME Cardinality(F) >= h PROVE G = F
  <2>1. ASSUME NEW d \in G, d \in B PROVE d \in F
    <3>1. {e \in B : e < d} \subseteq {e \in C : e < d} /\ {e \in C : e < d} \subseteq C
      BY <1>11
    <3>2. /\ Cardinality({e \in B : e < d}) \in Nat /\ Cardinality({e \in C : e < d}) \in Nat
          /\ Cardinality({e \in B : e < d}) <= Cardinality({e \in C : e < d})
      BY <1>12, <3>1, FS_Subset, FS_CardinalityType
    <3> QED
      BY <1>1, <2>1, <3>2
  <2>2. ASSUME NEW d \in G, d \notin B PROVE FALSE
    <3>1. d \in C /\ Cardinality({e \in C : e < d}) < h
      OBVIOUS
    <3>2. \A e \in F : e \in C /\ e < d
      BY <1>11, <2>2, <3>1
    <3>3. F \subseteq {e \in C : e < d} /\ {e \in C : e < d} \subseteq C
      BY <3>2
    <3>4. /\ Cardinality(F) \in Nat /\ Cardinality({e \in C : e < d}) \in Nat
          /\ Cardinality(F) <= Cardinality({e \in C : e < d})
      <4> HIDE DEF F
      <4> QED
        BY <1>12, <3>3, FS_Subset, FS_CardinalityType
    <3> QED
      BY <1>1, <1>14, <3>1, <3>4
  <2> QED
    BY <1>13, <2>1, <2>2
<1>15. late # {}
    BY <1>7, <1>8
<1> HIDE DEF early, late, F, G
<1>16. CASE OutcomeOf(s, flag, h) = "HIT"
    BY <1>3, <1>4, <1>10, <1>13, <1>15, <1>16
<1>17. CASE OutcomeOf(s, flag, h) = "MISS"
    BY <1>3, <1>4, <1>10, <1>13, <1>14, <1>15, <1>17
<1> QED
    BY <1>16, <1>17

-----------------------------------------------------------------------------
(* The catalog: what was counted stays in the table, or waits to be resolved *)

Outcomes == {"OPEN", "HIT", "MISS", "TERMINAL_DELIST"}
Instances ==
    [pattern : SEED_PATTERNS, symbol : Symbols, flag : Nat, horizon : Horizons,
     outcome : Outcomes, window : {"EST", "OOS"}]

\* a row of the table: a hit or a miss is what the bars say, unless a late price moved it
Sound(i) ==
    /\ i \in Instances /\ i.window = WindowFor(i.flag)
    /\ i.outcome \in {"HIT", "MISS"} /\ Key(i) \notin moved => OutcomeOf(i.symbol, i.flag, i.horizon) = i.outcome

Reopened(i) == [i EXCEPT !.outcome = "OPEN"]

\* a counted row is in the table, or a rescan reopened it and the resolution is to come
StaysCounted(i) ==
    \/ i \in instances
    \/ Reopened(i) \in instances /\ ~(Running("estimate") /\ Subject = i.pattern)

RightlyCounted(i, p, h, window) ==
    /\ Sound(i) /\ i.pattern = p /\ i.horizon = h /\ i.window = window /\ i.outcome # "OPEN"
    /\ i.outcome # "TERMINAL_DELIST" /\ Key(i) \notin moved => StaysCounted(i)

JobKnown == accrual = Idle \/ accrual \in [step : {"scan", "resolve", "estimate"}, of : DOMAIN ESTIMABLE]

\* an entry with results is promoted, so a later seeding leaves it alone
EntryStands(p, entry) ==
    entry # Absent => \A r \in entry.results :
        /\ entry.status \in Promoted
        /\ \A h \in Horizons : /\ \A i \in r.horizons[h].est : RightlyCounted(i, p, h, "EST")
                               /\ \A i \in r.horizons[h].oos : RightlyCounted(i, p, h, "OOS")

CatalogInv ==
    /\ PitInv /\ BarsSoFar
    /\ \A i \in instances : Sound(i)
    /\ JobKnown /\ DOMAIN catalog = SEED_PATTERNS
    /\ \A p \in SEED_PATTERNS : EntryStands(p, catalog[p])

LEMMA OutcomeKnown == ASSUME NEW s, NEW flag, NEW h PROVE OutcomeOf(s, flag, h) \in Outcomes
BY DEF OutcomeOf, Outcomes

LEMMA WindowKnown == ASSUME NEW d PROVE WindowFor(d) \in {"EST", "OOS"}
BY DEF WindowFor

LEMMA JobSubject == JobKnown /\ ~Running("idle") => Subject \in SEED_PATTERNS
<1> SUFFICES ASSUME JobKnown, ~Running("idle") PROVE Subject \in SEED_PATTERNS
    OBVIOUS
<1>1. accrual.of \in DOMAIN ESTIMABLE
    BY DEF JobKnown, Running, Idle
<1> QED
    BY <1>1 DEF Subject, SEED_PATTERNS, Range

LEMMA LatestBehind == PitInv /\ BarsSoFar => LatestBarDate \in Nat /\ LatestBarDate <= today
<1> SUFFICES ASSUME PitInv, BarsSoFar PROVE LatestBarDate \in Nat /\ LatestBarDate <= today
    OBVIOUS
<1> DEFINE S == {0} \union {d \in Days : \E s \in Symbols : bars[s][d] # Absent}
<1>1. today \in Nat
    BY PointInTimeAssumption DEF PitInv, PitTypeOK
<1>2. S \in SUBSET Int /\ S # {} /\ \A d \in S : d \in Nat /\ d <= today
  <2>1. ASSUME NEW d \in Days, \E s \in Symbols : bars[s][d] # Absent PROVE d \in Nat /\ d <= today
    BY <2>1, DayTypes DEF BarsSoFar
  <2>2. 0 \in Nat /\ 0 <= today
    BY <1>1
  <2>3. \A d \in S : d \in Nat /\ d <= today
    BY <2>1, <2>2
  <2>4. 0 \in S /\ \A d \in S : d \in Int
    BY <2>3
  <2> HIDE DEF S
  <2> QED
    BY <2>3, <2>4
<1>3. LatestBarDate = Max(S)
    BY DEF LatestBarDate
<1> HIDE DEF S
<1>4. Max(S) \in S
  <2>1. today \in Int
    BY <1>1
  <2> QED
    BY <1>2, <2>1, MaxOfBounded
<1> QED
    BY <1>2, <1>3, <1>4

\* the outcome is read off the bars alone
LEMMA BarsSettle ==
    ASSUME bars' = bars, NEW s, NEW flag, NEW h
    PROVE  OutcomeOf(s, flag, h)' = OutcomeOf(s, flag, h)
BY DEF OutcomeOf, Forward, EntryPrice, Prices, Traded, Seen, Close, LatestBarDate

\* a sound row stays sound as the store is written: what has moved it is noted
LEMMA SoundStays ==
    ASSUME PitInv, BarsSoFar, StoreWritten, NEW i, Sound(i), i.outcome \in {"HIT", "MISS"} => i \in Settled
    PROVE  Sound(i)'
<1>1. i \in Instances /\ i.window = WindowFor(i.flag)
    BY DEF Sound
<1>2. ASSUME i.outcome \in {"HIT", "MISS"}, Key(i) \notin moved'
      PROVE  OutcomeOf(i.symbol, i.flag, i.horizon)' = i.outcome
  <2>1. Key(i) \notin moved /\ \A d \in Prices(i.symbol)' \ Prices(i.symbol) :
            ~Spanned(i.symbol, i.flag, i.horizon, d)
    BY <1>2 DEF StoreWritten
  <2>2. /\ OutcomeOf(i.symbol, i.flag, i.horizon) = i.outcome
        /\ i.symbol \in Symbols /\ i.flag \in Nat /\ i.horizon \in Horizons
    BY <1>1, <1>2, <2>1 DEF Sound, Instances
  <2> QED
    BY <1>2, <2>1, <2>2, SettledStays DEF StoreWritten
<1> QED
    BY <1>1, <1>2 DEF Sound

LEMMA SoundKept == ASSUME UNCHANGED <<pitVars, moved>>, NEW i PROVE Sound(i)' = Sound(i)
BY BarsSettle DEF pitVars, Sound

LEMMA CatalogStart == CatalogInit => CatalogInv
<1> SUFFICES ASSUME CatalogInit PROVE CatalogInv
    OBVIOUS
<1>1. PitInv
    BY PitStart DEF CatalogInit
<1>2. BarsSoFar
    BY DEF CatalogInit, PitInit, BarsSoFar
<1>3. (\A i \in instances : Sound(i)) /\ JobKnown /\ DOMAIN catalog = SEED_PATTERNS
    BY DEF CatalogInit, JobKnown
<1>4. \A p \in SEED_PATTERNS : EntryStands(p, catalog[p])
    BY DEF CatalogInit, EntryStands
<1> QED
    BY <1>1, <1>2, <1>3, <1>4 DEF CatalogInv

LEMMA RowEqual ==
    ASSUME NEW i \in Instances, NEW j \in Instances,
           Key(i) = Key(j), i.outcome = j.outcome, i.window = j.window
    PROVE  i = j
BY DEF Key, Instances

LEMMA ReopenedRow ==
    ASSUME NEW i \in Instances
    PROVE  Reopened(i) \in Instances /\ Key(Reopened(i)) = Key(i)
           /\ Reopened(i).outcome = "OPEN" /\ Reopened(i).window = i.window
BY DEF Key, Instances, Reopened, Outcomes

LEMMA Upserted ==
    ASSUME NEW table, NEW rows
    PROVE  /\ rows \subseteq Upsert(table, rows) /\ Upsert(table, rows) \subseteq table \union rows
           /\ \A i \in table : i \in Upsert(table, rows) \/ \E r \in rows : Key(r) = Key(i)
BY DEF Upsert

\* the rows a scan writes: open, of days behind
LEMMA ScanRows ==
    ASSUME CatalogInv, ScanPattern
    PROVE  \E rows : /\ instances' = Upsert(instances, rows)
                     /\ \A r \in rows : Sound(r) /\ r.outcome = "OPEN"
<1> DEFINE Row(s, d, h) == [pattern |-> Subject, symbol |-> s, flag |-> d, horizon |-> h,
                            outcome |-> "OPEN", window |-> WindowFor(d)]
           R == UNION {{Row(s, d, h) : d \in FlagDays(Subject, s), h \in Horizons} : s \in Symbols}
<1>1. instances' = Upsert(instances, R)
    BY DEF ScanPattern
<1>2. Subject \in SEED_PATTERNS
    BY JobSubject DEF CatalogInv, ScanPattern, Running
<1>3. LatestBarDate \in Nat /\ LatestBarDate <= today /\ today \in Nat
    BY LatestBehind, PointInTimeAssumption DEF CatalogInv, PitInv, PitTypeOK
<1>4. ASSUME NEW s \in Symbols, NEW d \in FlagDays(Subject, s), NEW h \in Horizons
      PROVE  Sound(Row(s, d, h)) /\ Row(s, d, h).outcome = "OPEN"
  <2>1. d \in 1..LatestBarDate
    BY DEF FlagDays
  <2>2. d \in Nat
    BY <1>3, <2>1
  <2> QED
    BY <1>2, <2>2, WindowKnown DEF Sound, Instances, Outcomes
<1>5. \A r \in R : Sound(r) /\ r.outcome = "OPEN"
  <2> HIDE DEF Row
  <2> QED
    BY <1>4
<1> QED
    BY <1>1, <1>5

\* a rescan reopens the rows it finds again, and drops none
LEMMA ScanReopens ==
    ASSUME CatalogInv, ScanPattern, NEW i \in Instances, i.window = WindowFor(i.flag), StaysCounted(i)
    PROVE  StaysCounted(i)'
<1>1. PICK rows : /\ instances' = Upsert(instances, rows)
                  /\ \A r \in rows : Sound(r) /\ r.outcome = "OPEN"
    BY ScanRows
<1>2. ASSUME NEW r \in rows, Key(r) = Key(i) PROVE r = Reopened(i)
  <2>1. r \in Instances /\ r.window = WindowFor(r.flag) /\ r.outcome = "OPEN" /\ r.flag = i.flag
    BY <1>1, <1>2 DEF Sound, Key
  <2> QED
    BY <1>2, <2>1, ReopenedRow, RowEqual
<1>3. i \in instances' \/ Reopened(i) \in instances'
  <2>1. \A j \in {i, Reopened(i)} : j \in instances =>
          j \in instances' \/ \E r \in rows : Key(r) = Key(i) /\ r \in instances'
    BY <1>1, Upserted, ReopenedRow
  <2> QED
    BY <1>2, <2>1 DEF StaysCounted
<1>4. accrual'.step = "resolve"
    BY DEF CatalogInv, JobKnown, ScanPattern, Running, Idle
<1> QED
    BY <1>3, <1>4 DEF StaysCounted, Running

\* the rows a resolution writes
LEMMA ResolvedRows ==
    ASSUME CatalogInv, ResolveOpen
    PROVE  \E rows : /\ instances' = Upsert(instances, rows)
                     /\ \A r \in rows : Sound(r) /\ r.pattern = Subject
                     /\ \A j \in instances : j.pattern = Subject /\ j.outcome = "OPEN" =>
                           [j EXCEPT !.outcome = OutcomeOf(j.symbol, j.flag, j.horizon)] \in rows
                     /\ \A r \in rows : r.outcome = OutcomeOf(r.symbol, r.flag, r.horizon)
<1> DEFINE Row(j) == [j EXCEPT !.outcome = OutcomeOf(j.symbol, j.flag, j.horizon)]
           R == {Row(j) : j \in {k \in instances : k.pattern = Subject /\ k.outcome = "OPEN"}}
<1>1. instances' = Upsert(instances, R)
    BY DEF ResolveOpen
<1>2. ASSUME NEW j \in instances, j.pattern = Subject
      PROVE  Sound(Row(j)) /\ Row(j).pattern = Subject
             /\ Row(j).outcome = OutcomeOf(Row(j).symbol, Row(j).flag, Row(j).horizon)
    BY <1>2, OutcomeKnown DEF CatalogInv, Sound, Instances
<1>3. \A r \in R : Sound(r) /\ r.pattern = Subject /\ r.outcome = OutcomeOf(r.symbol, r.flag, r.horizon)
  <2> HIDE DEF Row
  <2> QED
    BY <1>2
<1>4. \A j \in instances : j.pattern = Subject /\ j.outcome = "OPEN" => Row(j) \in R
    OBVIOUS
<1> HIDE DEF R
<1> QED
    BY <1>1, <1>3, <1>4

\* what a rescan reopened, the resolution finds as it was
LEMMA ResolveRestores ==
    ASSUME CatalogInv, ResolveOpen, NEW i, Sound(i), i.outcome \in {"HIT", "MISS"}, Key(i) \notin moved,
           StaysCounted(i)
    PROVE  StaysCounted(i)'
<1>1. PICK rows : /\ instances' = Upsert(instances, rows)
                  /\ \A r \in rows : Sound(r) /\ r.pattern = Subject
                  /\ \A j \in instances : j.pattern = Subject /\ j.outcome = "OPEN" =>
                        [j EXCEPT !.outcome = OutcomeOf(j.symbol, j.flag, j.horizon)] \in rows
                  /\ \A r \in rows : r.outcome = OutcomeOf(r.symbol, r.flag, r.horizon)
    BY ResolvedRows
<1>2. i \in Instances /\ i.window = WindowFor(i.flag) /\ OutcomeOf(i.symbol, i.flag, i.horizon) = i.outcome
    BY DEF Sound
<1>3. ASSUME NEW r \in rows, Key(r) = Key(i) PROVE r = i
  <2>1. r \in Instances /\ r.window = WindowFor(r.flag) /\ r.outcome = OutcomeOf(r.symbol, r.flag, r.horizon)
    BY <1>1 DEF Sound
  <2>2. r.symbol = i.symbol /\ r.flag = i.flag /\ r.horizon = i.horizon
    BY <1>3 DEF Key
  <2> QED
    BY <1>2, <1>3, <2>1, <2>2, RowEqual
<1>4. \A j \in {i, Reopened(i)} : j \in instances =>
        j \in instances' \/ \E r \in rows : Key(r) = Key(i) /\ r \in instances'
    BY <1>1, <1>2, Upserted, ReopenedRow
<1>5. CASE i \in instances'
    BY <1>5 DEF StaysCounted
<1>6. CASE i \notin instances'
  <2>1. Reopened(i) \in instances /\ Reopened(i) \in instances'
    BY <1>3, <1>4, <1>6 DEF StaysCounted
  <2>2. i.pattern # Subject
    <3>1. SUFFICES ASSUME i.pattern = Subject PROVE i \in rows
        BY <1>1, <1>6, Upserted
    <3>2. Reopened(i).pattern = Subject /\ Reopened(i).outcome = "OPEN"
        BY <1>2, <3>1 DEF Reopened, Instances
    <3>3. [Reopened(i) EXCEPT !.outcome = OutcomeOf(Reopened(i).symbol, Reopened(i).flag, Reopened(i).horizon)] = i
        BY <1>2 DEF Reopened, Instances
    <3> QED
        BY <1>1, <2>1, <3>2, <3>3
  <2>3. Subject' = Subject
    BY DEF CatalogInv, JobKnown, ResolveOpen, Running, Idle, Subject
  <2> QED
    BY <2>1, <2>2, <2>3 DEF StaysCounted
<1> QED
    BY <1>5, <1>6

\* a step of the job leaves the store alone; the store is written beside it
LEMMA StoreSteps ==
    [CatalogNext]_patternVars =>
        (UNCHANGED <<pitVars, moved>> \/ (StoreWritten /\ instances' = instances /\ catalog' = catalog))
<1>1. OpenCatalog \/ SeedAndStart \/ ScanPattern => UNCHANGED <<pitVars, moved>>
    BY DEF OpenCatalog, SeedAndStart, ScanPattern
<1>2. ResolveOpen \/ Estimate \/ KillAccrual => UNCHANGED <<pitVars, moved>>
    BY DEF ResolveOpen, Estimate, KillAccrual
<1>3. UNCHANGED patternVars => UNCHANGED <<pitVars, moved>>
    BY DEF patternVars, catalogVars
<1>4. StoreWritten => instances' = instances /\ catalog' = catalog
    BY DEF StoreWritten
<1> QED
    BY <1>1, <1>2, <1>3, <1>4 DEF CatalogNext

LEMMA StoreKept == [CatalogNext]_patternVars => [PitNext]_pitVars /\ moved \subseteq moved'
BY StoreSteps DEF StoreWritten

\* what the table holds, and what the results of an estimate count, is settled where it is not open
LEMMA SettledRows ==
    /\ \A i \in instances : i.outcome \in {"HIT", "MISS"} => i \in Settled
    /\ \A p \in SEED_PATTERNS : catalog[p] # Absent => \A r \in catalog[p].results, h \in Horizons :
          \A i \in r.horizons[h].est \union r.horizons[h].oos : i.outcome \in {"HIT", "MISS"} => i \in Settled
<1> DEFINE Counts(p) == UNION {results.horizons[h].est \union results.horizons[h].oos
                                 : results \in catalog[p].results, h \in Horizons}
           All == instances \union UNION {Counts(p) : p \in {q \in SEED_PATTERNS : catalog[q] # Absent}}
<1>1. Settled = {i \in All : i.outcome \in {"HIT", "MISS"}}
    BY DEF Settled
<1>2. ASSUME NEW p \in SEED_PATTERNS, catalog[p] # Absent, NEW r \in catalog[p].results, NEW h \in Horizons,
             NEW i \in r.horizons[h].est \union r.horizons[h].oos
      PROVE  i \in All
  <2> DEFINE counted == r.horizons[h].est \union r.horizons[h].oos
             sets == {results.horizons[g].est \union results.horizons[g].oos
                        : results \in catalog[p].results, g \in Horizons}
  <2>1. counted \in sets
    BY <1>2
  <2>2. i \in counted
    BY <1>2
  <2>3. Counts(p) = UNION sets
    OBVIOUS
  <2> HIDE DEF counted, sets, Counts
  <2>4. i \in Counts(p)
    BY <2>1, <2>2, <2>3
  <2> QED
    BY <1>2, <2>4
<1>3. instances \subseteq All
    OBVIOUS
<1> HIDE DEF All, Counts
<1>4. \A i \in All : i.outcome \in {"HIT", "MISS"} => i \in Settled
    BY <1>1
<1>5. \A i \in instances : i.outcome \in {"HIT", "MISS"} => i \in Settled
    BY <1>3, <1>4
<1>6. ASSUME NEW p \in SEED_PATTERNS, catalog[p] # Absent, NEW r \in catalog[p].results, NEW h \in Horizons,
             NEW i \in r.horizons[h].est \union r.horizons[h].oos, i.outcome \in {"HIT", "MISS"}
      PROVE  i \in Settled
    BY <1>2, <1>4, <1>6
<1> QED
    BY <1>5, <1>6

\* any row is sound after a step that was sound before, and settled if the store was written
LEMMA SoundStep ==
    ASSUME CatalogInv, [CatalogNext]_patternVars, NEW i, Sound(i), i.outcome \in {"HIT", "MISS"} => i \in Settled
    PROVE  Sound(i)'
<1>1. PitInv /\ BarsSoFar
    BY DEF CatalogInv
<1>2. CASE UNCHANGED <<pitVars, moved>>
    BY <1>2, SoundKept
<1>3. CASE StoreWritten
    BY <1>1, <1>3, SoundStays
<1> QED
    BY <1>2, <1>3, StoreSteps

\* a step that does not touch the table, nor begins an estimate, keeps its rows counted
LEMMA TableStays ==
    ASSUME instances' = instances, accrual' = accrual \/ accrual'.step # "estimate",
           NEW i, StaysCounted(i)
    PROVE  StaysCounted(i)'
BY DEF StaysCounted, Running, Subject

LEMMA CountedStay ==
    ASSUME CatalogInv, [CatalogNext]_patternVars, NEW i, Sound(i), i.outcome \in {"HIT", "MISS"},
           Key(i) \notin moved, StaysCounted(i)
    PROVE  StaysCounted(i)'
<1>1. CASE ScanPattern
    BY <1>1, ScanReopens DEF Sound
<1>2. CASE ResolveOpen
    BY <1>2, ResolveRestores
<1>3. CASE /\ instances' = instances
           /\ accrual' = accrual \/ accrual'.step # "estimate"
    BY <1>3, TableStays
<1> QED
    BY <1>1, <1>2, <1>3
    DEF CatalogNext, patternVars, catalogVars, OpenCatalog, SeedAndStart, Estimate, KillAccrual, StoreWritten, Idle

LEMMA EntryStays ==
    ASSUME CatalogInv, [CatalogNext]_patternVars, NEW p \in SEED_PATTERNS, EntryStands(p, catalog[p]),
           NEW e, e = catalog[p]
    PROVE  EntryStands(p, e)'
<1>1. ASSUME NEW i, NEW h, NEW w, RightlyCounted(i, p, h, w), i.outcome \in {"HIT", "MISS"} => i \in Settled
      PROVE  RightlyCounted(i, p, h, w)'
  <2>1. Sound(i) /\ i.pattern = p /\ i.horizon = h /\ i.window = w /\ i.outcome # "OPEN"
    BY <1>1 DEF RightlyCounted
  <2>2. Sound(i)'
    BY <1>1, <2>1, SoundStep
  <2>3. i.outcome # "TERMINAL_DELIST" /\ Key(i) \notin moved' => StaysCounted(i)'
    <3>1. i.outcome \in Outcomes
      BY <2>1 DEF Sound, Instances
    <3>2. moved \subseteq moved'
      BY StoreKept
    <3> QED
      BY <1>1, <2>1, <3>1, <3>2, CountedStay DEF RightlyCounted, Outcomes
  <2> QED
    BY <2>1, <2>2, <2>3 DEF RightlyCounted
<1>2. ASSUME e # Absent, NEW r \in e.results, NEW h \in Horizons
      PROVE  /\ e.status \in Promoted
             /\ \A i \in r.horizons[h].est : RightlyCounted(i, p, h, "EST")'
             /\ \A i \in r.horizons[h].oos : RightlyCounted(i, p, h, "OOS")'
  <2>1. \A i \in r.horizons[h].est \union r.horizons[h].oos : i.outcome \in {"HIT", "MISS"} => i \in Settled
    BY <1>2, SettledRows
  <2>2. /\ e.status \in Promoted
        /\ \A i \in r.horizons[h].est : RightlyCounted(i, p, h, "EST")
        /\ \A i \in r.horizons[h].oos : RightlyCounted(i, p, h, "OOS")
    BY <1>2 DEF EntryStands
  <2> QED
    BY <1>1, <2>1, <2>2
<1> QED
    BY <1>2 DEF EntryStands

\* what an estimate stores is in the table
LEMMA EstimateStands ==
    ASSUME CatalogInv, Estimate, NEW p, NEW e, e = [status |-> StatusOf(Results(p)), results |-> {Results(p)}]
    PROVE  EntryStands(p, e)'
<1> DEFINE r == Results(p)
<1>1. /\ e = [status |-> StatusOf(r), results |-> {r}]
      /\ \A h \in Horizons : r.horizons[h].est = Counted(p, h, "EST") /\ r.horizons[h].oos = Counted(p, h, "OOS")
      /\ StatusOf(r) \in Promoted
    BY DEF Results, StatusOf, Promoted
<1>2. UNCHANGED <<pitVars, instances, moved>> /\ accrual'.step # "estimate"
    BY DEF Estimate, Idle
<1>3. ASSUME NEW h, NEW w, NEW i \in Counted(p, h, w) PROVE RightlyCounted(i, p, h, w)'
  <2>1. i \in instances /\ i.pattern = p /\ i.horizon = h /\ i.window = w /\ i.outcome # "OPEN"
    BY DEF Counted
  <2>2. Sound(i)'
    BY <1>2, <2>1, SoundKept DEF CatalogInv
  <2> QED
    BY <1>2, <2>1, <2>2 DEF RightlyCounted, StaysCounted
<1> HIDE DEF r
<1> QED
    BY <1>1, <1>3 DEF EntryStands

LEMMA CatalogStep == CatalogInv /\ [CatalogNext]_patternVars => CatalogInv'
<1> SUFFICES ASSUME CatalogInv, [CatalogNext]_patternVars PROVE CatalogInv'
    OBVIOUS
<1>1. PitInv' /\ BarsSoFar'
    BY StoreKept, PitStep, BarsStep DEF CatalogInv
<1>2. \A i : UNCHANGED <<pitVars, moved>> => (Sound(i) => Sound(i)')
    BY SoundKept
<1>3. \A i \in instances' : Sound(i)'
  <2>1. CASE ScanPattern
    <3>1. PICK rows : instances' = Upsert(instances, rows) /\ \A r \in rows : Sound(r)
      BY <2>1, ScanRows
    <3>2. UNCHANGED <<pitVars, moved>>
      BY <2>1 DEF ScanPattern
    <3> QED
      BY <1>2, <3>1, <3>2, Upserted DEF CatalogInv
  <2>2. CASE ResolveOpen
    <3>1. PICK rows : instances' = Upsert(instances, rows) /\ \A r \in rows : Sound(r)
      BY <2>2, ResolvedRows
    <3>2. UNCHANGED <<pitVars, moved>>
      BY <2>2 DEF ResolveOpen
    <3> QED
      BY <1>2, <3>1, <3>2, Upserted DEF CatalogInv
  <2>3. CASE instances' = instances
    BY <2>3, SoundStep, SettledRows DEF CatalogInv
  <2> QED
    BY <2>1, <2>2, <2>3
    DEF CatalogNext, patternVars, catalogVars, OpenCatalog, SeedAndStart, Estimate, KillAccrual, StoreWritten
<1>4. JobKnown'
  <2>1. JobKnown
    BY DEF CatalogInv
  <2>2. CASE accrual' = accrual
    BY <2>1, <2>2 DEF JobKnown
  <2>3. CASE accrual' = Idle
    BY <2>3 DEF JobKnown
  <2>4. CASE SeedAndStart
    BY <2>4 DEF SeedAndStart, JobKnown, ESTIMABLE
  <2>5. CASE ScanPattern \/ ResolveOpen
    BY <2>1, <2>5 DEF JobKnown, ScanPattern, ResolveOpen, Running, Idle
  <2>6. CASE Estimate
    <3>1. accrual.of \in DOMAIN ESTIMABLE
      BY <2>1, <2>6 DEF JobKnown, Estimate, Running, Idle
    <3>2. accrual' = accrual \/ accrual' = Idle \/
            (accrual.of # Len(ESTIMABLE) /\ accrual' = [step |-> "scan", of |-> accrual.of + 1])
      BY <2>6 DEF Estimate
    <3>3. ASSUME accrual.of # Len(ESTIMABLE) PROVE accrual.of + 1 \in DOMAIN ESTIMABLE
      BY <3>1, <3>3 DEF ESTIMABLE
    <3> QED
      BY <2>2, <2>3, <3>2, <3>3 DEF JobKnown
  <2> QED
    BY <2>2, <2>3, <2>4, <2>5, <2>6
    DEF CatalogNext, patternVars, catalogVars, OpenCatalog, KillAccrual, StoreWritten
<1>5. DOMAIN catalog' = SEED_PATTERNS
    BY DEF CatalogInv, CatalogNext, patternVars, catalogVars, OpenCatalog, SeedAndStart, Seed,
           ScanPattern, ResolveOpen, Estimate, KillAccrual, StoreWritten
<1>6. \A p \in SEED_PATTERNS : EntryStands(p, catalog[p])'
  <2> SUFFICES ASSUME NEW p \in SEED_PATTERNS, NEW e, e = catalog'[p] PROVE EntryStands(p, e)'
    BY DEF EntryStands
  <2>1. CASE e = catalog[p]
    BY <2>1, EntryStays DEF CatalogInv
  <2>2. CASE e = [status |-> "DEFINED", results |-> {}]
    BY <2>2 DEF EntryStands
  <2>3. CASE Estimate /\ p = Subject /\ e = [status |-> StatusOf(Results(p)), results |-> {Results(p)}]
    BY <2>3, EstimateStands
  <2>4. CASE Estimate
    <3>1. DOMAIN catalog = SEED_PATTERNS
      BY DEF CatalogInv
    <3> QED
      BY <2>1, <2>3, <2>4, <3>1 DEF Estimate
  <2>5. CASE Seed
    BY <2>1, <2>2, <2>5 DEF Seed
  <2>6. CASE catalog' = catalog
    BY <2>1, <2>6
  <2> QED
    BY <2>4, <2>5, <2>6
    DEF CatalogNext, patternVars, catalogVars, OpenCatalog, SeedAndStart, ScanPattern, ResolveOpen, KillAccrual,
        StoreWritten
<1> QED
    BY <1>1, <1>3, <1>4, <1>5, <1>6 DEF CatalogInv

LEMMA CatalogKeeps == CatalogInv /\ [CatalogNext]_patternVars => KeepsCounted
<1> SUFFICES ASSUME CatalogInv, [CatalogNext]_patternVars,
                    NEW p \in SEED_PATTERNS, catalog[p] # Absent, NEW was \in catalog[p].results
             PROVE  \E is \in catalog'[p].results : \A h \in Horizons :
                       /\ Unmoved(was.horizons[h].est) \subseteq is.horizons[h].est
                       /\ Unmoved(was.horizons[h].oos) \subseteq is.horizons[h].oos
    BY DEF KeepsCounted
<1>1. /\ catalog[p].status \in Promoted
      /\ \A h \in Horizons : /\ \A i \in was.horizons[h].est : RightlyCounted(i, p, h, "EST")
                             /\ \A i \in was.horizons[h].oos : RightlyCounted(i, p, h, "OOS")
    BY DEF CatalogInv, EntryStands
<1>2. CASE catalog'[p] = catalog[p]
    BY <1>2 DEF Unmoved
<1>3. CASE Estimate /\ p = Subject /\ catalog'[p].results = {Results(p)}
  <2>1. ASSUME NEW h, NEW w, NEW i, RightlyCounted(i, p, h, w), i.outcome # "TERMINAL_DELIST", Key(i) \notin moved
        PROVE  i \in Counted(p, h, w)
    BY <1>3, <2>1 DEF RightlyCounted, StaysCounted, Estimate, Counted
  <2>2. \A h \in Horizons : /\ Results(p).horizons[h].est = Counted(p, h, "EST")
                            /\ Results(p).horizons[h].oos = Counted(p, h, "OOS")
    BY DEF Results
  <2> QED
    BY <1>1, <1>3, <2>1, <2>2 DEF Unmoved
<1>4. CASE Estimate
  <2>1. DOMAIN catalog = SEED_PATTERNS
    BY DEF CatalogInv
  <2> QED
    BY <1>2, <1>3, <1>4, <2>1 DEF Estimate
<1> QED
    BY <1>1, <1>2, <1>4
    DEF CatalogNext, patternVars, catalogVars, OpenCatalog, SeedAndStart, Seed, ScanPattern, ResolveOpen,
        KillAccrual, StoreWritten

\* the pattern catalog alone
CatalogSpec == CatalogInit /\ [][CatalogNext]_patternVars

(* An instance that a pattern's results count as a hit or a miss is counted *)
(* the same in all later results, whatever bars and broker rows of whatever *)
(* days are stored in the meantime, unless a price of its own name has come *)
(* between its entry and the end of its horizon: the monthly rescan may     *)
(* reopen it, a kill may leave it open for a month, late rows and rosters   *)
(* may change which days flag, and the resolution still finds what it found, *)
(* before the next estimate reads the table (accrual.py run_estimation,     *)
(* outcome.py resolve_instance, store/db.py write_daily_bars).              *)
THEOREM CountsKept == CatalogSpec => [][KeepsCounted]_patternVars
<1>1. CatalogInv /\ [CatalogNext]_patternVars => [KeepsCounted]_patternVars
    BY CatalogKeeps
<1> QED
    BY <1>1, CatalogStart, CatalogStep, PTL DEF CatalogSpec

(* In the terminal an instance counted as a hit or a miss stays counted as  *)
(* it is but for a late price of its name within its span, whatever else is *)
(* stored late (accrual.py, outcome.py).                                    *)
THEOREM DeskCountsKept == DeskSpec => CountsStand
<1> DEFINE I == part = "catalog" => CatalogInv
<1>1. DeskInit => I
    BY CatalogStart DEF DeskInit
<1>2. part = "catalog" /\ [DeskNext]_deskVars => part' = "catalog" /\ [CatalogNext]_patternVars
    BY DEF DeskNext, deskVars
<1>3. part' = "catalog" /\ [DeskNext]_deskVars => part = "catalog"
    BY DEF DeskNext, deskVars
<1>4. I /\ [DeskNext]_deskVars => I'
    BY <1>2, <1>3, CatalogStep
<1>5. I /\ [DeskNext]_deskVars => [part = "catalog" => KeepsCounted]_deskVars
    BY <1>2, CatalogKeeps
<1> QED
    BY <1>1, <1>4, <1>5, PTL DEF DeskSpec, CountsStand

-----------------------------------------------------------------------------
(* Types of the catalog                                                     *)

KeysDiffer(rows) == \A i, j \in rows : Key(i) = Key(j) => i = j

\* what is stored for an estimate was storable
RatesBesideNulls(entry) == entry # Absent => \A r \in entry.results : Storable(r)

CatalogTyped == CatalogInv /\ KeysDiffer(instances) /\ \A p \in SEED_PATTERNS : RatesBesideNulls(catalog[p])

LEMMA CatalogTypesStart == CatalogInit => CatalogTyped
<1> SUFFICES ASSUME CatalogInit PROVE CatalogTyped
    OBVIOUS
<1>1. instances = {} /\ \A p \in SEED_PATTERNS : catalog[p] = Absent
    BY DEF CatalogInit
<1> QED
    BY <1>1, CatalogStart DEF CatalogTyped, KeysDiffer, RatesBesideNulls

LEMMA UpsertedDiffer ==
    ASSUME NEW table, NEW rows, KeysDiffer(table), KeysDiffer(rows)
    PROVE  KeysDiffer(Upsert(table, rows))
BY DEF KeysDiffer, Upsert

\* sound rows of one key and one way to settle are one row
LEMMA SettledDiffer ==
    ASSUME NEW rows, \A r \in rows : Sound(r),
           \/ \A r \in rows : r.outcome = "OPEN"
           \/ \A r \in rows : r.outcome = OutcomeOf(r.symbol, r.flag, r.horizon)
    PROVE  KeysDiffer(rows)
<1> SUFFICES ASSUME NEW i \in rows, NEW j \in rows, Key(i) = Key(j) PROVE i = j
    BY DEF KeysDiffer
<1>1. i.symbol = j.symbol /\ i.flag = j.flag /\ i.horizon = j.horizon
    BY DEF Key
<1>2. i \in Instances /\ j \in Instances /\ i.window = j.window
    BY <1>1 DEF Sound
<1>3. i.outcome = j.outcome
    BY <1>1
<1> QED
    BY <1>2, <1>3, RowEqual

LEMMA CatalogTypesStep == CatalogTyped /\ [CatalogNext]_patternVars => CatalogTyped'
<1> SUFFICES ASSUME CatalogTyped, [CatalogNext]_patternVars PROVE CatalogTyped'
    OBVIOUS
<1>1. CatalogInv /\ CatalogInv'
    BY CatalogStep DEF CatalogTyped
<1>2. KeysDiffer(instances')
  <2>1. CASE ScanPattern
    <3>1. PICK rows : instances' = Upsert(instances, rows) /\ \A r \in rows : Sound(r) /\ r.outcome = "OPEN"
      BY <1>1, <2>1, ScanRows
    <3>2. KeysDiffer(rows)
      BY <3>1, SettledDiffer
    <3> QED
      BY <3>1, <3>2, UpsertedDiffer DEF CatalogTyped
  <2>2. CASE ResolveOpen
    <3>1. PICK rows : /\ instances' = Upsert(instances, rows)
                      /\ \A r \in rows : Sound(r)
                      /\ \A r \in rows : r.outcome = OutcomeOf(r.symbol, r.flag, r.horizon)
      BY <1>1, <2>2, ResolvedRows
    <3>2. KeysDiffer(rows)
      BY <3>1, SettledDiffer
    <3> QED
      BY <3>1, <3>2, UpsertedDiffer DEF CatalogTyped
  <2>3. CASE instances' = instances
    BY <2>3 DEF CatalogTyped
  <2> QED
    BY <2>1, <2>2, <2>3
    DEF CatalogNext, patternVars, catalogVars, OpenCatalog, SeedAndStart, Estimate, KillAccrual, StoreWritten
<1>3. ASSUME NEW p \in SEED_PATTERNS PROVE RatesBesideNulls(catalog'[p])
  <2>1. CASE catalog'[p] = catalog[p]
    BY <2>1 DEF CatalogTyped
  <2>2. CASE catalog'[p] = [status |-> "DEFINED", results |-> {}]
    BY <2>2 DEF RatesBesideNulls
  <2>3. CASE Seed
    BY <2>1, <2>2, <2>3 DEF Seed
  <2>4. CASE Estimate
    <3>1. DOMAIN catalog = SEED_PATTERNS
      BY <1>1 DEF CatalogInv
    <3>2. ASSUME NEW r, Storable(r), catalog'[p] = [status |-> StatusOf(r), results |-> {r}]
          PROVE  RatesBesideNulls(catalog'[p])
      BY <3>2 DEF RatesBesideNulls
    <3>3. \/ catalog'[p] = catalog[p]
          \/ \E r : Storable(r) /\ catalog'[p] = [status |-> StatusOf(r), results |-> {r}]
      BY <2>4, <3>1 DEF Estimate
    <3> QED
      BY <2>1, <3>2, <3>3
  <2> QED
    BY <2>1, <2>3, <2>4
    DEF CatalogNext, patternVars, catalogVars, OpenCatalog, SeedAndStart, ScanPattern, ResolveOpen, KillAccrual,
        StoreWritten
<1>4. KeysDiffer(instances)' /\ \A p \in SEED_PATTERNS : RatesBesideNulls(catalog[p])'
    BY <1>2, <1>3 DEF KeysDiffer, RatesBesideNulls, Storable
<1> QED
    BY <1>1, <1>4 DEF CatalogTyped

LEMMA CatalogTypes == CatalogTyped => PitTypeOK /\ CatalogTypeOK
<1> SUFFICES ASSUME CatalogTyped PROVE PitTypeOK /\ CatalogTypeOK
    OBVIOUS
<1>1. PitTypeOK /\ JobKnown /\ \A i \in instances : Sound(i)
    BY DEF CatalogTyped, CatalogInv, PitInv
<1>2. \A i \in instances : i.outcome \in {"OPEN", "HIT", "MISS", "TERMINAL_DELIST"} /\ i.window = WindowFor(i.flag)
    BY <1>1 DEF Sound, Instances, Outcomes
<1>3. ASSUME NEW card \in Cards, NEW row \in card.rows, row.rate # "no instances" PROVE row.null
  <2> DEFINE Row(c, h) == [horizon |-> h, rate |-> RateCell(c.horizons[h]),
                           null |-> c.horizons[h].null.n > 0, decay |-> DecayFlag(c.horizons[h])]
             Rows(p) == {Row(c, h) : c \in catalog[p].results, h \in Horizons}
             Card(p) == [pattern |-> p, status |-> catalog[p].status, rows |-> Rows(p)]
  <2>4. Cards = {Card(p) : p \in {q \in SEED_PATTERNS : catalog[q] # Absent}}
    BY SMT DEF Cards
  <2>5. \A p : Card(p).rows = Rows(p)
    OBVIOUS
  <2> HIDE DEF Card
  <2>6. PICK p \in SEED_PATTERNS : catalog[p] # Absent /\ card = Card(p)
    BY <2>4
  <2>1. catalog[p] # Absent /\ row \in Rows(p)
    BY <2>5, <2>6
  <2>2. PICK results \in catalog[p].results, h \in Horizons :
            /\ row.rate = RateCell(results.horizons[h]) /\ row.null = (results.horizons[h].null.n > 0)
    BY <2>1
  <2>3. results.horizons[h].est # {} => results.horizons[h].null.n > 0
    BY <2>1 DEF CatalogTyped, RatesBesideNulls, Storable
  <2> QED
    BY <1>3, <2>2, <2>3 DEF RateCell
<1> QED
    BY <1>1, <1>2, <1>3 DEF CatalogTypeOK, JobKnown, CatalogTyped, KeysDiffer

-----------------------------------------------------------------------------
(* The folds of the optimizer                                               *)

(* The order of the samples is strict and total.                            *)
LEMMA AheadStrict ==
    ASSUME NEW ts \in Seq(Trade), NEW i \in DOMAIN ts PROVE ~Ahead(ts, i, i)
<1>1. ts[i] \in Trade /\ i \in Nat
    OBVIOUS
<1> QED
    BY <1>1 DEF Ahead, Trade

LEMMA AheadTotal ==
    ASSUME NEW ts \in Seq(Trade), NEW i \in DOMAIN ts, NEW j \in DOMAIN ts, i # j
    PROVE  Ahead(ts, i, j) \/ Ahead(ts, j, i)
<1>1. ts[i] \in Trade /\ ts[j] \in Trade /\ i \in Nat /\ j \in Nat
    OBVIOUS
<1> QED
    BY <1>1 DEF Ahead, Trade

LEMMA AheadTransitive ==
    ASSUME NEW ts \in Seq(Trade), NEW i \in DOMAIN ts, NEW j \in DOMAIN ts, NEW k \in DOMAIN ts,
           Ahead(ts, i, j), Ahead(ts, j, k)
    PROVE  Ahead(ts, i, k)
<1>1. ts[i] \in Trade /\ ts[j] \in Trade /\ ts[k] \in Trade /\ i \in Nat /\ j \in Nat /\ k \in Nat
    OBVIOUS
<1> DEFINE e == ts[i].entry
           f == ts[j].entry
           g == ts[k].entry
<1>2. e \in Nat /\ f \in Nat /\ g \in Nat
    BY <1>1 DEF Trade
<1>3. e <= f /\ f <= g
    BY <1>2 DEF Ahead
<1>4. CASE e < g
    BY <1>4 DEF Ahead
<1>5. CASE e = f /\ f = g
  <2> DEFINE x == ts[i].exit
             y == ts[j].exit
             z == ts[k].exit
  <2>1. x \in Nat \cup {Absent} /\ y \in Nat \cup {Absent} /\ z \in Nat \cup {Absent}
    BY <1>1 DEF Trade
  <2>2. IF x = y THEN i < j ELSE x # Absent /\ (y = Absent \/ x < y)
    BY <1>2, <1>5 DEF Ahead
  <2>3. IF y = z THEN j < k ELSE y # Absent /\ (z = Absent \/ y < z)
    BY <1>2, <1>5 DEF Ahead
  <2>4. (IF x = z THEN i < k ELSE x # Absent /\ (z = Absent \/ x < z)) => Ahead(ts, i, k)
    BY <1>5 DEF Ahead
  <2> HIDE DEF x, y, z, e, f, g
  <2>5. IF x = z THEN i < k ELSE x # Absent /\ (z = Absent \/ x < z)
    BY <1>1, <2>1, <2>2, <2>3
  <2> QED
    BY <2>4, <2>5
<1> QED
    BY <1>2, <1>3, <1>4, <1>5

(* So the ranks are the numbers from 1 to the number of trades, each once.  *)
AheadOf(ts, i) == {j \in DOMAIN ts : Ahead(ts, j, i)}

LEMMA RankOf ==
    ASSUME NEW ts \in Seq(Trade), NEW i \in DOMAIN ts
    PROVE  /\ IsFiniteSet(AheadOf(ts, i)) /\ Cardinality(AheadOf(ts, i)) \in Nat
           /\ Rank(ts, i) = 1 + Cardinality(AheadOf(ts, i))
           /\ Rank(ts, i) \in 1..Len(ts)
<1> DEFINE D == DOMAIN ts
           A == AheadOf(ts, i)
<1>1. D = 1..Len(ts) /\ Len(ts) \in Nat
    OBVIOUS
<1>2. IsFiniteSet(D) /\ Cardinality(D) = Len(ts)
  <2> SUFFICES ASSUME NEW n \in Nat, n = Len(ts) PROVE IsFiniteSet(1..n) /\ Cardinality(1..n) = n
    BY <1>1
  <2>1. IsFiniteSet(1..n) /\ Cardinality(1..n) = IF 1 > n THEN 0 ELSE n - 1 + 1
    BY 1 \in Int, n \in Int, FS_Interval
  <2> QED
    BY <2>1
<1>3. A \in SUBSET (D \ {i})
    BY AheadStrict DEF AheadOf
<1>4. IsFiniteSet(D \ {i}) /\ Cardinality(D \ {i}) = Len(ts) - 1
    BY <1>2, FS_RemoveElement
<1>5. IsFiniteSet(A) /\ Cardinality(A) <= Cardinality(D \ {i}) /\ Cardinality(A) \in Nat
    BY <1>3, <1>4, FS_Subset, FS_CardinalityType
<1>6. Rank(ts, i) = 1 + Cardinality(A)
    BY DEF Rank, AheadOf
<1> QED
    BY <1>1, <1>4, <1>5, <1>6

LEMMA RankAhead ==
    ASSUME NEW ts \in Seq(Trade), NEW i \in DOMAIN ts, NEW j \in DOMAIN ts, Ahead(ts, i, j)
    PROVE  Rank(ts, i) < Rank(ts, j)
<1> DEFINE A == AheadOf(ts, i)
           B == AheadOf(ts, j)
<1>1. A \in SUBSET B
    BY AheadTransitive DEF AheadOf
<1>2. i \in B /\ i \notin A
    BY AheadStrict DEF AheadOf
<1>3. /\ IsFiniteSet(B) /\ Cardinality(A) \in Nat /\ Cardinality(B) \in Nat
      /\ Rank(ts, i) = 1 + Cardinality(A) /\ Rank(ts, j) = 1 + Cardinality(B)
    BY RankOf
<1> HIDE DEF A, B
<1>4. Cardinality(A) <= Cardinality(B) /\ Cardinality(A) # Cardinality(B)
    BY <1>1, <1>2, <1>3, FS_Subset
<1> QED
    BY <1>3, <1>4

LEMMA RanksDiffer ==
    ASSUME NEW ts \in Seq(Trade), NEW i \in DOMAIN ts, NEW j \in DOMAIN ts, i # j
    PROVE  Rank(ts, i) # Rank(ts, j)
<1>1. Rank(ts, i) \in 1..Len(ts) /\ Rank(ts, j) \in 1..Len(ts)
    BY RankOf
<1>2. Rank(ts, i) < Rank(ts, j) \/ Rank(ts, j) < Rank(ts, i)
    BY AheadTotal, RankAhead
<1> QED
    BY <1>1, <1>2

LEMMA RanksTaken ==
    ASSUME NEW ts \in Seq(Trade), NEW r \in 1..Len(ts)
    PROVE  \E i \in DOMAIN ts : Rank(ts, i) = r
<1> DEFINE D == DOMAIN ts
           f == [i \in D |-> Rank(ts, i)]
<1>1. D = 1..Len(ts) /\ Len(ts) \in Nat
    OBVIOUS
<1>2. IsFiniteSet(D)
    BY <1>1, FS_Interval
<1>3. f \in [D -> D]
    BY <1>1, RankOf
<1>4. f \in Injection(D, D)
    BY <1>3, RanksDiffer DEF Injection, IsInjective
<1>5. f \in Surjection(D, D)
    BY <1>2, <1>4, FS_Injection
<1> QED
    BY <1>1, <1>5 DEF Surjection

(* As many trades have a rank of an interval as it has numbers.             *)
LEMMA RanksCounted ==
    ASSUME NEW ts \in Seq(Trade), NEW a \in Nat, a <= Len(ts)
    PROVE  Cardinality({i \in DOMAIN ts : Rank(ts, i) > a}) = Len(ts) - a
<1> DEFINE S == {i \in DOMAIN ts : Rank(ts, i) > a}
           T == (a + 1)..Len(ts)
           f == [i \in S |-> Rank(ts, i)]
<1>1. DOMAIN ts = 1..Len(ts) /\ Len(ts) \in Nat
    OBVIOUS
<1>2. IsFiniteSet(S) /\ IsFiniteSet(T) /\ Cardinality(T) = Len(ts) - a
  <2>1. PICK n \in Nat : n = Len(ts)
    BY <1>1
  <2>2. PICK b \in Nat : b = a + 1
    OBVIOUS
  <2>3. IsFiniteSet(1..n) /\ IsFiniteSet(b..n) /\ Cardinality(b..n) = IF b > n THEN 0 ELSE n - b + 1
    BY 1 \in Int, n \in Int, b \in Int, FS_Interval
  <2>4. S \in SUBSET (1..n)
    BY <1>1, <2>1
  <2> QED
    BY <1>1, <2>1, <2>2, <2>3, <2>4, FS_Subset
<1>3. f \in [S -> T]
    BY <1>1, RankOf
<1>4. f \in Injection(S, T)
    BY <1>3, RanksDiffer DEF Injection, IsInjective
<1>5. ASSUME NEW r \in T PROVE \E i \in S : f[i] = r
    BY <1>1, RanksTaken
<1>6. f \in Surjection(S, T)
    BY <1>3, <1>5 DEF Surjection
<1>7. f \in Bijection(S, T)
    BY <1>4, <1>6 DEF Bijection
<1>8. ExistsBijection(S, T)
    BY <1>7 DEF ExistsBijection
<1> QED
    BY <1>2, <1>8, FS_Bijection

LEMMA Multiples ==
    ASSUME NEW p \in Nat, NEW q \in Nat, NEW b \in Nat, p <= q
    PROVE  p * b \in Nat /\ q * b \in Nat /\ p * b <= q * b
<1>1. PICK r \in Nat : q = p + r
    BY p <= q, q - p \in Nat
<1>2. q * b = p * b + r * b
    BY <1>1
<1>3. p * b \in Nat /\ r * b \in Nat
    OBVIOUS
<1> QED
    BY <1>2, <1>3

(* Where the parts end: one after the other, the last at the end.           *)
LEMMA PartEnds ==
    ASSUME NEW n \in Nat, NEW parts \in Nat \ {0}, NEW p \in 0..parts, NEW q \in 0..parts, p <= q
    PROVE  /\ PartEnd(n, parts, p) \in Nat /\ PartEnd(n, parts, q) \in Nat
           /\ PartEnd(n, parts, p) <= PartEnd(n, parts, q)
<1> DEFINE b == n \div parts
           x == n % parts
<1>1. b \in Nat /\ x \in Nat /\ p \in Nat /\ q \in Nat
    OBVIOUS
<1>2. PartEnd(n, parts, p) = p * b + Min({p, x}) /\ PartEnd(n, parts, q) = q * b + Min({q, x})
    BY DEF PartEnd
<1> HIDE DEF b, x
<1>3. p * b \in Nat /\ q * b \in Nat /\ p * b <= q * b
    BY <1>1, Multiples
<1>4. Min({p, x}) \in Nat /\ Min({q, x}) \in Nat /\ Min({p, x}) <= Min({q, x})
    BY <1>1, MinOfTwo
<1> QED
    BY <1>2, <1>3, <1>4

LEMMA LastPartEnd ==
    ASSUME NEW n \in Nat, NEW parts \in Nat \ {0} PROVE PartEnd(n, parts, parts) = n
<1> DEFINE b == n \div parts
           x == n % parts
<1>1. b \in Nat /\ x \in 0..(parts - 1) /\ n = parts * b + x
    OBVIOUS
<1>2. PartEnd(n, parts, parts) = parts * b + Min({parts, x})
    BY DEF PartEnd
<1> HIDE DEF b, x
<1>3. Min({parts, x}) = x
    BY <1>1, MinOfTwo
<1> QED
    BY <1>1, <1>2, <1>3

(* Every trade is of one part.                                              *)
LEMMA SegmentsDiffer ==
    ASSUME NEW ts \in Seq(Trade), NEW parts \in Nat \ {0}, NEW p \in 1..parts, NEW q \in 1..parts, p # q
    PROVE  Segment(ts, parts, p) \cap Segment(ts, parts, q) = {}
<1> SUFFICES ASSUME NEW u \in 1..parts, NEW v \in 1..parts, u < v,
                    NEW i \in Segment(ts, parts, u) \cap Segment(ts, parts, v)
             PROVE  FALSE
    BY p < q \/ q < p
<1>1. PICK t \in 0..parts : t = v - 1
    OBVIOUS
<1>2. Len(ts) \in Nat /\ u \in 0..parts /\ u <= t
    BY <1>1
<1>3. PartEnd(Len(ts), parts, u) <= PartEnd(Len(ts), parts, t)
    BY <1>2, PartEnds
<1>4. PartEnd(Len(ts), parts, u) \in Nat /\ PartEnd(Len(ts), parts, t) \in Nat
    BY <1>2, PartEnds
<1>5. Rank(ts, i) \in Nat
    BY RankOf DEF Segment
<1>6. Rank(ts, i) <= PartEnd(Len(ts), parts, u) /\ Rank(ts, i) >= PartEnd(Len(ts), parts, t) + 1
    BY <1>1, <1>4, <1>5 DEF Segment
<1> QED
    BY <1>3, <1>4, <1>5, <1>6

LEMMA SegmentsCover ==
    ASSUME NEW ts \in Seq(Trade), NEW parts \in Nat \ {0}
    PROVE  UNION {Segment(ts, parts, p) : p \in 2..parts}
             = {i \in DOMAIN ts : Rank(ts, i) > PartEnd(Len(ts), parts, 1)}
<1> DEFINE n == Len(ts)
           E(p) == PartEnd(n, parts, p)
<1>1. n \in Nat /\ DOMAIN ts = 1..n
    OBVIOUS
<1>2. \A p \in 0..parts : E(p) \in Nat
    BY PartEnds
<1>3. \A p, q \in 0..parts : p <= q => E(p) <= E(q)
    BY PartEnds
<1>4. E(parts) = n
    BY LastPartEnd
<1>5. \A i \in DOMAIN ts : Rank(ts, i) \in 1..n
    BY RankOf
<1>6. \A p : Segment(ts, parts, p) = {i \in DOMAIN ts : Rank(ts, i) \in (E(p - 1) + 1)..E(p)}
    BY DEF Segment
<1> HIDE DEF n, E
<1>7. ASSUME NEW p \in 2..parts, NEW i \in Segment(ts, parts, p)
      PROVE  i \in DOMAIN ts /\ Rank(ts, i) > E(1)
  <2>1. i \in DOMAIN ts /\ Rank(ts, i) \in (E(p - 1) + 1)..E(p)
    BY <1>6
  <2>2. PICK q \in 0..parts : q = p - 1 /\ 1 <= q /\ 1 \in 0..parts
    OBVIOUS
  <2>3. E(1) <= E(q) /\ E(1) \in Nat /\ E(q) \in Nat
    BY <1>2, <1>3, <2>2
  <2> QED
    BY <1>5, <2>1, <2>2, <2>3
<1>8. ASSUME NEW i \in DOMAIN ts, Rank(ts, i) > E(1)
      PROVE  \E p \in 2..parts : i \in Segment(ts, parts, p)
  <2> DEFINE S == {p \in 1..parts : Rank(ts, i) <= E(p)}
  <2>1. S \in SUBSET Nat /\ parts \in S
    BY <1>1, <1>4, <1>5
  <2>2. PICK p \in S : \A q \in S : p <= q
    <3> HIDE DEF S
    <3> QED
      BY <2>1, LeastNat
  <2>3. p \in 2..parts /\ p - 1 \in 1..parts /\ p - 1 \notin S
    BY <1>2, <1>5, <1>8, <2>2
  <2>4. PICK q \in 1..parts : q = p - 1 /\ q \notin S
    BY <2>3
  <2>5. Rank(ts, i) > E(q) /\ E(q) \in Nat /\ E(p) \in Nat /\ Rank(ts, i) <= E(p)
    BY <1>2, <1>5, <2>2, <2>4
  <2>6. Rank(ts, i) \in (E(p - 1) + 1)..E(p)
    BY <1>5, <2>4, <2>5
  <2> QED
    BY <1>6, <2>3, <2>6
<1>9. UNION {Segment(ts, parts, p) : p \in 2..parts} = {i \in DOMAIN ts : Rank(ts, i) > E(1)}
    BY <1>7, <1>8
<1> QED
    BY <1>9 DEF E, n

(* What a fold trains on ended before its test block begins.                *)
LEMMA FoldsDoNotLeak ==
    ASSUME NEW ts \in Seq(Trade), NEW k \in Nat,
           NEW i \in Fold(ts, k).train, NEW j \in Fold(ts, k).test
    PROVE  ts[i].exit < ts[j].entry
<1> DEFINE test == Segment(ts, CV_FOLDS + 1, k + 1)
           entries == {ts[x].entry : x \in test}
<1>1. Fold(ts, k).test = test
    BY DEF Fold
<1>2. test \in SUBSET DOMAIN ts
    BY DEF Segment
<1>3. \A x \in DOMAIN ts : ts[x] \in Trade
    OBVIOUS
<1>4. entries \in SUBSET Int /\ entries # {} /\ 0 \in Int /\ \A e \in entries : 0 <= e
    BY <1>1, <1>2, <1>3 DEF Trade
<1>5. Min(entries) \in Int /\ \A e \in entries : Min(entries) <= e
  <2> SUFFICES ASSUME NEW S \in SUBSET Int, S # {}, \A e \in S : 0 <= e
               PROVE  Min(S) \in Int /\ \A e \in S : Min(S) <= e
    BY <1>4
  <2>1. Min(S) \in S /\ \A e \in S : Min(S) <= e
    BY 0 \in Int, MinOfBounded
  <2> QED
    BY <2>1
<1>7. \E prior \in SUBSET DOMAIN ts : i \in Purge(ts, prior, Min(entries))
    BY DEF Fold, Segment
<1>8. ts[i] \in Trade /\ ts[i].exit # Absent /\ ts[i].exit < Min(entries)
    BY <1>3, <1>7 DEF Purge
<1>9. ts[j].entry \in entries
    BY <1>1
<1>10. ts[i].exit \in Int
    BY <1>8 DEF Trade
<1>11. PICK m \in Int : m <= ts[j].entry /\ ts[i].exit < m
    BY <1>5, <1>8, <1>9
<1>12. ts[j].entry \in Int
    BY <1>4, <1>9
<1> QED
    BY <1>10, <1>11, <1>12

LEMMA FoldsSeparate ==
    ASSUME NEW ts \in Seq(Trade), Foldable(ts)
    PROVE  /\ \A k, l \in 1..CV_FOLDS : k # l => Fold(ts, k).test \cap Fold(ts, l).test = {}
           /\ Cardinality(UNION {Fold(ts, k).test : k \in 1..CV_FOLDS})
                = Len(ts) - PartEnd(Len(ts), CV_FOLDS + 1, 1)
<1>1. CV_FOLDS \in Nat \ {0}
    BY TuningAssumption
<1>2. PICK parts \in Nat \ {0} : parts = CV_FOLDS + 1
    BY <1>1
<1>3. \A k : Fold(ts, k).test = Segment(ts, parts, k + 1)
    BY <1>2 DEF Fold
<1>4. ASSUME NEW k \in 1..CV_FOLDS, NEW l \in 1..CV_FOLDS, k # l
      PROVE  Fold(ts, k).test \cap Fold(ts, l).test = {}
  <2>1. PICK p \in 1..parts, q \in 1..parts : p = k + 1 /\ q = l + 1 /\ p # q
    BY <1>1, <1>2, <1>4
  <2>2. Segment(ts, parts, p) \cap Segment(ts, parts, q) = {}
    BY <2>1, SegmentsDiffer
  <2> QED
    BY <1>3, <2>1, <2>2
<1>5. UNION {Fold(ts, k).test : k \in 1..CV_FOLDS} = UNION {Segment(ts, parts, p) : p \in 2..parts}
  <2>1. \A k \in 1..CV_FOLDS : k + 1 \in 2..parts
    BY <1>1, <1>2
  <2>2. \A p \in 2..parts : p - 1 \in 1..CV_FOLDS /\ p = (p - 1) + 1
    BY <1>1, <1>2
  <2>3. ASSUME NEW p \in 2..parts PROVE \E k \in 1..CV_FOLDS : Fold(ts, k).test = Segment(ts, parts, p)
    BY <1>3, <2>2
  <2>4. ASSUME NEW k \in 1..CV_FOLDS PROVE \E p \in 2..parts : Fold(ts, k).test = Segment(ts, parts, p)
    BY <1>3, <2>1
  <2> QED
    BY <2>3, <2>4
<1>6. PICK a \in Nat : a = PartEnd(Len(ts), parts, 1) /\ a <= Len(ts)
  <2>1. Len(ts) \in Nat /\ 1 \in 0..parts /\ parts \in 0..parts /\ 1 <= parts
    OBVIOUS
  <2>2. PartEnd(Len(ts), parts, 1) <= PartEnd(Len(ts), parts, parts) /\ PartEnd(Len(ts), parts, 1) \in Nat
    BY <2>1, PartEnds
  <2> QED
    BY <2>1, <2>2, LastPartEnd
<1>7. Cardinality({i \in DOMAIN ts : Rank(ts, i) > a}) = Len(ts) - a
    BY <1>6, RanksCounted
<1>8. UNION {Segment(ts, parts, p) : p \in 2..parts} = {i \in DOMAIN ts : Rank(ts, i) > a}
    BY <1>6, SegmentsCover
<1> QED
    BY <1>2, <1>4, <1>5, <1>6, <1>7, <1>8

-----------------------------------------------------------------------------
(* Weights: what is proposed, live or applied is valid.                     *)

TuningSpec == TuningInit /\ [][TuningNext]_tuningVars

LEMMA TuningStart == TuningInit => TuningTypeOK
<1> SUFFICES ASSUME TuningInit PROVE TuningTypeOK
    OBVIOUS
<1>1. applied \in Seq(proposals)
    BY DEF TuningInit
<1> QED
    BY <1>1, IncumbentAssumption DEF TuningInit, TuningTypeOK, Tracks

LEMMA TuningStep == TuningTypeOK /\ [TuningNext]_tuningVars => TuningTypeOK'
<1> SUFFICES ASSUME TuningTypeOK, [TuningNext]_tuningVars PROVE TuningTypeOK'
    OBVIOUS
<1>1. CASE UNCHANGED tuningVars
    BY <1>1 DEF TuningTypeOK, tuningVars
<1>2. CASE Review
    BY <1>2 DEF Review, TuningTypeOK
<1>3. CASE NewMonth
    BY <1>3 DEF NewMonth, TuningTypeOK
<1>4. ASSUME NEW track \in Tracks, OptimizeWeights(track) PROVE TuningTypeOK'
  <2>1. PICK w, p : ValidWeights(track, w) /\ p.track = track /\ p.weights = w /\ proposals' = proposals \union {p}
    BY <1>4 DEF OptimizeWeights, Proposal
  <2>2. UNCHANGED <<admitted, realised, surface, applied>>
    BY <1>4 DEF OptimizeWeights
  <2>3. \A q \in proposals' : q.track \in Tracks /\ ValidWeights(q.track, q.weights)
    BY <2>1 DEF TuningTypeOK
  <2>4. applied' \in Seq(proposals')
    BY <2>1, <2>2 DEF TuningTypeOK
  <2> QED
    BY <2>2, <2>3, <2>4 DEF TuningTypeOK
<1>5. ASSUME NEW p \in proposals, ApplyProposal(p) PROVE TuningTypeOK'
  <2>1. UNCHANGED <<admitted, realised, proposals>> /\ surface' = [surface EXCEPT ![p.track] = p.weights]
        /\ applied' = Append(applied, p) /\ ValidWeights(p.track, p.weights)
    BY <1>5 DEF ApplyProposal
  <2>2. applied' \in Seq(proposals)
    BY <2>1 DEF TuningTypeOK
  <2>3. DOMAIN surface' = Tracks /\ \A track \in Tracks : ValidWeights(track, surface'[track])
    BY <2>1 DEF TuningTypeOK
  <2> QED
    BY <2>1, <2>2, <2>3 DEF TuningTypeOK
<1> QED
    BY <1>1, <1>2, <1>3, <1>4, <1>5 DEF TuningNext

LEMMA FoldsPure == TuningTypeOK => PurgedFoldsDoNotLeak
<1> SUFFICES ASSUME TuningTypeOK, NEW w \in DOMAIN realised, Foldable(realised[w])
             PROVE  /\ \A k \in 1..CV_FOLDS : \A i \in Fold(realised[w], k).train, j \in Fold(realised[w], k).test :
                          realised[w][i].exit < realised[w][j].entry
                    /\ \A k, l \in 1..CV_FOLDS : k # l => Fold(realised[w], k).test \cap Fold(realised[w], l).test = {}
                    /\ Cardinality(UNION {Fold(realised[w], k).test : k \in 1..CV_FOLDS})
                         = Len(realised[w]) - PartEnd(Len(realised[w]), CV_FOLDS + 1, 1)
    BY DEF PurgedFoldsDoNotLeak
<1>1. PICK ts \in Seq(Trade) : ts = realised[w]
    BY TuningAssumption DEF TuningTypeOK
<1>2. \A k \in 1..CV_FOLDS : k \in Nat
    BY TuningAssumption
<1>3. \A k \in 1..CV_FOLDS : \A i \in Fold(ts, k).train, j \in Fold(ts, k).test :
         ts[i].exit < ts[j].entry
    BY <1>2, FoldsDoNotLeak
<1>4. Foldable(ts)
    BY <1>1
<1>5. /\ \A k, l \in 1..CV_FOLDS : k # l => Fold(ts, k).test \cap Fold(ts, l).test = {}
      /\ Cardinality(UNION {Fold(ts, k).test : k \in 1..CV_FOLDS})
           = Len(ts) - PartEnd(Len(ts), CV_FOLDS + 1, 1)
    BY <1>4, FoldsSeparate
<1> QED
    BY <1>1, <1>3, <1>5

(* The weights live, proposed or applied keep the locked structure: whole,  *)
(* none negative, of the locked sum, the locked zeros unfunded              *)
(* (optimizer.py validate_weights, weights_store.py apply_proposal).        *)
THEOREM WeightsStayValid == TuningSpec => []TuningTypeOK
BY TuningStart, TuningStep, PTL DEF TuningSpec

(* No fold of a candidate's trades is trained on what its test shows,       *)
(* whatever the trades, the number of folds and the ties among the entries  *)
(* (ml/cv.py purged_walk_forward).                                          *)
THEOREM FoldsStayPure == TuningSpec => []PurgedFoldsDoNotLeak
BY TuningStart, TuningStep, FoldsPure, PTL DEF TuningSpec

-----------------------------------------------------------------------------
(* The search                                                               *)

Keys == Range(Components)

LEMMA KeysFinite == IsFiniteSet(Keys)
<1>1. Components \in Seq(Keys) /\ Len(Components) \in Nat
    BY TuningAssumption DEF Keys
<1>2. PICK n \in Nat : n = Len(Components) /\ DOMAIN Components = 1..n
    BY <1>1
<1>3. IsFiniteSet(DOMAIN Components)
    BY <1>2, 1 \in Int, n \in Int, FS_Interval
<1>4. Components \in Surjection(DOMAIN Components, Keys)
    BY <1>1 DEF Surjection, Keys, Range
<1> QED
    BY <1>3, <1>4, FS_Surjection

LEMMA ValidIsSum ==
    ASSUME NEW track, NEW w
    PROVE  ValidWeights(track, w) <=> /\ w \in [Keys -> Nat] /\ SetSum(w, Keys) = WEIGHT_SUM
                                      /\ \A c \in LockedZeros[track] : w[c] = 0
<1>1. MapThenSumSet(LAMBDA c : w[c], Keys) = SetSum(w, Keys)
    BY DEF MapThenSumSet, MapThenFoldSet, SetSum, SumsUp, Picked
<1> QED
    BY <1>1 DEF ValidWeights, Keys

(* A shift keeps the locked structure.                                      *)
LEMMA ShiftKeeps ==
    ASSUME NEW track \in Tracks, NEW w, ValidWeights(track, w), NEW from \in Keys, NEW to \in Keys,
           Movable(track, w, from, to)
    PROVE  ValidWeights(track, Shift(w, from, to))
<1> DEFINE v == Shift(w, from, to)
           rest == (Keys \ {from}) \ {to}
<1>1. w \in [Keys -> Nat] /\ SetSum(w, Keys) = WEIGHT_SUM /\ \A c \in LockedZeros[track] : w[c] = 0
    BY ValidIsSum
<1>2. from # to /\ from \notin LockedZeros[track] /\ to \notin LockedZeros[track] /\ w[from] >= WEIGHT_STEP /\ WEIGHT_STEP \in Nat
    BY TuningAssumption DEF Movable
<1>3. /\ v[from] = w[from] - WEIGHT_STEP /\ v[to] = w[to] + WEIGHT_STEP
      /\ \A c \in Keys \ {from, to} : v[c] = w[c]
      /\ DOMAIN v = Keys /\ v = [c \in Keys |-> v[c]]
    BY <1>1, <1>2 DEF Shift
<1>4. v \in [Keys -> Nat]
    BY <1>1, <1>2, <1>3
<1>5. \A c \in LockedZeros[track] : v[c] = 0
  <2>1. LockedZeros[track] \subseteq Keys
    BY TuningAssumption DEF Tracks, Keys
  <2> QED
    BY <1>1, <1>2, <1>3, <2>1
<1> HIDE DEF v
<1>6. IsFiniteSet(Keys) /\ IsFiniteSet(Keys \ {from}) /\ IsFiniteSet(rest)
    BY KeysFinite, FS_RemoveElement
<1>7. /\ \A x \in Keys : w[x] \in Int /\ v[x] \in Int
      /\ to \in Keys \ {from}
    BY <1>1, <1>2, <1>4
<1>8. SetSum(w, Keys) = w[from] + SetSum(w, Keys \ {from}) /\ SetSum(v, Keys) = v[from] + SetSum(v, Keys \ {from})
    BY <1>6, <1>7, SetSumRemove
<1>9. /\ SetSum(w, Keys \ {from}) = w[to] + SetSum(w, rest)
      /\ SetSum(v, Keys \ {from}) = v[to] + SetSum(v, rest)
    BY <1>6, <1>7, SetSumRemove
<1>10. SetSum(v, rest) = SetSum(w, rest)
    BY <1>3, <1>6, SumStands
<1>11. SetSum(w, rest) \in Int
    BY <1>6, <1>7, SetSumInt
<1>12. SetSum(v, Keys) = SetSum(w, Keys)
    BY <1>2, <1>3, <1>7, <1>8, <1>9, <1>10, <1>11
<1>13. ValidWeights(track, v)
    BY <1>1, <1>4, <1>5, <1>12, ValidIsSum
<1> QED
    BY <1>13 DEF v

(* One pass over the neighbours, as a function of how far it has gone.      *)
From(x) == Components[(x - 1) \div Len(Components) + 1]
To(x) == Components[((x - 1) % Len(Components)) + 1]
Try(track, at, acc, x) ==
    IF Movable(track, at.weights, From(x), To(x))
    THEN Better(acc, Shift(at.weights, From(x), To(x)), TrainObjective(realised[Shift(at.weights, From(x), To(x))]))
    ELSE acc
Tries(track, at, m, f) == \A x \in 0..m : f[x] = IF x = 0 THEN at ELSE Try(track, at, f[x - 1], x)

LEMMA PairsAreKeys ==
    ASSUME NEW n \in Nat, n = Len(Components), NEW x \in 1..(n * n)
    PROVE  From(x) \in Keys /\ To(x) \in Keys
<1>1. Components \in Seq(Keys) /\ \A i \in 1..n : Components[i] \in Keys
    BY TuningAssumption DEF Keys
<1>2. n # 0 /\ n * n \in Nat
    OBVIOUS
<1>3. PICK y \in Nat : y = x - 1 /\ y < n * n
    BY <1>2
<1>4. PICK q \in Nat, r \in Nat : r < n /\ y = n * q + r /\ y \div n = q /\ y % n = r
  <2> DEFINE a == y \div n
             b == y % n
  <2>1. a \in Nat /\ b \in Nat /\ b < n /\ y = n * a + b
    BY <1>2
  <2> HIDE DEF a, b
  <2>2. \E q \in Nat, r \in Nat : r < n /\ y = n * q + r /\ a = q /\ b = r
    BY <2>1
  <2> QED
    BY <2>2 DEF a, b
<1>5. q < n
  <2> SUFFICES ASSUME q >= n PROVE FALSE
    OBVIOUS
  <2>1. n * n <= q * n
    BY Multiples
  <2> QED
    BY <1>2, <1>3, <1>4, <2>1
<1>6. q + 1 \in 1..n /\ r + 1 \in 1..n
    BY <1>4, <1>5
<1> QED
    BY <1>1, <1>3, <1>4, <1>6 DEF From, To

TriesAll(track, at, n, f) == f = [x \in 0..n |-> IF x = 0 THEN at ELSE Try(track, at, f[x - 1], x)]

LEMMA TriesExist ==
    ASSUME NEW track, NEW at, NEW n \in Nat
    PROVE  \E f : TriesAll(track, at, n, f)
<1> DEFINE C == {m \in 0..n : ~\E f : Tries(track, at, m, f)}
<1>1. C = {}
  <2> SUFFICES ASSUME C # {} PROVE FALSE
    OBVIOUS
  <2>1. PICK m \in C : \A k \in C : m <= k
    <3>1. C \in SUBSET Nat
      OBVIOUS
    <3> HIDE DEF C
    <3> QED
      BY <3>1, LeastNat
  <2>2. m # 0
    <3> SUFFICES ASSUME m = 0 PROVE FALSE
      OBVIOUS
    <3>1. Tries(track, at, 0, [x \in {0} |-> at])
      BY DEF Tries
    <3> QED
      BY <3>1
  <2>3. PICK l \in 0..n : l = m - 1 /\ l \notin C
    BY <2>1, <2>2
  <2>4. PICK f : Tries(track, at, l, f)
    BY <2>3
  <2> DEFINE g == [x \in 0..m |-> IF x = m THEN Try(track, at, f[l], m) ELSE f[x]]
  <2>5. g[m] = Try(track, at, f[l], m) /\ (\A x \in 0..l : g[x] = f[x]) /\ m \in Nat /\ l \in Nat
    BY <2>3
  <2> HIDE DEF g
  <2>6. ASSUME NEW x \in 0..m PROVE g[x] = IF x = 0 THEN at ELSE Try(track, at, g[x - 1], x)
    <3>1. CASE x = m
      BY <2>2, <2>3, <2>5, <3>1
    <3>2. CASE x # m
      <4>1. x \in 0..l /\ (x # 0 => x - 1 \in 0..l)
        BY <2>3, <2>5, <3>2
      <4> QED
        BY <2>4, <2>5, <4>1 DEF Tries
    <3> QED
      BY <3>1, <3>2
  <2>7. Tries(track, at, m, g)
    BY <2>6 DEF Tries
  <2> QED
    BY <2>1, <2>7
<1>2. PICK f : Tries(track, at, n, f)
    BY <1>1
<1> DEFINE g == [x \in 0..n |-> f[x]]
<1>3. ASSUME NEW x \in 0..n PROVE f[x] = IF x = 0 THEN at ELSE Try(track, at, g[x - 1], x)
    BY <1>2 DEF Tries
<1>4. g = [x \in 0..n |-> IF x = 0 THEN at ELSE Try(track, at, g[x - 1], x)]
    BY <1>3
<1> QED
    BY <1>4 DEF TriesAll

LEMMA PassKeeps ==
    ASSUME NEW track \in Tracks, NEW at, ValidWeights(track, at.weights)
    PROVE  ValidWeights(track, Pass(track, at).weights)
<1>1. PICK n \in Nat : n = Len(Components)
    BY TuningAssumption
<1>2. PICK N \in Nat : N = n * n
    OBVIOUS
<1> DEFINE t == CHOOSE f : TriesAll(track, at, N, f)
<1>3. Pass(track, at) = t[N]
    BY <1>1, <1>2 DEF Pass, TriesAll, Try, From, To
<1>4. TriesAll(track, at, N, t)
    BY TriesExist
<1>5. \A x \in 0..N : t[x] = IF x = 0 THEN at ELSE Try(track, at, t[x - 1], x)
    BY <1>4 DEF TriesAll
<1> HIDE DEF t
<1> DEFINE C == {x \in 0..N : ~ValidWeights(track, t[x].weights)}
<1>6. C = {}
  <2> SUFFICES ASSUME C # {} PROVE FALSE
    OBVIOUS
  <2>1. PICK m \in C : \A k \in C : m <= k
    <3>1. C \in SUBSET Nat
      OBVIOUS
    <3> HIDE DEF C
    <3> QED
      BY <3>1, LeastNat
  <2>2. m # 0
    BY <1>5
  <2>3. PICK l \in 0..N : l = m - 1 /\ l \notin C
    BY <2>1, <2>2
  <2>4. ValidWeights(track, t[l].weights) /\ t[m] = Try(track, at, t[l], m)
    BY <1>5, <2>2, <2>3
  <2>5. From(m) \in Keys /\ To(m) \in Keys
    BY <1>1, <1>2, <2>2, PairsAreKeys
  <2>6. Movable(track, at.weights, From(m), To(m)) => ValidWeights(track, Shift(at.weights, From(m), To(m)))
    BY <2>5, ShiftKeeps
  <2>7. ValidWeights(track, t[m].weights)
    BY <2>4, <2>6 DEF Try, Better
  <2> QED
    BY <2>7
<1> QED
    BY <1>3, <1>6

\* the climb, as a function of the passes made
Climbs(track, start, m, f) ==
    \A n \in 0..m : f[n] = IF n = 0 THEN [weights |-> start, best |-> TrainObjective(realised[start])] ELSE Pass(track, f[n - 1])

ClimbsAll(track, start, last, f) ==
    f = [n \in 0..last |-> IF n = 0 THEN [weights |-> start, best |-> TrainObjective(realised[start])]
                           ELSE Pass(track, f[n - 1])]

LEMMA ClimbExists ==
    ASSUME NEW track, NEW start, NEW last \in Nat
    PROVE  \E f : ClimbsAll(track, start, last, f)
<1> DEFINE C == {m \in 0..last : ~\E f : Climbs(track, start, m, f)}
           at == [weights |-> start, best |-> TrainObjective(realised[start])]
<1>1. C = {}
  <2> SUFFICES ASSUME C # {} PROVE FALSE
    OBVIOUS
  <2>1. PICK m \in C : \A k \in C : m <= k
    <3>1. C \in SUBSET Nat
      OBVIOUS
    <3> HIDE DEF C
    <3> QED
      BY <3>1, LeastNat
  <2>2. m # 0
    <3> SUFFICES ASSUME m = 0 PROVE FALSE
      OBVIOUS
    <3>1. Climbs(track, start, 0, [x \in {0} |-> at])
      BY DEF Climbs
    <3> QED
      BY <3>1
  <2>3. PICK l \in 0..last : l = m - 1 /\ l \notin C
    BY <2>1, <2>2
  <2>4. PICK f : Climbs(track, start, l, f)
    BY <2>3
  <2> DEFINE g == [x \in 0..m |-> IF x = m THEN Pass(track, f[l]) ELSE f[x]]
  <2>5. g[m] = Pass(track, f[l]) /\ (\A x \in 0..l : g[x] = f[x]) /\ m \in Nat /\ l \in Nat
    BY <2>3
  <2> HIDE DEF g
  <2>6. ASSUME NEW x \in 0..m PROVE g[x] = IF x = 0 THEN at ELSE Pass(track, g[x - 1])
    <3>1. CASE x = m
      BY <2>2, <2>3, <2>5, <3>1
    <3>2. CASE x # m
      <4>1. x \in 0..l /\ (x # 0 => x - 1 \in 0..l)
        BY <2>3, <2>5, <3>2
      <4> QED
        BY <2>4, <2>5, <4>1 DEF Climbs
    <3> QED
      BY <3>1, <3>2
  <2>7. Climbs(track, start, m, g)
    BY <2>6 DEF Climbs
  <2> QED
    BY <2>1, <2>7
<1>2. PICK f : Climbs(track, start, last, f)
    BY <1>1
<1> DEFINE g == [x \in 0..last |-> f[x]]
<1>3. ASSUME NEW x \in 0..last PROVE f[x] = IF x = 0 THEN at ELSE Pass(track, g[x - 1])
    BY <1>2 DEF Climbs
<1>4. g = [x \in 0..last |-> IF x = 0 THEN at ELSE Pass(track, g[x - 1])]
    BY <1>3
<1> QED
    BY <1>4 DEF ClimbsAll

LEMMA SearchKeeps ==
    ASSUME NEW track \in Tracks, NEW start, ValidWeights(track, start)
    PROVE  ValidWeights(track, Search(track, start))
<1>1. MaxIters \in Nat
    BY TuningAssumption
<1> DEFINE at == [weights |-> start, best |-> TrainObjective(realised[start])]
           t == CHOOSE f : ClimbsAll(track, start, MaxIters, f)
<1>2. Search(track, start) = t[MaxIters].weights
    BY DEF Search, ClimbsAll
<1>3. ClimbsAll(track, start, MaxIters, t)
    BY <1>1, ClimbExists
<1>4. \A n \in 0..MaxIters : t[n] = IF n = 0 THEN at ELSE Pass(track, t[n - 1])
    BY <1>3 DEF ClimbsAll
<1> HIDE DEF t
<1> DEFINE C == {n \in 0..MaxIters : ~ValidWeights(track, t[n].weights)}
<1>5. C = {}
  <2> SUFFICES ASSUME C # {} PROVE FALSE
    OBVIOUS
  <2>1. PICK m \in C : \A k \in C : m <= k
    <3>1. C \in SUBSET Nat
      OBVIOUS
    <3> HIDE DEF C
    <3> QED
      BY <3>1, LeastNat
  <2>2. m # 0
    BY <1>1, <1>4
  <2>3. PICK l \in 0..MaxIters : l = m - 1 /\ l \notin C
    BY <1>1, <2>1, <2>2
  <2>4. ValidWeights(track, t[l].weights) /\ t[m] = Pass(track, t[l])
    BY <1>4, <2>2, <2>3
  <2> QED
    BY <2>4, PassKeeps
<1> QED
    BY <1>1, <1>2, <1>5

LEMMA SearchesKeep == TuningTypeOK => SearchKeepsStructure
BY SearchKeeps, IncumbentAssumption DEF TuningTypeOK, SearchKeepsStructure, Tracks

(* The search ends on weights of the locked structure, whatever the         *)
(* backtests say of them: the check of optimizer.py:168 never fails.        *)
THEOREM SearchKeepsWeights == TuningSpec => []SearchKeepsStructure
BY TuningStart, TuningStep, SearchesKeep, PTL DEF TuningSpec

-----------------------------------------------------------------------------
(* Volume profiles                                                          *)

(* The bucket of a price is one of the profile's.                           *)
LEMMA IndexIsBucket ==
    ASSUME NEW price \in Int, NEW lo \in Int, NEW hi \in Int, lo < hi, lo <= price
    PROVE  IndexOf(price, lo, hi) \in Buckets
<1>1. PICK m \in Int, w \in Nat \ {0} : m = (price - lo) * VP_BUCKETS /\ w = hi - lo
    BY ConfigAssumption
<1>2. 0 * w <= m
    BY <1>1, ConfigAssumption
<1>3. m \div w \in Int /\ 0 <= m \div w
    BY <1>2, QuotientFits
<1>4. PICK q \in Nat : q = m \div w
    BY <1>3
<1>5. IndexOf(price, lo, hi) = Min({VP_BUCKETS - 1, q})
    BY <1>1, <1>4 DEF IndexOf
<1>6. VP_BUCKETS - 1 \in Nat
    BY ConfigAssumption
<1> QED
    BY <1>4, <1>5, <1>6, MinOfTwo DEF Buckets

(* A bar within the range of its profile.                                   *)
Within(b, lo, hi) ==
    /\ b.low \in Nat /\ b.high \in Nat /\ b.volume \in Nat
    /\ lo \in Int /\ hi \in Int /\ lo < hi /\ lo <= b.low /\ b.high <= hi
    /\ b.low < b.high => VP_UNIT % ((b.high - b.low) * VP_BUCKETS) = 0

(* A price brought between two others.                                      *)
Bound(x, low, high) == IF x < low THEN low ELSE IF x > high THEN high ELSE x

(* What two levels leave between them of a range is the overlap of the      *)
(* range with their span.                                                   *)
LEMMA BoundApart ==
    ASSUME NEW low \in Int, NEW high \in Int, low < high, NEW x \in Int, NEW y \in Int, x < y,
           NEW over, over = Min({high, y}) - Max({low, x})
    PROVE  /\ over \in Int
           /\ over > 0 => over = Bound(y, low, high) - Bound(x, low, high) /\ low < y /\ x < high
           /\ ~(over > 0) => Bound(y, low, high) - Bound(x, low, high) = 0
<1>1. Min({high, y}) = (IF high <= y THEN high ELSE y) /\ Max({low, x}) = (IF low <= x THEN x ELSE low)
    BY MinOfTwo, MaxOfTwo
<1> QED
    BY <1>1 DEF Bound

LEMMA BucketsFinite == IsFiniteSet(Buckets) /\ Buckets # {} /\ Buckets \subseteq Nat
<1>1. PICK m \in Nat : m = VP_BUCKETS - 1
    BY ConfigAssumption
<1>2. Buckets = 0..m
    BY <1>1 DEF Buckets
<1>3. IsFiniteSet(0..m)
    BY FS_Interval
<1> QED
    BY <1>2, <1>3

(* A bar without a range leaves all it traded in one bucket.                *)
LEMMA FlatBarSpread ==
    ASSUME NEW b, NEW lo, NEW hi, Within(b, lo, hi), ~(b.low < b.high),
           NEW f, \A i \in Buckets : f[i] = ShareOf(b, i, lo, hi)
    PROVE  (\A i \in Buckets : f[i] \in Nat) /\ SetSum(f, Buckets) = VP_UNIT * b.volume
<1> USE DEF Within
<1>1. PICK k \in Buckets : k = IndexOf(b.low, lo, hi)
    BY IndexIsBucket
<1>2. PICK v \in Nat : v = VP_UNIT * b.volume /\ v = b.volume * VP_UNIT
    BY TapeAssumption
<1>3. \A i \in Buckets : f[i] = IF i = k THEN v ELSE 0
  <2>1. Spread(b) <= 0
    BY DEF Spread
  <2> QED
    BY <1>1, <1>2, <2>1 DEF ShareOf
<1>4. IsFiniteSet(Buckets)
    BY BucketsFinite
<1>5. \A i \in Buckets : f[i] \in Int
    BY <1>2, <1>3
<1>6. SetSum(f, Buckets) = SetSum(f, {k})
    BY ONLY <1>1, <1>3, <1>4, <1>5, SetSumZeros
<1>7. SetSum(f, {k}) = f[k] + SetSum(f, {k} \ {k})
  <2>1. IsFiniteSet({k}) /\ k \in {k} /\ \A x \in {k} : f[x] \in Int
    BY <1>1, <1>5, FS_Singleton
  <2> QED
    BY ONLY <2>1, SetSumRemove
<1>8. {k} \ {k} = {} /\ SetSum(f, {}) = 0
    BY SetSumEmpty
<1>9. f[k] = v
    BY <1>1, <1>3
<1>10. SetSum(f, Buckets) = v + 0
    BY ONLY <1>6, <1>7, <1>8, <1>9
<1>12. v + 0 = v
    OBVIOUS
<1>11. \A i \in Buckets : f[i] \in Nat
    BY ONLY <1>2, <1>3
<1> QED
    BY ONLY <1>2, <1>10, <1>11, <1>12

(* A bar with a range leaves in a bucket what of its range lies there.      *)
LEMMA WideBarShare ==
    ASSUME NEW b, NEW lo, NEW hi, Within(b, lo, hi), b.low < b.high,
           NEW k \in Nat, VP_UNIT = k * ((b.high - b.low) * VP_BUCKETS), NEW i \in Buckets
    PROVE  ShareOf(b, i, lo, hi)
             = (b.volume * k) * (Bound(Edge(i + 1, lo, hi), b.low * VP_BUCKETS, b.high * VP_BUCKETS)
                                   - Bound(Edge(i, lo, hi), b.low * VP_BUCKETS, b.high * VP_BUCKETS))
<1> USE DEF Within
<1>1. PICK n \in Nat \ {0} : n = VP_BUCKETS
    BY ConfigAssumption
<1>2. i \in Int /\ 0 <= i /\ i <= n - 1
    BY <1>1 DEF Buckets
<1>3. PICK low \in Int, high \in Int, x \in Int, y \in Int :
          /\ low = b.low * VP_BUCKETS /\ high = b.high * VP_BUCKETS
          /\ x = Edge(i, lo, hi) /\ y = Edge(i + 1, lo, hi)
    BY <1>1, <1>2 DEF Edge
<1>4. PICK w \in Nat \ {0} : w = hi - lo
    OBVIOUS
<1>5. y = x + w
    BY <1>1, <1>2, <1>3, <1>4 DEF Edge
<1>6. PICK d \in Nat \ {0} : d = Spread(b) * VP_BUCKETS
    BY <1>1 DEF Spread
<1>7. high - low = d
    BY <1>1, <1>3, <1>6 DEF Spread
<1>8. PICK over : over = Min({high, y}) - Max({low, x})
    OBVIOUS
<1>9. /\ over \in Int
      /\ over > 0 => over = Bound(y, low, high) - Bound(x, low, high) /\ low < y /\ x < high
      /\ ~(over > 0) => Bound(y, low, high) - Bound(x, low, high) = 0
  <2>1. low < high /\ x < y
    BY <1>4, <1>5, <1>6, <1>7
  <2> QED
    BY ONLY <1>3, <1>8, <2>1, BoundApart
<1>10. PICK v \in Nat : v = b.volume * k
    OBVIOUS
<1>11. ~(Spread(b) <= 0)
    BY DEF Spread
<1>12. ShareOf(b, i, lo, hi)
         = IF i \in IndexOf(b.low, lo, hi)..IndexOf(b.high, lo, hi) /\ over > 0
             THEN (b.volume * VP_UNIT * over) \div d ELSE 0
    BY <1>3, <1>6, <1>8, <1>11 DEF ShareOf
<1>13. CASE ~(over > 0)
  <2>1. v * 0 = 0
    OBVIOUS
  <2> QED
    BY <1>3, <1>9, <1>10, <1>12, <1>13, <2>1
<1>14. CASE over > 0
  <2>1. IndexOf(b.low, lo, hi) <= i /\ IndexOf(b.low, lo, hi) \in Int
    <3>1. PICK m \in Int : m = (b.low - lo) * VP_BUCKETS
      BY <1>1
    <3>2. m < (i + 1) * w
      BY <1>1, <1>2, <1>3, <1>4, <1>9, <1>14, <3>1 DEF Edge
    <3>3. PICK q \in Int : q = m \div w /\ q <= i
      BY <1>2, <3>2, QuotientFits
    <3>4. IndexOf(b.low, lo, hi) = Min({n - 1, q})
      BY <1>1, <1>4, <3>1, <3>3 DEF IndexOf
    <3> QED
      BY <1>2, <3>3, <3>4, MinOfTwo
  <2>2. i <= IndexOf(b.high, lo, hi) /\ IndexOf(b.high, lo, hi) \in Int
    <3>1. PICK m \in Int : m = (b.high - lo) * VP_BUCKETS
      BY <1>1
    <3>2. i * w <= m
      BY <1>1, <1>2, <1>3, <1>4, <1>9, <1>14, <3>1 DEF Edge
    <3>3. PICK q \in Int : q = m \div w /\ i <= q
      BY <1>2, <3>2, QuotientFits
    <3>4. IndexOf(b.high, lo, hi) = Min({n - 1, q})
      BY <1>1, <1>4, <3>1, <3>3 DEF IndexOf
    <3> QED
      BY <1>2, <3>3, <3>4, MinOfTwo
  <2>3. ShareOf(b, i, lo, hi) = (b.volume * VP_UNIT * over) \div d
    BY <1>2, <1>12, <1>14, <2>1, <2>2
  <2>4. b.volume * VP_UNIT * over = (v * over) * d
    <3>1. VP_UNIT = k * d
      BY <1>6 DEF Spread
    <3>2. \A a, c, e, g \in Int : (a * (c * e)) * g = ((a * c) * g) * e
      OBVIOUS
    <3> QED
      BY ONLY <1>9, <1>6, <1>10, <3>1, <3>2, k \in Int, b.volume \in Int
  <2>5. ((v * over) * d) \div d = v * over
    <3>1. v * over \in Int
      BY <1>9, <1>10
    <3> QED
      BY ONLY <1>6, <3>1, QuotientOfProduct
  <2> QED
    BY ONLY <1>3, <1>9, <1>10, <1>14, <2>3, <2>4, <2>5
<1> QED
    BY <1>13, <1>14

(* A bar leaves in the buckets all that it traded.                          *)
LEMMA BarSpread ==
    ASSUME NEW b, NEW lo, NEW hi, Within(b, lo, hi),
           NEW f, \A i \in Buckets : f[i] = ShareOf(b, i, lo, hi)
    PROVE  (\A i \in Buckets : f[i] \in Nat) /\ SetSum(f, Buckets) = VP_UNIT * b.volume
<1>1. CASE ~(b.low < b.high)
    BY <1>1, FlatBarSpread
<1>2. CASE b.low < b.high
  <2>1. PICK n \in Nat \ {0} : n = VP_BUCKETS
    BY ConfigAssumption
  <2>2. PICK d \in Nat \ {0} : d = (b.high - b.low) * VP_BUCKETS
    BY <1>2, <2>1 DEF Within
  <2>3. PICK k \in Nat : VP_UNIT = k * d
    <3>1. VP_UNIT \in Nat /\ VP_UNIT % d = 0
      BY <1>2, <2>2, TapeAssumption DEF Within
    <3>2. PICK u \in Nat : u = VP_UNIT /\ u % d = 0
      BY <3>1
    <3>3. u \div d \in Nat
      <4>1. 0 * d <= u
        BY <2>2, <3>2
      <4> QED
        BY <4>1, QuotientFits
    <3>4. \A x \in Nat, y \in Nat \ {0} : x % y = 0 => x = (x \div y) * y
      OBVIOUS
    <3>5. u = (u \div d) * d
      BY <3>2, <3>4
    <3> QED
      BY <3>2, <3>3, <3>5
  <2>4. PICK low \in Int, high \in Int : low = b.low * VP_BUCKETS /\ high = b.high * VP_BUCKETS /\ high - low = d
    BY <2>1, <2>2 DEF Within
  <2> DEFINE g == [i \in 0..n |-> Bound(Edge(i, lo, hi), low, high)]
             s == [i \in Buckets |-> g[i + 1] - g[i]]
  <2>5. \A i \in 0..n : g[i] \in Int
    <3>1. ASSUME NEW i \in 0..n PROVE Edge(i, lo, hi) \in Int
      BY <2>1 DEF Edge, Within
    <3>2. \A x \in Int : Bound(x, low, high) \in Int
      BY <2>4 DEF Bound
    <3> QED
      BY <3>1, <3>2
  <2>6. g[0] = low /\ g[n] = high
    <3>1. Edge(0, lo, hi) = lo * n /\ Edge(n, lo, hi) = hi * n
      BY <2>1 DEF Edge, Within
    <3>2. lo * n <= b.low * n /\ b.high * n <= hi * n
      BY ProductGrows DEF Within
    <3>3. Bound(Edge(0, lo, hi), low, high) = low /\ Bound(Edge(n, lo, hi), low, high) = high
      BY <2>1, <2>2, <2>4, <3>1, <3>2 DEF Bound, Within
    <3> QED
      BY <2>1, <3>3
  <2>7. Buckets = 0..(n - 1)
    BY <2>1 DEF Buckets
  <2>8. \A i \in 0..(n - 1) : s[i] = g[i + 1] - g[i]
    BY <2>7
  <2>9. \A i \in Buckets : f[i] = (b.volume * k) * s[i]
    <3>1. SUFFICES ASSUME NEW i \in Buckets PROVE f[i] = (b.volume * k) * s[i]
      OBVIOUS
    <3>2. i \in 0..n /\ i + 1 \in 0..n
      BY <2>1, <2>7
    <3>3. s[i] = Bound(Edge(i + 1, lo, hi), low, high) - Bound(Edge(i, lo, hi), low, high)
      BY <3>2
    <3>4. ShareOf(b, i, lo, hi) = (b.volume * k) * (Bound(Edge(i + 1, lo, hi), b.low * VP_BUCKETS, b.high * VP_BUCKETS)
                                   - Bound(Edge(i, lo, hi), b.low * VP_BUCKETS, b.high * VP_BUCKETS))
      BY <1>2, <2>2, <2>3, WideBarShare
    <3> QED
      BY <2>4, <3>3, <3>4
  <2>10. \A i \in Buckets : s[i] \in Nat
    <3>1. SUFFICES ASSUME NEW i \in Buckets PROVE s[i] \in Nat
      OBVIOUS
    <3>2. i \in 0..n /\ i + 1 \in 0..n
      BY <2>1, <2>7
    <3>3. PICK x \in Int, y \in Int : x = Edge(i, lo, hi) /\ y = Edge(i + 1, lo, hi) /\ x <= y
      BY <2>1, <3>2 DEF Edge, Within
    <3>4. Bound(y, low, high) - Bound(x, low, high) \in Nat
      BY <2>2, <2>4, <3>3 DEF Bound
    <3> QED
      BY <3>2, <3>3, <3>4
  <2>11. SetSum(s, Buckets) = d
    <3>1. SetSum(s, 0..(n - 1)) = g[n] - g[0]
      <4> HIDE DEF s, g
      <4> QED
        BY <2>5, <2>8, SetSumSteps
    <3> QED
      BY <2>4, <2>6, <2>7, <3>1
  <2> HIDE DEF s, g
  <2>12. PICK c \in Nat : c = b.volume * k
    BY DEF Within
  <2>13. SetSum(f, Buckets) = c * SetSum(s, Buckets)
    <3>1. \A i \in Buckets : s[i] \in Int /\ f[i] = c * s[i]
      BY <2>9, <2>10, <2>12
    <3> QED
      BY ONLY <2>12, c \in Int, <3>1, BucketsFinite, SetSumTimes
  <2>14. \A i \in Buckets : f[i] \in Nat
    BY <2>9, <2>10, <2>12
  <2>15. c * d = VP_UNIT * b.volume
    <3>1. \A a, e, h \in Int : (a * e) * h = (e * h) * a
      OBVIOUS
    <3> QED
      BY <2>2, <2>3, <2>12, <3>1 DEF Within
  <2> QED
    BY <2>11, <2>13, <2>14, <2>15
<1> QED
    BY <1>1, <1>2

(* A total of the modules is a sum of SetLemmas.                            *)
LEMMA TotalIs == ASSUME NEW f PROVE Total(f) = SetSum(f, DOMAIN f)
BY DEF Total, FoldSeq, FoldFunction, FoldFunctionOnSet, MapThenFoldSet, SetSum, SumsUp, Picked

(* The buckets hold what the bars traded, and no bucket holds less than     *)
(* nothing.                                                                 *)
LEMMA AllocateKeeps ==
    ASSUME NEW w, IsFiniteSet(DOMAIN w), NEW lo, NEW hi, \A k \in DOMAIN w : Within(w[k], lo, hi),
           NEW vols, vols = Allocate(w, lo, hi)
    PROVE  /\ \A i \in Buckets : vols[i] \in Nat
           /\ SetSum(vols, Buckets) = VP_UNIT * Total(Field("volume", w))
<1>1. PICK K : K = DOMAIN w
    OBVIOUS
<1> DEFINE g == [k \in K |-> [i \in Buckets |-> ShareOf(w[k], i, lo, hi)]]
           h == [i \in Buckets |-> [k \in K |-> ShareOf(w[k], i, lo, hi)]]
           row == [k \in K |-> VP_UNIT * w[k].volume]
           u == Field("volume", w)
<1>2. ASSUME NEW k \in K PROVE (\A i \in Buckets : g[k][i] \in Nat) /\ SetSum(g[k], Buckets) = row[k]
  <2>1. Within(w[k], lo, hi)
    BY <1>1
  <2>2. PICK f : f = g[k]
    OBVIOUS
  <2>3. \A i \in Buckets : f[i] = ShareOf(w[k], i, lo, hi)
    BY <2>2
  <2>4. (\A i \in Buckets : f[i] \in Nat) /\ SetSum(f, Buckets) = VP_UNIT * w[k].volume
    BY ONLY <2>1, <2>3, BarSpread
  <2> QED
    BY <2>2, <2>4
<1>3. \A i \in Buckets : vols[i] = SetSum(h[i], K)
    BY <1>1, TotalIs DEF Allocate
<1>4. \A i \in Buckets, k \in K : h[i][k] = g[k][i]
    OBVIOUS
<1>5. IsFiniteSet(K) /\ IsFiniteSet(Buckets)
    BY <1>1, BucketsFinite
<1>6. DOMAIN u = K /\ \A k \in K : u[k] = w[k].volume /\ u[k] \in Nat
    BY <1>1 DEF Field, Within
<1>7. \A k \in K : row[k] = VP_UNIT * u[k]
    BY <1>6
<1> HIDE DEF g, h, row, u
<1>8. Turned(g, h, K, Buckets) /\ RowSums(row, g, K, Buckets) /\ RowSums(vols, h, Buckets, K)
    BY <1>2, <1>3, <1>4 DEF Turned, RowSums
<1>9. SetSum(row, K) = SetSum(vols, Buckets)
    BY ONLY <1>5, <1>8, SetSumSwap
<1>10. SetSum(row, K) = VP_UNIT * SetSum(u, K)
  <2>1. VP_UNIT \in Int /\ \A k \in K : u[k] \in Int /\ row[k] = VP_UNIT * u[k]
    BY <1>6, <1>7, TapeAssumption
  <2> QED
    BY ONLY <1>5, <2>1, SetSumTimes
<1>11. Total(u) = SetSum(u, K)
    BY <1>6, TotalIs
<1>12. ASSUME NEW i \in Buckets PROVE vols[i] \in Nat
  <2>1. \A k \in K : h[i][k] \in Nat
    BY <1>2, <1>4
  <2>2. SetSum(h[i], K) \in Nat
    BY ONLY <1>5, <2>1, SetSumNat
  <2> QED
    BY <1>3, <2>2
<1> QED
    BY <1>9, <1>10, <1>11, <1>12 DEF u

(* The point of control is a bucket.                                        *)
LEMMA PocIsBucket ==
    ASSUME NEW vols, \A i \in Buckets : vols[i] \in Nat
    PROVE  PointOfControl(vols) \in Buckets
<1> DEFINE V == {vols[i] : i \in Buckets}
<1>1. IsFiniteSet(V) /\ V # {} /\ V \subseteq Int
  <2>1. IsFiniteSet({vols[i] : i \in Buckets})
    BY ONLY BucketsFinite, FiniteImage
  <2>2. PICK i \in Buckets : TRUE
    BY BucketsFinite
  <2>3. vols[i] \in V
    OBVIOUS
  <2>4. \A x \in V : x \in Int
    OBVIOUS
  <2> HIDE DEF V
  <2>5. V # {} /\ V \subseteq Int
    BY ONLY <2>3, <2>4
  <2> QED
    BY <2>1, <2>5 DEF V
<1>2. PICK m : m \in V /\ \A x \in V : x <= m
  <2> HIDE DEF V
  <2> QED
    BY <1>1, FiniteEdges
<1> DEFINE S == {i \in Buckets : vols[i] = m}
<1>3. S # {} /\ S \subseteq Nat
    BY <1>2, BucketsFinite
<1>4. PICK i \in S : \A j \in S : i <= j
  <2> HIDE DEF S
  <2> QED
    BY <1>3, LeastNat
<1>5. \A j \in Buckets : vols[j] < vols[i] \/ (vols[j] = vols[i] /\ i <= j)
    BY <1>2, <1>4
<1>6. \E k \in Buckets : \A j \in Buckets : vols[j] < vols[k] \/ (vols[j] = vols[k] /\ k <= j)
    BY <1>4, <1>5
<1> QED
    BY ONLY <1>6 DEF PointOfControl

\* the growth of the value area, as a function of the buckets taken
Grown(vols, m, g) ==
    \A n \in 0..m : g[n] = IF n = 0 THEN <<PointOfControl(vols), PointOfControl(vols)>> ELSE GrowArea(vols, g[n - 1])

GrownAll(vols, last, g) ==
    g = [n \in 0..last |-> IF n = 0 THEN <<PointOfControl(vols), PointOfControl(vols)>> ELSE GrowArea(vols, g[n - 1])]

LEMMA GrowthExists ==
    ASSUME NEW vols, NEW last \in Nat
    PROVE  \E g : GrownAll(vols, last, g)
<1> DEFINE C == {m \in 0..last : ~\E g : Grown(vols, m, g)}
           at == <<PointOfControl(vols), PointOfControl(vols)>>
<1>1. C = {}
  <2> SUFFICES ASSUME C # {} PROVE FALSE
    OBVIOUS
  <2>1. PICK m \in C : \A k \in C : m <= k
    <3>1. C \in SUBSET Nat
      OBVIOUS
    <3> HIDE DEF C
    <3> QED
      BY <3>1, LeastNat
  <2>2. m # 0
    <3> SUFFICES ASSUME m = 0 PROVE FALSE
      OBVIOUS
    <3>1. Grown(vols, 0, [x \in {0} |-> at])
      BY DEF Grown
    <3> QED
      BY <3>1
  <2>3. PICK l \in 0..last : l = m - 1 /\ l \notin C
    BY <2>1, <2>2
  <2>4. PICK f : Grown(vols, l, f)
    BY <2>3
  <2> DEFINE g == [x \in 0..m |-> IF x = m THEN GrowArea(vols, f[l]) ELSE f[x]]
  <2>5. g[m] = GrowArea(vols, f[l]) /\ (\A x \in 0..l : g[x] = f[x]) /\ m \in Nat /\ l \in Nat
    BY <2>3
  <2> HIDE DEF g
  <2>6. ASSUME NEW x \in 0..m PROVE g[x] = IF x = 0 THEN at ELSE GrowArea(vols, g[x - 1])
    <3>1. CASE x = m
      BY <2>2, <2>3, <2>5, <3>1
    <3>2. CASE x # m
      <4>1. x \in 0..l /\ (x # 0 => x - 1 \in 0..l)
        BY <2>3, <2>5, <3>2
      <4> QED
        BY <2>4, <2>5, <4>1 DEF Grown
    <3> QED
      BY <3>1, <3>2
  <2>7. Grown(vols, m, g)
    BY <2>6 DEF Grown
  <2> QED
    BY <2>1, <2>7
<1>2. PICK f : Grown(vols, last, f)
    BY <1>1
<1> DEFINE g == [x \in 0..last |-> f[x]]
<1>3. ASSUME NEW x \in 0..last PROVE f[x] = IF x = 0 THEN at ELSE GrowArea(vols, g[x - 1])
    BY <1>2 DEF Grown
<1>4. g = [x \in 0..last |-> IF x = 0 THEN at ELSE GrowArea(vols, g[x - 1])]
    BY <1>3
<1> QED
    BY <1>4 DEF GrownAll

\* the volumes of a profile, what an area holds, and whether that is enough
Volumes(vols) == (\A i \in Buckets : vols[i] \in Nat) /\ SetSum(vols, Buckets) > 0
Enough(vols, S) == 1000 * SetSum(vols, S) >= VP_VALUE_AREA_PCT * SetSum(vols, Buckets)

\* an area around the point of control, that no end was added to in vain
AreaAfter(vols, n, a) ==
    \E x, y \in Buckets :
        /\ a = <<x, y>>
        /\ PointOfControl(vols) \in x..y
        /\ \/ x = y
           \/ \E end \in {x, y} \ {PointOfControl(vols)} : ~Enough(vols, (x..y) \ {end})
        /\ Enough(vols, x..y) \/ y - x >= n

LEMMA AllIsEnough == ASSUME NEW vols, Volumes(vols) PROVE Enough(vols, Buckets)
<1>1. PICK m \in Nat : m = SetSum(vols, Buckets)
    BY BucketsFinite, SetSumNat DEF Volumes
<1> QED
    BY <1>1 DEF Enough, VP_VALUE_AREA_PCT

(* A bucket is added to an area that does not hold enough yet.              *)
LEMMA AreaGrows ==
    ASSUME NEW vols, Volumes(vols), NEW n \in Nat, NEW a, AreaAfter(vols, n, a)
    PROVE  AreaAfter(vols, n + 1, GrowArea(vols, a))
<1>1. PICK x \in Buckets, y \in Buckets :
        /\ a = <<x, y>>
        /\ PointOfControl(vols) \in x..y
        /\ \/ x = y
           \/ \E end \in {x, y} \ {PointOfControl(vols)} : ~Enough(vols, (x..y) \ {end})
        /\ Enough(vols, x..y) \/ y - x >= n
    BY DEF AreaAfter
<1>2. a[1] = x /\ a[2] = y
    BY <1>1
<1>3. PICK m \in Nat : m = VP_BUCKETS - 1 /\ Buckets = 0..m
  <2>1. PICK m \in Nat : m = VP_BUCKETS - 1
    BY ConfigAssumption
  <2>2. Buckets = 0..m
    BY <2>1 DEF Buckets
  <2> QED
    BY <2>1, <2>2
<1>4. PICK p : p = PointOfControl(vols)
    OBVIOUS
<1>5. (1000 * SumOver(vols, x..y) >= VP_VALUE_AREA_PCT * SumOver(vols, Buckets)) <=> Enough(vols, x..y)
    BY SumOverIs DEF Enough
<1>6. CASE Enough(vols, x..y)
  <2>1. GrowArea(vols, a) = a
    BY <1>2, <1>5, <1>6 DEF GrowArea
  <2> QED
    BY <1>1, <1>6, <2>1 DEF AreaAfter
<1>7. CASE ~Enough(vols, x..y)
  <2>1. ~(x = 0 /\ y = m)
    BY <1>3, <1>7, AllIsEnough
  <2>2. a # <<0, VP_BUCKETS - 1>>
    BY <1>1, <1>3, <2>1
  <2> DEFINE below == IF x > 0 THEN vols[x - 1] ELSE -1
             above == IF y < m THEN vols[y + 1] ELSE -1
  <2>3. GrowArea(vols, a) = IF above >= below THEN <<x, y + 1>> ELSE <<x - 1, y>>
    BY <1>2, <1>3, <1>5, <1>7, <2>2 DEF GrowArea
  <2>4. y - x >= n /\ p \in x..y /\ x \in 0..m /\ y \in 0..m
    BY <1>1, <1>3, <1>4, <1>7
  <2>5. (above >= below => y < m) /\ (~(above >= below) => x > 0)
    <3>1. \A i \in 0..m : vols[i] \in Nat
      BY <1>3 DEF Volumes
    <3> QED
      BY <2>1, <2>4, <3>1
  <2> HIDE DEF above, below
  <2>6. CASE above >= below
    <3>1. PICK z \in Buckets : z = y + 1
      BY <1>3, <2>4, <2>5, <2>6
    <3>2. GrowArea(vols, a) = <<x, z>>
      BY <2>3, <2>6, <3>1
    <3>3. (x..z) \ {z} = x..y /\ z # p /\ p \in x..z
      BY <2>4, <3>1
    <3>4. z \in {x, z} \ {p} /\ ~Enough(vols, (x..z) \ {z})
      BY <1>7, <3>3
    <3>5. z - x >= n + 1
      BY <2>4, <3>1
    <3> QED
      BY ONLY <1>1, <1>4, <3>1, <3>2, <3>3, <3>4, <3>5 DEF AreaAfter
  <2>7. CASE ~(above >= below)
    <3>1. PICK z \in Buckets : z = x - 1
      BY <1>3, <2>4, <2>5, <2>7
    <3>2. GrowArea(vols, a) = <<z, y>>
      BY <2>3, <2>7, <3>1
    <3>3. (z..y) \ {z} = x..y /\ z # p /\ p \in z..y
      BY <2>4, <3>1
    <3>4. z \in {z, y} \ {p} /\ ~Enough(vols, (z..y) \ {z})
      BY <1>7, <3>3
    <3>5. y - z >= n + 1
      BY <2>4, <3>1
    <3> QED
      BY ONLY <1>1, <1>4, <3>1, <3>2, <3>3, <3>4, <3>5 DEF AreaAfter
  <2> QED
    BY <2>6, <2>7
<1> QED
    BY <1>6, <1>7

(* The value area holds enough, and would not without one of its ends.      *)
LEMMA AreaIsTight ==
    ASSUME NEW vols, Volumes(vols)
    PROVE  AreaAfter(vols, VP_BUCKETS, ValueArea(vols))
<1>1. PICK last \in Nat : last = VP_BUCKETS
    BY ConfigAssumption
<1> DEFINE g == CHOOSE f : GrownAll(vols, last, f)
<1>2. ValueArea(vols) = g[last]
    BY <1>1 DEF ValueArea, GrownAll
<1>3. GrownAll(vols, last, g)
    BY GrowthExists
<1>4. \A n \in 0..last : g[n] = IF n = 0 THEN <<PointOfControl(vols), PointOfControl(vols)>> ELSE GrowArea(vols, g[n - 1])
    BY <1>3 DEF GrownAll
<1> HIDE DEF g
<1> DEFINE C == {n \in 0..last : ~AreaAfter(vols, n, g[n])}
<1>5. C = {}
  <2> SUFFICES ASSUME C # {} PROVE FALSE
    OBVIOUS
  <2>1. PICK m \in C : \A k \in C : m <= k
    <3>1. C \in SUBSET Nat
      OBVIOUS
    <3> HIDE DEF C
    <3> QED
      BY <3>1, LeastNat
  <2>2. m # 0
    <3>1. PICK p \in Buckets : p = PointOfControl(vols)
      BY PocIsBucket DEF Volumes
    <3>2. p \in Int /\ p \in p..p /\ p - p >= 0
      BY BucketsFinite
    <3>3. AreaAfter(vols, 0, <<p, p>>)
      BY <3>1, <3>2 DEF AreaAfter
    <3> QED
      BY <1>4, <2>1, <3>1, <3>3
  <2>3. PICK l \in 0..last : m = l + 1 /\ l \notin C
    <3>1. m - 1 \in 0..last /\ m = (m - 1) + 1 /\ m - 1 \notin C
      BY <2>1, <2>2
    <3> QED
      BY <3>1
  <2>4. AreaAfter(vols, l, g[l]) /\ g[m] = GrowArea(vols, g[l])
    BY <1>4, <2>1, <2>2, <2>3
  <2>5. AreaAfter(vols, l + 1, g[m])
    BY <2>4, AreaGrows
  <2> QED
    BY <2>1, <2>3, <2>5
<1> QED
    BY <1>1, <1>2, <1>5

(* A bar of the window has the prices the profile reads.                    *)
LEMMA BarHasRange ==
    ASSUME EngineInv, EngineTypeOK, NEW d \in VpDays(tape)
    PROVE  /\ d \in DOMAIN tape
           /\ tape[d].low \in Nat /\ tape[d].high \in Nat /\ tape[d].volume \in Nat
           /\ tape[d].low < tape[d].high => VP_UNIT % ((tape[d].high - tape[d].low) * VP_BUCKETS) = 0
<1>1. d \in DOMAIN tape /\ tape[d] # Absent /\ Absent \notin {tape[d].high, tape[d].low, tape[d].close, tape[d].volume}
    BY DEF VpDays, HasRange
<1>2. PICK b \in Bars : b = [tape[d] EXCEPT !.day = 0]
    BY <1>1 DEF EngineTypeOK, TapeTypeOK
<1>3. b \in [day : {0}, traded : BOOLEAN, open : Price, high : Price, low : Price, close : Price,
             volume : Price, value : Price, foreign : Int \union {Absent}]
    BY TapeAssumption
<1>4. b.low = tape[d].low /\ b.high = tape[d].high /\ b.volume = tape[d].volume
  <2>1. DOMAIN b = DOMAIN tape[d]
    BY <1>2
  <2>2. {"low", "high", "volume"} \subseteq DOMAIN b
    BY <1>3
  <2> QED
    BY <1>2, <2>1, <2>2
<1>5. b.low \in Price /\ b.high \in Price /\ b.volume \in Price
    BY <1>3
<1>6. b.low \in Nat /\ b.high \in Nat /\ b.volume \in Nat
    BY <1>1, <1>4, <1>5 DEF Price
<1>7. b.low < b.high => VP_UNIT % ((b.high - b.low) * VP_BUCKETS) = 0
  <2>1. Absent \notin {b.low, b.high}
    BY <1>1, <1>4
  <2> QED
    BY <2>1, TapeAssumption
<1> QED
    BY <1>1, <1>4, <1>6, <1>7

LEMMA ProfileIsTrue == EngineInv /\ EngineTypeOK => ProfileHoldsItsVolume
<1> SUFFICES ASSUME EngineInv, EngineTypeOK, NEW p \in {BuildProfile(tape)}, p.available
             PROVE  /\ SumOver(p.vols, Buckets) = VP_UNIT * Total(Field("volume", p.bars))
                    /\ p.poc \in p.area[1]..p.area[2]
                    /\ 1000 * SumOver(p.vols, p.area[1]..p.area[2]) >= VP_VALUE_AREA_PCT * SumOver(p.vols, Buckets)
                    /\ \/ p.area[1] = p.area[2]
                       \/ \E end \in {p.area[1], p.area[2]} \ {p.poc} :
                             1000 * SumOver(p.vols, (p.area[1]..p.area[2]) \ {end})
                               < VP_VALUE_AREA_PCT * SumOver(p.vols, Buckets)
    BY DEF ProfileHoldsItsVolume
<1>1. PICK days : days = LastDays(VP_WINDOW_BARS, VpDays(tape))
    OBVIOUS
<1>2. PICK w : w = [d \in days |-> tape[d]]
    OBVIOUS
<1>3. PICK lo, hi : lo = Min(Lows(w)) /\ hi = Max(Highs(w))
    OBVIOUS
<1>4. PICK vols : vols = Allocate(w, lo, hi)
    OBVIOUS
<1>5. BuildProfile(tape)
        = IF Cardinality(days) < VP_MIN_BARS THEN NoProfile
          ELSE IF hi <= lo \/ SumOver(vols, Buckets) <= 0 THEN NoProfile
          ELSE [available |-> TRUE, bars |-> w, lo |-> lo, hi |-> hi, vols |-> vols,
                poc |-> PointOfControl(vols), area |-> ValueArea(vols), nodes |-> Nodes(vols)]
    BY <1>1, <1>2, <1>3, <1>4 DEF BuildProfile
<1>6. ~(Cardinality(days) < VP_MIN_BARS) /\ ~(hi <= lo \/ SumOver(vols, Buckets) <= 0)
    BY <1>5 DEF NoProfile
<1>7. p.bars = w /\ p.vols = vols /\ p.poc = PointOfControl(vols) /\ p.area = ValueArea(vols)
    BY <1>5, <1>6
<1>8. IsFiniteSet(days) /\ days # {} /\ days \subseteq VpDays(tape)
  <2>1. days \subseteq VpDays(tape) /\ days \subseteq DOMAIN tape
    BY <1>1 DEF LastDays, VpDays
  <2>2. PICK n \in Nat : DOMAIN tape = 1..n
    BY DEF EngineInv
  <2>3. IsFiniteSet(1..n)
    BY FS_Interval
  <2>4. IsFiniteSet(days)
    BY <2>1, <2>2, <2>3, FS_Subset
  <2>5. days # {}
    <3>1. Cardinality({}) = 0
      BY FS_EmptySet
    <3> QED
      BY <1>6, <3>1, ConfigAssumption
  <2> QED
    BY <2>1, <2>4, <2>5
<1>9. \A d \in days : /\ w[d].low \in Nat /\ w[d].high \in Nat /\ w[d].volume \in Nat
                      /\ w[d].low < w[d].high => VP_UNIT % ((w[d].high - w[d].low) * VP_BUCKETS) = 0
    BY <1>2, <1>8, BarHasRange
<1>10. lo \in Int /\ \A d \in days : lo <= w[d].low
  <2> DEFINE f == [d \in days |-> w[d].low]
             L == {f[d] : d \in days}
  <2>1. Lows(w) = L
    BY <1>2 DEF Lows, Range
  <2>2. IsFiniteSet(L)
    BY <1>8, FiniteImage
  <2>3. L # {} /\ L \subseteq Int
    BY <1>8, <1>9
  <2>4. Min(L) \in L /\ \A x \in L : Min(L) <= x
    <3> HIDE DEF L
    <3> QED
      BY <2>2, <2>3, FiniteEdges
  <2>5. \A d \in days : w[d].low \in L
    OBVIOUS
  <2> HIDE DEF L
  <2> QED
    BY <1>3, <2>1, <2>3, <2>4, <2>5
<1>11. hi \in Int /\ \A d \in days : w[d].high <= hi
  <2> DEFINE f == [d \in days |-> w[d].high]
             L == {f[d] : d \in days}
  <2>1. Highs(w) = L
    BY <1>2 DEF Highs, Range
  <2>2. IsFiniteSet(L)
    BY <1>8, FiniteImage
  <2>3. L # {} /\ L \subseteq Int
    BY <1>8, <1>9
  <2>4. Max(L) \in L /\ \A x \in L : x <= Max(L)
    <3> HIDE DEF L
    <3> QED
      BY <2>2, <2>3, FiniteEdges
  <2>5. \A d \in days : w[d].high \in L
    OBVIOUS
  <2> HIDE DEF L
  <2> QED
    BY <1>3, <2>1, <2>3, <2>4, <2>5
<1>12. DOMAIN w = days /\ \A d \in DOMAIN w : Within(w[d], lo, hi)
    BY <1>2, <1>6, <1>9, <1>10, <1>11 DEF Within
<1>13. (\A i \in Buckets : vols[i] \in Nat) /\ SetSum(vols, Buckets) = VP_UNIT * Total(Field("volume", w))
    BY ONLY <1>4, <1>8, <1>12, AllocateKeeps
<1>14. Volumes(vols)
  <2>1. SetSum(vols, Buckets) \in Nat
    BY <1>13, BucketsFinite, SetSumNat
  <2> QED
    BY <1>6, <1>13, <2>1, SumOverIs DEF Volumes
<1>15. PICK x \in Buckets, y \in Buckets :
        /\ p.area = <<x, y>>
        /\ p.poc \in x..y
        /\ x = y \/ \E end \in {x, y} \ {p.poc} : ~Enough(vols, (x..y) \ {end})
        /\ Enough(vols, x..y) \/ y - x >= VP_BUCKETS
    BY <1>7, <1>14, AreaIsTight DEF AreaAfter
<1>16. Enough(vols, x..y)
  <2>1. ~(y - x >= VP_BUCKETS)
    BY ConfigAssumption DEF Buckets
  <2> QED
    BY <1>15, <2>1
<1>17. \A S \in SUBSET Buckets : SetSum(vols, S) \in Nat
  <2> SUFFICES ASSUME NEW S \in SUBSET Buckets PROVE SetSum(vols, S) \in Nat
    OBVIOUS
  <2>1. IsFiniteSet(S) /\ \A i \in S : vols[i] \in Nat
    BY <1>13, BucketsFinite, FS_Subset
  <2> QED
    BY ONLY <2>1, SetSumNat
<1> DEFINE Fat(S) == 1000 * SumOver(p.vols, S) >= VP_VALUE_AREA_PCT * SumOver(p.vols, Buckets)
           Thin(S) == 1000 * SumOver(p.vols, S) < VP_VALUE_AREA_PCT * SumOver(p.vols, Buckets)
<1>18. \A S \in SUBSET Buckets : (Enough(vols, S) => Fat(S)) /\ (~Enough(vols, S) => Thin(S))
    BY <1>7, <1>17, SumOverIs DEF Enough, VP_VALUE_AREA_PCT
<1>19. x..y \in SUBSET Buckets
  <2>1. PICK m \in Int : m = VP_BUCKETS - 1
    BY ConfigAssumption
  <2>2. Buckets = 0..m
    BY <2>1 DEF Buckets
  <2> QED
    BY <2>2
<1>20. p.area[1] = x /\ p.area[2] = y
    BY <1>15
<1>21. SumOver(p.vols, Buckets) = VP_UNIT * Total(Field("volume", p.bars))
    BY <1>7, <1>13, SumOverIs
<1> HIDE DEF Fat, Thin
<1>22. Fat(x..y)
    BY ONLY <1>16, <1>18, <1>19
<1>23. x = y \/ \E end \in {x, y} \ {p.poc} : Thin((x..y) \ {end})
  <2> SUFFICES ASSUME x # y PROVE  \E end \in {x, y} \ {p.poc} : Thin((x..y) \ {end})
    OBVIOUS
  <2>1. PICK end \in {x, y} \ {p.poc} : ~Enough(vols, (x..y) \ {end})
    BY <1>15
  <2>2. (x..y) \ {end} \in SUBSET Buckets
    BY ONLY <1>19
  <2>3. Thin((x..y) \ {end})
    BY ONLY <1>18, <2>1, <2>2
  <2> QED
    BY ONLY <2>1, <2>3
<1>24. p.poc \in x..y
    BY ONLY <1>15
<1>25. /\ p.poc \in p.area[1]..p.area[2]
       /\ Fat(p.area[1]..p.area[2])
       /\ \/ p.area[1] = p.area[2]
          \/ \E end \in {p.area[1], p.area[2]} \ {p.poc} : Thin((p.area[1]..p.area[2]) \ {end})
    BY ONLY <1>20, <1>22, <1>23, <1>24
<1> QED
    BY ONLY <1>21, <1>25 DEF Fat, Thin

-----------------------------------------------------------------------------
(* The same of the parts that run beside each other                         *)

LEMMA DeskStart == DeskInit => PitInv
BY PitStart DEF DeskInit, CatalogInit

LEMMA DeskStep == [DeskNext]_deskVars => [PitNext]_pitVars
<1>1. CatalogNext => [PitNext]_pitVars
    BY DEF CatalogNext, OpenCatalog, SeedAndStart, ScanPattern, ResolveOpen, Estimate, KillAccrual, StoreWritten,
           pitVars
<1>2. ASSUME DeskNext PROVE [PitNext]_pitVars
    BY <1>1, <1>2 DEF DeskNext, patternVars, pitVars
<1> QED
    BY <1>2 DEF deskVars, patternVars, pitVars

(* The books part of the terminal keeps its listing covered (listing.py     *)
(* derive_periods).                                                         *)
THEOREM DeskBooksCovered == DeskSpec => []BooksAreCovered
<1>1. PitInv => BooksAreCovered
    BY PeriodsCover DEF PitInv, DerivedPeriodsCoverBooks, BooksAreCovered
<1> QED
    BY <1>1, DeskStart, DeskStep, PitStep, PTL DEF DeskSpec

(* No name of a replayed universe would have failed the live gate, but for  *)
(* the gap leg (pit.py, gate.py).                                           *)
THEOREM DeskReplayPassesGate == DeskSpec => []ReplayedNamesPassTheGate
<1>1. PitInv => PitAgreesWithGate
    BY GateAgrees
<1>2. PitInv => ReplayedNamesPassTheGate
    BY <1>1 DEF ReplayedNamesPassTheGate
<1> QED
    BY <1>2, DeskStart, DeskStep, PitStep, PTL DEF DeskSpec

(* The views of a market add up: the flow of its sectors is that of its     *)
(* tides, and what the risk report says of the book holds of it: its        *)
(* sectors are all of it, no more days than the tail lose more than the     *)
(* value at risk, and each crowded pair is named once, with a broker behind *)
(* both (foreign_flow.py, sector_rotation.py, heatmap.py, risk_monitor.py). *)
THEOREM DeskShownAddsUp == DeskSpec => []ShownAddsUp
<1>1. PitInv => ShownAddsUp
    BY ViewsMeet, ReportIsTrue DEF ShownAddsUp
<1> QED
    BY <1>1, DeskStart, DeskStep, PitStep, PTL DEF DeskSpec

\* the close of a day touches the bars of that day
LEMMA CloseKeeps == PitInv /\ CloseDay => Kept(today + 1)
<1> SUFFICES ASSUME PitInv, CloseDay PROVE Kept(today + 1)
    OBVIOUS
<1>1. PICK b \in [Symbols -> AnyBar] :
          bars' = [s \in Symbols |-> [bars[s] EXCEPT ![today + 1] = b[s]]]
    BY DEF CloseDay, AnyBar
<1>2. bars \in [Symbols -> [Days -> AnyBar]] /\ today \in Nat
    BY PointInTimeAssumption DEF PitInv, PitTypeOK
<1>3. ASSUME NEW s \in Symbols, NEW d \in Days, d < today + 1 PROVE bars'[s][d] = bars[s][d]
  <2>1. d # today + 1
    BY <1>2, <1>3, DayTypes
  <2> QED
    BY <1>1, <1>2, <2>1
<1> QED
    BY <1>3 DEF Kept, CloseDay, PitInv

(* What was shown for a day, however long ago, is what is shown for it now: *)
(* through every later close, through bars and broker rows stored late for  *)
(* that day or a later one, name by name and in any order, and through      *)
(* whatever else runs, until a row of an earlier day comes late or a roster *)
(* or a listing is loaded (store/db.py _read, write_daily_bars, and every   *)
(* module that takes a decision_ts).  PastStands says the same of every     *)
(* step and every day.                                                      *)
THEOREM DeskPastIsShown == DeskSpec => []PastIsShownAsItWas
<1> DEFINE I == PitInv /\ \A s \in wasShown : s.day \in 1..(MaxDay + 1) /\ s.view = DeskShown(s.day)
<1>1. DeskInit => I
    BY DeskStart DEF DeskInit
<1>2. ASSUME I, [DeskNext]_deskVars PROVE I'
  <2>1. PitInv' /\ today \in Nat /\ MaxDay \in Nat /\ today <= MaxDay
    BY <1>2, DeskStep, PitStep, PointInTimeAssumption DEF PitInv, PitTypeOK
  <2> SUFFICES ASSUME NEW s \in wasShown' PROVE s.day \in 1..(MaxDay + 1) /\ s.view = DeskShown(s.day)'
    BY <2>1
  <2>2. CASE UNCHANGED deskVars
    <3>1. s \in wasShown /\ UNCHANGED pitVars /\ UNCHANGED patternVars
      BY <2>2 DEF deskVars, patternVars, pitVars
    <3>2. Kept(s.day)
      BY <1>2, <3>1 DEF Kept, PitInv, pitVars
    <3> QED
      BY <1>2, <3>1, <3>2, ShownStands DEF pitVars
  <2>3. CASE DeskNext /\ s \in wasShown /\ UNCHANGED <<snapshot, roster>> /\ \A d \in Touched : s.day <= d
    <3>1. s.day \in 1..(MaxDay + 1) /\ s.view = DeskShown(s.day) /\ s.day \in Nat
      BY <1>2, <2>1, <2>3
    <3>2. ASSUME NEW t \in Symbols, NEW d \in Days, d < s.day PROVE bars'[t][d] = bars[t][d]
      <4>1. ~(s.day <= d)
        BY <3>1, <3>2, DayTypes
      <4> QED
        BY <2>3, <4>1 DEF Touched
    <3>3. Kept(s.day)
      BY <1>2, <2>3, <3>2 DEF Kept, PitInv
    <3> QED
      BY <3>1, <3>3, ShownStands
  <2>4. CASE DeskNext /\ part = "market" /\ today' # today /\ s = [day |-> today + 1, view |-> DeskShown(today + 1)]
    <3>1. CloseDay
      BY <2>4 DEF DeskNext, PitNext, StoreLate, Transcribe, LoadListings, LoadRosters
    <3>2. today + 1 \in 1..(MaxDay + 1)
      BY <2>1
    <3>3. s.day = today + 1 /\ s.view = DeskShown(s.day) /\ Kept(s.day)
      BY <1>2, <2>4, <3>1, CloseKeeps
    <3> QED
      BY <3>2, <3>3, ShownStands
  <2>5. ASSUME DeskNext
        PROVE  \/ s \in wasShown /\ UNCHANGED <<snapshot, roster>> /\ \A d \in Touched : s.day <= d
               \/ part = "market" /\ today' # today /\ s = [day |-> today + 1, view |-> DeskShown(today + 1)]
    <3>1. Note
      BY <2>5 DEF DeskNext
    <3> QED
      BY <3>1 DEF Note
  <2> QED
    BY <1>2, <2>2, <2>3, <2>4, <2>5
<1>3. I => PastIsShownAsItWas
    BY DEF PastIsShownAsItWas
<1> QED
    BY <1>1, <1>2, <1>3, PTL DEF DeskSpec

LEMMA DeskTunes == [DeskNext]_deskVars => [TuningNext]_tuningVars
BY DEF DeskNext, deskVars, tuningVars

(* The same where the optimizer runs beside the other parts.                *)
THEOREM DeskFoldsStayPure == DeskSpec => []PurgedFoldsDoNotLeak
<1>1. DeskInit => TuningTypeOK
    BY TuningStart DEF DeskInit
<1> QED
    BY <1>1, DeskTunes, TuningStep, FoldsPure, PTL DEF DeskSpec

(* No step of the search gives a locked zero a weight or loses the sum,     *)
(* where the optimizer runs beside the other parts (optimizer.py).          *)
THEOREM DeskSearchKeepsWeights == DeskSpec => []SearchKeepsStructure
<1>1. DeskInit => TuningTypeOK
    BY TuningStart DEF DeskInit
<1> QED
    BY <1>1, DeskTunes, TuningStep, SearchesKeep, PTL DEF DeskSpec

LEMMA DeskAccesses == [DeskNext]_deskVars => [AccessNext]_accessVars
BY DEF DeskNext, deskVars, accessVars

\* the tape, the engine and the paper run move one store, each in its part
TapeParts == {"tape", "engine", "paper"}

LEMMA DeskPapers == PaperTyped /\ part \in TapeParts /\ [DeskNext]_deskVars => PaperTyped'
<1> SUFFICES ASSUME PaperTyped, part \in TapeParts, [DeskNext]_deskVars PROVE PaperTyped'
    OBVIOUS
<1>1. CASE EngineNext /\ UNCHANGED runVars
  <2>1. firm' \in 0..firm /\ UNCHANGED <<run, stepped, held, trades, ledger>>
    BY <1>1 DEF runVars, PaperTyped, PaperTypeOK
  <2> QED
    BY <1>1, <2>1, StoreTyped
<1>2. CASE [PaperNext]_paperVars
    BY <1>2, PaperTypesStep
<1>3. CASE CloseWith(Absent) /\ UNCHANGED runVars
  <2>1. EngineNext
    BY <1>3 DEF EngineNext
  <2> QED
    BY <1>1, <1>3, <2>1
<1>4. CASE UNCHANGED deskVars
  <2>1. UNCHANGED paperVars
    BY <1>4 DEF deskVars
  <2> QED
    BY <1>2, <2>1
<1>5. ASSUME DeskNext PROVE ((CloseWith(Absent) \/ EngineNext) /\ UNCHANGED runVars) \/ PaperNext
    BY <1>5 DEF DeskNext, TapeParts
<1> QED
    BY <1>1, <1>2, <1>3, <1>4, <1>5

(* Every component keeps its types, and what its bookkeeping says of        *)
(* itself: a request costs no more sends than its retries and its one       *)
(* refresh, a row of the catalog is the only one of its key, a card's rate  *)
(* stands beside its null, a position was opened on a day already stepped   *)
(* (client.py _request, accrual.py, catalog_view.py, runner.py).            *)
THEOREM DeskTypes == DeskSpec => []DeskTypeOK
<1> DEFINE I == /\ AccessTypeOK /\ TuningTypeOK /\ PitInv
                /\ part = "catalog" => CatalogTyped
                /\ part \in TapeParts => PaperTyped
<1>1. DeskInit => I
    BY AccessTypeInit, TuningStart, DeskStart, CatalogTypesStart, PaperTypesStart DEF DeskInit
<1>2. ASSUME I, [DeskNext]_deskVars PROVE I'
  <2>1. AccessTypeOK' /\ TuningTypeOK' /\ PitInv'
    BY <1>2, DeskAccesses, AccessTypeStep, DeskTunes, TuningStep, DeskStep, PitStep
  <2>2. part' = part
    BY <1>2 DEF DeskNext, deskVars
  <2>3. part = "catalog" => [CatalogNext]_patternVars
    BY <1>2 DEF DeskNext, deskVars
  <2>4. part = "catalog" => CatalogTyped'
    BY <1>2, <2>3, CatalogTypesStep
  <2>5. part \in TapeParts => PaperTyped'
    BY <1>2, DeskPapers
  <2> QED
    BY <2>1, <2>2, <2>4, <2>5
<1>3. I => DeskTypeOK
  <2> SUFFICES ASSUME I PROVE DeskTypeOK
    OBVIOUS
  <2>1. PitTypeOK
    BY DEF PitInv
  <2>2. part = "catalog" => PitTypeOK /\ CatalogTypeOK
    BY CatalogTypes
  <2>3. part \in TapeParts => EngineTypeOK /\ PaperTypeOK
    BY DEF PaperTyped
  <2> QED
    BY <2>1, <2>2, <2>3 DEF DeskTypeOK, TapeParts
<1> QED
    BY <1>1, <1>2, <1>3, PTL DEF DeskSpec

(* A volume profile loses no volume, and its value area holds seventy per   *)
(* cent and would not without one of its ends (volume_profile.py).          *)
THEOREM DeskProfilesHold == DeskSpec => []ProfilesHoldTheirVolume
<1> DEFINE I == part \in TapeParts => PaperTyped
<1>1. DeskInit => I
    BY PaperTypesStart DEF DeskInit
<1>2. ASSUME I, [DeskNext]_deskVars PROVE I'
  <2>1. part' = part
    BY <1>2 DEF DeskNext, deskVars
  <2> QED
    BY <1>2, <2>1, DeskPapers
<1>3. I => ProfilesHoldTheirVolume
    BY ProfileIsTrue DEF PaperTyped, ProfilesHoldTheirVolume, TapeParts
<1> QED
    BY <1>1, <1>2, <1>3, PTL DEF DeskSpec
=============================================================================
