---------------------------- MODULE SignalProofs ----------------------------
(***************************************************************************)
(* What holds of one symbol, for any tape, broker summaries and slices:    *)
(* what is stored later changes no replay frame, a printed character is    *)
(* never repainted, the candidate readings decide nothing, and the forward *)
(* run, which decides each day on the store of that day, has closed what a *)
(* backtest over the store of today closes, as far back as no row has come *)
(* late.                                                                   *)
(***************************************************************************)
EXTENDS MCDesk, SetLemmas

-----------------------------------------------------------------------------
(* Replay: two stores that agree on what a frame may read show one frame    *)

Agree(was, is, D) ==
    /\ BarsAt(is, D) = BarsAt(was, D)
    /\ FlowDays(is, D) = FlowDays(was, D)
    /\ \A d \in FlowDays(was, D) : is.flows[d] = was.flows[d]
    /\ SlicesAt(is, D) = SlicesAt(was, D)

SideSum(db, S, b, side) ==
    MapThenSumSet(LAMBDA d : IF b \in DOMAIN db.flows[d].book
                             THEN Amount(db.flows[d].book[b][side]) ELSE 0, S)

LEMMA SideAgrees ==
    ASSUME NEW was, NEW is, NEW S, \A d \in S : is.flows[d] = was.flows[d], NEW b, NEW side
    PROVE  SideSum(is, S, b, side) = SideSum(was, S, b, side)
<1> DEFINE W(d) == IF b \in DOMAIN was.flows[d].book THEN Amount(was.flows[d].book[b][side]) ELSE 0
           I(d) == IF b \in DOMAIN is.flows[d].book THEN Amount(is.flows[d].book[b][side]) ELSE 0
           F(it) == [t \in SUBSET S |-> IF t = {} THEN 0
                        ELSE W(CHOOSE x \in t : TRUE) + it[t \ {CHOOSE x \in t : TRUE}]]
           G(it) == [t \in SUBSET S |-> IF t = {} THEN 0
                        ELSE I(CHOOSE x \in t : TRUE) + it[t \ {CHOOSE x \in t : TRUE}]]
<1>1. /\ SideSum(was, S, b, side) = (CHOOSE it : it = F(it))[S]
      /\ SideSum(is, S, b, side) = (CHOOSE it : it = G(it))[S]
    BY DEF SideSum, MapThenSumSet, MapThenFoldSet
<1>2. \A d \in S : I(d) = W(d)
    OBVIOUS
<1> HIDE DEF W, I
<1>3. \A it : F(it) = G(it)
    BY <1>2
<1> HIDE DEF F, G
<1> QED
    BY <1>1, <1>3

LEMMA SnapshotAgrees ==
    ASSUME NEW was, NEW is, NEW D, Agree(was, is, D)
    PROVE  NetsAt(is, D) = NetsAt(was, D) /\ Snapshot(is, D) = Snapshot(was, D)
<1>1. NetsAt(is, D) = NetsAt(was, D) /\ DOMAIN NetsAt(was, D) \in SUBSET FlowDays(was, D)
    BY DEF NetsAt, Agree
<1> SUFFICES ASSUME NEW N, N = NetsAt(was, D) PROVE Snapshot(is, D) = Snapshot(was, D)
    BY <1>1
<1> DEFINE seen == UNION {DOMAIN N[d] : d \in DOMAIN N}
           days == DOMAIN N
           total(db) == [nets |-> N,
                         buy |-> [b \in seen |-> SideSum(db, days, b, "buy")],
                         sell |-> [b \in seen |-> SideSum(db, days, b, "sell")],
                         net |-> [b \in seen |-> [c \in seen |-> SideSum(db, days, c, "buy")][b]
                                                   - [c \in seen |-> SideSum(db, days, c, "sell")][b]],
                         top2_share |-> TopShare(LatestNets(N), 2)]
<1>2. Snapshot(was, D) = total(was)
    BY DEF Snapshot, SideSum
<1>3. Snapshot(is, D) = total(is)
    BY <1>1 DEF Snapshot, SideSum
<1>4. \A b, side : SideSum(is, days, b, side) = SideSum(was, days, b, side)
  <2>1. \A d \in days : is.flows[d] = was.flows[d]
    BY <1>1 DEF Agree
  <2> HIDE DEF days
  <2> QED
    BY <2>1, SideAgrees
<1> HIDE DEF seen, days
<1> QED
    BY <1>2, <1>3, <1>4

LEMMA ReadingsAgree ==
    ASSUME NEW was, NEW is, NEW D, Agree(was, is, D)
    PROVE  Readings(is, D) = Readings(was, D)
<1>1. OwnershipDelta(is, D) = OwnershipDelta(was, D)
    BY DEF OwnershipDelta, Agree
<1> QED
    BY <1>1 DEF Readings, Agree

LEMMA FramesAgree ==
    ASSUME NEW was, NEW is, NEW D, Agree(was, is, D), NEW track
    PROVE  Frame(is, D, track) = Frame(was, D, track)
<1>1. BarsAt(is, D) = BarsAt(was, D)
    BY DEF Agree
<1>2. NetsAt(is, D) = NetsAt(was, D) /\ Snapshot(is, D) = Snapshot(was, D)
    BY SnapshotAgrees
<1>3. Readings(is, D) = Readings(was, D)
    BY ReadingsAgree
<1>4. \A r : Evaluate(is, D, track, r) = Evaluate(was, D, track, r)
    BY <1>1, <1>2 DEF Evaluate
<1>5. \A cls : DecayFlags(is, D, cls) = DecayFlags(was, D, cls)
    BY <1>1, <1>2 DEF DecayFlags
<1>6. \A r, v : Lenses(is, D, r, v) = Lenses(was, D, r, v)
    BY <1>1, <1>2 DEF Lenses, BandarLens
<1> SUFFICES ASSUME NEW t, t = BarsAt(was, D), NEW N, N = NetsAt(was, D),
                    NEW r, r = Readings(was, D), NEW v, v = Evaluate(was, D, track, r)
             PROVE  Frame(is, D, track) = Frame(was, D, track)
    OBVIOUS
<1>7. t = BarsAt(is, D) /\ N = NetsAt(is, D) /\ r = Readings(is, D) /\ v = Evaluate(is, D, track, r)
    BY <1>1, <1>2, <1>3, <1>4
<1>8. DecayFlags(is, D, v) = DecayFlags(was, D, v) /\ Lenses(is, D, r, v) = Lenses(was, D, r, v)
    BY <1>5, <1>6
<1> QED
    BY <1>7, <1>8 DEF Frame

TapeBars == {[b EXCEPT !.day = n] : b \in Bars, n \in Nat} \union {Absent}
FlowRows == [book : Books, stamp : Nat] \union {Absent}

\* as many broker summaries, or gaps, as there are days
EngineInv ==
    /\ tape \in Seq(TapeBars) /\ flows \in Seq(FlowRows) /\ Len(flows) = Len(tape)
    /\ \A s \in ksei : s.stamp \in Nat /\ s.share \in Shares /\ s.day \in Nat /\ s.day <= Len(tape)

LEMMA EngineStart == EngineInit => EngineInv
BY DEF EngineInit, TapeInit, EngineInv

LEMMA TapeGrows ==
    ASSUME EngineInv, TapeNext
    PROVE  \E bar \in TapeBars : tape' = Append(tape, bar)
<1>1. Len(tape) + 1 \in Nat
    BY DEF EngineInv
<1>2. CASE PrintBar
    BY <1>1, <1>2 DEF PrintBar, TapeBars
<1>3. CASE SkipBar
    BY <1>3 DEF SkipBar, TapeBars
<1> QED
    BY <1>2, <1>3 DEF TapeNext

LEMMA CloseGrows ==
    ASSUME EngineInv, NEW book \in Books \union {Absent}, CloseWith(book)
    PROVE  /\ \E bar \in TapeBars : tape' = Append(tape, bar)
           /\ \E row \in FlowRows : flows' = Append(flows, row)
           /\ ksei' = ksei
<1>1. PICK bar \in TapeBars : tape' = Append(tape, bar)
    BY TapeGrows DEF CloseWith
<1>2. Len(tape') \in Nat
    BY <1>1 DEF EngineInv
<1> QED
    BY <1>1, <1>2 DEF CloseWith, FlowRows

\* a bar that fills a past day leaves the tape as long as it was
LEMMA FillKeepsTape ==
    ASSUME EngineInv, NEW d \in DOMAIN tape, NEW b \in Bars, FillBar(d, b)
    PROVE  /\ tape' \in Seq(TapeBars) /\ Len(tape') = Len(tape) /\ DOMAIN tape' = DOMAIN tape
           /\ tape[d] = Absent /\ tape'[d] = [b EXCEPT !.day = d] /\ \A e \in DOMAIN tape \ {d} : tape'[e] = tape[e]
           /\ flows' = flows /\ ksei' = ksei
<1>1. d \in Nat /\ tape \in Seq(TapeBars)
    BY DEF EngineInv
<1>2. PICK bar : bar = [b EXCEPT !.day = d]
    OBVIOUS
<1>3. bar \in TapeBars
    BY <1>1, <1>2 DEF TapeBars
<1>4. tape' = [tape EXCEPT ![d] = bar] /\ tape[d] = Absent /\ flows' = flows /\ ksei' = ksei
    BY <1>2 DEF FillBar
<1> QED
    BY <1>1, <1>2, <1>3, <1>4

LEMMA EngineStep == EngineInv /\ [EngineNext]_engineVars => EngineInv'
<1> SUFFICES ASSUME EngineInv, [EngineNext]_engineVars PROVE EngineInv'
    OBVIOUS
<1>1. ASSUME NEW book \in Books \union {Absent}, CloseWith(book) PROVE EngineInv'
  <2>1. PICK bar \in TapeBars, row \in FlowRows :
          tape' = Append(tape, bar) /\ flows' = Append(flows, row) /\ ksei' = ksei
    BY <1>1, CloseGrows
  <2> QED
    BY <2>1 DEF EngineInv
<1>2. ASSUME NEW d \in DOMAIN flows, NEW book \in Books, NEW stamp \in {d, Len(tape)},
             FetchLate(d, book, stamp)
      PROVE  EngineInv'
  <2>1. [book |-> book, stamp |-> stamp] \in FlowRows
    BY <1>2 DEF EngineInv, FlowRows
  <2> QED
    BY <1>2, <2>1 DEF EngineInv, FetchLate
<1>3. ASSUME NEW day \in SliceDays, NEW share \in Shares, FetchSlice(day, share) PROVE EngineInv'
  <2>1. day \in Nat /\ Len(tape) \in Nat /\ day <= Len(tape)
    BY <1>3, EngineAssumption DEF EngineInv, FetchSlice
  <2> QED
    BY <1>3, <2>1 DEF EngineInv, FetchSlice
<1>4. CASE UNCHANGED engineVars
    BY <1>4 DEF EngineInv, engineVars
<1>5. ASSUME NEW d \in DOMAIN tape, NEW b \in Bars, FillBar(d, b) PROVE EngineInv'
  <2>1. tape' \in Seq(TapeBars) /\ Len(tape') = Len(tape) /\ flows' = flows /\ ksei' = ksei
    BY <1>5, FillKeepsTape
  <2> QED
    BY <2>1 DEF EngineInv
<1> QED
    BY <1>1, <1>2, <1>3, <1>4, <1>5 DEF EngineNext

\* what a step may have changed lies after day D, or was not there before
LEMMA StepAgrees ==
    ASSUME EngineInv, EngineNext, NEW D \in 0..Len(tape), NEW was, was = Store, NEW is, is = Store',
           \A s \in is.ksei \ was.ksei : D < s.stamp,
           \A d \in DOMAIN was.flows : is.flows[d] # was.flows[d] => D < is.flows[d].stamp,
           \A d \in DOMAIN was.tape : is.tape[d] # was.tape[d] => D < d
    PROVE  Agree(was, is, D)
<1>0. /\ was.tape = tape /\ was.flows = flows /\ was.ksei = ksei
      /\ is.tape = tape' /\ is.flows = flows' /\ is.ksei = ksei'
    BY DEF Store
<1>1. D \in Nat /\ D <= Len(tape) /\ Len(flows) = Len(tape) /\ Len(tape) \in Nat
      /\ tape \in Seq(TapeBars) /\ flows \in Seq(FlowRows)
    BY DEF EngineInv
<1>2. /\ \A d \in 1..D : tape'[d] = tape[d]
      /\ DOMAIN flows \subseteq DOMAIN flows'
      /\ \A d \in DOMAIN flows' \ DOMAIN flows : D < d
      /\ \A d \in DOMAIN flows : flows'[d] = flows[d] \/ flows[d] = Absent
      /\ ksei \subseteq ksei'
  <2>1. ASSUME NEW book \in Books \union {Absent}, CloseWith(book) PROVE <1>2!:
    <3>1. PICK bar \in TapeBars, row \in FlowRows :
            tape' = Append(tape, bar) /\ flows' = Append(flows, row) /\ ksei' = ksei
      BY <2>1, CloseGrows
    <3> QED
      BY <1>1, <3>1
  <2>2. ASSUME NEW d \in DOMAIN flows, NEW book \in Books, NEW stamp \in {d, Len(tape)},
               FetchLate(d, book, stamp)
        PROVE  <1>2!:
    BY <1>1, <2>2 DEF FetchLate
  <2>3. ASSUME NEW day \in SliceDays, NEW share \in Shares, FetchSlice(day, share) PROVE <1>2!:
    BY <1>1, <2>3 DEF FetchSlice
  <2>4. ASSUME NEW d \in DOMAIN tape, NEW b \in Bars, FillBar(d, b) PROVE <1>2!:
    <3>1. \A e \in 1..D : e \in DOMAIN tape /\ ~(D < e)
      BY <1>1
    <3>2. \A e \in 1..D : tape'[e] = tape[e]
      BY <1>0, <3>1
    <3> QED
      BY <1>1, <2>4, <3>2, FillKeepsTape
  <2> QED
    BY <2>1, <2>2, <2>3, <2>4 DEF EngineNext
<1>3. EngineInv'
    BY EngineStep
<1>4. BarsAt(is, D) = BarsAt(was, D)
    BY <1>0, <1>1, <1>2, SameHead DEF BarsAt
<1>5. FlowDays(is, D) = FlowDays(was, D) /\ \A d \in FlowDays(was, D) : is.flows[d] = was.flows[d]
  <2>1. ASSUME NEW d \in FlowDays(is, D) PROVE d \in FlowDays(was, D)
    <3>1. is.flows[d] \in FlowRows /\ is.flows[d] # Absent /\ is.flows[d].stamp <= D /\ d <= D
      BY <1>0, <1>3, <2>1 DEF EngineInv, FlowDays
    <3>2. is.flows[d].stamp \in Nat /\ d \in Nat
      BY <1>0, <1>3, <2>1, <3>1 DEF EngineInv, FlowDays, FlowRows
    <3>3. d \in DOMAIN was.flows
      BY <1>0, <1>1, <1>2, <2>1, <3>1, <3>2 DEF FlowDays
    <3>4. is.flows[d] = was.flows[d]
      BY <1>1, <3>1, <3>2, <3>3
    <3> QED
      BY <3>1, <3>3, <3>4 DEF FlowDays
  <2>2. ASSUME NEW d \in FlowDays(was, D) PROVE is.flows[d] = was.flows[d] /\ d \in FlowDays(is, D)
    BY <1>0, <1>1, <1>2, <2>2 DEF FlowDays
  <2> QED
    BY <2>1, <2>2
<1>6. SlicesAt(is, D) = SlicesAt(was, D)
  <2> DEFINE shown(db) == {s \in db.ksei : s.stamp <= D /\ s.share # Absent}
  <2>1. shown(is) = shown(was)
    <3>1. \A s \in is.ksei : s.stamp \in Nat
      BY <1>0, <1>3 DEF EngineInv
    <3>2. \A s \in is.ksei : s.stamp <= D => s \in was.ksei
      BY <1>1, <3>1
    <3> QED
      BY <1>0, <1>2, <3>2
  <2> QED
    BY <2>1 DEF SlicesAt
<1> QED
    BY <1>4, <1>5, <1>6 DEF Agree

LEMMA EngineKeepsFrames == EngineInv /\ EngineNext => KeepsEarlierFrames
<1> SUFFICES ASSUME EngineInv, EngineNext, NEW D \in DOMAIN tape, NEW track \in {"A", "B"},
                    NEW was \in {Store}, NEW is \in {Store'},
                    \A s \in is.ksei \ was.ksei : D < s.stamp,
                    \A d \in DOMAIN was.flows : is.flows[d] # was.flows[d] => D < is.flows[d].stamp,
                    \A d \in DOMAIN was.tape : is.tape[d] # was.tape[d] => D < d
             PROVE  Frame(is, D, track) = Frame(was, D, track)
    BY DEF KeepsEarlierFrames
<1>1. was = Store /\ is = Store' /\ D \in 0..Len(tape)
    BY DEF EngineInv
<1> QED
    BY <1>1, StepAgrees, FramesAgree

EngineSpec == EngineInit /\ [][EngineNext]_engineVars

(* What is stored for a moment changes no frame before it, whatever late    *)
(* bars, summaries and slices arrive in whatever order (store/db.py _read,  *)
(* replay.py build_frame, engine.py evaluate).                              *)
THEOREM FramesKept == EngineSpec => [][KeepsEarlierFrames]_engineVars
<1>1. EngineInv /\ [EngineNext]_engineVars => [KeepsEarlierFrames]_engineVars
    BY EngineKeepsFrames
<1> QED
    BY <1>1, EngineStart, EngineStep, PTL DEF EngineSpec

(* The same where the engine's part runs.                                   *)
THEOREM DeskFramesKept == DeskSpec => FramesStand
<1> DEFINE I == part = "engine" => EngineInv
<1>1. DeskInit => I
    BY EngineStart DEF DeskInit, PaperInit
<1>2. part = "engine" /\ [DeskNext]_deskVars => part' = "engine" /\ [EngineNext]_engineVars
    BY DEF DeskNext, deskVars, paperVars, runVars, engineVars
<1>3. part' = "engine" /\ [DeskNext]_deskVars => part = "engine"
    BY DEF DeskNext, deskVars
<1>4. I /\ [DeskNext]_deskVars => I'
    BY <1>2, <1>3, EngineStep
<1>5. I /\ [DeskNext]_deskVars => [part = "engine" => KeepsEarlierFrames]_deskVars
  <2> SUFFICES ASSUME I, DeskNext, part = "engine" PROVE KeepsEarlierFrames
    OBVIOUS
  <2>1. EngineNext
    BY DEF DeskNext
  <2> QED
    BY <2>1, EngineKeepsFrames
<1> QED
    BY <1>1, <1>4, <1>5, PTL DEF DeskSpec, FramesStand

-----------------------------------------------------------------------------
(* The readings of LD-13: whatever they are, they weigh nothing             *)

LEMMA WeighAgrees ==
    ASSUME NEW w, NEW K, NEW f, NEW g, DOMAIN f = K, DOMAIN g = K, \A k \in K : w[k] * f[k] = w[k] * g[k]
    PROVE  Weigh(w, f) = Weigh(w, g)
<1> DEFINE W(k) == w[k] * f[k]
           I(k) == w[k] * g[k]
           F(it) == [t \in SUBSET K |-> IF t = {} THEN 0
                        ELSE W(CHOOSE x \in t : TRUE) + it[t \ {CHOOSE x \in t : TRUE}]]
           G(it) == [t \in SUBSET K |-> IF t = {} THEN 0
                        ELSE I(CHOOSE x \in t : TRUE) + it[t \ {CHOOSE x \in t : TRUE}]]
<1>1. /\ Weigh(w, f) = (CHOOSE it : it = F(it))[K]
      /\ Weigh(w, g) = (CHOOSE it : it = G(it))[K]
    BY DEF Weigh, MapThenSumSet, MapThenFoldSet
<1>2. \A k \in K : I(k) = W(k)
    OBVIOUS
<1> HIDE DEF W, I
<1>3. \A it : F(it) = G(it)
    BY <1>2
<1> HIDE DEF F, G
<1> QED
    BY <1>1, <1>3

LEMMA CappedInt == ASSUME NEW x \in Int PROVE Min({1000, x}) \in Int
<1>1. Min({1000, x}) \in {1000, x}
  <2> DEFINE S == {1000, x}
             b == IF x < 1000 THEN x ELSE 1000
  <2>1. S \in SUBSET Int /\ S # {} /\ b \in Int /\ \A y \in S : b <= y
    OBVIOUS
  <2> HIDE DEF S
  <2>2. Min(S) \in S
    BY <2>1, MinOfBounded
  <2> QED
    BY <2>2 DEF S
<1> QED
    BY <1>1

LEMMA ClampedInt == ASSUME NEW x \in Int PROVE Max({0, Min({1000, x})}) \in Int
<1>1. Min({1000, x}) \in Int
    BY CappedInt
<1> SUFFICES ASSUME NEW m \in Int, m = Min({1000, x}) PROVE Max({0, m}) \in Int
    BY <1>1
<1> DEFINE S == {0, m}
           b == IF m < 0 THEN 0 ELSE m
<1>2. S \in SUBSET Int /\ S # {} /\ b \in Int /\ \A y \in S : y <= b
    OBVIOUS
<1> HIDE DEF S
<1>3. Max(S) \in S
    BY <1>2, MaxOfBounded
<1> QED
    BY <1>2, <1>3 DEF S

\* an ownership reading that is available measured a whole change
LEMMA OwnershipMeasured ==
    ASSUME EngineInv, NEW D
    PROVE  OwnershipSubscore(OwnershipDelta(Store, D)) \in Int
<1> DEFINE own == OwnershipDelta(Store, D)
           w == LatestSlices(SlicesAt(Store, D))
           first == CHOOSE s \in w : \A r \in w : s.day <= r.day
           last == CHOOSE s \in w : \A r \in w : r.day <= s.day
<1>1. ~own.available \/ (~(Cardinality(w) < 2) /\ own.available = TRUE /\ own.delta = last.share - first.share)
    BY DEF OwnershipDelta, Unavailable
<1>2. ASSUME ~(Cardinality(w) < 2) PROVE last.share - first.share \in Int
  <2>1. \A s \in w : s.share \in Int /\ s.day \in Nat /\ s.day <= Len(tape)
    <3>1. \A s \in w : s \in ksei /\ s.share # Absent
      BY DEF LatestSlices, SlicesAt, Store
    <3> HIDE DEF w
    <3>2. \A s \in ksei : s.share \in Shares /\ s.day \in Nat /\ s.day <= Len(tape)
      BY DEF EngineInv
    <3>3. \A x \in Shares : x # Absent => x \in Int
      BY EngineAssumption
    <3> QED
      BY <3>1, <3>2, <3>3
  <2>2. w # {}
    BY <1>2, FS_EmptySet
  <2> HIDE DEF w
  <2> DEFINE days == {s.day : s \in w}
  <2>3. days \in SUBSET Int /\ days # {} /\ Len(tape) \in Int
        /\ (\A x \in days : x <= Len(tape)) /\ \A x \in days : 0 <= x
    BY <2>1, <2>2 DEF EngineInv
  <2> HIDE DEF days
  <2>4. Max(days) \in days /\ (\A x \in days : x <= Max(days)) /\ Min(days) \in days /\ \A x \in days : Min(days) <= x
    <3>1. Max(days) \in days /\ \A x \in days : x <= Max(days)
      BY <2>3, MaxOfBounded
    <3>2. 0 \in Int /\ \A x \in days : 0 <= x
      BY <2>3
    <3>3. Min(days) \in days /\ \A x \in days : Min(days) <= x
      BY <2>3, <3>2, MinOfBounded
    <3> QED
      BY <3>1, <3>3
  <2>5. /\ \E s \in w : \A r \in w : r.day <= s.day
        /\ \E s \in w : \A r \in w : s.day <= r.day
    BY <2>4 DEF days
  <2>6. last \in w /\ first \in w
    BY <2>5
  <2> HIDE DEF last, first
  <2> QED
    BY <2>1, <2>6
<1> HIDE DEF w, first, last
<1> SUFFICES ASSUME NEW o, o = own PROVE OwnershipSubscore(o) \in Int
    OBVIOUS
<1> HIDE DEF own
<1>3. CASE ~o.available
    BY <1>3 DEF OwnershipSubscore
<1>4. CASE o.available
  <2>1. o.delta \in Int
    BY <1>1, <1>2, <1>4
  <2>2. (1000 * o.delta) \div OWNERSHIP_FULL_CREDIT_PP \in Int
    BY <2>1 DEF OWNERSHIP_FULL_CREDIT_PP
  <2> QED
    BY <1>4, <2>2, ClampedInt DEF OwnershipSubscore
<1> QED
    BY <1>3, <1>4

\* a verdict names a phase, and its events one after the other
Numbered(s) == \E n \in Nat : DOMAIN s \subseteq 1..n
Verdicts(c) ==
    c = [phase |-> c.phase, events |-> c.events, range |-> c.range] /\ Numbered(c.events)

LEMMA ShortLists ==
    ASSUME NEW e, NEW seen \in {<<>>, <<e>>}
    PROVE  Numbered(seen) /\ \A x, y : Numbered(Append(seen, x)) /\ Numbered(seen \o <<x, y>>)
<1> SUFFICES ASSUME NEW x, NEW y
             PROVE  Numbered(seen) /\ Numbered(Append(seen, x)) /\ Numbered(seen \o <<x, y>>)
    OBVIOUS
<1> DEFINE S == {e, x, y}
<1>1. seen \in Seq(S) /\ x \in S /\ <<x, y>> \in Seq(S)
  <2>1. e \in S /\ x \in S /\ y \in S
    OBVIOUS
  <2> HIDE DEF S
  <2>2. <<>> \in Seq(S) /\ <<e>> \in Seq(S) /\ <<x, y>> \in Seq(S)
    BY <2>1
  <2> QED
    BY <2>1, <2>2
<1>2. Append(seen, x) \in Seq(S) /\ seen \o <<x, y>> \in Seq(S)
    BY <1>1
<1> HIDE DEF S
<1>3. \A s \in Seq(S) : DOMAIN s = 1..Len(s) /\ Len(s) \in Nat
    OBVIOUS
<1> QED
    BY <1>1, <1>2, <1>3 DEF Numbered

LEMMA VerdictNamed == ASSUME NEW w, NEW climax, NEW rng PROVE Verdicts(Verdict(w, climax, rng))
<1> DEFINE e == Event("SELLING_CLIMAX", w[climax])
           seen == IF climax = 0 THEN <<>> ELSE <<e>>
           is(phase, events) == [phase |-> phase, events |-> events, range |-> rng]
<1>1. Numbered(seen) /\ \A x, y : Numbered(Append(seen, x)) /\ Numbered(seen \o <<x, y>>)
  <2> HIDE DEF e
  <2>1. seen \in {<<>>, <<e>>}
    OBVIOUS
  <2> HIDE DEF seen
  <2> QED
    BY <2>1, ShortLists
<1>2. Verdicts(UnknownPhase)
    BY DEF Verdicts, UnknownPhase, Numbered
<1>3. \A phase, events : Numbered(events) => Verdicts(is(phase, events))
    BY DEF Verdicts
<1>4. \/ Verdict(w, climax, rng) = UnknownPhase
      \/ \E phase : Verdict(w, climax, rng) = is(phase, seen)
      \/ \E phase, x : Verdict(w, climax, rng) = is(phase, Append(seen, x))
      \/ \E phase, x, y : Verdict(w, climax, rng) = is(phase, seen \o <<x, y>>)
    BY DEF Verdict
<1> HIDE DEF seen, is
<1> QED
    BY <1>1, <1>2, <1>3, <1>4

LEMMA PhaseNamed == ASSUME NEW t PROVE Verdicts(Classify(t))
<1>1. Verdicts(UnknownPhase)
    BY DEF Verdicts, UnknownPhase, Numbered
<1> QED
    BY <1>1, VerdictNamed DEF Classify, VerdictOver, VerdictFrom

\* notes name no other phase and no other event
LEMMA NotesAnnotate ==
    ASSUME NEW c, Verdicts(c), NEW ribbon, NEW profile, NEW noted, noted = Corroborate(c, ribbon, profile)
    PROVE  /\ noted.phase = c.phase /\ Numbered(noted.events)
           /\ EventKinds(noted) = EventKinds(c)
<1> DEFINE note(e) == [kind |-> e.kind, day |-> e.day,
                       notes |-> VpaNotes(ribbon, e) \union VpNotes(profile, e)]
           ev == [i \in DOMAIN c.events |-> note(c.events[i])]
<1>1. noted = [c EXCEPT !.events = ev]
    BY DEF Corroborate
<1>2. \A i \in DOMAIN c.events : ev[i].kind = c.events[i].kind
    OBVIOUS
<1>3. DOMAIN ev = DOMAIN c.events
    OBVIOUS
<1> HIDE DEF ev
<1>4. noted.phase = c.phase /\ noted.events = ev
    BY <1>1 DEF Verdicts
<1>5. Numbered(noted.events)
    BY <1>3, <1>4 DEF Verdicts, Numbered
<1>6. EventKinds(noted) = EventKinds(c)
    BY <1>2, <1>3, <1>4 DEF EventKinds
<1> QED
    BY <1>4, <1>5, <1>6

\* the candidate strengths are whole numbers
LEMMA CountedInt ==
    ASSUME NEW s, Numbered(s), NEW S \in SUBSET DOMAIN s
    PROVE  Cardinality(S) \in Nat
<1>1. PICK n \in Nat : DOMAIN s \subseteq 1..n
    BY DEF Numbered
<1>2. IsFiniteSet(1..n)
    BY FS_Interval
<1> QED
    BY <1>1, <1>2, FS_Subset, FS_CardinalityType

LEMMA PartInt == ASSUME NEW n \in Nat, NEW c \in Nat, c > 0 PROVE Min({1000, (1000 * n) \div c}) \in Int
<1> DEFINE x == (1000 * n) \div c
<1>1. x \in Int
    OBVIOUS
<1> HIDE DEF x
<1>2. Min({1000, x}) \in Int
    BY <1>1, CappedInt
<1> QED
    BY <1>2 DEF x

LEMMA VpaMeasured == ASSUME NEW ribbon, Numbered(ribbon) PROVE VpaSubscore(ribbon) \in Int
<1> DEFINE n == DemandSideBars(ribbon)
           c == VPA_FULL_CREDIT_BARS
<1>1. n \in Nat
    BY CountedInt DEF DemandSideBars
<1>2. c \in Nat /\ c > 0
    BY DEF VPA_FULL_CREDIT_BARS
<1>3. VpaSubscore(ribbon) = Min({1000, (1000 * n) \div c})
    BY DEF VpaSubscore
<1> HIDE DEF n, c
<1> QED
    BY <1>1, <1>2, <1>3, PartInt

LEMMA VpMeasured == ASSUME NEW profile, NEW events, Numbered(events) PROVE VpSubscore(profile, events) \in Int
<1> DEFINE hits == {i \in DOMAIN events : events[i].kind \in {"SPRING", "LPS"} /\ Confluent(profile, events[i])}
           n == Cardinality(hits)
           c == VP_FULL_CREDIT_CONFLUENCES
<1>1. n \in Nat
    BY CountedInt
<1>2. c \in Nat /\ c > 0
    BY DEF VP_FULL_CREDIT_CONFLUENCES
<1>3. VpSubscore(profile, events) = Min({1000, (1000 * n) \div c})
    BY DEF VpSubscore
<1> HIDE DEF n, c
<1> QED
    BY <1>1, <1>2, <1>3, PartInt

\* the reasons of a rejection depend on the phase, not on the ownership reading
LEMMA ReasonsAgree ==
    ASSUME NEW snap, NEW t, NEW c, NEW d, c.phase = d.phase, NEW own, NEW other
    PROVE  Vetoes(snap, t, c, own).reasons = Vetoes(snap, t, d, other).reasons
<1> DEFINE filters(phase) ==
              [ SINGLE_BANDAR_MONOPOLY |-> Monopoly(snap),
                DISTRIBUTION_DRESSED |-> phase = "DISTRIBUTION" \/ BuyerFlipped(snap),
                MARKUP_ON_THIN_VOLUME |-> MarkupThin(t),
                WASH_CHURN |-> WashChurn(snap),
                BROKER_ROTATION |-> BrokerRotation(snap),
                RETAIL_FOMO |-> RetailFomo(snap),
                EVENT_DRIVEN |-> FALSE,
                PHASE_MISMATCH |-> ~(phase \in TRADEABLE_PHASES) ]
           reasons(f) == {r \in DOMAIN f : f[r]}
<1>1. /\ Vetoes(snap, t, c, own) = Fired(filters(c.phase), own)
      /\ Vetoes(snap, t, d, other) = Fired(filters(d.phase), other)
    BY DEF Vetoes, Tradeable
<1> HIDE DEF filters
<1>2. \A f, o : Fired(f, o).reasons = reasons(f)
    BY DEF Fired
<1> HIDE DEF reasons
<1> QED
    BY <1>1, <1>2

\* a candidate weighs nothing
LEMMA CandidatesWeighNothing ==
    ASSUME NEW track \in {"A", "B"}, NEW k \in {"ownership_delta", "bar_character", "vp_confluence"}, NEW x \in Int
    PROVE  SMS_WEIGHTS[track][k] * x = 0
<1>1. SMS_WEIGHTS[track][k] = 0
    BY DEF SMS_WEIGHTS
<1> QED
    BY <1>1

LEMMA ScoresAgree ==
    ASSUME NEW track \in {"A", "B"}, NEW snap, NEW t, NEW c, NEW d, EventKinds(c) = EventKinds(d),
           NEW own, NEW other, OwnershipSubscore(own) \in Int, OwnershipSubscore(other) \in Int,
           NEW ribbon, NEW blank, VpaSubscore(ribbon) \in Int, VpaSubscore(blank) \in Int,
           NEW profile, NEW empty, VpSubscore(profile, c.events) \in Int, VpSubscore(empty, d.events) \in Int
    PROVE  Score(track, snap, t, c, own, ribbon, profile) = Score(track, snap, t, d, other, blank, empty)
<1> DEFINE strength(phase, o, b, v) ==
              [ divergence |-> Divergence(t), broker_concentration |-> BrokerConcentration(snap, t),
                foreign_flow |-> ForeignFlow(t, track), rvol |-> Rvol(t), block_trade |-> BlockTrade(snap, t),
                phase_bonus |-> phase, ownership_delta |-> o, bar_character |-> b, vp_confluence |-> v ]
           f == strength(PhaseBonus(c), OwnershipSubscore(own), VpaSubscore(ribbon), VpSubscore(profile, c.events))
           g == strength(PhaseBonus(d), OwnershipSubscore(other), VpaSubscore(blank), VpSubscore(empty, d.events))
           candidates == {"ownership_delta", "bar_character", "vp_confluence"}
           core == {"divergence", "broker_concentration", "foreign_flow", "rvol", "block_trade", "phase_bonus"}
           w == SMS_WEIGHTS[track]
<1>1. PhaseBonus(c) = PhaseBonus(d)
    BY DEF PhaseBonus
<1>2. DOMAIN f = core \union candidates /\ DOMAIN g = core \union candidates
    OBVIOUS
<1>3. \A k \in core : f[k] = g[k]
    BY <1>1
<1>4. \A k \in candidates : f[k] \in Int /\ g[k] \in Int
    OBVIOUS
<1>5. /\ Score(track, snap, t, c, own, ribbon, profile) = Weigh(w, f)
      /\ Score(track, snap, t, d, other, blank, empty) = Weigh(w, g)
    BY DEF Score
<1> HIDE DEF f, g
<1>6. \A k \in candidates : w[k] * f[k] = 0 /\ w[k] * g[k] = 0
    BY <1>4, CandidatesWeighNothing
<1> HIDE DEF w
<1>7. \A k \in core \union candidates : w[k] * f[k] = w[k] * g[k]
    BY <1>3, <1>6
<1>8. Weigh(w, f) = Weigh(w, g)
  <2> DEFINE K == core \union candidates
  <2>1. DOMAIN f = K /\ DOMAIN g = K /\ \A k \in K : w[k] * f[k] = w[k] * g[k]
    BY <1>2, <1>7
  <2> HIDE DEF K
  <2> QED
    BY <2>1, WeighAgrees
<1> QED
    BY <1>5, <1>8

LEMMA RibbonNumbered == ASSUME NEW S, NEW t \in Seq(S) PROVE Numbered(Ribbon(t))
<1>1. DOMAIN Ribbon(t) \subseteq DOMAIN t
    BY DEF Ribbon, LastDays, CompleteDays
<1>2. DOMAIN t = 1..Len(t) /\ Len(t) \in Nat
    OBVIOUS
<1> QED
    BY <1>1, <1>2 DEF Numbered

LEMMA ReadingsChangeNothing == EngineInv => CandidatesDecideNothing
<1> SUFFICES ASSUME EngineInv, NEW D \in {Len(tape)} \ {0}, NEW track \in {"A", "B"},
                    NEW with, with = Evaluate(Store, D, track, Readings(Store, D)),
                    NEW without, without = Evaluate(Store, D, track, NoReadings)
             PROVE  /\ with.phase = without.phase /\ with.state = without.state
                    /\ with.vetoes.reasons = without.vetoes.reasons
    BY DEF CandidatesDecideNothing
<1> DEFINE t == BarsAt(Store, D)
           snap == Snapshot(Store, D)
           own == OwnershipDelta(Store, D)
           no == Unavailable("NO_COMPOSITION")
           ribbon == Ribbon(t)
           profile == BuildProfile(t)
           c == Corroborate(Classify(t), ribbon, profile)
           d == Corroborate(Classify(t), <<>>, NoProfile)
           vc == Vetoes(snap, t, c, own)
           vd == Vetoes(snap, t, d, no)
           sc == Score(track, snap, t, c, own, ribbon, profile)
           sd == Score(track, snap, t, d, no, <<>>, NoProfile)
<1>1. with = Judge(c, vc, own, sc) /\ without = Judge(d, vd, no, sd)
    BY DEF Evaluate, Result, Readings, NoReadings
<1>2. /\ c.phase = Classify(t).phase /\ Numbered(c.events) /\ EventKinds(c) = EventKinds(Classify(t))
      /\ d.phase = Classify(t).phase /\ Numbered(d.events) /\ EventKinds(d) = EventKinds(Classify(t))
  <2> DEFINE cls == Classify(t)
  <2>1. Verdicts(cls)
    BY PhaseNamed
  <2> HIDE DEF cls, t, ribbon, profile
  <2> QED
    BY <2>1, NotesAnnotate DEF cls
<1>3. Numbered(ribbon) /\ Numbered(<<>>)
  <2>1. t \in Seq(TapeBars)
    BY DEF EngineInv, BarsAt, Store
  <2>2. Numbered(<<>>)
    BY DEF Numbered
  <2> QED
    BY <2>1, <2>2, RibbonNumbered
<1>4. OwnershipSubscore(own) \in Int /\ OwnershipSubscore(no) \in Int
  <2>1. OwnershipSubscore(no) = 0
    BY DEF OwnershipSubscore, Unavailable
  <2> QED
    BY <2>1, OwnershipMeasured
<1> HIDE DEF t, snap, own, no, ribbon, profile, c, d
<1>5. sc = sd
  <2>1. VpaSubscore(ribbon) \in Int /\ VpaSubscore(<<>>) \in Int
    BY <1>3, VpaMeasured
  <2>2. VpSubscore(profile, c.events) \in Int /\ VpSubscore(NoProfile, d.events) \in Int
    BY <1>2, VpMeasured
  <2> QED
    BY <1>2, <1>4, <2>1, <2>2, ScoresAgree
<1>6. vc.reasons = vd.reasons
    BY <1>2, ReasonsAgree
<1> HIDE DEF vc, vd, sc, sd
<1>7. Decide(c, vc, sc) = Decide(d, vd, sd)
    BY <1>2, <1>5, <1>6 DEF Decide, Tradeable
<1> QED
    BY <1>1, <1>2, <1>6, <1>7 DEF Judge

(* The candidate readings of LD-13 decide nothing: whatever a store holds,   *)
(* and whatever its thresholds are, a name's phase, vetoes and state are     *)
(* those it would have without them (sms.py, veto.py evaluate_vetoes,       *)
(* phase.py _corroborate).                                                   *)
THEOREM ReadingsAreSilent == EngineSpec => []CandidatesDecideNothing
BY EngineStart, EngineStep, ReadingsChangeNothing, PTL DEF EngineSpec

(* The same where the engine's part runs.                                   *)
THEOREM DeskReadingsAreSilent == DeskSpec => []ReadingsDecideNothing
<1> DEFINE I == part = "engine" => EngineInv
<1>1. DeskInit => I
    BY EngineStart DEF DeskInit, PaperInit
<1>2. part = "engine" /\ [DeskNext]_deskVars => part' = "engine" /\ [EngineNext]_engineVars
    BY DEF DeskNext, deskVars, paperVars, runVars, engineVars
<1>3. part' = "engine" /\ [DeskNext]_deskVars => part = "engine"
    BY DEF DeskNext, deskVars
<1>4. I /\ [DeskNext]_deskVars => I'
    BY <1>2, <1>3, EngineStep
<1>5. I => ReadingsDecideNothing
    BY ReadingsChangeNothing DEF ReadingsDecideNothing
<1> QED
    BY <1>1, <1>4, <1>5, PTL DEF DeskSpec

\* a character is read from the bars up to its own day, and those are still there
LEMMA RibbonStands == ASSUME EngineInv, NEW book, CloseWith(book) PROVE KeepsRibbon
<1> SUFFICES ASSUME NEW was, was = Ribbon(tape), NEW is, is = Ribbon(tape'),
                    NEW d \in DOMAIN was \intersect DOMAIN is
             PROVE  is[d] = was[d]
    BY DEF KeepsRibbon
<1>1. PICK bar \in TapeBars : tape' = Append(tape, bar)
    BY TapeGrows DEF CloseWith
<1>2. d \in 1..Len(tape) /\ d \in DOMAIN tape'
    BY DEF Ribbon, LastDays, CompleteDays, EngineInv
<1>3. SubSeq(tape', 1, d) = SubSeq(tape, 1, d)
    BY <1>1, <1>2, SameHead DEF EngineInv
<1>4. was[d] = CharacterOf(Complete(SubSeq(tape, 1, d))) /\ is[d] = CharacterOf(Complete(SubSeq(tape', 1, d)))
    BY DEF Ribbon
<1> QED
    BY <1>3, <1>4

(* A character once printed on the ribbon is never repainted: it is read     *)
(* from the bars up to its own day, whatever window shows it and whatever    *)
(* comes later (vpa.py classify_bar, build_reading).                         *)
THEOREM DeskRibbonsStand == DeskSpec => RibbonsStand
<1> DEFINE I == part = "tape" => EngineInv
<1>1. DeskInit => I
    BY EngineStart DEF DeskInit, PaperInit
<1>2. part = "tape" /\ [DeskNext]_deskVars => part' = "tape" /\ (CloseWith(Absent) \/ UNCHANGED engineVars)
    BY DEF DeskNext, deskVars, paperVars, runVars, engineVars
<1>3. part' = "tape" /\ [DeskNext]_deskVars => part = "tape"
    BY DEF DeskNext, deskVars
<1>4. I /\ [DeskNext]_deskVars => I'
  <2>1. CloseWith(Absent) => EngineNext
    BY DEF EngineNext
  <2> QED
    BY <1>2, <1>3, <2>1, EngineStep
<1>5. I /\ [DeskNext]_deskVars => [part = "tape" => KeepsRibbon]_deskVars
  <2> SUFFICES ASSUME I, DeskNext, part = "tape" PROVE KeepsRibbon
    OBVIOUS
  <2>1. CloseWith(Absent)
    BY DEF DeskNext
  <2> QED
    BY <2>1, RibbonStands
<1> QED
    BY <1>1, <1>4, <1>5, PTL DEF DeskSpec, RibbonsStand

-----------------------------------------------------------------------------
(* Paper: the sweep of a backtest exists, and follows the forward run       *)

\* the earliest of a window's exit days
LEMMA FirstExit ==
    ASSUME NEW n \in Nat, NEW i \in Nat, NEW E \in SUBSET ((i + 1)..n), E # {}
    PROVE  Min(E) \in E /\ Min(E) \in (i + 1)..n /\ \A j \in E : Min(E) <= j
<1>1. E \in SUBSET Int /\ (i + 1) \in Int /\ \A x \in E : i + 1 <= x
    OBVIOUS
<1> QED
    BY <1>1, MinOfBounded

\* a sweep from day i reads only the sweeps from later days
LEMMA SweepReadsLater ==
    ASSUME NEW db, NEW cfg, NEW n \in Nat, NEW i \in 1..(n + 1), NEW f, NEW g,
           \A j \in (i + 1)..(n + 1) : f[j] = g[j]
    PROVE  SweepFrom(db, n, cfg, f, i) = SweepFrom(db, n, cfg, g, i)
<1> DEFINE E == ExitDays(db, n, cfg, AttemptEntry(db, i, cfg), i)
<1>1. i <= n => f[i + 1] = g[i + 1]
    OBVIOUS
<1>2. E # {} => f[Min(E) + 1] = g[Min(E) + 1]
  <2>1. E \in SUBSET ((i + 1)..n)
    BY DEF ExitDays
  <2> HIDE DEF E
  <2>2. E # {} => Min(E) \in (i + 1)..n
    BY <2>1, FirstExit
  <2>3. \A k \in (i + 1)..n : k + 1 \in (i + 1)..(n + 1)
    OBVIOUS
  <2> QED
    BY <2>2, <2>3
<1> QED
    BY <1>1, <1>2 DEF SweepFrom

\* the recursive definition of the sweep defines a function
LEMMA SweepExists ==
    ASSUME NEW db, NEW cfg, NEW n \in Nat
    PROVE  \E f : f = [i \in 1..(n + 1) |-> SweepFrom(db, n, cfg, f, i)]
<1> DEFINE Solved(m, f) == \A i \in m..(n + 1) : f[i] = SweepFrom(db, n, cfg, f, i)
           C == {m \in 1..(n + 1) : \E f : Solved(m, f)}
<1>1. n + 1 \in C
  <2> DEFINE f == [i \in {n + 1} |-> <<>>]
  <2>1. \A i \in (n + 1)..(n + 1) : i = n + 1 /\ f[i] = <<>> /\ SweepFrom(db, n, cfg, f, i) = <<>>
    BY DEF SweepFrom
  <2>2. Solved(n + 1, f)
    BY <2>1
  <2> QED
    BY <2>2
<1>2. PICK m \in C : \A k \in C : m <= k
  <2>1. C \in SUBSET Nat
    OBVIOUS
  <2> HIDE DEF C
  <2> QED
    BY <1>1, <2>1, LeastNat
<1>3. PICK f : Solved(m, f)
    BY <1>2
<1>4. m = 1
  <2> SUFFICES ASSUME m # 1 PROVE FALSE
    OBVIOUS
  <2>1. m - 1 \in 1..(n + 1) /\ m \in Nat /\ m <= n + 1
    OBVIOUS
  <2> DEFINE g == [i \in (m - 1)..(n + 1) |-> IF i = m - 1 THEN SweepFrom(db, n, cfg, f, m - 1) ELSE f[i]]
  <2>2. \A j \in m..(n + 1) : g[j] = f[j]
    BY <2>1
  <2>3. g[m - 1] = SweepFrom(db, n, cfg, f, m - 1)
    BY <2>1
  <2> HIDE DEF g
  <2>4. ASSUME NEW i \in (m - 1)..(n + 1) PROVE g[i] = SweepFrom(db, n, cfg, g, i)
    <3>1. i \in 1..(n + 1) /\ \A j \in (i + 1)..(n + 1) : j \in m..(n + 1)
      BY <2>1
    <3>2. \A j \in (i + 1)..(n + 1) : f[j] = g[j]
      BY <2>2, <3>1
    <3>3. SweepFrom(db, n, cfg, f, i) = SweepFrom(db, n, cfg, g, i)
      BY <3>1, <3>2, SweepReadsLater
    <3>4. i = m - 1 \/ i \in m..(n + 1)
      BY <2>1
    <3> QED
      BY <1>3, <2>2, <2>3, <3>3, <3>4
  <2>5. m - 1 \in C
    BY <2>1, <2>4
  <2>6. m <= m - 1
    BY <1>2, <2>5
  <2> QED
    BY <2>1, <2>6
<1> DEFINE g == [i \in 1..(n + 1) |-> f[i]]
<1>5. \A i \in 1..(n + 1) : g[i] = f[i]
    OBVIOUS
<1>6. ASSUME NEW i \in 1..(n + 1) PROVE f[i] = SweepFrom(db, n, cfg, g, i)
  <2>1. \A j \in (i + 1)..(n + 1) : f[j] = g[j]
    OBVIOUS
  <2> HIDE DEF g
  <2>2. SweepFrom(db, n, cfg, f, i) = SweepFrom(db, n, cfg, g, i)
    BY <2>1, SweepReadsLater
  <2> QED
    BY <1>3, <1>4, <2>2
<1>7. g = [i \in 1..(n + 1) |-> SweepFrom(db, n, cfg, g, i)]
    BY <1>6
<1> QED
    BY <1>7

LEMMA RunIsSweep ==
    ASSUME NEW db, NEW cfg, NEW n \in Nat
    PROVE  \E f : /\ \A i \in 1..(n + 1) : f[i] = SweepFrom(db, n, cfg, f, i)
                  /\ RunBacktest(db, n, cfg) = f[1]
<1> DEFINE Solves(f) == f = [i \in 1..(n + 1) |-> SweepFrom(db, n, cfg, f, i)]
           g == CHOOSE f : Solves(f)
<1>1. RunBacktest(db, n, cfg) = g[1]
    BY DEF RunBacktest
<1>2. Solves(g)
  <2>1. \E f : Solves(f)
    BY SweepExists
  <2> HIDE DEF Solves
  <2> QED
    BY <2>1
<1>3. \A i \in 1..(n + 1) : g[i] = SweepFrom(db, n, cfg, g, i)
    BY <1>2
<1> QED
    BY <1>1, <1>3

\* h is a forward run over the first n days of db, all of them decided on that one store
Walks(db, n, cfg, h) ==
    h[0] = FlatStart /\ \A D \in 1..n : h[D] = StepOver(db, D, cfg, h[D - 1])

\* every trade that can occur
TradesOf(db, n, cfg, h) ==
    {AttemptExit(db, p, j, cfg) : p \in {h[D].held : D \in 0..n} \union {AttemptEntry(db, i, cfg) : i \in 1..n},
                                  j \in 1..n}

LEMMA WalkTyped ==
    ASSUME NEW db, NEW cfg, NEW n \in Nat, NEW h, Walks(db, n, cfg, h), NEW S, S = TradesOf(db, n, cfg, h)
    PROVE  \A D \in 0..n : h[D].trades \in Seq(S)
<1> DEFINE C == {D \in 0..n : h[D].trades \notin Seq(S)}
<1> SUFFICES ASSUME C # {} PROVE FALSE
    OBVIOUS
<1>1. PICK D \in C : \A d \in C : D <= d
  <2>1. C \in SUBSET Nat
    OBVIOUS
  <2> HIDE DEF C
  <2> QED
    BY <2>1, LeastNat
<1>2. h[0].trades \in Seq(S)
    BY DEF Walks, FlatStart
<1>3. D # 0 /\ D \in 1..n /\ D - 1 \in 0..n /\ ~(D <= D - 1)
    BY <1>2
<1>4. h[D - 1].trades \in Seq(S)
    BY <1>1, <1>3
<1>5. h[D] = StepOver(db, D, cfg, h[D - 1])
    BY <1>3 DEF Walks
<1> DEFINE x == AttemptExit(db, h[D - 1].held, D, cfg)
<1>6. x \in S
  <2>1. h[D - 1].held \in {h[d].held : d \in 0..n} \union {AttemptEntry(db, i, cfg) : i \in 1..n}
    BY <1>3
  <2> QED
    BY <1>3, <2>1 DEF TradesOf
<1>7. h[D].trades \in Seq(S)
  <2>1. h[D].trades = h[D - 1].trades \/ h[D].trades = Append(h[D - 1].trades, x)
    BY <1>5 DEF StepOver
  <2> HIDE DEF x
  <2>2. Append(h[D - 1].trades, x) \in Seq(S)
    BY <1>4, <1>6
  <2> QED
    BY <1>4, <2>1, <2>2
<1> QED
    BY <1>7

\* what a sweep from day i is: over, as from the next day, without an exit, or a round
\* trip and what follows it
SweepOf(db, n, cfg, f, i) ==
    \/ i = n + 1 /\ f[i] = <<>>
    \/ i \in 1..n /\ AttemptEntry(db, i, cfg) = Absent /\ f[i] = f[i + 1]
    \/ /\ i \in 1..n /\ AttemptEntry(db, i, cfg) # Absent /\ f[i] = <<>>
       /\ \A j \in (i + 1)..n : AttemptExit(db, AttemptEntry(db, i, cfg), j, cfg) = Absent
    \/ /\ i \in 1..n /\ AttemptEntry(db, i, cfg) # Absent
       /\ \E k \in (i + 1)..n :
             /\ AttemptExit(db, AttemptEntry(db, i, cfg), k, cfg) # Absent
             /\ \A j \in (i + 1)..(k - 1) : AttemptExit(db, AttemptEntry(db, i, cfg), j, cfg) = Absent
             /\ f[i] = <<AttemptExit(db, AttemptEntry(db, i, cfg), k, cfg)>> \o f[k + 1]

LEMMA SweepCases ==
    ASSUME NEW db, NEW cfg, NEW n \in Nat, NEW i \in 1..(n + 1), NEW f, f[i] = SweepFrom(db, n, cfg, f, i)
    PROVE  SweepOf(db, n, cfg, f, i)
<1> DEFINE pos == AttemptEntry(db, i, cfg)
           E == ExitDays(db, n, cfg, pos, i)
<1>1. i \in Nat /\ n \in Nat /\ (i > n => i = n + 1) /\ (i <= n => i \in 1..n /\ ~(i > n))
    OBVIOUS
<1>2. CASE i > n
    BY <1>2, <1>1 DEF SweepFrom, SweepOf
<1>3. CASE i <= n /\ pos = Absent
    BY <1>1, <1>3 DEF SweepFrom, SweepOf
<1>4. CASE i <= n /\ pos # Absent /\ E = {}
  <2>1. f[i] = <<>>
    BY <1>1, <1>4 DEF SweepFrom
  <2>2. \A j \in (i + 1)..n : AttemptExit(db, pos, j, cfg) = Absent
    BY <1>4 DEF ExitDays
  <2> QED
    BY <1>1, <1>4, <2>1, <2>2 DEF SweepOf
<1>5. CASE i <= n /\ pos # Absent /\ E # {}
  <2> DEFINE k == Min(E)
  <2>1. f[i] = <<AttemptExit(db, pos, k, cfg)>> \o f[k + 1]
    BY <1>1, <1>5 DEF SweepFrom
  <2>2. E \in SUBSET ((i + 1)..n)
    BY DEF ExitDays
  <2>3. k \in E /\ k \in (i + 1)..n /\ \A j \in E : k <= j
    <3> HIDE DEF E
    <3> QED
      BY <1>1, <1>5, <2>2, FirstExit
  <2> HIDE DEF k
  <2>4. AttemptExit(db, pos, k, cfg) # Absent
    BY <2>3 DEF ExitDays
  <2>5. ASSUME NEW j \in (i + 1)..(k - 1) PROVE AttemptExit(db, pos, j, cfg) = Absent
    <3>1. j \in (i + 1)..n /\ ~(k <= j)
      BY <1>1, <2>3
    <3> QED
      BY <2>3, <3>1 DEF ExitDays
  <2> HIDE DEF E, pos
  <2>6. i \in 1..n /\ pos # Absent /\ pos = AttemptEntry(db, i, cfg)
    BY <1>1, <1>5 DEF pos
  <2> QED
    BY <2>1, <2>3, <2>4, <2>5, <2>6 DEF SweepOf
<1> QED
    BY <1>1, <1>2, <1>3, <1>4, <1>5

LEMMA SweepTyped ==
    ASSUME NEW db, NEW cfg, NEW n \in Nat, NEW h, NEW S, S = TradesOf(db, n, cfg, h), NEW f,
           \A i \in 1..(n + 1) : SweepOf(db, n, cfg, f, i)
    PROVE  \A i \in 1..(n + 1) : f[i] \in Seq(S)
<1> DEFINE C == {i \in 1..(n + 1) : f[i] \notin Seq(S)}
<1> SUFFICES ASSUME C # {} PROVE FALSE
    OBVIOUS
<1>1. PICK i \in C : \A j \in C : j <= i
  <2>1. C \in SUBSET Int /\ n + 1 \in Int /\ \A x \in C : x <= n + 1
    OBVIOUS
  <2> HIDE DEF C
  <2>2. Max(C) \in C /\ \A x \in C : x <= Max(C)
    BY <2>1, MaxOfBounded
  <2> QED
    BY <2>2
<1>2. ASSUME NEW j \in (i + 1)..(n + 1) PROVE f[j] \in Seq(S)
  <2>1. i \in 1..(n + 1) /\ j \in 1..(n + 1) /\ ~(j <= i)
    OBVIOUS
  <2> QED
    BY <1>1, <2>1
<1>3. i \in 1..(n + 1) /\ f[i] \notin Seq(S) /\ SweepOf(db, n, cfg, f, i)
    OBVIOUS
<1> HIDE DEF C
<1>4. CASE f[i] = <<>>
    BY <1>3, <1>4
<1>5. CASE i \in 1..n /\ f[i] = f[i + 1]
  <2>1. i + 1 \in (i + 1)..(n + 1)
    BY <1>5
  <2> QED
    BY <1>2, <1>3, <1>5, <2>1
<1>6. ASSUME i \in 1..n, NEW k \in (i + 1)..n, NEW x, x = AttemptExit(db, AttemptEntry(db, i, cfg), k, cfg),
             f[i] = <<x>> \o f[k + 1]
      PROVE  FALSE
  <2>1. i \in 1..n /\ k \in 1..n /\ k + 1 \in (i + 1)..(n + 1)
    BY <1>6
  <2>2. AttemptEntry(db, i, cfg) \in {h[d].held : d \in 0..n} \union {AttemptEntry(db, a, cfg) : a \in 1..n}
    BY <2>1
  <2>3. x \in S
    BY <1>6, <2>1, <2>2 DEF TradesOf
  <2>4. f[k + 1] \in Seq(S)
    BY <1>2, <2>1
  <2> QED
    BY <1>3, <1>6, <2>3, <2>4
<1> QED
    BY <1>3, <1>4, <1>5, <1>6 DEF SweepOf

\* a position without an exit is carried
NoExit(db, cfg, p, D, e) == \A j \in (D + 1)..e : AttemptExit(db, p, j, cfg) = Absent

LEMMA WalkCarries ==
    ASSUME NEW db, NEW cfg, NEW n \in Nat, NEW h, Walks(db, n, cfg, h),
           NEW D \in 0..n, NEW e \in D..n, h[D].held # Absent, NoExit(db, cfg, h[D].held, D, e)
    PROVE  h[e] = h[D]
<1> DEFINE C == {d \in D..e : h[d] # h[D]}
<1> SUFFICES ASSUME C # {} PROVE FALSE
    OBVIOUS
<1>1. PICK d \in C : \A x \in C : d <= x
  <2>1. C \in SUBSET Nat
    OBVIOUS
  <2> HIDE DEF C
  <2> QED
    BY <2>1, LeastNat
<1>2. d \in (D + 1)..e /\ d - 1 \in D..e /\ d \in 1..n /\ ~(d <= d - 1)
    OBVIOUS
<1>3. h[d - 1] = h[D]
    BY <1>1, <1>2
<1>4. h[d] = StepOver(db, d, cfg, h[D])
    BY <1>2, <1>3 DEF Walks
<1>5. AttemptExit(db, h[D].held, d, cfg) = Absent
    BY <1>2 DEF NoExit
<1>6. h[d] = h[D]
    BY <1>4, <1>5 DEF StepOver
<1> QED
    BY <1>6

LEMMA FlatAppend ==
    ASSUME NEW S, NEW s \in Seq(S), NEW t \in Seq(S), NEW x \in S
    PROVE  Append(s, x) \o t = s \o (<<x>> \o t)
<1>1. Append(s, x) = s \o <<x>>
    BY AppendIsConcat
<1> QED
    BY <1>1, ConcatAssociative

\* the forward run and the backtest of one store close the same trades
LEMMA WalkIsSweep ==
    ASSUME NEW db, NEW cfg, NEW n \in Nat, NEW h, Walks(db, n, cfg, h), NEW f,
           \A i \in 1..(n + 1) : SweepOf(db, n, cfg, f, i)
    PROVE  h[n].trades = f[1]
<1> SUFFICES ASSUME NEW S, S = TradesOf(db, n, cfg, h) PROVE h[n].trades = f[1]
    OBVIOUS
<1>1. (\A d \in 0..n : h[d].trades \in Seq(S)) /\ \A i \in 1..(n + 1) : f[i] \in Seq(S)
    BY WalkTyped, SweepTyped
<1> DEFINE Ends(i) == h[n].trades = h[i - 1].trades \o f[i]
           C == {i \in 1..(n + 1) : h[i - 1].held = Absent /\ ~Ends(i)}
<1>2. C = {}
  <2> SUFFICES ASSUME C # {} PROVE FALSE
    OBVIOUS
  <2>1. PICK i \in C : \A j \in C : j <= i
    <3> HIDE DEF Ends
    <3>1. C \in SUBSET Int /\ n + 1 \in Int /\ \A x \in C : x <= n + 1
      OBVIOUS
    <3> HIDE DEF C
    <3>2. Max(C) \in C /\ \A x \in C : x <= Max(C)
      BY <3>1, MaxOfBounded
    <3> QED
      BY <3>2
  <2>2. i \in 1..(n + 1) /\ h[i - 1].held = Absent /\ i - 1 \in 0..n
    OBVIOUS
  <2>3. ASSUME NEW j \in (i + 1)..(n + 1), h[j - 1].held = Absent PROVE Ends(j)
    <3>1. j \in 1..(n + 1) /\ ~(j <= i)
      BY <2>2
    <3> QED
      BY <2>1, <2>3, <3>1
  <2> SUFFICES Ends(i)
    OBVIOUS
  <2> HIDE DEF C
  <2>4. CASE i = n + 1 /\ f[i] = <<>>
    <3>1. h[n].trades \in Seq(S) /\ i - 1 = n
      BY <1>1, <2>4
    <3> QED
      BY <2>4, <3>1, ConcatEmptySeq
  <2>5. CASE i \in 1..n /\ AttemptEntry(db, i, cfg) = Absent /\ f[i] = f[i + 1]
    <3>0. h[i] = StepOver(db, i, cfg, h[i - 1])
      BY <2>5 DEF Walks
    <3>1. h[i].held = Absent /\ h[i].trades = h[i - 1].trades
      BY <2>2, <2>5, <3>0 DEF StepOver
    <3>2. i + 1 \in (i + 1)..(n + 1) /\ (i + 1) - 1 = i
      BY <2>5
    <3>3. Ends(i + 1)
      BY <2>3, <3>1, <3>2
    <3> QED
      BY <2>5, <3>1, <3>2, <3>3
  <2>6. ASSUME i \in 1..n, NEW pos, pos = AttemptEntry(db, i, cfg), pos # Absent
        PROVE  h[i].held = pos /\ h[i].trades = h[i - 1].trades
    <3>0. h[i] = StepOver(db, i, cfg, h[i - 1])
      BY <2>6 DEF Walks
    <3> QED
      BY <2>2, <2>6, <3>0 DEF StepOver
  <2>7. ASSUME i \in 1..n, NEW pos, pos = AttemptEntry(db, i, cfg), pos # Absent, f[i] = <<>>,
               \A j \in (i + 1)..n : AttemptExit(db, pos, j, cfg) = Absent
        PROVE  Ends(i)
    <3>1. h[i].held = pos /\ h[i].trades = h[i - 1].trades
      BY <2>6, <2>7
    <3>2. i \in 0..n /\ n \in i..n
      BY <2>7
    <3>3. h[n] = h[i]
      <4>1. h[i].held # Absent /\ NoExit(db, cfg, h[i].held, i, n)
        BY <2>7, <3>1 DEF NoExit
      <4> QED
        BY <3>2, <4>1, WalkCarries
    <3>4. h[i - 1].trades \in Seq(S)
      BY <1>1, <2>2
    <3> QED
      BY <2>7, <3>1, <3>3, <3>4, ConcatEmptySeq
  <2>8. ASSUME i \in 1..n, NEW pos, pos = AttemptEntry(db, i, cfg), pos # Absent,
               NEW k \in (i + 1)..n, NEW x, x = AttemptExit(db, pos, k, cfg), x # Absent,
               \A j \in (i + 1)..(k - 1) : AttemptExit(db, pos, j, cfg) = Absent,
               f[i] = <<x>> \o f[k + 1]
        PROVE  Ends(i)
    <3>1. h[i].held = pos /\ h[i].trades = h[i - 1].trades
      BY <2>6, <2>8
    <3>2. i \in 0..n /\ k - 1 \in i..n /\ k \in 1..n /\ i \in 1..n
      BY <2>8
    <3>3. h[k - 1] = h[i]
      <4>1. PICK e \in i..n : e = k - 1
        BY <3>2
      <4>2. h[i].held # Absent /\ NoExit(db, cfg, h[i].held, i, e)
        BY <2>8, <3>1, <4>1 DEF NoExit
      <4>3. h[e] = h[i]
        BY <3>2, <4>1, <4>2, WalkCarries
      <4> QED
        BY <4>1, <4>3
    <3>4. h[k] = StepOver(db, k, cfg, h[i])
      BY <3>2, <3>3 DEF Walks
    <3>5. h[k].held = Absent /\ h[k].trades = Append(h[i - 1].trades, x)
      BY <2>8, <3>1, <3>4 DEF StepOver
    <3>6. k + 1 \in (i + 1)..(n + 1) /\ (k + 1) - 1 = k /\ k + 1 \in 1..(n + 1)
      BY <2>8, <3>2
    <3>7. Ends(k + 1)
      BY <2>3, <3>5, <3>6
    <3>8. h[n].trades = Append(h[i - 1].trades, x) \o f[k + 1]
      BY <3>5, <3>6, <3>7
    <3>9. x \in S
      <4>1. pos \in {h[d].held : d \in 0..n} \union {AttemptEntry(db, a, cfg) : a \in 1..n}
        BY <2>8
      <4> QED
        BY <2>8, <3>2, <4>1 DEF TradesOf
    <3>10. h[i - 1].trades \in Seq(S) /\ f[k + 1] \in Seq(S)
      BY <1>1, <2>2, <3>6
    <3>11. Append(h[i - 1].trades, x) \o f[k + 1] = h[i - 1].trades \o (<<x>> \o f[k + 1])
      <4>1. PICK s \in Seq(S) : s = h[i - 1].trades
        BY <3>10
      <4>2. PICK t \in Seq(S) : t = f[k + 1]
        BY <3>10
      <4>3. Append(s, x) \o t = s \o (<<x>> \o t)
        BY <3>9, FlatAppend
      <4> QED
        BY <4>1, <4>2, <4>3
    <3> QED
      BY <2>8, <3>8, <3>11
  <2>9. SweepOf(db, n, cfg, f, i)
    BY <2>2
  <2> HIDE DEF Ends
  <2> QED
    BY <2>4, <2>5, <2>7, <2>8, <2>9 DEF SweepOf
<1>3. 1 \in 1..(n + 1) /\ 1 - 1 = 0 /\ h[0].held = Absent /\ h[0].trades = <<>>
    BY DEF Walks, FlatStart
<1>4. Ends(1)
    BY <1>2, <1>3
<1>5. f[1] \in Seq(S) /\ h[n].trades = <<>> \o f[1]
    BY <1>1, <1>3, <1>4
<1> QED
    BY <1>5, ConcatEmptySeq

LEMMA WalkIsBacktest ==
    ASSUME NEW db, NEW cfg, NEW n \in Nat, NEW h, Walks(db, n, cfg, h)
    PROVE  RunBacktest(db, n, cfg) = h[n].trades
<1>1. PICK f : /\ \A i \in 1..(n + 1) : f[i] = SweepFrom(db, n, cfg, f, i)
               /\ RunBacktest(db, n, cfg) = f[1]
    BY RunIsSweep
<1>2. \A i \in 1..(n + 1) : SweepOf(db, n, cfg, f, i)
    BY <1>1, SweepCases
<1> QED
    BY <1>1, <1>2, WalkIsSweep

-----------------------------------------------------------------------------
(* The decision of a day that has passed stays what it was                  *)

\* what a decision for day D, and its fill, read of two stores is the same
SameDay(was, is, D) ==
    /\ Agree(was, is, D - 1)
    /\ D \in DOMAIN was.tape /\ D \in DOMAIN is.tape
    /\ \A d \in 1..D : is.tape[d] = was.tape[d]
    /\ \E k \in Nat : DOMAIN was.tape = 1..k
    /\ \E k \in Nat : DOMAIN is.tape = 1..k

LEMMA FillStands ==
    ASSUME NEW was, NEW is, NEW D \in Nat, SameDay(was, is, D)
    PROVE  /\ Fillable(is, D) <=> Fillable(was, D)
           /\ Fillable(was, D) => PrevFillClose(is, D) = PrevFillClose(was, D)
           /\ is.tape[D] = was.tape[D]
<1>1. PICK k \in Nat, l \in Nat : DOMAIN was.tape = 1..k /\ DOMAIN is.tape = 1..l
    BY DEF SameDay
<1>2. D \in 1..k /\ D \in 1..l /\ \A d \in 1..D : is.tape[d] = was.tape[d]
    BY <1>1 DEF SameDay
<1>3. ASSUME NEW d \in 1..D PROVE d \in FillDays(is) <=> d \in FillDays(was)
  <2>1. d \in DOMAIN was.tape /\ d \in DOMAIN is.tape /\ is.tape[d] = was.tape[d]
    BY <1>1, <1>2
  <2> QED
    BY <2>1 DEF FillDays
<1>4. FillDays(was) \subseteq Nat \ {0} /\ FillDays(is) \subseteq Nat \ {0}
    BY <1>1 DEF FillDays
<1>5. PrevFillDays(is, D) = PrevFillDays(was, D)
  <2>1. \A d \in Nat \ {0} : d < D => d \in 1..D
    OBVIOUS
  <2> QED
    BY <1>3, <1>4, <2>1 DEF PrevFillDays
<1>6. D \in FillDays(is) <=> D \in FillDays(was)
    BY <1>2, <1>3
<1>7. ASSUME NEW P, P = PrevFillDays(was, D), P # {} PROVE is.tape[Max(P)] = was.tape[Max(P)]
  <2>1. P \in SUBSET Int /\ \A x \in P : x <= D
    BY <1>4, <1>7 DEF PrevFillDays
  <2>2. Max(P) \in P
    BY <1>7, <2>1, MaxOfBounded
  <2>3. Max(P) \in 1..D
    BY <1>4, <1>7, <2>2 DEF PrevFillDays
  <2> QED
    BY <1>2, <2>3
<1>8. D \in 1..D
    BY <1>2
<1> QED
    BY <1>2, <1>5, <1>6, <1>7, <1>8 DEF Fillable, PrevFillClose

LEMMA VerdictStands ==
    ASSUME NEW was, NEW is, NEW F, Agree(was, is, F), NEW track
    PROVE  /\ BarsAt(is, F) = BarsAt(was, F)
           /\ Evaluate(is, F, track, Readings(is, F)) = Evaluate(was, F, track, Readings(was, F))
           /\ \A cls : DecayFlags(is, F, cls) = DecayFlags(was, F, cls)
<1>1. BarsAt(is, F) = BarsAt(was, F)
    BY DEF Agree
<1>2. NetsAt(is, F) = NetsAt(was, F) /\ Snapshot(is, F) = Snapshot(was, F)
    BY SnapshotAgrees
<1>3. Readings(is, F) = Readings(was, F)
    BY ReadingsAgree
<1> QED
    BY <1>1, <1>2, <1>3 DEF Evaluate, DecayFlags

LEMMA EntryDecided ==
    ASSUME NEW was, NEW is, NEW D \in Nat, SameDay(was, is, D), NEW cfg
    PROVE  AttemptEntry(is, D, cfg) = AttemptEntry(was, D, cfg)
<1> DEFINE F == DecisionFrame(was, D)
<1>1. F = D - 1 /\ DecisionFrame(is, D) = F /\ Agree(was, is, F)
    BY DEF DecisionFrame, SameDay
<1> HIDE DEF F
<1>2. /\ BarsAt(is, F) = BarsAt(was, F)
      /\ Evaluate(is, F, cfg.track, Readings(is, F)) = Evaluate(was, F, cfg.track, Readings(was, F))
    BY <1>1, VerdictStands
<1>3. /\ Fillable(is, D) <=> Fillable(was, D)
      /\ Fillable(was, D) => PrevFillClose(is, D) = PrevFillClose(was, D)
      /\ is.tape[D] = was.tape[D]
    BY FillStands
<1>4. DecisionFrame(was, D) = F /\ DecisionFrame(is, D) = F
    BY <1>1 DEF F
<1>5. CASE ~Fillable(was, D)
    BY <1>3, <1>5 DEF AttemptEntry
<1>6. CASE Fillable(was, D)
    BY <1>2, <1>3, <1>4, <1>6 DEF AttemptEntry
<1> QED
    BY <1>5, <1>6

LEMMA ExitDecided ==
    ASSUME NEW was, NEW is, NEW D \in Nat, SameDay(was, is, D), NEW cfg, NEW pos
    PROVE  AttemptExit(is, pos, D, cfg) = AttemptExit(was, pos, D, cfg)
<1> DEFINE F == DecisionFrame(was, D)
<1>1. F = D - 1 /\ DecisionFrame(is, D) = F /\ Agree(was, is, F)
    BY DEF DecisionFrame, SameDay
<1> HIDE DEF F
<1>2. BarsAt(is, F) = BarsAt(was, F) /\ \A cls : DecayFlags(is, F, cls) = DecayFlags(was, F, cls)
    BY <1>1, VerdictStands
<1>3. /\ Fillable(is, D) <=> Fillable(was, D)
      /\ Fillable(was, D) => PrevFillClose(is, D) = PrevFillClose(was, D)
      /\ is.tape[D] = was.tape[D]
    BY FillStands
<1>4. DecisionFrame(was, D) = F /\ DecisionFrame(is, D) = F
    BY <1>1 DEF F
<1>5. CASE ~Fillable(was, D)
    BY <1>3, <1>5 DEF AttemptExit
<1>6. CASE Fillable(was, D)
    BY <1>2, <1>3, <1>4, <1>6 DEF AttemptExit
<1> QED
    BY <1>5, <1>6

LEMMA WalkStands ==
    ASSUME NEW was, NEW is, NEW n \in Nat, \A D \in 1..n : SameDay(was, is, D), NEW cfg,
           NEW h, Walks(was, n, cfg, h)
    PROVE  Walks(is, n, cfg, h)
<1>1. ASSUME NEW D \in 1..n PROVE h[D] = StepOver(is, D, cfg, h[D - 1])
  <2>1. h[D] = StepOver(was, D, cfg, h[D - 1])
    BY DEF Walks
  <2>0. D \in Nat /\ SameDay(was, is, D)
    OBVIOUS
  <2>2. AttemptEntry(is, D, cfg) = AttemptEntry(was, D, cfg)
    BY <2>0, EntryDecided
  <2>3. AttemptExit(is, h[D - 1].held, D, cfg) = AttemptExit(was, h[D - 1].held, D, cfg)
    BY <2>0, ExitDecided
  <2> QED
    BY <2>1, <2>2, <2>3 DEF StepOver
<1> QED
    BY <1>1 DEF Walks

-----------------------------------------------------------------------------
(* run_forward and run_backtest over one store                              *)

\* the walk at day D, from what f has of the day before
WalkFrom(db, cfg, f, D) == IF D = 0 THEN FlatStart ELSE StepOver(db, D, cfg, f[D - 1])

\* the recursive definition of the walk defines a function
LEMMA WalkExists ==
    ASSUME NEW db, NEW cfg, NEW n \in Nat
    PROVE  \E f : f = [D \in 0..n |-> WalkFrom(db, cfg, f, D)]
<1> DEFINE C == {m \in Nat : ~ \E f : Walks(db, m, cfg, f)}
<1>1. C = {}
  <2> SUFFICES ASSUME C # {} PROVE FALSE
    OBVIOUS
  <2>1. PICK m \in C : \A k \in C : m <= k
    <3>1. C \in SUBSET Nat
      OBVIOUS
    <3> HIDE DEF C
    <3> QED
      BY <3>1, LeastNat
  <2>2. m # 0
    <3> DEFINE f == [D \in {0} |-> FlatStart]
    <3>1. f[0] = FlatStart
      OBVIOUS
    <3> HIDE DEF f
    <3>2. Walks(db, 0, cfg, f)
      BY <3>1 DEF Walks
    <3> QED
      BY <3>2
  <2>3. PICK k \in Nat : k = m - 1 /\ k + 1 = m /\ ~(m <= k)
    BY <2>2
  <2>4. PICK h : Walks(db, k, cfg, h)
    BY <2>1, <2>3
  <2> DEFINE g == [D \in 0..m |-> IF D = m THEN StepOver(db, m, cfg, h[k]) ELSE h[D]]
  <2>5. g[m] = StepOver(db, m, cfg, h[k]) /\ \A D \in 0..k : g[D] = h[D]
    BY <2>3
  <2> HIDE DEF g
  <2>6. ASSUME NEW D \in 1..m PROVE g[D] = StepOver(db, D, cfg, g[D - 1])
    <3>1. CASE D = m
      <4>1. D - 1 = k /\ k \in 0..k
        BY <2>3, <3>1
      <4> QED
        BY <2>5, <3>1, <4>1
    <3>2. CASE D \in 1..k
      <4>1. D \in 0..k /\ D - 1 \in 0..k
        BY <3>2
      <4> QED
        BY <2>4, <2>5, <3>2, <4>1 DEF Walks
    <3> QED
      BY <2>3, <3>1, <3>2
  <2>7. g[0] = FlatStart
    <3>1. 0 \in 0..k
      BY <2>3
    <3> QED
      BY <2>4, <2>5, <3>1 DEF Walks
  <2>8. Walks(db, m, cfg, g)
    BY <2>6, <2>7 DEF Walks
  <2> QED
    BY <2>8
<1>2. PICK h : Walks(db, n, cfg, h)
    BY <1>1
<1> DEFINE f == [D \in 0..n |-> h[D]]
<1>3. ASSUME NEW D \in 0..n PROVE f[D] = WalkFrom(db, cfg, f, D)
  <2>1. D # 0 => D \in 1..n /\ D - 1 \in 0..n
    OBVIOUS
  <2> QED
    BY <1>2, <2>1 DEF Walks, WalkFrom
<1> HIDE DEF C
<1>4. f = [D \in 0..n |-> WalkFrom(db, cfg, f, D)]
    BY <1>3
<1> QED
    BY <1>4

(* The stepping and the batch code path close the same trades over one      *)
(* store, whatever is in it, for any days and any configuration (runner.py  *)
(* run_forward: "the two paths reconcile over identical data").             *)
THEOREM RunnersReconcile ==
    ASSUME NEW db, NEW cfg, NEW n \in Nat
    PROVE  RunForward(db, n, cfg) = RunBacktest(db, n, cfg)
<1> DEFINE Solves(f) == f = [D \in 0..n |-> WalkFrom(db, cfg, f, D)]
           h == CHOOSE f : Solves(f)
<1>1. RunForward(db, n, cfg) = h[n].trades
    BY DEF RunForward, WalkFrom
<1>2. Solves(h)
  <2>1. \E f : Solves(f)
    BY WalkExists
  <2> HIDE DEF Solves
  <2> QED
    BY <2>1
<1> SUFFICES ASSUME NEW w, w = h, Solves(w) PROVE RunBacktest(db, n, cfg) = w[n].trades
    BY <1>1, <1>2
<1> HIDE DEF h
<1>3. w[0] = FlatStart /\ \A D \in 1..n : w[D] = StepOver(db, D, cfg, w[D - 1])
  <2>1. 0 \in 0..n /\ \A D \in 1..n : D \in 0..n /\ D # 0
    OBVIOUS
  <2> QED
    BY <2>1 DEF WalkFrom
<1> HIDE DEF Solves
<1> QED
    BY <1>3, WalkIsBacktest DEF Walks

-----------------------------------------------------------------------------
(* The forward run keeps step with a backtest of the store as it is, up to  *)
(* the last day no late row has overtaken                                   *)

\* s begins t, and whatever follows in t was closed after day D
Begins(s, t, D) ==
    /\ Len(s) \in Nat /\ Len(s) <= Len(t) /\ s = SubSeq(t, 1, Len(s))
    /\ \A i \in (Len(s) + 1)..Len(t) : t[i].exit.day > D

Walked ==
    \E h : /\ Walks(Store, firm, run, h)
           /\ \A D \in 0..firm : Begins(h[D].trades, trades, D)
           /\ firm = stepped => h[firm] = [held |-> held, trades |-> trades]

Awarded ==
    /\ ledger.n \in 0..Len(trades)
    /\ ledger.state = ResolveState(ledger.months, SubSeq(trades, 1, ledger.n))

PaperInv ==
    /\ EngineInv /\ stepped \in 0..Len(tape) /\ firm \in 0..stepped
    /\ \E S : trades \in Seq(S)
    /\ Walked /\ Awarded

LEMMA PaperStart == PaperInit => PaperInv
<1> SUFFICES ASSUME PaperInit PROVE PaperInv
    OBVIOUS
<1>1. EngineInv /\ stepped = 0 /\ stepped \in 0..Len(tape) /\ firm = 0
    BY EngineStart DEF PaperInit, EngineInit, TapeInit
<1>2. Walked
  <2> DEFINE h == [D \in {0} |-> FlatStart]
  <2>1. h[0] = FlatStart
    OBVIOUS
  <2> HIDE DEF h
  <2>2. Walks(Store, firm, run, h)
    BY <1>1, <2>1 DEF Walks
  <2>3. h[firm] = [held |-> held, trades |-> trades] /\ h[0].trades = <<>> /\ trades = <<>>
    BY <1>1, <2>1 DEF FlatStart, PaperInit
  <2>4. Begins(<<>>, <<>>, 0)
    BY DEF Begins
  <2>5. \A D \in 0..firm : D = 0
    BY <1>1
  <2> QED
    BY <2>2, <2>3, <2>4, <2>5 DEF Walked
<1>3. Awarded /\ trades \in Seq({})
    BY DEF PaperInit, Awarded, ResolveState
<1> QED
    BY <1>1, <1>2, <1>3 DEF PaperInv

\* an exit is a fill of its day
LEMMA ExitClosed ==
    ASSUME NEW db, NEW pos, NEW D, NEW cfg, NEW trade, trade = AttemptExit(db, pos, D, cfg), trade # Absent
    PROVE  trade.exit.day = D
<1> DEFINE fill == FillOrder("SELL", 1000, pos.entry.qty, D, db.tape[D].open, PrevFillClose(db, D), cfg.board,
                             pos.entry.tier)
<1>1. fill.filled => fill.filled = TRUE /\ fill.day = D
    BY SMT DEF FillOrder, NoFill
<1> HIDE DEF fill
<1> DEFINE F == DecisionFrame(db, D)
<1>2. PICK reason : reason = ExitReason(BarsAt(db, F), pos, DecayFlags(db, F, Classify(BarsAt(db, F))))
    OBVIOUS
<1>3. trade = (IF ~Fillable(db, D) THEN Absent
               ELSE IF reason = "NONE" THEN Absent
               ELSE IF ~fill.filled THEN Absent
               ELSE [entry |-> pos.entry, exit |-> fill, reason |-> reason])
    BY <1>2, SMT DEF AttemptExit, fill
<1>4. fill.filled /\ trade.exit = fill
    BY <1>3
<1> QED
    BY <1>1, <1>4

\* the decisions of days a change of the store does not reach are the same in both
LEMMA ReachedDays ==
    ASSUME EngineInv, EngineNext, NEW was, was = Store, NEW is, is = Store', ksei' = ksei,
           NEW n \in Nat, n <= Len(tape),
           \A d \in DOMAIN flows : flows'[d] # flows[d] => flows'[d].stamp \in Nat /\ n <= flows'[d].stamp,
           \A d \in DOMAIN tape : tape'[d] # tape[d] => n < d
    PROVE  Len(tape) <= Len(tape') /\ \A D \in 1..n : SameDay(was, is, D)
<1>0. /\ was.tape = tape /\ was.flows = flows /\ was.ksei = ksei
      /\ is.tape = tape' /\ is.flows = flows' /\ is.ksei = ksei'
    BY DEF Store
<1>1. EngineInv'
    BY EngineStep
<1>2. Len(tape) <= Len(tape')
  <2>1. ASSUME NEW book \in Books \union {Absent}, CloseWith(book) PROVE <1>2!:
    BY <2>1, CloseGrows DEF EngineInv
  <2>2. ASSUME NEW d \in DOMAIN flows, NEW book \in Books, NEW stamp \in {d, Len(tape)},
               FetchLate(d, book, stamp)
        PROVE  <1>2!:
    BY <2>2 DEF FetchLate, EngineInv
  <2>3. ASSUME NEW day \in SliceDays, NEW share \in Shares, FetchSlice(day, share) PROVE <1>2!:
    BY <2>3 DEF FetchSlice, EngineInv
  <2>4. ASSUME NEW d \in DOMAIN tape, NEW b \in Bars, FillBar(d, b) PROVE <1>2!:
    <3>1. Len(tape') = Len(tape)
      BY <2>4, FillKeepsTape
    <3>2. Len(tape) \in Nat
      BY DEF EngineInv
    <3> QED
      BY <3>1, <3>2
  <2> QED
    BY <2>1, <2>2, <2>3, <2>4 DEF EngineNext
<1>3. Len(tape) \in Nat /\ Len(tape') \in Nat /\ DOMAIN tape = 1..Len(tape) /\ DOMAIN tape' = 1..Len(tape')
    BY <1>1 DEF EngineInv
<1> SUFFICES ASSUME NEW D \in 1..n PROVE SameDay(was, is, D)
    BY <1>2
<1>4. Agree(was, is, D - 1)
  <2>1. PICK F \in 0..Len(tape) : F = D - 1 /\ F < n
    BY <1>3
  <2>2. \A s \in is.ksei \ was.ksei : F < s.stamp
    BY <1>0
  <2>3. \A d \in DOMAIN was.flows : is.flows[d] # was.flows[d] => F < is.flows[d].stamp
    BY <1>0, <2>1
  <2>4. \A d \in DOMAIN was.tape : is.tape[d] # was.tape[d] => F < d
    BY <1>0, <1>3, <2>1
  <2>5. Agree(was, is, F)
    BY <2>1, <2>2, <2>3, <2>4, StepAgrees
  <2> QED
    BY <2>1, <2>5
<1>5. D \in DOMAIN was.tape /\ D \in DOMAIN is.tape
    BY <1>0, <1>2, <1>3
<1>6. \A d \in 1..D : is.tape[d] = was.tape[d]
  <2>1. \A d \in 1..D : d \in DOMAIN tape /\ ~(n < d)
    BY <1>3
  <2> QED
    BY <1>0, <2>1
<1> QED
    BY <1>0, <1>3, <1>4, <1>5, <1>6 DEF SameDay

\* a day the run has stepped, before the late row, is the same day in the store as it moves on
LEMMA FirmDaysStand ==
    ASSUME EngineInv, StoreMoves, firm \in Nat, firm <= Len(tape), NEW was, was = Store, NEW is, is = Store'
    PROVE  /\ EngineNext /\ Len(tape) <= Len(tape')
           /\ firm' \in 0..firm /\ \A D \in 1..firm' : SameDay(was, is, D)
<1> DEFINE Stand == \A D \in 1..firm' : SameDay(was, is, D)
           Goal == EngineNext /\ Len(tape) <= Len(tape') /\ firm' \in 0..firm /\ Stand
<1>1. Len(tape) \in Nat /\ DOMAIN tape = 1..Len(tape) /\ DOMAIN flows = 1..Len(tape)
    BY DEF EngineInv
<1>2. ASSUME NEW book \in Books \union {Absent}, CloseWith(book), firm' = firm PROVE Goal
  <2>1. PICK bar \in TapeBars, row \in FlowRows :
          tape' = Append(tape, bar) /\ flows' = Append(flows, row) /\ ksei' = ksei
    BY <1>2, CloseGrows
  <2>2. EngineNext /\ ksei' = ksei
    BY <1>2, <2>1 DEF EngineNext
  <2>3. \A d \in DOMAIN flows : flows'[d] = flows[d]
    BY <2>1 DEF EngineInv
  <2>4. \A d \in DOMAIN tape : tape'[d] = tape[d]
    BY <2>1 DEF EngineInv
  <2> QED
    BY <1>2, <2>2, <2>3, <2>4, ReachedDays
<1>3. ASSUME NEW d \in DOMAIN flows, NEW book \in Books, NEW stamp \in {d, Len(tape)},
             FetchLate(d, book, stamp), firm' = Min({firm, stamp})
      PROVE  Goal
  <2>1. EngineNext
    BY <1>3 DEF EngineNext
  <2>2. stamp \in Nat
    BY <1>1
  <2>3. firm' \in Nat /\ firm' <= firm /\ firm' <= stamp
    BY <1>3, <2>2, MinOfTwo
  <2>4. flows' = [flows EXCEPT ![d] = [book |-> book, stamp |-> stamp]] /\ tape' = tape /\ ksei' = ksei
    BY <1>3 DEF FetchLate
  <2>5. \A e \in DOMAIN flows : flows'[e] # flows[e] => flows'[e].stamp = stamp
    BY <2>4 DEF EngineInv
  <2>6. firm' <= Len(tape)
    BY <1>1, <2>3
  <2> QED
    BY <2>1, <2>2, <2>3, <2>4, <2>5, <2>6, ReachedDays
<1>4. ASSUME NEW d \in DOMAIN tape, NEW b \in Bars, FillBar(d, b), firm' = Min({firm, d - 1})
      PROVE  Goal
  <2>1. EngineNext
    BY <1>4 DEF EngineNext
  <2>2. PICK k \in Nat : k = d - 1 /\ k < d
    BY <1>1
  <2>3. firm' \in Nat /\ firm' <= firm /\ firm' <= k
    BY <1>4, <2>2, MinOfTwo
  <2>4. flows' = flows /\ ksei' = ksei /\ \A e \in DOMAIN tape : tape'[e] # tape[e] => e = d
    BY <1>4, FillKeepsTape
  <2>5. \A e \in DOMAIN tape : tape'[e] # tape[e] => firm' < e
    BY <1>1, <2>2, <2>3, <2>4
  <2>6. firm' <= Len(tape)
    BY <1>1, <2>3
  <2> QED
    BY <2>1, <2>3, <2>4, <2>5, <2>6, ReachedDays
<1> QED
    BY <1>2, <1>3, <1>4 DEF StoreMoves

\* a trade closed later begins nothing anew
LEMMA BeginsStill ==
    ASSUME NEW S, NEW t \in Seq(S), NEW s, NEW D, Begins(s, t, D), NEW x, x.exit.day > D
    PROVE  Begins(s, Append(t, x), D)
<1>1. t \in Seq(S \union {x}) /\ x \in S \union {x}
    OBVIOUS
<1> SUFFICES ASSUME NEW u, u = Append(t, x) PROVE Begins(s, u, D)
    OBVIOUS
<1>2. /\ Len(t) \in Nat /\ Len(u) = Len(t) + 1 /\ u[Len(t) + 1] = x
      /\ \A d \in 1..Len(t) : u[d] = t[d]
    BY <1>1, AppendProperties
<1>3. PICK k \in Nat : k = Len(s) /\ k <= Len(t)
    BY DEF Begins
<1>4. SubSeq(u, 1, k) = SubSeq(t, 1, k)
  <2>1. \A d \in 1..k : u[d] = t[d]
    BY <1>2, <1>3
  <2> QED
    BY <2>1, SameHead
<1>5. ASSUME NEW i \in (k + 1)..Len(u) PROVE u[i].exit.day > D
  <2>1. i = Len(t) + 1 \/ (i \in (k + 1)..Len(t) /\ i \in 1..Len(t))
    BY <1>2, <1>3
  <2> QED
    BY <1>2, <1>3, <2>1 DEF Begins
<1> QED
    BY <1>2, <1>3, <1>4, <1>5 DEF Begins

LEMMA BeginsItself == ASSUME NEW S, NEW t \in Seq(S), NEW D PROVE Begins(t, t, D)
<1>1. Len(t) \in Nat /\ t = SubSeq(t, 1, Len(t)) /\ (Len(t) + 1)..Len(t) = {}
    OBVIOUS
<1> QED
    BY <1>1 DEF Begins

LEMMA StepWalks == PaperInv /\ StepForward => PaperInv'
<1> SUFFICES ASSUME PaperInv, StepForward PROVE PaperInv'
    OBVIOUS
<1>1. /\ EngineInv' /\ Store' = Store /\ run' = run /\ ledger' = ledger /\ stepped' = stepped + 1
      /\ firm' = IF firm = stepped THEN stepped + 1 ELSE firm
    BY DEF StepForward, PaperInv, engineVars, EngineInv, Store
<1>2. /\ stepped \in Nat /\ Len(tape) \in Nat /\ stepped < Len(tape) /\ stepped' \in 0..Len(tape')
      /\ firm \in 0..stepped /\ firm' \in 0..stepped'
    BY <1>1 DEF StepForward, PaperInv, engineVars, EngineInv
<1>3. PICK h : /\ Walks(Store, firm, run, h)
               /\ \A D \in 0..firm : Begins(h[D].trades, trades, D)
               /\ firm = stepped => h[firm] = [held |-> held, trades |-> trades]
    BY DEF PaperInv, Walked
<1>4. PICK S : trades \in Seq(S)
    BY DEF PaperInv
<1>5. [held |-> held', trades |-> trades'] = StepOver(Store, stepped + 1, run, [held |-> held, trades |-> trades])
    BY DEF StepForward, StepOver
<1>6. trades' = trades \/ \E trade : trades' = Append(trades, trade) /\ trade.exit.day = stepped + 1
  <2> DEFINE x == AttemptExit(Store, held, stepped + 1, run)
  <2>1. trades' = trades \/ (x # Absent /\ trades' = Append(trades, x))
    <3> HIDE DEF x
    <3>1. x = AttemptExit(Store, held, stepped + 1, run)
      BY DEF x
    <3> QED
      BY <1>5, <3>1 DEF StepOver
  <2>2. x # Absent => x.exit.day = stepped + 1
    BY ExitClosed
  <2> HIDE DEF x
  <2> QED
    BY <2>1, <2>2
<1>7. \E T : trades' \in Seq(T)
  <2>1. ASSUME NEW trade, trades' = Append(trades, trade) PROVE <1>7!:
    <3>1. trades \in Seq(S \union {trade}) /\ trade \in S \union {trade}
      BY <1>4
    <3> QED
      BY <2>1, <3>1
  <2> QED
    BY <1>4, <1>6, <2>1
<1>8. \A D \in 0..firm : Begins(h[D].trades, trades', D)
  <2>1. ASSUME NEW D \in 0..firm, NEW trade, trades' = Append(trades, trade), trade.exit.day = stepped + 1
        PROVE  Begins(h[D].trades, trades', D)
    <3>1. trade.exit.day > D
      BY <1>2, <2>1
    <3> QED
      BY <1>3, <1>4, <2>1, <3>1, BeginsStill
  <2> QED
    BY <1>3, <1>6, <2>1
<1>9. Walked'
  <2>1. CASE firm # stepped
    <3>1. firm' = firm /\ firm' # stepped'
      BY <1>1, <1>2, <2>1
    <3>2. Walks(Store', firm', run', h)
      BY <1>1, <1>3, <3>1
    <3> QED
      BY <1>8, <3>1, <3>2 DEF Walked
  <2>2. CASE firm = stepped
    <3> DEFINE n == stepped + 1
               g == [D \in 0..n |-> IF D = n THEN [held |-> held', trades |-> trades'] ELSE h[D]]
    <3>1. /\ n \in Nat /\ n = firm' /\ n = stepped' /\ g[n] = [held |-> held', trades |-> trades']
          /\ \A D \in 0..stepped : g[D] = h[D]
      BY <1>1, <1>2, <2>2
    <3> HIDE DEF g
    <3>2. ASSUME NEW D \in 1..n PROVE g[D] = StepOver(Store, D, run, g[D - 1])
      <4>1. CASE D = n
        <5>1. n - 1 = stepped /\ stepped \in 0..stepped
          BY <1>2
        <5> QED
          BY <1>3, <1>5, <2>2, <3>1, <4>1, <5>1
      <4>2. CASE D \in 1..stepped
        <5>1. D \in 0..stepped /\ D - 1 \in 0..stepped
          BY <1>2, <4>2
        <5> QED
          BY <1>3, <2>2, <3>1, <4>2, <5>1 DEF Walks
      <4> QED
        BY <1>2, <4>1, <4>2
    <3>3. g[0] = FlatStart
      <4>1. 0 \in 0..stepped
        BY <1>2
      <4> QED
        BY <1>3, <3>1, <4>1 DEF Walks
    <3>4. Walks(Store', firm', run', g)
      BY <1>1, <3>1, <3>2, <3>3 DEF Walks
    <3>5. ASSUME NEW D \in 0..firm' PROVE Begins(g[D].trades, trades', D)
      <4>1. CASE D = n
        BY <1>7, <3>1, <4>1, BeginsItself
      <4>2. CASE D \in 0..stepped
        BY <1>8, <2>2, <3>1, <4>2
      <4> QED
        BY <1>2, <3>1, <4>1, <4>2
    <3> QED
      BY <3>1, <3>4, <3>5 DEF Walked
  <2> QED
    BY <2>1, <2>2
<1>10. Awarded'
  <2>1. \A k \in 0..Len(trades) : k \in 0..Len(trades') /\ SubSeq(trades', 1, k) = SubSeq(trades, 1, k)
    <3>1. CASE trades' = trades
      BY <3>1
    <3>2. ASSUME NEW trade, trades' = Append(trades, trade), NEW k \in 0..Len(trades)
          PROVE  k \in 0..Len(trades') /\ SubSeq(trades', 1, k) = SubSeq(trades, 1, k)
      <4>1. /\ Len(trades) \in Nat /\ Len(trades') = Len(trades) + 1
            /\ \A d \in 1..Len(trades) : trades'[d] = trades[d]
        <5>1. trades \in Seq(S \union {trade}) /\ trade \in S \union {trade}
          BY <1>4
        <5> QED
          BY <3>2, <5>1, AppendProperties
      <4>2. k \in Nat /\ \A d \in 1..k : trades'[d] = trades[d]
        BY <4>1
      <4>3. SubSeq(trades', 1, k) = SubSeq(trades, 1, k)
        BY <4>2, SameHead
      <4> QED
        BY <4>1, <4>3
    <3> QED
      BY <1>6, <3>1, <3>2
  <2> QED
    BY <1>1, <2>1 DEF PaperInv, Awarded
<1> QED
    BY <1>1, <1>2, <1>7, <1>9, <1>10 DEF PaperInv

LEMMA RecordAwards ==
    ASSUME PaperInv, NEW months \in 0..PAPER_VALIDATION_MONTHS, RecordForwardPaper(months)
    PROVE  PaperInv'
<1>1. EngineInv' /\ stepped' \in 0..Len(tape') /\ firm' \in 0..stepped' /\ Walked'
    BY DEF RecordForwardPaper, PaperInv, engineVars, EngineInv, Walked, Store
<1>2. PICK S : trades \in Seq(S)
    BY DEF PaperInv
<1>3. Len(trades) \in 0..Len(trades) /\ SubSeq(trades, 1, Len(trades)) = trades
    BY <1>2
<1>4. /\ trades' = trades /\ ledger'.n = Len(trades) /\ ledger'.months = months
      /\ ledger'.state = ResolveState(months, trades)
    BY DEF RecordForwardPaper
<1>5. Awarded'
    BY <1>3, <1>4 DEF Awarded
<1> QED
    BY <1>1, <1>2, <1>4, <1>5 DEF PaperInv

LEMMA PaperStep == PaperInv /\ [PaperNext]_paperVars => PaperInv'
<1> SUFFICES ASSUME PaperInv, [PaperNext]_paperVars PROVE PaperInv'
    OBVIOUS
<1>1. CASE StepForward
    BY <1>1, StepWalks
<1>2. ASSUME NEW months \in 0..PAPER_VALIDATION_MONTHS, RecordForwardPaper(months) PROVE PaperInv'
    BY <1>2, RecordAwards
<1>3. CASE StoreMoves
  <2>1. firm \in Nat /\ stepped \in Nat /\ Len(tape) \in Nat /\ firm <= stepped /\ stepped <= Len(tape) /\ EngineInv
    BY DEF PaperInv, EngineInv
  <2>2. firm <= Len(tape)
    BY <2>1
  <2>3. /\ EngineNext /\ Len(tape) <= Len(tape') /\ firm' \in 0..firm
        /\ \A was, is : was = Store /\ is = Store' => \A D \in 1..firm' : SameDay(was, is, D)
    BY <1>3, <2>1, <2>2, FirmDaysStand
  <2>4. EngineInv'
    BY <2>1, <2>3, EngineStep
  <2>5. stepped' = stepped /\ run' = run /\ held' = held /\ trades' = trades /\ ledger' = ledger
    BY <1>3 DEF StoreMoves
  <2>6. stepped' \in 0..Len(tape') /\ firm' \in 0..stepped' /\ firm' \in Nat /\ 0..firm' \subseteq 0..firm
    BY <2>1, <2>3, <2>4, <2>5 DEF EngineInv
  <2>7. PICK h : /\ Walks(Store, firm, run, h)
                 /\ \A D \in 0..firm : Begins(h[D].trades, trades, D)
                 /\ firm = stepped => h[firm] = [held |-> held, trades |-> trades]
    BY DEF PaperInv, Walked
  <2>8. Walks(Store, firm', run, h)
    <3>1. 1..firm' \subseteq 1..firm
      BY <2>1, <2>3
    <3> QED
      BY <2>7, <3>1 DEF Walks
  <2>9. ASSUME NEW was, was = Store, NEW is, is = Store' PROVE Walks(is, firm', run, h)
    BY <2>3, <2>6, <2>8, <2>9, WalkStands
  <2>10. Walks(Store', firm', run', h)
    BY <2>5, <2>9
  <2>11. \A D \in 0..firm' : Begins(h[D].trades, trades', D)
    BY <2>5, <2>6, <2>7
  <2>12. firm' = stepped' => h[firm'] = [held |-> held', trades |-> trades']
    <3>1. firm' = stepped' => firm' = firm /\ firm = stepped
      BY <2>1, <2>3, <2>5
    <3> QED
      BY <2>5, <2>7, <3>1
  <2>13. Walked'
    BY <2>10, <2>11, <2>12 DEF Walked
  <2>14. Awarded' /\ \E S : trades' \in Seq(S)
    BY <2>5 DEF PaperInv, Awarded
  <2> QED
    BY <2>4, <2>6, <2>13, <2>14 DEF PaperInv
<1>4. CASE UNCHANGED paperVars
    BY <1>4 DEF paperVars, engineVars, runVars, PaperInv, EngineInv, Walked, Awarded, Store
<1> QED
    BY <1>1, <1>2, <1>3, <1>4 DEF PaperNext

LEMMA PaperReconciles == PaperInv => ForwardIsBacktest
<1> SUFFICES ASSUME PaperInv PROVE ForwardIsBacktest
    OBVIOUS
<1>1. PICK h : Walks(Store, firm, run, h) /\ \A D \in 0..firm : Begins(h[D].trades, trades, D)
    BY DEF PaperInv, Walked
<1>2. stepped \in Nat /\ firm \in Nat /\ firm \in 0..firm
    BY DEF PaperInv, EngineInv
<1> SUFFICES ASSUME NEW b, b = RunBacktest(Store, firm, run)
             PROVE  /\ Len(b) <= Len(trades) /\ b = SubSeq(trades, 1, Len(b))
                    /\ \A i \in (Len(b) + 1)..Len(trades) : trades[i].exit.day > firm
                    /\ ledger.n <= Len(b) =>
                          ledger.state = ResolveState(ledger.months, SubSeq(b, 1, ledger.n))
    BY DEF ForwardIsBacktest
<1>4. b = h[firm].trades
    BY <1>1, <1>2, WalkIsBacktest
<1>5. Begins(b, trades, firm)
    BY <1>1, <1>2, <1>4
<1>6. PICK S : trades \in Seq(S)
    BY DEF PaperInv
<1>7. ASSUME ledger.n <= Len(b) PROVE SubSeq(b, 1, ledger.n) = SubSeq(trades, 1, ledger.n)
  <2>0. ledger.n \in Nat /\ Len(b) \in Nat /\ Len(b) <= Len(trades) /\ b = SubSeq(trades, 1, Len(b))
    BY <1>5, <1>6 DEF Begins, PaperInv, Awarded
  <2>1. PICK k \in Nat, n \in Nat : k = ledger.n /\ n = Len(b) /\ k <= n /\ n <= Len(trades) /\ b = SubSeq(trades, 1, n)
    BY <1>7, <2>0
  <2>2. \A d \in 1..k : b[d] = trades[d]
    <3>1. \A d \in 1..n : SubSeq(trades, 1, n)[d] = trades[d]
      BY <1>6, <2>1
    <3>2. \A d \in 1..k : d \in 1..n
      BY <2>1
    <3> QED
      BY <2>1, <3>1, <3>2
  <2> QED
    BY <2>1, <2>2, SameHead
<1> QED
    BY <1>5, <1>7 DEF Begins, PaperInv, Awarded

PaperSpec == PaperInit /\ [][PaperNext]_paperVars

(* The run that decided each day on the store of that day closed, up to the  *)
(* day before the first decision a late bar or summary changes, the trades   *)
(* of a backtest over the whole store as it is now, whatever stamps the late *)
(* rows carry, how many there are and when they come; all else it closed     *)
(* after that day, and an award that counted no more than those trades is    *)
(* what they earn (runner.py run_backtest, run_forward; promotion.py         *)
(* record_forward_paper; timing.py broker_as_of).                            *)
THEOREM PaperIsBacktest == PaperSpec => []ForwardIsBacktest
<1> QED
    BY PaperStart, PaperStep, PaperReconciles, PTL DEF PaperSpec

(* In the terminal: the run of daily steps reconciles with a backtest of the *)
(* store as it has become up to the day before the first decision that a    *)
(* late bar or summary, with either of its stamps, changes; what it closed  *)
(* beyond that it closed after that day (runner.py, timing.py).             *)
THEOREM DeskPaperIsBacktest == DeskSpec => []ForwardEqualsBacktest
<1> DEFINE I == part = "paper" => PaperInv
<1>1. DeskInit => I
    BY PaperStart DEF DeskInit
<1>2. part = "paper" /\ [DeskNext]_deskVars => part' = "paper" /\ [PaperNext]_paperVars
    BY DEF DeskNext, deskVars
<1>3. part' = "paper" /\ [DeskNext]_deskVars => part = "paper"
    BY DEF DeskNext, deskVars
<1>4. I /\ [DeskNext]_deskVars => I'
    BY <1>2, <1>3, PaperStep
<1>5. I => ForwardEqualsBacktest
    BY PaperReconciles DEF ForwardEqualsBacktest
<1> QED
    BY <1>1, <1>4, <1>5, PTL DEF DeskSpec

-----------------------------------------------------------------------------
(* Types of the tape, the store and the paper run                           *)

\* a bar is stored with its day, and has no other of its own
LEMMA BarPrinted ==
    ASSUME NEW b \in Bars, NEW n \in Nat
    PROVE  [b EXCEPT !.day = n].day = n /\ [[b EXCEPT !.day = n] EXCEPT !.day = 0] = b
BY TapeAssumption DEF Price

LEMMA EngineTypesStart == EngineInit => EngineTypeOK
BY TapeAssumption DEF EngineInit, TapeInit, EngineTypeOK, TapeTypeOK

LEMMA TapeTyped ==
    ASSUME EngineInv, TapeTypeOK, TapeNext
    PROVE  TapeTypeOK' /\ Len(tape') = Len(tape) + 1
<1>1. Len(tape) \in Nat /\ Len(tape) < TapeDays /\ TapeDays \in Nat /\ tape \in Seq(TapeBars)
    BY TapeAssumption DEF EngineInv, TapeNext, PrintBar, SkipBar
<1>2. PICK bar \in TapeBars :
          /\ tape' = Append(tape, bar)
          /\ bar # Absent => bar.day = Len(tape) + 1 /\ [bar EXCEPT !.day = 0] \in Bars
  <2>1. CASE PrintBar
    <3>1. PICK b \in Bars : tape' = Append(tape, [b EXCEPT !.day = Len(tape) + 1])
      BY <2>1 DEF PrintBar
    <3>2. PICK n \in Nat : n = Len(tape) + 1
      BY <1>1
    <3>3. PICK bar : bar = [b EXCEPT !.day = n]
      OBVIOUS
    <3>4. bar.day = n /\ [bar EXCEPT !.day = 0] = b
      BY <3>1, <3>3, BarPrinted
    <3>5. bar \in TapeBars /\ tape' = Append(tape, bar)
      BY <3>1, <3>2, <3>3 DEF TapeBars
    <3> QED
      BY <3>1, <3>2, <3>4, <3>5
  <2>2. CASE SkipBar
    BY <2>2 DEF SkipBar, TapeBars
  <2> QED
    BY <2>1, <2>2 DEF TapeNext
<1>3. /\ Len(tape') = Len(tape) + 1 /\ DOMAIN tape' = 1..(Len(tape) + 1)
      /\ \A d \in DOMAIN tape : tape'[d] = tape[d]
      /\ tape'[Len(tape) + 1] = bar /\ DOMAIN tape = 1..Len(tape)
    BY <1>1, <1>2
<1>4. ASSUME NEW d \in DOMAIN tape', tape'[d] # Absent
      PROVE  tape'[d].day = d /\ [tape'[d] EXCEPT !.day = 0] \in Bars
  <2>1. CASE d \in DOMAIN tape
    BY <1>3, <1>4, <2>1 DEF TapeTypeOK
  <2>2. CASE d = Len(tape) + 1
    BY <1>2, <1>3, <1>4, <2>2
  <2> QED
    BY <1>1, <1>3, <2>1, <2>2
<1> QED
    BY <1>1, <1>3, <1>4 DEF TapeTypeOK

LEMMA EngineTyped ==
    ASSUME EngineInv, EngineTypeOK, EngineNext
    PROVE  EngineTypeOK' /\ Len(tape) \in Nat /\ Len(tape') \in Nat /\ Len(tape) <= Len(tape')
<1> DEFINE Goal == EngineTypeOK' /\ Len(tape') \in Nat /\ Len(tape) <= Len(tape')
<1>1. /\ Len(tape) \in Nat /\ tape \in Seq(TapeBars) /\ flows \in Seq(FlowRows) /\ Len(flows) = Len(tape)
      /\ TapeTypeOK
    BY DEF EngineInv, EngineTypeOK
<1>2. ASSUME NEW book \in Books \union {Absent}, CloseWith(book) PROVE Goal
  <2>1. TapeTypeOK' /\ Len(tape') = Len(tape) + 1
    BY <1>1, <1>2, TapeTyped DEF CloseWith
  <2>2. PICK row : /\ flows' = Append(flows, row)
                   /\ row = (IF book = Absent THEN Absent ELSE [book |-> book, stamp |-> Len(tape) + 1])
    BY <1>2, <2>1 DEF CloseWith
  <2>3. row \in FlowRows
    BY <1>1, <2>2 DEF FlowRows
  <2>4. /\ Len(flows') = Len(flows) + 1 /\ DOMAIN flows' = 1..(Len(flows) + 1) /\ DOMAIN flows = 1..Len(flows)
        /\ \A d \in DOMAIN flows : flows'[d] = flows[d]
        /\ flows'[Len(flows) + 1] = row
    BY <1>1, <2>2, <2>3
  <2>5. ASSUME NEW d \in DOMAIN flows', flows'[d] # Absent
        PROVE  flows'[d].book \in Books /\ flows'[d].stamp \in d..Len(tape')
    <3>1. CASE d \in DOMAIN flows
      BY <1>1, <2>1, <2>4, <2>5, <3>1 DEF EngineTypeOK
    <3>2. CASE d = Len(flows) + 1
      BY <1>1, <1>2, <2>1, <2>2, <2>4, <2>5, <3>2
    <3> QED
      BY <1>1, <2>4, <3>1, <3>2
  <2> QED
    BY <1>1, <1>2, <2>1, <2>4, <2>5 DEF EngineTypeOK, CloseWith
<1>3. ASSUME NEW d \in DOMAIN flows, NEW book \in Books, NEW stamp \in {d, Len(tape)}, FetchLate(d, book, stamp)
      PROVE  Goal
    BY <1>1, <1>3 DEF EngineTypeOK, FetchLate, TapeTypeOK
<1>4. ASSUME NEW day \in SliceDays, NEW share \in Shares, FetchSlice(day, share) PROVE Goal
  <2>1. day \in Nat /\ Len(tape) \in day..TapeDays
    BY <1>1, <1>4, EngineAssumption, TapeAssumption DEF FetchSlice, TapeTypeOK
  <2> QED
    BY <1>1, <1>4, <2>1 DEF EngineTypeOK, FetchSlice, TapeTypeOK
<1>5. ASSUME NEW d \in DOMAIN tape, NEW b \in Bars, FillBar(d, b) PROVE Goal
  <2>0. d \in Nat
    BY <1>1
  <2>1. PICK bar : bar = [b EXCEPT !.day = d] /\ bar.day = d /\ [bar EXCEPT !.day = 0] = b
    BY <2>0, BarPrinted
  <2>2. bar \in TapeBars
    BY <2>0, <2>1 DEF TapeBars
  <2>3. /\ tape' = [tape EXCEPT ![d] = bar] /\ flows' = flows /\ ksei' = ksei
    BY <1>5, <2>1 DEF FillBar
  <2>4. /\ tape' \in Seq(TapeBars) /\ Len(tape') = Len(tape) /\ DOMAIN tape' = DOMAIN tape
        /\ tape'[d] = bar /\ \A e \in DOMAIN tape : e # d => tape'[e] = tape[e]
    BY <1>1, <2>2, <2>3
  <2>5. TapeTypeOK'
    BY <1>1, <2>1, <2>4 DEF TapeTypeOK
  <2> QED
    BY <1>1, <2>3, <2>4, <2>5 DEF EngineTypeOK
<1> QED
    BY <1>2, <1>3, <1>4, <1>5 DEF EngineNext

\* an entry is a fill of its day
LEMMA EntryOpened ==
    ASSUME NEW db, NEW D, NEW cfg, NEW pos, pos = AttemptEntry(db, D, cfg), pos # Absent
    PROVE  pos.entry.filled /\ pos.entry.day = D
<1> DEFINE Fill(order) == FillOrder("BUY", order.entry, order.qty, D, db.tape[D].open,
                                    PrevFillClose(db, D), cfg.board, order.tier)
<1>1. \A order : Fill(order).filled => Fill(order).filled = TRUE /\ Fill(order).day = D
    BY SMT DEF FillOrder, NoFill
<1> HIDE DEF Fill
<1> DEFINE F == DecisionFrame(db, D)
<1>2. PICK v : v = Evaluate(db, F, cfg.track, Readings(db, F))
    OBVIOUS
<1>3. PICK order : order = (IF InCohort(v, cfg) THEN Order(Trigger(BarsAt(db, F), v, cfg), cfg) ELSE Absent)
    OBVIOUS
<1>4. pos = (IF order = Absent THEN Absent
             ELSE IF ~Fill(order).filled THEN Absent
             ELSE [entry |-> Fill(order), stop |-> order.stop, target |-> order.target,
                   trail |-> TRAIL[Tilt(Fundamentals).kind]])
    BY <1>2, <1>3, SMT DEF AttemptEntry, Fill
<1>5. Fill(order).filled /\ pos.entry = Fill(order)
    BY <1>4
<1> QED
    BY <1>1, <1>5

PaperTyped == EngineInv /\ EngineTypeOK /\ PaperTypeOK /\ \E S : trades \in Seq(S)

LEMMA PaperTypesStart == PaperInit => PaperTyped
<1> SUFFICES ASSUME PaperInit PROVE PaperTyped
    OBVIOUS
<1>1. EngineInv /\ EngineTypeOK /\ Len(tape) = 0
    BY EngineStart, EngineTypesStart DEF PaperInit, EngineInit, TapeInit
<1>2. trades \in Seq({}) /\ Len(trades) = 0
    BY DEF PaperInit
<1> QED
    BY <1>1, <1>2 DEF PaperTyped, PaperTypeOK, PaperInit, PAPER_VALIDATION_MONTHS

\* the store moves on beside the run
LEMMA StoreTyped ==
    ASSUME PaperTyped, EngineNext, firm' \in 0..firm, UNCHANGED <<run, stepped, held, trades, ledger>>
    PROVE  PaperTyped'
<1>1. EngineInv' /\ EngineTypeOK' /\ Len(tape) \in Nat /\ Len(tape') \in Nat /\ Len(tape) <= Len(tape')
    BY EngineStep, EngineTyped DEF PaperTyped
<1>2. stepped' \in 0..Len(tape') /\ firm' \in 0..stepped'
    BY <1>1 DEF PaperTyped, PaperTypeOK
<1> QED
    BY <1>1, <1>2 DEF PaperTyped, PaperTypeOK

\* a step of the run over the next day
LEMMA StepTyped == PaperTyped /\ StepForward => PaperTyped'
<1> SUFFICES ASSUME PaperTyped, StepForward PROVE PaperTyped'
    OBVIOUS
<1>1. /\ stepped \in Nat /\ firm \in 0..stepped /\ Len(tape) \in Nat /\ stepped < Len(tape)
      /\ stepped' = stepped + 1 /\ ledger' = ledger /\ UNCHANGED engineVars
      /\ firm' = IF firm = stepped THEN stepped + 1 ELSE firm
    BY DEF StepForward, PaperTyped, PaperTypeOK, EngineInv
<1>2. EngineInv' /\ EngineTypeOK' /\ Len(tape') = Len(tape)
    BY <1>1 DEF engineVars, EngineInv, EngineTypeOK, TapeTypeOK, PaperTyped
<1>3. PICK S : trades \in Seq(S)
    BY DEF PaperTyped
<1>4. stepped' \in 0..Len(tape') /\ firm' \in 0..stepped'
    BY <1>1, <1>2
<1> DEFINE entry == AttemptEntry(Store, stepped + 1, run)
           trade == AttemptExit(Store, held, stepped + 1, run)
<1>5. /\ held' = entry \/ held' = held \/ held' = Absent
      /\ trades' = trades \/ trades' = Append(trades, trade)
  <2>1. entry = AttemptEntry(Store, stepped + 1, run) /\ trade = AttemptExit(Store, held, stepped + 1, run)
    OBVIOUS
  <2> HIDE DEF entry, trade
  <2> QED
    BY <2>1 DEF StepForward, StepOver
<1>6. held' # Absent => held'.entry.filled /\ held'.entry.day \in 1..stepped'
  <2>1. entry # Absent => entry.entry.filled /\ entry.entry.day = stepped + 1
    BY EntryOpened
  <2>2. held # Absent => held.entry.filled /\ held.entry.day \in 1..stepped
    BY DEF PaperTyped, PaperTypeOK
  <2> HIDE DEF entry
  <2> QED
    BY <1>1, <1>5, <2>1, <2>2
<1> HIDE DEF trade
<1>7. (\E T : trades' \in Seq(T)) /\ Len(trades') \in Nat /\ Len(trades) \in Nat /\ Len(trades) <= Len(trades')
  <2>1. trades \in Seq(S \union {trade}) /\ trade \in S \union {trade}
    BY <1>3
  <2> QED
    BY <1>3, <1>5, <2>1
<1>8. /\ ledger'.months \in 0..PAPER_VALIDATION_MONTHS /\ ledger'.n \in 0..Len(trades')
      /\ ledger'.state \in {"OBSERVATION_ONLY", "VALIDATING", "VALIDATED"}
    BY <1>1, <1>7 DEF PaperTyped, PaperTypeOK
<1> QED
    BY <1>2, <1>4, <1>6, <1>7, <1>8 DEF PaperTyped, PaperTypeOK

LEMMA PaperTypesStep == PaperTyped /\ [PaperNext]_paperVars => PaperTyped'
<1> SUFFICES ASSUME PaperTyped, [PaperNext]_paperVars PROVE PaperTyped'
    OBVIOUS
<1>1. stepped \in Nat /\ Len(tape) \in Nat /\ stepped <= Len(tape)
    BY DEF PaperTyped, PaperTypeOK, EngineInv
<1>2. PICK S : trades \in Seq(S)
    BY DEF PaperTyped
<1>3. UNCHANGED engineVars => (EngineInv' /\ EngineTypeOK' /\ Len(tape') = Len(tape))
    BY DEF engineVars, EngineInv, EngineTypeOK, TapeTypeOK, PaperTyped
<1>4. CASE StepForward
    BY <1>4, StepTyped
<1>5. ASSUME NEW months \in 0..PAPER_VALIDATION_MONTHS, RecordForwardPaper(months) PROVE PaperTyped'
  <2>1. Len(trades) \in 0..Len(trades)
    BY <1>2
  <2>2. ResolveState(months, trades) \in {"OBSERVATION_ONLY", "VALIDATING", "VALIDATED"}
    BY DEF ResolveState
  <2>3. /\ ledger'.months = months /\ ledger'.n = Len(trades) /\ ledger'.state = ResolveState(months, trades)
        /\ UNCHANGED <<run, stepped, held, trades, firm, engineVars>>
    BY <1>5 DEF RecordForwardPaper
  <2> QED
    BY <1>3, <1>5, <2>1, <2>2, <2>3 DEF PaperTyped, PaperTypeOK
<1>6. CASE StoreMoves
  <2>1. EngineInv /\ firm \in Nat /\ firm <= Len(tape)
    BY <1>1 DEF PaperTyped, PaperTypeOK
  <2>2. EngineNext /\ firm' \in 0..firm
    BY <1>6, <2>1, FirmDaysStand
  <2>3. UNCHANGED <<run, stepped, held, trades, ledger>>
    BY <1>6 DEF StoreMoves
  <2> QED
    BY <2>2, <2>3, StoreTyped
<1>7. CASE UNCHANGED paperVars
  <2>1. UNCHANGED engineVars /\ UNCHANGED runVars
    BY <1>7 DEF paperVars
  <2> QED
    BY <1>3, <2>1 DEF PaperTyped, PaperTypeOK, runVars
<1> QED
    BY <1>4, <1>5, <1>6, <1>7 DEF PaperNext
=============================================================================
