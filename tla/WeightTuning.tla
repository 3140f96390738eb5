---------------------------- MODULE WeightTuning ----------------------------
(***************************************************************************)
(* The only writer of the score's weights (ml/*.py): a coordinate ascent   *)
(* over whole weights that fits on the training folds of a purged and      *)
(* embargoed walk-forward, proposes what survives its test folds, and is   *)
(* applied by a store that asks the ledger again (ml/weights_store.py).    *)
(*                                                                         *)
(* A backtest is external: weights -> the closed trades they realise, as   *)
(* [entry, exit, ret].  A Sharpe ratio is a whole number of tenths,        *)
(* rounded toward zero, at most 60.                                        *)
(***************************************************************************)
EXTENDS Config, SequencesExt

CONSTANTS
    Components,    \* the component keys, in the order of COMPONENT_KEYS
    Incumbents,    \* track -> its weights in config.py
    LockedZeros,   \* track -> the components it never funds
    Backtests,     \* what the backtests of a month may realise
    WEIGHT_SUM, WEIGHT_STEP, CV_FOLDS,
    MaxIters,      \* passes of a search
    MaxApplied     \* bound: proposals applied

Trade == [entry : Nat, exit : Nat \union {Absent}, ret : Int]

ASSUME TuningAssumption ==
    /\ {WEIGHT_SUM, WEIGHT_STEP, CV_FOLDS, MaxIters} \subseteq Nat \ {0} /\ MaxApplied \in Nat
    /\ Components \in Seq(Range(Components)) /\ DOMAIN LockedZeros = DOMAIN Incumbents
    /\ \A track \in DOMAIN LockedZeros : LockedZeros[track] \subseteq Range(Components)
    /\ \A b \in Backtests : \A w \in DOMAIN b : b[w] \in Seq(Trade)

VARIABLES
    admitted,   \* the ledger has the rules system VALIDATED
    realised,   \* the backtests as of now: a member of Backtests
    proposals,  \* proposals handed out by the optimizer
    surface,    \* the live weights: track -> weights
    applied     \* the applied proposals, in order

tuningVars == <<admitted, realised, proposals, surface, applied>>

Tracks == DOMAIN Incumbents

-----------------------------------------------------------------------------
\* Purged walk-forward folds of a sequence of trades

EMBARGO_FRAC == 20

\* the order of two samples: by entry, then by exit, then as they came; a label without
\* an end is the last of its day
Ahead(trades, i, j) ==
    LET t == trades[i]
        u == trades[j]
    IN \/ t.entry < u.entry
       \/ t.entry = u.entry /\ IF t.exit = u.exit THEN i < j
                              ELSE t.exit # Absent /\ (u.exit = Absent \/ t.exit < u.exit)

Rank(trades, i) == 1 + Cardinality({j \in DOMAIN trades : Ahead(trades, j, i)})

\* near-equal parts, the remainder to the front: the last rank of each part
PartEnd(n, parts, p) == p * (n \div parts) + Min({p, n % parts})
Segment(trades, parts, p) ==
    LET n == Len(trades)
    IN {i \in DOMAIN trades : Rank(trades, i) \in (PartEnd(n, parts, p - 1) + 1)..PartEnd(n, parts, p)}

Embargo(n) == (EMBARGO_FRAC * n + 999) \div 1000

\* a slip of Purge: an earlier trade is kept for having begun before the test block
Purge_ByEntry(trades, prior, start) == {i \in prior : trades[i].entry < start}

\* only trades that ended before the test block begins
Purge(trades, prior, start) == {i \in prior : trades[i].exit # Absent /\ trades[i].exit < start}

Foldable(trades) == Len(trades) >= CV_FOLDS + 1

\* fold k of purged_walk_forward: what it trains on, less the last of it, and what it tests
Fold(trades, k) ==
    LET test == Segment(trades, CV_FOLDS + 1, k + 1)
        prior == UNION {Segment(trades, CV_FOLDS + 1, p) : p \in 1..k}
        purged == Purge(trades, prior, Min({trades[i].entry : i \in test}))
        after(i) == {j \in purged : Ahead(trades, i, j)}
    IN [train |-> {i \in purged : Cardinality(after(i)) >= Embargo(Len(trades))}, test |-> test]

-----------------------------------------------------------------------------
\* The score of a candidate

\* mean / stdev of the returns of some of the trades; Absent where it is not defined
SharpeOf(trades, indices) ==
    LET n == Cardinality(indices)
        sum == MapThenSumSet(LAMBDA i : trades[i].ret, indices)
        spread == n * (n * MapThenSumSet(LAMBDA i : trades[i].ret * trades[i].ret, indices) - sum * sum)
        size == Max({k \in 0..60 : k * k * spread <= 100 * sum * sum * (n - 1)})
    IN IF n < 2 \/ spread = 0 THEN Absent ELSE IF sum < 0 THEN -size ELSE size

\* the mean over the training folds, times their number
Summed(sharpes) == IF Absent \in Range(sharpes) THEN Absent
                   ELSE MapThenSumSet(LAMBDA k : sharpes[k], DOMAIN sharpes)
TrainObjective(trades) ==
    IF ~Foldable(trades) THEN Absent
    ELSE Summed([k \in 1..CV_FOLDS |-> SharpeOf(trades, Fold(trades, k).train)])

\* the worst test fold
Worst(sharpes) == IF Absent \in sharpes THEN Absent ELSE Min(sharpes)
OosWorst(trades) ==
    IF ~Foldable(trades) THEN Absent
    ELSE Worst({SharpeOf(trades, Fold(trades, k).test) : k \in 1..CV_FOLDS})

-----------------------------------------------------------------------------
\* The search

ValidWeights(track, w) ==
    /\ w \in [Range(Components) -> Nat]
    /\ MapThenSumSet(LAMBDA c : w[c], Range(Components)) = WEIGHT_SUM
    /\ \A c \in LockedZeros[track] : w[c] = 0

\* the weights of config.py are valid (tests/test_sms.py:42)
ASSUME IncumbentAssumption == \A track \in DOMAIN Incumbents : ValidWeights(track, Incumbents[track])

\* a slip of Movable: the locked zeros are forgotten
Movable_Unlocked(track, w, from, to) == from # to /\ w[from] >= WEIGHT_STEP

\* a step may move between two funded components, out of one that holds it
Movable(track, w, from, to) ==
    from # to /\ {from, to} \intersect LockedZeros[track] = {} /\ w[from] >= WEIGHT_STEP
Shift(w, from, to) == [w EXCEPT ![from] = @ - WEIGHT_STEP, ![to] = @ + WEIGHT_STEP]

Better(acc, w, objective) ==
    IF objective # Absent /\ (IF acc.best = Absent THEN TRUE ELSE objective > acc.best)
    THEN [weights |-> w, best |-> objective] ELSE acc

\* one pass over the neighbours of where it began, from and to in the order of the keys:
\* each better one is taken at once
Pass(track, at) ==
    LET n == Len(Components)
        tried[x \in 0..(n * n)] ==
          IF x = 0 THEN at
          ELSE LET from == Components[(x - 1) \div n + 1]
                   to == Components[((x - 1) % n) + 1]
                   w == Shift(at.weights, from, to)
               IN IF Movable(track, at.weights, from, to) THEN Better(tried[x - 1], w, TrainObjective(realised[w]))
                  ELSE tried[x - 1]
    IN tried[n * n]

Search(track, start) ==
    LET climb[n \in 0..MaxIters] ==
          IF n = 0 THEN [weights |-> start, best |-> TrainObjective(realised[start])] ELSE Pass(track, climb[n - 1])
    IN climb[MaxIters].weights

Proposal(track, start, found, oos, before) ==
    [track |-> track, weights |-> found, incumbent |-> start, oos |-> oos, incumbent_oos |-> before,
     improved |-> /\ found # start
                  /\ IF oos = Absent THEN FALSE ELSE oos > 0 /\ (IF before = Absent THEN TRUE ELSE oos >= before)]

-----------------------------------------------------------------------------
TuningInit ==
    /\ admitted = FALSE
    /\ realised \in Backtests
    /\ proposals = {} /\ applied = <<>>
    /\ surface = Incumbents

\* the ledger records another month of paper, or demotes the rules system
Review ==
    /\ admitted' = ~admitted
    /\ UNCHANGED <<realised, proposals, surface, applied>>

\* another month of data: what each candidate would have realised
NewMonth ==
    /\ realised' \in Backtests \ {realised}
    /\ UNCHANGED <<admitted, proposals, surface, applied>>

\* from the live weights, or from those of config.py where none are passed
OptimizeWeights(track) ==
    /\ admitted
    /\ \E start \in {surface[track], Incumbents[track]} : \E found \in {Search(track, start)} :
          /\ ValidWeights(track, start) /\ ValidWeights(track, found)
          /\ proposals' = proposals \union
                {Proposal(track, start, found, OosWorst(realised[found]), OosWorst(realised[start]))}
    /\ UNCHANGED <<admitted, realised, surface, applied>>

\* refused unless the gate is open now and the proposal improved on its own incumbent
ApplyProposal(p) ==
    /\ admitted /\ p.improved /\ Len(applied) < MaxApplied
    /\ ValidWeights(p.track, p.weights)
    /\ surface' = [surface EXCEPT ![p.track] = p.weights]
    /\ applied' = Append(applied, p)
    /\ UNCHANGED <<admitted, realised, proposals>>

TuningNext ==
    \/ Review
    \/ NewMonth
    \/ \E track \in Tracks : OptimizeWeights(track)
    \/ \E p \in proposals : ApplyProposal(p)

-----------------------------------------------------------------------------
TuningTypeOK ==
    /\ admitted \in BOOLEAN /\ realised \in Backtests
    /\ DOMAIN surface = Tracks /\ \A track \in Tracks : ValidWeights(track, surface[track])
    /\ \A p \in proposals : p.track \in Tracks /\ ValidWeights(p.track, p.weights)
    /\ applied \in Seq(proposals)

(* The search ends on weights of the locked structure wherever it may       *)
(* start, so its own check of what it found never fails (optimizer.py:168,  *)
(* "invariant held throughout the search").                                 *)
SearchKeepsStructure ==
    \A track \in Tracks : \A start \in {surface[track], Incumbents[track]} :
        ValidWeights(track, Search(track, start))

(* No fold of a candidate's trades is trained on what its test shows: each  *)
(* trade trained on had ended before any trade of the test block began, the *)
(* test blocks share no trade, and all trades but the warm-up are tested    *)
(* (ml/cv.py purged_walk_forward: a training label that overlaps the test   *)
(* window has seen the future).                                             *)
PurgedFoldsDoNotLeak ==
    \A w \in DOMAIN realised : LET trades == realised[w] IN
        Foldable(trades) =>
            LET tested(k) == Fold(trades, k).test
            IN /\ \A k \in 1..CV_FOLDS : \A i \in Fold(trades, k).train, j \in tested(k) :
                     trades[i].exit < trades[j].entry
               /\ \A k, l \in 1..CV_FOLDS : k # l => tested(k) \intersect tested(l) = {}
               /\ Cardinality(UNION {tested(k) : k \in 1..CV_FOLDS})
                     = Len(trades) - PartEnd(Len(trades), CV_FOLDS + 1, 1)
=============================================================================
