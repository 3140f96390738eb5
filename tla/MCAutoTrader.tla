---------------------------- MODULE MCAutoTrader ----------------------------
(* Small instances of AutoTrader.  Prices 8 and 10 against an equity of 40: *)
(* a marked loss trips the daily halt, a realized one the drawdown pause,   *)
(* and the sector has room for one dear position and a cheap second.        *)
EXTENDS AutoTrader, TLC

Symmetry == Permutations(Syms)

OneSector == [s \in Syms |-> "ENERGY"]

D(bar, cohort, cand, soft) == [bar |-> bar, cohort |-> cohort, cand |-> cand, soft |-> soft]

(* A quiet day for a buyable name, a cheaper bar of a name only Haste      *)
(* buys, and a decayed name that dropped out of the day's universe.         *)
FewFeeds ==
    {D(10, "ARMED", TRUE, FALSE), D(8, "WATCH", TRUE, FALSE), D(10, "ARMED", FALSE, TRUE)}

(* The same in two: up and buyable, or down, decayed and out of the         *)
(* universe.                                                                *)
UpDown == {D(10, "ARMED", TRUE, FALSE), D(8, "WATCH", FALSE, TRUE)}
=============================================================================
