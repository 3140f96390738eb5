---------------------------- MODULE MarketProofs ----------------------------
(***************************************************************************)
(* The market for any names, quotes, books and rosters: the types of the   *)
(* point-in-time universe; that the periods derived from the listing books *)
(* are disjoint and cover every book; that a replayed name would have      *)
(* passed the live gate; and no look-ahead: what is shown for a decision   *)
(* depends on no row of its day or of a later one, whenever it is stored.  *)
(***************************************************************************)
EXTENDS RiskMonitor, SetLemmas

PitSpec == PitInit /\ [][PitNext]_pitVars

-----------------------------------------------------------------------------
(* Books: what a shelf of transcribed books is.                             *)

BookRows == {r \in [book : Days, symbol : Symbols, listing : Days \cup {Absent}, cap : {1, Absent}] :
               r.listing # Absent => r.listing <= r.book}

LEMMA DayTypes == Days \in SUBSET Nat /\ (\A d \in Days : 1 <= d /\ d <= MaxDay) /\ MaxDay \in Nat
BY PointInTimeAssumption DEF Days

LEMMA SnapshotDays ==
    ASSUME NEW rows \in SUBSET BookRows
    PROVE  Snapshots(rows) \in SUBSET Days /\ \A b \in Snapshots(rows) : b \in Days /\ b \in Nat /\ b \in Int
<1>1. Snapshots(rows) \in SUBSET Days
    BY DEF Snapshots, BookRows
<1>2. \A d \in Days : d \in Nat /\ d \in Int
  <2>1. Days \in SUBSET Nat
    BY DayTypes
  <2> QED
    BY <2>1
<1> QED
    BY <1>1, <1>2

(* Beside a book there is one next to it, if there is one at all.           *)
LEMMA BookBefore ==
    ASSUME NEW rows \in SUBSET BookRows, NEW c \in Snapshots(rows), NEW a \in Snapshots(rows), a < c
    PROVE  \E x \in Snapshots(rows) : NextTo(rows, x, c) /\ a <= x
<1> DEFINE S == {y \in Snapshots(rows) : y < c}
<1>1. S \in SUBSET Int /\ S # {} /\ c \in Int /\ \A y \in S : y <= c
    BY SnapshotDays
<1>2. Max(S) \in S /\ \A y \in S : y <= Max(S)
  <2> HIDE DEF S
  <2> QED
    BY <1>1, MaxOfBounded
<1>3. \A y \in Snapshots(rows) : y \in Int
    BY SnapshotDays
<1>4. ASSUME NEW y \in Snapshots(rows), Max(S) < y, y < c PROVE FALSE
    BY <1>1, <1>2, <1>3, <1>4
<1>5. a <= Max(S)
    BY <1>2
<1> QED
    BY <1>2, <1>4, <1>5 DEF NextTo

LEMMA BookAfter ==
    ASSUME NEW rows \in SUBSET BookRows, NEW b \in Snapshots(rows), NEW d \in Snapshots(rows), b < d
    PROVE  \E x \in Snapshots(rows) : NextTo(rows, b, x) /\ x <= d
<1> DEFINE S == {y \in Snapshots(rows) : b < y}
<1>1. S \in SUBSET Int /\ S # {} /\ b \in Int /\ \A y \in S : b <= y
    BY SnapshotDays
<1>2. Min(S) \in S /\ \A y \in S : Min(S) <= y
  <2> HIDE DEF S
  <2> QED
    BY <1>1, MinOfBounded
<1>3. \A y \in Snapshots(rows) : y \in Int
    BY SnapshotDays
<1>4. ASSUME NEW y \in Snapshots(rows), b < y, y < Min(S) PROVE FALSE
    BY <1>1, <1>2, <1>3, <1>4
<1>5. Min(S) <= d
    BY <1>2
<1> QED
    BY <1>2, <1>4, <1>5 DEF NextTo

-----------------------------------------------------------------------------
(* Runs                                                                     *)

LEMMA RunShape ==
    ASSUME NEW rows \in SUBSET BookRows, NEW s, NEW run \in Runs(rows, s)
    PROVE  /\ run = <<run[1], run[2]>> /\ run[1] \in Snapshots(rows) /\ run[2] \in Snapshots(rows)
           /\ run[1] \in Days /\ run[2] \in Days /\ run[1] \in Nat /\ run[2] \in Nat
           /\ run[1] <= run[2]
           /\ \A x \in Snapshots(rows) : run[1] <= x /\ x <= run[2] => Lists(rows, x, s)
           /\ \A x \in Snapshots(rows) :
                 NextTo(rows, x, run[1]) \/ NextTo(rows, run[2], x) => ~Lists(rows, x, s)
<1>1. /\ run \in Snapshots(rows) \X Snapshots(rows)
      /\ run[1] <= run[2]
      /\ \A x \in Snapshots(rows) : run[1] <= x /\ x <= run[2] => Lists(rows, x, s)
      /\ \A x \in Snapshots(rows) :
            NextTo(rows, x, run[1]) \/ NextTo(rows, run[2], x) => ~Lists(rows, x, s)
    BY DEF Runs
<1> QED
    BY <1>1, SnapshotDays

(* Two runs of a name that meet are one run.                                *)
LEMMA RunsMeet ==
    ASSUME NEW rows \in SUBSET BookRows, NEW s, NEW P \in Runs(rows, s), NEW Q \in Runs(rows, s),
           Q[1] <= P[2], P[1] <= Q[2]
    PROVE  P = Q
<1>p. /\ P = <<P[1], P[2]>> /\ P[1] \in Snapshots(rows) /\ P[2] \in Snapshots(rows)
      /\ P[1] \in Nat /\ P[2] \in Nat
      /\ \A x \in Snapshots(rows) : P[1] <= x /\ x <= P[2] => Lists(rows, x, s)
      /\ \A x \in Snapshots(rows) : NextTo(rows, x, P[1]) \/ NextTo(rows, P[2], x) => ~Lists(rows, x, s)
    BY RunShape
<1>q. /\ Q = <<Q[1], Q[2]>> /\ Q[1] \in Snapshots(rows) /\ Q[2] \in Snapshots(rows)
      /\ Q[1] \in Nat /\ Q[2] \in Nat
      /\ \A x \in Snapshots(rows) : Q[1] <= x /\ x <= Q[2] => Lists(rows, x, s)
      /\ \A x \in Snapshots(rows) : NextTo(rows, x, Q[1]) \/ NextTo(rows, Q[2], x) => ~Lists(rows, x, s)
    BY RunShape
<1>n. Snapshots(rows) \in SUBSET Nat
    BY SnapshotDays, DayTypes
<1>1. ~(P[1] < Q[1])
  <2> SUFFICES ASSUME P[1] < Q[1] PROVE FALSE
    OBVIOUS
  <2>1. PICK x \in Snapshots(rows) : NextTo(rows, x, Q[1]) /\ P[1] <= x
    BY <1>p, <1>q, BookBefore
  <2>2. x < Q[1] /\ x \in Nat
    BY <1>n, <2>1 DEF NextTo
  <2> QED
    BY <1>p, <1>q, <2>1, <2>2
<1>2. ~(Q[1] < P[1])
  <2> SUFFICES ASSUME Q[1] < P[1] PROVE FALSE
    OBVIOUS
  <2>1. PICK x \in Snapshots(rows) : NextTo(rows, x, P[1]) /\ Q[1] <= x
    BY <1>p, <1>q, BookBefore
  <2>2. x < P[1] /\ x \in Nat
    BY <1>n, <2>1 DEF NextTo
  <2> QED
    BY <1>p, <1>q, <2>1, <2>2
<1>3. ~(P[2] < Q[2])
  <2> SUFFICES ASSUME P[2] < Q[2] PROVE FALSE
    OBVIOUS
  <2>1. PICK x \in Snapshots(rows) : NextTo(rows, P[2], x) /\ x <= Q[2]
    BY <1>p, <1>q, BookAfter
  <2>2. P[2] < x /\ x \in Nat
    BY <1>n, <2>1 DEF NextTo
  <2> QED
    BY <1>p, <1>q, <2>1, <2>2
<1>4. ~(Q[2] < P[2])
  <2> SUFFICES ASSUME Q[2] < P[2] PROVE FALSE
    OBVIOUS
  <2>1. PICK x \in Snapshots(rows) : NextTo(rows, Q[2], x) /\ x <= P[2]
    BY <1>p, <1>q, BookAfter
  <2>2. Q[2] < x /\ x \in Nat
    BY <1>n, <2>1 DEF NextTo
  <2> QED
    BY <1>p, <1>q, <2>1, <2>2
<1> QED
    BY <1>p, <1>q, <1>1, <1>2, <1>3, <1>4

(* A book that lists a name is within a run of that name.                   *)
LEMMA RunAround ==
    ASSUME NEW rows \in SUBSET BookRows, NEW s, NEW b \in Snapshots(rows), Lists(rows, b, s)
    PROVE  \E run \in Runs(rows, s) : run[1] <= b /\ b <= run[2]
<1> DEFINE T == Snapshots(rows)
           B == {a \in T : a <= b /\ \A x \in T : a <= x /\ x <= b => Lists(rows, x, s)}
           E == {e \in T : b <= e /\ \A x \in T : b <= x /\ x <= e => Lists(rows, x, s)}
<1>n. T \in SUBSET Nat
    BY SnapshotDays, DayTypes
<1>1. b \in B /\ b \in E
    BY <1>n
<1>2. Min(B) \in B /\ \A a \in B : Min(B) <= a
  <2>1. B \in SUBSET Int /\ B # {} /\ \A a \in B : 0 <= a
    BY <1>1, <1>n
  <2> HIDE DEF B
  <2> QED
    BY <2>1, MinOfBounded
<1>3. Max(E) \in E /\ \A e \in E : e <= Max(E)
  <2>1. E \in SUBSET Int /\ E # {} /\ MaxDay \in Int /\ \A e \in E : e <= MaxDay
    BY <1>1, <1>n, SnapshotDays, DayTypes
  <2> HIDE DEF E
  <2> QED
    BY <2>1, MaxOfBounded
<1> DEFINE lo == Min(B)
           hi == Max(E)
<1>4. lo \in T /\ hi \in T /\ lo \in Nat /\ hi \in Nat /\ b \in Nat /\ lo <= b /\ b <= hi
    BY <1>2, <1>3, <1>n
<1>5. ASSUME NEW x \in T, lo <= x, x <= hi PROVE Lists(rows, x, s)
  <2>1. CASE x <= b
    BY <1>2, <1>5, <2>1
  <2>2. CASE b <= x
    BY <1>3, <1>5, <2>2
  <2> QED
    BY <1>4, <1>n, <2>1, <2>2
<1>6. ASSUME NEW x \in T, NextTo(rows, x, lo), Lists(rows, x, s) PROVE FALSE
  <2>1. x < lo /\ x \in Nat /\ \A y \in T : ~(x < y /\ y < lo)
    BY <1>6, <1>n DEF NextTo
  <2>2. x <= b
    BY <1>4, <2>1
  <2>3. ASSUME NEW y \in T, x <= y, y <= b PROVE Lists(rows, y, s)
    <3>1. y = x \/ lo <= y
      BY <1>4, <1>n, <2>1, <2>3
    <3> QED
      BY <1>6, <1>2, <2>3, <3>1
  <2>4. x \in B
    BY <2>2, <2>3
  <2> QED
    BY <1>2, <1>4, <2>1, <2>4
<1>7. ASSUME NEW x \in T, NextTo(rows, hi, x), Lists(rows, x, s) PROVE FALSE
  <2>1. hi < x /\ x \in Nat /\ \A y \in T : ~(hi < y /\ y < x)
    BY <1>7, <1>n DEF NextTo
  <2>2. b <= x
    BY <1>4, <2>1
  <2>3. ASSUME NEW y \in T, b <= y, y <= x PROVE Lists(rows, y, s)
    <3>1. y = x \/ y <= hi
      BY <1>4, <1>n, <2>1, <2>3
    <3> QED
      BY <1>7, <1>3, <2>3, <3>1
  <2>4. x \in E
    BY <2>2, <2>3
  <2> QED
    BY <1>3, <1>4, <2>1, <2>4
<1>8. lo <= hi
    BY <1>4
<1> HIDE DEF lo, hi
<1>9. <<lo, hi>> \in Runs(rows, s)
    BY <1>4, <1>5, <1>6, <1>7, <1>8 DEF Runs
<1> QED
    BY <1>4, <1>9
-----------------------------------------------------------------------------
(* Periods                                                                  *)

LEMMA ListingType ==
    ASSUME NEW rows \in SUBSET BookRows, NEW b, NEW s, Lists(rows, b, s)
    PROVE  ListingDate(rows, b, s) \in Days /\ ListingDate(rows, b, s) <= b
<1> DEFINE r == CHOOSE q \in rows : q.book = b /\ q.symbol = s
<1>1. r \in rows /\ r.book = b
    BY DEF Lists
<1>2. r \in BookRows
    BY <1>1
<1> HIDE DEF r
<1>3. r.book \in Days /\ r.listing \in Days \cup {Absent} /\ (r.listing # Absent => r.listing <= r.book)
    BY <1>2 DEF BookRows
<1>4. ListingDate(rows, b, s) = IF r.listing = Absent THEN b ELSE r.listing
    BY DEF ListingDate, r
<1>5. b <= b
  <2>1. b \in Nat
    BY <1>1, <1>3, DayTypes
  <2> QED
    BY <2>1
<1> QED
    BY <1>1, <1>3, <1>4, <1>5

(* A period begins no later than its run, and after the end of any earlier  *)
(* run of the name.                                                         *)
LEMMA StartType ==
    ASSUME NEW rows \in SUBSET BookRows, NEW s, NEW run \in Runs(rows, s)
    PROVE  /\ PeriodStart(rows, s, run) \in Nat
           /\ 1 <= PeriodStart(rows, s, run) /\ PeriodStart(rows, s, run) <= run[1]
           /\ \A p \in Runs(rows, s) : p[2] < run[1] => p[2] < PeriodStart(rows, s, run)
<1> DEFINE L == ListingDate(rows, run[1], s)
           E == {p \in Runs(rows, s) : p[2] < run[1]}
           S == {L} \cup {p[2] + 1 : p \in E}
<1>1. /\ run[1] \in Snapshots(rows) /\ run[1] \in Nat /\ run[1] <= run[2] /\ run[2] \in Nat
      /\ \A x \in Snapshots(rows) : run[1] <= x /\ x <= run[2] => Lists(rows, x, s)
    BY RunShape
<1>2. Lists(rows, run[1], s)
    BY <1>1
<1>3. L \in Days /\ L <= run[1]
    BY <1>2, ListingType
<1>4. L \in Nat /\ 1 <= L
    BY <1>3, DayTypes
<1> HIDE DEF L
<1>5. \A p \in Runs(rows, s) : p[2] \in Nat
    BY RunShape
<1>6. S \in SUBSET Nat /\ L \in S /\ \A x \in S : x <= run[1]
    BY <1>1, <1>3, <1>4, <1>5
<1>7. \A p \in E : p[2] + 1 \in S
    OBVIOUS
<1>8. PeriodStart(rows, s, run) = Max(S)
    BY DEF PeriodStart, L
<1> HIDE DEF S
<1>9. Max(S) \in S /\ \A x \in S : x <= Max(S)
  <2>1. S \in SUBSET Int /\ S # {} /\ run[1] \in Int
    BY <1>1, <1>6
  <2> QED
    BY <1>6, <2>1, MaxOfBounded
<1>10. Max(S) \in Nat /\ L <= Max(S) /\ Max(S) <= run[1]
    BY <1>6, <1>9
<1>11. ASSUME NEW p \in Runs(rows, s), p[2] < run[1] PROVE p[2] < Max(S)
  <2>1. p[2] + 1 <= Max(S)
    BY <1>7, <1>9, <1>11
  <2> QED
    BY <1>5, <1>10, <2>1
<1> QED
    BY <1>4, <1>8, <1>10, <1>11

LEMMA EndType ==
    ASSUME NEW rows \in SUBSET BookRows, NEW s, NEW run \in Runs(rows, s)
    PROVE  /\ PeriodEnd(rows, run) \in Nat /\ run[2] <= PeriodEnd(rows, run)
           /\ PeriodEnd(rows, run) \in Days \cup {Forever}
           /\ \A b \in Snapshots(rows) : run[2] < b => PeriodEnd(rows, run) = run[2]
<1>1. run[2] \in Snapshots(rows) /\ run[2] \in Days /\ run[2] \in Nat
    BY RunShape
<1>2. Snapshots(rows) \in SUBSET Int /\ MaxDay \in Int /\ \A b \in Snapshots(rows) : b <= MaxDay
  <2>1. \A d \in Days : d <= MaxDay /\ d \in Nat
    BY DayTypes
  <2> QED
    BY <2>1, SnapshotDays, DayTypes
<1>3. Max(Snapshots(rows)) \in Snapshots(rows) /\ \A b \in Snapshots(rows) : b <= Max(Snapshots(rows))
    BY <1>1, <1>2, MaxOfBounded
<1>4. Forever \in Nat /\ run[2] <= Forever
  <2>1. run[2] <= MaxDay
    BY <1>1, <1>2
  <2> QED
    BY <1>1, <2>1, PointInTimeAssumption
<1>5. ASSUME NEW b \in Snapshots(rows), run[2] < b PROVE run[2] # Max(Snapshots(rows))
  <2>1. b \in Int /\ b <= Max(Snapshots(rows))
    BY <1>2, <1>3
  <2> QED
    BY <1>1, <1>5, <2>1
<1> QED
    BY <1>1, <1>4, <1>5 DEF PeriodEnd

LEMMA PeriodOfRun ==
    ASSUME NEW rows \in SUBSET BookRows, NEW p \in Periods(rows)
    PROVE  \E s \in Symbols : \E run \in Runs(rows, s) :
              p = [index |-> LISTED, symbol |-> s, from |-> PeriodStart(rows, s, run),
                   to |-> PeriodEnd(rows, run)]
BY DEF Periods

(* Whatever the shelf holds, what derive_periods makes of it is disjoint,   *)
(* not empty and lists each book's names on its date.                       *)
LEMMA PeriodsCover ==
    ASSUME NEW rows \in SUBSET BookRows
    PROVE  /\ Disjoint(Periods(rows))
           /\ \A p \in Periods(rows) :
                 p.from <= p.to /\ p.from \in Days /\ p.to \in Days \cup {Forever} /\ p.symbol \in Symbols
           /\ \A r \in rows : \E p \in Periods(rows) : p.symbol = r.symbol /\ Effective(p, r.book)
<1>1. ASSUME NEW p \in Periods(rows), NEW q \in Periods(rows),
             p.index = q.index, p.symbol = q.symbol, Overlap(p, q)
      PROVE  p = q
  <2> DEFINE Of(s, run) == [index |-> LISTED, symbol |-> s, from |-> PeriodStart(rows, s, run),
                            to |-> PeriodEnd(rows, run)]
  <2>s. PICK s \in Symbols : \E run \in Runs(rows, s) : p = Of(s, run)
    BY PeriodOfRun
  <2>1. PICK P \in Runs(rows, s) : p = Of(s, P)
    BY <2>s
  <2>t. PICK t \in Symbols : \E run \in Runs(rows, t) : q = Of(t, run)
    BY PeriodOfRun
  <2>2. PICK Q \in Runs(rows, t) : q = Of(t, Q)
    BY <2>t
  <2>3. s = t
    BY <1>1, <2>1, <2>2
  <2>4. /\ P[1] \in Nat /\ P[2] \in Nat /\ P[1] \in Snapshots(rows)
        /\ Q[1] \in Nat /\ Q[2] \in Nat /\ Q[1] \in Snapshots(rows)
    BY <2>3, RunShape
  <2>5. /\ PeriodStart(rows, s, P) <= PeriodEnd(rows, Q)
        /\ PeriodStart(rows, s, Q) <= PeriodEnd(rows, P)
    BY <1>1, <2>1, <2>2, <2>3 DEF Overlap
  <2>6. ~(P[2] < Q[1])
    <3> SUFFICES ASSUME P[2] < Q[1] PROVE FALSE
      OBVIOUS
    <3>1. PeriodEnd(rows, P) = P[2]
      BY <2>4, EndType
    <3>2. P[2] < PeriodStart(rows, s, Q) /\ PeriodStart(rows, s, Q) \in Nat
      BY <2>3, StartType
    <3> QED
      BY <2>4, <2>5, <3>1, <3>2
  <2>7. ~(Q[2] < P[1])
    <3> SUFFICES ASSUME Q[2] < P[1] PROVE FALSE
      OBVIOUS
    <3>1. PeriodEnd(rows, Q) = Q[2]
      BY <2>3, <2>4, EndType
    <3>2. Q[2] < PeriodStart(rows, s, P) /\ PeriodStart(rows, s, P) \in Nat
      BY <2>3, StartType
    <3> QED
      BY <2>4, <2>5, <3>1, <3>2
  <2>8. Q[1] <= P[2] /\ P[1] <= Q[2]
    BY <2>4, <2>6, <2>7
  <2>9. P = Q
    BY <2>3, <2>8, RunsMeet
  <2> QED
    BY <2>1, <2>2, <2>3, <2>9
<1>2. ASSUME NEW p \in Periods(rows)
      PROVE  p.from <= p.to /\ p.from \in Days /\ p.to \in Days \cup {Forever} /\ p.symbol \in Symbols
  <2>s. PICK s \in Symbols : \E run \in Runs(rows, s) :
            p = [index |-> LISTED, symbol |-> s, from |-> PeriodStart(rows, s, run), to |-> PeriodEnd(rows, run)]
    BY PeriodOfRun
  <2>1. PICK run \in Runs(rows, s) :
            p = [index |-> LISTED, symbol |-> s, from |-> PeriodStart(rows, s, run), to |-> PeriodEnd(rows, run)]
    BY <2>s
  <2>2. p.from = PeriodStart(rows, s, run) /\ p.to = PeriodEnd(rows, run) /\ p.symbol \in Symbols
    BY <2>1
  <2>3. /\ run[1] \in Nat /\ run[2] \in Nat /\ run[1] <= run[2] /\ run[1] \in Days
    BY RunShape
  <2>4. p.from \in Nat /\ 1 <= p.from /\ p.from <= run[1]
    BY <2>2, StartType
  <2>5. p.to \in Nat /\ run[2] <= p.to /\ p.to \in Days \cup {Forever}
    BY <2>2, EndType
  <2>6. p.from \in Days
    BY <2>3, <2>4, PointInTimeAssumption DEF Days
  <2> QED
    BY <2>2, <2>3, <2>4, <2>5, <2>6
<1>3. ASSUME NEW r \in rows
      PROVE  \E p \in Periods(rows) : p.symbol = r.symbol /\ Effective(p, r.book)
  <2>1. r.book \in Snapshots(rows) /\ Lists(rows, r.book, r.symbol) /\ r.symbol \in Symbols
    BY DEF Snapshots, Lists, BookRows
  <2>2. PICK run \in Runs(rows, r.symbol) : run[1] <= r.book /\ r.book <= run[2]
    BY <2>1, RunAround
  <2> DEFINE p == [index |-> LISTED, symbol |-> r.symbol, from |-> PeriodStart(rows, r.symbol, run),
                   to |-> PeriodEnd(rows, run)]
  <2>3. p \in Periods(rows)
    BY <2>1 DEF Periods
  <2>4. run[1] \in Nat /\ run[2] \in Nat /\ r.book \in Nat
    BY <2>1, SnapshotDays, RunShape
  <2>5. PeriodStart(rows, r.symbol, run) \in Nat /\ PeriodStart(rows, r.symbol, run) <= run[1]
    BY StartType
  <2>6. PeriodEnd(rows, run) \in Nat /\ run[2] <= PeriodEnd(rows, run)
    BY EndType
  <2>7. PeriodStart(rows, r.symbol, run) <= r.book /\ r.book <= PeriodEnd(rows, run)
    BY <2>2, <2>4, <2>5, <2>6
  <2> QED
    BY <2>3, <2>7 DEF Effective
<1> QED
    BY <1>1, <1>2, <1>3 DEF Disjoint
-----------------------------------------------------------------------------
(* Types                                                                    *)

AnyBar == (UNION {Quotes[s] : s \in Symbols}) \cup {Absent}

PitInv ==
    /\ PitTypeOK
    /\ bars \in [Symbols -> [Days -> AnyBar]]
    /\ shelf \in SUBSET BookRows
    /\ \A r \in roster : r.symbol \in Symbols

LEMMA PitStep == PitInv /\ [PitNext]_pitVars => PitInv'
<1> SUFFICES ASSUME PitInv, [PitNext]_pitVars PROVE PitInv'
    OBVIOUS
<1>0. /\ today \in 0..MaxDay /\ MaxDay \in Nat /\ Forever \in Nat
      /\ \A s \in Symbols, d \in Days : bars[s][d] \in Quotes[s] \union {Absent}
      /\ snapshot \subseteq shelf
      /\ \A r \in roster : r.from \in Days /\ r.to \in Days \union {Forever} /\ r.symbol \in Symbols
      /\ bars \in [Symbols -> [Days -> AnyBar]] /\ shelf \in SUBSET BookRows
    BY PointInTimeAssumption DEF PitInv, PitTypeOK
<1>1. CASE CloseDay
  <2>1. PICK b \in [Symbols -> AnyBar] :
            /\ \A s \in Symbols : b[s] \in Quotes[s] \union {Absent}
            /\ bars' = [s \in Symbols |-> [bars[s] EXCEPT ![today + 1] = b[s]]]
    BY <1>1 DEF CloseDay, AnyBar
  <2>2. today' = today + 1 /\ today < MaxDay /\ UNCHANGED <<shelf, snapshot, roster>>
    BY <1>1 DEF CloseDay
  <2>3. today' \in 0..MaxDay
    BY <1>0, <2>2
  <2>4. bars' \in [Symbols -> [Days -> AnyBar]]
    BY <1>0, <2>1
  <2>5. ASSUME NEW s \in Symbols, NEW d \in Days PROVE bars'[s][d] \in Quotes[s] \union {Absent}
    BY <1>0, <2>1
  <2> QED
    BY <1>0, <2>2, <2>3, <2>4, <2>5 DEF PitInv, PitTypeOK
<1>6. ASSUME NEW s \in Symbols, NEW d \in Days, NEW q \in Quotes[s], StoreLate(s, d, q) PROVE PitInv'
  <2>1. bars' = [bars EXCEPT ![s][d] = q] /\ UNCHANGED <<today, shelf, snapshot, roster>>
    BY <1>6 DEF StoreLate
  <2>2. q \in AnyBar
    BY DEF AnyBar
  <2>3. bars' \in [Symbols -> [Days -> AnyBar]]
    BY <1>0, <2>1, <2>2
  <2>4. ASSUME NEW r \in Symbols, NEW e \in Days PROVE bars'[r][e] \in Quotes[r] \union {Absent}
    BY <1>0, <2>1
  <2> QED
    BY <1>0, <2>1, <2>3, <2>4 DEF PitInv, PitTypeOK
<1>2. ASSUME NEW b \in BookDays, Transcribe(b) PROVE PitInv'
  <2>1. PICK listed \in (SUBSET Symbols) \ {{}} : \E dated \in SUBSET listed :
          shelf' = shelf \union
             {[book |-> b, symbol |-> s, listing |-> IF s \in dated THEN 1 ELSE Absent,
               cap |-> IF s \in dated THEN 1 ELSE Absent] : s \in listed}
    BY <1>2 DEF Transcribe
  <2>2. PICK dated \in SUBSET listed :
          shelf' = shelf \union
             {[book |-> b, symbol |-> s, listing |-> IF s \in dated THEN 1 ELSE Absent,
               cap |-> IF s \in dated THEN 1 ELSE Absent] : s \in listed}
    BY <2>1
  <2>3. b \in Days /\ b \in Nat /\ 1 <= b /\ 1 \in Days
    BY PointInTimeAssumption DEF Days
  <2>4. ASSUME NEW s \in listed
        PROVE  [book |-> b, symbol |-> s, listing |-> IF s \in dated THEN 1 ELSE Absent,
                cap |-> IF s \in dated THEN 1 ELSE Absent] \in BookRows
    BY <2>3 DEF BookRows
  <2>5. shelf' \in SUBSET BookRows /\ shelf \subseteq shelf'
    BY <1>0, <2>2, <2>4
  <2>6. UNCHANGED <<today, bars, snapshot, roster>>
    BY <1>2 DEF Transcribe
  <2> QED
    BY <1>0, <2>5, <2>6 DEF PitInv, PitTypeOK
<1>3. CASE LoadListings
  <2>1. snapshot' = shelf /\ roster' = InsertNew(roster, Periods(shelf)) /\ UNCHANGED <<today, bars, shelf>>
    BY <1>3 DEF LoadListings
  <2>2. \A r \in Periods(shelf) : r.from \in Days /\ r.to \in Days \union {Forever} /\ r.symbol \in Symbols
    BY <1>0, PeriodsCover
  <2>3. roster' \subseteq roster \cup Periods(shelf)
    BY <2>1 DEF InsertNew
  <2> QED
    BY <1>0, <2>1, <2>2, <2>3 DEF PitInv, PitTypeOK
<1>4. ASSUME NEW rows \in SUBSET RosterRows, LoadRosters(rows) PROVE PitInv'
  <2>1. roster' = InsertNew(roster, rows) /\ UNCHANGED <<today, bars, shelf, snapshot>>
    BY <1>4 DEF LoadRosters
  <2>2. \A r \in rows : r.from \in Days /\ r.to \in Days \union {Forever} /\ r.symbol \in Symbols
    BY PointInTimeAssumption
  <2>3. roster' \subseteq roster \cup rows
    BY <2>1 DEF InsertNew
  <2> QED
    BY <1>0, <2>1, <2>2, <2>3 DEF PitInv, PitTypeOK
<1>5. CASE UNCHANGED pitVars
    BY <1>0, <1>5 DEF pitVars, PitInv, PitTypeOK
<1> QED
    BY <1>1, <1>2, <1>3, <1>4, <1>5, <1>6 DEF PitNext

LEMMA PitStart == PitInit => PitInv
<1> SUFFICES ASSUME PitInit PROVE PitInv
    OBVIOUS
<1>1. today \in 0..MaxDay
    BY PointInTimeAssumption DEF PitInit
<1>2. bars \in [Symbols -> [Days -> AnyBar]]
  <2>1. Absent \in AnyBar
    BY DEF AnyBar
  <2> QED
    BY <2>1 DEF PitInit
<1>3. \A s \in Symbols, d \in Days : bars[s][d] \in Quotes[s] \union {Absent}
    BY DEF PitInit
<1>4. shelf = {} /\ snapshot = {} /\ roster = {}
    BY DEF PitInit
<1> QED
    BY <1>1, <1>2, <1>3, <1>4 DEF PitInv, PitTypeOK

(* The tables of the universe keep their types: a bar is one its name may   *)
(* have, the loaded snapshot is of transcribed books, a roster period is    *)
(* one of days or open (store/schema.py, listing.py, roster.py).            *)
THEOREM PitTypes == PitSpec => []PitTypeOK
<1>1. PitInv => PitTypeOK
    BY DEF PitInv
<1> QED
    BY <1>1, PitStart, PitStep, PTL DEF PitSpec

(* Whatever books are transcribed in whatever order, the derived periods    *)
(* are disjoint, none is empty, and each book's names are listed on its     *)
(* date (listing.py derive_periods).                                        *)
THEOREM BooksCovered == PitSpec => []DerivedPeriodsCoverBooks
<1>1. PitInv => DerivedPeriodsCoverBooks
    BY PeriodsCover DEF PitInv, DerivedPeriodsCoverBooks
<1> QED
    BY <1>1, PitStart, PitStep, PTL DEF PitSpec

-----------------------------------------------------------------------------
(* The live gate                                                            *)

LEMMA SeenFinite ==
    ASSUME NEW s, NEW D
    PROVE  Seen(s, D) \in SUBSET Days /\ IsFiniteSet(Seen(s, D))
<1>1. IsFiniteSet(1..MaxDay)
    BY PointInTimeAssumption, FS_Interval
<1> QED
    BY <1>1, FS_Subset DEF Seen, Days

(* The newest visible bar is the last of the days seen.                     *)
LEMMA NewestSeen ==
    ASSUME NEW s, NEW D \in Nat, Seen(s, D) # {}
    PROVE  /\ Max(Seen(s, D)) \in Seen(s, D) /\ Max(Seen(s, D)) \in Nat /\ Max(Seen(s, D)) < D
           /\ \A d \in Seen(s, D) : d <= Max(Seen(s, D))
           /\ Seen(s, Max(Seen(s, D)) + 1) = Seen(s, D)
<1>0. \A d \in Days : d \in Nat /\ d <= MaxDay
    BY PointInTimeAssumption DEF Days
<1>1. Seen(s, D) \in SUBSET Int /\ MaxDay \in Int /\ \A d \in Seen(s, D) : d <= MaxDay
    BY <1>0, PointInTimeAssumption DEF Seen
<1> DEFINE m == Max(Seen(s, D))
<1>2. m \in Seen(s, D) /\ \A d \in Seen(s, D) : d <= m
    BY <1>1, MaxOfBounded
<1>3. m \in Nat /\ m < D
    BY <1>0, <1>2 DEF Seen
<1> HIDE DEF m
<1>4. ASSUME NEW d \in Days PROVE d \in Seen(s, m + 1) <=> d \in Seen(s, D)
    BY <1>0, <1>2, <1>3 DEF Seen
<1>5. Seen(s, m + 1) = Seen(s, D)
    BY <1>4 DEF Seen
<1> QED
    BY <1>2, <1>3, <1>5 DEF m

(* A name that passes the legs a replay can rebuild fails none of the live  *)
(* gate's on the day of its newest bar, but for the gap leg.                *)
LEMMA LegsPassGate ==
    ASSUME PitInv, NEW D \in Nat, NEW s \in Symbols, Seen(s, D) # {}, PassesLegs(s, D)
    PROVE  GateFailures(s, Max(Seen(s, D)),
                        [ipo |-> Absent, board |-> "MAIN", suspended |-> FALSE, broker |-> TRUE,
                         corp |-> {}]) \subseteq {"DATA_GAP"}
<1> DEFINE S == Seen(s, D)
           m == Max(S)
           env == [ipo |-> Absent, board |-> "MAIN", suspended |-> FALSE, broker |-> TRUE, corp |-> {}]
<1>1. m \in S /\ m \in Nat /\ Seen(s, m + 1) = S /\ m \in Days
    BY NewestSeen, SeenFinite
<1>2. /\ Cardinality(Traded(s, S)) >= MIN_HISTORY
      /\ AdvAtLeast(s, S, ADV_FLOOR)
      /\ Close(s, m) # Absent /\ Close(s, m) >= PRICE_FLOOR
      /\ ~PinnedAt(s, S, m, "MAIN", Absent)
    BY DEF PassesLegs
<1>3. ~(Cardinality(S) < MIN_HISTORY)
  <2>1. IsFiniteSet(S) /\ Traded(s, S) \in SUBSET S
    BY SeenFinite DEF Traded
  <2>2. Cardinality(Traded(s, S)) <= Cardinality(S) /\ Cardinality(S) \in Nat
        /\ Cardinality(Traded(s, S)) \in Nat
    BY <2>1, FS_Subset, FS_CardinalityType
  <2>3. MIN_HISTORY \in Nat
    BY ConfigAssumption
  <2> QED
    BY <1>2, <2>2, <2>3
<1>4. AdvKnown(s, S)
    BY <1>2 DEF AdvAtLeast
<1>5. ~(Close(s, m) < PRICE_FLOOR)
  <2>1. bars[s][m] \in Quotes[s] /\ bars[s][m].close # Absent
    BY <1>1, <1>2 DEF PitInv, PitTypeOK, Seen, Close
  <2>2. Close(s, m) \in Nat
    BY <2>1, PointInTimeAssumption DEF Close
  <2> QED
    BY <1>2, <2>2 DEF PRICE_FLOOR
<1> HIDE DEF S, m
<1> DEFINE fails ==
          [ INSUFFICIENT_HISTORY |-> (IF env.ipo # Absent THEN env.ipo ELSE Cardinality(S)) < MIN_HISTORY,
            DATA_GAP |-> GapDays(s, m) # {},
            NO_SIGNAL_DAY_BAR |-> ~(m \in S),
            INCOMPLETE_DATA |-> m \in S /\ (~AdvKnown(s, S) \/ Close(s, m) = Absent),
            LOW_LIQUIDITY |-> m \in S /\ AdvKnown(s, S) /\ ~AdvAtLeast(s, S, ADV_FLOOR),
            PRICE_FLOOR |-> m \in S /\ Close(s, m) # Absent /\ Close(s, m) < PRICE_FLOOR,
            PINNED_CLOSE |-> m \in S /\ PinnedAt(s, S, m, env.board, env.ipo),
            SUSPENDED |-> env.suspended,
            BROKER_SUMMARY_INCOMPLETE |-> ~env.broker,
            CORP_ACTION_WINDOW |-> \E e \in env.corp : Abs(e - m) <= CORP_WINDOW ]
<1>6. GateFailures(s, m, env) = {f \in DOMAIN fails : fails[f]}
    BY <1>1 DEF GateFailures
<1>7. ASSUME NEW f \in DOMAIN fails, f # "DATA_GAP" PROVE ~fails[f]
  <2>1. f \in {"INSUFFICIENT_HISTORY", "NO_SIGNAL_DAY_BAR", "INCOMPLETE_DATA", "LOW_LIQUIDITY",
              "PRICE_FLOOR", "PINNED_CLOSE", "SUSPENDED", "BROKER_SUMMARY_INCOMPLETE",
              "CORP_ACTION_WINDOW"}
    BY <1>7
  <2>2. CASE f = "INSUFFICIENT_HISTORY"
    BY <1>1, <1>2, <1>3, <1>4, <1>5, <2>2
  <2>3. CASE f = "NO_SIGNAL_DAY_BAR"
    BY <1>1, <1>2, <1>3, <1>4, <1>5, <2>3
  <2>4. CASE f = "INCOMPLETE_DATA"
    BY <1>1, <1>2, <1>3, <1>4, <1>5, <2>4
  <2>5. CASE f = "LOW_LIQUIDITY"
    BY <1>1, <1>2, <1>3, <1>4, <1>5, <2>5
  <2>6. CASE f = "PRICE_FLOOR"
    BY <1>1, <1>2, <1>3, <1>4, <1>5, <2>6
  <2>7. CASE f = "PINNED_CLOSE"
    BY <1>1, <1>2, <1>3, <1>4, <1>5, <2>7
  <2>8. CASE f = "SUSPENDED"
    BY <1>1, <1>2, <1>3, <1>4, <1>5, <2>8
  <2>9. CASE f = "BROKER_SUMMARY_INCOMPLETE"
    BY <1>1, <1>2, <1>3, <1>4, <1>5, <2>9
  <2>10. CASE f = "CORP_ACTION_WINDOW"
    BY <1>1, <1>2, <1>3, <1>4, <1>5, <2>10
  <2> QED
    BY <2>1, <2>2, <2>3, <2>4, <2>5, <2>6, <2>7, <2>8, <2>9, <2>10
<1>8. {f \in DOMAIN fails : fails[f]} \subseteq {"DATA_GAP"}
  <2> HIDE DEF fails
  <2> QED
    BY <1>7
<1> QED
    BY <1>6, <1>8 DEF S, m

LEMMA GateAgrees == PitInv => PitAgreesWithGate
<1> SUFFICES ASSUME PitInv PROVE PitAgreesWithGate
    OBVIOUS
<1>1. ASSUME NEW D \in 1..(today + 1), NEW s \in Passing(D)
      PROVE  D \in Nat /\ s \in Symbols /\ Seen(s, D) # {} /\ PassesLegs(s, D)
    BY <1>1, PointInTimeAssumption DEF PitInv, PitTypeOK, Passing
<1> QED
    BY <1>1, LegsPassGate DEF PitAgreesWithGate

(* The replayed universe never admits a name the live gate would have       *)
(* turned away on the same bars, but for the gap leg (pit.py                *)
(* _passes_reconstructable_legs against gate.py evaluate_gate).             *)
THEOREM ReplayPassesGate == PitSpec => []PitAgreesWithGate
BY GateAgrees, PitStart, PitStep, PTL DEF PitSpec

-----------------------------------------------------------------------------
(* What a step leaves alone that touches no day before D and no roster: the *)
(* bars before the decision of day D, and the rosters.                      *)

Kept(D) ==
    /\ \A s \in Symbols, d \in Days : d < D => bars'[s][d] = bars[s][d]
    /\ UNCHANGED <<roster, snapshot>>
    /\ \A r \in roster : r.symbol \in Symbols

-----------------------------------------------------------------------------
(* The store's reads and the universe                                       *)

LEMMA SeenStands ==
    ASSUME NEW D, Kept(D), NEW s \in Symbols
    PROVE  Seen(s, D)' = Seen(s, D) /\ \A d \in Seen(s, D) : d \in Days /\ d < D /\ bars'[s][d] = bars[s][d]
BY DEF Kept, Seen

LEMMA RowsStand ==
    ASSUME NEW D, Kept(D), NEW s \in Symbols, NEW S \in SUBSET Seen(s, D)
    PROVE  /\ Traded(s, S)' = Traded(s, S)
           /\ \A d \in S : Value(s, d)' = Value(s, d) /\ Close(s, d)' = Close(s, d)
<1>1. \A d \in S : bars'[s][d] = bars[s][d]
    BY SeenStands
<1> QED
    BY <1>1 DEF Traded, Value, Close

LEMMA AddsStand ==
    ASSUME NEW D, Kept(D), NEW s \in Symbols, NEW S \in SUBSET Seen(s, D)
    PROVE  Adds(s, S)' = Adds(s, S)
<1> DEFINE F(it) == [t \in SUBSET S |-> IF t = {} THEN 0
                        ELSE Value(s, CHOOSE x \in t : TRUE) + it[t \ {CHOOSE x \in t : TRUE}]]
           G(it) == [t \in SUBSET S |-> IF t = {} THEN 0
                        ELSE Value(s, CHOOSE x \in t : TRUE)' + it[t \ {CHOOSE x \in t : TRUE}]]
<1>1. Adds(s, S) = (CHOOSE it : it = F(it))[S] /\ Adds(s, S)' = (CHOOSE it : it = G(it))[S]
    BY DEF Adds, MapThenSumSet, MapThenFoldSet
<1>2. \A d \in S : Value(s, d)' = Value(s, d)
    BY RowsStand
<1>3. \A it : F(it) = G(it)
    BY <1>2
<1> HIDE DEF F, G
<1> QED
    BY <1>1, <1>3

LEMMA AdvStands ==
    ASSUME NEW D, Kept(D), NEW s \in Symbols, NEW S \in SUBSET Seen(s, D), NEW floor
    PROVE  /\ AdvAtLeast(s, S, floor)' = AdvAtLeast(s, S, floor)
           /\ TrackAdvAtLeast(s, S, floor)' = TrackAdvAtLeast(s, S, floor)
<1>1. \A d \in S : bars'[s][d] = bars[s][d]
    BY SeenStands
<1>2. AdvWindow(s, S) \in SUBSET S
    BY DEF AdvWindow, Newest
<1>3. AdvKnown(s, S)' = AdvKnown(s, S)
    BY <1>1, <1>2 DEF AdvKnown
<1>4. Adds(s, AdvWindow(s, S))' = Adds(s, AdvWindow(s, S))
    BY <1>2, AddsStand
<1> DEFINE known == {d \in Newest(ADV_WINDOW, Traded(s, S)) : bars[s][d].value # Absent}
<1>5. Traded(s, S)' = Traded(s, S) /\ Traded(s, S) \in SUBSET S
    BY RowsStand DEF Traded
<1>6. known' = known /\ known \in SUBSET S
    BY <1>1, <1>5 DEF Newest
<1> HIDE DEF known
<1>7. Adds(s, known)' = Adds(s, known)
    BY <1>6, AddsStand
<1>8. TrackAdvAtLeast(s, S, floor)' = TrackAdvAtLeast(s, S, floor)
    BY <1>6, <1>7 DEF TrackAdvAtLeast, known
<1> QED
    BY <1>3, <1>4, <1>8 DEF AdvAtLeast

LEMMA PrevStands ==
    ASSUME NEW D, Kept(D), NEW s \in Symbols, NEW S \in SUBSET Seen(s, D), NEW d
    PROVE  PrevClose(s, S, d)' = PrevClose(s, S, d)
<1> DEFINE priced == {e \in S : e < d /\ Close(s, e) \notin {Absent, 0}}
<1>1. \A e \in S : Close(s, e)' = Close(s, e)
    BY RowsStand
<1>2. priced' = priced /\ priced \in SUBSET S
    BY <1>1
<1> HIDE DEF priced
<1>3. ASSUME priced # {} PROVE Max(priced) \in S
  <2>1. Max(priced) \in priced
    <3>1. priced \in SUBSET Int /\ MaxDay \in Int /\ \A e \in priced : e <= MaxDay
      <4>1. MaxDay \in Int /\ \A e \in Days : e \in Int /\ e <= MaxDay
        BY PointInTimeAssumption DEF Days
      <4>2. \A e \in priced : e \in Days
        BY <1>2, SeenStands
      <4> QED
        BY <4>1, <4>2
    <3> QED
      BY <1>3, <3>1, MaxOfBounded
  <2> QED
    BY <1>2, <2>1
<1> SUFFICES ASSUME NEW m, m = Max(priced) PROVE PrevClose(s, S, d)' = PrevClose(s, S, d)
    OBVIOUS
<1>4. priced # {} => Close(s, m)' = Close(s, m)
    BY <1>1, <1>3
<1>5. PrevClose(s, S, d) = IF priced = {} THEN Absent ELSE Close(s, m)
    BY DEF PrevClose, priced
<1>6. m = Max(priced)'
    BY <1>2
<1>7. PrevClose(s, S, d)' = IF priced' = {} THEN Absent ELSE Close(s, m)'
    BY <1>6 DEF PrevClose, priced
<1> QED
    BY <1>2, <1>4, <1>5, <1>7

LEMMA PinStands ==
    ASSUME NEW D, Kept(D), NEW s \in Symbols, NEW S \in SUBSET Seen(s, D), NEW d \in S,
           NEW board, NEW ipo
    PROVE  PinnedAt(s, S, d, board, ipo)' = PinnedAt(s, S, d, board, ipo)
<1>1. Close(s, d)' = Close(s, d) /\ PrevClose(s, S, d)' = PrevClose(s, S, d)
    BY RowsStand, PrevStands
<1> QED
    BY <1>1 DEF PinnedAt

(* A roster's answers, and the caps of the books.                           *)
LEMMA RosterStands ==
    ASSUME NEW D, Kept(D)
    PROVE  /\ \A s, d : IndexesOf(s, d)' = IndexesOf(s, d) /\ CapOf(s, d)' = CapOf(s, d)
           /\ \A index, d : Members(index, d)' = Members(index, d) /\ Members(index, d) \in SUBSET Symbols
           /\ \A d : RosterCovers(d)' = RosterCovers(d)
<1>1. roster' = roster /\ snapshot' = snapshot
    BY DEF Kept
<1>2. ASSUME NEW s, NEW d PROVE IndexesOf(s, d)' = IndexesOf(s, d)
    BY <1>1 DEF IndexesOf
<1>3. ASSUME NEW s, NEW d PROVE CapOf(s, d)' = CapOf(s, d)
    BY <1>1 DEF CapOf
<1>4. ASSUME NEW index, NEW d
      PROVE  Members(index, d)' = Members(index, d) /\ Members(index, d) \in SUBSET Symbols
    BY <1>1 DEF Members, Kept
<1>5. ASSUME NEW d PROVE RosterCovers(d)' = RosterCovers(d)
    BY <1>1 DEF RosterCovers
<1> QED
    BY <1>2, <1>3, <1>4, <1>5

LEMMA TrackStands ==
    ASSUME NEW D, Kept(D), NEW s \in Symbols
    PROVE  ResolveTrack(s, D, Seen(s, D))' = ResolveTrack(s, D, Seen(s, D))
<1>1. Seen(s, D)' = Seen(s, D)
    BY SeenStands
<1>2. IndexesOf(s, D)' = IndexesOf(s, D)
    BY RosterStands
<1>3. ASSUME NEW S, S = Seen(s, D)
      PROVE  TrackAdvAtLeast(s, S, ADV_TRACK_A)' = TrackAdvAtLeast(s, S, ADV_TRACK_A)
    BY <1>3, AdvStands
<1>4. ResolveTrack(s, D, Seen(s, D)) = AssignTrack(IndexesOf(s, D), TrackAdvAtLeast(s, Seen(s, D), ADV_TRACK_A))
    BY DEF ResolveTrack
<1>5. ResolveTrack(s, D, Seen(s, D))' = AssignTrack(IndexesOf(s, D)', TrackAdvAtLeast(s, Seen(s, D), ADV_TRACK_A)')
    BY DEF ResolveTrack
<1> QED
    BY <1>1, <1>2, <1>3, <1>4, <1>5

LEMMA LegsStand ==
    ASSUME NEW D \in Nat, Kept(D), NEW s \in Symbols, Seen(s, D) # {}
    PROVE  PassesLegs(s, D)' = PassesLegs(s, D)
<1> SUFFICES ASSUME NEW S, S = Seen(s, D), NEW last, last = Max(S)
             PROVE  PassesLegs(s, D)' = PassesLegs(s, D)
    OBVIOUS
<1>1. S = Seen(s, D)' /\ last \in S /\ bars'[s][last] = bars[s][last]
    BY SeenStands, NewestSeen
<1>2. /\ Traded(s, S)' = Traded(s, S) /\ Close(s, last)' = Close(s, last)
      /\ AdvAtLeast(s, S, ADV_FLOOR)' = AdvAtLeast(s, S, ADV_FLOOR)
      /\ PinnedAt(s, S, last, "MAIN", Absent)' = PinnedAt(s, S, last, "MAIN", Absent)
  <2>1. S \in SUBSET Seen(s, D) /\ last \in S
    BY <1>1
  <2>2. Traded(s, S)' = Traded(s, S) /\ Close(s, last)' = Close(s, last)
    BY <2>1, RowsStand
  <2>3. AdvAtLeast(s, S, ADV_FLOOR)' = AdvAtLeast(s, S, ADV_FLOOR)
    BY <2>1, AdvStands
  <2>4. PinnedAt(s, S, last, "MAIN", Absent)' = PinnedAt(s, S, last, "MAIN", Absent)
    BY <2>1, PinStands
  <2> QED
    BY <2>2, <2>3, <2>4
<1> DEFINE Legs == /\ Cardinality(Traded(s, S)) >= MIN_HISTORY
                   /\ AdvAtLeast(s, S, ADV_FLOOR)
                   /\ Close(s, last) # Absent /\ Close(s, last) >= PRICE_FLOOR
                   /\ ~PinnedAt(s, S, last, "MAIN", Absent)
                   /\ bars[s][last].broker # Absent
<1>3. PassesLegs(s, D) = Legs
    BY DEF PassesLegs
<1>4. PassesLegs(s, D)' = Legs'
    BY <1>1 DEF PassesLegs
<1>5. Legs' = Legs
    BY <1>1, <1>2
<1> QED
    BY <1>3, <1>4, <1>5

LEMMA PassingStands ==
    ASSUME NEW D \in Nat, Kept(D)
    PROVE  /\ Passing(D)' = Passing(D) /\ Passing(D) \in SUBSET Symbols
           /\ \A s \in Symbols : Stopped(s, D)' = Stopped(s, D)
<1>1. \A s \in Symbols : Seen(s, D)' = Seen(s, D)
    BY SeenStands
<1>2. ASSUME NEW s \in Symbols PROVE Stopped(s, D)' = Stopped(s, D)
    BY <1>1 DEF Stopped
<1>3. ASSUME NEW s \in Symbols, Seen(s, D) # {} PROVE PassesLegs(s, D)' = PassesLegs(s, D)
    BY <1>3, LegsStand
<1> QED
    BY <1>1, <1>2, <1>3 DEF Passing

LEMMA LostStands ==
    ASSUME NEW D \in Nat, Kept(D)
    PROVE  Unrecoverable(D)' = Unrecoverable(D) /\ Unrecoverable(D) \in SUBSET Symbols
<1>1. Members(LISTED, D)' = Members(LISTED, D) /\ Members(LISTED, D) \in SUBSET Symbols
    BY RosterStands
<1>2. \A s \in Symbols : Seen(s, D)' = Seen(s, D)
    BY SeenStands
<1> QED
    BY <1>1, <1>2 DEF Unrecoverable

Caps(S, D) == MapThenSumSet(LAMBDA s : CapOf(s, D), S)

LEMMA CapsStand ==
    ASSUME NEW D, Kept(D), NEW S
    PROVE  Caps(S, D)' = Caps(S, D)
<1> DEFINE F(it) == [t \in SUBSET S |-> IF t = {} THEN 0
                        ELSE CapOf(CHOOSE x \in t : TRUE, D) + it[t \ {CHOOSE x \in t : TRUE}]]
           G(it) == [t \in SUBSET S |-> IF t = {} THEN 0
                        ELSE CapOf(CHOOSE x \in t : TRUE, D)' + it[t \ {CHOOSE x \in t : TRUE}]]
<1>1. Caps(S, D) = (CHOOSE it : it = F(it))[S] /\ Caps(S, D)' = (CHOOSE it : it = G(it))[S]
    BY DEF Caps, MapThenSumSet, MapThenFoldSet
<1>2. \A s : CapOf(s, D)' = CapOf(s, D)
    BY RosterStands
<1>3. \A it : F(it) = G(it)
    BY <1>2
<1> HIDE DEF F, G
<1> QED
    BY <1>1, <1>3

LEMMA BiasStands ==
    ASSUME NEW D \in Nat, Kept(D)
    PROVE  Bias(D, D)' = Bias(D, D)
<1>1. SampleDays(D, D) = {D}
    BY DEF SampleDays
<1> SUFFICES ASSUME NEW listed, listed = Members(LISTED, D), NEW lost, lost = Unrecoverable(D)
             PROVE  Bias(D, D)' = Bias(D, D)
    OBVIOUS
<1>2. listed = Members(LISTED, D)' /\ lost = Unrecoverable(D)'
    BY LostStands, RosterStands
<1> DEFINE priced == {s \in listed : CapOf(s, D) # Absent}
           share == IF Caps(priced, D) > 0 THEN <<Caps(lost \intersect priced, D), Caps(priced, D)>> ELSE Absent
<1>3. UNION {Members(LISTED, d) : d \in {D}} = listed /\ UNION {Unrecoverable(d) : d \in {D}} = lost
    OBVIOUS
<1>4. UNION {Members(LISTED, d)' : d \in {D}} = listed /\ UNION {Unrecoverable(d)' : d \in {D}} = lost
    BY <1>2
<1>5. Bias(D, D) = [measured |-> listed # {}, listed |-> listed, unrecoverable |-> lost, share |-> share]
    BY <1>1, <1>3 DEF Bias, Caps
<1>6. Bias(D, D)' = [measured |-> listed # {}, listed |-> listed, unrecoverable |-> lost, share |-> share']
    BY <1>1, <1>4 DEF Bias, Caps
<1>7. priced' = priced
    BY RosterStands
<1>8. ASSUME NEW P, P = priced PROVE share' = share
  <2>1. Caps(P, D)' = Caps(P, D) /\ Caps(lost \intersect P, D)' = Caps(lost \intersect P, D)
    BY CapsStand
  <2>2. share = IF Caps(P, D) > 0 THEN <<Caps(lost \intersect P, D), Caps(P, D)>> ELSE Absent
    BY <1>8
  <2>3. share' = IF Caps(P, D)' > 0 THEN <<Caps(lost \intersect P, D)', Caps(P, D)'>> ELSE Absent
    BY <1>7, <1>8
  <2> QED
    BY <2>1, <2>2, <2>3
<1> QED
    BY <1>5, <1>6, <1>8

(* The universe of a day, with its tracks and its admitted bias.            *)
LEMMA UniverseStands ==
    ASSUME NEW D \in Nat, Kept(D)
    PROVE  PitUniverse(D)' = PitUniverse(D)
<1> SUFFICES ASSUME NEW P, P = Passing(D) PROVE PitUniverse(D)' = PitUniverse(D)
    OBVIOUS
<1>1. P = Passing(D)' /\ P \in SUBSET Symbols
    BY PassingStands
<1>2. [s \in P |-> ResolveTrack(s, D, Seen(s, D))]' = [s \in P |-> ResolveTrack(s, D, Seen(s, D))]
    BY <1>1, TrackStands
<1>3. {s \in Symbols : Stopped(s, D)}' = {s \in Symbols : Stopped(s, D)}
    BY PassingStands
<1>4. {s \in Unrecoverable(D) : Seen(s, D) = {}}' = {s \in Unrecoverable(D) : Seen(s, D) = {}}
    BY LostStands, SeenStands
<1>5. RosterCovers(D)' = RosterCovers(D) /\ Bias(D, D)' = Bias(D, D)
    BY RosterStands, BiasStands
<1>6. PitUniverse(D) =
        [symbols |-> P, tracks |-> [s \in P |-> ResolveTrack(s, D, Seen(s, D))],
         known_missing |-> {s \in Symbols : Stopped(s, D)}, roster_gap |-> ~RosterCovers(D),
         unrecoverable |-> {s \in Unrecoverable(D) : Seen(s, D) = {}}, survivorship |-> Bias(D, D)]
    BY DEF PitUniverse
<1>7. PitUniverse(D)' =
        [symbols |-> P, tracks |-> [s \in P |-> ResolveTrack(s, D, Seen(s, D))]',
         known_missing |-> {s \in Symbols : Stopped(s, D)}', roster_gap |-> ~RosterCovers(D)',
         unrecoverable |-> {s \in Unrecoverable(D) : Seen(s, D) = {}}', survivorship |-> Bias(D, D)']
    BY <1>1 DEF PitUniverse
<1> QED
    BY <1>2, <1>3, <1>4, <1>5, <1>6, <1>7

-----------------------------------------------------------------------------
(* Returns and the regime                                                   *)

LEMMA ReturnsStand ==
    ASSUME NEW D \in Nat, Kept(D), NEW s \in Symbols
    PROVE  /\ ReturnDays(s, D)' = ReturnDays(s, D) /\ ReturnDays(s, D) \in SUBSET Seen(s, D)
           /\ \A d \in ReturnDays(s, D) : DailyReturn(s, d)' = DailyReturn(s, d)
<1> SUFFICES ASSUME NEW S, S = Seen(s, D)
             PROVE  /\ ReturnDays(s, D)' = ReturnDays(s, D) /\ ReturnDays(s, D) \in SUBSET S
                    /\ \A d \in ReturnDays(s, D) : DailyReturn(s, d)' = DailyReturn(s, d)
    OBVIOUS
<1>1. S = Seen(s, D)' /\ S \in SUBSET Seen(s, D) /\ \A d \in S : d \in Days /\ d \in Nat /\ d < D
  <2>1. \A d \in Days : d \in Nat
    BY DEF Days
  <2> QED
    BY <2>1, SeenStands
<1>2. Traded(s, S)' = Traded(s, S) /\ Traded(s, S) \in SUBSET S /\ \A d \in S : Close(s, d)' = Close(s, d)
  <2>1. Traded(s, S)' = Traded(s, S) /\ \A d \in S : Close(s, d)' = Close(s, d)
    BY <1>1, RowsStand
  <2> QED
    BY <2>1 DEF Traded
<1> DEFINE priced == {d \in Traded(s, S) : Close(s, d) \notin {Absent, 0}}
           T == priced \ {d \in priced : \A e \in priced : d <= e}
<1>3. priced' = priced /\ priced \in SUBSET S
    BY <1>2
<1>4. ReturnDays(s, D) = T /\ ReturnDays(s, D)' = T'
    BY <1>1 DEF ReturnDays
<1>5. T' = T /\ T \in SUBSET S
  <2> HIDE DEF priced
  <2> QED
    BY <1>3
<1>6. ASSUME NEW d \in S PROVE DailyReturn(s, d)' = DailyReturn(s, d)
  <2>1. Kept(d) /\ d \in Nat
    BY <1>1, <1>6, DayTypes DEF Kept, Days
  <2> SUFFICES ASSUME NEW Q, Q = Seen(s, d) PROVE DailyReturn(s, d)' = DailyReturn(s, d)
    OBVIOUS
  <2>2. Q = Seen(s, d)' /\ Q \in SUBSET Seen(s, d)
    BY <2>1, SeenStands
  <2>3. Traded(s, Q)' = Traded(s, Q) /\ Traded(s, Q) \in SUBSET Seen(s, d)
    <3>1. Traded(s, Q)' = Traded(s, Q)
      BY <2>1, <2>2, RowsStand
    <3>2. Traded(s, Q) \in SUBSET Q
      BY DEF Traded
    <3> QED
      BY <2>2, <3>1, <3>2
  <2>4. ASSUME NEW V, V = Traded(s, Q) PROVE PrevClose(s, V, d)' = PrevClose(s, V, d)
    BY <2>1, <2>3, <2>4, PrevStands
  <2>5. ASSUME NEW V, V = Traded(s, Q)
        PROVE  Before(s, d) = PrevClose(s, V, d) /\ Before(s, d)' = PrevClose(s, V, d)'
    BY <2>2, <2>3, <2>5 DEF Before
  <2>6. Before(s, d)' = Before(s, d)
    BY <2>4, <2>5
  <2>7. Close(s, d)' = Close(s, d)
    BY <1>2, <1>6
  <2> QED
    BY <2>6, <2>7 DEF DailyReturn
<1> QED
    BY <1>1, <1>4, <1>5, <1>6

LEMMA MarketStands ==
    ASSUME NEW D \in Nat, Kept(D), NEW names \in SUBSET Symbols
    PROVE  MarketReturns(names, D)' = MarketReturns(names, D)
<1>1. ASSUME NEW s \in names
      PROVE  {DailyReturn(s, d) : d \in ReturnDays(s, D)}' = {DailyReturn(s, d) : d \in ReturnDays(s, D)}
    BY ReturnsStand
<1> QED
    BY <1>1 DEF MarketReturns

LEMMA RegimeStands ==
    ASSUME NEW D \in Nat, Kept(D)
    PROVE  MarketRegime(MarketReturns(Passing(D), D), D)' = MarketRegime(MarketReturns(Passing(D), D), D)
<1> SUFFICES ASSUME NEW P, P = Passing(D)
             PROVE  MarketRegime(MarketReturns(Passing(D), D), D)' = MarketRegime(MarketReturns(Passing(D), D), D)
    OBVIOUS
<1>1. P = Passing(D)' /\ P \in SUBSET Symbols
    BY PassingStands
<1>2. MarketReturns(P, D)' = MarketReturns(P, D)
    BY <1>1, MarketStands
<1>3. MarketRegime(MarketReturns(Passing(D), D), D) = MarketRegime(MarketReturns(P, D), D)
    OBVIOUS
<1>4. MarketRegime(MarketReturns(Passing(D), D), D)' = MarketRegime(MarketReturns(P, D)', D)
    BY <1>1
<1> QED
    BY <1>2, <1>3, <1>4

-----------------------------------------------------------------------------
(* What the views read: a name's own store, its foreign nets                *)

LEMMA StoreStands ==
    ASSUME NEW D \in 1..(MaxDay + 1), Kept(D), NEW s \in Symbols
    PROVE  StoreOf(s, D)' = StoreOf(s, D)
<1> DEFINE bar == [d \in Days |-> IF bars[s][d] = Absent THEN Absent ELSE bars[s][d] @@ [day |-> d]]
           summary == [d \in Days |->
                         IF bars[s][d] = Absent THEN Absent
                         ELSE IF bars[s][d].broker = Absent THEN Absent
                         ELSE [book |-> bars[s][d].broker, stamp |-> d]]
<1>0. D - 1 \in Nat /\ \A d \in 1..(D - 1) : d \in Days /\ d < D
    BY PointInTimeAssumption DEF Days
<1>1. \A d \in 1..(D - 1) : bars'[s][d] = bars[s][d]
    BY <1>0 DEF Kept
<1>2. \A d \in 1..(D - 1) : bar'[d] = bar[d] /\ summary'[d] = summary[d]
    BY <1>0, <1>1
<1>3. StoreOf(s, D) = [tape |-> SubSeq(bar, 1, D - 1), flows |-> SubSeq(summary, 1, D - 1), ksei |-> {}]
    BY DEF StoreOf
<1>4. StoreOf(s, D)' = [tape |-> SubSeq(bar', 1, D - 1), flows |-> SubSeq(summary', 1, D - 1), ksei |-> {}]
    BY DEF StoreOf
<1> HIDE DEF bar, summary
<1> QED
    BY <1>0, <1>2, <1>3, <1>4, SameHead

LEMMA NetsStand ==
    ASSUME NEW D \in Nat, Kept(D), NEW s \in Symbols
    PROVE  NetForeign(s, D)' = NetForeign(s, D) /\ DOMAIN NetForeign(s, D) \in SUBSET Seen(s, D)
<1>1. Seen(s, D)' = Seen(s, D) /\ \A d \in Seen(s, D) : bars'[s][d] = bars[s][d]
    BY SeenStands
<1> QED
    BY <1>1 DEF NetForeign

LEMMA KnownStands ==
    ASSUME NEW D \in Nat, Kept(D)
    PROVE  Known(D)' = Known(D) /\ Known(D) \in SUBSET Symbols
BY SeenStands DEF Known

LEMMA ForeignStands ==
    ASSUME NEW D \in Nat, Kept(D)
    PROVE  [s \in Known(D) |-> ForeignView(NetForeign(s, D))]' = [s \in Known(D) |-> ForeignView(NetForeign(s, D))]
<1>1. \A s \in Known(D) : ForeignView(NetForeign(s, D))' = ForeignView(NetForeign(s, D))
    BY KnownStands, NetsStand
<1> QED
    BY <1>1, KnownStands

TideOf(S, D, day) == SumBy(LAMBDA s : NetForeign(s, D)[day], S)

LEMMA TideStands ==
    ASSUME NEW D \in Nat, Kept(D), NEW day, NEW S \in SUBSET Symbols
    PROVE  TideOf(S, D, day)' = TideOf(S, D, day)
<1> DEFINE nets == [s \in S |-> NetForeign(s, D)[day]]
<1>1. nets' = nets
    BY NetsStand
<1>2. TideOf(S, D, day) = SumOver(nets, S) /\ TideOf(S, D, day)' = SumOver(nets', S)
    BY DEF TideOf, SumBy
<1> HIDE DEF nets
<1> QED
    BY <1>1, <1>2

LEMMA MarketTideStands ==
    ASSUME NEW D \in Nat, Kept(D), NEW day
    PROVE  MarketTide(D, day)' = MarketTide(D, day)
<1> DEFINE served == {s \in Known(D) : day \in DOMAIN NetForeign(s, D)}
<1>1. served' = served /\ served \in SUBSET Symbols
    BY KnownStands, NetsStand
<1> SUFFICES ASSUME NEW S, S = served PROVE MarketTide(D, day)' = MarketTide(D, day)
    OBVIOUS
<1> DEFINE of(scope) == {s \in S : scope \in {"MARKET", Sector[s]}}
           Scopes == {sc \in {"MARKET"} \union Range(Sector) : of(sc) # {}}
<1>2. MarketTide(D, day)
        = [scope \in Scopes |-> [net |-> TideOf(of(scope), D, day), symbols |-> Cardinality(of(scope))]]
    BY DEF MarketTide, TideOf
<1>3. MarketTide(D, day)'
        = [scope \in Scopes |-> [net |-> TideOf(of(scope), D, day)', symbols |-> Cardinality(of(scope))]]
    BY <1>1 DEF MarketTide, TideOf
<1>4. \A scope \in Scopes : TideOf(of(scope), D, day)' = TideOf(of(scope), D, day)
  <2>1. \A scope : of(scope) \in SUBSET Symbols
    BY <1>1
  <2> HIDE DEF of, served
  <2> QED
    BY <2>1, TideStands
<1> HIDE DEF of, Scopes
<1> QED
    BY <1>2, <1>3, <1>4

-----------------------------------------------------------------------------
(* The map of the sectors, the heatmap and the lenses                       *)

LEMMA EdgeDays ==
    ASSUME NEW S \in SUBSET Days, S # {}
    PROVE  Max(S) \in S /\ Min(S) \in S
<1>1. S \in SUBSET Int /\ MaxDay \in Int /\ 1 \in Int /\ \A d \in S : 1 <= d /\ d <= MaxDay
    BY DayTypes
<1> QED
    BY <1>1, MaxOfBounded, MinOfBounded

LEMMA WindowedStands ==
    ASSUME NEW D, Kept(D), NEW s \in Symbols
    PROVE  Windowed(s, D)' = Windowed(s, D) /\ Windowed(s, D) \in SUBSET Seen(s, D)
<1> DEFINE all == UNION {Seen(q, D) : q \in Symbols}
<1>1. Seen(s, D)' = Seen(s, D)
    BY SeenStands
<1>2. all' = all
    BY SeenStands
<1>3. Windowed(s, D) = {d \in Seen(s, D) : d >= Max(all) - SECTOR_WINDOW_DAYS}
    BY DEF Windowed
<1>4. Windowed(s, D)' = {d \in Seen(s, D)' : d >= Max(all') - SECTOR_WINDOW_DAYS}
    BY DEF Windowed
<1> HIDE DEF all
<1> QED
    BY <1>1, <1>2, <1>3, <1>4

LEMMA WindowReturnStands ==
    ASSUME NEW D, Kept(D), NEW s \in Symbols
    PROVE  WindowReturn(s, D)' = WindowReturn(s, D)
<1> SUFFICES ASSUME NEW P, P = Closes(s, Windowed(s, D))
             PROVE  WindowReturn(s, D)' = WindowReturn(s, D)
    OBVIOUS
<1>1. P = Closes(s, Windowed(s, D))' /\ P \in SUBSET Seen(s, D)
  <2> SUFFICES ASSUME NEW W, W = Windowed(s, D)
               PROVE  P = Closes(s, Windowed(s, D))' /\ P \in SUBSET Seen(s, D)
    OBVIOUS
  <2>1. W = Windowed(s, D)' /\ W \in SUBSET Seen(s, D)
    BY WindowedStands
  <2>2. Traded(s, W)' = Traded(s, W) /\ \A d \in W : Close(s, d)' = Close(s, d)
    BY <2>1, RowsStand
  <2>3. Traded(s, W) \in SUBSET W
    BY DEF Traded
  <2>4. Closes(s, W)' = Closes(s, W) /\ Closes(s, W) \in SUBSET W
    BY <2>2, <2>3 DEF Closes
  <2> QED
    BY <2>1, <2>4
<1>2. CASE Cardinality(P) < 2
    BY <1>1, <1>2 DEF WindowReturn
<1>3. CASE ~(Cardinality(P) < 2)
  <2>1. P # {}
    BY <1>3, FS_EmptySet
  <2>2. P \in SUBSET Days
    BY <1>1, SeenStands
  <2>3. \A d \in P : Close(s, d)' = Close(s, d)
    BY <1>1, RowsStand
  <2>4. PICK a \in P, b \in P : a = Max(P) /\ b = Min(P)
    BY <2>1, <2>2, EdgeDays
  <2>5. WindowReturn(s, D) = Ratio(Close(s, a) - Close(s, b), Close(s, b))
    BY <1>3, <2>4 DEF WindowReturn
  <2>6. WindowReturn(s, D)' = Ratio(Close(s, a)' - Close(s, b)', Close(s, b)')
    BY <1>1, <1>3, <2>4 DEF WindowReturn
  <2> QED
    BY <2>3, <2>5, <2>6
<1> QED
    BY <1>2, <1>3

LEMMA StatsStand ==
    ASSUME NEW D \in Nat, Kept(D), NEW s \in Symbols
    PROVE  SymbolStats(s, D)' = SymbolStats(s, D)
<1> SUFFICES ASSUME NEW N, N = NetForeign(s, D), NEW W, W = WindowNets(s, D)
             PROVE  SymbolStats(s, D)' = SymbolStats(s, D)
    OBVIOUS
<1>1. N = NetForeign(s, D)'
    BY NetsStand
<1>2. W = WindowNets(s, D)'
    BY <1>1, WindowedStands DEF WindowNets
<1>3. SymbolStats(s, D) = [return |-> WindowReturn(s, D), flow |-> IF W = {} THEN Absent ELSE SumOver(N, W)]
    BY DEF SymbolStats
<1>4. SymbolStats(s, D)' = [return |-> WindowReturn(s, D)', flow |-> IF W = {} THEN Absent ELSE SumOver(N, W)]
    BY <1>1, <1>2 DEF SymbolStats
<1> QED
    BY <1>3, <1>4, WindowReturnStands

LEMMA RotationStands ==
    ASSUME NEW D \in Nat, Kept(D)
    PROVE  Rotation(D)' = Rotation(D)
<1>1. [s \in Known(D) |-> SymbolStats(s, D)]' = [s \in Known(D) |-> SymbolStats(s, D)]
    BY KnownStands, StatsStand
<1> QED
    BY <1>1 DEF Rotation

LEMMA BrokersStand ==
    ASSUME NEW D \in 1..(MaxDay + 1), Kept(D), NEW s \in Symbols
    PROVE  BrokerNets(s, D)' = BrokerNets(s, D)
BY StoreStands DEF BrokerNets

LEMMA HeatmapStands ==
    ASSUME NEW D \in 1..(MaxDay + 1), Kept(D)
    PROVE  Heatmap(D)' = Heatmap(D)
<1>1. D \in Nat
    BY DayTypes
<1>2. \A s \in Known(D) : NetForeign(s, D)' = NetForeign(s, D) /\ BrokerNets(s, D)' = BrokerNets(s, D)
    BY <1>1, KnownStands, NetsStand, BrokersStand
<1> DEFINE shown == {q \in Known(D) : DOMAIN NetForeign(q, D) # {} \/ DOMAIN BrokerNets(q, D) # {}}
           cell(s) == Cell(ForeignView(NetForeign(s, D)).net_last, BrokerNets(s, D))
<1>3. shown' = shown /\ shown \in SUBSET Known(D)
    BY <1>1, <1>2, KnownStands
<1>4. \A s \in shown : cell(s)' = cell(s)
    BY <1>2, <1>3
<1>5. Heatmap(D) = [s \in shown |-> cell(s)] /\ Heatmap(D)' = [s \in shown' |-> cell(s)']
    BY DEF Heatmap
<1> HIDE DEF shown, cell
<1> QED
    BY <1>3, <1>4, <1>5

LEMMA ReadsStand ==
    ASSUME NEW D \in 1..(MaxDay + 1), Kept(D), NEW s \in Symbols
    PROVE  /\ Accumulation(StoreOf(s, D), D - 1)' = Accumulation(StoreOf(s, D), D - 1)
           /\ ReadSymbol(StoreOf(s, D), D - 1, ResolveTrack(s, D, Seen(s, D)))'
                = ReadSymbol(StoreOf(s, D), D - 1, ResolveTrack(s, D, Seen(s, D)))
<1>1. StoreOf(s, D)' = StoreOf(s, D) /\ ResolveTrack(s, D, Seen(s, D))' = ResolveTrack(s, D, Seen(s, D))
    BY StoreStands, TrackStands
<1> QED
    BY <1>1

-----------------------------------------------------------------------------
(* The portfolio risk report                                                *)

LEMMA PreviewStands ==
    ASSUME NEW D \in Nat, Kept(D)
    PROVE  PreviewBook(D)' = PreviewBook(D) /\ Held(PreviewBook(D)) \in SUBSET Symbols
<1> DEFINE priced(s) == {d \in Seen(s, D) : Close(s, d) \notin {Absent, 0}}
           row(s) == [sector |-> Sector[s], qty |-> PREVIEW_QTY, last |-> Close(s, Max(priced(s))),
                      entry |-> Absent, board |-> "MAIN"]
           names == {q \in Known(D) : priced(q) # {}}
<1>1. \A s \in Symbols : priced(s)' = priced(s) /\ priced(s) \in SUBSET Seen(s, D)
  <2> SUFFICES ASSUME NEW s \in Symbols, NEW S, S = Seen(s, D)
               PROVE  priced(s)' = priced(s) /\ priced(s) \in SUBSET S
    OBVIOUS
  <2>1. S = Seen(s, D)' /\ \A d \in S : Close(s, d)' = Close(s, d)
    BY SeenStands, RowsStand
  <2> QED
    BY <2>1
<1>2. names' = names /\ names \in SUBSET Symbols
  <2> HIDE DEF priced
  <2> QED
    BY <1>1, KnownStands
<1>3. ASSUME NEW s \in names PROVE row(s)' = row(s)
  <2> SUFFICES ASSUME NEW P, P = priced(s) PROVE Close(s, Max(priced(s)))' = Close(s, Max(priced(s)))
    OBVIOUS
  <2>1. P = priced(s)' /\ P # {} /\ P \in SUBSET Seen(s, D) /\ s \in Symbols
    BY <1>1, <1>2, <1>3
  <2>2. P \in SUBSET Days
    BY <2>1, SeenStands
  <2>3. PICK m \in P : m = Max(P)
    BY <2>1, <2>2, EdgeDays
  <2>4. Close(s, m)' = Close(s, m)
    BY <2>1, <2>3, RowsStand
  <2> HIDE DEF priced
  <2> QED
    BY <2>1, <2>3, <2>4
<1>4. PreviewBook(D) = [positions |-> [s \in names |-> row(s)], cash |-> 0]
    BY DEF PreviewBook
<1>5. PreviewBook(D)' = [positions |-> [s \in names' |-> row(s)'], cash |-> 0]
    BY DEF PreviewBook
<1> HIDE DEF names, row
<1>6. PreviewBook(D)' = PreviewBook(D)
    BY <1>2, <1>3, <1>4, <1>5
<1>7. Held(PreviewBook(D)) = names
    BY <1>4 DEF Held
<1> QED
    BY <1>2, <1>6, <1>7

LEMMA LiquidityStands ==
    ASSUME NEW D \in Nat, Kept(D), NEW s \in Symbols, NEW worth
    PROVE  DaysToExit(worth, s, D)' = DaysToExit(worth, s, D)
<1> DEFINE known == {d \in Newest(ADV_WINDOW, Traded(s, Seen(s, D))) : bars[s][d].value # Absent}
<1>1. known' = known /\ known \in SUBSET Seen(s, D)
  <2> SUFFICES ASSUME NEW S, S = Seen(s, D) PROVE known' = known /\ known \in SUBSET S
    OBVIOUS
  <2>1. S = Seen(s, D)' /\ \A d \in S : bars'[s][d] = bars[s][d]
    BY SeenStands
  <2>2. Traded(s, S)' = Traded(s, S) /\ Traded(s, S) \in SUBSET S
    BY RowsStand DEF Traded
  <2> QED
    BY <2>1, <2>2 DEF Newest
<1> HIDE DEF known
<1>2. Adds(s, known)' = Adds(s, known)
    BY <1>1, AddsStand
<1>3. DaysToExit(worth, s, D)
        = IF known = {} \/ Adds(s, known) <= 0 THEN Absent
          ELSE (1000 * worth * Cardinality(known)) \div (DTE_PARTICIPATION * Adds(s, known))
    BY DEF DaysToExit, known
<1>4. DaysToExit(worth, s, D)'
        = IF known' = {} \/ Adds(s, known)' <= 0 THEN Absent
          ELSE (1000 * worth * Cardinality(known')) \div (DTE_PARTICIPATION * Adds(s, known)')
    BY DEF DaysToExit, known
<1> QED
    BY <1>1, <1>2, <1>3, <1>4

LEMMA InputsStand ==
    ASSUME NEW D \in 1..(MaxDay + 1), Kept(D), NEW book, Held(book) \in SUBSET Symbols
    PROVE  ReportInputs(book, D)' = ReportInputs(book, D)
<1>0. D \in Nat
    BY DayTypes
<1>1. ASSUME NEW s \in Held(book) PROVE OwnReturns(s, D)' = OwnReturns(s, D)
    BY <1>0, <1>1, ReturnsStand DEF OwnReturns
<1>2. MarketReturns(Known(D), D)' = MarketReturns(Known(D), D)
  <2> SUFFICES ASSUME NEW K, K = Known(D) PROVE MarketReturns(Known(D), D)' = MarketReturns(Known(D), D)
    OBVIOUS
  <2>1. K = Known(D)' /\ K \in SUBSET Symbols
    BY <1>0, KnownStands
  <2>2. MarketReturns(K, D)' = MarketReturns(K, D)
    BY <1>0, <2>1, MarketStands
  <2>3. MarketReturns(Known(D), D)' = MarketReturns(K, D)'
    BY <2>1
  <2> QED
    BY <2>2, <2>3
<1>3. MarketProxyReturns(MarketReturns(Known(D), D))' = MarketProxyReturns(MarketReturns(Known(D), D))
    BY <1>2
<1>4. ASSUME NEW s \in Held(book)
      PROVE  /\ DaysToExit(WorthOf(book, {s}), s, D)' = DaysToExit(WorthOf(book, {s}), s, D)
             /\ BrokerNets(s, D)' = BrokerNets(s, D) /\ NetForeign(s, D)' = NetForeign(s, D)
    BY <1>0, <1>4, LiquidityStands, BrokersStand, NetsStand
<1>5. ReportInputs(book, D)' =
        [ returns |-> [s \in Held(book) |-> OwnReturns(s, D)'],
          proxy |-> MarketProxyReturns(MarketReturns(Known(D), D))',
          liquidity |-> [s \in Held(book) |-> DaysToExit(WorthOf(book, {s}), s, D)'],
          nets |-> [s \in Held(book) |-> BrokerNets(s, D)'],
          foreign |-> [s \in Held(book) |-> NetForeign(s, D)'] ]
    BY DEF ReportInputs
<1> QED
    BY <1>1, <1>3, <1>4, <1>5 DEF ReportInputs

LEMMA ReportStands ==
    ASSUME NEW D \in 1..(MaxDay + 1), Kept(D)
    PROVE  RiskReport(PreviewBook(D), ReportInputs(PreviewBook(D), D))'
             = RiskReport(PreviewBook(D), ReportInputs(PreviewBook(D), D))
<1> SUFFICES ASSUME NEW b, b = PreviewBook(D)
             PROVE  RiskReport(PreviewBook(D), ReportInputs(PreviewBook(D), D))'
                      = RiskReport(PreviewBook(D), ReportInputs(PreviewBook(D), D))
    OBVIOUS
<1>1. b = PreviewBook(D)' /\ Held(b) \in SUBSET Symbols
    BY DayTypes, PreviewStands
<1>2. ReportInputs(b, D)' = ReportInputs(b, D)
    BY <1>1, InputsStand
<1>3. RiskReport(PreviewBook(D), ReportInputs(PreviewBook(D), D))' = RiskReport(b, ReportInputs(b, D)')
    BY <1>1
<1> QED
    BY <1>2, <1>3

-----------------------------------------------------------------------------
(* All that is shown                                                        *)

LEMMA ShownStands ==
    ASSUME NEW D \in 1..(MaxDay + 1), Kept(D)
    PROVE  DeskShown(D)' = DeskShown(D)
<1>0. D \in Nat
    BY DayTypes
<1>1. /\ PitUniverse(D)' = PitUniverse(D)
      /\ MarketRegime(MarketReturns(Passing(D), D), D)' = MarketRegime(MarketReturns(Passing(D), D), D)
      /\ [s \in Known(D) |-> ForeignView(NetForeign(s, D))]' = [s \in Known(D) |-> ForeignView(NetForeign(s, D))]
      /\ Rotation(D)' = Rotation(D) /\ Heatmap(D)' = Heatmap(D)
    BY <1>0, UniverseStands, RegimeStands, ForeignStands, RotationStands, HeatmapStands
<1>2. \A d \in 1..(D - 1) : MarketTide(D, d)' = MarketTide(D, d)
    BY <1>0, MarketTideStands
<1>3. Known(D)' = Known(D) /\ Known(D) \in SUBSET Symbols
    BY <1>0, KnownStands
<1>4. [s \in Known(D) |-> Accumulation(StoreOf(s, D), D - 1)]'
        = [s \in Known(D) |-> Accumulation(StoreOf(s, D), D - 1)]
    BY <1>3, ReadsStand
<1> DEFINE reads == [s \in Known(D) |-> ReadSymbol(StoreOf(s, D), D - 1, ResolveTrack(s, D, Seen(s, D)))]
<1>5. reads' = reads
    BY <1>3, ReadsStand
<1>6. Agreement(reads)' = Agreement(reads)
  <2> HIDE DEF reads
  <2> QED
    BY <1>5
<1>7. DeskShown(D)' =
        [ universe |-> PitUniverse(D)',
          regime |-> MarketRegime(MarketReturns(Passing(D), D), D)',
          foreign |-> [s \in Known(D) |-> ForeignView(NetForeign(s, D))]',
          tide |-> [d \in 1..(D - 1) |-> MarketTide(D, d)'],
          accumulation |-> [s \in Known(D) |-> Accumulation(StoreOf(s, D), D - 1)]',
          rotation |-> Rotation(D)', heatmap |-> Heatmap(D)',
          lenses |-> Agreement(reads)',
          risk |-> RiskReport(PreviewBook(D), ReportInputs(PreviewBook(D), D))' ]
    BY DEF DeskShown
<1> QED
    BY <1>1, <1>2, <1>4, <1>6, <1>7, ReportStands DEF DeskShown

(* A step that loads no roster and no listing, and touches no bar or broker *)
(* rows of a day before D, leaves what is shown for the decision of day D.  *)
RowsRewriteNothingEarlier ==
    UNCHANGED <<snapshot, roster>> =>
        \A D \in 1..(MaxDay + 1) :
            (\A s \in Symbols, d \in Days : bars'[s][d] # bars[s][d] => D <= d) => DeskShown(D)' = DeskShown(D)

(* No look-ahead, for every market, roster and length of history, and for   *)
(* rows stored on their day or however late: the bars and broker summaries  *)
(* of a day, whenever they come and whether they come together or one name  *)
(* at a time, change neither the universe with its tracks and bias, the     *)
(* regime, the views, the lenses nor the risk report of any decision taken  *)
(* before that day opened (store/db.py _read, write_daily_bars, and every   *)
(* module that takes a decision_ts).  Of a decision after that day they may *)
(* change all of it.                                                        *)
THEOREM PastStands == PitSpec => [][RowsRewriteNothingEarlier]_pitVars
<1>1. ASSUME PitInv, UNCHANGED <<snapshot, roster>>, NEW D \in 1..(MaxDay + 1),
             \A s \in Symbols, d \in Days : bars'[s][d] # bars[s][d] => D <= d
      PROVE  DeskShown(D)' = DeskShown(D)
  <2>1. ASSUME NEW s \in Symbols, NEW d \in Days, d < D PROVE bars'[s][d] = bars[s][d]
    <3>1. ~(D <= d)
      BY <2>1, DayTypes
    <3> QED
      BY <1>1, <3>1
  <2>2. Kept(D)
    BY <1>1, <2>1 DEF Kept, PitInv
  <2> QED
    BY <2>2, ShownStands
<1>2. PitInv /\ [PitNext]_pitVars => [RowsRewriteNothingEarlier]_pitVars
    BY <1>1 DEF RowsRewriteNothingEarlier
<1> QED
    BY <1>2, PitStart, PitStep, PTL DEF PitSpec

-----------------------------------------------------------------------------
(* The views add up: one flow, name by name, sector by sector, day by day   *)

(* A sum of the modules is a sum of SetLemmas.                              *)
LEMMA SumOverIs == ASSUME NEW f, NEW S PROVE SumOver(f, S) = SetSum(f, S)
BY DEF SumOver, MapThenSumSet, MapThenFoldSet, SetSum, SumsUp, Picked

LEMMA KnownFinite == ASSUME NEW D PROVE Known(D) \in SUBSET Symbols /\ IsFiniteSet(Known(D))
BY PointInTimeAssumption, FS_Subset DEF Known

LEMMA NetsAreInts ==
    ASSUME PitInv, NEW s \in Symbols, NEW D, NEW d \in DOMAIN NetForeign(s, D)
    PROVE  d \in Seen(s, D) /\ NetForeign(s, D)[d] \in Int
<1>1. d \in Seen(s, D) /\ bars[s][d].foreign # Absent /\ NetForeign(s, D)[d] = bars[s][d].foreign
    BY DEF NetForeign
<1>2. bars[s][d] \in Quotes[s]
    BY <1>1 DEF PitInv, PitTypeOK, Seen
<1> QED
    BY <1>1, <1>2, PointInTimeAssumption

LEMMA ServedFinite ==
    ASSUME NEW D, NEW d
    PROVE  {s \in Known(D) : d \in DOMAIN NetForeign(s, D)} \in SUBSET Symbols
           /\ IsFiniteSet({s \in Known(D) : d \in DOMAIN NetForeign(s, D)})
BY KnownFinite, FS_Subset

(* A tide's row of the market is the sum of the names served, and its rows  *)
(* of the sectors are the sums of theirs.                                   *)
TideRow(S, D, day) == [net |-> TideOf(S, D, day), symbols |-> Cardinality(S)]
LEMMA TideRows ==
    ASSUME NEW D, NEW day, NEW S, S = {s \in Known(D) : day \in DOMAIN NetForeign(s, D)}
    PROVE  /\ "MARKET" \in DOMAIN MarketTide(D, day) <=> S # {}
           /\ S # {} => MarketTide(D, day)["MARKET"].net = TideOf(S, D, day)
           /\ DOMAIN MarketTide(D, day) \ {"MARKET"} = {Sector[s] : s \in S}
           /\ \A x \in DOMAIN MarketTide(D, day) \ {"MARKET"} :
                 MarketTide(D, day)[x].net = TideOf({s \in S : Sector[s] = x}, D, day)
<1> DEFINE of(scope) == {s \in S : scope \in {"MARKET", Sector[s]}}
           Scopes == {sc \in {"MARKET"} \union Range(Sector) : of(sc) # {}}
<1>1. MarketTide(D, day) = [scope \in Scopes |-> TideRow(of(scope), D, day)]
    BY DEF MarketTide, TideOf, TideRow
<1>2. of("MARKET") = S
    OBVIOUS
<1>3. S \in SUBSET Symbols /\ "MARKET" \notin Range(Sector) /\ \A s \in S : Sector[s] \in Range(Sector)
  <2>1. S \in SUBSET Symbols
    BY ServedFinite
  <2> QED
    BY <2>1, ViewsAssumption DEF Range
<1>4. Scopes \ {"MARKET"} = {Sector[s] : s \in S}
    BY <1>3
<1>5. \A x \in Scopes \ {"MARKET"} : of(x) = {s \in S : Sector[s] = x}
    OBVIOUS
<1>6. \A T : TideRow(T, D, day).net = TideOf(T, D, day)
    BY DEF TideRow
<1>7. "MARKET" \in Scopes <=> S # {}
    BY <1>2
<1> HIDE DEF of, Scopes
<1> QED
    BY <1>1, <1>2, <1>4, <1>5, <1>6, <1>7

(* The market's tide of a day is the sum of its sectors' tides.             *)
LEMMA TidesAdd ==
    ASSUME PitInv, NEW D, NEW day, NEW tide, tide = MarketTide(D, day), "MARKET" \in DOMAIN tide
    PROVE  tide["MARKET"].net = SumBy(LAMBDA x : tide[x].net, DOMAIN tide \ {"MARKET"})
<1> SUFFICES ASSUME NEW S, S = {s \in Known(D) : day \in DOMAIN NetForeign(s, D)}
             PROVE  tide["MARKET"].net = SumBy(LAMBDA x : tide[x].net, DOMAIN tide \ {"MARKET"})
    OBVIOUS
<1> DEFINE T == DOMAIN tide \ {"MARKET"}
           w == [s \in S |-> NetForeign(s, D)[day]]
           m == [x \in T |-> {s \in S : Sector[s] = x}]
           v == [x \in T |-> tide[x].net]
<1>1. /\ tide["MARKET"].net = TideOf(S, D, day)
      /\ T = {Sector[s] : s \in S}
      /\ \A x \in T : tide[x].net = TideOf({s \in S : Sector[s] = x}, D, day)
    BY TideRows
<1>2. S \in SUBSET Symbols /\ IsFiniteSet(S)
    BY ServedFinite
<1>3. \A s \in S : w[s] \in Int /\ w[s] = NetForeign(s, D)[day]
    BY <1>2, NetsAreInts
<1>4. ASSUME NEW U \in SUBSET S PROVE TideOf(U, D, day) = SetSum(w, U)
  <2> DEFINE u == [s \in U |-> NetForeign(s, D)[day]]
  <2>1. TideOf(U, D, day) = SetSum(u, U)
    BY SumOverIs DEF TideOf, SumBy
  <2>2. \A s \in U : u[s] = w[s]
    OBVIOUS
  <2>3. IsFiniteSet(U)
    BY <1>2, FS_Subset
  <2> HIDE DEF u, w
  <2> QED
    BY <2>1, <2>2, <2>3, SumStands
<1>5. SumBy(LAMBDA x : tide[x].net, T) = SetSum(v, T)
    BY SumOverIs DEF SumBy
<1>6. IsFiniteSet(T) /\ \A s \in S : Sector[s] \in T
  <2> DEFINE f == [s \in S |-> Sector[s]]
  <2>1. f \in Surjection(S, T)
    BY <1>1 DEF Surjection
  <2> HIDE DEF T, f
  <2> QED
    BY <1>1, <1>2, <2>1, FS_Surjection
<1>7. \A x \in T : m[x] = {s \in S : Sector[s] = x} /\ m[x] \in SUBSET S
    OBVIOUS
<1>10. \A x \in T : v[x] = SetSum(w, m[x])
  <2> SUFFICES ASSUME NEW x \in T PROVE v[x] = SetSum(w, m[x])
    OBVIOUS
  <2>1. v[x] = TideOf(m[x], D, day)
    BY <1>1
  <2> HIDE DEF v, w, T, m
  <2> QED
    BY <1>4, <1>7, <2>1
<1>8. TideOf(S, D, day) = SetSum(w, S)
    BY <1>4
<1> HIDE DEF T, v, w, m
<1>9. SetSum(v, T) = SetSum(w, S)
  <2>1. \A s \in S : w[s] \in Int
    BY <1>3
  <2>2. \A s \in S : Sector[s] \in T
    BY <1>6
  <2> QED
    BY <1>2, <1>6, <1>7, <1>10, <2>1, <2>2, SetSumClasses
<1> QED
    BY <1>1, <1>5, <1>8, <1>9 DEF T

FlowOf(s, D) == SetSum(NetForeign(s, D), WindowNets(s, D))
WindowDays(D) == UNION {Windowed(s, D) : s \in Known(D)}

LEMMA WindowFinite == ASSUME NEW D PROVE IsFiniteSet(WindowDays(D))
<1>1. \A q : Windowed(q, D) \in SUBSET Days
    BY SeenFinite DEF Windowed
<1>2. IsFiniteSet(Days)
    BY PointInTimeAssumption, FS_Interval DEF Days
<1>3. WindowDays(D) \in SUBSET Days
    BY <1>1 DEF WindowDays
<1> QED
    BY <1>2, <1>3, FS_Subset

(* A name with a net has one in its window: the window ends with the last.  *)
LEMMA WindowOpens ==
    ASSUME NEW D, NEW s \in Known(D)
    PROVE  /\ WindowNets(s, D) = DOMAIN NetForeign(s, D) \cap WindowDays(D)
           /\ IsFiniteSet(WindowNets(s, D)) /\ IsFiniteSet(WindowDays(D))
<1> DEFINE from == Max(UNION {Seen(q, D) : q \in Symbols}) - SECTOR_WINDOW_DAYS
<1>1. \A q : Windowed(q, D) = {d \in Seen(q, D) : d >= from}
    BY DEF Windowed
<1>2. DOMAIN NetForeign(s, D) \in SUBSET Seen(s, D)
    BY DEF NetForeign
<1> HIDE DEF from
<1>3. WindowNets(s, D) = DOMAIN NetForeign(s, D) \cap WindowDays(D)
    BY <1>1, <1>2 DEF WindowNets, WindowDays
<1> QED
    BY <1>3, WindowFinite, FS_Subset

LEMMA FlowsTyped ==
    ASSUME PitInv, NEW D, NEW s \in Known(D)
    PROVE  /\ FlowOf(s, D) \in Int /\ (WindowNets(s, D) = {} => FlowOf(s, D) = 0)
           /\ SymbolStats(s, D).flow = IF WindowNets(s, D) = {} THEN Absent ELSE FlowOf(s, D)
           /\ SymbolStats(s, D).flow = Absent <=> WindowNets(s, D) = {}
<1>1. \A d \in WindowNets(s, D) : NetForeign(s, D)[d] \in Int
    BY KnownFinite, NetsAreInts DEF WindowNets
<1>2. FlowOf(s, D) \in Int
  <2> SUFFICES ASSUME NEW N, N = NetForeign(s, D), NEW W, W = WindowNets(s, D) PROVE SetSum(N, W) \in Int
    BY DEF FlowOf
  <2> QED
    BY <1>1, WindowOpens, SetSumInt
<1>3. WindowNets(s, D) = {} => FlowOf(s, D) = 0
    BY SetSumEmpty DEF FlowOf
<1>4. SymbolStats(s, D).flow = IF WindowNets(s, D) = {} THEN Absent ELSE FlowOf(s, D)
    BY SumOverIs DEF SymbolStats, FlowOf
<1> QED
    BY <1>2, <1>3, <1>4, ConfigAssumption

(* The rows of the rotation map, and whose flow each of them counts.        *)
FlowNames(D) == {s \in Known(D) : WindowNets(s, D) # {}}
OnMap(D) == {s \in Known(D) : SymbolStats(s, D).return # Absent} \cup FlowNames(D)
RowOf(x, on) == {s \in on : Sector[s] = x}
FlowBy(S, D) == SumBy(LAMBDA s : SymbolStats(s, D).flow, S)

(* The map has a row for the sector of each name on it, and no other.       *)
LEMMA MapRows ==
    ASSUME PitInv, NEW D, NEW on, on = OnMap(D), NEW fl, fl = FlowNames(D), NEW T, T = DOMAIN Rotation(D)
    PROVE  /\ T = {Sector[s] : s \in on}
           /\ \A x \in T : Rotation(D)[x].members = RowOf(x, on)
           /\ \A x \in T : Rotation(D)[x].flow = IF RowOf(x, on) \cap fl = {} THEN Absent
                                               ELSE FlowBy(RowOf(x, on) \cap fl, D)
<1> DEFINE stats == [s \in Known(D) |-> SymbolStats(s, D)]
           priced == {s \in DOMAIN stats : stats[s].return # Absent}
           flowing == {s \in DOMAIN stats : stats[s].flow # Absent}
           flow(S) == SumBy(LAMBDA s : stats[s].flow, S \intersect flowing)
           mean(S) == SumBy(LAMBDA s : stats[s].return, S) \div Cardinality(S)
           rs(S) == mean(S \intersect priced) - mean(priced)
           row(S) == [members |-> S,
              relative_strength |-> IF S \intersect priced = {} THEN Absent ELSE rs(S),
              flow |-> IF S \intersect flowing = {} THEN Absent ELSE flow(S),
              quadrant |-> IF {} \in {S \intersect priced, S \intersect flowing}
                           THEN Absent ELSE Quadrant(rs(S), flow(S))]
           of(x) == {s \in priced \union flowing : Sector[s] = x}
<1>1. Rotation(D) = [x \in {Sector[s] : s \in priced \union flowing} |-> row(of(x))]
    BY DEF Rotation, SectorRotation
<1>2. flowing = FlowNames(D) /\ priced \cup flowing = OnMap(D)
  <2>1. \A s \in Known(D) : stats[s].flow = Absent <=> WindowNets(s, D) = {}
    BY FlowsTyped
  <2> QED
    BY <2>1 DEF FlowNames, OnMap
<1>3. \A S : flow(S) = FlowBy(S \cap flowing, D)
  <2> SUFFICES ASSUME NEW S PROVE flow(S) = FlowBy(S \cap flowing, D)
    OBVIOUS
  <2>1. [s \in S \cap flowing |-> stats[s].flow] = [s \in S \cap flowing |-> SymbolStats(s, D).flow]
    OBVIOUS
  <2>2. flow(S) = SumOver([s \in S \cap flowing |-> stats[s].flow], S \cap flowing)
    BY DEF SumBy
  <2>3. FlowBy(S \cap flowing, D) = SumOver([s \in S \cap flowing |-> SymbolStats(s, D).flow], S \cap flowing)
    BY DEF FlowBy, SumBy
  <2> HIDE DEF flow, flowing, stats
  <2> QED
    BY <2>1, <2>2, <2>3
<1>4. \A S : row(S).members = S /\ row(S).flow = IF S \cap flowing = {} THEN Absent ELSE flow(S)
    OBVIOUS
<1>5. T = {Sector[s] : s \in on}
    BY <1>1, <1>2
<1>6. ASSUME NEW x \in T, NEW S, S = {s \in on : Sector[s] = x}
      PROVE  /\ Rotation(D)[x].members = S
             /\ Rotation(D)[x].flow = IF S \cap fl = {} THEN Absent ELSE FlowBy(S \cap fl, D)
  <2>1. of(x) = S
    BY <1>2, <1>6
  <2>2. Rotation(D)[x] = row(of(x))
    BY <1>1, <1>6
  <2> HIDE DEF row, flow, flowing, priced, of
  <2> QED
    BY <1>2, <1>3, <1>4, <2>1, <2>2
<1>7. ASSUME NEW x \in T
      PROVE  /\ Rotation(D)[x].members = RowOf(x, on)
             /\ Rotation(D)[x].flow = IF RowOf(x, on) \cap fl = {} THEN Absent
                                      ELSE FlowBy(RowOf(x, on) \cap fl, D)
    BY <1>6, <1>7 DEF RowOf
<1> QED
    BY <1>5, <1>7

(* The flows of the map's rows are those of the names, each counted once.   *)
LEMMA MapFlows ==
    ASSUME PitInv, NEW D, NEW F, F = [s \in Known(D) |-> FlowOf(s, D)]
    PROVE  SumBy(LAMBDA x : IF Rotation(D)[x].flow = Absent THEN 0 ELSE Rotation(D)[x].flow, DOMAIN Rotation(D))
             = SetSum(F, Known(D))
<1> SUFFICES ASSUME NEW T, T = DOMAIN Rotation(D), NEW fl, fl = FlowNames(D), NEW on, on = OnMap(D)
             PROVE  SumBy(LAMBDA x : IF Rotation(D)[x].flow = Absent THEN 0 ELSE Rotation(D)[x].flow, T)
                      = SetSum(F, Known(D))
    OBVIOUS
<1> DEFINE v == [x \in T |-> IF Rotation(D)[x].flow = Absent THEN 0 ELSE Rotation(D)[x].flow]
           m == [x \in T |-> {s \in fl : Sector[s] = x}]
<1>1. SumBy(LAMBDA x : IF Rotation(D)[x].flow = Absent THEN 0 ELSE Rotation(D)[x].flow, T) = SetSum(v, T)
    BY SumOverIs DEF SumBy
<1>2. /\ Known(D) \in SUBSET Symbols /\ IsFiniteSet(Known(D)) /\ fl \in SUBSET Known(D) /\ fl \in SUBSET on
      /\ on \in SUBSET Known(D)
    BY KnownFinite DEF FlowNames, OnMap
<1>3. IsFiniteSet(fl) /\ IsFiniteSet(on)
    BY <1>2, FS_Subset
<1>4. \A s \in Known(D) : F[s] = FlowOf(s, D) /\ F[s] \in Int
    BY FlowsTyped
<1>5. ASSUME NEW S \in SUBSET fl PROVE FlowBy(S, D) = SetSum(F, S)
  <2> DEFINE u == [s \in S |-> SymbolStats(s, D).flow]
  <2>1. FlowBy(S, D) = SetSum(u, S)
    BY SumOverIs DEF FlowBy, SumBy
  <2>2. \A s \in S : u[s] = F[s]
    BY <1>2, FlowsTyped DEF FlowNames
  <2>3. IsFiniteSet(S)
    BY <1>3, FS_Subset
  <2> HIDE DEF u
  <2> QED
    BY <2>1, <2>2, <2>3, SumStands
<1>6. /\ T = {Sector[s] : s \in on}
      /\ \A x \in T : Rotation(D)[x].flow = IF RowOf(x, on) \cap fl = {} THEN Absent
                                            ELSE FlowBy(RowOf(x, on) \cap fl, D)
  <2>1. T = {Sector[s] : s \in on}
    BY MapRows
  <2>2. ASSUME NEW x \in T
        PROVE  Rotation(D)[x].flow = IF RowOf(x, on) \cap fl = {} THEN Absent
                                     ELSE FlowBy(RowOf(x, on) \cap fl, D)
    BY <2>2, MapRows, SMTT(30)
  <2> QED
    BY <2>1, <2>2
<1>7. \A x \in T : m[x] = {s \in fl : Sector[s] = x} /\ m[x] \in SUBSET fl
    OBVIOUS
<1>8. ASSUME NEW x \in T PROVE v[x] = SetSum(F, m[x])
  <2>1. RowOf(x, on) \cap fl = m[x]
    BY <1>2, <1>8 DEF RowOf
  <2>2. Rotation(D)[x].flow = IF m[x] = {} THEN Absent ELSE FlowBy(m[x], D)
    BY <1>6, <1>8, <2>1
  <2>3. FlowBy(m[x], D) = SetSum(F, m[x])
    BY <1>5, <1>7, <1>8
  <2>4. SetSum(F, m[x]) \in Int
  <3> HIDE DEF m
  <3>1. IsFiniteSet(m[x]) /\ \A s \in m[x] : F[s] \in Int
      BY <1>2, <1>3, <1>4, <1>7, <1>8, FS_Subset
    <3> QED
      BY <3>1, SetSumInt
  <2>5. SetSum(F, {}) = 0
    BY SetSumEmpty
  <2>6. v[x] = IF Rotation(D)[x].flow = Absent THEN 0 ELSE Rotation(D)[x].flow
    BY <1>8
  <2> HIDE DEF v, m
  <2> QED
    BY <2>2, <2>3, <2>4, <2>5, <2>6, ConfigAssumption
<1>9. IsFiniteSet(T) /\ \A s \in fl : Sector[s] \in T
  <2> DEFINE f == [s \in on |-> Sector[s]]
  <2>1. f \in Surjection(on, T)
    BY <1>6 DEF Surjection
  <2> HIDE DEF f
  <2>2. IsFiniteSet(T)
    BY <1>3, <2>1, FS_Surjection
  <2> QED
    BY <1>2, <1>6, <2>2
<1> HIDE DEF v, m
<1>10. SetSum(v, T) = SetSum(F, fl)
  <2>1. \A s \in fl : F[s] \in Int
    BY <1>2, <1>4
  <2>2. \A s \in fl : Sector[s] \in T
    BY <1>9
  <2> QED
    BY <1>3, <1>7, <1>8, <1>9, <2>1, <2>2, SetSumClasses
<1>11. SetSum(F, Known(D)) = SetSum(F, fl)
  <2>1. \A s \in Known(D) \ fl : F[s] = 0
    BY <1>4, FlowsTyped DEF FlowNames
  <2>2. \A s \in Known(D) : F[s] \in Int
    BY <1>4
  <2> SUFFICES ASSUME NEW K, K = Known(D) PROVE SetSum(F, K) = SetSum(F, fl)
    OBVIOUS
  <2> QED
    BY <1>2, <2>1, <2>2, SetSumZeros
<1> QED
    BY <1>1, <1>10, <1>11

(* Counted by name or by day, the window's flow is the same.                *)
LEMMA DayFlows ==
    ASSUME PitInv, NEW D, NEW K, K = Known(D), NEW W, NEW g,
           \A s \in K, e \in W : g[s][e] = IF e \in DOMAIN NetForeign(s, D) THEN NetForeign(s, D)[e] ELSE 0,
           NEW d \in W, NEW S, S = {s \in K : d \in DOMAIN NetForeign(s, D)}
    PROVE  SetSum([s \in K |-> g[s][d]], K) = TideOf(S, D, d)
<1> DEFINE c == [s \in K |-> g[s][d]]
           u == [s \in S |-> NetForeign(s, D)[d]]
<1>1. K \in SUBSET Symbols /\ IsFiniteSet(K) /\ S \in SUBSET K /\ IsFiniteSet(S)
    BY KnownFinite, ServedFinite
<1>2. TideOf(S, D, d) = SetSum(u, S)
    BY SumOverIs DEF TideOf, SumBy
<1>3. ASSUME NEW s \in K PROVE c[s] = IF s \in S THEN NetForeign(s, D)[d] ELSE 0
    OBVIOUS
<1>4. \A s \in S : NetForeign(s, D)[d] \in Int
    BY <1>1, NetsAreInts
<1>5. /\ \A s \in K : c[s] \in Int
      /\ \A s \in K \ S : c[s] = 0
      /\ \A s \in S : c[s] = u[s]
    BY <1>1, <1>3, <1>4
<1> HIDE DEF c, u
<1>6. SetSum(c, K) = SetSum(c, S)
    BY <1>1, <1>5, SetSumZeros
<1>7. SetSum(c, S) = SetSum(u, S)
    BY <1>1, <1>5, SumStands
<1> QED
    BY <1>2, <1>6, <1>7 DEF c

(* A name's flow is the sum of its nets on the days of the window.          *)
LEMMA NameFlows ==
    ASSUME PitInv, NEW D, NEW s \in Known(D), NEW W, W = WindowDays(D),
           NEW h, h = [d \in W |-> IF d \in DOMAIN NetForeign(s, D) THEN NetForeign(s, D)[d] ELSE 0]
    PROVE  SetSum(h, W) = FlowOf(s, D) /\ \A d \in W : h[d] \in Int
<1> SUFFICES ASSUME NEW N, N = NetForeign(s, D), NEW T, T = WindowNets(s, D)
             PROVE  SetSum(h, W) = SetSum(N, T) /\ \A d \in W : h[d] \in Int
    BY DEF FlowOf
<1>1. T = DOMAIN N \cap W /\ IsFiniteSet(T) /\ IsFiniteSet(W)
    BY WindowOpens
<1>2. \A d \in DOMAIN N : N[d] \in Int
    BY KnownFinite, NetsAreInts
<1>3. /\ \A d \in W : h[d] \in Int
      /\ \A d \in W \ T : h[d] = 0
      /\ \A d \in T : h[d] = N[d]
    BY <1>1, <1>2
<1>4. SetSum(h, W) = SetSum(h, T)
    BY <1>1, <1>3, SetSumZeros
<1>5. SetSum(h, T) = SetSum(N, T)
    BY <1>1, <1>3, SumStands
<1> QED
    BY <1>3, <1>4, <1>5

MarketFlow(S, D) == SumBy(LAMBDA d : MarketTide(D, d)["MARKET"].net, S)
(* What the names took in is what the market took in: the rows of a table   *)
(* and its columns have one sum.                                            *)
LEMMA FlowsMeet ==
    ASSUME PitInv, NEW D, NEW F, \A s \in Known(D) : F[s] = FlowOf(s, D),
           NEW tides, tides = {d \in WindowDays(D) : "MARKET" \in DOMAIN MarketTide(D, d)}
    PROVE  SetSum(F, Known(D)) = MarketFlow(tides, D)
<1> SUFFICES ASSUME NEW K, K = Known(D), NEW W, W = WindowDays(D)
             PROVE  SetSum(F, K) = MarketFlow(tides, D)
    OBVIOUS
<1> DEFINE g == [s \in K |-> [d \in W |-> IF d \in DOMAIN NetForeign(s, D) THEN NetForeign(s, D)[d] ELSE 0]]
           row == [s \in K |-> SetSum(g[s], W)]
           cell(d) == [s \in K |-> g[s][d]]
           col == [d \in W |-> SetSum([s \in K |-> g[s][d]], K)]
           v == [d \in tides |-> MarketTide(D, d)["MARKET"].net]
<1>1. IsFiniteSet(K) /\ IsFiniteSet(W) /\ tides \in SUBSET W /\ IsFiniteSet(tides)
  <2>1. IsFiniteSet(K) /\ IsFiniteSet(W) /\ tides \in SUBSET W
    BY KnownFinite, WindowFinite
  <2> QED
    BY <2>1, FS_Subset
<1>2. ASSUME NEW s \in K PROVE SetSum(g[s], W) = F[s] /\ \A d \in W : g[s][d] \in Int
  <2> DEFINE h == [d \in W |-> IF d \in DOMAIN NetForeign(s, D) THEN NetForeign(s, D)[d] ELSE 0]
  <2>1. g[s] = h
    OBVIOUS
  <2>2. ASSUME NEW i, i = h PROVE SetSum(i, W) = FlowOf(s, D) /\ \A d \in W : i[d] \in Int
    BY <2>2, NameFlows
  <2> QED
    BY <2>1, <2>2
<1>3. SetSum(F, K) = SetSum(row, K)
  <2>1. \A s \in K : F[s] = row[s]
    BY <1>2
  <2> HIDE DEF row
  <2> QED
    BY <1>1, <2>1, SumStands
<1>4. \A s \in K, d \in W : g[s][d] \in Int
    BY <1>2
<1>5. SetSum(row, K) = SetSum(col, W)
  <2> DEFINE h == [d \in W |-> cell(d)]
  <2>1. Turned(g, h, K, W)
    BY <1>4 DEF Turned
  <2>2. RowSums(row, g, K, W)
    BY DEF RowSums
  <2>3. RowSums(col, h, W, K)
    BY DEF RowSums
  <2> HIDE DEF g, h, row, col
  <2> QED
    BY <1>1, <2>1, <2>2, <2>3, SetSumSwap
<1>6. ASSUME NEW d \in W
      PROVE  /\ col[d] \in Int
             /\ d \in tides => col[d] = v[d]
             /\ d \notin tides => col[d] = 0
  <2> SUFFICES ASSUME NEW S, S = {s \in Known(D) : d \in DOMAIN NetForeign(s, D)}
               PROVE  /\ col[d] \in Int
                      /\ d \in tides => col[d] = v[d]
                      /\ d \notin tides => col[d] = 0
    OBVIOUS
  <2>1. col[d] = SetSum(cell(d), K)
    OBVIOUS
  <2>2. SetSum(cell(d), K) = TideOf(S, D, d)
    <3>1. \A s \in K, e \in W : g[s][e] = IF e \in DOMAIN NetForeign(s, D) THEN NetForeign(s, D)[e] ELSE 0
      OBVIOUS
    <3>2. S = {s \in K : d \in DOMAIN NetForeign(s, D)}
      OBVIOUS
    <3> HIDE DEF g
    <3> QED
      BY <1>6, <3>1, <3>2, DayFlows
  <2>3. \A s \in K : cell(d)[s] \in Int
    BY <1>4, <1>6
  <2>4. SetSum(cell(d), K) \in Int
    <3> HIDE DEF cell
    <3> QED
      BY <1>1, <2>3, SetSumInt
  <2>5. d \in tides => v[d] = TideOf(S, D, d)
    BY TideRows
  <2>6. d \notin tides => S = {}
    BY <1>6, TideRows
  <2>7. TideOf({}, D, d) = 0
    BY SetSumEmpty, SumOverIs DEF TideOf, SumBy
  <2> HIDE DEF col, v, cell
  <2> QED
    BY <2>1, <2>2, <2>4, <2>5, <2>6, <2>7
<1>7. SetSum(col, W) = SetSum(col, tides)
  <2>1. \A d \in W \ tides : col[d] = 0
    BY <1>6
  <2>2. \A d \in W : col[d] \in Int
    BY <1>6
  <2> HIDE DEF col
  <2> QED
    BY <1>1, <2>1, <2>2, SetSumZeros
<1>8. SetSum(col, tides) = SetSum(v, tides)
  <2>1. \A d \in tides : col[d] = v[d]
    BY <1>1, <1>6
  <2> HIDE DEF col, v
  <2> QED
    BY <1>1, <2>1, SumStands
<1>9. MarketFlow(tides, D) = SetSum(v, tides)
    BY SumOverIs DEF MarketFlow, SumBy
<1> HIDE DEF row, col, v
<1> QED
    BY <1>3, <1>5, <1>7, <1>8, <1>9

(* The map, the tides and the heatmap of a morning agree.                   *)
LEMMA ViewsMeet == PitInv => ViewsAgree
<1> SUFFICES ASSUME PitInv, NEW D, Known(D) # {}
             PROVE  LET rotation == Rotation(D)
                        window == UNION {Windowed(s, D) : s \in Known(D)}
                        tides == {d \in window : "MARKET" \in DOMAIN MarketTide(D, d)}
                    IN /\ SumBy(LAMBDA x : IF rotation[x].flow = Absent THEN 0 ELSE rotation[x].flow, DOMAIN rotation)
                            = SumBy(LAMBDA d : MarketTide(D, d)["MARKET"].net, tides)
                       /\ \A d \in tides : \A tide \in {MarketTide(D, d)} :
                             tide["MARKET"].net = SumBy(LAMBDA x : tide[x].net, DOMAIN tide \ {"MARKET"})
                       /\ \A s \in Known(D) \ UNION {rotation[x].members : x \in DOMAIN rotation} :
                             s \in DOMAIN Heatmap(D) => Heatmap(D)[s].foreign = Absent \/ WindowNets(s, D) = {}
    BY DEF ViewsAgree
<1>1. SumBy(LAMBDA x : IF Rotation(D)[x].flow = Absent THEN 0 ELSE Rotation(D)[x].flow, DOMAIN Rotation(D))
        = SumBy(LAMBDA d : MarketTide(D, d)["MARKET"].net,
                {d \in UNION {Windowed(s, D) : s \in Known(D)} : "MARKET" \in DOMAIN MarketTide(D, d)})
  <2> DEFINE F == [s \in Known(D) |-> FlowOf(s, D)]
             tides == {d \in UNION {Windowed(s, D) : s \in Known(D)} : "MARKET" \in DOMAIN MarketTide(D, d)}
  <2>1. SumBy(LAMBDA x : IF Rotation(D)[x].flow = Absent THEN 0 ELSE Rotation(D)[x].flow, DOMAIN Rotation(D))
          = SetSum(F, Known(D))
    BY MapFlows
  <2>2. tides = {d \in WindowDays(D) : "MARKET" \in DOMAIN MarketTide(D, d)}
    BY DEF WindowDays
  <2> HIDE DEF tides
  <2>3. ASSUME NEW f, f = F PROVE SetSum(f, Known(D)) = MarketFlow(tides, D)
    BY <2>2, <2>3, FlowsMeet
  <2> QED
    BY <2>1, <2>3 DEF tides, MarketFlow
<1>2. ASSUME NEW d, NEW tide \in {MarketTide(D, d)}, "MARKET" \in DOMAIN MarketTide(D, d)
      PROVE  tide["MARKET"].net = SumBy(LAMBDA x : tide[x].net, DOMAIN tide \ {"MARKET"})
    BY <1>2, TidesAdd
<1>3. ASSUME NEW s \in Known(D) \ UNION {Rotation(D)[x].members : x \in DOMAIN Rotation(D)}
      PROVE  WindowNets(s, D) = {}
  <2> SUFFICES ASSUME NEW on, on = OnMap(D), NEW fl, fl = FlowNames(D), NEW T, T = DOMAIN Rotation(D)
               PROVE  WindowNets(s, D) = {}
    OBVIOUS
  <2>1. T = {Sector[q] : q \in on}
    BY MapRows
  <2>2. \A x \in T : Rotation(D)[x].members = RowOf(x, on)
    BY MapRows
  <2>4. s \notin on
    BY <1>3, <2>1, <2>2 DEF RowOf
  <2> QED
    BY <1>3, <2>4 DEF OnMap, FlowNames
<1> QED
    BY <1>1, <1>2, <1>3

-----------------------------------------------------------------------------
(* Value at risk: the nearest rank covers the tail and no more              *)

LEMMA MaxOfZero == ASSUME NEW x \in Int PROVE Max({0, x}) \in {0, x} /\ Max({0, x}) >= 0 /\ Max({0, x}) >= x
<1>1. {0, x} \in SUBSET Int /\ {0, x} # {} /\ \A y \in {0, x} : y <= (IF x >= 0 THEN x ELSE 0)
    OBVIOUS
<1>2. (IF x >= 0 THEN x ELSE 0) \in Int
    OBVIOUS
<1>3. Max({0, x}) \in {0, x} /\ \A y \in {0, x} : y <= Max({0, x})
    BY <1>1, <1>2, MaxOfBounded
<1> QED
    BY <1>3

(* The rank is the ceiling of the tail: it covers the tail and no more, and *)
(* there are as many days.                                                  *)
RankOfTail(k) == Max({1, (k + 999) \div 1000})
LEMMA RankCovers ==
    ASSUME NEW n \in Nat, NEW k \in Nat, 1 <= k, k <= 1000 * n
    PROVE  RankOfTail(k) \in Nat /\ 1 <= RankOfTail(k) /\ RankOfTail(k) <= n /\ 1000 * RankOfTail(k) <= k + 999
<1> DEFINE r == (k + 999) \div 1000
<1>1. r \in Int /\ 1000 * r <= k + 999 /\ k + 999 < 1000 * r + 1000
    OBVIOUS
<1> HIDE DEF r
<1>2. 1 <= r /\ r <= n
    BY <1>1
<1>3. {1, r} \in SUBSET Int /\ {1, r} # {} /\ \A y \in {1, r} : y <= r
    BY <1>1, <1>2
<1>4. Max({1, r}) \in {1, r} /\ \A y \in {1, r} : y <= Max({1, r})
    BY <1>1, <1>3, MaxOfBounded
<1>5. Max({1, r}) = r
    BY <1>1, <1>2, <1>4
<1> QED
    BY <1>1, <1>2, <1>5 DEF r, RankOfTail

UpTo(returns, v) == {d \in DOMAIN returns : returns[d] <= v}

(* The percentile is a return, no more than the rank's share of the days    *)
(* lie at or below it, and fewer days than the rank lie below.              *)
LEMMA PercentileRanks ==
    ASSUME NEW returns, IsFiniteSet(DOMAIN returns), \A d \in DOMAIN returns : returns[d] \in Int,
           NEW tail, NEW k \in Nat, k = tail * Cardinality(DOMAIN returns),
           1 <= k, k <= 1000 * Cardinality(DOMAIN returns),
           NEW p, p = Percentile(returns, tail)
    PROVE  /\ \E d \in DOMAIN returns : returns[d] = p
           /\ 1000 * Cardinality({d \in DOMAIN returns : returns[d] < p}) <= k
<1> SUFFICES ASSUME NEW Ds, Ds = DOMAIN returns, NEW n \in Nat, n = Cardinality(Ds),
                    NEW r, r = RankOfTail(k)
             PROVE  /\ \E d \in Ds : returns[d] = p
                    /\ 1000 * Cardinality({d \in Ds : returns[d] < p}) <= k
    BY FS_CardinalityType
<1> DEFINE V == {returns[d] : d \in Ds}
           Q == {v \in V : Cardinality(UpTo(returns, v)) >= r}
           L == {d \in Ds : returns[d] < p}
<1>1. r \in Nat /\ 1 <= r /\ r <= n /\ 1000 * r <= k + 999
    BY RankCovers
<1>2. p = Min(Q)
    BY DEF Percentile, RankOfTail, UpTo, Range
<1>3. V \in SUBSET Int /\ IsFiniteSet(V)
  <2> DEFINE f == [d \in Ds |-> returns[d]]
  <2>1. f \in Surjection(Ds, V)
    BY DEF Surjection
  <2>2. V \in SUBSET Int
    OBVIOUS
  <2> HIDE DEF f, V
  <2> QED
    BY <2>1, <2>2, FS_Surjection
<1>4. \A v : UpTo(returns, v) \in SUBSET Ds /\ Cardinality(UpTo(returns, v)) \in Nat
  <2>1. \A v : UpTo(returns, v) \in SUBSET Ds
    BY DEF UpTo
  <2> QED
    BY <2>1, FS_Subset, FS_CardinalityType
<1>5. Ds # {}
  <2>1. Cardinality({}) = 0
    BY FS_EmptySet
  <2> QED
    BY <1>1, <2>1
<1>6. Q # {}
  <2>1. V # {}
    BY <1>5
  <2>2. Max(V) \in V /\ \A v \in V : v <= Max(V)
    <3> HIDE DEF V
    <3> QED
      BY <1>3, <2>1, FiniteEdges
  <2>3. UpTo(returns, Max(V)) = Ds
    <3>1. \A d \in Ds : returns[d] \in V
      OBVIOUS
    <3>2. \A d \in Ds : returns[d] <= Max(V)
      <4> HIDE DEF V
      <4> QED
        BY <2>2, <3>1
    <3> HIDE DEF V
    <3> QED
      BY <3>2 DEF UpTo
  <2> QED
    BY <1>1, <2>2, <2>3
<1>7. p \in Q /\ \A v \in Q : p <= v
  <2>1. Q \in SUBSET Int /\ IsFiniteSet(Q)
    <3> HIDE DEF V
    <3> QED
      BY <1>3, FS_Subset
  <2> HIDE DEF Q
  <2> QED
    BY <1>2, <1>6, <2>1, FiniteEdges
<1>8. 1000 * Cardinality(L) <= k
  <2>1. IsFiniteSet(L) /\ L \in SUBSET Ds
    BY FS_Subset
  <2>2. CASE L = {}
    <3>1. Cardinality(L) = 0
      BY <2>2, FS_EmptySet
    <3> HIDE DEF L
    <3> QED
      BY <3>1
  <2>3. CASE L # {}
    <3> DEFINE W == {returns[d] : d \in L}
    <3>1. W \in SUBSET V /\ W # {}
      BY <2>3
    <3>2. Max(W) \in W /\ \A v \in W : v <= Max(W)
      <4>1. W \in SUBSET Int /\ IsFiniteSet(W)
        <5> HIDE DEF W, V
        <5> QED
          BY <1>3, <3>1, FS_Subset
      <4> HIDE DEF W
      <4> QED
        BY <3>1, <4>1, FiniteEdges
    <3>3. PICK m \in W : m = Max(W)
      BY <3>2
    <3>4. m \in V /\ m \in Int /\ m < p /\ p \in Int
      BY <1>3, <1>7, <3>1
    <3>5. m \notin Q
      BY <1>3, <1>7, <3>4
    <3>6. Cardinality(UpTo(returns, m)) < r
      BY <1>1, <1>4, <3>4, <3>5
    <3>7. L \in SUBSET UpTo(returns, m)
      BY <3>2, <3>3 DEF UpTo
    <3>8. IsFiniteSet(UpTo(returns, m))
      BY <1>4, FS_Subset
    <3>9. Cardinality(L) <= Cardinality(UpTo(returns, m)) /\ Cardinality(L) \in Nat
      <4> HIDE DEF L
      <4> QED
        BY <2>1, <3>7, <3>8, FS_Subset, FS_CardinalityType
    <3> HIDE DEF L, W, V, Q
    <3> QED
      BY <1>1, <1>4, <3>6, <3>9
  <2> QED
    BY <2>2, <2>3
<1> QED
    BY <1>7, <1>8

(* A tail of the days, at most, loses more; and a loss shown is a day's.    *)
LEMMA ValueAtRisk ==
    ASSUME NEW returns, IsFiniteSet(DOMAIN returns), \A d \in DOMAIN returns : returns[d] \in Int,
           NEW v, v = VarHistorical(returns), v # Absent
    PROVE  /\ 1000 * Cardinality({d \in DOMAIN returns : -returns[d] > v})
                <= (1000 - VAR_CONFIDENCE) * Cardinality(DOMAIN returns)
           /\ v # 0 => \E d \in DOMAIN returns : -returns[d] = v
<1> SUFFICES ASSUME NEW Ds, Ds = DOMAIN returns, NEW n \in Nat, n = Cardinality(Ds),
                    NEW tail, tail = 1000 - VAR_CONFIDENCE, NEW p, p = Percentile(returns, tail)
             PROVE  /\ 1000 * Cardinality({d \in Ds : -returns[d] > v}) <= tail * n
                    /\ v # 0 => \E d \in Ds : -returns[d] = v
    BY FS_CardinalityType
<1>1. n >= 2 /\ v = Max({0, -p})
    BY DEF VarHistorical
<1>2. tail \in Nat /\ 1 <= tail /\ tail <= 1000
    BY ViewsAssumption
<1>3. PICK k \in Nat : k = tail * n /\ 1 <= k /\ k <= 1000 * n
  <2>1. tail * n \in Nat /\ n <= tail * n /\ tail * n <= 1000 * n
    BY <1>2
  <2> QED
    BY <1>1, <2>1
<1>4. /\ \E d \in Ds : returns[d] = p
      /\ 1000 * Cardinality({d \in Ds : returns[d] < p}) <= k
    BY <1>3, PercentileRanks
<1>5. p \in Int
    BY <1>4
<1>6. v \in {0, -p} /\ v >= 0 /\ v >= -p
    BY <1>1, <1>5, MaxOfZero
<1>7. 1000 * Cardinality({d \in Ds : -returns[d] > v}) <= k
  <2> DEFINE A == {d \in Ds : -returns[d] > v}
             B == {d \in Ds : returns[d] < p}
  <2>1. A \in SUBSET B
    BY <1>5, <1>6
  <2>2. IsFiniteSet(B)
    BY FS_Subset
  <2> HIDE DEF A, B
  <2>3. Cardinality(A) <= Cardinality(B) /\ Cardinality(A) \in Nat /\ Cardinality(B) \in Nat
    BY <2>1, <2>2, FS_Subset, FS_CardinalityType
  <2>4. 1000 * Cardinality(B) <= k
    BY <1>4 DEF B
  <2>5. 1000 * Cardinality(A) <= k
    BY <2>3, <2>4
  <2> QED
    BY <2>5 DEF A
<1> QED
    BY <1>3, <1>4, <1>6, <1>7

-----------------------------------------------------------------------------
(* The book and its sectors                                                 *)

LEMMA CloseTyped ==
    ASSUME PitInv, NEW s \in Symbols, NEW D, NEW S \in SUBSET Seen(s, D), NEW P,
           P = {d \in S : Close(s, d) \notin {Absent, 0}}, P # {}
    PROVE  Max(P) \in P /\ Close(s, Max(P)) \in Nat \ {0}
<1>1. \A d \in P : d \in Days /\ Close(s, d) \in Nat \ {0}
  <2> SUFFICES ASSUME NEW d \in P PROVE d \in Days /\ Close(s, d) \in Nat \ {0}
    OBVIOUS
  <2>1. d \in Days /\ bars[s][d] \in Quotes[s]
    BY DEF PitInv, PitTypeOK, Seen
  <2>2. bars[s][d].close \in Nat \cup {Absent}
    BY <2>1, PointInTimeAssumption
  <2> QED
    BY <2>1, <2>2 DEF Close
<1>2. P \in SUBSET Days
    BY <1>1
<1>3. Max(P) \in P
    BY <1>2, EdgeDays
<1> QED
    BY <1>1, <1>3

Marked(book) == IsFiniteSet(Held(book)) /\ \A s \in Held(book) : Worth(book.positions[s]) \in Nat

(* The preview book holds a finite number of names, each worth a number.    *)
LEMMA PreviewMarked ==
    ASSUME PitInv, NEW D, NEW book, book = PreviewBook(D)
    PROVE  Held(book) \in SUBSET Symbols /\ Marked(book)
<1> DEFINE priced(s) == {d \in Seen(s, D) : Close(s, d) \notin {Absent, 0}}
           names == {q \in Known(D) : priced(q) # {}}
           row(s) == [sector |-> Sector[s], qty |-> PREVIEW_QTY, last |-> Close(s, Max(priced(s))),
                      entry |-> Absent, board |-> "MAIN"]
<1>1. book = [positions |-> [s \in names |-> row(s)], cash |-> 0]
    BY DEF PreviewBook
<1>2. names \in SUBSET Symbols /\ IsFiniteSet(names)
  <2>1. names \in SUBSET Known(D)
    OBVIOUS
  <2> HIDE DEF names
  <2> QED
    BY <2>1, KnownFinite, FS_Subset
<1>3. ASSUME NEW s \in names PROVE Worth(row(s)) \in Nat
  <2> SUFFICES ASSUME NEW P, P = priced(s) PROVE PREVIEW_QTY * Close(s, Max(P)) \in Nat
    BY DEF Worth
  <2>1. Seen(s, D) \in SUBSET Seen(s, D) /\ s \in Symbols /\ P # {}
    BY <1>2
  <2>2. Close(s, Max(P)) \in Nat
    BY <2>1, CloseTyped
  <2> QED
    BY <2>2, ViewsAssumption
<1>4. Held(book) = names /\ \A s \in names : book.positions[s] = row(s)
  <2> HIDE DEF names, row
  <2>1. book.positions = [s \in names |-> row(s)]
    BY <1>1
  <2> QED
    BY <2>1 DEF Held
<1> HIDE DEF names, row
<1> QED
    BY <1>2, <1>3, <1>4 DEF Marked

LEMMA WorthTyped ==
    ASSUME NEW book, Marked(book), NEW w, w = [s \in Held(book) |-> Worth(book.positions[s])]
    PROVE  /\ \A s \in Held(book) : w[s] \in Int
           /\ \A S \in SUBSET Held(book) : WorthOf(book, S) = SetSum(w, S) /\ WorthOf(book, S) \in Nat
<1> SUFFICES ASSUME NEW S \in SUBSET Held(book) PROVE WorthOf(book, S) = SetSum(w, S) /\ SetSum(w, S) \in Nat
    BY DEF Marked
<1> DEFINE u == [s \in S |-> Worth(book.positions[s])]
<1>1. WorthOf(book, S) = SetSum(u, S)
    BY SumOverIs DEF WorthOf, SumBy
<1>2. IsFiniteSet(S) /\ \A s \in S : u[s] = w[s] /\ w[s] \in Nat
    BY FS_Subset DEF Marked
<1> HIDE DEF u
<1>3. SetSum(u, S) = SetSum(w, S)
    BY <1>2, SumStands
<1>4. SetSum(w, S) \in Nat
    BY <1>2, SetSumNat
<1> QED
    BY <1>1, <1>3, <1>4

(* The sectors of a book are worth what is invested.                        *)
LEMMA SectorsAdd ==
    ASSUME NEW book, Marked(book)
    PROVE  SumBy(LAMBDA x : SectorValues(book)[x], DOMAIN SectorValues(book)) = Invested(book)
<1> SUFFICES ASSUME NEW H, H = Held(book), NEW T, T = DOMAIN SectorValues(book)
             PROVE  SumBy(LAMBDA x : SectorValues(book)[x], T) = Invested(book)
    OBVIOUS
<1> DEFINE w == [s \in H |-> Worth(book.positions[s])]
           c == [s \in H |-> book.positions[s].sector]
           m == [x \in T |-> InSector(book, x)]
           v == [x \in T |-> SectorValues(book)[x]]
<1>1. /\ \A s \in H : w[s] \in Int
      /\ \A S \in SUBSET H : WorthOf(book, S) = SetSum(w, S)
    BY WorthTyped
<1>2. T = {c[s] : s \in H} /\ \A x \in T : SectorValues(book)[x] = WorthOf(book, InSector(book, x))
    BY DEF SectorValues
<1>3. IsFiniteSet(H)
    BY DEF Marked
<1>4. IsFiniteSet(T) /\ \A s \in H : c[s] \in T
  <2>1. c \in Surjection(H, T)
    BY <1>2 DEF Surjection
  <2>2. \A s \in H : c[s] \in T
    BY <1>2
  <2> HIDE DEF c
  <2> QED
    BY <1>3, <2>1, <2>2, FS_Surjection
<1>5. \A x \in T : m[x] = {s \in H : c[s] = x} /\ m[x] \in SUBSET H
    BY DEF InSector
<1>6. \A x \in T : v[x] = SetSum(w, m[x])
    BY <1>1, <1>2, <1>5
<1>7. SumBy(LAMBDA x : SectorValues(book)[x], T) = SetSum(v, T)
    BY SumOverIs DEF SumBy
<1>8. Invested(book) = SetSum(w, H)
    BY <1>1 DEF Invested
<1> HIDE DEF w, c, m, v
<1>9. SetSum(v, T) = SetSum(w, H)
    BY <1>1, <1>3, <1>4, <1>5, <1>6, SetSumClasses
<1> QED
    BY <1>7, <1>8, <1>9

-----------------------------------------------------------------------------
(* The book's returns: a whole number for each day that has one             *)

(* A return has a close before it, and none is divided by zero.             *)
LEMMA ReturnTyped ==
    ASSUME PitInv, NEW s \in Symbols, NEW D, NEW d \in ReturnDays(s, D)
    PROVE  d \in Days /\ DailyReturn(s, d).by \in Int
<1> SUFFICES ASSUME NEW S, S = Traded(s, Seen(s, D)), NEW Q, Q = Traded(s, Seen(s, d))
             PROVE  d \in Days /\ DailyReturn(s, d).by \in Int
    OBVIOUS
<1>1. S \in SUBSET Seen(s, D) /\ Q \in SUBSET Seen(s, d) /\ Seen(s, D) \in SUBSET Days
    BY SeenFinite DEF Traded
<1> DEFINE priced == {e \in S : Close(s, e) \notin {Absent, 0}}
           before == {e \in Q : e < d /\ Close(s, e) \notin {Absent, 0}}
<1>2. d \in priced /\ d \in Days
    BY <1>1 DEF ReturnDays
<1>3. PICK e \in priced : ~(d <= e)
    BY DEF ReturnDays
<1>4. e \in Days /\ e \in Nat /\ d \in Nat /\ e < d
    BY <1>1, <1>2, <1>3, DayTypes
<1>5. e \in before
    BY <1>3, <1>4 DEF Traded, Seen
<1>6. before = {x \in Q : Close(s, x) \notin {Absent, 0}}
  <2>1. \A x \in Q : x < d
    BY <1>1 DEF Seen
  <2> QED
    BY <2>1
<1>7. Before(s, d) = Close(s, Max(before))
    BY <1>5 DEF Before, PrevClose
<1> HIDE DEF before
<1>8. Before(s, d) \in Nat \ {0}
  <2> SUFFICES ASSUME NEW P, P = before PROVE Close(s, Max(P)) \in Nat \ {0}
    BY <1>7
  <2>1. P # {} /\ Q \in SUBSET Seen(s, d)
    BY <1>1, <1>5
  <2>2. P = {x \in Q : Close(s, x) \notin {Absent, 0}}
    BY <1>6
  <2> QED
    BY <2>1, <2>2, CloseTyped
<1>9. Close(s, d) \in Nat
  <2>1. d \in S /\ d \in Seen(s, D) /\ Close(s, d) # Absent
    BY <1>1, <1>2
  <2>2. bars[s][d] \in Quotes[s]
    BY <1>2, <2>1 DEF PitInv, PitTypeOK, Seen
  <2>3. bars[s][d].close \in Nat \cup {Absent}
    BY <2>2, PointInTimeAssumption
  <2> QED
    BY <2>1, <2>3 DEF Close
<1> DEFINE a == Close(s, d)
           b == Before(s, d)
<1>10. DailyReturn(s, d).by = (1000 * (a - b)) \div b
    BY DEF DailyReturn
<1> HIDE DEF a, b
<1> QED
    BY <1>2, <1>8, <1>9, <1>10 DEF a, b

LEMMA PortfolioTyped ==
    ASSUME PitInv, NEW D, NEW book, Held(book) \in SUBSET Symbols, Marked(book),
           NEW own, own = [s \in Held(book) |-> OwnReturns(s, D)],
           NEW returns, returns = PortfolioReturns(book, own)
    PROVE  IsFiniteSet(DOMAIN returns) /\ \A d \in DOMAIN returns : returns[d] \in Int
<1> SUFFICES ASSUME NEW H, H = Held(book)
             PROVE  IsFiniteSet(DOMAIN returns) /\ \A d \in DOMAIN returns : returns[d] \in Int
    OBVIOUS
<1>1. CASE Invested(book) <= 0
  <2>1. returns = <<>>
    BY <1>1 DEF PortfolioReturns
  <2>2. DOMAIN returns = {}
    BY <2>1
  <2> QED
    BY <2>2, FS_EmptySet
<1>2. CASE ~(Invested(book) <= 0)
  <2> DEFINE U == UNION {DOMAIN own[s] : s \in H}
             on(d) == {s \in H : d \in DOMAIN own[s]}
             part(d) == [s \in on(d) |-> WorthOf(book, {s}) * own[s][d]]
  <2>1. /\ \A s \in H : DOMAIN own[s] \in SUBSET Days
        /\ \A s \in H : \A d \in DOMAIN own[s] : own[s][d] \in Int
    BY ReturnTyped DEF OwnReturns
  <2>2. returns = [d \in U |-> SumBy(LAMBDA s : WorthOf(book, {s}) * own[s][d], on(d)) \div Invested(book)]
    BY <1>2 DEF PortfolioReturns
  <2>3. IsFiniteSet(U)
    <3>1. U \in SUBSET Days /\ IsFiniteSet(Days)
      BY <2>1, PointInTimeAssumption, FS_Interval DEF Days
    <3> HIDE DEF U
    <3> QED
      BY <3>1, FS_Subset
  <2>4. Invested(book) \in Nat /\ \A s \in H : WorthOf(book, {s}) \in Nat
    BY WorthTyped DEF Invested
  <2>5. ASSUME NEW d \in U PROVE SumBy(LAMBDA s : WorthOf(book, {s}) * own[s][d], on(d)) \in Int
    <3>1. SumBy(LAMBDA s : WorthOf(book, {s}) * own[s][d], on(d)) = SetSum(part(d), on(d))
      BY SumOverIs DEF SumBy
    <3>2. IsFiniteSet(on(d))
      BY FS_Subset DEF Marked
    <3>3. \A s \in on(d) : part(d)[s] \in Int
      BY <2>1, <2>4
    <3> HIDE DEF part, on, U
    <3> QED
      BY <3>1, <3>2, <3>3, SetSumInt
  <2>6. ASSUME NEW d \in U PROVE returns[d] \in Int
    <3> DEFINE i == SumBy(LAMBDA s : WorthOf(book, {s}) * own[s][d], on(d))
    <3>1. i \in Int /\ returns[d] = i \div Invested(book)
      BY <2>2, <2>5, <2>6
    <3> HIDE DEF i
    <3> QED
      BY <1>2, <2>4, <3>1
  <2>7. DOMAIN returns = U
    BY <2>2
  <2> HIDE DEF U, on
  <2> QED
    BY <2>3, <2>6, <2>7
<1> QED
    BY <1>1, <1>2

-----------------------------------------------------------------------------
(* Brokers' nets and the pairs of names they crowd                          *)

IsBook(book) ==
    IsFiniteSet(DOMAIN book) /\ \A b \in DOMAIN book : {book[b].buy, book[b].sell} \subseteq Nat \cup {Absent}

(* What a day's store holds of a broker's flow is a book the feed may bring.*)
LEMMA FlowsAreBooks ==
    ASSUME PitInv, NEW D \in 1..(MaxDay + 1), NEW s \in Symbols, NEW d \in FlowDays(StoreOf(s, D), D - 1)
    PROVE  d \in 1..(D - 1) /\ IsBook(StoreOf(s, D).flows[d].book)
<1> DEFINE summary == [e \in Days |->
                         IF bars[s][e] = Absent THEN Absent
                         ELSE IF bars[s][e].broker = Absent THEN Absent
                         ELSE [book |-> bars[s][e].broker, stamp |-> e]]
           kept == SubSeq(summary, 1, D - 1)
<1>0. D - 1 \in Nat /\ \A e \in 1..(D - 1) : e \in Days
    BY PointInTimeAssumption DEF Days
<1>1. StoreOf(s, D).flows = kept
    BY DEF StoreOf
<1>2. DOMAIN kept = 1..(D - 1) /\ \A e \in 1..(D - 1) : kept[e] = summary[e]
  <2> PICK n \in Nat : n = D - 1
    BY <1>0
  <2> DEFINE R == {summary[e] : e \in 1..n}
  <2> HIDE DEF summary
  <2>1. n \in Int /\ \A e \in 1..n : summary[e] \in R
    OBVIOUS
  <2> HIDE DEF R
  <2>2. SubSeq(summary, 1, n) \in Seq(R) /\ Len(SubSeq(summary, 1, n)) = n
        /\ \A i \in 1..(n - 1 + 1) : SubSeq(summary, 1, n)[i] = summary[1 + i - 1]
    BY <2>1, SubSeqProperties
  <2> QED
    BY <2>2
<1>3. d \in DOMAIN kept /\ kept[d] # Absent
    BY <1>1 DEF FlowDays
<1>4. d \in 1..(D - 1) /\ d \in Days /\ summary[d] # Absent /\ kept[d] = summary[d]
    BY <1>0, <1>2, <1>3
<1>5. bars[s][d] # Absent /\ bars[s][d].broker # Absent /\ summary[d] = [book |-> bars[s][d].broker, stamp |-> d]
    BY <1>4
<1>6. bars[s][d] \in Quotes[s]
    BY <1>4, <1>5 DEF PitInv, PitTypeOK
<1>7. IsBook(bars[s][d].broker)
    BY <1>5, <1>6, ViewsAssumption DEF IsBook
<1> QED
    BY <1>1, <1>4, <1>5, <1>7

(* What a broker bought or sold on the days of S, as a sum of SetLemmas.    *)
SideTotal(db, S, b, f) ==
    MapThenSumSet(LAMBDA d : IF b \in DOMAIN db.flows[d].book THEN Amount(db.flows[d].book[b][f]) ELSE 0, S)

IsSide(w, db, S, b, f) ==
    \A d \in S : w[d] = IF b \in DOMAIN db.flows[d].book THEN Amount(db.flows[d].book[b][f]) ELSE 0

LEMMA SideTotalIs ==
    ASSUME NEW db, NEW S, IsFiniteSet(S), NEW b, NEW f, NEW w, IsSide(w, db, S, b, f)
    PROVE  SideTotal(db, S, b, f) = SetSum(w, S)
<1> DEFINE V(d) == IF b \in DOMAIN db.flows[d].book THEN Amount(db.flows[d].book[b][f]) ELSE 0
           F(it) == [s \in SUBSET S |-> IF s = {} THEN 0
                        ELSE V(Picked(s)) + it[s \ {Picked(s)}]]
           G(it) == [s \in SUBSET S |-> IF s = {} THEN 0 ELSE w[Picked(s)] + it[s \ {Picked(s)}]]
<1>1. SideTotal(db, S, b, f) = (CHOOSE it : it = F(it))[S]
    BY DEF SideTotal, MapThenSumSet, MapThenFoldSet, Picked
<1>2. SetSum(w, S) = (CHOOSE it : it = G(it))[S]
    BY DEF SetSum, SumsUp
<1>3. \A d \in S : V(d) = w[d]
    BY DEF IsSide
<1>4. \A s \in SUBSET S : s # {} => Picked(s) \in S
    BY PickedIn
<1>5. ASSUME NEW it PROVE F(it) = G(it)
  <2>1. \A s \in SUBSET S : s # {} => V(Picked(s)) = w[Picked(s)]
    BY <1>3, <1>4
  <2> HIDE DEF V
  <2> QED
    BY <2>1
<1> HIDE DEF F, G
<1> QED
    BY <1>1, <1>2, <1>5

LEMMA SideTotalInt ==
    ASSUME NEW db, NEW S, IsFiniteSet(S), NEW b, NEW f,
           \A d \in S : b \in DOMAIN db.flows[d].book => db.flows[d].book[b][f] \in Nat \cup {Absent}
    PROVE  SideTotal(db, S, b, f) \in Int
<1>1. PICK w : w = [d \in S |-> IF b \in DOMAIN db.flows[d].book
                               THEN Amount(db.flows[d].book[b][f]) ELSE 0]
    OBVIOUS
<1>2. \A d \in S : w[d] = IF b \in DOMAIN db.flows[d].book THEN Amount(db.flows[d].book[b][f]) ELSE 0
    BY <1>1
<1>3. SideTotal(db, S, b, f) = SetSum(w, S)
  <2>1. IsSide(w, db, S, b, f)
    BY <1>2 DEF IsSide
  <2> QED
    BY <2>1, SideTotalIs
<1>4. \A d \in S : w[d] \in Int
    BY <1>2 DEF Amount
<1> QED
    BY <1>3, <1>4, SetSumInt

LEMMA SnapshotNet ==
    ASSUME NEW db, NEW F, NEW nets, nets = NetsAt(db, F),
           NEW seen, seen = UNION {DOMAIN nets[d] : d \in DOMAIN nets}
    PROVE  Snapshot(db, F).net =
               [b \in seen |-> SideTotal(db, DOMAIN nets, b, "buy") - SideTotal(db, DOMAIN nets, b, "sell")]
<1> DEFINE buy == [b \in seen |-> SideTotal(db, DOMAIN nets, b, "buy")]
           sell == [b \in seen |-> SideTotal(db, DOMAIN nets, b, "sell")]
<1>1. Snapshot(db, F) = [nets |-> nets, buy |-> buy, sell |-> sell,
                         net |-> [b \in seen |-> buy[b] - sell[b]],
                         top2_share |-> TopShare(LatestNets(nets), 2)]
    BY DEF Snapshot, SideTotal
<1>2. Snapshot(db, F).net = [b \in seen |-> buy[b] - sell[b]]
    BY <1>1
<1>3. \A b \in seen : /\ buy[b] = SideTotal(db, DOMAIN nets, b, "buy")
                      /\ sell[b] = SideTotal(db, DOMAIN nets, b, "sell")
    OBVIOUS
<1> HIDE DEF buy, sell
<1> QED
    BY <1>2, <1>3

(* The brokers' nets of a name are whole numbers, and finitely many.        *)
LEMMA NetsTyped ==
    ASSUME PitInv, NEW D \in 1..(MaxDay + 1), NEW s \in Symbols, NEW net, net = BrokerNets(s, D)
    PROVE  IsFiniteSet(DOMAIN net) /\ \A b \in DOMAIN net : net[b] \in Int
<1> SUFFICES ASSUME NEW db, db = StoreOf(s, D), NEW F, F = D - 1, NEW nets, nets = NetsAt(db, F),
                    NEW seen, seen = UNION {DOMAIN nets[d] : d \in DOMAIN nets}
             PROVE  IsFiniteSet(DOMAIN net) /\ \A b \in DOMAIN net : net[b] \in Int
    OBVIOUS
<1>1. \A d \in DOMAIN nets : /\ d \in 1..F /\ IsBook(db.flows[d].book)
                             /\ DOMAIN nets[d] = KnownBrokers(db.flows[d].book)
    BY FlowsAreBooks DEF NetsAt, DailyNet
<1>2. IsFiniteSet(DOMAIN nets)
  <2>1. IsFiniteSet(1..F) /\ DOMAIN nets \in SUBSET (1..F)
    BY <1>1, PointInTimeAssumption, FS_Interval
  <2> QED
    BY <2>1, FS_Subset
<1>3. IsFiniteSet(seen)
  <2> DEFINE f == [d \in DOMAIN nets |-> DOMAIN nets[d]]
             R == {DOMAIN nets[d] : d \in DOMAIN nets}
  <2>1. f \in Surjection(DOMAIN nets, R)
    BY DEF Surjection
  <2>2. \A T \in R : IsFiniteSet(T)
    <3> SUFFICES ASSUME NEW d \in DOMAIN nets PROVE IsFiniteSet(DOMAIN nets[d])
      OBVIOUS
    <3>1. DOMAIN nets[d] \in SUBSET DOMAIN db.flows[d].book /\ IsFiniteSet(DOMAIN db.flows[d].book)
      BY <1>1 DEF KnownBrokers, IsBook
    <3> QED
      BY <3>1, FS_Subset
  <2> HIDE DEF f, R
  <2>3. IsFiniteSet(R)
    BY <1>2, <2>1, FS_Surjection
  <2>4. IsFiniteSet(UNION R)
    BY <2>2, <2>3, FS_UNION
  <2> QED
    BY <2>4 DEF R
<1>4. ASSUME NEW b, NEW f, f = "buy" \/ f = "sell" PROVE SideTotal(db, DOMAIN nets, b, f) \in Int
  <2>1. ASSUME NEW d \in DOMAIN nets, b \in DOMAIN db.flows[d].book
        PROVE  db.flows[d].book[b][f] \in Nat \cup {Absent}
    BY <1>1, <1>4, <2>1 DEF IsBook
  <2> QED
    BY <1>2, <2>1, SideTotalInt
<1>5. net = [b \in seen |-> SideTotal(db, DOMAIN nets, b, "buy") - SideTotal(db, DOMAIN nets, b, "sell")]
  <2>1. net = Snapshot(db, F).net
    BY DEF BrokerNets
  <2> QED
    BY <2>1, SnapshotNet
<1>6. \A b \in seen : SideTotal(db, DOMAIN nets, b, "buy") \in Int /\ SideTotal(db, DOMAIN nets, b, "sell") \in Int
    BY <1>4
<1> QED
    BY <1>3, <1>5, <1>6

(* Two names whose books agree on balance share a broker who drives both.   *)
IsNet(a) == IsFiniteSet(DOMAIN a) /\ \A k \in DOMAIN a : a[k] \in Int

LEMMA LeadExists ==
    ASSUME NEW a, NEW b, IsNet(a), IsNet(b), Dot(a, b) > 0
    PROVE  SharedLeadBroker(a, b) # {}
<1> DEFINE common == DOMAIN a \cap DOMAIN b
           w == [k \in common |-> a[k] * b[k]]
           shared == {k \in common : a[k] * b[k] > 0}
           V == {w[k] : k \in shared}
<1>1. Dot(a, b) = SetSum(w, common)
    BY SumOverIs DEF Dot, SumBy
<1>2. IsFiniteSet(common) /\ \A k \in common : w[k] \in Int
    BY FS_Subset DEF IsNet
<1>3. \E k \in common : w[k] > 0
  <2> HIDE DEF w, common
  <2> QED
    BY <1>1, <1>2, SetSumPositive
<1>4. shared # {} /\ IsFiniteSet(shared)
  <2>1. shared # {}
    BY <1>3
  <2>2. shared \in SUBSET common
    OBVIOUS
  <2> HIDE DEF shared, common
  <2> QED
    BY <1>2, <2>1, <2>2, FS_Subset
<1>5. V \in SUBSET Int /\ V # {} /\ IsFiniteSet(V)
  <2> DEFINE f == [k \in shared |-> w[k]]
  <2>1. f \in Surjection(shared, V) /\ V \in SUBSET Int /\ V # {}
    <3>1. \A k \in shared : w[k] \in Int
      BY <1>2
    <3> HIDE DEF shared, w
    <3> QED
      BY <1>4, <3>1 DEF Surjection
  <2> HIDE DEF f, V, shared
  <2> QED
    BY <1>4, <2>1, FS_Surjection
<1>6. Max(V) \in V /\ \A v \in V : v <= Max(V)
  <2> HIDE DEF V
  <2> QED
    BY <1>5, FiniteEdges
<1>7. PICK k \in shared : w[k] = Max(V)
    BY <1>6
<1>8. \A j \in shared : w[j] <= w[k]
    BY <1>6, <1>7
<1>9. \A j \in shared : w[j] = a[j] * b[j]
    OBVIOUS
<1>10. SharedLeadBroker(a, b) = {i \in shared : \A j \in shared : a[j] * b[j] <= a[i] * b[i]}
    BY DEF SharedLeadBroker
<1> HIDE DEF shared, w
<1> QED
    BY <1>7, <1>8, <1>9, <1>10

(* Who drives a pair is read alike from either side.                        *)
LEMMA LeadSame ==
    ASSUME NEW a, NEW b, IsNet(a), IsNet(b)
    PROVE  SharedLeadBroker(a, b) = SharedLeadBroker(b, a)
<1>1. \A k \in DOMAIN a \cap DOMAIN b : a[k] * b[k] = b[k] * a[k]
    BY DEF IsNet
<1>2. DOMAIN a \cap DOMAIN b = DOMAIN b \cap DOMAIN a
    OBVIOUS
<1> DEFINE one == {k \in DOMAIN a \intersect DOMAIN b : a[k] * b[k] > 0}
           other == {k \in DOMAIN b \intersect DOMAIN a : b[k] * a[k] > 0}
<1>3. one = other
    BY <1>1
<1>4. SharedLeadBroker(a, b) = {k \in one : \A j \in one : a[j] * b[j] <= a[k] * b[k]}
    BY DEF SharedLeadBroker
<1>5. SharedLeadBroker(b, a) = {k \in other : \A j \in other : b[j] * a[j] <= b[k] * a[k]}
    BY DEF SharedLeadBroker
<1>6. \A k \in one : a[k] * b[k] = b[k] * a[k]
    BY <1>1
<1> HIDE DEF one, other
<1> QED
    BY <1>3, <1>4, <1>5, <1>6

(* Each crowded pair is named once, with a broker behind both.              *)
LEMMA PairsHold ==
    ASSUME NEW nets, \A s \in DOMAIN nets : IsNet(nets[s]),
           NEW pairs, pairs = CorrelatedPairs(CrowdingMatrix(nets), nets)
    PROVE  /\ \A p, q \in pairs : p.names = q.names => p = q
           /\ \A p \in pairs : p.lead # {} /\ Cardinality(p.names) = 2
<1> DEFINE crowded(rho) == rho # Absent /\ rho.dot > 0 /\
              100 * rho.dot * rho.dot >= CROWDING_CORR_THRESHOLD * CROWDING_CORR_THRESHOLD * rho.norm2
           M == CrowdingMatrix(nets)
           lead(x, y) == SharedLeadBroker(nets[x], nets[y])
<1>1. ASSUME NEW p \in pairs
      PROVE  \E x, y \in DOMAIN nets : /\ x # y /\ p = [names |-> {x, y}, lead |-> lead(x, y)]
                                       /\ Dot(nets[x], nets[y]) > 0
  <2>1. PICK z \in DOMAIN M : /\ z[1] # z[2] /\ crowded(M[z])
                              /\ p = [names |-> {z[1], z[2]}, lead |-> lead(z[1], z[2])]
    BY <1>1 DEF CorrelatedPairs
  <2>2. z \in (DOMAIN nets) \X (DOMAIN nets) /\ M[z] = CrowdingCorrelation(nets[z[1]], nets[z[2]])
    BY <2>1 DEF CrowdingMatrix
  <2>3. M[z] = [dot |-> Dot(nets[z[1]], nets[z[2]]),
                norm2 |-> Dot(nets[z[1]], nets[z[1]]) * Dot(nets[z[2]], nets[z[2]])]
    BY <2>1, <2>2 DEF CrowdingCorrelation
  <2>4. Dot(nets[z[1]], nets[z[2]]) > 0
    BY <2>1, <2>3
  <2> QED
    BY <2>1, <2>2, <2>4
<1>2. \A x, y \in DOMAIN nets : lead(x, y) = lead(y, x)
    BY LeadSame
<1>3. ASSUME NEW p \in pairs, NEW q \in pairs, p.names = q.names PROVE p = q
  <2>1. PICK x \in DOMAIN nets, y \in DOMAIN nets : x # y /\ p = [names |-> {x, y}, lead |-> lead(x, y)]
    BY <1>1
  <2>2. PICK u \in DOMAIN nets, v \in DOMAIN nets : u # v /\ q = [names |-> {u, v}, lead |-> lead(u, v)]
    BY <1>1
  <2> HIDE DEF lead
  <2>3. (u = x /\ v = y) \/ (u = y /\ v = x)
    <3>1. {x, y} = {u, v}
      BY <1>3, <2>1, <2>2
    <3> QED
      BY <2>1, <2>2, <3>1
  <2>4. {x, y} = {y, x}
    OBVIOUS
  <2> QED
    BY <1>2, <2>1, <2>2, <2>3, <2>4
<1>4. ASSUME NEW p \in pairs PROVE p.lead # {} /\ Cardinality(p.names) = 2
  <2>1. PICK x \in DOMAIN nets, y \in DOMAIN nets :
           x # y /\ p = [names |-> {x, y}, lead |-> lead(x, y)] /\ Dot(nets[x], nets[y]) > 0
    BY <1>1, <1>4
  <2>2. lead(x, y) # {}
    BY <2>1, LeadExists
  <2>3. Cardinality({x, y}) = 2
    <3>1. IsFiniteSet({x}) /\ Cardinality({x}) = 1 /\ y \notin {x} /\ {x, y} = {x} \cup {y}
      BY <2>1, FS_Singleton
    <3> QED
      BY <3>1, FS_AddElement
  <2> QED
    BY <2>1, <2>2, <2>3
<1> QED
    BY <1>3, <1>4

(* The report on the preview book stands: its sectors are the whole book,   *)
(* its value at risk is a day's loss no more days exceed than the tail, and *)
(* it names each crowded pair once, with a broker that drives it.           *)
SectorsAreBook(book) ==
    SumBy(LAMBDA x : SectorValues(book)[x], DOMAIN SectorValues(book)) = Invested(book)
TailBounds(report, returns) ==
    report.var_1d # Absent =>
        /\ 1000 * Cardinality({d \in DOMAIN returns : -returns[d] > report.var_1d})
             <= (1000 - VAR_CONFIDENCE) * Cardinality(DOMAIN returns)
        /\ report.var_1d # 0 => \E d \in DOMAIN returns : -returns[d] = report.var_1d
PairsAreCrowded(report) ==
    /\ \A p, q \in report.crowded_pairs : p.names = q.names => p = q
    /\ \A p \in report.crowded_pairs : p.lead # {} /\ Cardinality(p.names) = 2

LEMMA ReportParts ==
    ASSUME PitInv, NEW D, D = today + 1, NEW book, book = PreviewBook(D),
           NEW inputs, inputs = ReportInputs(book, D), NEW report, report = RiskReport(book, inputs),
           NEW returns, returns = PortfolioReturns(book, inputs.returns)
    PROVE  SectorsAreBook(book) /\ TailBounds(report, returns) /\ PairsAreCrowded(report)
<1>1. D \in 1..(MaxDay + 1)
    BY PointInTimeAssumption DEF PitInv, PitTypeOK, Days
<1>2. Held(book) \in SUBSET Symbols /\ Marked(book)
    BY PreviewMarked
<1>3. SectorsAreBook(book)
  <2>1. SumBy(LAMBDA x : SectorValues(book)[x], DOMAIN SectorValues(book)) = Invested(book)
    BY ONLY <1>2, SectorsAdd
  <2> QED
    BY <2>1 DEF SectorsAreBook
<1>4. PICK own : own = [s \in Held(book) |-> OwnReturns(s, D)]
    OBVIOUS
<1>5. PICK nets : nets = [s \in Held(book) |-> BrokerNets(s, D)]
    OBVIOUS
<1>6. inputs.returns = own /\ inputs.nets = nets
    BY <1>4, <1>5 DEF ReportInputs
<1>7. /\ report.var_1d = VarHistorical(returns)
      /\ report.crowded_pairs = CorrelatedPairs(CrowdingMatrix(nets), nets)
    BY <1>6 DEF RiskReport
<1>8. IsFiniteSet(DOMAIN returns) /\ \A d \in DOMAIN returns : returns[d] \in Int
  <2>1. returns = PortfolioReturns(book, own)
    BY <1>6
  <2> QED
    BY ONLY PitInv, <1>2, <1>4, <2>1, PortfolioTyped
<1>9. TailBounds(report, returns)
  <2> SUFFICES ASSUME NEW v, v = VarHistorical(returns), v # Absent
               PROVE  /\ 1000 * Cardinality({d \in DOMAIN returns : -returns[d] > v})
                           <= (1000 - VAR_CONFIDENCE) * Cardinality(DOMAIN returns)
                      /\ v # 0 => \E d \in DOMAIN returns : -returns[d] = v
    BY <1>7 DEF TailBounds
  <2> QED
    BY <1>8, ValueAtRisk
<1>10. \A s \in DOMAIN nets : IsNet(nets[s])
  <2>1. ASSUME NEW s \in Symbols PROVE IsNet(BrokerNets(s, D))
    BY <1>1, NetsTyped DEF IsNet
  <2> QED
    BY <1>2, <1>5, <2>1
<1>11. PairsAreCrowded(report)
    BY <1>7, <1>10, PairsHold DEF PairsAreCrowded
<1> QED
    BY <1>3, <1>9, <1>11

LEMMA ReportIsTrue == PitInv => ReportHolds
<1> SUFFICES ASSUME PitInv
             PROVE  \A D \in {today + 1} : \A book \in {PreviewBook(D)} :
                    \A inputs \in {ReportInputs(book, D)} :
                    \A report \in {RiskReport(book, inputs)}, returns \in {PortfolioReturns(book, inputs.returns)} :
                        SectorsAreBook(book) /\ TailBounds(report, returns) /\ PairsAreCrowded(report)
    BY DEF ReportHolds, SectorsAreBook, TailBounds, PairsAreCrowded
<1> QED
    BY ReportParts
=============================================================================
