---------------------------- MODULE IngestProofs ----------------------------
(***************************************************************************)
(* Ingest for any universe, calendar, page size and number of cut-off      *)
(* runs: its types, that a stored bar commits the whole day, and that a    *)
(* name is reported done only with every bar it was due.                   *)
(***************************************************************************)
EXTENDS Ingest, SetLemmas

-----------------------------------------------------------------------------
(* Types                                                                    *)

LEMMA NoWindowType == NoWindow \in Window
BY DaysAssumption DEF NoWindow, Window, Days

LEMMA IdleJobType ==
    /\ IdleJob \in JobType
    /\ IdleJob.todo = {} /\ IdleJob.ask = {} /\ IdleJob.due = {}
BY NoWindowType DEF IdleJob, JobType

(* What a step within a name leaves of the job and of PhaseOK.              *)
LEMMA JobFields ==
    ASSUME NEW j \in JobType, NEW days \in SUBSET Days, NEW rows \in SUBSET (Days \X Rows),
           NEW page \in Nat \ {0}
    PROVE  /\ [j EXCEPT !.ask = days, !.rows = rows] \in JobType
           /\ [j EXCEPT !.rows = rows] \in JobType
           /\ [j EXCEPT !.got = days, !.page = page] \in JobType
           /\ [j EXCEPT !.got = days] \in JobType
BY DEF JobType

LEMMA TypeStep == TypeOK /\ [Next]_vars => TypeOK'
<1> SUFFICES ASSUME TypeOK, [Next]_vars PROVE TypeOK'
    OBVIOUS
<1>0. /\ job \in JobType /\ job.ask \in SUBSET Days /\ job.rows \in SUBSET (Days \X Rows)
      /\ job.page \in Nat \ {0} /\ job.got \in SUBSET Days /\ job.sym \in Syms \cup {NoSym}
      /\ job.todo \in SUBSET Syms /\ job.win \in Window
    BY DEF TypeOK, JobType
<1>1. CASE ServeBar \/ ServeBroker \/ NextDay
    BY <1>1, DaysAssumption DEF ServeBar, ServeBroker, NextDay, TypeOK, PhaseOK, Days
<1>2. ASSUME NEW win \in Windows, Start(win) PROVE TypeOK'
  <2>1. win \in Window
    BY DaysAssumption DEF Windows, Window, Between, TypeOK, Days
  <2>2. job' = [IdleJob EXCEPT !.todo = Syms, !.win = win] /\ pc' = "next"
    BY <1>2 DEF Start
  <2>3. job' \in JobType /\ job'.ask = {} /\ job'.due = {}
    BY <2>1, <2>2, IdleJobType DEF JobType
  <2>4. PhaseOK'
    BY <2>2, <2>3 DEF PhaseOK
  <2> QED
    BY <1>2, <2>2, <2>3, <2>4 DEF Start, TypeOK
<1>3. ASSUME NEW s \in job.todo, Plan(s) PROVE TypeOK'
  <2> DEFINE win == job.win
  <2>1. /\ s \in Syms
        /\ Missing(s, win) \in SUBSET Days /\ Between(served.bar, win.lo, win.hi) \in SUBSET Days
        /\ Missing(s, win) \subseteq Between(Days, win.lo, win.hi)
        /\ Between(served.bar, win.lo, win.hi) \subseteq Between(Days, win.lo, win.hi)
    BY <1>0 DEF Missing, Between, TypeOK
  <2>2. /\ job' = [IdleJob EXCEPT !.todo = job.todo, !.sym = s, !.win = win,
                       !.missing = Missing(s, win), !.ask = Missing(s, win),
                       !.due = Between(served.bar, win.lo, win.hi)]
        /\ Missing(s, win) # {} /\ pc' = "broker"
    BY <1>3 DEF Plan
  <2>3. /\ job' \in JobType /\ job'.sym = s /\ job'.win = win /\ job'.ask = Missing(s, win)
        /\ job'.due = Between(served.bar, win.lo, win.hi)
    BY <1>0, <2>1, <2>2, IdleJobType DEF JobType
  <2>4. PhaseOK'
    BY <2>1, <2>2, <2>3 DEF PhaseOK
  <2> QED
    BY <1>3, <2>2, <2>3, <2>4 DEF Plan, TypeOK
<1>4. ASSUME NEW s \in job.todo, SkipCached(s) PROVE TypeOK'
  <2>1. job' \in JobType /\ UNCHANGED <<job.ask, job.due, job.win, job.sym>>
    BY <1>0, <1>4 DEF SkipCached, JobType
  <2>2. PhaseOK' /\ reported' \in [Syms -> Window]
    BY <1>0, <1>4, <2>1 DEF SkipCached, PhaseOK, TypeOK
  <2> QED
    BY <1>4, <2>1, <2>2 DEF SkipCached, TypeOK
<1>5. ASSUME NEW d \in job.ask, FetchBroker(d) PROVE TypeOK'
  <2>1. d \in Days /\ pc = "broker" /\ job.sym \in Syms
    BY <1>0, <1>5 DEF FetchBroker, TypeOK, PhaseOK
  <2>2. PICK rows \in SUBSET (Days \X Rows) :
            /\ job' = [job EXCEPT !.ask = job.ask \ {d}, !.rows = rows]
            /\ pc' = IF job.ask # {d} THEN "broker" ELSE IF rows # {} THEN "rows" ELSE "pages"
    <3> DEFINE rows == job.rows \cup (IF d \in served.broker THEN {d} \X Rows ELSE {})
    <3>1. rows \in SUBSET (Days \X Rows)
      BY <1>0, <2>1
    <3> QED
      BY <1>5, <3>1 DEF FetchBroker
  <2>3. job' \in JobType
    BY <1>0, <2>2, JobFields
  <2>4. /\ job'.ask = job.ask \ {d} /\ job'.rows = rows
        /\ UNCHANGED <<job.missing, job.due, job.win, job.sym>>
    BY <1>0, <2>2 DEF JobType
  <2>5. job.missing # {}
    BY <2>1 DEF TypeOK, PhaseOK
  <2>6. PhaseOK'
    BY <2>1, <2>2, <2>4, <2>5 DEF TypeOK, PhaseOK
  <2>7. early' \subseteq Syms \X Days
    BY <1>5, <2>1 DEF FetchBroker, TypeOK
  <2> QED
    BY <1>5, <2>2, <2>3, <2>6, <2>7 DEF FetchBroker, TypeOK
<1>6. ASSUME NEW r \in job.rows, SaveRow(r) PROVE TypeOK'
  <2>1. job' = [job EXCEPT !.rows = job.rows \ {r}] /\ pc = "rows" /\ job.sym \in Syms
    BY <1>6 DEF SaveRow, TypeOK, PhaseOK
  <2>2. job' \in JobType
    BY <1>0, <2>1, JobFields
  <2>3. /\ job'.rows = job.rows \ {r}
        /\ UNCHANGED <<job.ask, job.missing, job.due, job.win, job.sym>>
    BY <1>0, <2>1 DEF JobType
  <2>4. PhaseOK'
    BY <1>6, <2>1, <2>3 DEF SaveRow, TypeOK, PhaseOK
  <2>5. r[1] \in Days /\ r[2] \in Rows
    BY <1>0
  <2>6. broker' \subseteq Syms \X Days \X Rows
    BY <1>6, <2>1, <2>5 DEF SaveRow, TypeOK
  <2> QED
    BY <1>6, <2>2, <2>4, <2>6 DEF SaveRow, TypeOK
<1>7. CASE FetchPage
  <2> DEFINE page == Page(job.page, Span(job.missing))
  <2>1. page \subseteq Days
    BY DEF Page, TypeOK
  <2>2. job' = [job EXCEPT !.got = job.got \cup page, !.page = job.page + 1] /\ pc = "pages"
    BY <1>7 DEF FetchPage
  <2>3. /\ job' \in JobType
        /\ UNCHANGED <<job.ask, job.missing, job.due, job.win, job.sym>>
    <3>1. job.got \cup page \in SUBSET Days /\ job.page + 1 \in Nat \ {0}
      BY <1>0, <2>1
    <3>2. job' \in JobType
      BY <1>0, <2>2, <3>1, JobFields
    <3> QED
      BY <1>0, <2>2, <3>2 DEF JobType
  <2>4. PhaseOK' /\ pc' \in {"pages", "bars"}
    BY <1>7, <2>2, <2>3 DEF FetchPage, TypeOK, PhaseOK
  <2> QED
    BY <1>7, <2>3, <2>4 DEF FetchPage, TypeOK
<1>8. ASSUME NEW d \in job.got, SaveBar(d) PROVE TypeOK'
  <2>1. job' = [job EXCEPT !.got = job.got \ {d}] /\ pc = "bars" /\ pc' = "bars"
        /\ job.sym \in Syms
    BY <1>8 DEF SaveBar, TypeOK, PhaseOK
  <2>2. job' \in JobType /\ UNCHANGED <<job.ask, job.missing, job.due, job.win, job.sym>>
    BY <1>0, <2>1 DEF JobType
  <2>3. PhaseOK'
    BY <2>1, <2>2 DEF TypeOK, PhaseOK
  <2> QED
    BY <1>0, <1>8, <2>1, <2>2, <2>3 DEF SaveBar, TypeOK
<1>9. CASE Report
  <2>1. job' = [IdleJob EXCEPT !.todo = job.todo \ {job.sym}, !.win = job.win] /\ pc' = "next"
        /\ job.sym \in Syms
    BY <1>9 DEF Report, TypeOK, PhaseOK
  <2>2. job' \in JobType /\ job'.ask = {} /\ job'.due = {}
    BY <1>0, <2>1, IdleJobType DEF JobType
  <2>3. PhaseOK'
    BY <2>1, <2>2 DEF PhaseOK
  <2> QED
    BY <1>0, <1>9, <2>1, <2>2, <2>3 DEF Report, TypeOK
<1>10. CASE End \/ CutOff
  <2>1. job' = IdleJob /\ pc' = "idle" /\ faults' \in 0..MaxFaults
    BY <1>10, FaultsAssumption DEF End, CutOff, TypeOK
  <2>2. PhaseOK'
    BY <2>1, IdleJobType DEF PhaseOK
  <2> QED
    BY <1>10, <2>1, <2>2, IdleJobType DEF End, CutOff, TypeOK
<1>11. CASE UNCHANGED vars
    BY <1>11 DEF vars, TypeOK, PhaseOK
<1> QED
    BY <1>1, <1>2, <1>3, <1>4, <1>5, <1>6, <1>7, <1>8, <1>9, <1>10, <1>11 DEF Next, RunStep

(* The tables, the feed and the locals of a run keep their types, and no    *)
(* phase of ingest_symbol begins with nothing to do.                        *)
THEOREM IngestTypes == Spec => []TypeOK
<1>1. Init => TypeOK
    BY DaysAssumption, FaultsAssumption, IdleJobType, NoWindowType
       DEF Init, TypeOK, PhaseOK, Days
<1>2. TypeOK /\ [Next]_vars => TypeOK'
    BY TypeStep
<1> QED
    BY <1>1, <1>2, PTL DEF Spec

-----------------------------------------------------------------------------
(* A stored bar commits its day.                                            *)

Asking == pc \in {"broker", "rows", "pages", "bars"}
InWindow(d) == d \in Between(Days, job.win.lo, job.win.hi)

(* The order of ingest_symbol: while a name is in hand every day of its     *)
(* window is either among the missing ones or stored; a missing day already *)
(* asked for has its rows in the table or in memory, unless it came back    *)
(* empty; and by the time bars are written nothing is left in memory.       *)
OrderInv ==
    Asking =>
        /\ job.ask \subseteq job.missing
        /\ \A d \in job.ask : <<job.sym, d>> \notin bars
        /\ \A d \in job.missing \ job.ask :
              \/ <<job.sym, d>> \in early
              \/ \A r \in Rows : <<job.sym, d, r>> \in broker \/ <<d, r>> \in job.rows
        /\ \A d \in job.missing : InWindow(d)
        /\ \A d \in Days : InWindow(d) => d \in job.missing \/ <<job.sym, d>> \in bars
        /\ \A d \in job.got : InWindow(d)
        /\ pc # "broker" => job.ask = {}
        /\ pc \in {"pages", "bars"} => job.rows = {}

CommitInv == TypeOK /\ OrderInv /\ BarCommitsDay

LEMMA CommitStep == CommitInv /\ [Next]_vars => CommitInv'
<1> SUFFICES ASSUME CommitInv, [Next]_vars PROVE (OrderInv /\ BarCommitsDay)'
    BY TypeStep DEF CommitInv
<1> DEFINE Goal == OrderInv /\ BarCommitsDay
<1> USE DEF CommitInv
<1>0. job \in JobType
    BY DEF TypeOK
(* A step that neither begins a name nor touches the tables or the job.     *)
<1>1. ASSUME UNCHANGED <<bars, broker, early>>, pc' \in {"idle", "next"} \/ UNCHANGED <<pc, job>>
      PROVE  Goal'
  <2>1. OrderInv'
    BY <1>1 DEF OrderInv, Asking, InWindow
  <2> QED
    BY <1>1, <2>1 DEF BarCommitsDay, Whole
<1>2. CASE ServeBar \/ ServeBroker \/ NextDay
    BY <1>1, <1>2 DEF ServeBar, ServeBroker, NextDay
<1>3. CASE \E win \in Windows : Start(win)
    BY <1>1, <1>3 DEF Start
<1>4. ASSUME NEW s \in job.todo, Plan(s) PROVE Goal'
  <2> DEFINE win == job.win
  <2>1. /\ job'.sym = s /\ job'.win = win /\ job'.missing = Missing(s, win)
        /\ job'.ask = Missing(s, win) /\ job'.rows = {} /\ job'.got = {}
        /\ pc' = "broker" /\ UNCHANGED <<bars, broker, early>>
    BY <1>4 DEF Plan, IdleJob
  <2>2. \A d \in Missing(s, win) : d \in Between(Days, win.lo, win.hi) /\ <<s, d>> \notin bars
    BY DEF Missing, Ingested, Between
  <2>3. \A d \in Between(Days, win.lo, win.hi) : d \in Missing(s, win) \/ <<s, d>> \in bars
    BY DEF Missing, Ingested
  <2>4. OrderInv'
    BY <2>1, <2>2, <2>3 DEF OrderInv, InWindow
  <2> QED
    BY <2>1, <2>4 DEF BarCommitsDay, Whole
<1>5. ASSUME NEW s \in job.todo, SkipCached(s) PROVE Goal'
    BY <1>1, <1>5 DEF SkipCached
<1>6. ASSUME NEW d \in job.ask, FetchBroker(d) PROVE Goal'
  <2>1. PICK rows : /\ rows = job.rows \cup (IF d \in served.broker THEN {d} \X Rows ELSE {})
                    /\ job' = [job EXCEPT !.ask = job.ask \ {d}, !.rows = rows]
    BY <1>6 DEF FetchBroker
  <2>2. /\ job'.ask = job.ask \ {d} /\ job'.rows = rows
        /\ UNCHANGED <<job.missing, job.win, job.sym, job.got>>
    BY <1>0, <2>1 DEF JobType
  <2>3. /\ early' = IF d \in served.broker THEN early \ {<<job.sym, d>>}
                                           ELSE early \cup {<<job.sym, d>>}
        /\ pc = "broker" /\ UNCHANGED <<bars, broker>>
        /\ pc' = IF job.ask # {d} THEN "broker" ELSE IF rows # {} THEN "rows" ELSE "pages"
    BY <1>6, <2>1 DEF FetchBroker
  <2>4. <<job.sym, d>> \notin bars /\ OrderInv
    BY <2>3 DEF OrderInv, Asking
  <2>5. BarCommitsDay'
    BY <2>3, <2>4 DEF BarCommitsDay, Whole
  <2>6. \A e \in job'.missing \ job'.ask :
            \/ <<job'.sym, e>> \in early'
            \/ \A r \in Rows : <<job'.sym, e, r>> \in broker' \/ <<e, r>> \in job'.rows
    <3> SUFFICES ASSUME NEW e \in job.missing \ (job.ask \ {d}),
                        <<job.sym, e>> \notin early', NEW r \in Rows
                 PROVE  <<job.sym, e, r>> \in broker \/ <<e, r>> \in rows
      BY <2>2, <2>3
    <3>1. CASE e = d
      BY <3>1, <2>1, <2>3
    <3>2. CASE e # d
      BY <3>2, <2>1, <2>3, <2>4 DEF OrderInv, Asking
    <3> QED
      BY <3>1, <3>2
  <2>7. OrderInv'
    BY <2>1, <2>2, <2>3, <2>4, <2>6 DEF OrderInv, Asking, InWindow
  <2> QED
    BY <2>5, <2>7
<1>7. ASSUME NEW x \in job.rows, SaveRow(x) PROVE Goal'
  <2>1. /\ job' = [job EXCEPT !.rows = job.rows \ {x}]
        /\ broker' = broker \cup {<<job.sym, x[1], x[2]>>}
        /\ pc = "rows" /\ pc' = IF job.rows = {x} THEN "pages" ELSE "rows"
        /\ UNCHANGED <<bars, early>>
    BY <1>7 DEF SaveRow
  <2>2. /\ job'.rows = job.rows \ {x}
        /\ UNCHANGED <<job.ask, job.missing, job.win, job.sym, job.got>>
    BY <1>0, <2>1 DEF JobType
  <2>3. BarCommitsDay'
    BY <2>1 DEF BarCommitsDay, Whole
  <2>4. \A d \in Days, r \in Rows : <<d, r>> = x => <<job.sym, d, r>> \in broker'
    BY <2>1
  <2>5. job.missing \subseteq Days
    BY <1>0 DEF JobType
  <2>6. OrderInv'
    BY <2>1, <2>2, <2>4, <2>5 DEF OrderInv, Asking, InWindow
  <2> QED
    BY <2>3, <2>6
<1>8. CASE FetchPage
  <2> DEFINE page == Page(job.page, Span(job.missing))
  <2>1. /\ job' = [job EXCEPT !.got = job.got \cup page, !.page = job.page + 1]
        /\ pc = "pages" /\ pc' \in {"pages", "bars"}
        /\ UNCHANGED <<bars, broker, early>>
    BY <1>8 DEF FetchPage
  <2>2. /\ job'.got = job.got \cup page
        /\ UNCHANGED <<job.ask, job.missing, job.win, job.sym, job.rows>>
    BY <1>0, <2>1 DEF JobType
  <2>3. \A d \in page : InWindow(d)
    <3> SUFFICES ASSUME NEW d \in page PROVE InWindow(d)
      OBVIOUS
    <3>1. PICK e \in job.missing, f \in job.missing : d \in Days /\ e <= d /\ d <= f
      BY DEF Page, Span
    <3>2. InWindow(e) /\ InWindow(f)
      BY <2>1 DEF OrderInv, Asking
    <3>3. job.win.lo \in Int /\ job.win.hi \in Int /\ Days \subseteq Int
      BY <1>0, DaysAssumption DEF JobType, Window, Days
    <3> QED
      BY <3>1, <3>2, <3>3 DEF InWindow, Between
  <2>4. OrderInv'
    BY <2>1, <2>2, <2>3 DEF OrderInv, Asking, InWindow
  <2> QED
    BY <2>1, <2>4 DEF BarCommitsDay, Whole
<1>9. ASSUME NEW d \in job.got, SaveBar(d) PROVE Goal'
  <2>1. /\ job' = [job EXCEPT !.got = job.got \ {d}]
        /\ bars' = bars \cup {<<job.sym, d>>}
        /\ pc = "bars" /\ UNCHANGED <<pc, broker, early>>
    BY <1>9 DEF SaveBar
  <2>2. /\ job'.got = job.got \ {d}
        /\ UNCHANGED <<job.ask, job.missing, job.win, job.sym, job.rows>>
    BY <1>0, <2>1 DEF JobType
  <2>3. d \in Days
    BY <1>0 DEF JobType
  <2>4. <<job.sym, d>> \in bars \/ <<job.sym, d>> \in early \/ Whole(job.sym, d)
    BY <2>1, <2>3 DEF OrderInv, Asking, Whole
  <2>5. BarCommitsDay'
    BY <2>1, <2>4 DEF BarCommitsDay, Whole
  <2>6. OrderInv'
    BY <2>1, <2>2 DEF OrderInv, Asking, InWindow
  <2> QED
    BY <2>5, <2>6
<1>10. CASE Report \/ End \/ CutOff
    BY <1>1, <1>10 DEF Report, End, CutOff
<1>11. CASE UNCHANGED vars
    BY <1>1, <1>11 DEF vars
<1> QED
    BY <1>2, <1>3, <1>4, <1>5, <1>6, <1>7, <1>8, <1>9, <1>10, <1>11 DEF Next, RunStep

(* ingest_symbol's commit order: wherever runs are cut off and however      *)
(* their windows overlap, a stored bar has all its broker rows unless its   *)
(* day was asked for before the feed served the summary.                    *)
THEOREM BarsCommitDays == Spec => []BarCommitsDay
<1>1. Init => CommitInv
  <2>1. Init => TypeOK
    BY DaysAssumption, FaultsAssumption, IdleJobType, NoWindowType
       DEF Init, TypeOK, PhaseOK, Days
  <2> QED
    BY <2>1 DEF Init, CommitInv, OrderInv, Asking, BarCommitsDay
<1>2. CommitInv /\ [Next]_vars => CommitInv'
    BY CommitStep
<1>3. CommitInv => BarCommitsDay
    BY DEF CommitInv
<1> QED
    BY <1>1, <1>2, <1>3, PTL DEF Spec

-----------------------------------------------------------------------------
(* Paging: what a page of the feed holds.                                   *)

\* the place of d in a list of days, newest first
Rank(listed, d) == Cardinality({e \in listed : e >= d})

LEMMA RankFinite ==
    ASSUME NEW listed \in SUBSET Days, NEW d
    PROVE  /\ IsFiniteSet(listed) /\ IsFiniteSet({e \in listed : e >= d})
           /\ Rank(listed, d) \in Nat
<1>1. IsFiniteSet(Days)
    BY FS_Interval, DaysAssumption DEF Days
<1>2. IsFiniteSet(listed)
    BY <1>1, FS_Subset
<1>3. {e \in listed : e >= d} \in SUBSET listed
    OBVIOUS
<1>4. IsFiniteSet({e \in listed : e >= d})
    BY <1>2, <1>3, FS_Subset
<1> QED
    BY <1>2, <1>4, FS_CardinalityType DEF Rank

(* Every place up to the length of the list is some day's.                  *)
LEMMA RankOnto ==
    ASSUME NEW listed \in SUBSET Days, NEW n \in 1..Cardinality(listed)
    PROVE  \E d \in listed : Rank(listed, d) = n
<1> DEFINE C == {s \in SUBSET listed : \E k \in 1..Cardinality(s) : \A d \in s : Rank(s, d) # k}
<1> SUFFICES ASSUME C # {} PROVE FALSE
    OBVIOUS
<1>1. \A s \in C : IsFiniteSet(s)
    BY RankFinite
<1>2. PICK s \in C : \A x \in s : s \ {x} \notin C
  <2> HIDE DEF C
  <2> QED
    BY <1>1, SmallestSet
<1>3. PICK k \in 1..Cardinality(s) : \A d \in s : Rank(s, d) # k
    OBVIOUS
<1>4. IsFiniteSet(s) /\ Cardinality(s) \in Nat /\ s \in SUBSET Days /\ s \in SUBSET Nat
    BY <1>1, FS_CardinalityType, DaysAssumption DEF Days
<1>5. s # {}
    BY <1>3, <1>4, FS_EmptySet
<1>6. PICK m \in s : \A e \in s : m <= e
    BY <1>4, <1>5, LeastNat
<1>7. Rank(s, m) = Cardinality(s)
  <2>1. {e \in s : e >= m} = s
    BY <1>4, <1>6
  <2> QED
    BY <2>1 DEF Rank
<1>8. k \in 1..Cardinality(s \ {m})
  <2>1. Cardinality(s \ {m}) = Cardinality(s) - 1
    BY <1>4, FS_RemoveElement
  <2>2. k # Cardinality(s)
    BY <1>3, <1>7
  <2> QED
    BY <1>4, <2>1, <2>2
<1>9. PICK d \in s \ {m} : Rank(s \ {m}, d) = k
  <2>1. s \ {m} \in SUBSET listed /\ s \ {m} \notin C
    BY <1>2
  <2> QED
    BY <1>8, <2>1
<1>10. {e \in s \ {m} : e >= d} = {e \in s : e >= d}
    BY <1>4, <1>6, <1>9
<1> QED
    BY <1>3, <1>9, <1>10 DEF Rank

(* A page is full as long as a day of the list comes after it.              *)
LEMMA FullPage ==
    ASSUME NEW a \in Nat, NEW listed \in SUBSET Days, NEW d \in listed,
           Rank(listed, d) > a + PageLimit
    PROVE  Cardinality({e \in listed : a < Rank(listed, e) /\ Rank(listed, e) <= a + PageLimit})
             >= PageLimit
<1> DEFINE page == {e \in listed : a < Rank(listed, e) /\ Rank(listed, e) <= a + PageLimit}
           S == (a + 1)..(a + PageLimit)
           f == [n \in S |-> CHOOSE e \in listed : Rank(listed, e) = n]
<1>1. IsFiniteSet(listed) /\ Cardinality(listed) \in Nat /\ PageLimit \in Nat
    BY RankFinite, FS_CardinalityType, PageAssumption
<1>2. Rank(listed, d) <= Cardinality(listed) /\ Rank(listed, d) \in Nat
  <2>1. {e \in listed : e >= d} \in SUBSET listed
    OBVIOUS
  <2> QED
    BY <1>1, <2>1, FS_Subset, RankFinite DEF Rank
<1>3. \A n \in S : n \in 1..Cardinality(listed)
    BY <1>1, <1>2
<1>4. \A n \in S : f[n] \in listed /\ Rank(listed, f[n]) = n
    BY <1>3, RankOnto
<1>5. \A n \in S : f[n] \in page
    BY <1>1, <1>4
<1>6. f \in Injection(S, page)
  <2>1. f \in [S -> page]
    BY <1>5
  <2>2. \A x, y \in S : f[x] = f[y] => x = y
    BY <1>4
  <2> HIDE DEF f, S, page
  <2> QED
    BY <2>1, <2>2 DEF Injection, IsInjective
<1>7. page \in SUBSET listed
    OBVIOUS
<1>8. Cardinality(S) = PageLimit
    BY <1>1, FS_Interval, PageAssumption
<1> HIDE DEF f, S, page
<1>9. IsFiniteSet(page)
    BY <1>1, <1>7, FS_Subset
<1>10. Cardinality(S) <= Cardinality(page)
    BY <1>6, <1>9, FS_Injection
<1> QED
    BY <1>8, <1>10 DEF page

-----------------------------------------------------------------------------
(* A range is never silently truncated.                                     *)

Listed == served.bar \cap Span(job.missing)

(* A day that was served when its name's turn came is stored, or downloaded,*)
(* or on a page still to come.  Bars that appear between two pages only     *)
(* push it further back.                                                    *)
DueInv ==
    Asking =>
        /\ pc \in {"broker", "rows"} => job.page = 1
        /\ \A d \in job.due :
              /\ d \in served.bar
              /\ \/ <<job.sym, d>> \in bars
                 \/ d \in job.got
                 \/ /\ pc # "bars"
                    /\ d \in job.missing
                    /\ Rank(Listed, d) > (job.page - 1) * PageLimit

RangeInv == CommitInv /\ DueInv

(* The list grows, a day's place never falls.                               *)
LEMMA RankGrows ==
    ASSUME NEW S \in SUBSET Days, NEW T \in SUBSET S, NEW d
    PROVE  Rank(T, d) <= Rank(S, d) /\ Rank(T, d) \in Nat /\ Rank(S, d) \in Nat
<1>1. {e \in T : e >= d} \in SUBSET {e \in S : e >= d}
    OBVIOUS
<1>2. IsFiniteSet({e \in S : e >= d}) /\ Rank(T, d) \in Nat /\ Rank(S, d) \in Nat
    BY RankFinite
<1> QED
    BY <1>1, <1>2, FS_Subset DEF Rank

LEMMA DueStep == RangeInv /\ [Next]_vars => DueInv'
<1> SUFFICES ASSUME RangeInv, [Next]_vars PROVE DueInv'
    OBVIOUS
<1> USE DEF RangeInv, CommitInv
<1>0. job \in JobType /\ served.bar \in SUBSET Days /\ PageLimit \in Nat \ {0}
    BY PageAssumption DEF TypeOK
<1>1. CASE pc' \in {"idle", "next"}
    BY <1>1 DEF DueInv, Asking
(* What a step needs that neither pages nor starts a name.                  *)
<1>2. ASSUME Asking, UNCHANGED <<served, job.due, job.missing, job.page, job.sym, job.got>>,
             pc' # "bars", bars' = bars, pc' \in {"broker", "rows"} => job.page = 1, pc # "bars"
      PROVE  DueInv'
    BY <1>2 DEF DueInv, Asking, Listed, Rank, Span
<1>3. CASE NextDay
    BY <1>3 DEF NextDay, DueInv, Asking, Listed, Rank, Span
<1>4. CASE ServeBroker
    BY <1>4 DEF ServeBroker, DueInv, Asking, Listed, Rank, Span
<1>5. CASE ServeBar
  <2>1. /\ served'.bar = served.bar \cup {today} /\ UNCHANGED <<bars, pc, job>>
        /\ served'.bar \in SUBSET Days
    BY <1>5 DEF ServeBar, TypeOK
  <2>2. Listed' = served'.bar \cap Span(job.missing)
    BY <2>1 DEF Listed, Span
  <2>3. ASSUME NEW d PROVE Rank(Listed, d) <= Rank(Listed', d) /\ Rank(Listed', d) \in Nat
                           /\ Rank(Listed, d) \in Nat
    BY <2>1, <2>2, RankGrows DEF Listed
  <2>4. Asking' = Asking
    BY <2>1 DEF Asking
  <2>5. ASSUME NEW d, Asking, NEW k \in Int, Rank(Listed, d) > k PROVE Rank(Listed', d) > k
    BY <2>3, <2>5
  <2>6. (job.page - 1) * PageLimit \in Int
    BY <1>0 DEF JobType
  <2>7. \A d : Rank(Listed, d)' = Rank(Listed', d)
    BY DEF Rank
  <2> QED
    BY <2>1, <2>4, <2>5, <2>6, <2>7 DEF DueInv
<1>6. CASE \E win \in Windows : Start(win)
    BY <1>1, <1>6 DEF Start
<1>7. ASSUME NEW s \in job.todo, Plan(s) PROVE DueInv'
  <2>1. /\ job'.sym = s /\ job'.win = job.win /\ job'.missing = Missing(s, job.win)
        /\ job'.page = 1 /\ job'.got = {}
        /\ job'.due = Between(served.bar, job.win.lo, job.win.hi)
        /\ pc' = "broker" /\ UNCHANGED <<served, bars>>
    BY <1>7 DEF Plan, IdleJob
  <2>2. ASSUME NEW d \in job'.due, <<s, d>> \notin bars
        PROVE  d \in job'.missing /\ Rank(Listed', d) > 0
    <3>1. d \in Days /\ d \in served.bar /\ d \in Between(Days, job.win.lo, job.win.hi) /\ d \in Nat
      BY <1>0, <2>1, DaysAssumption DEF Between, Days
    <3>2. d \in Missing(s, job.win)
      BY <2>2, <3>1 DEF Missing, Ingested
    <3>3. d \in Listed'
      BY <2>1, <3>1, <3>2 DEF Listed, Span
    <3>4. d \in {e \in Listed' : e >= d} /\ Listed' \in SUBSET Days
      BY <1>0, <2>1, <3>1, <3>3 DEF Listed
    <3>5. Rank(Listed', d) # 0 /\ Rank(Listed', d) \in Nat
      BY <3>4, RankFinite, FS_EmptySet DEF Rank
    <3> QED
      BY <2>1, <3>2, <3>5
  <2>3. (job'.page - 1) * PageLimit = 0
    BY <1>0, <2>1
  <2>4. \A d : Rank(Listed, d)' = Rank(Listed', d)
    BY DEF Rank
  <2> QED
    BY <2>1, <2>2, <2>3, <2>4 DEF DueInv, Between
<1>8. ASSUME NEW s \in job.todo, SkipCached(s) PROVE DueInv'
    BY <1>1, <1>8 DEF SkipCached
<1>9. ASSUME NEW d \in job.ask, FetchBroker(d) PROVE DueInv'
  <2>1. PICK rows : job' = [job EXCEPT !.ask = job.ask \ {d}, !.rows = rows]
    BY <1>9 DEF FetchBroker
  <2>2. UNCHANGED <<job.due, job.missing, job.page, job.sym, job.got>>
    BY <1>0, <2>1 DEF JobType
  <2>3. Asking /\ pc = "broker" /\ pc' # "bars" /\ UNCHANGED <<served, bars>>
    BY <1>9 DEF FetchBroker, Asking
  <2> QED
    BY <1>2, <2>2, <2>3 DEF DueInv
<1>10. ASSUME NEW x \in job.rows, SaveRow(x) PROVE DueInv'
  <2>1. job' = [job EXCEPT !.rows = job.rows \ {x}]
    BY <1>10 DEF SaveRow
  <2>2. UNCHANGED <<job.due, job.missing, job.page, job.sym, job.got>>
    BY <1>0, <2>1 DEF JobType
  <2>3. Asking /\ pc = "rows" /\ pc' # "bars" /\ UNCHANGED <<served, bars>>
    BY <1>10 DEF SaveRow, Asking
  <2> QED
    BY <1>2, <2>2, <2>3 DEF DueInv
<1>11. CASE FetchPage
  <2> DEFINE page == Page(job.page, Span(job.missing))
             a == (job.page - 1) * PageLimit
  <2>1. /\ job' = [job EXCEPT !.got = job.got \cup page, !.page = job.page + 1]
        /\ pc = "pages" /\ pc' = IF Cardinality(page) < PageLimit THEN "bars" ELSE "pages"
        /\ UNCHANGED <<served, bars>>
    BY <1>11 DEF FetchPage
  <2>2. /\ job'.got = job.got \cup page /\ job'.page = job.page + 1
        /\ UNCHANGED <<job.due, job.missing, job.sym>> /\ job.page \in Nat \ {0}
    BY <1>0, <2>1 DEF JobType
  <2>3. Listed \in SUBSET Days /\ Listed' = Listed
    BY <1>0, <2>1, <2>2 DEF Listed, Span
  <2>4. a \in Nat /\ job.page * PageLimit = a + PageLimit
    BY <1>0, <2>2
  <2>5. page = {e \in Listed : a < Rank(Listed, e) /\ Rank(Listed, e) <= a + PageLimit}
    BY <2>4 DEF Page, Listed, Rank
  <2> HIDE DEF a, page
  <2>6. ASSUME NEW d \in job.missing, d \in served.bar, Rank(Listed, d) > a, d \notin page
        PROVE  Rank(Listed, d) > a + PageLimit /\ pc' # "bars"
    <3>1. d \in Listed
      BY <1>0, <2>6, DaysAssumption DEF Listed, Span, Days
    <3>2. Rank(Listed, d) > a + PageLimit
      <4>1. Rank(Listed, d) \in Nat
        BY <2>3, RankFinite
      <4>2. ~(a < Rank(Listed, d) /\ Rank(Listed, d) <= a + PageLimit)
        BY <2>5, <2>6, <3>1
      <4> QED
        BY <1>0, <2>4, <2>6, <4>1, <4>2
    <3>3. Cardinality(page) >= PageLimit
      BY <2>3, <2>4, <2>5, <3>1, <3>2, FullPage
    <3>4. Cardinality(page) \in Nat
      <4>1. page \in SUBSET Listed
        BY <2>5
      <4> QED
        BY <2>3, <4>1, RankFinite, FS_Subset, FS_CardinalityType
    <3> QED
      BY <1>0, <2>1, <3>2, <3>3, <3>4
  <2>7. a + PageLimit = (job'.page - 1) * PageLimit
    BY <1>0, <2>2, <2>4
  <2>8. \A d : Rank(Listed, d)' = Rank(Listed, d)
    BY <2>3 DEF Rank
  <2>9. \A d \in job.due :
            /\ d \in served.bar
            /\ <<job.sym, d>> \in bars \/ d \in job.got \/ (d \in job.missing /\ Rank(Listed, d) > a)
    BY <2>1 DEF DueInv, Asking, a
  <2> QED
    BY <2>1, <2>2, <2>6, <2>7, <2>8, <2>9 DEF DueInv
<1>12. ASSUME NEW d \in job.got, SaveBar(d) PROVE DueInv'
  <2>1. /\ job' = [job EXCEPT !.got = job.got \ {d}]
        /\ bars' = bars \cup {<<job.sym, d>>}
        /\ pc = "bars" /\ UNCHANGED <<pc, served>>
    BY <1>12 DEF SaveBar
  <2>2. job'.got = job.got \ {d} /\ UNCHANGED <<job.due, job.sym>>
    BY <1>0, <2>1 DEF JobType
  <2> QED
    BY <2>1, <2>2 DEF DueInv, Asking
<1>13. CASE Report \/ End \/ CutOff
    BY <1>1, <1>13 DEF Report, End, CutOff
<1>14. CASE UNCHANGED vars
    BY <1>14 DEF vars, DueInv, Asking, Listed, Rank, Span
<1> QED
    BY <1>3, <1>4, <1>5, <1>6, <1>7, <1>8, <1>9, <1>10, <1>11, <1>12, <1>13, <1>14 DEF Next, RunStep

(* What one step may do: a name is reported with every day it was due.      *)
ReportsWhole == pc = "bars" /\ pc' = "next" => \A d \in job.due : <<job.sym, d>> \in bars

LEMMA ReportStep == RangeInv /\ [Next]_vars => ReportsWhole
<1> SUFFICES ASSUME RangeInv, [Next]_vars, pc = "bars", pc' = "next"
             PROVE  \A d \in job.due : <<job.sym, d>> \in bars
    BY DEF ReportsWhole
<1>1. Report
    BY DEF Next, RunStep, vars, ServeBar, ServeBroker, NextDay, Start, Plan, SkipCached, FetchBroker,
       SaveRow, FetchPage, SaveBar, End, CutOff
<1> QED
    BY <1>1 DEF Report, RangeInv, DueInv, Asking

(* A backfill range is never silently truncated: whatever the page size,    *)
(* however many bars appear between two pages of ohlcv_foreign and whatever *)
(* is stored already, a name is reported done only with every bar the feed  *)
(* served when its turn came.                                               *)
THEOREM RangesAreComplete == Spec => RangeComplete
<1>1. Init => RangeInv
  <2>1. Init => TypeOK
    BY DaysAssumption, FaultsAssumption, IdleJobType, NoWindowType
       DEF Init, TypeOK, PhaseOK, Days
  <2> QED
    BY <2>1 DEF Init, RangeInv, DueInv, CommitInv, OrderInv, Asking, BarCommitsDay
<1>2. RangeInv /\ [Next]_vars => RangeInv'
    BY CommitStep, DueStep DEF RangeInv
<1>3. RangeInv /\ [Next]_vars => [ReportsWhole]_vars
    BY ReportStep
<1>4. Spec => [][ReportsWhole]_vars
    BY <1>1, <1>2, <1>3, PTL DEF Spec
<1> QED
    BY <1>4 DEF RangeComplete, ReportsWhole
=============================================================================
