-------------------------- MODULE AutoTraderProofs --------------------------
(***************************************************************************)
(* What holds of AutoTrader for any universe, any prices, any limits and   *)
(* any number of days.  With crashes anywhere: Fast xor Haste and the run  *)
(* clocks with one terminal session, position identity with any number of  *)
(* them.  Without crashes and with one session: each day is one step of    *)
(* PaperBook, and the breakers bind.  Of its money, with any number of     *)
(* sessions: every row is of its type, the carried peak is a running high, *)
(* a paused mode without positions stays without, and the realized P&L is  *)
(* the sum of the recorded trades.                                         *)
(***************************************************************************)
EXTENDS AutoTrader, TLAPS, SetLemmas

-----------------------------------------------------------------------------
(* Who runs when: the control part both invariants rest on.                 *)

SessionShape ==
    /\ ses = [t \in Sessions |-> ses[t]]
    /\ \A t \in Sessions :
          /\ ses[t] = [pc |-> ses[t].pc, mode |-> ses[t].mode,
                       want |-> ses[t].want, row |-> ses[t].row]
          /\ ses[t].pc \in {"idle", "read", "write"}
          /\ ses[t].mode \in Modes
          /\ ses[t].want \in BOOLEAN

RunShape ==
    /\ pc \in {"idle", "entries", "insert"}
    /\ run = [mode |-> run.mode, row |-> run.row, book |-> run.book, closed |-> run.closed,
              todo |-> run.todo, realized |-> run.realized, equity |-> run.equity,
              peak |-> run.peak]
    /\ run.mode \in Modes

Shape ==
    /\ day \in Nat
    /\ st = [m \in Modes |-> st[m]]
    /\ pos = [m \in Modes |-> pos[m]]
    /\ trades = [m \in Modes |-> trades[m]]
    /\ SessionShape
    /\ RunShape

(* The database is one process's at a time: a toggle in progress means the  *)
(* terminal has it, a day-step in progress means a stepper has it.          *)
OneProcess ==
    /\ \A t \in Sessions : ses[t].pc # "idle" => holder = "terminal"
    /\ pc # "idle" => holder = "stepper"

Control == Shape /\ OneProcess

(* A toggle acts on what it read: the rival's row was disarmed and the own  *)
(* row is still what it was.                                                *)
TogglesCurrent ==
    \A t \in Sessions :
        /\ ses[t].pc # "idle" /\ ses[t].want => ~st[Other(ses[t].mode)].enabled
        /\ ses[t].pc = "write" => /\ ses[t].row.since = st[ses[t].mode].since
                                  /\ ses[t].row.last = st[ses[t].mode].last

(* A day-step runs for an armed mode, on a row nobody changes under it.     *)
StepCurrent ==
    pc # "idle" => /\ st[run.mode].enabled
                   /\ run.row.since = st[run.mode].since

DaysBehind == \A m \in Modes : st[m].last \in Nat /\ st[m].last <= day

ArmingInv == Control /\ TogglesCurrent /\ StepCurrent /\ DaysBehind /\ ArmedXor

OneSession == \A t, u \in Sessions : t = u

-----------------------------------------------------------------------------
(* Control is inductive.                                                    *)

LEMMA ControlInit == Init => Control
<1> SUFFICES ASSUME Init PROVE Control
    OBVIOUS
<1>1. SessionShape
    BY DEF Init, SessionShape, IdleSession, Modes
<1>2. RunShape
    BY DEF Init, RunShape, IdleRun, Modes
<1>3. /\ day \in Nat
      /\ st = [m \in Modes |-> st[m]]
      /\ pos = [m \in Modes |-> pos[m]]
      /\ trades = [m \in Modes |-> trades[m]]
    BY DEF Init
<1>4. OneProcess
    BY DEF Init, OneProcess, IdleSession
<1> QED
    BY <1>1, <1>2, <1>3, <1>4 DEF Control, Shape

LEMMA ControlStep == Control /\ [Next]_vars => Control'
<1> SUFFICES ASSUME Control, [Next]_vars PROVE Control'
    OBVIOUS
<1> USE DEF Control, Shape, OneProcess
<1>1. CASE NextDay
    BY <1>1, MaxDayAssumption DEF NextDay, SessionShape, RunShape
<1>2. ASSUME NEW p \in {"terminal", "stepper"}, OpenDatabase(p) PROVE Control'
    BY <1>2 DEF OpenDatabase, SessionShape, RunShape
<1>3. CASE CloseTerminal
    BY <1>3 DEF CloseTerminal, SessionShape, RunShape, IdleSession, Modes
<1>4. CASE CloseStepper
    BY <1>4 DEF CloseStepper, SessionShape, RunShape
<1>5. CASE Crash
    BY <1>5 DEF Crash, SessionShape, RunShape, IdleRun, Modes
<1>6. ASSUME NEW t \in Sessions, Toggle(t) PROVE Control'
  <2>1. ASSUME NEW m \in Modes, ReadRival(t, m) PROVE Control'
    BY <2>1 DEF ReadRival, SessionShape, RunShape
  <2>2. ASSUME NEW m \in Modes, StartDisarm(t, m) PROVE Control'
    BY <2>2 DEF StartDisarm, SessionShape, RunShape
  <2>3. CASE ReadPrev(t)
    BY <2>3 DEF ReadPrev, SessionShape, RunShape
  <2>4. CASE WriteArm(t)
    BY <2>4 DEF WriteArm, SessionShape, RunShape, IdleSession, Modes
  <2> QED
    BY <1>6, <2>1, <2>2, <2>3, <2>4 DEF Toggle
<1>7. ASSUME NEW m \in Modes, StepBegin(m) PROVE Control'
    BY <1>7 DEF StepBegin, SessionShape, RunShape
<1>8. ASSUME NEW s \in run.todo, TryEntry(s) PROVE Control'
    BY <1>8 DEF TryEntry, SessionShape, RunShape
<1>9. CASE Save
  <2>1. CASE DeleteBook
    BY <2>1 DEF DeleteBook, SessionShape, RunShape
  <2>2. ASSUME NEW p \in run.book, InsertPosition(p) PROVE Control'
    BY <2>2 DEF InsertPosition, SessionShape, RunShape
  <2>3. ASSUME NEW t \in run.closed, AppendTrade(t) PROVE Control'
    BY <2>3 DEF AppendTrade, SessionShape, RunShape
  <2>4. CASE WriteState
    BY <2>4 DEF WriteState, SessionShape, RunShape, IdleRun, Modes
  <2> QED
    BY <1>9, <2>1, <2>2, <2>3, <2>4 DEF Save
<1>10. CASE UNCHANGED vars
    BY <1>10 DEF vars, SessionShape, RunShape
<1> QED
    BY <1>1, <1>2, <1>3, <1>4, <1>5, <1>6, <1>7, <1>8, <1>9, <1>10 DEF Next

-----------------------------------------------------------------------------
(* Arming, for a terminal with at most one session.                         *)

LEMMA ArmingInit == Init => ArmingInv
<1> SUFFICES ASSUME Init PROVE ArmingInv
    OBVIOUS
<1>1. Control
    BY ControlInit
<1>2. TogglesCurrent /\ StepCurrent
    BY DEF Init, TogglesCurrent, StepCurrent, IdleSession
<1>3. DaysBehind /\ ArmedXor
    BY DEF Init, DaysBehind, ArmedXor, NewRow, Modes
<1> QED
    BY <1>1, <1>2, <1>3 DEF ArmingInv

(* The part of a step that reads no state but this.                         *)
LEMMA ArmingStep == OneSession /\ ArmingInv /\ [Next]_vars => ArmingInv'
<1> SUFFICES ASSUME OneSession, ArmingInv, [Next]_vars
             PROVE  (TogglesCurrent /\ StepCurrent /\ DaysBehind /\ ArmedXor)'
    BY ControlStep DEF ArmingInv
<1> DEFINE Goal == TogglesCurrent /\ StepCurrent /\ DaysBehind /\ ArmedXor
<1> USE DEF ArmingInv, Control, OneProcess, Shape
<1>1. CASE NextDay
    BY <1>1 DEF NextDay, TogglesCurrent, StepCurrent, DaysBehind, ArmedXor
<1>2. ASSUME NEW p \in {"terminal", "stepper"}, OpenDatabase(p) PROVE Goal'
    BY <1>2 DEF OpenDatabase, TogglesCurrent, StepCurrent, DaysBehind, ArmedXor
<1>3. CASE CloseTerminal
    BY <1>3 DEF CloseTerminal, TogglesCurrent, StepCurrent, DaysBehind, ArmedXor, IdleSession
<1>4. CASE CloseStepper
    BY <1>4 DEF CloseStepper, TogglesCurrent, StepCurrent, DaysBehind, ArmedXor
<1>5. CASE Crash
    BY <1>5 DEF Crash, TogglesCurrent, StepCurrent, DaysBehind, ArmedXor
<1>6. ASSUME NEW t \in Sessions, Toggle(t) PROVE Goal'
  <2> \A u \in Sessions : u = t
    BY DEF OneSession
  <2>1. ASSUME NEW m \in Modes, ReadRival(t, m) PROVE Goal'
    BY <2>1 DEF ReadRival, TogglesCurrent, StepCurrent, DaysBehind, ArmedXor, SessionShape
  <2>2. ASSUME NEW m \in Modes, StartDisarm(t, m) PROVE Goal'
    BY <2>2 DEF StartDisarm, TogglesCurrent, StepCurrent, DaysBehind, ArmedXor, SessionShape
  <2>3. CASE ReadPrev(t)
    BY <2>3 DEF ReadPrev, TogglesCurrent, StepCurrent, DaysBehind, ArmedXor, SessionShape
  <2>4. CASE WriteArm(t)
    <3>1. pc = "idle" /\ pc' = "idle"
      BY <2>4 DEF WriteArm, RunShape
    <3>2. TogglesCurrent' /\ StepCurrent'
      BY <2>4, <3>1 DEF WriteArm, TogglesCurrent, StepCurrent, SessionShape, IdleSession
    <3>3. DaysBehind'
      BY <2>4 DEF WriteArm, TogglesCurrent, DaysBehind, SessionShape, SetRow
    <3>4. ArmedXor'
      BY <2>4 DEF WriteArm, TogglesCurrent, ArmedXor, SessionShape, SetRow, Modes, Other
    <3> QED
      BY <3>2, <3>3, <3>4
  <2> QED
    BY <1>6, <2>1, <2>2, <2>3, <2>4 DEF Toggle
<1>7. ASSUME NEW m \in Modes, StepBegin(m) PROVE Goal'
    BY <1>7 DEF StepBegin, StepDue, TogglesCurrent, StepCurrent, DaysBehind, ArmedXor
<1>8. ASSUME NEW s \in run.todo, TryEntry(s) PROVE Goal'
    BY <1>8 DEF TryEntry, TogglesCurrent, StepCurrent, DaysBehind, ArmedXor, RunShape
<1>9. CASE Save
  <2>1. CASE DeleteBook
    BY <2>1 DEF DeleteBook, TogglesCurrent, StepCurrent, DaysBehind, ArmedXor
  <2>2. ASSUME NEW p \in run.book, InsertPosition(p) PROVE Goal'
    BY <2>2 DEF InsertPosition, TogglesCurrent, StepCurrent, DaysBehind, ArmedXor
  <2>3. ASSUME NEW t \in run.closed, AppendTrade(t) PROVE Goal'
    BY <2>3 DEF AppendTrade, TogglesCurrent, StepCurrent, DaysBehind, ArmedXor
  <2>4. CASE WriteState
    <3>1. \A t \in Sessions : ses[t].pc = "idle" /\ ses'[t].pc = "idle"
      BY <2>4 DEF WriteState, SessionShape
    <3>2. TogglesCurrent' /\ StepCurrent'
      BY <2>4, <3>1 DEF WriteState, TogglesCurrent, StepCurrent
    <3>3. DaysBehind' /\ ArmedXor'
      BY <2>4 DEF WriteState, StepCurrent, DaysBehind, ArmedXor, RunShape, Modes
    <3> QED
      BY <3>2, <3>3
  <2> QED
    BY <1>9, <2>1, <2>2, <2>3, <2>4 DEF Save
<1>10. CASE UNCHANGED vars
    BY <1>10 DEF vars, TogglesCurrent, StepCurrent, DaysBehind, ArmedXor
<1> QED
    BY <1>1, <1>2, <1>3, <1>4, <1>5, <1>6, <1>7, <1>8, <1>9, <1>10 DEF Next

(* Fast xor Haste: set_enabled never leaves both modes armed, as long as    *)
(* the terminal has at most one session toggling.                           *)
THEOREM FastXorHaste == ASSUME OneSession PROVE Spec => []ArmedXor
<1>1. Init => ArmingInv
    BY ArmingInit
<1>2. ArmingInv /\ [Next]_vars => ArmingInv'
    BY ArmingStep
<1>3. ArmingInv => ArmedXor
    BY DEF ArmingInv
<1> QED
    BY <1>1, <1>2, <1>3, PTL DEF Spec

(* What one step may do to the two clocks of a mode.                        *)
ClocksForward ==
    \A m \in Modes :
        /\ st'[m].last >= st[m].last
        /\ st[m].since # 0 => st'[m].since = st[m].since

LEMMA ClocksStep == ArmingInv /\ [Next]_vars => ClocksForward
<1> SUFFICES ASSUME ArmingInv, [Next]_vars PROVE ClocksForward
    OBVIOUS
<1> USE DEF ArmingInv, Control, Shape, ClocksForward
<1>1. CASE st' = st
    BY <1>1 DEF DaysBehind
<1>2. ASSUME NEW t \in Sessions, WriteArm(t) PROVE ClocksForward
    BY <1>2 DEF WriteArm, SetRow, TogglesCurrent, SessionShape, DaysBehind
<1>3. CASE WriteState
  <2>1. \A m \in Modes \ {run.mode} : st'[m] = st[m]
    BY <1>3 DEF WriteState
  <2>2. st'[run.mode].last >= st[run.mode].last
    BY <1>3 DEF WriteState, DaysBehind, RunShape
  <2>3. st[run.mode].since # 0 => st'[run.mode].since = st[run.mode].since
    BY <1>3 DEF WriteState, StepCurrent, RunShape
  <2> QED
    BY <2>1, <2>2, <2>3 DEF DaysBehind
<1>4. \/ st' = st
      \/ WriteState
      \/ \E t \in Sessions : WriteArm(t)
    BY DEF Next, vars, NextDay, OpenDatabase, CloseTerminal, CloseStepper, Crash, Toggle,
       ReadRival, StartDisarm, ReadPrev, StepBegin, TryEntry, Save, DeleteBook,
       InsertPosition, AppendTrade
<1> QED
    BY <1>1, <1>2, <1>3, <1>4

(* The processed-day guard never goes back and a stamped RULE B clock is    *)
(* never moved, whoever toggles, steps or crashes: run_fast_mode_step       *)
(* writes back the since_date it read, and nobody changes it meanwhile.     *)
THEOREM ClocksNeverBack == ASSUME OneSession PROVE Spec => ClocksKeep
<1>1. Init => ArmingInv
    BY ArmingInit
<1>2. ArmingInv /\ [Next]_vars => ArmingInv'
    BY ArmingStep
<1>3. ArmingInv /\ [Next]_vars => [ClocksForward]_vars
    BY ClocksStep
<1>4. Spec => [][ClocksForward]_vars
    BY <1>1, <1>2, <1>3, PTL DEF Spec
<1> QED
    BY <1>4 DEF ClocksKeep, ClocksForward

-----------------------------------------------------------------------------
(* Position identity, for any number of sessions.                           *)

OneOpen(book) == \A p, q \in book : p.sym = q.sym => p = q
OncePerEntry(recs) == \A t, u \in recs : t.sym = u.sym /\ t.entry = u.entry => t = u
Apart(book, recs) == \A p \in book, t \in recs : ~(p.sym = t.sym /\ p.entry = t.entry)
BookDated(book) == \A p \in book : p.sym \in Syms /\ p.entry \in Nat /\ p.entry <= day
TradesDated(recs) ==
    \A t \in recs : t.entry \in Nat /\ t.exit \in Nat /\ t.entry < t.exit /\ t.exit <= day

(* An exit is decided on a bar of the entry day or later, and that bar lies *)
(* before today: this is why no position is closed on its entry day.        *)
MarketBehind == \A s \in Syms : mkt[s].lastDay \in Nat /\ mkt[s].lastDay < day

TablesInv ==
    \A m \in Modes :
        /\ OneOpen(pos[m]) /\ BookDated(pos[m])
        /\ OncePerEntry(trades[m]) /\ TradesDated(trades[m])
        /\ Apart(pos[m], trades[m])

(* The stepper's locals: a crash throws them away, so the tables must be    *)
(* right at every step of the save without them.                            *)
LocalsInv ==
    /\ OneOpen(run.book) /\ BookDated(run.book)
    /\ OncePerEntry(run.closed) /\ TradesDated(run.closed)
    /\ Apart(run.book, run.closed)
    /\ Apart(run.book, trades[run.mode])
    /\ OncePerEntry(run.closed \cup trades[run.mode])
    /\ \A s \in run.todo : s \in Syms /\ s \notin Held(run.book)
    /\ pc = "insert" => pos[run.mode] \subseteq run.book

RunInv == pc # "idle" => LocalsInv

BookInv == Control /\ MarketBehind /\ TablesInv /\ RunInv

LEMMA BookInitially == Init => BookInv
<1> SUFFICES ASSUME Init PROVE BookInv
    OBVIOUS
<1>1. Control
    BY ControlInit
<1>2. MarketBehind
    BY DEF Init, MarketBehind
<1>3. TablesInv /\ RunInv
    BY DEF Init, TablesInv, RunInv, OneOpen, BookDated, OncePerEntry, TradesDated, Apart
<1> QED
    BY <1>1, <1>2, <1>3 DEF BookInv

(* Loading the book and closing the exiting positions.                      *)
LEMMA BeginLocals ==
    ASSUME NEW m \in Modes, BookInv, StepBegin(m)
    PROVE  LocalsInv'
<1> DEFINE book == pos[m] \ Exiting(pos[m])
           closed == {ClosedBy(p) : p \in Exiting(pos[m])}
<1> USE DEF BookInv, Control, Shape
<1>1. /\ run'.mode = m /\ run'.book = book /\ run'.closed = closed
      /\ run'.todo \subseteq Candidates(m, Held(pos[m]), book)
      /\ pc' = "entries"
      /\ UNCHANGED <<day, mkt, pos, trades>>
    BY DEF StepBegin, EntryQueue
<1>2. OneOpen(book) /\ BookDated(book) /\ Apart(book, trades[m])
    BY DEF TablesInv, OneOpen, BookDated, Apart
<1>3. \A c \in closed : \E p \in pos[m] :
          c.sym = p.sym /\ c.entry = p.entry /\ c.exit = day /\ p \in Exiting(pos[m])
                       /\ c = ClosedBy(p)
    BY DEF ClosedBy, Exiting
<1>4. \A p \in Exiting(pos[m]) : p \in pos[m] /\ p.entry < day
    BY DEF Exiting, ShouldExit, MarketBehind, TablesInv, BookDated
<1>5. OncePerEntry(closed)
    BY <1>3 DEF OncePerEntry, TablesInv, OneOpen
<1>6. TradesDated(closed)
    BY <1>3, <1>4 DEF TradesDated, TablesInv, BookDated
<1>7. Apart(book, closed)
    BY <1>3 DEF Apart, TablesInv, OneOpen
<1>8. OncePerEntry(closed \cup trades[m])
    BY <1>3, <1>5 DEF OncePerEntry, TablesInv, Apart
<1>9. \A s \in Candidates(m, Held(pos[m]), book) : s \in Syms /\ s \notin Held(book)
    BY DEF Candidates
<1> QED
    BY ZenonT(40), <1>1, <1>2, <1>5, <1>6, <1>7, <1>8, <1>9
       DEF LocalsInv, BookDated, TradesDated, OneOpen, OncePerEntry, Apart, Held

(* Buying one candidate.                                                    *)
LEMMA EntryLocals ==
    ASSUME NEW s \in run.todo, BookInv, TryEntry(s)
    PROVE  LocalsInv'
<1> USE DEF BookInv, Control, Shape, RunShape
<1>1. LocalsInv /\ pc = "entries" /\ pc' = "entries" /\ UNCHANGED <<day, pos, trades>>
    BY DEF TryEntry, RunInv
<1>2. /\ run'.mode = run.mode /\ run'.closed = run.closed
      /\ run'.todo = run.todo \ {s}
    BY DEF TryEntry
<1>3. PICK q : run'.book = run.book \/ run'.book = run.book \cup {Opened(s, q)}
    BY DEF TryEntry
<1>4. CASE run'.book = run.book
    BY <1>1, <1>2, <1>4 DEF LocalsInv, BookDated, TradesDated
<1>5. CASE run'.book = run.book \cup {Opened(s, q)}
  <2>1. Opened(s, q).sym = s /\ Opened(s, q).entry = day
    BY DEF Opened
  <2>2. s \in Syms /\ \A p \in run.book : p.sym # s
    BY <1>1 DEF LocalsInv, Held
  <2>3. OneOpen(run.book)' /\ BookDated(run.book)'
    BY <1>1, <1>5, <2>1, <2>2 DEF LocalsInv, OneOpen, BookDated
  <2>4. Apart(run.book, run.closed)' /\ Apart(run.book, trades[run.mode])'
    BY <1>1, <1>2, <1>5, <2>1 DEF LocalsInv, Apart, TradesDated, TablesInv
  <2>5. \A x \in run'.todo : x \in Syms /\ x \notin Held(run'.book)
    BY <1>1, <1>2, <1>5, <2>1 DEF LocalsInv, Held
  <2> QED
    BY <1>1, <1>2, <2>3, <2>4, <2>5 DEF LocalsInv, TradesDated, OncePerEntry
<1> QED
    BY <1>3, <1>4, <1>5

LEMMA BookStep == BookInv /\ [Next]_vars => BookInv'
<1> SUFFICES ASSUME BookInv, [Next]_vars PROVE (MarketBehind /\ TablesInv /\ RunInv)'
    BY ControlStep DEF BookInv
<1> DEFINE Goal == MarketBehind /\ TablesInv /\ RunInv
<1> USE DEF BookInv, Control, Shape, OneProcess
(* A step that touches neither the market, nor the tables, nor the stepper. *)
<1>0. ASSUME UNCHANGED <<day, mkt, pos, trades>>, pc' = "idle" \/ UNCHANGED <<pc, run>>
      PROVE  Goal'
    BY <1>0 DEF MarketBehind, TablesInv, RunInv, LocalsInv, BookDated, TradesDated
<1>1. CASE NextDay
  <2>1. MarketBehind'
    BY <1>1 DEF NextDay, MarketBehind
  <2>2. TablesInv'
    BY <1>1 DEF NextDay, TablesInv, BookDated, TradesDated
  <2> QED
    BY <1>1, <2>1, <2>2 DEF NextDay, RunInv
<1>2. CASE \E p \in {"terminal", "stepper"} : OpenDatabase(p)
    BY <1>2, <1>0 DEF OpenDatabase
<1>3. CASE CloseTerminal \/ CloseStepper
    BY <1>3, <1>0 DEF CloseTerminal, CloseStepper
<1>4. CASE Crash
    BY <1>4, <1>0 DEF Crash
<1>5. CASE \E t \in Sessions : Toggle(t)
    BY <1>5, <1>0 DEF Toggle, ReadRival, StartDisarm, ReadPrev, WriteArm
<1>6. ASSUME NEW m \in Modes, StepBegin(m) PROVE Goal'
    BY <1>6, BeginLocals DEF StepBegin, MarketBehind, TablesInv, RunInv, BookDated, TradesDated
<1>7. ASSUME NEW s \in run.todo, TryEntry(s) PROVE Goal'
    BY <1>7, EntryLocals DEF TryEntry, MarketBehind, TablesInv, RunInv, BookDated, TradesDated
<1>8. CASE Save
  <2>1. CASE DeleteBook
    BY <2>1 DEF DeleteBook, MarketBehind, TablesInv, RunInv, LocalsInv, RunShape,
       BookDated, TradesDated, OneOpen, Apart
  <2>2. ASSUME NEW p \in run.book, InsertPosition(p) PROVE Goal'
    <3>1. LocalsInv /\ UNCHANGED <<day, mkt, trades, pc, run>> /\ pc = "insert"
      BY <2>2 DEF InsertPosition, RunInv
    <3>2. pos'[run.mode] \subseteq run.book
      BY <2>2, <3>1 DEF InsertPosition, LocalsInv, RunShape
    <3>3. \A m \in Modes \ {run.mode} : pos'[m] = pos[m]
      BY <2>2 DEF InsertPosition
    <3>4. LocalsInv'
      BY <3>1, <3>2 DEF LocalsInv, BookDated, TradesDated
    <3>5. TablesInv'
      BY <3>1, <3>2, <3>3 DEF LocalsInv, TablesInv, BookDated, TradesDated, OneOpen, Apart
    <3> QED
      BY <3>1, <3>4, <3>5 DEF MarketBehind, RunInv
  <2>3. ASSUME NEW t \in run.closed, AppendTrade(t) PROVE Goal'
    <3>1. LocalsInv /\ UNCHANGED <<day, mkt, pos, pc, run>> /\ pc = "insert"
      BY <2>3 DEF AppendTrade, RunInv
    <3>2. trades'[run.mode] = trades[run.mode] \cup {t}
      BY <2>3 DEF AppendTrade, RunShape
    <3>3. \A m \in Modes \ {run.mode} : trades'[m] = trades[m]
      BY <2>3 DEF AppendTrade
    <3>4. LocalsInv'
      BY SMTT(30), <3>1, <3>2 DEF LocalsInv, BookDated, TradesDated, Apart, OncePerEntry
    <3>5. OncePerEntry(trades'[run.mode]) /\ Apart(run.book, trades'[run.mode])
      BY <3>1, <3>2 DEF LocalsInv, Apart, OncePerEntry
    <3>6. TablesInv'
      <4>1. Apart(pos[run.mode], trades'[run.mode])
        BY <3>1, <3>5 DEF LocalsInv, Apart
      <4>2. TradesDated(trades'[run.mode])
        BY <3>1, <3>2 DEF LocalsInv, TablesInv, TradesDated, RunShape
      <4>3. \A m \in Modes : OneOpen(pos[m]) /\ BookDated(pos[m])
        BY DEF TablesInv
      <4>4. \A m \in Modes : OncePerEntry(trades'[m]) /\ TradesDated(trades'[m])
                             /\ Apart(pos[m], trades'[m])
        BY <3>3, <3>5, <4>1, <4>2 DEF TablesInv
      <4> QED
        BY <3>1, <4>3, <4>4 DEF TablesInv, BookDated, TradesDated
    <3> QED
      BY <3>1, <3>4, <3>6 DEF MarketBehind, RunInv
  <2>4. CASE WriteState
    BY <2>4, <1>0 DEF WriteState
  <2> QED
    BY <1>8, <2>1, <2>2, <2>3, <2>4 DEF Save
<1>9. CASE UNCHANGED vars
    BY <1>9, <1>0 DEF vars
<1> QED
    BY <1>1, <1>2, <1>3, <1>4, <1>5, <1>6, <1>7, <1>8, <1>9 DEF Next

(* Whatever is interrupted wherever, a position is held once, closed once,  *)
(* later than it was opened, and never held again: replace_fast_positions   *)
(* and append_fast_trades keep paper_position and paper_trade disjoint at   *)
(* every statement.                                                         *)
THEOREM PositionsKeepIdentity == Spec => []PositionIdentity
<1>1. Init => BookInv
    BY BookInitially
<1>2. BookInv /\ [Next]_vars => BookInv'
    BY BookStep
<1>3. BookInv => PositionIdentity
    BY DEF BookInv, TablesInv, PositionIdentity, OneOpen, OncePerEntry, TradesDated, Apart
<1> QED
    BY <1>1, <1>2, <1>3, PTL DEF Spec

-----------------------------------------------------------------------------
(* The refinement, for a stepper that is not killed inside a day-step and a *)
(* terminal with at most one session.                                       *)

(* Between day-steps a book holds nothing newer than its processed day; in  *)
(* a day-step the day is still ahead of it, and what is closed, is closed   *)
(* today.                                                                   *)
WholeDays ==
    /\ day \in 1..MaxDay
    /\ \A m \in Modes : ~Saving(m) => \A p \in pos[m] : p.entry <= st[m].last
    /\ pc # "idle" => /\ st[run.mode].last < day
                      /\ \A t \in run.closed : t.exit = day

DaysInv == ArmingInv /\ BookInv /\ WholeDays

LEMMA DaysInit == Init => DaysInv
<1> SUFFICES ASSUME Init PROVE WholeDays
    BY ArmingInit, BookInitially DEF DaysInv
<1> QED
    BY MaxDayAssumption DEF Init, WholeDays

LEMMA DaysStep ==
    ASSUME OneSession, ~CrashAllowed
    PROVE  DaysInv /\ [Next]_vars => DaysInv'
<1> SUFFICES ASSUME DaysInv, [Next]_vars PROVE WholeDays'
    BY ArmingStep, BookStep DEF DaysInv
<1> USE DEF DaysInv, ArmingInv, Control, OneProcess, Shape
<1>1. CASE NextDay
    BY <1>1, MaxDayAssumption DEF NextDay, WholeDays, Saving
(* A step that touches neither the days, nor the book, nor the stepper.     *)
<1>2. ASSUME UNCHANGED <<day, pos, pc, run>>,
             \A m \in Modes : st'[m].last = st[m].last
      PROVE  WholeDays'
    BY <1>2 DEF WholeDays, Saving, RunShape
<1>3. CASE \E p \in {"terminal", "stepper"} : OpenDatabase(p)
    BY <1>3, <1>2 DEF OpenDatabase
<1>4. CASE CloseTerminal \/ CloseStepper
    BY <1>4, <1>2 DEF CloseTerminal, CloseStepper
<1>5. ~Crash
    BY DEF Crash
<1>6. ASSUME NEW t \in Sessions, Toggle(t) PROVE WholeDays'
  <2>1. CASE st' = st
    BY <1>6, <2>1, <1>2 DEF Toggle, ReadRival, StartDisarm, ReadPrev, WriteArm
  <2>2. CASE WriteArm(t)
    <3>1. \A m \in Modes : st'[m].last = st[m].last
      BY <2>2 DEF WriteArm, SetRow, TogglesCurrent, SessionShape
    <3> QED
      BY <2>2, <3>1, <1>2 DEF WriteArm
  <2> QED
    BY <1>6, <2>1, <2>2 DEF Toggle, ReadRival, StartDisarm, ReadPrev
<1>7. ASSUME NEW m \in Modes, StepBegin(m) PROVE WholeDays'
  <2>1. /\ run'.mode = m /\ UNCHANGED <<day, pos, st>> /\ st[m].last < day
        /\ run'.closed = {ClosedBy(p) : p \in Exiting(pos[m])} /\ pc = "idle"
    BY <1>7 DEF StepBegin, StepDue, DaysBehind
  <2> QED
    BY <2>1 DEF WholeDays, Saving, ClosedBy
<1>8. ASSUME NEW s \in run.todo, TryEntry(s) PROVE WholeDays'
    BY <1>8 DEF TryEntry, WholeDays, Saving, RunShape
<1>9. CASE Save
  <2>1. CASE DeleteBook
    BY <2>1 DEF DeleteBook, WholeDays, Saving, RunShape
  <2>2. ASSUME NEW p \in run.book, InsertPosition(p) PROVE WholeDays'
    BY <2>2 DEF InsertPosition, WholeDays, Saving, RunShape
  <2>3. ASSUME NEW t \in run.closed, AppendTrade(t) PROVE WholeDays'
    BY <2>3 DEF AppendTrade, WholeDays, Saving
  <2>4. CASE WriteState
    <3>1. /\ pos' = pos /\ pos[run.mode] = run.book /\ day' = day /\ pc' = "idle"
          /\ st'[run.mode].last = day /\ run.mode \in Modes
          /\ \A m \in Modes \ {run.mode} : st'[m] = st[m]
      BY <2>4 DEF WriteState, RunShape
    <3>2. \A p \in run.book : p.entry <= day
      BY <2>4 DEF WriteState, BookInv, RunInv, LocalsInv, BookDated
    <3> QED
      BY <3>1, <3>2 DEF WholeDays, Saving
  <2> QED
    BY <1>9, <2>1, <2>2, <2>3, <2>4 DEF Save
<1>10. CASE UNCHANGED vars
    BY <1>10, <1>2 DEF vars
<1> QED
    BY <1>1, <1>3, <1>4, <1>5, <1>6, <1>7, <1>8, <1>9, <1>10 DEF Next

(* The abstract book, by name.                                              *)
OpenNow(m) == IF Saving(m) THEN LoadedBook ELSE {Id(p) : p \in pos[m]}
ClosedNow(m) ==
    {[sym |-> t.sym, entry |-> t.entry, exit |-> t.exit] :
        t \in IF Saving(m) THEN trades[m] \ run.closed ELSE trades[m]}

LEMMA BookInitial == Init => Book!BookInit
<1> SUFFICES ASSUME Init PROVE Book!BookInit
    OBVIOUS
<1>1. \A m \in Modes : /\ st[m].enabled = FALSE /\ st[m].last = 0
                       /\ pos[m] = {} /\ trades[m] = {} /\ ~Saving(m)
    BY DEF Init, NewRow, Saving
<1>2. Modes = Book!BookModes
    BY DEF Modes, Book!BookModes
<1>3. [m \in Modes |-> st[m].enabled] = [m \in Book!BookModes |-> FALSE]
    BY <1>1, <1>2
<1>4. [m \in Modes |-> st[m].last] = [m \in Book!BookModes |-> 0]
    BY <1>1, <1>2
<1>5. \A m \in Modes : OpenNow(m) = {} /\ ClosedNow(m) = {}
    BY <1>1 DEF OpenNow, ClosedNow
<1> QED
    BY <1>2, <1>3, <1>4, <1>5 DEF Book!BookInit, OpenNow, ClosedNow

(* A step that leaves every mode's row, open positions and closed trades as *)
(* the abstract book sees them is no step of the abstract book.             *)
LEMMA BookStutters ==
    ASSUME \A m \in Modes : /\ st'[m].enabled = st[m].enabled /\ st'[m].last = st[m].last
                            /\ OpenNow(m)' = OpenNow(m) /\ ClosedNow(m)' = ClosedNow(m)
    PROVE  UNCHANGED Book!bookVars
<1>1. [m \in Modes |-> st[m].enabled]' = [m \in Modes |-> st[m].enabled]
    OBVIOUS
<1>2. [m \in Modes |-> st[m].last]' = [m \in Modes |-> st[m].last]
    OBVIOUS
<1>3. [m \in Modes |-> OpenNow(m)]' = [m \in Modes |-> OpenNow(m)]
    OBVIOUS
<1>4. [m \in Modes |-> ClosedNow(m)]' = [m \in Modes |-> ClosedNow(m)]
    OBVIOUS
<1> QED
    BY <1>1, <1>2, <1>3, <1>4 DEF Book!bookVars, OpenNow, ClosedNow

(* set_enabled arms or disarms.                                             *)
LEMMA ArmingMoves ==
    ASSUME NEW t \in Sessions, DaysInv, WriteArm(t)
    PROVE  \E n \in Book!BookModes : Book!Arm(n) \/ Book!Disarm(n)
<1> USE DEF DaysInv, ArmingInv, Control, Shape, OneProcess
<1>0. PICK m \in Modes : m = ses[t].mode
    BY DEF SessionShape
<1>1. /\ m \in Modes /\ ses[t].want \in BOOLEAN /\ pc = "idle" /\ UNCHANGED <<pos, trades, pc, run>>
      /\ st' = [st EXCEPT ![m] = SetRow(ses[t].row, ses[t].want)]
      /\ SetRow(ses[t].row, ses[t].want).last = st[m].last
      /\ SetRow(ses[t].row, ses[t].want).enabled = ses[t].want
    BY <1>0 DEF WriteArm, SetRow, TogglesCurrent, SessionShape
<1>2. ses[t].want => ~st[Other(m)].enabled
    BY <1>0 DEF WriteArm, TogglesCurrent
<1>3. Modes = Book!BookModes /\ Other(m) = Book!Rival(m)
    BY DEF Modes, Book!BookModes, Other, Book!Rival
<1>4. [n \in Modes |-> st[n].last]' = [n \in Modes |-> st[n].last]
    BY <1>1
<1>5. [n \in Modes |-> st[n].enabled]' = [[n \in Modes |-> st[n].enabled] EXCEPT ![m] = ses[t].want]
    BY <1>1
<1>6. \A n \in Modes : OpenNow(n)' = OpenNow(n) /\ ClosedNow(n)' = ClosedNow(n)
    BY <1>1 DEF OpenNow, ClosedNow, Saving
<1>7. /\ [n \in Modes |-> OpenNow(n)]' = [n \in Modes |-> OpenNow(n)]
      /\ [n \in Modes |-> ClosedNow(n)]' = [n \in Modes |-> ClosedNow(n)]
    BY <1>6
<1>10. m \in Book!BookModes
    BY <1>1, <1>3
<1>8. CASE ses[t].want = TRUE
  <2>1. ~[n \in Modes |-> st[n].enabled][Book!Rival(m)]
    BY <1>2, <1>3, <1>8, <1>1 DEF Other, Modes
  <2>2. Book!Arm(m)
    BY <1>4, <1>5, <1>7, <1>8, <2>1 DEF Book!Arm, OpenNow, ClosedNow
  <2> QED
    BY <1>10, <2>2
<1>9. CASE ses[t].want = FALSE
  <2>1. Book!Disarm(m)
    BY <1>4, <1>5, <1>7, <1>9 DEF Book!Disarm, OpenNow, ClosedNow
  <2> QED
    BY <1>10, <2>1
<1> QED
    BY <1>1, <1>8, <1>9

(* Loading the book leaves the abstract book as it was.                     *)
LEMMA BeginStutters ==
    ASSUME NEW m \in Modes, DaysInv, StepBegin(m)
    PROVE  UNCHANGED Book!bookVars
<1> DEFINE book == pos[m] \ Exiting(pos[m])
           closed == {ClosedBy(p) : p \in Exiting(pos[m])}
<1>1. /\ run'.mode = m /\ run'.book = book /\ run'.closed = closed
      /\ pc = "idle" /\ pc' = "entries" /\ st[m].last < day
      /\ UNCHANGED <<day, mkt, pos, trades, st>>
    BY DEF StepBegin, StepDue, DaysInv, ArmingInv, DaysBehind
<1>2. Exiting(pos[m]) \subseteq pos[m] /\ \A p \in pos[m] : p.entry < day
  <2>1. \A p \in pos[m] : p.entry <= st[m].last /\ p.entry \in Nat
    BY <1>1 DEF DaysInv, WholeDays, Saving, BookInv, TablesInv, BookDated
  <2> QED
    BY <1>1, <2>1 DEF Exiting, DaysInv, ArmingInv, DaysBehind, Control, Shape
<1>3. {Id(p) : p \in {q \in book : q.entry < day}} \cup {Id(t) : t \in closed} = {Id(p) : p \in pos[m]}
  <2>1. {q \in book : q.entry < day} = book
    BY <1>2
  <2>2. \A p : Id(ClosedBy(p)) = Id(p)
    BY DEF Id, ClosedBy
  <2> QED
    BY <1>2, <2>1, <2>2
<1>4. trades[m] \ closed = trades[m]
  <2>1. \A p \in pos[m] : ClosedBy(p) \notin trades[m]
    BY DEF DaysInv, BookInv, TablesInv, Apart, ClosedBy
  <2> QED
    BY <1>2, <2>1
<1>5. OpenNow(m)' = OpenNow(m)
    BY <1>1, <1>3 DEF OpenNow, LoadedBook, Saving, Id
<1>6. ClosedNow(m)' = ClosedNow(m)
    BY <1>1, <1>4 DEF ClosedNow, Saving
<1>7. \A n \in Modes \ {m} : OpenNow(n)' = OpenNow(n) /\ ClosedNow(n)' = ClosedNow(n)
    BY <1>1 DEF OpenNow, ClosedNow, Saving
<1> QED
    BY <1>1, <1>5, <1>6, <1>7, BookStutters

(* So do the entry loop and the statements of the save.                     *)
LEMMA SavingStutters ==
    ASSUME DaysInv,
           \/ \E s \in run.todo : TryEntry(s)
           \/ DeleteBook
           \/ \E p \in run.book : InsertPosition(p)
           \/ \E t \in run.closed : AppendTrade(t)
    PROVE  UNCHANGED Book!bookVars
<1>1. /\ pc # "idle" /\ pc' # "idle" /\ UNCHANGED <<day, st>> /\ run.mode \in Modes
      /\ run'.mode = run.mode /\ run'.closed = run.closed
      /\ \A m \in Modes \ {run.mode} : pos'[m] = pos[m] /\ trades'[m] = trades[m]
    BY DEF DaysInv, ArmingInv, Control, Shape, RunShape, TryEntry, DeleteBook, InsertPosition, AppendTrade
<1>2. {q \in run'.book : q.entry < day} = {q \in run.book : q.entry < day}
  <2>1. ASSUME NEW s \in run.todo, TryEntry(s)
        PROVE  {q \in run'.book : q.entry < day} = {q \in run.book : q.entry < day}
    <3>1. PICK k : run'.book = run.book \/ run'.book = run.book \cup {Opened(s, k)}
      BY <2>1 DEF TryEntry, DaysInv, ArmingInv, Control, Shape, RunShape
    <3>2. Opened(s, k).entry = day /\ ~(day < day)
      BY DEF Opened, DaysInv, ArmingInv, Control, Shape
    <3> QED
      BY <3>1, <3>2
  <2> QED
    BY <2>1 DEF DeleteBook, InsertPosition, AppendTrade
<1>3. trades'[run.mode] \ run.closed = trades[run.mode] \ run.closed
  <2>1. ASSUME NEW t \in run.closed, AppendTrade(t)
        PROVE  trades'[run.mode] \ run.closed = trades[run.mode] \ run.closed
    BY <2>1 DEF AppendTrade, DaysInv, ArmingInv, Control, Shape, RunShape
  <2> QED
    BY <2>1 DEF TryEntry, DeleteBook, InsertPosition
<1>4. OpenNow(run.mode)' = OpenNow(run.mode)
    BY <1>1, <1>2 DEF OpenNow, LoadedBook, Saving, Id
<1>5. ClosedNow(run.mode)' = ClosedNow(run.mode)
    BY <1>1, <1>3 DEF ClosedNow, Saving
<1>6. \A n \in Modes \ {run.mode} : OpenNow(n)' = OpenNow(n) /\ ClosedNow(n)' = ClosedNow(n)
    BY <1>1 DEF OpenNow, ClosedNow, Saving
<1> QED
    BY <1>1, <1>4, <1>5, <1>6, BookStutters

(* At the commit point every trade of the step is on record, as itself.     *)
LEMMA ClosedRecorded ==
    ASSUME BookInv, WriteState
    PROVE  run.closed \subseteq trades[run.mode]
<1>1. LocalsInv
    BY DEF WriteState, BookInv, RunInv
<1>2. ASSUME NEW t \in run.closed PROVE t \in trades[run.mode]
  <2>1. PICK old \in trades[run.mode] : TradeKey(old) = TradeKey(t)
    BY DEF WriteState
  <2>2. old.sym = t.sym /\ old.entry = t.entry
    BY <2>1 DEF TradeKey
  <2> QED
    BY <1>1, <2>2 DEF LocalsInv, OncePerEntry
<1> QED
    BY <1>2

(* The commit point is the whole day-step: what exits leave the book as     *)
(* trades of the day, what was bought is new in it, all the rest is kept.   *)
LEMMA CommitMoves ==
    ASSUME DaysInv, WriteState
    PROVE  \E m \in Book!BookModes, d \in 1..MaxDay : Book!DayStep(m, d)
<1> USE DEF DaysInv, ArmingInv, Control, Shape, OneProcess
<1>1. PICK m \in Modes : m = run.mode
    BY DEF RunShape
<1>2. PICK d \in 1..MaxDay : d = day
    BY DEF WholeDays
<1>3. /\ pc = "insert" /\ pc' = "idle" /\ UNCHANGED <<day, pos, trades>> /\ pos[m] = run.book
      /\ st[m].enabled /\ st[m].last < d
      /\ st'[m].enabled = TRUE /\ st'[m].last = d
      /\ \A n \in Modes \ {m} : st'[n] = st[n]
    BY <1>1, <1>2 DEF WriteState, StepCurrent, WholeDays
<1>4. m \in Book!BookModes /\ Modes = Book!BookModes
    BY DEF Modes, Book!BookModes
<1>5. LocalsInv /\ Saving(m) /\ ~Saving(m)' /\ \A n \in Modes \ {m} : ~Saving(n) /\ ~Saving(n)'
    BY <1>1, <1>3 DEF BookInv, RunInv, Saving
<1>6. run.closed \subseteq trades[m]
    BY <1>1, ClosedRecorded
<1> DEFINE out == {Id(t) : t \in run.closed}
           bought == {p.sym : p \in {q \in run.book : q.entry = day}}
           kept == LoadedBook \ out
<1>7. OpenNow(m) = LoadedBook /\ OpenNow(m)' = {Id(p) : p \in run.book}
    BY <1>3, <1>5 DEF OpenNow, Id
<1>8. kept = {Id(p) : p \in {q \in run.book : q.entry < day}}
  <2>1. \A p \in run.book : Id(p) \notin out
    BY <1>5 DEF LocalsInv, Apart, Id
  <2> QED
    BY <2>1 DEF LoadedBook
<1>9. OpenNow(m)' = kept \cup {[sym |-> s, entry |-> d] : s \in bought}
  <2>1. \A p \in run.book : p.entry < day \/ p.entry = day
    BY <1>5 DEF LocalsInv, BookDated
  <2>2. {Id(p) : p \in {q \in run.book : q.entry = day}} = {[sym |-> s, entry |-> d] : s \in bought}
    BY <1>2 DEF Id
  <2>3. {Id(p) : p \in run.book} = {Id(p) : p \in {q \in run.book : q.entry < day}}
                                   \cup {Id(p) : p \in {q \in run.book : q.entry = day}}
    BY <2>1
  <2> QED
    BY <1>7, <1>8, <2>2, <2>3
<1>10. out \in SUBSET {p \in OpenNow(m) : p.entry < d}
  <2>1. \A t \in run.closed : t.entry < day
    BY <1>3, <1>5 DEF WholeDays, LocalsInv, TradesDated
  <2> QED
    BY <1>2, <1>7, <2>1 DEF LoadedBook, Id
<1>11. bought \in SUBSET Syms /\ \A p \in kept : p.sym \notin bought
  <2>1. bought \in SUBSET Syms
    BY <1>5 DEF LocalsInv, BookDated
  <2>2. ASSUME NEW p \in run.book, NEW q \in run.book, p.entry < day, q.entry = day
        PROVE  p.sym # q.sym
    BY <1>5, <2>2 DEF LocalsInv, OneOpen
  <2> QED
    BY <1>8, <2>1, <2>2 DEF Id
<1>12. ClosedNow(m)' = ClosedNow(m)
                       \cup {[sym |-> p.sym, entry |-> p.entry, exit |-> d] : p \in out}
  <2>1. {[sym |-> p.sym, entry |-> p.entry, exit |-> d] : p \in out}
          = {[sym |-> t.sym, entry |-> t.entry, exit |-> t.exit] : t \in run.closed}
    <3>1. \A t \in run.closed : t.exit = d
      BY <1>2, <1>3 DEF WholeDays
    <3> DEFINE Exit(p) == [sym |-> p.sym, entry |-> p.entry, exit |-> d]
               Row(t) == [sym |-> t.sym, entry |-> t.entry, exit |-> t.exit]
    <3>2. \A t \in run.closed : Exit(Id(t)) = Row(t)
      BY <3>1 DEF Id
    <3> HIDE DEF Exit, Row
    <3>3. {Exit(p) : p \in out} = {Row(t) : t \in run.closed}
      BY <3>2
    <3> QED
      BY <3>3 DEF Exit, Row
  <2>2. trades[m] = (trades[m] \ run.closed) \cup run.closed
    BY <1>6
  <2>3. ClosedNow(m) = {[sym |-> t.sym, entry |-> t.entry, exit |-> t.exit] :
                            t \in trades[m] \ run.closed}
    BY <1>5 DEF ClosedNow
  <2>4. ClosedNow(m)' = {[sym |-> t.sym, entry |-> t.entry, exit |-> t.exit] : t \in trades[m]}
    BY <1>3, <1>5 DEF ClosedNow
  <2> QED
    BY <2>1, <2>2, <2>3, <2>4
<1> HIDE DEF out, bought, kept
<1>13. \A n \in Modes \ {m} : OpenNow(n)' = OpenNow(n) /\ ClosedNow(n)' = ClosedNow(n)
    BY <1>3, <1>5 DEF OpenNow, ClosedNow
<1>14. /\ [n \in Modes |-> st[n].enabled][m]
       /\ d > [n \in Modes |-> st[n].last][m]
    BY <1>3
<1>15. /\ [n \in Modes |-> st[n].enabled]' = [n \in Modes |-> st[n].enabled]
       /\ [n \in Modes |-> st[n].last]' = [[n \in Modes |-> st[n].last] EXCEPT ![m] = d]
  <2>1. st[m].enabled \in BOOLEAN
    BY <1>3
  <2> QED
    BY <1>3, <2>1
<1>16. Book!DayStep(m, d)
  <2>1. [n \in Modes |-> OpenNow(n)]' =
            [[n \in Modes |-> OpenNow(n)] EXCEPT
                ![m] = kept \cup {[sym |-> s, entry |-> d] : s \in bought}]
    BY <1>9, <1>13
  <2>2. [n \in Modes |-> ClosedNow(n)]' =
            [[n \in Modes |-> ClosedNow(n)] EXCEPT
                ![m] = @ \cup {[sym |-> p.sym, entry |-> p.entry, exit |-> d] : p \in out}]
    BY <1>12, <1>13
  <2>3. [n \in Modes |-> OpenNow(n)][m] = OpenNow(m) /\ kept = OpenNow(m) \ out
    BY <1>7 DEF kept
  <2> QED
    BY <1>10, <1>11, <1>14, <1>15, <2>1, <2>2, <2>3 DEF Book!DayStep, OpenNow, ClosedNow
<1> QED
    BY <1>4, <1>16

(* Every step of the desk is a step of the abstract book, or none.          *)
LEMMA BookMoves ==
    ASSUME ~CrashAllowed
    PROVE  DaysInv /\ [Next]_vars => [Book!BookNext]_Book!bookVars
<1> SUFFICES ASSUME DaysInv, [Next]_vars PROVE [Book!BookNext]_Book!bookVars
    OBVIOUS
<1>1. ASSUME UNCHANGED <<pos, trades, st>>, pc = "idle", pc' = "idle"
      PROVE  UNCHANGED Book!bookVars
  <2>1. \A m \in Modes : OpenNow(m)' = OpenNow(m) /\ ClosedNow(m)' = ClosedNow(m)
    BY <1>1 DEF OpenNow, ClosedNow, Saving
  <2> QED
    BY <1>1, <2>1, BookStutters
<1>2. ASSUME UNCHANGED <<day, pos, trades, st, pc, run>> PROVE UNCHANGED Book!bookVars
  <2>1. \A m \in Modes : OpenNow(m)' = OpenNow(m) /\ ClosedNow(m)' = ClosedNow(m)
    BY <1>2 DEF OpenNow, ClosedNow, Saving, LoadedBook
  <2> QED
    BY <1>2, <2>1, BookStutters
<1>3. CASE NextDay
    BY <1>3, <1>1 DEF NextDay
<1>4. CASE \/ \E p \in {"terminal", "stepper"} : OpenDatabase(p)
           \/ CloseTerminal
           \/ CloseStepper
           \/ UNCHANGED vars
    BY <1>4, <1>2 DEF OpenDatabase, CloseTerminal, CloseStepper, vars
<1>5. ~Crash
    BY DEF Crash
<1>6. ASSUME NEW t \in Sessions, Toggle(t) PROVE [Book!BookNext]_Book!bookVars
  <2>1. CASE WriteArm(t)
    BY <2>1, ArmingMoves DEF Book!BookNext
  <2>2. CASE (\E m \in Modes : ReadRival(t, m) \/ StartDisarm(t, m)) \/ ReadPrev(t)
    BY <2>2, <1>2 DEF ReadRival, StartDisarm, ReadPrev
  <2> QED
    BY <1>6, <2>1, <2>2 DEF Toggle
<1>7. CASE \E m \in Modes : StepBegin(m)
    BY <1>7, BeginStutters
<1>8. CASE WriteState
    BY <1>8, CommitMoves DEF Book!BookNext
<1>9. CASE (\E s \in run.todo : TryEntry(s)) \/ (Save /\ ~WriteState)
    BY <1>9, SavingStutters DEF Save
<1> QED
    BY <1>3, <1>4, <1>5, <1>6, <1>7, <1>8, <1>9 DEF Next, Save

(* Arming and the day-step keep what PaperBook promises, for any universe,  *)
(* market and money: a day is taken whole or not at all, never twice, never *)
(* backwards; a position leaves only as a trade of a later day; a held name *)
(* is not bought again; one mode is armed at a time.                        *)
THEOREM DeskImplementsBook ==
    ASSUME OneSession, ~CrashAllowed
    PROVE  Spec => ImplementsPaperBook
<1>1. Init => DaysInv /\ Book!BookInit
    BY DaysInit, BookInitial
<1>2. DaysInv /\ [Next]_vars => DaysInv'
    BY DaysStep
<1>3. DaysInv /\ [Next]_vars => [Book!BookNext]_Book!bookVars
    BY BookMoves
<1> QED
    BY <1>1, <1>2, <1>3, PTL DEF Spec, ImplementsPaperBook, Book!BookSpec
-----------------------------------------------------------------------------
(* The circuit breakers.                                                    *)

(* A day-step that found a breaker tripped has nothing left to buy, and its *)
(* book holds earlier days' positions only.                                 *)
NothingBought ==
    pc # "idle" /\ Tripped(run.equity, st[run.mode].prev, run.peak) =>
        run.todo = {} /\ \A p \in run.book : p.entry < day

LEMMA NothingBoughtInit == Init => NothingBought
BY DEF Init, NothingBought

LEMMA NothingBoughtStep == DaysInv /\ NothingBought /\ [Next]_vars => NothingBought'
<1> SUFFICES ASSUME DaysInv, NothingBought, [Next]_vars PROVE NothingBought'
    OBVIOUS
<1> USE DEF DaysInv, ArmingInv, Control, Shape, OneProcess
<1>1. CASE pc' = "idle"
    BY <1>1 DEF NothingBought
<1>2. ASSUME UNCHANGED <<day, st, run>>, pc # "idle" PROVE NothingBought'
    BY <1>2 DEF NothingBought, Tripped, PauseTripped, HaltTripped
<1>3. CASE NextDay \/ CloseStepper \/ Crash \/ WriteState
    BY <1>3, <1>1 DEF NextDay, CloseStepper, Crash, WriteState
<1>4. CASE \/ \E p \in {"terminal", "stepper"} : OpenDatabase(p)
           \/ CloseTerminal
           \/ \E t \in Sessions : Toggle(t)
    BY <1>4, <1>1, <1>2 DEF OpenDatabase, CloseTerminal, Toggle, ReadRival, StartDisarm, ReadPrev,
       WriteArm
<1>5. ASSUME NEW m \in Modes, StepBegin(m) PROVE NothingBought'
  <2>1. /\ run'.mode = m /\ UNCHANGED <<day, pos, st>> /\ st[m].last < day
        /\ run'.book \subseteq pos[m] /\ pc = "idle"
        /\ Tripped(run'.equity, st[m].prev, run'.peak) => run'.todo = {}
    BY <1>5 DEF StepBegin, StepDue, DaysBehind, EntryQueue
  <2>2. \A p \in pos[m] : p.entry < day
    BY <2>1 DEF WholeDays, Saving, BookInv, TablesInv, BookDated, DaysBehind
  <2> QED
    BY <2>1, <2>2 DEF NothingBought, Tripped, PauseTripped, HaltTripped
<1>6. ASSUME NEW s \in run.todo, TryEntry(s) PROVE NothingBought'
    BY <1>6 DEF TryEntry, NothingBought, Tripped, PauseTripped, HaltTripped, RunShape
<1>7. CASE Save
    BY <1>7, <1>1, <1>2 DEF Save, DeleteBook, InsertPosition, AppendTrade, WriteState
<1>8. CASE UNCHANGED vars
    BY <1>8, <1>1, <1>2 DEF vars
<1> QED
    BY <1>3, <1>4, <1>5, <1>6, <1>7, <1>8 DEF Next

(* What one step may do: no committed day that fell through a limit opened  *)
(* a position.                                                              *)
BreakersHold ==
    \A m \in Modes :
        st'[m].last # st[m].last /\ Tripped(st'[m].prev, st[m].prev, st'[m].peak)
            => \A p \in pos'[m] : p.entry # st'[m].last

LEMMA BreakersStep == DaysInv /\ NothingBought /\ [Next]_vars => BreakersHold
<1> SUFFICES ASSUME DaysInv, NothingBought, [Next]_vars PROVE BreakersHold
    OBVIOUS
<1> USE DEF DaysInv, ArmingInv, Control, Shape
<1>1. CASE \A m \in Modes : st'[m].last = st[m].last
    BY <1>1 DEF BreakersHold
<1>2. CASE WriteState
  <2>1. \A m \in Modes \ {run.mode} : st'[m] = st[m]
    BY <1>2 DEF WriteState
  <2>2. /\ pc # "idle" /\ pos' = pos /\ pos[run.mode] = run.book /\ run.mode \in Modes
        /\ st'[run.mode].last = day /\ st'[run.mode].prev = run.equity
        /\ st'[run.mode].peak = run.peak
    BY <1>2 DEF WriteState, RunShape
  <2>3. Tripped(run.equity, st[run.mode].prev, run.peak) => \A p \in run.book : p.entry # day
    BY <2>2 DEF NothingBought
  <2> QED
    BY <2>1, <2>2, <2>3 DEF BreakersHold
<1>3. ASSUME NEW t \in Sessions, WriteArm(t) PROVE BreakersHold
    BY <1>3, <1>1 DEF WriteArm, SetRow, TogglesCurrent, SessionShape
<1>4. \/ st' = st
      \/ WriteState
      \/ \E t \in Sessions : WriteArm(t)
    BY DEF Next, vars, NextDay, OpenDatabase, CloseTerminal, CloseStepper, Crash, Toggle,
       ReadRival, StartDisarm, ReadPrev, StepBegin, TryEntry, Save, DeleteBook,
       InsertPosition, AppendTrade
<1> QED
    BY <1>1, <1>2, <1>3, <1>4

(* A tripped daily halt or drawdown pause binds: the day-step decides it    *)
(* once, before the entry loop, on the equity and the peak it then commits, *)
(* so no committed day that fell through a limit opened a position.         *)
THEOREM BreakersAlwaysBind ==
    ASSUME OneSession, ~CrashAllowed
    PROVE  Spec => BreakersBind
<1>1. Init => DaysInv /\ NothingBought
    BY DaysInit, NothingBoughtInit
<1>2. DaysInv /\ NothingBought /\ [Next]_vars => (DaysInv /\ NothingBought)'
    BY DaysStep, NothingBoughtStep
<1>3. DaysInv /\ NothingBought /\ [Next]_vars => [BreakersHold]_vars
    BY BreakersStep
<1>4. Spec => [][BreakersHold]_vars
    BY <1>1, <1>2, <1>3, PTL DEF Spec
<1> QED
    BY <1>4 DEF BreakersBind, BreakersHold


-----------------------------------------------------------------------------
(* The three sums of the model are sums of SetLemmas, over any set U that   *)
(* the summed rows come from.                                               *)

LEMMA PnlIsSum ==
    ASSUME NEW U, NEW S \in SUBSET U, IsFiniteSet(S)
    PROVE  PnlOf(S) = SetSum([t \in U |-> t.pnl], S)
<1> DEFINE w == [t \in U |-> t.pnl]
           P(it) == it = [s \in SUBSET S |-> IF s = {} THEN 0
                             ELSE (CHOOSE x \in s : TRUE).pnl + it[s \ {CHOOSE x \in s : TRUE}]]
<1>1. PnlOf(S) = (CHOOSE it : P(it))[S]
    BY DEF PnlOf, MapThenSumSet, MapThenFoldSet
<1>2. ASSUME NEW it PROVE P(it) <=> SumsUp(w, S, it)
  <2>1. ASSUME NEW s \in SUBSET S, s # {} PROVE w[Picked(s)] = Picked(s).pnl
    BY PickedIn, <2>1
  <2>2. [s \in SUBSET S |-> IF s = {} THEN 0 ELSE Picked(s).pnl + it[s \ {Picked(s)}]]
         = [s \in SUBSET S |-> IF s = {} THEN 0 ELSE w[Picked(s)] + it[s \ {Picked(s)}]]
    BY <2>1
  <2> QED
    BY <2>2 DEF SumsUp, Picked
<1> HIDE DEF P, w
<1>3. SumsUp(w, S, CHOOSE it : P(it))
  <2>1. \E it : P(it)
    BY <1>2, SumsExist
  <2> QED
    BY <1>2, <2>1
<1> QED
    BY <1>1, <1>3, SetSumAny DEF w

Gain(p) == (Mark(p) - p.price) * p.qty

LEMMA UnrealizedIsSum ==
    ASSUME NEW S, IsFiniteSet(S)
    PROVE  Unrealized(S) = SetSum([p \in S |-> Gain(p)], S)
<1> DEFINE w == [p \in S |-> Gain(p)]
           P(it) == it = [s \in SUBSET S |-> IF s = {} THEN 0
                             ELSE Gain(CHOOSE x \in s : TRUE) + it[s \ {CHOOSE x \in s : TRUE}]]
<1>1. Unrealized(S) = (CHOOSE it : P(it))[S]
    BY DEF Unrealized, MapThenSumSet, MapThenFoldSet, Gain
<1>2. ASSUME NEW it PROVE P(it) <=> SumsUp(w, S, it)
  <2>1. ASSUME NEW s \in SUBSET S, s # {} PROVE w[Picked(s)] = Gain(Picked(s))
    BY PickedIn, <2>1
  <2>2. [s \in SUBSET S |-> IF s = {} THEN 0 ELSE Gain(Picked(s)) + it[s \ {Picked(s)}]]
         = [s \in SUBSET S |-> IF s = {} THEN 0 ELSE w[Picked(s)] + it[s \ {Picked(s)}]]
    BY <2>1
  <2> QED
    BY <2>2 DEF SumsUp, Picked
<1> HIDE DEF P, w
<1>3. SumsUp(w, S, CHOOSE it : P(it))
  <2>1. \E it : P(it)
    BY <1>2, SumsExist
  <2> QED
    BY <1>2, <2>1
<1> QED
    BY <1>1, <1>3, SetSumAny DEF w

Worth(p) == Mark(p) * p.qty
InSector(book, sector) == {p \in book : SectorOf[p.sym] = sector}

LEMMA SectorIsSum ==
    ASSUME NEW book, NEW sector, IsFiniteSet(InSector(book, sector))
    PROVE  SectorMarks(book, sector)
             = SetSum([p \in InSector(book, sector) |-> Worth(p)], InSector(book, sector))
<1> DEFINE S == InSector(book, sector)
           w == [p \in S |-> Worth(p)]
           P(it) == it = [s \in SUBSET S |-> IF s = {} THEN 0
                             ELSE Worth(CHOOSE x \in s : TRUE) + it[s \ {CHOOSE x \in s : TRUE}]]
<1>1. SectorMarks(book, sector) = (CHOOSE it : P(it))[S]
    BY DEF SectorMarks, MapThenSumSet, MapThenFoldSet, Worth, InSector
<1> HIDE DEF S
<1>2. ASSUME NEW it PROVE P(it) <=> SumsUp(w, S, it)
  <2>1. ASSUME NEW s \in SUBSET S, s # {} PROVE w[Picked(s)] = Worth(Picked(s))
    BY PickedIn, <2>1
  <2>2. [s \in SUBSET S |-> IF s = {} THEN 0 ELSE Worth(Picked(s)) + it[s \ {Picked(s)}]]
         = [s \in SUBSET S |-> IF s = {} THEN 0 ELSE w[Picked(s)] + it[s \ {Picked(s)}]]
    BY <2>1
  <2> QED
    BY <2>2 DEF SumsUp, Picked
<1> HIDE DEF P, w
<1>3. IsFiniteSet(S)
    BY DEF S
<1>4. SumsUp(w, S, CHOOSE it : P(it))
  <2>1. \E it : P(it)
    BY <1>2, <1>3, SumsExist
  <2> QED
    BY <1>2, <2>1
<1> QED
    BY <1>1, <1>3, <1>4, SetSumAny DEF w, S

-----------------------------------------------------------------------------
(* Types.  The sums are of finite sets, which the books and trades are.     *)

Finite ==
    /\ \A m \in Modes : IsFiniteSet(pos[m]) /\ IsFiniteSet(trades[m])
    /\ IsFiniteSet(run.book) /\ IsFiniteSet(run.closed)

Typed == TypeOK /\ Finite

LEMMA MarkTyped == ASSUME Typed, NEW p \in Position PROVE Mark(p) \in Nat
BY DEF Typed, TypeOK, Position, Mark

LEMMA SumsTyped ==
    ASSUME Typed
    PROVE  /\ \A S \in SUBSET Trade : IsFiniteSet(S) => PnlOf(S) \in Int
           /\ \A S \in SUBSET Position : IsFiniteSet(S) => Unrealized(S) \in Int
           /\ \A S \in SUBSET Position : \A x : IsFiniteSet(S) => SectorMarks(S, x) \in Int
<1>1. ASSUME NEW S \in SUBSET Trade, IsFiniteSet(S) PROVE PnlOf(S) \in Int
  <2> DEFINE w == [t \in Trade |-> t.pnl]
  <2>1. \A t \in S : w[t] \in Int
    BY DEF Trade
  <2> HIDE DEF w
  <2>2. SetSum(w, S) \in Int
    BY <1>1, <2>1, SetSumInt
  <2> QED
    BY <1>1, <2>2, PnlIsSum DEF w
<1>2. ASSUME NEW S \in SUBSET Position, IsFiniteSet(S) PROVE Unrealized(S) \in Int
  <2> DEFINE w == [p \in S |-> Gain(p)]
  <2>1. ASSUME NEW p \in S PROVE w[p] \in Int
    <3>1. Mark(p) \in Int /\ p.price \in Int /\ p.qty \in Int
      BY MarkTyped DEF Position
    <3>2. (Mark(p) - p.price) * p.qty \in Int
      BY <3>1
    <3> QED
      BY <3>2 DEF Gain
  <2> HIDE DEF w
  <2>2. SetSum(w, S) \in Int
    BY <1>2, <2>1, SetSumInt
  <2> QED
    BY <1>2, <2>2, UnrealizedIsSum DEF w
<1>3. ASSUME NEW S \in SUBSET Position, NEW x, IsFiniteSet(S) PROVE SectorMarks(S, x) \in Int
  <2> DEFINE T == InSector(S, x)
             w == [p \in T |-> Worth(p)]
  <2>0. T \in SUBSET S /\ IsFiniteSet(T)
    <3>1. T \in SUBSET S
      BY DEF InSector
    <3> QED
      BY <1>3, <3>1, FS_Subset
  <2>1. ASSUME NEW p \in T PROVE w[p] \in Int
    <3>1. Mark(p) \in Int /\ p.qty \in Int
      BY <2>0, MarkTyped DEF Position
    <3>2. Mark(p) * p.qty \in Int
      BY <3>1
    <3> QED
      BY <3>2 DEF Worth
  <2> HIDE DEF w
  <2>2. SetSum(w, T) \in Int
    BY <2>0, <2>1, SetSumInt
  <2> QED
    BY <2>0, <2>2, SectorIsSum DEF w
<1> QED
    BY <1>1, <1>2, <1>3

LEMMA QtyTyped ==
    ASSUME Typed, NEW s \in Syms, NEW book \in SUBSET Position, IsFiniteSet(book)
    PROVE  OrderQty(s, book) \in Nat
<1> DEFINE limit == mkt[s].lastClose + Premium
           risk == StopGap + Premium
           room == SectorCap - SectorMarks(book, SectorOf[s])
           three == {RiskBudget \div risk, NameCap \div limit, room \div limit}
<1>1. limit \in Nat /\ risk \in Nat /\ room \in Int
    BY SMTT(30), SumsTyped, MoneyAssumption DEF Typed, TypeOK
<1>2. CASE risk = 0 \/ room <= 0 \/ limit = 0
    BY <1>2 DEF OrderQty
<1>3. CASE ~(risk = 0 \/ room <= 0 \/ limit = 0)
  <2>1. limit > 0 /\ risk > 0 /\ room > 0 /\ room \in Nat /\ NameCap \in Nat /\ RiskBudget \in Nat
    BY <1>1, <1>3, MoneyAssumption
  <2>2. OrderQty(s, book) = Min(three)
    BY <1>3 DEF OrderQty
  <2> HIDE DEF limit, risk, room
  <2>3. RiskBudget \div risk \in Nat /\ NameCap \div limit \in Nat /\ room \div limit \in Nat
    BY <1>1, <2>1
  <2>4. three \in SUBSET Nat /\ three # {}
    BY <2>3
  <2> HIDE DEF three
  <2>5. Min(three) \in three
    BY <2>4, MinOfBounded
  <2> QED
    BY <2>2, <2>4, <2>5
<1> QED
    BY <1>2, <1>3

LEMMA OpenedTyped ==
    ASSUME Typed, NEW s \in Syms, NEW q \in Nat \ {0}
    PROVE  Opened(s, q) \in Position
BY MoneyAssumption DEF Typed, TypeOK, Position, Opened

LEMMA ClosedTyped ==
    ASSUME Typed, NEW p \in Position
    PROVE  ClosedBy(p) \in Trade
<1>1. p.sym \in Syms /\ p.entry \in Nat /\ p.price \in Int /\ p.qty \in Int /\ day \in Nat
    BY MaxDayAssumption DEF Typed, TypeOK, Position
<1>2. mkt[p.sym].bar \in Int /\ BuyFee \in Int /\ SellFee \in Int
    BY <1>1, MoneyAssumption DEF Typed, TypeOK
<1>3. (mkt[p.sym].bar - p.price) * p.qty \in Int
    BY <1>1, <1>2
<1>4. (mkt[p.sym].bar - p.price) * p.qty - BuyFee - SellFee \in Int
    BY <1>2, <1>3
<1> QED
    BY <1>1, <1>4 DEF ClosedBy, Trade

LEMMA ClosedFinite ==
    ASSUME NEW S, IsFiniteSet(S)
    PROVE  IsFiniteSet({ClosedBy(p) : p \in S})
<1> DEFINE T == {ClosedBy(p) : p \in S}
           f == [p \in S |-> ClosedBy(p)]
<1>1. f \in Surjection(S, T)
    BY DEF Surjection
<1> HIDE DEF f, T
<1> QED
    BY <1>1, FS_Surjection DEF T

(* Loading the book: the locals are typed, the sums are what the model says,*)
(* and the peak is at least the equity it is compared with.                 *)
LEMMA BeginMoney ==
    ASSUME NEW m \in Modes, Typed, StepBegin(m)
    PROVE  /\ run' \in [mode : Modes, row : StateRow, book : SUBSET Position,
                        closed : SUBSET Trade, todo : SUBSET Syms, realized : Int,
                        equity : Int, peak : Int]
           /\ IsFiniteSet(run'.book) /\ IsFiniteSet(run'.closed)
           /\ run'.realized = st[m].realized + PnlOf(run'.closed)
           /\ run'.peak >= st[m].peak /\ run'.peak >= run'.equity
           /\ run'.peak = st[m].peak \/ run'.peak = run'.equity
<1> DEFINE book == pos[m] \ Exiting(pos[m])
           closed == {ClosedBy(p) : p \in Exiting(pos[m])}
           realized == st[m].realized + PnlOf(closed)
           equity == Equity + realized + Unrealized(book)
           peak == Max({st[m].peak, equity})
           todo == EntryQueue(m, book, equity, peak)
<1>1. run' = [mode |-> m, row |-> st[m], book |-> book, closed |-> closed, todo |-> todo,
              realized |-> realized, equity |-> equity, peak |-> peak]
    BY DEF StepBegin
<1>2. /\ pos[m] \in SUBSET Position /\ IsFiniteSet(pos[m]) /\ st[m] \in StateRow
      /\ Exiting(pos[m]) \in SUBSET pos[m]
    BY DEF Typed, TypeOK, Finite, Exiting
<1>3. book \in SUBSET Position /\ IsFiniteSet(book) /\ IsFiniteSet(Exiting(pos[m]))
    BY <1>2, FS_Subset
<1>4. closed \in SUBSET Trade /\ IsFiniteSet(closed)
    BY <1>2, <1>3, ClosedTyped, ClosedFinite
<1> HIDE DEF book, closed
<1>5. todo \in SUBSET Syms
    BY DEF EntryQueue, Candidates
<1> HIDE DEF todo
<1>6. PnlOf(closed) \in Int /\ Unrealized(book) \in Int
    BY <1>3, <1>4, SumsTyped
<1>7. realized \in Int /\ equity \in Int /\ st[m].peak \in Int
    BY <1>2, <1>6, MoneyAssumption DEF StateRow
<1> HIDE DEF equity
<1>8. peak \in {st[m].peak, equity} /\ peak >= st[m].peak /\ peak >= equity
  <2> DEFINE two == {st[m].peak, equity}
             b == IF st[m].peak >= equity THEN st[m].peak ELSE equity
  <2>1. two \in SUBSET Int /\ two # {} /\ b \in Int /\ \A x \in two : x <= b
    BY <1>7
  <2>2. peak = Max(two)
    OBVIOUS
  <2> HIDE DEF two, b, peak
  <2>3. peak \in two /\ \A x \in two : x <= peak
    BY <2>1, <2>2, MaxOfBounded
  <2>4. peak \in Int /\ st[m].peak <= peak /\ equity <= peak
    BY <2>1, <2>3 DEF two
  <2> QED
    BY <1>7, <2>3, <2>4 DEF two
<1> HIDE DEF peak
<1>9. peak \in Int
    BY <1>7, <1>8
<1> HIDE DEF realized
<1>10. /\ run'.book = book /\ run'.closed = closed /\ run'.realized = realized
       /\ run'.equity = equity /\ run'.peak = peak
    BY <1>1
<1> QED
    BY <1>1, <1>2, <1>3, <1>4, <1>5, <1>7, <1>8, <1>9, <1>10 DEF realized

LEMMA TypedInit == Init => Typed
<1> SUFFICES ASSUME Init PROVE Typed
    OBVIOUS
<1>1. NewRow \in StateRow
    BY MoneyAssumption DEF NewRow, StateRow
<1>2. day \in 1..MaxDay
    BY MaxDayAssumption DEF Init
<1>3. mkt \in [Syms -> [bar : Nat, cohort : {"OUT", "WATCH", "ARMED"}, cand : BOOLEAN,
                        soft : BOOLEAN, lastDay : Nat, lastClose : Nat]]
    BY DayDataAssumption, MoneyAssumption DEF Init, DayData
<1>4. ses \in [Sessions -> [pc : {"idle", "read", "write"}, mode : Modes,
                            want : BOOLEAN, row : StateRow]]
    BY <1>1 DEF Init, IdleSession, Modes
<1>5. run \in [mode : Modes, row : StateRow, book : SUBSET Position, closed : SUBSET Trade,
               todo : SUBSET Syms, realized : Int, equity : Int, peak : Int]
    BY <1>1, MoneyAssumption DEF Init, IdleRun, Modes
<1>6. Finite
    BY FS_EmptySet DEF Init, Finite, IdleRun
<1> QED
    BY <1>1, <1>2, <1>3, <1>4, <1>5, <1>6 DEF Init, Typed, TypeOK

RunType == [mode : Modes, row : StateRow, book : SUBSET Position, closed : SUBSET Trade,
            todo : SUBSET Syms, realized : Int, equity : Int, peak : Int]
SesType == [pc : {"idle", "read", "write"}, mode : Modes, want : BOOLEAN, row : StateRow]
MktType == [bar : Nat, cohort : {"OUT", "WATCH", "ARMED"}, cand : BOOLEAN,
            soft : BOOLEAN, lastDay : Nat, lastClose : Nat]

LEMMA IdleTyped == IdleRun \in RunType /\ IdleSession \in SesType /\ NewRow \in StateRow
<1>1. NewRow \in StateRow
    BY MoneyAssumption DEF NewRow, StateRow
<1>2. IdleRun \in RunType
    BY <1>1, MoneyAssumption DEF IdleRun, RunType, Modes
<1>3. IdleSession \in SesType
    BY <1>1 DEF IdleSession, SesType, Modes
<1> QED
    BY <1>1, <1>2, <1>3

LEMMA TypedToggle ==
    ASSUME Typed, NEW t \in Sessions, Toggle(t)
    PROVE  Typed'
<1> USE DEF Typed, TypeOK
<1>0. /\ UNCHANGED <<day, mkt, pos, trades, holder, pc, run>>
      /\ ses \in [Sessions -> SesType] /\ st \in [Modes -> StateRow]
    BY DEF Toggle, ReadRival, StartDisarm, ReadPrev, WriteArm, SesType
<1>1. ASSUME ses' \in [Sessions -> SesType], st' \in [Modes -> StateRow] PROVE Typed'
    BY <1>0, <1>1 DEF Finite, SesType
<1>2. ASSUME NEW m \in Modes, ReadRival(t, m) \/ StartDisarm(t, m) PROVE Typed'
  <2>1. \A b \in BOOLEAN : [pc |-> "read", mode |-> m, want |-> b, row |-> NewRow] \in SesType
    BY IdleTyped DEF SesType
  <2>2. PICK b \in BOOLEAN :
          ses' = [ses EXCEPT ![t] = [pc |-> "read", mode |-> m, want |-> b, row |-> NewRow]]
    BY <1>2 DEF ReadRival, StartDisarm
  <2>3. st' = st
    BY <1>2 DEF ReadRival, StartDisarm
  <2>4. ses' \in [Sessions -> SesType]
    BY <1>0, <2>1, <2>2
  <2> QED
    BY <1>0, <1>1, <2>3, <2>4
<1>3. CASE ReadPrev(t)
  <2>1. [pc |-> "write", mode |-> ses[t].mode, want |-> ses[t].want, row |-> st[ses[t].mode]] \in SesType
    BY <1>0 DEF SesType
  <2>2. ses' \in [Sessions -> SesType] /\ st' = st
    BY <1>0, <1>3, <2>1 DEF ReadPrev
  <2> QED
    BY <1>0, <1>1, <2>2
<1>4. CASE WriteArm(t)
  <2>1. SetRow(ses[t].row, ses[t].want) \in StateRow
    BY <1>0, MaxDayAssumption DEF SetRow, StateRow, SesType
  <2>2. ses' \in [Sessions -> SesType] /\ st' \in [Modes -> StateRow]
    BY <1>0, <1>4, <2>1, IdleTyped DEF WriteArm, SesType
  <2> QED
    BY <1>1, <2>2
<1> QED
    BY <1>2, <1>3, <1>4 DEF Toggle

LEMMA TypedStep == Typed /\ [Next]_vars => Typed'
<1> SUFFICES ASSUME Typed, [Next]_vars PROVE Typed'
    OBVIOUS
<1> USE DEF Typed, TypeOK
<1>0. run \in RunType
    BY DEF RunType
<1>1. CASE NextDay
  <2>1. PICK today \in [Syms -> Feeds] :
          mkt' = [s \in Syms |->
              [bar |-> today[s].bar, cohort |-> today[s].cohort,
               cand |-> today[s].cand, soft |-> today[s].soft,
               lastDay |-> IF mkt[s].bar > 0 THEN day ELSE mkt[s].lastDay,
               lastClose |-> IF mkt[s].bar > 0 THEN mkt[s].bar ELSE mkt[s].lastClose]]
    BY <1>1 DEF NextDay
  <2>2. \A s \in Syms : today[s] \in DayData
    BY DayDataAssumption
  <2>3. mkt' \in [Syms -> MktType]
    BY <2>1, <2>2 DEF DayData, MktType
  <2> QED
    BY <1>1, <2>3, MaxDayAssumption DEF NextDay, Finite, MktType
<1>2. CASE \E p \in {"terminal", "stepper"} : OpenDatabase(p)
    BY <1>2 DEF OpenDatabase, Finite
<1>3. CASE CloseTerminal
  <2>1. ses' \in [Sessions -> SesType]
    BY <1>3, IdleTyped DEF CloseTerminal
  <2> QED
    BY <1>3, <2>1 DEF CloseTerminal, Finite, SesType
<1>4. CASE CloseStepper
    BY <1>4 DEF CloseStepper, Finite
<1>5. CASE Crash
  <2>1. IsFiniteSet(IdleRun.book) /\ IsFiniteSet(IdleRun.closed)
    BY FS_EmptySet DEF IdleRun
  <2> QED
    BY <1>5, <2>1, IdleTyped DEF Crash, Finite, RunType
<1>6. CASE \E t \in Sessions : Toggle(t)
    BY <1>6, TypedToggle
<1>7. ASSUME NEW m \in Modes, StepBegin(m) PROVE Typed'
  <2>1. UNCHANGED <<day, mkt, pos, trades, st, holder, ses>> /\ pc' = "entries"
    BY <1>7 DEF StepBegin
  <2> QED
    BY <1>7, <2>1, BeginMoney DEF Finite
<1>8. ASSUME NEW s \in run.todo, TryEntry(s) PROVE Typed'
  <2> DEFINE q == OrderQty(s, run.book)
             book == IF q > 0 /\ BuyFills(mkt[s]) THEN run.book \cup {Opened(s, q)} ELSE run.book
  <2>1. s \in Syms /\ run.book \in SUBSET Position /\ IsFiniteSet(run.book)
    BY DEF Finite
  <2>2. q \in Nat
    BY <2>1, QtyTyped
  <2>3. run' = [run EXCEPT !.todo = @ \ {s}, !.book = book]
    BY <1>0, <1>8 DEF TryEntry, RunType
  <2> HIDE DEF q
  <2>4. book \in SUBSET Position
    BY <2>1, <2>2, OpenedTyped
  <2>5. IsFiniteSet(book)
    BY <2>1, FS_AddElement
  <2> HIDE DEF book
  <2>6. run' \in RunType /\ run'.book = book /\ run'.closed = run.closed
    BY <1>0, <2>3, <2>4 DEF RunType
  <2>7. UNCHANGED <<day, mkt, pos, trades, st, holder, ses, pc>>
    BY <1>8 DEF TryEntry
  <2> QED
    BY <2>5, <2>6, <2>7 DEF Finite, RunType
<1>9. CASE Save
  <2>1. CASE DeleteBook
    BY <2>1, FS_EmptySet DEF DeleteBook, Finite
  <2>2. ASSUME NEW p \in run.book, InsertPosition(p) PROVE Typed'
    <3>1. /\ UNCHANGED <<day, mkt, trades, st, holder, ses, pc, run>>
          /\ pos' = [pos EXCEPT ![run.mode] = pos[run.mode] \cup {p}]
          /\ p \in Position /\ run.mode \in Modes
      BY <2>2 DEF InsertPosition
    <3>2. IsFiniteSet(pos[run.mode] \cup {p})
      BY <3>1, FS_AddElement DEF Finite
    <3> QED
      BY <3>1, <3>2 DEF Finite
  <2>3. ASSUME NEW t \in run.closed, AppendTrade(t) PROVE Typed'
    <3>1. /\ UNCHANGED <<day, mkt, pos, st, holder, ses, pc, run>>
          /\ trades' = [trades EXCEPT ![run.mode] = trades[run.mode] \cup {t}]
          /\ t \in Trade /\ run.mode \in Modes
      BY <2>3 DEF AppendTrade
    <3>2. IsFiniteSet(trades[run.mode] \cup {t})
      BY <3>1, FS_AddElement DEF Finite
    <3> QED
      BY <3>1, <3>2 DEF Finite
  <2>4. CASE WriteState
    <3> DEFINE row == [enabled |-> TRUE,
                       since |-> IF run.row.since # 0 THEN run.row.since ELSE day,
                       last |-> day,
                       realized |-> run.realized, prev |-> run.equity, peak |-> run.peak]
    <3>1. row \in StateRow
      BY <1>0, MaxDayAssumption DEF RunType, StateRow
    <3>2. st' = [st EXCEPT ![run.mode] = row]
      BY <2>4 DEF WriteState
    <3> HIDE DEF row
    <3>3. IsFiniteSet(IdleRun.book) /\ IsFiniteSet(IdleRun.closed)
      BY FS_EmptySet DEF IdleRun
    <3>4. st' \in [Modes -> StateRow]
      BY <3>1, <3>2
    <3>5. UNCHANGED <<day, mkt, pos, trades, holder, ses>> /\ pc' = "idle" /\ run' = IdleRun
      BY <2>4 DEF WriteState
    <3>6. run' \in RunType /\ Finite'
      BY <3>3, <3>5, IdleTyped DEF Finite
    <3> QED
      BY <3>4, <3>5, <3>6 DEF RunType
  <2> QED
    BY <1>9, <2>1, <2>2, <2>3, <2>4 DEF Save
<1>10. CASE UNCHANGED vars
    BY <1>10 DEF vars, Finite
<1> QED
    BY <1>1, <1>2, <1>3, <1>4, <1>5, <1>6, <1>7, <1>8, <1>9, <1>10 DEF Next

(* Every row of the tables and every local of the stepper is of its type:   *)
(* no quantity is zero or negative, whatever the caps leave room for, and   *)
(* every sum is one of integers.                                            *)
THEOREM TraderTypes == Spec => []TypeOK
<1>1. Init => Typed
    BY TypedInit
<1>2. Typed /\ [Next]_vars => Typed'
    BY TypedStep
<1>3. Typed => TypeOK
    BY DEF Typed
<1> QED
    BY <1>1, <1>2, <1>3, PTL DEF Spec

-----------------------------------------------------------------------------
(* The carried peak.                                                        *)

High(row) == row.peak >= row.prev /\ row.peak >= Equity

(* Every copy of a state row, the tables', a toggle's and the stepper's, is *)
(* one whose peak lies above its equity and the sizing base.                *)
RowsHigh ==
    /\ \A m \in Modes : High(st[m])
    /\ \A t \in Sessions : High(ses[t].row)
    /\ run.peak >= run.equity /\ run.peak >= Equity

LEMMA NewRowHigh == High(NewRow)
BY MoneyAssumption DEF High, NewRow

LEMMA HighInit == Init => RowsHigh
BY NewRowHigh, MoneyAssumption DEF Init, RowsHigh, IdleSession, IdleRun

LEMMA HighStep == Typed /\ RowsHigh /\ [Next]_vars => RowsHigh'
<1> SUFFICES ASSUME Typed, RowsHigh, [Next]_vars PROVE RowsHigh'
    OBVIOUS
<1> USE DEF RowsHigh
<1>0. /\ ses = [t \in Sessions |-> ses[t]] /\ st = [m \in Modes |-> st[m]]
      /\ run \in RunType /\ \A t \in Sessions : ses[t].mode \in Modes
    BY DEF Typed, TypeOK, RunType
<1>1. CASE \/ NextDay \/ CloseStepper \/ DeleteBook \/ UNCHANGED vars
           \/ \E p \in {"terminal", "stepper"} : OpenDatabase(p)
           \/ \E p \in run.book : InsertPosition(p)
           \/ \E t \in run.closed : AppendTrade(t)
    BY <1>1 DEF NextDay, CloseStepper, DeleteBook, vars, OpenDatabase, InsertPosition, AppendTrade, High
<1>2. CASE CloseTerminal
    BY <1>2, NewRowHigh DEF CloseTerminal, IdleSession, High
<1>3. IdleRun.peak >= IdleRun.equity /\ IdleRun.peak >= Equity
    BY MoneyAssumption DEF IdleRun
<1>4. CASE Crash
    BY <1>3, <1>4 DEF Crash, High
<1>5. ASSUME NEW t \in Sessions, Toggle(t) PROVE RowsHigh'
  <2>0. run' = run
    BY <1>5 DEF Toggle, ReadRival, StartDisarm, ReadPrev, WriteArm
  <2>1. ASSUME NEW m \in Modes, ReadRival(t, m) \/ StartDisarm(t, m) PROVE RowsHigh'
    BY <1>0, <2>0, <2>1, NewRowHigh DEF ReadRival, StartDisarm, High
  <2>2. CASE ReadPrev(t)
    BY <1>0, <2>0, <2>2 DEF ReadPrev, High
  <2>3. CASE WriteArm(t)
    <3>1. High(SetRow(ses[t].row, ses[t].want))
      BY DEF SetRow, High
    <3> QED
      BY <1>0, <2>0, <2>3, <3>1, NewRowHigh DEF WriteArm, IdleSession, High
  <2> QED
    BY <1>5, <2>1, <2>2, <2>3 DEF Toggle
<1>6. ASSUME NEW m \in Modes, StepBegin(m) PROVE RowsHigh'
  <2>1. run'.peak >= st[m].peak /\ run'.peak >= run'.equity /\ run'.peak \in Int
    BY <1>6, BeginMoney
  <2>2. st[m].peak \in Int /\ Equity \in Int
    BY MoneyAssumption DEF Typed, TypeOK, StateRow
  <2> QED
    BY <1>6, <2>1, <2>2 DEF StepBegin, High
<1>7. ASSUME NEW s \in run.todo, TryEntry(s) PROVE RowsHigh'
  <2>1. run'.peak = run.peak /\ run'.equity = run.equity
    BY <1>0, <1>7 DEF TryEntry, RunType
  <2> QED
    BY <1>7, <2>1 DEF TryEntry, High
<1>8. CASE WriteState
  <2>1. st'[run.mode].peak = run.peak /\ st'[run.mode].prev = run.equity
        /\ \A m \in Modes \ {run.mode} : st'[m] = st[m]
    BY <1>0, <1>8 DEF WriteState, RunType
  <2> QED
    BY <1>3, <1>8, <2>1 DEF WriteState, High
<1> QED
    BY <1>1, <1>2, <1>4, <1>5, <1>6, <1>7, <1>8 DEF Next, Save

(* The carried peak never lies below the carried equity or the sizing base: *)
(* the drawdown breaker always measures from a high, for any number of      *)
(* sessions writing rows back and any crashes between.                      *)
THEOREM PeakStaysHigh == Spec => []PeakIsRunningHigh
<1>1. Init => Typed /\ RowsHigh
    BY TypedInit, HighInit
<1>2. Typed /\ RowsHigh /\ [Next]_vars => (Typed /\ RowsHigh)'
    BY TypedStep, HighStep
<1>3. RowsHigh => PeakIsRunningHigh
    BY DEF RowsHigh, High, PeakIsRunningHigh
<1> QED
    BY <1>1, <1>2, <1>3, PTL DEF Spec

-----------------------------------------------------------------------------
(* Money in the rows: only a day-step changes it, so a toggle writes back   *)
(* what the row still holds, whatever other toggles it races.               *)

SameMoney(a, b) ==
    a.last = b.last /\ a.realized = b.realized /\ a.prev = b.prev /\ a.peak = b.peak

TogglesKeepMoney ==
    \A t \in Sessions : ses[t].pc = "write" => SameMoney(ses[t].row, st[ses[t].mode])

LEMMA ToggleMoneyInit == Init => TogglesKeepMoney
BY DEF Init, TogglesKeepMoney, IdleSession

LEMMA ToggleMoneyStep == Control /\ TogglesKeepMoney /\ [Next]_vars => TogglesKeepMoney'
<1> SUFFICES ASSUME Control, TogglesKeepMoney, [Next]_vars PROVE TogglesKeepMoney'
    OBVIOUS
<1> USE DEF Control, Shape, OneProcess, TogglesKeepMoney
<1>1. CASE UNCHANGED <<st, ses>>
    BY <1>1 DEF SameMoney
<1>2. CASE CloseTerminal
    BY <1>2 DEF CloseTerminal, IdleSession
<1>3. ASSUME NEW t \in Sessions, Toggle(t) PROVE TogglesKeepMoney'
  <2>1. ASSUME NEW m \in Modes, ReadRival(t, m) \/ StartDisarm(t, m) PROVE TogglesKeepMoney'
    BY <2>1 DEF ReadRival, StartDisarm, SessionShape, SameMoney
  <2>2. CASE ReadPrev(t)
    BY <2>2 DEF ReadPrev, SessionShape, SameMoney
  <2>3. CASE WriteArm(t)
    <3>1. SameMoney(st'[ses[t].mode], st[ses[t].mode]) /\ ses'[t].pc = "idle"
      BY <2>3 DEF WriteArm, SetRow, SessionShape, SameMoney, IdleSession
    <3>2. \A m \in Modes : SameMoney(st'[m], st[m])
      BY <2>3, <3>1 DEF WriteArm, SessionShape, SameMoney
    <3>3. \A u \in Sessions \ {t} : ses'[u] = ses[u]
      BY <2>3 DEF WriteArm
    <3> QED
      BY <3>1, <3>2, <3>3 DEF SameMoney, SessionShape
  <2> QED
    BY <1>3, <2>1, <2>2, <2>3 DEF Toggle
<1>4. CASE WriteState
    BY <1>4 DEF WriteState
<1>5. \/ UNCHANGED <<st, ses>>
      \/ CloseTerminal
      \/ \E t \in Sessions : Toggle(t)
      \/ WriteState
    BY DEF Next, vars, NextDay, OpenDatabase, CloseStepper, Crash, StepBegin, TryEntry, Save,
       DeleteBook, InsertPosition, AppendTrade
<1> QED
    BY <1>1, <1>2, <1>3, <1>4, <1>5

-----------------------------------------------------------------------------
(* The drawdown pause.                                                      *)

MoneyInv == Control /\ Typed /\ RowsHigh /\ TogglesKeepMoney

LEMMA MoneyInit == Init => MoneyInv
BY ControlInit, TypedInit, HighInit, ToggleMoneyInit DEF MoneyInv

LEMMA MoneyStep == MoneyInv /\ [Next]_vars => MoneyInv'
BY ControlStep, TypedStep, HighStep, ToggleMoneyStep DEF MoneyInv

(* A mode in the pause without a position, with a day-step in progress or   *)
(* not: a day-step has nothing to exit and nothing to enter.                *)
Stuck(m) ==
    /\ pos[m] = {}
    /\ PauseTripped(Equity + st[m].realized, st[m].peak)
    /\ Saving(m) => /\ run.book = {} /\ run.todo = {}
                    /\ run.realized = st[m].realized /\ run.peak = st[m].peak

LEMMA EmptySums == PnlOf({}) = 0 /\ Unrealized({}) = 0
<1>1. IsFiniteSet({}) /\ {} \in SUBSET {}
    BY FS_EmptySet
<1>2. PnlOf({}) = SetSum([t \in {} |-> t.pnl], {})
    BY <1>1, PnlIsSum
<1>3. Unrealized({}) = SetSum([p \in {} |-> Gain(p)], {})
    BY <1>1, UnrealizedIsSum
<1>4. \A w : SetSum(w, {}) = 0
    BY SetSumEmpty
<1> QED
    BY <1>2, <1>3, <1>4

(* The new peak cannot lift a paused mode out of the pause: its equity lies *)
(* below the old one.                                                       *)
LEMMA StuckBegins ==
    ASSUME NEW m \in Modes, MoneyInv, Stuck(m), StepBegin(m)
    PROVE  Stuck(m)'
<1>1. Exiting(pos[m]) = {} /\ pos[m] = {}
    BY DEF Stuck, Exiting
<1>2. {ClosedBy(p) : p \in Exiting(pos[m])} = {} /\ pos[m] \ Exiting(pos[m]) = {}
    BY <1>1
<1>3. /\ run'.mode = m /\ run'.book = {} /\ run'.closed = {} /\ run'.realized = st[m].realized + 0
      /\ run'.equity = Equity + run'.realized + 0
      /\ run'.todo = EntryQueue(m, {}, run'.equity, run'.peak)
      /\ UNCHANGED <<pos, st>>
  <2>1. /\ run'.mode = m /\ UNCHANGED <<pos, st>>
        /\ run'.book = pos[m] \ Exiting(pos[m])
        /\ run'.closed = {ClosedBy(p) : p \in Exiting(pos[m])}
        /\ run'.realized = st[m].realized + PnlOf(run'.closed)
        /\ run'.equity = Equity + run'.realized + Unrealized(run'.book)
        /\ run'.todo = EntryQueue(m, run'.book, run'.equity, run'.peak)
    BY DEF StepBegin
  <2>2. PnlOf({}) = 0 /\ Unrealized({}) = 0
    BY EmptySums
  <2> QED
    BY <1>2, <2>1, <2>2
<1>4. st[m].realized \in Int /\ st[m].peak \in Int /\ Equity \in Nat \ {0} /\ PausePct \in Nat
    BY MoneyAssumption DEF MoneyInv, Typed, TypeOK, StateRow
<1>5. run'.realized = st[m].realized /\ run'.equity = Equity + st[m].realized
    BY <1>3, <1>4
<1>6. st[m].peak # 0 /\ 100 * (st[m].peak - (Equity + st[m].realized)) >= PausePct * st[m].peak
    BY DEF Stuck, PauseTripped
<1>7. st[m].peak >= Equity
    BY DEF MoneyInv, RowsHigh, High
<1>8. PausePct * st[m].peak >= 0
    BY <1>4, <1>7
<1>9. st[m].peak >= run'.equity
    BY <1>4, <1>5, <1>6, <1>8
<1>10. run'.peak = st[m].peak
  <2>1. run'.peak >= st[m].peak /\ (run'.peak = st[m].peak \/ run'.peak = run'.equity)
    BY BeginMoney DEF MoneyInv
  <2> QED
    BY <1>4, <1>5, <1>9, <2>1
<1>11. run'.todo = {}
    BY <1>3, <1>5, <1>10 DEF EntryQueue, Tripped, Stuck
<1> QED
    BY <1>3, <1>5, <1>10, <1>11 DEF Stuck, PauseTripped

LEMMA StuckStep == ASSUME NEW m \in Modes PROVE MoneyInv /\ Stuck(m) /\ [Next]_vars => Stuck(m)'
<1> SUFFICES ASSUME MoneyInv, Stuck(m), [Next]_vars PROVE Stuck(m)'
    OBVIOUS
<1> USE DEF MoneyInv, Control, Shape, OneProcess
<1>1. ASSUME UNCHANGED <<pos, run>>, pc' = "idle" \/ pc' = pc, SameMoney(st'[m], st[m])
      PROVE  Stuck(m)'
    BY <1>1 DEF Stuck, Saving, PauseTripped, SameMoney
<1>2. CASE NextDay \/ CloseTerminal \/ CloseStepper \/ UNCHANGED vars
           \/ \E p \in {"terminal", "stepper"} : OpenDatabase(p)
           \/ \E t \in run.closed : AppendTrade(t)
    BY <1>1, <1>2 DEF NextDay, CloseTerminal, CloseStepper, vars, OpenDatabase, AppendTrade, SameMoney
<1>3. CASE Crash
    BY <1>3 DEF Crash, Stuck, Saving, PauseTripped
<1>4. ASSUME NEW t \in Sessions, Toggle(t) PROVE Stuck(m)'
  <2>1. CASE st' = st
    BY <1>1, <1>4, <2>1 DEF Toggle, ReadRival, StartDisarm, ReadPrev, WriteArm, SameMoney
  <2>2. CASE WriteArm(t)
    BY <1>1, <2>2 DEF WriteArm, SetRow, SameMoney, TogglesKeepMoney, SessionShape
  <2> QED
    BY <1>4, <2>1, <2>2 DEF Toggle, ReadRival, StartDisarm, ReadPrev
<1>5. ASSUME NEW n \in Modes, StepBegin(n) PROVE Stuck(m)'
  <2>1. CASE n = m
    BY <1>5, <2>1, StuckBegins
  <2>2. CASE n # m
    BY <1>5, <2>2 DEF StepBegin, Stuck, Saving, PauseTripped
  <2> QED
    BY <2>1, <2>2
<1>6. ASSUME NEW s \in run.todo, TryEntry(s) PROVE Stuck(m)'
    BY <1>6 DEF TryEntry, Stuck, Saving, PauseTripped, RunShape
<1>7. CASE DeleteBook
    BY <1>7 DEF DeleteBook, Stuck, Saving, PauseTripped
<1>8. ASSUME NEW p \in run.book, InsertPosition(p) PROVE Stuck(m)'
    BY <1>8 DEF InsertPosition, Stuck, Saving, PauseTripped, RunShape
<1>9. CASE WriteState
    BY <1>9 DEF WriteState, Stuck, Saving, PauseTripped, RunShape
<1> QED
    BY <1>2, <1>3, <1>4, <1>5, <1>6, <1>7, <1>8, <1>9 DEF Next, Save

(* A mode paused by the drawdown breaker with an empty book holds no        *)
(* position ever again, whatever the market does, whoever re-arms it and    *)
(* whatever crashes: neither its realized P&L nor its peak can move.        *)
THEOREM PauseIsForever == Spec => PausedEmptyStaysEmpty
<1>1. ASSUME NEW CONSTANT m \in Modes PROVE Spec => [](PausedEmpty(m) => [](pos[m] = {}))
  <2>1. Init => MoneyInv
    BY MoneyInit
  <2>2. MoneyInv /\ [Next]_vars => MoneyInv'
    BY MoneyStep
  <2>3. MoneyInv /\ Stuck(m) /\ [Next]_vars => Stuck(m)'
    BY StuckStep
  <2>4. PausedEmpty(m) => Stuck(m)
    BY DEF PausedEmpty, Stuck, Saving
  <2>5. Stuck(m) => pos[m] = {}
    BY DEF Stuck
  <2> QED
    BY <2>1, <2>2, <2>3, <2>4, <2>5, PTL DEF Spec
<1> QED
    BY <1>1 DEF PausedEmptyStaysEmpty

-----------------------------------------------------------------------------
(* Realized P&L.                                                            *)

LEMMA PnlOfUnion ==
    ASSUME NEW S \in SUBSET Trade, NEW T \in SUBSET Trade, IsFiniteSet(S), IsFiniteSet(T),
           S \cap T = {}
    PROVE  PnlOf(S \cup T) = PnlOf(S) + PnlOf(T)
<1> DEFINE w == [t \in Trade |-> t.pnl]
<1>1. \A t \in S \cup T : w[t] \in Int
    BY DEF Trade
<1>2. IsFiniteSet(S \cup T) /\ S \cup T \in SUBSET Trade
    BY FS_Union
<1>3. PnlOf(S \cup T) = SetSum(w, S \cup T) /\ PnlOf(S) = SetSum(w, S) /\ PnlOf(T) = SetSum(w, T)
    BY <1>2, PnlIsSum
<1> HIDE DEF w
<1> QED
    BY <1>1, <1>3, SetSumUnion

(* Between day-steps the realized P&L of a mode is that of its recorded     *)
(* trades; in a day-step it is about to be that of the recorded ones and    *)
(* the ones closed in the step, whichever of those are recorded already.    *)
Ledger ==
    \A m \in Modes :
        IF Saving(m) THEN run.realized = PnlOf(trades[m] \cup run.closed)
                     ELSE st[m].realized = PnlOf(trades[m])

LedgerInv == MoneyInv /\ BookInv /\ Ledger

LEMMA LedgerInit == Init => LedgerInv
<1> SUFFICES ASSUME Init PROVE Ledger
    BY MoneyInit, BookInitially DEF LedgerInv
<1>1. \A m \in Modes : st[m].realized = 0 /\ trades[m] = {} /\ ~Saving(m)
    BY DEF Init, NewRow, Saving
<1> QED
    BY <1>1, EmptySums DEF Ledger

LEMMA LedgerStep == ASSUME ~CrashAllowed PROVE LedgerInv /\ [Next]_vars => LedgerInv'
<1> SUFFICES ASSUME LedgerInv, [Next]_vars PROVE Ledger'
    BY MoneyStep, BookStep DEF LedgerInv
<1> USE DEF LedgerInv, MoneyInv, Control, Shape, OneProcess
<1>1. ASSUME UNCHANGED <<trades, run>>, pc' = pc, \A m \in Modes : SameMoney(st'[m], st[m])
      PROVE  Ledger'
    BY <1>1 DEF Ledger, Saving, SameMoney
<1>2. CASE NextDay \/ CloseTerminal \/ CloseStepper \/ UNCHANGED vars
           \/ \E w \in {"terminal", "stepper"} : OpenDatabase(w)
           \/ \E p \in run.book : InsertPosition(p)
    BY <1>1, <1>2 DEF NextDay, CloseTerminal, CloseStepper, vars, OpenDatabase, InsertPosition, SameMoney
<1>3. ~Crash
    BY DEF Crash
<1>4. ASSUME NEW t \in Sessions, Toggle(t) PROVE Ledger'
  <2>1. CASE st' = st
    BY <1>1, <1>4, <2>1 DEF Toggle, ReadRival, StartDisarm, ReadPrev, WriteArm, SameMoney
  <2>2. CASE WriteArm(t)
    <3>1. \A m \in Modes : SameMoney(st'[m], st[m])
      BY <2>2 DEF WriteArm, SetRow, SameMoney, TogglesKeepMoney, SessionShape
    <3> QED
      BY <1>1, <2>2, <3>1 DEF WriteArm
  <2> QED
    BY <1>4, <2>1, <2>2 DEF Toggle, ReadRival, StartDisarm, ReadPrev
<1>5. ASSUME NEW n \in Modes, StepBegin(n) PROVE Ledger'
  <2>1. /\ UNCHANGED <<trades, st>> /\ run'.mode = n /\ pc = "idle" /\ pc' # "idle"
        /\ run'.closed = {ClosedBy(p) : p \in Exiting(pos[n])}
    BY <1>5 DEF StepBegin
  <2>2. trades[n] \cap run'.closed = {}
    <3>1. \A p \in pos[n] : ClosedBy(p) \notin trades[n]
      BY DEF BookInv, TablesInv, Apart, ClosedBy
    <3> QED
      BY <2>1, <3>1 DEF Exiting
  <2>3. /\ run'.closed \in SUBSET Trade /\ IsFiniteSet(run'.closed)
        /\ run'.realized = st[n].realized + PnlOf(run'.closed)
    BY <1>5, BeginMoney
  <2>4. trades[n] \in SUBSET Trade /\ IsFiniteSet(trades[n])
    BY DEF Typed, TypeOK, Finite
  <2>5. PnlOf(trades[n] \cup run'.closed) = PnlOf(trades[n]) + PnlOf(run'.closed)
    <3>1. PICK c : c = run'.closed
      OBVIOUS
    <3>2. PnlOf(trades[n] \cup c) = PnlOf(trades[n]) + PnlOf(c)
      BY <2>2, <2>3, <2>4, <3>1, PnlOfUnion
    <3> QED
      BY <3>1, <3>2
  <2>6. st[n].realized = PnlOf(trades[n])
    BY <2>1 DEF Ledger, Saving
  <2>7. run'.realized = PnlOf(trades[n] \cup run'.closed)
    BY <2>3, <2>5, <2>6
  <2> QED
    BY <2>1, <2>7 DEF Ledger, Saving
<1>6. ASSUME NEW s \in run.todo, TryEntry(s) PROVE Ledger'
  <2>1. /\ UNCHANGED <<trades, st, pc>> /\ run'.mode = run.mode
        /\ run'.realized = run.realized /\ run'.closed = run.closed
    BY <1>6 DEF TryEntry, RunShape
  <2> QED
    BY <2>1 DEF Ledger, Saving
<1>7. CASE DeleteBook
    BY <1>7 DEF DeleteBook, Ledger, Saving
<1>8. ASSUME NEW t \in run.closed, AppendTrade(t) PROVE Ledger'
  <2>1. /\ UNCHANGED <<st, pc, run>> /\ run.mode \in Modes /\ pc # "idle"
        /\ trades'[run.mode] \cup run.closed = trades[run.mode] \cup run.closed
        /\ \A m \in Modes \ {run.mode} : trades'[m] = trades[m]
    BY <1>8 DEF AppendTrade, RunShape
  <2> QED
    BY <2>1 DEF Ledger, Saving
<1>9. CASE WriteState
  <2>1. /\ trades' = trades /\ pc = "insert" /\ pc' = "idle" /\ run.mode \in Modes
        /\ st'[run.mode].realized = run.realized
        /\ \A m \in Modes \ {run.mode} : st'[m] = st[m]
    BY <1>9 DEF WriteState, RunShape
  <2>2. trades[run.mode] \cup run.closed = trades[run.mode]
    BY <1>9, ClosedRecorded
  <2> QED
    BY <2>1, <2>2 DEF Ledger, Saving
<1> QED
    BY <1>2, <1>3, <1>4, <1>5, <1>6, <1>7, <1>8, <1>9 DEF Next, Save

(* As long as no crash interrupts a save, the realized P&L that a mode      *)
(* sizes its equity by is the P&L of the trades on record, after every day  *)
(* and between any two.                                                     *)
THEOREM RealizedSumsTrades == ASSUME ~CrashAllowed PROVE Spec => []RealizedIsTradeSum
<1>1. Init => LedgerInv
    BY LedgerInit
<1>2. LedgerInv /\ [Next]_vars => LedgerInv'
    BY LedgerStep
<1>3. LedgerInv => RealizedIsTradeSum
    BY DEF LedgerInv, Ledger, Saving, RealizedIsTradeSum
<1> QED
    BY <1>1, <1>2, <1>3, PTL DEF Spec
==============================================================================
