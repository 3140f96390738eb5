----------------------------- MODULE PaperBook -----------------------------
(***************************************************************************)
(* What an auto paper-trader promises its operator, with no notion of the  *)
(* process that runs it or of the tables it writes: a mode is armed or not,*)
(* at most one mode is armed, and an armed mode advances its book by one   *)
(* whole trading day at a time.  A day-step closes some of the positions   *)
(* opened on earlier days, opens new ones for names it does not hold, and  *)
(* does all of it or none of it.  AutoTrader implements this module as     *)
(* long as no crash interrupts a save.                                     *)
(***************************************************************************)
EXTENDS Naturals

CONSTANTS Syms,   \* the names that can be traded
          MaxDay  \* the last trading day of the run

VARIABLES armed,   \* mode -> is the trader armed
          last,    \* mode -> the last day stepped, 0 before the first
          open,    \* mode -> the open positions, as [sym, entry]
          closed   \* mode -> the recorded trades, as [sym, entry, exit]

bookVars == <<armed, last, open, closed>>

BookModes == {"FAST", "HASTE"}
Rival(m) == IF m = "FAST" THEN "HASTE" ELSE "FAST"

BookInit ==
    /\ armed = [m \in BookModes |-> FALSE]
    /\ last = [m \in BookModes |-> 0]
    /\ open = [m \in BookModes |-> {}]
    /\ closed = [m \in BookModes |-> {}]

Arm(m) ==
    /\ ~armed[Rival(m)]
    /\ armed' = [armed EXCEPT ![m] = TRUE]
    /\ UNCHANGED <<last, open, closed>>

Disarm(m) ==
    /\ armed' = [armed EXCEPT ![m] = FALSE]
    /\ UNCHANGED <<last, open, closed>>

(* One trading day, all or nothing: an armed mode never repeats a day, a    *)
(* position leaves the book only as a trade, on a later day than it was     *)
(* opened, and a name still held is not bought again.                       *)
DayStep(m, d) ==
    /\ armed[m]
    /\ d > last[m]
    /\ last' = [last EXCEPT ![m] = d]
    /\ \E out \in SUBSET {p \in open[m] : p.entry < d}, bought \in SUBSET Syms :
          LET kept == open[m] \ out IN
          /\ \A p \in kept : p.sym \notin bought
          /\ open' = [open EXCEPT ![m] =
                        kept \cup {[sym |-> s, entry |-> d] : s \in bought}]
          /\ closed' = [closed EXCEPT ![m] = @ \cup
                          {[sym |-> p.sym, entry |-> p.entry, exit |-> d] : p \in out}]
    /\ UNCHANGED armed

BookNext ==
    \E m \in BookModes :
        \/ Arm(m)
        \/ Disarm(m)
        \/ \E d \in 1..MaxDay : DayStep(m, d)

BookSpec == BookInit /\ [][BookNext]_bookVars
=============================================================================
