------------------------------- MODULE MCDesk -------------------------------
(* The components beside the daemon and the traders, one instance: a part   *)
(* is chosen first, and only that component moves from then on.             *)
EXTENDS ExodusAccess, RiskMonitor, PaperRun, WeightTuning

VARIABLES
    part,
    wasShown \* what was shown for a day when it was about to open, while that should still stand

deskVars == <<accessVars, patternVars, paperVars, tuningVars, part, wasShown>>

-----------------------------------------------------------------------------
\* Logins and requests: while a request is under way no OTP round is open, only a signs in
\* and a step that fails is not shown

AccessBound ==
    call'.on => /\ {typed', keychain'.session} \subseteq {None, "a"} /\ "b" \notin accepted'
                /\ handles' = None /\ ~screen'.error

-----------------------------------------------------------------------------
\* Bars and broker summaries

Bar(o, h, l, c, v) ==
    [day |-> 0, traded |-> TRUE, open |-> o, high |-> h, low |-> l, close |-> c,
     volume |-> v, value |-> v, foreign |-> IF c < o THEN -1 ELSE 1]
Flat == Bar(100, 104, 100, 102, 2)
Dip == Bar(100, 103, 99, 103, 2)
Test == Bar(101, 103, 99, 100, 2)
Retest == Bar(101, 103, 98, 100, 2)
Strong == [Bar(106, 114, 106, 113, 5) EXCEPT !.foreign = -3]
Hold == Bar(108, 109, 107, 108, 1)
Weak == Bar(102, 110, 102, 103, 5)
Crash == Bar(100, 100, 92, 94, 9)
Locked == Bar(102, 102, 102, 102, 5)
Still == Bar(103, 104, 102, 103, 6)
DeskBars == {Flat, Dip, Test, Retest, Strong, Hold, Weak, Crash, Locked, Still}

DeskBrokers == <<"AK", "MG", "YP">>
DeskDna == [AK |-> "FOREIGN", MG |-> "SMART_MONEY", YP |-> "RETAIL"]
Side(b, s) == [buy |-> b, sell |-> s]
Gathering == [AK |-> Side(4, 0), MG |-> Side(5, 0), YP |-> Side(1, 10)]
Leaving == [AK |-> Side(0, 3), MG |-> Side(2, Absent), YP |-> Side(8, Absent)]
Buying == [AK |-> Side(20, 0)]
Selling == [AK |-> Side(0, 3)]
DeskBooks == {Gathering, Leaving, Buying, Selling}
DeskFundamentals == [sector |-> "BASIC", mf_rank_pct |-> 700, ev_ebit |-> 5, roe |-> 100]

\* a tape follows one of these scripts
Follows(t, scripts) ==
    \E s \in scripts : Len(t) <= Len(s) /\ \A d \in DOMAIN t :
        IF s[d] = Absent THEN t[d] = Absent ELSE t[d] = [s[d] EXCEPT !.day = d]

-----------------------------------------------------------------------------
\* The market of the point-in-time universe: x is the name in question, m trades every day

Quote(traded, value, close, broker) ==
    [traded |-> traded, value |-> value, close |-> close, broker |-> broker,
     open |-> 100, high |-> 107, low |-> 80, volume |-> 3, foreign |-> Absent]
At(close, book) == Quote(TRUE, 30, close, book)
Plain == At(100, Selling)
Flowing(q, net) == [q EXCEPT !.foreign = net]
Varied == {Plain, Flowing(Quote(FALSE, 30, 100, Gathering), -1), Flowing(Quote(TRUE, 12, 107, Selling), 2),
           Flowing(Quote(TRUE, Absent, 100, Absent), -3)}
\* the last of them once its broker rows have come
CaughtUp == Flowing(Quote(TRUE, Absent, 100, Selling), -3)
Priced100 == {At(c, Selling) : c \in {85, 97, 100, 103, 104}} \union {At(c, Buying) : c \in {94, 106}}
DeskQuotes == [x |-> Varied \union {CaughtUp} \union Priced100, m |-> {Plain}]
DeskSectors == [x |-> "BANK", m |-> "MINING"]
Index(s, from, to) == [index |-> "LQ45", symbol |-> s, from |-> from, to |-> to]
DeskRosterRows == {Index("x", 1, 2), Index("x", 3, 9), Index("m", 1, 9)}

\* bars or rows of a past day are stored
Late == today' = today /\ bars' # bars
Touched == {d \in Days : \E s \in Symbols : bars'[s][d] # bars[s][d]}

MarketBound ==
    /\ today' <= 4 /\ shelf' = shelf
    /\ \A d \in 1..today' : bars'["m"][d] = Plain /\ bars'["x"][d] \in Varied \union {CaughtUp, Absent}
    /\ today' # today => bars'["x"][today'] # CaughtUp
    /\ Late => today = 3 /\ \A d \in Touched : bars'["x"][d] \in {Plain, CaughtUp}
    /\ \A r \in roster' : r.symbol = "x"
    /\ roster' # roster => today = 2 /\ bars["x"][1] = Plain /\ bars["x"][2] = Plain

\* a day closes on what was shown for it; a row stored late says more of the days after its
\* own, a roster or a listing of them all
Note ==
    LET stands(s) == UNCHANGED <<snapshot, roster>> /\ \A d \in Touched : s.day <= d
        new == IF part = "market" /\ today' # today THEN {[day |-> today + 1, view |-> DeskShown(today + 1)]}
               ELSE {}
    IN wasShown' = {s \in wasShown : stands(s)} \union new

BooksBound ==
    /\ today' <= 4
    /\ roster' \ roster \subseteq Periods(shelf)
    /\ \A b \in Snapshots(shelf') : Lists(shelf', b, "m")
    /\ \A r, q \in shelf' : r.book = q.book => r.cap = q.cap
    /\ \A d \in 1..today' : bars'["m"][d] = Plain /\ bars'["x"][d] = Plain

\* x rises or falls for three days while its buyer turns seller, then falls, holds or stops
XDays(x, last) ==
    LET falls == last > 0 /\ x[1].close = 106
    IN \A d \in 1..last :
         x[d] \in CASE d = 1 -> {At(94, Buying), At(106, Buying)}
                    [] d = 2 -> {At(IF falls THEN 103 ELSE 97, Selling)}
                    [] d = 3 -> {At(100, Selling)}
                    [] d = 4 -> IF falls THEN {At(85, Selling)} ELSE {At(104, Selling), At(85, Selling), Absent}
                    [] d = 5 -> IF falls THEN {Plain} ELSE {Plain, Absent}
                    [] d = 6 -> IF falls THEN {Plain} ELSE {Plain, At(85, Selling), Absent}
                    [] d = 7 -> IF x[6] = Absent THEN {Plain, Absent} ELSE {Plain}

CatalogBound ==
    /\ shelf' = shelf
    /\ today' > 0 => bars'["x"][1] # Absent
    /\ XDays(bars'["x"], today') /\ \A d \in 1..today' : bars'["m"][d] = Plain
    /\ roster' # roster => roster = {} /\ today \in {4, 6} /\ Index("x", 3, 9) \in roster'
    /\ accrual' # accrual => today \in {5, 7}
    /\ Late => today = 6 /\ Touched = {4}

-----------------------------------------------------------------------------
\* One symbol's tape

TapeBound == Len(tape') <= 4 /\ \A d \in DOMAIN tape' :
    tape'[d] # Absent => [tape'[d] EXCEPT !.day = 0] \notin {Test, Retest, Still}

EngineScripts == {<<Flat, Flat, Dip, Still>>, <<Flat, Flat, Strong, Hold>>,
                  <<Crash, Flat, Flat, Weak>>, <<Locked, Absent, Dip, Weak>>, <<Locked, Flat, Dip, Weak>>}

EngineBound ==
    /\ Follows(tape', EngineScripts)
    /\ Cardinality({d \in DOMAIN flows' : flows'[d] = Absent}) <= 1
    /\ ksei' # ksei => Len(tape) \in {2, 4} /\ \A d \in DOMAIN flows : flows[d] # Absent
    /\ \A d \in DOMAIN flows' : flows'[d] # Absent => flows'[d].book \in {Gathering} \union (IF d = 1 THEN {} ELSE {Leaving})
    /\ \A s \in ksei' : s.share = 100 <=> s.day = 1

\* a fast run meets the dip on its third bar; its sixth may come late
FastScript == <<Flat, Flat, Dip, Strong, Strong, Crash, Crash>>
PaperScripts == {FastScript, [FastScript EXCEPT ![6] = Absent],
                 <<Flat, Flat, Flat, Test, Flat, Strong, Flat, Retest, Flat, Strong, Hold>>,
                 <<Flat, Flat, Flat, Test, Flat, Strong, Flat, Retest, Crash, Weak>>}

Config3(fast) ==
    [track |-> "B", fast_mode |-> fast, include_watch |-> TRUE, board |-> "MAIN", adv20 |-> 30,
     sector_now |-> 0, circuit |-> "OK"]
DeskRuns == {Config3(TRUE), Config3(FALSE)}

PaperBound ==
    /\ Follows(tape', PaperScripts)
    /\ Len(tape') >= 3 => (run.fast_mode <=> Follows(SubSeq(tape', 1, 3), {FastScript}))
    /\ Len(tape') <= stepped' + 2
    /\ ledger' # ledger => trades # <<>> /\ ledger'.months # 2
    /\ \A d \in DOMAIN flows' :
          IF flows'[d] = Absent THEN d \in {3, 8} ELSE flows'[d].book = (IF d = 2 THEN Leaving ELSE Gathering)

-----------------------------------------------------------------------------
\* Weights over three components, and what they would have realised

DeskComponents == <<"divergence", "foreign_flow", "rvol">>
Weighted(a, b, c) == [divergence |-> a, foreign_flow |-> b, rvol |-> c]
DeskIncumbents == [A |-> Weighted(5, 5, 0), B |-> Weighted(10, 0, 0)]
DeskLocked == [A |-> {}, B |-> {"foreign_flow"}]
DeskWeights == {Weighted(m[1], m[2], 10 - m[1] - m[2]) : m \in {k \in {0, 5, 10} \X {0, 5, 10} : k[1] + k[2] <= 10}}

\* n trades, two of them entered with the one before, held as it comes; what pays is the rvol,
\* or the foreign flow, whose last trade loses
Backtest(n, gain, Holding(_, _)) ==
    [w \in DeskWeights |-> [i \in 1..n |->
        [entry |-> IF i \in {3, 6} THEN i - 1 ELSE i,
         exit |-> i + Holding(w, i),
         ret |-> (IF i % 2 = 0 THEN 3 ELSE 1) + (IF i % 3 = 0 THEN w.foreign_flow ELSE 0)
                   + (IF gain = 2 THEN 2 * w.foreign_flow ELSE gain * w.rvol)
                   - (IF gain = 2 /\ i = 8 THEN 40 ELSE 0)]]]
DeskBacktests ==
    {Backtest(8, 1, LAMBDA w, i : 0), Backtest(8, 2, LAMBDA w, i : 0), Backtest(2, 0, LAMBDA w, i : 0),
     Backtest(8, 0, LAMBDA w, i : (i * i + w.divergence) % 4)}

WeightsBound == Cardinality(proposals') <= 2

-----------------------------------------------------------------------------
DeskInit ==
    /\ part \in {"access", "market", "books", "catalog", "tape", "engine", "paper", "weights"}
    /\ AccessInit /\ CatalogInit /\ PaperInit /\ TuningInit /\ wasShown = {}
    /\ part # "access" => accepted = {} /\ ~trusted
    /\ part # "paper" => run = Config3(TRUE)
    /\ part # "weights" => realised = Backtest(2, 0, LAMBDA w, i : 0)

DeskNext ==
    /\ part' = part
    /\ \/ part = "access" /\ AccessNext /\ AccessBound /\ UNCHANGED <<patternVars, paperVars, tuningVars>>
       \/ part = "market" /\ PitNext /\ MarketBound /\ UNCHANGED <<accessVars, catalogVars, paperVars, tuningVars>>
       \/ part = "books" /\ PitNext /\ BooksBound /\ UNCHANGED <<accessVars, catalogVars, paperVars, tuningVars>>
       \/ part = "catalog" /\ CatalogNext /\ CatalogBound /\ UNCHANGED <<accessVars, paperVars, tuningVars>>
       \/ part = "tape" /\ CloseWith(Absent) /\ TapeBound /\ UNCHANGED <<accessVars, patternVars, runVars, tuningVars>>
       \/ part = "engine" /\ EngineNext /\ EngineBound /\ UNCHANGED <<accessVars, patternVars, runVars, tuningVars>>
       \/ part = "paper" /\ PaperNext /\ PaperBound /\ UNCHANGED <<accessVars, patternVars, tuningVars>>
       \/ part = "weights" /\ TuningNext /\ WeightsBound /\ UNCHANGED <<accessVars, patternVars, paperVars>>
    /\ Note

DeskSpec == DeskInit /\ [][DeskNext]_deskVars /\ WF_accessVars(Send)

-----------------------------------------------------------------------------
(* Each component keeps its types, and what its bookkeeping says of itself. *)
DeskTypeOK ==
    /\ AccessTypeOK /\ TuningTypeOK
    /\ part \in {"market", "books"} => PitTypeOK
    /\ part = "catalog" => PitTypeOK /\ CatalogTypeOK
    /\ part \in {"tape", "engine", "paper"} => EngineTypeOK /\ PaperTypeOK

\* A property that evaluates its whole component is asked in the part where that moves.

(* No name of a replayed universe would have failed the live gate, but for  *)
(* the gap leg (pit.py, gate.py).                                           *)
ReplayedNamesPassTheGate == part = "market" => PitAgreesWithGate

(* What is shown for a past day is what was shown then, and what was        *)
(* decided on, as far as the store can tell: the universe with its tracks   *)
(* and its admitted bias, the regime, and every view up to the risk report  *)
(* stay whatever is stored of that day and of later ones, in whatever order *)
(* and however long after.  They may change only when a bar or broker rows  *)
(* of an earlier day come late, which count from that day on, or when a     *)
(* roster or a listing is loaded (store/db.py _read; timemachine.py         *)
(* decision_ts_for; pit.py, survivorship.py, regime.py, and the views that  *)
(* take a decision_ts).                                                     *)
PastIsShownAsItWas == \A s \in wasShown : DeskShown(s.day) = s.view

(* The views of a market add up: its sectors to its tides and to the book,  *)
(* and what the risk report says of the book holds of it (foreign_flow.py,  *)
(* sector_rotation.py, heatmap.py, risk_monitor.py).                        *)
ShownAddsUp == part = "market" => ViewsAgree /\ ReportHolds

(* The periods derived from the listing books are disjoint, not empty, and  *)
(* list every book's names on its date (listing.py derive_periods).         *)
BooksAreCovered == part = "books" => DerivedPeriodsCoverBooks

(* The volume profile loses no volume, and its value area is no wider than  *)
(* 70% of it needs (volume_profile.py).                                     *)
ProfilesHoldTheirVolume == part = "tape" => ProfileHoldsItsVolume

(* The readings of LD-13 change no phase, veto or state (sms.py, veto.py,   *)
(* phase.py).                                                               *)
ReadingsDecideNothing == part = "engine" => CandidatesDecideNothing

(* What the forward run closed day by day, on a store that rows reach late, *)
(* is what a backtest of today's store closes for the days no such row has  *)
(* changed; so is the ledger's award (runner.py, promotion.py).             *)
ForwardEqualsBacktest == part = "paper" => ForwardIsBacktest

(* A printed character is never repainted by a later bar (vpa.py).          *)
RibbonsStand == [][part = "tape" => KeepsRibbon]_deskVars

(* What is stored for a moment changes no frame before it (store/db.py      *)
(* _read, replay.py, engine.py).                                            *)
FramesStand == [][part = "engine" => KeepsEarlierFrames]_deskVars

(* What a pattern's rate has counted stays counted, unless a price comes    *)
(* late between an instance's entry and the end of its horizon (accrual.py, *)
(* outcome.py).                                                             *)
CountsStand == [][part = "catalog" => KeepsCounted]_deskVars
=============================================================================
