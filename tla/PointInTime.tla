---------------------------- MODULE PointInTime ----------------------------
(***************************************************************************)
(* Who could be traded on a past day: the point-in-time universe of        *)
(* universe/pit.py, rebuilt from the stored bars, the operator's index     *)
(* roster (universe/roster.py) and the board listing derived from annual   *)
(* books (universe/listing.py), with the survivorship bias it admits to    *)
(* (universe/survivorship.py), the market's regime on it (signals/regime.py) *)
(* and the live gate it must agree with (universe/gate.py).                *)
(*                                                                         *)
(* Time is a sequence of trading days.  The universe of day D is read      *)
(* before D opens, when the bar of D - 1 is the newest one visible.  A row *)
(* counts from its own day, whenever it is stored: a retry, a resumed run  *)
(* or a backfill may bring it days after later rows.                       *)
(***************************************************************************)
EXTENDS Bands, FiniteSetsExt

CONSTANTS
    Symbols,
    MaxDay,       \* bound: the last day
    Quotes,       \* symbol -> the bars a day may bring it
    Forever,      \* effective_to of an open period
    RosterRows,   \* rows the operator's index roster files may hold
    BookDays,     \* dates of the annual books
    SPAN_STRIDE,
    REGIME_MA_WINDOW, REGIME_MIN_OBS

Days == 1..MaxDay

ASSUME PointInTimeAssumption ==
    /\ MaxDay \in Nat /\ Forever \in Nat /\ Forever > MaxDay /\ BookDays \subseteq Days
    /\ IsFiniteSet(Symbols)
    /\ \A s \in Symbols : \A q \in Quotes[s] :
          /\ q # Absent /\ {"traded", "close", "broker"} \subseteq DOMAIN q
          /\ q.close \in Nat \union {Absent} /\ q.foreign \in Int \union {Absent}
    /\ \A r \in RosterRows :
          r.symbol \in Symbols /\ r.from \in Days /\ r.to \in Days \union {Forever}
    /\ SPAN_STRIDE \in Nat \ {0} /\ REGIME_MA_WINDOW \in Nat \ {0} /\ REGIME_MIN_OBS \in Nat \ {0}

VARIABLES
    today,    \* the last day that has closed
    bars,     \* table daily_bar: symbol -> day -> bar (with its broker rows' presence)
    shelf,    \* rows of the transcribed books in data/listings
    snapshot, \* table listing_snapshot
    roster    \* table index_roster_pit

pitVars == <<today, bars, shelf, snapshot, roster>>

-----------------------------------------------------------------------------
\* The store's reads

\* days of s with a bar stamped before day D's decision: strictly earlier days
Seen_SameDay(s, D) == {d \in Days : d <= D /\ bars[s][d] # Absent}

Seen(s, D) == {d \in Days : d < D /\ bars[s][d] # Absent}

Effective(row, d) == row.from <= d /\ d <= row.to
IndexesOf(s, d) == {row.index : row \in {r \in roster : r.symbol = s /\ Effective(r, d)}}
Members(index, d) == {row.symbol : row \in {r \in roster : r.index = index /\ Effective(r, d)}}
\* a LISTED period says nothing about the track-deciding indexes
RosterCovers(d) == \E r \in roster : r.index \in TRACK_A_INDEXES /\ Effective(r, d)

\* the market cap of s from the newest book up to day d that lists it
CapOf(s, d) ==
    LET listing == {r \in snapshot : r.symbol = s /\ r.book <= d}
    IN IF listing = {} THEN Absent
       ELSE (CHOOSE r \in listing : \A q \in listing : q.book <= r.book).cap

-----------------------------------------------------------------------------
\* Liquidity, track and bands

Newest(n, S) == {d \in S : Cardinality({e \in S : e > d}) < n}
Traded(s, S) == {d \in S : bars[s][d].traded}
Value(s, d) == IF bars[s][d].traded THEN bars[s][d].value ELSE 0
Close(s, d) == bars[s][d].close
Adds(s, S) == MapThenSumSet(LAMBDA d : Value(s, d), S)

\* the gate's 20-day average: a day without trades is a zero, a traded day without a
\* value leaves it unknown
AdvWindow(s, S) == Newest(ADV_WINDOW, S)
AdvKnown(s, S) ==
    S # {} /\ \A d \in AdvWindow(s, S) : bars[s][d].traded => bars[s][d].value # Absent
AdvAtLeast(s, S, floor) ==
    AdvKnown(s, S) /\ Adds(s, AdvWindow(s, S)) >= floor * Cardinality(AdvWindow(s, S))

\* the track's average: over the last traded bars, those without a value left out
TrackAdvAtLeast(s, S, floor) ==
    LET known == {d \in Newest(ADV_WINDOW, Traded(s, S)) : bars[s][d].value # Absent}
    IN known # {} /\ Adds(s, known) >= floor * Cardinality(known)

AssignTrack(indexes, liquid) == IF indexes \intersect TRACK_A_INDEXES # {} /\ liquid THEN "A" ELSE "B"
ResolveTrack(s, D, S) == AssignTrack(IndexesOf(s, D), TrackAdvAtLeast(s, S, ADV_TRACK_A))

\* the close before day d that the bands are measured from
PrevClose(s, S, d) ==
    LET priced == {e \in S : e < d /\ Close(s, e) \notin {Absent, 0}}
    IN IF priced = {} THEN Absent ELSE Close(s, Max(priced))

PinnedAt(s, S, d, board, ipo) ==
    LET prev == PrevClose(s, S, d)
    IN Close(s, d) # Absent /\ prev # Absent /\ Pinned(Close(s, d), prev, board, ipo) # "FREE"

-----------------------------------------------------------------------------
\* The live gate

\* days of the window that should have a bar and have none
GapDays(s, d) == {e \in (d - ADV_WINDOW + 1)..d : e >= 1 /\ bars[s][e] = Absent}

\* evaluate_gate: every leg that rejects s on signal day d
GateFailures(s, d, env) ==
    LET S == Seen(s, d + 1)
        has == d \in S
        fails ==
          [ INSUFFICIENT_HISTORY |-> (IF env.ipo # Absent THEN env.ipo ELSE Cardinality(S)) < MIN_HISTORY,
            DATA_GAP |-> GapDays(s, d) # {},
            NO_SIGNAL_DAY_BAR |-> ~has,
            INCOMPLETE_DATA |-> has /\ (~AdvKnown(s, S) \/ Close(s, d) = Absent),
            LOW_LIQUIDITY |-> has /\ AdvKnown(s, S) /\ ~AdvAtLeast(s, S, ADV_FLOOR),
            PRICE_FLOOR |-> has /\ Close(s, d) # Absent /\ Close(s, d) < PRICE_FLOOR,
            PINNED_CLOSE |-> has /\ PinnedAt(s, S, d, env.board, env.ipo),
            SUSPENDED |-> env.suspended,
            BROKER_SUMMARY_INCOMPLETE |-> ~env.broker,
            CORP_ACTION_WINDOW |-> \E e \in env.corp : Abs(e - d) <= CORP_WINDOW ]
    IN {f \in DOMAIN fails : fails[f]}

-----------------------------------------------------------------------------
\* The universe of a past day

\* a slip of PassesLegs: liquidity averaged over the traded days alone
PassesLegs_TradedAdv(s, D) ==
    LET S == Seen(s, D)
        last == Max(S)
    IN /\ Cardinality(Traded(s, S)) >= MIN_HISTORY
       /\ TrackAdvAtLeast(s, S, ADV_FLOOR)
       /\ Close(s, last) # Absent /\ Close(s, last) >= PRICE_FLOOR
       /\ ~PinnedAt(s, S, last, "MAIN", Absent)
       /\ bars[s][last].broker # Absent

PassesLegs(s, D) ==
    LET S == Seen(s, D)
        last == Max(S)
    IN /\ Cardinality(Traded(s, S)) >= MIN_HISTORY
       /\ AdvAtLeast(s, S, ADV_FLOOR)
       /\ Close(s, last) # Absent /\ Close(s, last) >= PRICE_FLOOR
       /\ ~PinnedAt(s, S, last, "MAIN", Absent)
       /\ bars[s][last].broker # Absent

\* a name with bars that stopped before the market did
Stopped(s, D) == Seen(s, D) # {} /\ \E q \in Symbols : Seen(q, D) # {} /\ Max(Seen(s, D)) < Max(Seen(q, D))

Passing(D) == {s \in Symbols : Seen(s, D) # {} /\ ~Stopped(s, D) /\ PassesLegs(s, D)}

\* measure_bias: listed names the store cannot serve near day D; no roster, no measure
Unrecoverable(D) ==
    {s \in Members(LISTED, D) : Seen(s, D) = {} \/ Max(Seen(s, D)) < D - RECOVERY_WINDOW}

SampleDays(start, end) == {d \in start..end : (d - start) % SPAN_STRIDE = 0} \union {end}

Bias(start, end) ==
    LET days == SampleDays(start, end)
        listed == UNION {Members(LISTED, d) : d \in days}
        lost == UNION {Unrecoverable(d) : d \in days}
        priced == {s \in listed : CapOf(s, end) # Absent}
        caps(S) == MapThenSumSet(LAMBDA s : CapOf(s, end), S)
    IN [measured |-> listed # {}, listed |-> listed, unrecoverable |-> lost,
        share |-> IF caps(priced) > 0 THEN <<caps(lost \intersect priced), caps(priced)>> ELSE Absent]

PitUniverse(D) ==
    [symbols |-> Passing(D),
     tracks |-> [s \in Passing(D) |-> ResolveTrack(s, D, Seen(s, D))],
     known_missing |-> {s \in Symbols : Stopped(s, D)},
     roster_gap |-> ~RosterCovers(D),
     unrecoverable |-> {s \in Unrecoverable(D) : Seen(s, D) = {}},
     survivorship |-> Bias(D, D)]

-----------------------------------------------------------------------------
\* The regime of the market on a past day, in thousandths rounded down

REGIME_TREND_BAND == 20

\* days of s with a close, after its first: the days it has a return
ReturnDays(s, D) ==
    LET priced == {d \in Traded(s, Seen(s, D)) : Close(s, d) \notin {Absent, 0}}
    IN priced \ {d \in priced : \A e \in priced : d <= e}
Before(s, d) == PrevClose(s, Traded(s, Seen(s, d)), d)
DailyReturn(s, d) ==
    [day |-> d, of |-> s, up |-> Close(s, d) > Before(s, d),
     by |-> (1000 * (Close(s, d) - Before(s, d))) \div Before(s, d)]

MarketReturns(names, D) == UNION {{DailyReturn(s, d) : d \in ReturnDays(s, D)} : s \in names}

\* trend of the equal-weight proxy of the names, confirmed by their breadth
MarketRegime(returns, D) ==
    LET days == {r.day : r \in returns}
        n == Cardinality(days)
        moved(d) == {r \in returns : r.day = d}
        proxy(d) == MapThenSumSet(LAMBDA r : r.by, moved(d)) \div Cardinality(moved(d))
        breadth(d) == (1000 * Cardinality({r \in moved(d) : r.up})) \div Cardinality(moved(d))
        level[d \in 0..D] ==
            IF d = 0 THEN 1000 ELSE IF d \in days THEN (level[d - 1] * (1000 + proxy(d))) \div 1000 ELSE level[d - 1]
        latest == level[Max(days)]
        averaged == Newest(REGIME_MA_WINDOW, days)
        above == latest * Cardinality(averaged) >= MapThenSumSet(LAMBDA d : level[d], averaged)
        broad == MapThenSumSet(LAMBDA d : breadth(d), days) \div n
    IN IF n < REGIME_MIN_OBS THEN "UNKNOWN"
       ELSE IF above /\ latest > 1000 + REGIME_TREND_BAND /\ broad >= 500 THEN "RISK_ON"
       ELSE IF ~above /\ latest < 1000 - REGIME_TREND_BAND /\ broad <= 550 THEN "RISK_OFF" ELSE "NEUTRAL"

-----------------------------------------------------------------------------
\* The listing derived from the books

Snapshots(rows) == {r.book : r \in rows}
Lists(rows, b, s) == \E r \in rows : r.book = b /\ r.symbol = s
NextTo(rows, b, c) == b < c /\ \A x \in Snapshots(rows) : ~(b < x /\ x < c)

\* a run of books that list s, without a gap, from its first to its last
Runs(rows, s) ==
    {run \in Snapshots(rows) \X Snapshots(rows) :
        /\ run[1] <= run[2]
        /\ \A x \in Snapshots(rows) : run[1] <= x /\ x <= run[2] => Lists(rows, x, s)
        /\ \A x \in Snapshots(rows) :
              NextTo(rows, x, run[1]) \/ NextTo(rows, run[2], x) => ~Lists(rows, x, s)}

ListingDate(rows, b, s) ==
    LET date == (CHOOSE r \in rows : r.book = b /\ r.symbol = s).listing
    IN IF date = Absent THEN b ELSE date

\* a slip of PeriodStart: a relisting keeps the listing date its book prints
PeriodStart_Unclamped(rows, s, run) == ListingDate(rows, run[1], s)

\* a relisting starts after the earlier period's end
PeriodStart(rows, s, run) ==
    Max({ListingDate(rows, run[1], s)}
          \union {prior[2] + 1 : prior \in {p \in Runs(rows, s) : p[2] < run[1]}})

\* a run that reaches the newest book stays open, another closes at its last book
PeriodEnd(rows, run) == IF run[2] = Max(Snapshots(rows)) THEN Forever ELSE run[2]

Periods(rows) ==
    UNION {{[index |-> LISTED, symbol |-> s, from |-> PeriodStart(rows, s, run), to |-> PeriodEnd(rows, run)]
              : run \in Runs(rows, s)} : s \in Symbols}

Overlap(p, q) == p.from <= q.to /\ q.from <= p.to
Disjoint(rows) ==
    \A p, q \in rows : p.index = q.index /\ p.symbol = q.symbol /\ Overlap(p, q) => p = q

\* ON CONFLICT DO NOTHING on (index_name, symbol, effective_from)
InsertNew(table, rows) ==
    table \union {r \in rows : \A t \in table : <<t.index, t.symbol, t.from>> # <<r.index, r.symbol, r.from>>}

-----------------------------------------------------------------------------
PitInit ==
    /\ today = 0
    /\ bars = [s \in Symbols |-> [d \in Days |-> Absent]]
    /\ shelf = {} /\ snapshot = {} /\ roster = {}

\* a day closes: each symbol has its bar, or none
CloseDay ==
    /\ today < MaxDay
    /\ today' = today + 1
    /\ \E b \in [Symbols -> (UNION {Quotes[s] : s \in Symbols}) \union {Absent}] :
          /\ \A s \in Symbols : b[s] \in Quotes[s] \union {Absent}
          /\ bars' = [s \in Symbols |-> [bars[s] EXCEPT ![today + 1] = b[s]]]
    /\ UNCHANGED <<shelf, snapshot, roster>>

\* the bar a past day lacks, or the broker rows its bar lacks, are stored under the stamp of
\* that day
StoreLate(s, d, q) ==
    /\ d \in 1..today /\ q \in Quotes[s]
    /\ bars[s][d] \in {Absent, [q EXCEPT !.broker = Absent]} \ {q}
    /\ bars' = [bars EXCEPT ![s][d] = q]
    /\ UNCHANGED <<today, shelf, snapshot, roster>>

\* a book is transcribed: the names it lists, some with their listing date or their cap
Transcribe(b) ==
    /\ b \notin Snapshots(shelf) /\ b <= today
    /\ \E listed \in (SUBSET Symbols) \ {{}} : \E dated \in SUBSET listed :
          shelf' = shelf \union
             {[book |-> b, symbol |-> s, listing |-> IF s \in dated THEN 1 ELSE Absent,
               cap |-> IF s \in dated THEN 1 ELSE Absent] : s \in listed}
    /\ UNCHANGED <<today, bars, snapshot, roster>>

\* load_listings derives from every book on the shelf and inserts what is new
LoadListings ==
    /\ shelf # {}
    /\ snapshot' = shelf
    /\ roster' = InsertNew(roster, Periods(shelf))
    /\ UNCHANGED <<today, bars, shelf>>

\* load_rosters rejects the whole directory over one overlap
LoadRosters(rows) ==
    /\ Disjoint(rows) /\ \A r \in rows : r.from <= r.to
    /\ roster' = InsertNew(roster, rows)
    /\ UNCHANGED <<today, bars, shelf, snapshot>>

PitNext ==
    \/ CloseDay
    \/ \E s \in Symbols, d \in Days : \E q \in Quotes[s] : StoreLate(s, d, q)
    \/ \E b \in BookDays : Transcribe(b)
    \/ LoadListings
    \/ \E rows \in SUBSET RosterRows : LoadRosters(rows)

-----------------------------------------------------------------------------
PitTypeOK ==
    /\ today \in 0..MaxDay
    /\ \A s \in Symbols, d \in Days : bars[s][d] \in Quotes[s] \union {Absent}
    /\ snapshot \subseteq shelf
    /\ \A r \in roster : r.from \in Days /\ r.to \in Days \union {Forever}

(* The replayed universe never admits a name the live gate would have       *)
(* turned away on the same bars (pit.py _passes_reconstructable_legs        *)
(* against gate.py evaluate_gate): beyond the two legs it declares          *)
(* unchecked, only the gate's gap leg may differ, which pit.py neither      *)
(* checks nor declares.                                                     *)
PitAgreesWithGate ==
    \A D \in 1..(today + 1) : \A s \in Passing(D) :
        GateFailures(s, Max(Seen(s, D)),
                     [ipo |-> Absent, board |-> "MAIN", suspended |-> FALSE, broker |-> TRUE,
                      corp |-> {}]) \subseteq {"DATA_GAP"}

(* Whatever books are transcribed, in whatever order and with whatever      *)
(* listing dates they print, the derived periods of a name do not overlap,  *)
(* none is empty, and each book's names are listed on its date (listing.py  *)
(* derive_periods).                                                         *)
DerivedPeriodsCoverBooks ==
    LET periods == Periods(shelf)
    IN /\ Disjoint(periods)
       /\ \A p \in periods : p.from <= p.to
       /\ \A r \in shelf : \E p \in periods : p.symbol = r.symbol /\ Effective(p, r.book)
=============================================================================
