---------------------------- MODULE TapeSignals ----------------------------
(***************************************************************************)
(* What one symbol's daily bars say: the Wyckoff phase (signals/phase.py), *)
(* the bar-character ribbon (signals/vpa.py), the approximate volume       *)
(* profile (signals/volume_profile.py) and the decay flags                 *)
(* (signals/distribution.py).                                              *)
(*                                                                         *)
(* A bar is a record of whole prices and volumes, in the order of its      *)
(* days; quotients are compared by cross-multiplication, never rounded.    *)
(***************************************************************************)
EXTENDS Config, SequencesExt

CONSTANTS
    Bars,      \* the bars a day may print; each has the fields of daily_bar read here
    TapeDays,  \* bound: days of the tape
    VP_UNIT    \* the profile counts volume in this fraction of a share

Price == Nat \union {Absent}

ASSUME TapeAssumption ==
    /\ TapeDays \in Nat /\ VP_UNIT \in Nat \ {0}
    /\ Bars \subseteq [day : {0}, traded : BOOLEAN, open : Price, high : Price, low : Price, close : Price,
                      volume : Price, value : Price, foreign : Int \union {Absent}]
    \* fine enough that a bar's share of a bucket is a whole number of these fractions
    /\ \A b \in {c \in Bars : Absent \notin {c.low, c.high}} :
          b.low < b.high => VP_UNIT % ((b.high - b.low) * VP_BUCKETS) = 0

VARIABLE tape  \* table daily_bar of the symbol: day -> bar

-----------------------------------------------------------------------------
\* Bar hygiene: a bar that did not trade, or lacks a field, is dropped

Stored(t) == SelectSeq(t, LAMBDA b : b # Absent)
HasRange(b) == b.traded /\ Absent \notin {b.high, b.low, b.close, b.volume}
Complete(t) == SelectSeq(Stored(t), LAMBDA b : HasRange(b) /\ b.open # Absent)
CompleteDays(t) == {d \in DOMAIN t : t[d] # Absent /\ HasRange(t[d]) /\ t[d].open # Absent}
VpDays(t) == {d \in DOMAIN t : t[d] # Absent /\ HasRange(t[d])}
LastDays(n, S) == {d \in S : Cardinality({e \in S : e > d}) < n}

LastN(n, s) == SubSeq(s, IF Len(s) > n THEN Len(s) - n + 1 ELSE 1, Len(s))
Field(name, s) == [i \in DOMAIN s |-> s[i][name]]
Total(s) == FoldSeq(LAMBDA x, acc : x + acc, 0, s)
Lows(s) == {b.low : b \in Range(s)}
Highs(s) == {b.high : b \in Range(s)}
Spread(b) == b.high - b.low

\* volume of b against m thousandths of the average of s, which must not be empty
VolumeAtLeast(b, m, s) == 1000 * b.volume * Len(s) >= m * Total(Field("volume", s))
VolumeAtMost(b, m, s) == 1000 * b.volume * Len(s) <= m * Total(Field("volume", s))

\* the close at or above p thousandths of the bar's range; without a range, halfway
ClosePositionAtLeast(b, p) ==
    IF Spread(b) <= 0 THEN 500 >= p ELSE 1000 * (b.close - b.low) >= p * Spread(b)
-----------------------------------------------------------------------------
\* Wyckoff phase: detectors, each over the window w and the trading range rng

HasRally(w, i) ==
    LET after == SubSeq(w, i + 1, Min({Len(w), i + AR_SPAN}))
    IN after # <<>> /\ 100 * Max(Highs(after)) > 102 * w[i].low

SellingClimaxes(w) ==
    {i \in 3..((7 * Len(w)) \div 10) :
        LET prior == SubSeq(w, Max({1, i - ADV_WINDOW}), i - 1)
        IN /\ Total(Field("volume", prior)) > 0
           /\ VolumeAtLeast(w[i], PHASE_SC_VOLUME_MULT, prior)
           /\ w[i].close < w[i].open
           /\ w[i].low <= Min(Lows(prior))
           /\ HasRally(w, i)}

\* index of the climax of the largest volume, the earliest of equals; 0 for none
SellingClimax(w) ==
    LET found == IF Len(w) < PHASE_RANGE_MIN_BARS THEN {} ELSE SellingClimaxes(w)
    IN IF found = {} THEN 0
       ELSE CHOOSE i \in found :
              \A j \in found : w[j].volume < w[i].volume \/ (w[j].volume = w[i].volume /\ i <= j)

BaseOf(w) == SubSeq(w, 1, Len(w) - EVENT_WINDOW)

\* the range is anchored on the climax and its rally, else on the base before the events
NoRange == [support |-> 0, resistance |-> 0, base |-> <<>>]
TradingRange(w, climax) ==
    LET span == IF climax # 0 THEN SubSeq(w, climax, Min({Len(w), climax + AR_SPAN - 1})) ELSE BaseOf(w)
    IN IF climax = 0 /\ Len(span) < PHASE_RANGE_MIN_BARS THEN NoRange
       ELSE [support |-> Min(Lows(span)), resistance |-> Max(Highs(span)),
             base |-> IF climax # 0 THEN SubSeq(w, climax, Len(w)) ELSE span]

Span(rng) == rng.resistance - rng.support
BelowSupport(b, rng) == 1000 * b.close < rng.support * (1000 - PHASE_SPRING_PENETRATION)
Extended(b, rng) == 1000 * b.close >= rng.resistance * (1000 + PHASE_MARKUP_EXTENSION)

\* least-squares slope of the closes, over their mean, at or under -0.003, near the bottom
IsDowntrend(s, rng) ==
    LET n == Len(s)
        x(i) == 2 * i - n - 1
        sxy == Total([i \in DOMAIN s |-> x(i) * s[i].close])
        sxx == Total([i \in DOMAIN s |-> x(i) * x(i)])
    IN /\ n >= 3
       /\ 2000 * n * sxy <= -3 * sxx * Total(Field("close", s))
       /\ 100 * (s[n].close - rng.support) <= 15 * Span(rng)

\* indexes of the recent bars
Recent(w) == Max({1, Len(w) - EVENT_WINDOW + 1})..Len(w)

Springs(w, rng) ==
    {i \in Recent(w) :
        /\ rng.support * (1000 - PHASE_SPRING_PENETRATION) <= 1000 * w[i].low /\ w[i].low < rng.support
        /\ w[i].close >= rng.support
        /\ \/ Total(Field("volume", rng.base)) <= 0
           \/ VolumeAtMost(w[i], PHASE_SPRING_MAX_VOLUME_MULT, rng.base)}

SignsOfStrength(w, rng) ==
    {i \in Recent(w) \ {1} :
        /\ w[i].high >= rng.resistance
        /\ w[i].close > w[i].open /\ ClosePositionAtLeast(w[i], 500)
        /\ \/ Total(Field("volume", rng.base)) <= 0
           \/ VolumeAtLeast(w[i], PHASE_SOS_VOLUME_MULT, rng.base)}

LastPointsOfSupport(w, rng, sos) ==
    {i \in (sos + 1)..Len(w) :
        /\ 2 * (w[i].low - rng.support) >= Span(rng)
        /\ 2 * (w[i].close - rng.support) >= Span(rng)
        /\ ~Extended(w[i], rng)}

Upthrusts(w, rng) ==
    {i \in Recent(w) : /\ w[i].high > rng.resistance
                       /\ w[i].close < rng.resistance
                       /\ ~ClosePositionAtLeast(w[i], VETO_DIST_CLOSE_POSITION)}

WeakUpBars(w, rng) ==
    {i \in Recent(w) : /\ w[i].close > w[i].open
                       /\ VolumeAtLeast(w[i], 1000, rng.base)
                       /\ ~ClosePositionAtLeast(w[i], VETO_DIST_CLOSE_POSITION)}

Event(kind, bar) == [kind |-> kind, day |-> bar.day]
TRADEABLE_PHASES == {"C", "D"}

\* classify: the phase of the tape t and the events behind it, in the order of the code
UnknownPhase == [phase |-> "UNKNOWN", events |-> <<>>, range |-> NoRange]

\* the first verdict that its bars support
Verdict(w, climax, rng) ==
    LET n == Len(w)
        seen == IF climax = 0 THEN <<>> ELSE <<Event("SELLING_CLIMAX", w[climax])>>
        before == IF climax = 0 THEN BaseOf(w) ELSE SubSeq(w, 1, climax - 1)
        trending == \/ 1000 * Span(rng) > PHASE_RANGE_MAX_WIDTH * rng.support
                    \/ before # <<>> /\ IsDowntrend(before, rng)
        sos == SignsOfStrength(w, rng)
        first == Min(sos)
        lps == LastPointsOfSupport(w, rng, first)
        is(phase, events) == [phase |-> phase, events |-> events, range |-> rng]
    IN IF rng.support <= 0 THEN UnknownPhase
       ELSE IF Extended(w[n], rng) THEN is("E", seen)
       ELSE IF Upthrusts(w, rng) # {}
            THEN is("DISTRIBUTION", Append(seen, Event("UTAD", w[Max(Upthrusts(w, rng))])))
       ELSE IF Cardinality(WeakUpBars(w, rng)) >= 2 THEN is("DISTRIBUTION", seen)
       ELSE IF trending /\ BelowSupport(w[n], rng) THEN is("DOWNTREND", seen)
       ELSE IF Springs(w, rng) # {}
            THEN is("C", Append(seen, Event("SPRING", w[Max(Springs(w, rng))])))
       ELSE IF sos # {} /\ lps # {}
            THEN is("D", seen \o <<Event("SOS", w[first]), Event("LPS", w[Min(lps)])>>)
       ELSE IF sos # {} THEN is("B", Append(seen, Event("SOS", w[first])))
       ELSE IF climax # 0 /\ n - climax + 1 <= AR_SPAN THEN is("A", seen)
       ELSE is("B", seen)

VerdictFrom(w, climax) == Verdict(w, climax, TradingRange(w, climax))
VerdictOver(w) == VerdictFrom(w, SellingClimax(w))

Classify(t) ==
    IF Len(Complete(t)) < PHASE_MIN_BARS THEN UnknownPhase
    ELSE VerdictOver(LastN(PHASE_RANGE_LOOKBACK, Complete(t)))

EventKinds(cls) == {cls.events[i].kind : i \in DOMAIN cls.events}
Tradeable(cls) == cls.phase \in TRADEABLE_PHASES

-----------------------------------------------------------------------------
\* Bar character

DEMAND_SIDE == {"NO_SUPPLY", "ABSORPTION", "STOPPING_VOLUME"}
SUPPLY_SIDE == {"NO_DEMAND", "SUPPLY_PRESENT", "CHURN"}

\* the move over the bars before the last is at least p thousandths up (or down)
PriorMove(history) ==
    LET n == Len(history)
        base == SubSeq(history, Max({1, n - VPA_TREND_BARS - 1}), n - 1)
    IN IF Len(base) < 2 \/ base[1].close = 0 THEN "none"
       ELSE IF 1000 * (base[Len(base)].close - base[1].close) >= VPA_TREND_PCT * base[1].close THEN "rally"
       ELSE IF 1000 * (base[Len(base)].close - base[1].close) <= -VPA_TREND_PCT * base[1].close THEN "decline"
       ELSE "none"

\* classify_bar: the last bar of a history against the bars before it
CharacterOf(history) ==
    LET n == Len(history)
        bar == history[n]
        context == SubSeq(history, Max({1, n - VPA_CONTEXT_BARS}), n - 1)
        spreads == Total([i \in DOMAIN context |-> Spread(context[i])])
        narrow == 1000 * Spread(bar) * Len(context) <= VPA_NARROW_SPREAD_MULT * spreads
        wide == 1000 * Spread(bar) * Len(context) >= VPA_WIDE_SPREAD_MULT * spreads
        up == bar.close > context[Len(context)].close
        down == bar.close < context[Len(context)].close
        high == ClosePositionAtLeast(bar, VPA_CLOSE_HIGH)
        low == 1000 * (bar.close - bar.low) <= VPA_CLOSE_LOW * Spread(bar)
    IN IF \/ Len(context) < VPA_MIN_CONTEXT_BARS \/ Spread(bar) <= 0
          \/ spreads <= 0 \/ Total(Field("volume", context)) <= 0 THEN "UNREADABLE"
       ELSE IF VolumeAtLeast(bar, VPA_HIGH_VOL_MULT, context)
            THEN CASE narrow -> "CHURN"
                   [] ~narrow /\ high /\ ~up /\ bar.low <= Min(Lows(context)) -> "STOPPING_VOLUME"
                   [] ~narrow /\ high /\ ~up /\ bar.low > Min(Lows(context)) -> "ABSORPTION"
                   [] ~narrow /\ low /\ up -> "SUPPLY_PRESENT"
                   [] ~narrow /\ high /\ up /\ wide -> "DEMAND_CONFIRMED"
                   [] OTHER -> "NEUTRAL"
       ELSE IF VolumeAtMost(bar, VPA_LOW_VOL_MULT, context) /\ narrow
            THEN CASE up /\ PriorMove(history) = "rally" -> "NO_DEMAND"
                   [] down /\ PriorMove(history) = "decline" -> "NO_SUPPLY"
                   [] OTHER -> "NEUTRAL"
       ELSE "NEUTRAL"

\* a slip of Ribbon: the window is cut before the bars are read, not after
Ribbon_CutFirst(t) ==
    LET days == LastDays(VPA_RIBBON_BARS, CompleteDays(t))
    IN [d \in days |-> CharacterOf(Complete(SubSeq(t, Min(days), d)))]

\* build_reading: the latest bars by day, each read against its own past
Ribbon(t) == [d \in LastDays(VPA_RIBBON_BARS, CompleteDays(t)) |-> CharacterOf(Complete(SubSeq(t, 1, d)))]

Readable(ribbon) == \E d \in DOMAIN ribbon : ribbon[d] # "UNREADABLE"
DemandSideBars(ribbon) == Cardinality({d \in DOMAIN ribbon : ribbon[d] \in DEMAND_SIDE})

\* the characters that speak for and against an event
CONFIRMS ==
    [ SPRING |-> DEMAND_SIDE, LPS |-> {"NO_SUPPLY", "ABSORPTION"}, SOS |-> {"DEMAND_CONFIRMED"},
      UTAD |-> SUPPLY_SIDE, SELLING_CLIMAX |-> {"STOPPING_VOLUME", "ABSORPTION"} ]
CONTRADICTS ==
    [ SPRING |-> {"SUPPLY_PRESENT", "CHURN"}, LPS |-> {"SUPPLY_PRESENT", "NO_DEMAND"}, SOS |-> SUPPLY_SIDE,
      UTAD |-> {"DEMAND_CONFIRMED"}, SELLING_CLIMAX |-> {"NO_DEMAND"} ]

VpaNotes(ribbon, e) ==
    LET on == {ribbon[d] : d \in DOMAIN ribbon \intersect {e.day}}
    IN {"VPA confirms" : c \in on \intersect CONFIRMS[e.kind]}
         \union {"VPA does not confirm" : c \in on \intersect CONTRADICTS[e.kind]}

\* the candidate component's strength in thousandths
VpaSubscore(ribbon) == Min({1000, (1000 * DemandSideBars(ribbon)) \div VPA_FULL_CREDIT_BARS})
-----------------------------------------------------------------------------
\* Volume profile: buckets 0..VP_BUCKETS - 1 of the window's price range [lo, hi]

Buckets == 0..(VP_BUCKETS - 1)
SumOver(f, S) == MapThenSumSet(LAMBDA i : f[i], S)
IndexOf(price, lo, hi) == Min({VP_BUCKETS - 1, ((price - lo) * VP_BUCKETS) \div (hi - lo)})
\* the lower edge of bucket i, in VP_BUCKETS-ths of a rupiah
Edge(i, lo, hi) == lo * VP_BUCKETS + i * (hi - lo)

\* what bar b leaves in bucket i: its volume by the share of its range that overlaps it
ShareOf(b, i, lo, hi) ==
    LET overlap == Min({b.high * VP_BUCKETS, Edge(i + 1, lo, hi)}) - Max({b.low * VP_BUCKETS, Edge(i, lo, hi)})
    IN IF Spread(b) <= 0 THEN (IF i = IndexOf(b.low, lo, hi) THEN b.volume * VP_UNIT ELSE 0)
       ELSE IF i \in IndexOf(b.low, lo, hi)..IndexOf(b.high, lo, hi) /\ overlap > 0
            THEN (b.volume * VP_UNIT * overlap) \div (Spread(b) * VP_BUCKETS)
       ELSE 0

\* a slip of Allocate: the bucket of the high is left out
Allocate_ShortRange(w, lo, hi) ==
    [i \in Buckets |-> Total([k \in DOMAIN w |->
        IF Spread(w[k]) > 0 /\ i = IndexOf(w[k].high, lo, hi) THEN 0 ELSE ShareOf(w[k], i, lo, hi)])]

Allocate(w, lo, hi) == [i \in Buckets |-> Total([k \in DOMAIN w |-> ShareOf(w[k], i, lo, hi)])]

\* the heaviest bucket, the lowest of equals
PointOfControl(vols) ==
    CHOOSE i \in Buckets : \A j \in Buckets : vols[j] < vols[i] \/ (vols[j] = vols[i] /\ i <= j)

\* one bucket at a time towards the heavier neighbour, the upper one of equals
GrowArea(vols, area) ==
    LET below == IF area[1] > 0 THEN vols[area[1] - 1] ELSE -1
        above == IF area[2] < VP_BUCKETS - 1 THEN vols[area[2] + 1] ELSE -1
    IN IF \/ 1000 * SumOver(vols, area[1]..area[2]) >= VP_VALUE_AREA_PCT * SumOver(vols, Buckets)
          \/ area = <<0, VP_BUCKETS - 1>> THEN area
       ELSE IF above >= below THEN <<area[1], area[2] + 1>> ELSE <<area[1] - 1, area[2]>>

ValueArea(vols) ==
    LET poc == PointOfControl(vols)
        grown[n \in 0..VP_BUCKETS] == IF n = 0 THEN <<poc, poc>> ELSE GrowArea(vols, grown[n - 1])
    IN grown[VP_BUCKETS]

NodeKind(vols, i) ==
    LET live == Cardinality({j \in Buckets : vols[j] > 0})
    IN IF 1000 * vols[i] * live >= VP_HVN_MULT * SumOver(vols, Buckets) THEN "HVN"
       ELSE IF 1000 * vols[i] * live <= VP_LVN_MULT * SumOver(vols, Buckets) THEN "LVN"
       ELSE "ORDINARY"

\* adjacent buckets of one kind are one node
Nodes(vols) ==
    {node \in [kind : {"HVN", "LVN", "ORDINARY"}, low : Buckets, high : Buckets] :
        /\ node.low <= node.high
        /\ \A i \in node.low..node.high : NodeKind(vols, i) = node.kind
        /\ \A i \in {node.low - 1, node.high + 1} \intersect Buckets : NodeKind(vols, i) # node.kind}

NoProfile == [available |-> FALSE]

BuildProfile(t) ==
    LET days == LastDays(VP_WINDOW_BARS, VpDays(t))
        w == [d \in days |-> t[d]]
        lo == Min(Lows(w))
        hi == Max(Highs(w))
        vols == Allocate(w, lo, hi)
    IN IF Cardinality(days) < VP_MIN_BARS THEN NoProfile
       ELSE IF hi <= lo \/ SumOver(vols, Buckets) <= 0 THEN NoProfile
       ELSE [available |-> TRUE, bars |-> w, lo |-> lo, hi |-> hi, vols |-> vols,
             poc |-> PointOfControl(vols), area |-> ValueArea(vols), nodes |-> Nodes(vols)]

\* the event's bar reaches the level it is read against, within one bucket
Confluent(profile, e) ==
    /\ profile.available
    /\ \E b \in Range(profile.bars) :
          LET tol == VP_CONFLUENCE_BUCKETS * (profile.hi - profile.lo)
              val == Edge(profile.area[1], profile.lo, profile.hi)
              vah == Edge(profile.area[2] + 1, profile.lo, profile.hi)
              poc == Edge(profile.poc, profile.lo, profile.hi) + Edge(profile.poc + 1, profile.lo, profile.hi)
          IN /\ b.day = e.day
             /\ \/ e.kind = "SPRING" /\ b.low * VP_BUCKETS <= val + tol
                \/ e.kind = "UTAD" /\ b.high * VP_BUCKETS >= vah - tol
                \/ e.kind = "LPS" /\ 2 * b.close * VP_BUCKETS - poc \in (-2 * tol)..(2 * tol)

VpNotes(profile, e) == {"Volume profile confirms" : x \in {y \in {e} : Confluent(profile, y)}}

VpSubscore(profile, events) ==
    LET hits == {i \in DOMAIN events : events[i].kind \in {"SPRING", "LPS"} /\ Confluent(profile, events[i])}
    IN Min({1000, (1000 * Cardinality(hits)) \div VP_FULL_CREDIT_CONFLUENCES})

\* the events with their notes: a reading annotates a verdict already made
Corroborate(cls, ribbon, profile) ==
    LET noted(e) == [kind |-> e.kind, day |-> e.day, notes |-> VpaNotes(ribbon, e) \union VpNotes(profile, e)]
    IN [cls EXCEPT !.events = [i \in DOMAIN cls.events |-> noted(cls.events[i])]]

-----------------------------------------------------------------------------
\* Decay flags; flow is the tape's net flow of a day, Absent where it has none

Halves(s) == <<SubSeq(s, 1, Len(s) \div 2), SubSeq(s, Len(s) \div 2 + 1, Len(s))>>

NoDemand(s) ==
    LET n == Len(s)
        recent == SubSeq(s, Max({1, n - DECAY_WINDOW}), n - 1)
        spreads == Total([i \in DOMAIN recent |-> Spread(recent[i])])
    IN /\ n >= 3
       /\ s[n].close > s[n].open
       /\ spreads <= 0 \/ 1000 * Spread(s[n]) * Len(recent) <= DECAY_NO_DEMAND_SPREAD_MULT * spreads
       /\ s[n].volume < s[n - 1].volume /\ s[n].volume < s[n - 2].volume

BearishDivergence(s, flow) ==
    LET w == LastN(DECAY_WINDOW, s)
        n == Len(w)
        closes == Halves(Field("close", w))
        flows == Halves(SelectSeq([i \in DOMAIN w |-> flow[w[i].day]], LAMBDA x : x # Absent))
    IN /\ n >= 4 /\ w[1].close # 0
       /\ 1000 * (w[n].close - w[1].close) >= DECAY_DIVERGENCE_MIN_PRICE_RISE * w[1].close
       /\ Total(closes[2]) * Len(closes[1]) > Total(closes[1]) * Len(closes[2])
       /\ Len(flows[1]) + Len(flows[2]) >= 4
       /\ Total(flows[2]) < Total(flows[1]) /\ Total(flows[2]) <= 0

ForeignOutflow(s) ==
    LET nets == SelectSeq(Field("foreign", s), LAMBDA x : x # Absent)
    IN /\ Len(nets) >= DECAY_FOREIGN_SELL_STREAK
       /\ \A x \in Range(LastN(DECAY_FOREIGN_SELL_STREAK, nets)) : x < 0

\* build_decay: every detector runs
Decay(t, flow, cls) ==
    LET s == Complete(t)
    IN {kind \in {"PHASE_ROLLOVER", "BEARISH_DIVERGENCE", "NO_DEMAND", "FOREIGN_OUTFLOW"} :
          CASE kind = "PHASE_ROLLOVER" -> cls.phase = "DISTRIBUTION"
            [] kind = "BEARISH_DIVERGENCE" -> BearishDivergence(s, flow)
            [] kind = "NO_DEMAND" -> NoDemand(s)
            [] kind = "FOREIGN_OUTFLOW" -> ForeignOutflow(s)}

-----------------------------------------------------------------------------
TapeInit == tape = <<>>

\* a day's bar is stored, or the day stays without one
PrintBar ==
    /\ Len(tape) < TapeDays
    /\ \E b \in Bars : tape' = Append(tape, [b EXCEPT !.day = Len(tape) + 1])
SkipBar == Len(tape) < TapeDays /\ tape' = Append(tape, Absent)

TapeNext == PrintBar \/ SkipBar

-----------------------------------------------------------------------------
TapeTypeOK ==
    /\ Len(tape) <= TapeDays
    /\ \A d \in DOMAIN tape : tape[d] # Absent => tape[d].day = d /\ [tape[d] EXCEPT !.day = 0] \in Bars

(* A bar's character, once printed on the ribbon, is the same on the ribbon *)
(* of every later day: it is read from the bars before it alone, whatever   *)
(* window shows it (vpa.py classify_bar, build_reading: look-ahead-safe bar *)
(* by bar).                                                                 *)
KeepsRibbon ==
    \A was \in {Ribbon(tape)}, is \in {Ribbon(tape')} :
        \A d \in DOMAIN was \intersect DOMAIN is : is[d] = was[d]

(* No volume is lost between the buckets, and the value area is the POC's   *)
(* own band: it holds 70% of the volume and would not without one of its    *)
(* ends, a heavier bucket never waiting outside the POC                     *)
(* (volume_profile.py _allocate, _value_area).                              *)
ProfileHoldsItsVolume ==
    \A p \in {BuildProfile(tape)} : p.available =>
        LET held(S) == SumOver(p.vols, S)
            target == VP_VALUE_AREA_PCT * held(Buckets)
        IN /\ held(Buckets) = VP_UNIT * Total(Field("volume", p.bars))
           /\ p.poc \in p.area[1]..p.area[2]
           /\ 1000 * held(p.area[1]..p.area[2]) >= target
           /\ p.area[1] = p.area[2] \/ \E end \in {p.area[1], p.area[2]} \ {p.poc} :
                 1000 * held((p.area[1]..p.area[2]) \ {end}) < target
=============================================================================
