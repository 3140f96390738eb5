------------------------------- MODULE Ingest -------------------------------
(***************************************************************************)
(* Filling the store: ingest/pipeline.py, ingest_symbol, as the scheduler, *)
(* the ingest and backfill commands and the bootstrap call it, over the    *)
(* paged feed of dal/client.py.                                            *)
(*                                                                         *)
(* A run takes its names in turn.  Per name it asks the broker summary of  *)
(* every weekday without a stored bar, one call a day, writes all of those *)
(* rows, then walks the pages of the bar feed and writes the bars.  The    *)
(* bar is the commit marker: a day is asked for until its bar is stored,   *)
(* and never after.  Every row is a write of its own, and a run may be cut *)
(* off anywhere: by a failed call or by the end of the process.            *)
(*                                                                         *)
(* Days are weekdays.  What the feed serves for a day appears at a time of *)
(* its own: the bar first or the broker summary first, both before the     *)
(* next day (config.BROKER_CONSERVATIVE_AVAILABLE_TIME), neither on a      *)
(* holiday, which the program does not know of.                            *)
(***************************************************************************)
EXTENDS Integers, FiniteSets

CONSTANTS
    Syms,       \* the names of the universe
    NoSym,      \* none of them
    Rows,       \* broker rows of one published day (broker and side)
    MaxDay,     \* bound: number of weekdays
    Holidays,   \* weekdays without trading
    StartDays,  \* where a backfill window may begin (config.regime_start)
    PageLimit,  \* config.OHLCV_PAGE_LIMIT
    MaxFaults   \* bound: number of runs cut off

Days == 1..MaxDay

ASSUME DaysAssumption == MaxDay \in Nat \ {0} /\ Holidays \subseteq Days /\ StartDays \subseteq Days
ASSUME SymsAssumption == NoSym \notin Syms
ASSUME PageAssumption == PageLimit \in Nat \ {0}
ASSUME FaultsAssumption == MaxFaults \in Nat

VARIABLES
    today,      \* the current weekday
    served,     \* what the feed serves: bar days, and broker summary days
    bars,       \* table daily_bar, as <<symbol, day>>
    broker,     \* table broker_net, as <<symbol, day, row>>
    pc,         \* where the run is
    job,        \* its local variables
    reported,   \* symbol -> the window last reported done (IngestResult)
    early,      \* <<symbol, day>> last asked before the feed served its summary
    faults

vars == <<today, served, bars, broker, pc, job, reported, early, faults>>

NoWindow == [lo |-> 1, hi |-> 0]
Window == [lo : Days, hi : Nat]
IdleJob == [todo |-> {}, sym |-> NoSym, win |-> NoWindow, missing |-> {},
            ask |-> {}, rows |-> {}, page |-> 1, got |-> {}, due |-> {}]

Ingested_ByBroker(s) == {d \in Days : \E r \in Rows : <<s, d, r>> \in broker}

Ingested(s) == {d \in Days : <<s, d>> \in bars}
Between(S, lo, hi) == {d \in S : lo <= d /\ d <= hi}
Span(S) == {d \in Days : \E e, f \in S : e <= d /\ d <= f}

-----------------------------------------------------------------------------
(* A definition whose name ends in an underscore and a word is a plausible  *)
(* slip in the definition that follows it; the runs are shown to catch it.  *)

(* The feed and the calendar.                                               *)

Open(d) == d \notin Holidays

ServeBar ==
    /\ Open(today) /\ today \notin served.bar
    /\ served' = [served EXCEPT !.bar = @ \cup {today}]
    /\ UNCHANGED <<today, bars, broker, pc, job, reported, early, faults>>

ServeBroker ==
    /\ Open(today) /\ today \notin served.broker
    /\ served' = [served EXCEPT !.broker = @ \cup {today}]
    /\ UNCHANGED <<today, bars, broker, pc, job, reported, early, faults>>

NextDay ==
    /\ today < MaxDay
    /\ Open(today) => today \in served.bar /\ today \in served.broker
    /\ today' = today + 1
    /\ UNCHANGED <<served, bars, broker, pc, job, reported, early, faults>>

(* One page of the served bars of some days, newest first.                  *)
Page(k, days) ==
    LET listed == served.bar \cap days
        rank(d) == Cardinality({e \in listed : e >= d})
    IN {d \in listed : (k - 1) * PageLimit < rank(d) /\ rank(d) <= k * PageLimit}

-----------------------------------------------------------------------------
(* A run.                                                                   *)

(* The scheduler asks for the previous weekday, the other callers for a     *)
(* window that ends today.                                                  *)
Windows ==
    {[lo |-> d, hi |-> today] : d \in Between(StartDays, 1, today)}
    \cup {[lo |-> d, hi |-> d] : d \in Between(Days, today - 1, today - 1)}

Start(win) ==
    /\ pc = "idle"
    /\ job' = [IdleJob EXCEPT !.todo = Syms, !.win = win]
    /\ pc' = "next"
    /\ UNCHANGED <<today, served, bars, broker, reported, early, faults>>

(* Only days without a stored bar are fetched.                              *)
Missing(s, win) == Between(Days, win.lo, win.hi) \ Ingested(s)

Plan(s) ==
    /\ pc = "next"
    /\ s \in job.todo
    /\ Missing(s, job.win) # {}
    /\ job' = [IdleJob EXCEPT !.todo = job.todo, !.sym = s, !.win = job.win,
                              !.missing = Missing(s, job.win), !.ask = Missing(s, job.win),
                              !.due = Between(served.bar, job.win.lo, job.win.hi)]
    /\ pc' = "broker"
    /\ UNCHANGED <<today, served, bars, broker, reported, early, faults>>

SkipCached(s) ==
    /\ pc = "next"
    /\ s \in job.todo
    /\ Missing(s, job.win) = {}
    /\ job' = [job EXCEPT !.todo = @ \ {s}]
    /\ reported' = [reported EXCEPT ![s] = job.win]
    /\ UNCHANGED <<today, served, bars, broker, pc, early, faults>>

(* broker_summary of the next missing day; a day the feed does not serve    *)
(* comes back without rows.                                                 *)
FetchBroker_EmptySave(d) ==
    /\ pc = "broker"
    /\ \A e \in job.ask : d <= e
    /\ LET rows == job.rows \cup (IF d \in served.broker THEN {d} \X Rows ELSE {})
       IN /\ job' = [job EXCEPT !.ask = @ \ {d}, !.rows = rows]
          /\ early' = IF d \in served.broker THEN early \ {<<job.sym, d>>}
                                             ELSE early \cup {<<job.sym, d>>}
          /\ pc' = IF job.ask # {d} THEN "broker" ELSE "rows"
    /\ UNCHANGED <<today, served, bars, broker, reported, faults>>

FetchBroker(d) ==
    /\ pc = "broker"
    /\ \A e \in job.ask : d <= e
    /\ LET rows == job.rows \cup (IF d \in served.broker THEN {d} \X Rows ELSE {})
       IN /\ job' = [job EXCEPT !.ask = @ \ {d}, !.rows = rows]
          /\ early' = IF d \in served.broker THEN early \ {<<job.sym, d>>}
                                             ELSE early \cup {<<job.sym, d>>}
          /\ pc' = IF job.ask # {d} THEN "broker" ELSE IF rows # {} THEN "rows" ELSE "pages"
    /\ UNCHANGED <<today, served, bars, broker, reported, faults>>

(* write_broker_net, ON CONFLICT DO NOTHING.                                *)
SaveRow_Stop(r) ==
    /\ pc = "rows"
    /\ broker' = broker \cup {<<job.sym, r[1], r[2]>>}
    /\ job' = [job EXCEPT !.rows = @ \ {r}]
    /\ pc' = IF <<job.sym, r[1], r[2]>> \in broker \/ job.rows = {r} THEN "pages" ELSE "rows"
    /\ UNCHANGED <<today, served, bars, reported, early, faults>>

SaveRow(r) ==
    /\ pc = "rows"
    /\ broker' = broker \cup {<<job.sym, r[1], r[2]>>}
    /\ job' = [job EXCEPT !.rows = @ \ {r}]
    /\ pc' = IF job.rows = {r} THEN "pages" ELSE "rows"
    /\ UNCHANGED <<today, served, bars, reported, early, faults>>

(* ohlcv_foreign over the span of the missing days, a call a page, up to    *)
(* the first short page.                                                    *)
FetchPage_First ==
    /\ pc = "pages"
    /\ LET page == Page(job.page, Span(job.missing))
       IN /\ job' = [job EXCEPT !.got = @ \cup page, !.page = @ + 1]
          /\ pc' = "bars"
    /\ UNCHANGED <<today, served, bars, broker, reported, early, faults>>

FetchPage ==
    /\ pc = "pages"
    /\ LET page == Page(job.page, Span(job.missing))
       IN /\ job' = [job EXCEPT !.got = @ \cup page, !.page = @ + 1]
          /\ pc' = IF Cardinality(page) < PageLimit THEN "bars" ELSE "pages"
    /\ UNCHANGED <<today, served, bars, broker, reported, early, faults>>

(* write_daily_bars, newest first, ON CONFLICT DO NOTHING.                  *)
SaveBar(d) ==
    /\ pc = "bars"
    /\ \A e \in job.got : d >= e
    /\ bars' = bars \cup {<<job.sym, d>>}
    /\ job' = [job EXCEPT !.got = @ \ {d}]
    /\ UNCHANGED <<today, served, broker, pc, reported, early, faults>>

Report ==
    /\ pc = "bars"
    /\ job.got = {}
    /\ reported' = [reported EXCEPT ![job.sym] = job.win]
    /\ job' = [IdleJob EXCEPT !.todo = job.todo \ {job.sym}, !.win = job.win]
    /\ pc' = "next"
    /\ UNCHANGED <<today, served, bars, broker, early, faults>>

End ==
    /\ pc = "next"
    /\ job.todo = {}
    /\ pc' = "idle"
    /\ job' = IdleJob
    /\ UNCHANGED <<today, served, bars, broker, reported, early, faults>>

(* A call fails for good (the run stops at that name), or the process ends. *)
CutOff ==
    /\ pc # "idle"
    /\ faults < MaxFaults
    /\ faults' = faults + 1
    /\ pc' = "idle"
    /\ job' = IdleJob
    /\ UNCHANGED <<today, served, bars, broker, reported, early>>

-----------------------------------------------------------------------------
Init ==
    /\ today = 1
    /\ served = [bar |-> {}, broker |-> {}]
    /\ bars = {}
    /\ broker = {}
    /\ pc = "idle"
    /\ job = IdleJob
    /\ reported = [s \in Syms |-> NoWindow]
    /\ early = {}
    /\ faults = 0

RunStep ==
    \/ \E s \in job.todo : Plan(s) \/ SkipCached(s)
    \/ \E d \in job.ask : FetchBroker(d)
    \/ \E r \in job.rows : SaveRow(r)
    \/ FetchPage
    \/ \E d \in job.got : SaveBar(d)
    \/ Report
    \/ End

Next ==
    \/ ServeBar
    \/ ServeBroker
    \/ NextDay
    \/ \E win \in Windows : Start(win)
    \/ RunStep
    \/ CutOff

Spec == Init /\ [][Next]_vars

(* A run that is not cut off goes on, and somebody backfills again.         *)
Rerun == \E win \in Windows :
    /\ \A d \in StartDays : win.lo <= d
    /\ win.hi = today
    /\ Start(win)
FairSpec == Spec /\ WF_vars(RunStep) /\ SF_vars(Rerun)

-----------------------------------------------------------------------------
(* Properties                                                               *)

JobType ==
    [todo : SUBSET Syms, sym : Syms \cup {NoSym}, win : Window, missing : SUBSET Days,
     ask : SUBSET Days, rows : SUBSET (Days \X Rows), page : Nat \ {0},
     got : SUBSET Days, due : SUBSET Days]

(* A phase of a run has something to do.                                    *)
PhaseOK ==
    /\ job.ask \cup job.due \subseteq Between(Days, job.win.lo, job.win.hi)
    /\ pc \in {"broker", "rows", "pages", "bars"} => job.sym \in Syms /\ job.missing # {}
    /\ pc = "broker" => job.ask # {}
    /\ pc = "rows" => job.rows # {}

(* The tables and the run's locals are of their declared types, and no      *)
(* phase of ingest_symbol begins with nothing to do.                        *)
TypeOK ==
    /\ today \in Days
    /\ served \in [bar : SUBSET Days, broker : SUBSET Days]
    /\ bars \subseteq Syms \X Days
    /\ broker \subseteq Syms \X Days \X Rows
    /\ pc \in {"idle", "next", "broker", "rows", "pages", "bars"}
    /\ job \in JobType
    /\ reported \in [Syms -> Window]
    /\ early \subseteq Syms \X Days
    /\ faults \in 0..MaxFaults
    /\ PhaseOK

Whole(s, d) == \A r \in Rows : <<s, d, r>> \in broker

(* The bar commits the day: wherever runs were cut off and however they     *)
(* overlap, a stored bar has all its broker rows unless the day was asked   *)
(* for before the feed served its summary.                                  *)
BarCommitsDay == \A s \in Syms, d \in Days : <<s, d>> \in bars => Whole(s, d) \/ <<s, d>> \in early

(* "never a permanent broker hole" (ingest_symbol): a stored bar, which is  *)
(* never asked for again, has its broker rows.                              *)
NoBrokerHole == \A s \in Syms, d \in Days : <<s, d>> \in bars => Whole(s, d)

(* A backfill range is never silently truncated (ohlcv_foreign): a name is  *)
(* reported done only with every bar the feed served when its turn came,    *)
(* also when bars appear between two pages.                                 *)
RangeComplete == [][pc = "bars" /\ pc' = "next" => \A d \in job.due : <<job.sym, d>> \in bars]_vars

(* "a re-run over a completed range issues zero broker calls" (backfill),   *)
(* of a range that lies in the past, so that all it will ever have is served.*)
RerunIsFree ==
    [][pc = "broker" /\ job'.ask # job.ask /\ pc' # "idle" /\ job.win.hi < today
         => reported[job.sym] # job.win]_vars

(* A day the feed serves ends up in the store with its broker rows or with  *)
(* its hole on record, whatever was cut off before: a failed run is resumed *)
(* by the next one over the range.                                          *)
ServedIsStored ==
    \A s \in Syms, d \in Days \ Holidays :
        d \in served.bar /\ (\E e \in StartDays : e <= d) ~> <<s, d>> \in bars
=============================================================================
