------------------------------- MODULE Reports -------------------------------
(***************************************************************************)
(* The aggregates over the whole frame of Timeline (db.rs): the slow log,  *)
(* the percentiles, the per-greenlet totals and the summary, each computed *)
(* by a data-frame query of its own, and the report `analyze` puts         *)
(* together from them (main.rs).  They read one snapshot of the frame and  *)
(* change nothing.                                                         *)
(*                                                                         *)
(* Sorting is not stable in the code: rows with equal keys come in any     *)
(* order, and nothing below depends on the one TLC picks.  Functions are   *)
(* left out: their totals are those of the greenlets under another key.    *)
(***************************************************************************)
EXTENDS Timeline, Functions, FiniteSetsExt

CONSTANTS
  Hubs,        \* the greenlets whose name says they are a hub (is_hub)
  LongNs,      \* --long-ms
  BlockedNs    \* --blocked-ms

ASSUME ReportsAssumption ==
  /\ Hubs \subseteq Gids
  /\ LongNs \in Nat
  /\ BlockedNs \in Nat

Prefix(s, limit) == SubSeq(s, 1, Smaller(Len(s), limit))
IsHub(row) == row.gid \in Hubs

-----------------------------------------------------------------------------
(* The slow log. *)

Tiers == {"all", "long", "blocked"}

InTier(row, tier) ==
  /\ tier # "blocked" => row.dur >= LongNs
  /\ tier = "long" => row.dur < BlockedNs
  /\ tier = "blocked" => row.dur >= BlockedNs

\* The places of a tier's rows, hubs left out.
TierPlaces(tier) == {i \in 1..Len(df) : ~IsHub(df[i]) /\ InTier(df[i], tier)}

LongTotal == Cardinality(TierPlaces("long"))
BlockedTotal == Cardinality(TierPlaces("blocked"))

Total(tier) ==
  CASE tier = "all" -> LongTotal + BlockedTotal
    [] tier = "long" -> LongTotal
    [] tier = "blocked" -> BlockedTotal

\* A sequence of all the members of a set.
Orders(S) ==
  {s \in [1..Cardinality(S) -> S] : \A x \in S : \E i \in DOMAIN s : s[i] = x}

\* Longest first, or newest first: every order of the places that respects that.
Key(byDur, row) == IF byDur THEN row.dur ELSE row.start
Descending(byDur, places) ==
  {s \in Orders(places) :
     \A a, b \in DOMAIN s : a < b => Key(byDur, df[s[a]]) >= Key(byDur, df[s[b]])}

\* The rows at the first places of such an order.
FirstRows(s, limit) == [k \in 1..Smaller(Len(s), limit) |-> df[s[k]]]

\* Mutant of SlowPages: selects the tier within a page of all slow rows.
SlowPagesThenTier(tier, byDur, limit) ==
  {SelectSeq(FirstRows(s, limit), LAMBDA row : InTier(row, tier)) :
     s \in Descending(byDur, TierPlaces("all"))}

\* The pages a request may be answered with.
SlowPages(tier, byDur, limit) ==
  {FirstRows(s, limit) : s \in Descending(byDur, TierPlaces(tier))}

Level(row) == IF row.dur >= BlockedNs THEN 2 ELSE 1

-----------------------------------------------------------------------------
(* Statistics: linear percentiles of the durations in a window, times 100. *)

\* Mutant of StatsPlaces: hubs count too.
StatsPlacesWithHubs(t0, t1) == {i \in 1..Len(df) : OverlapsI64(df[i], t0, t1)}
StatsPlaces(t0, t1) == {i \in 1..Len(df) : ~IsHub(df[i]) /\ OverlapsI64(df[i], t0, t1)}

\* The k-th shortest of the durations at some places.
Shortest(places, k) ==
  CHOOSE d \in {df[i].dur : i \in places} :
    /\ Cardinality({i \in places : df[i].dur < d}) < k
    /\ k <= Cardinality({i \in places : df[i].dur <= d})

\* Mutant of Quantile: the weights of the two neighbours swapped.
QuantileSwapped(places, percent) ==
  LET at   == percent * (Cardinality(places) - 1)
      k    == at \div 100 + 1
      part == at % 100
  IN  IF places = {} THEN 0
      ELSE IF part = 0 THEN 100 * Shortest(places, k)
      ELSE part * Shortest(places, k) + (100 - part) * Shortest(places, k + 1)

Quantile(places, percent) ==
  LET at   == percent * (Cardinality(places) - 1)
      k    == at \div 100 + 1
      part == at % 100
  IN  IF places = {} THEN 0
      ELSE IF part = 0 THEN 100 * Shortest(places, k)
      ELSE (100 - part) * Shortest(places, k) + part * Shortest(places, k + 1)

-----------------------------------------------------------------------------
(* The summary, with the totals per greenlet (also a window's tracks). *)

RunOf(places) == SumFunction([i \in places |-> df[i].dur])

\* One group per greenlet of the rows, in any order.
TrackRuns(places) ==
  LET Of(gid) == {i \in places : df[i].gid = gid}
  IN  {[gid |-> gid, run |-> RunOf(Of(gid)), executions |-> Cardinality(Of(gid))] :
         gid \in {df[i].gid : i \in places}}

\* Mutant of TopGreenlets: the limit comes before the order.
TopGreenletsUnordered(top) == {Prefix(s, top) : s \in Orders(TrackRuns(1..Len(df)))}

\* The longest-running greenlets: every order that respects the run times.
TopGreenlets(top) ==
  {Prefix(s, top) : s \in {s \in Orders(TrackRuns(1..Len(df))) :
     \A i, j \in DOMAIN s : i < j => s[i].run >= s[j].run}}

SlowerThan(ns) == Cardinality({i \in 1..Len(df) : ~IsHub(df[i]) /\ df[i].dur >= ns})

Summary(top) ==
  [greenlets |-> Cardinality({df[i].gid : i \in 1..Len(df)}),
   hubRun |-> RunOf({i \in 1..Len(df) : IsHub(df[i])}),
   nonHubRun |-> RunOf({i \in 1..Len(df) : ~IsHub(df[i])}),
   longCount |-> SlowerThan(LongNs), blockedCount |-> SlowerThan(BlockedNs),
   topGreenlets |-> TopGreenlets(top)]

\* analyze: the summary, the longest slow rows (any page it may be) and the
\* percentiles of it all.
Analyze(top) ==
  LET places == StatsPlaces(0, I64Max)
  IN  [summary |-> Summary(top), slowest |-> SlowPages("all", TRUE, top),
       p50 |-> Quantile(places, 50), p95 |-> Quantile(places, 95), p99 |-> Quantile(places, 99)]

-----------------------------------------------------------------------------
(* Properties. *)

\* The slow log tells the truth about a tier whatever its limit and its order:
\* its total counts every row of the tier that is not a hub's, the page is full
\* up to the limit, holds rows of the tier only, and leaves out no row that
\* ranks above one it shows ("a tier's count + rows are correct even when
\* another tier dominates the newest executions"); the badges agree with what
\* analyze counts. The thresholds must be in order: with --blocked-ms below
\* --long-ms the total of "all" would count rows its page cannot show.
SlowLogHonest ==
  LongNs <= BlockedNs =>
  \A tier \in Tiers, byDur \in BOOLEAN, limit \in Caps :
    LET Fits(row) == /\ row.gid \notin Hubs /\ row.dur >= LongNs
                     /\ tier # "all" => Level(row) = IF tier = "long" THEN 1 ELSE 2
        fitting == {i \in 1..Len(df) : Fits(df[i])}
    IN  /\ Total(tier) = Cardinality(fitting)
        /\ \A page \in SlowPages(tier, byDur, limit) :
             /\ Len(page) = Smaller(limit, Total(tier))
             /\ \A k \in 1..Len(page) :
                  /\ Fits(page[k])
                  /\ Cardinality({i \in fitting : Key(byDur, df[i]) > Key(byDur, page[k])}) < k
        /\ Total("all") = Summary(limit).longCount
        /\ Total("blocked") = Summary(limit).blockedCount

\* The figures of one report, computed by separate queries, do not contradict
\* each other: the greenlets' run times add up to the hub and non-hub totals
\* and their executions to the rows held, no greenlet left out ran longer than
\* one shown, the longest slow row is blocked exactly when there is a blocked
\* row, and a percentile over the threshold means there is one.
ReportAgrees ==
  LongNs <= BlockedNs =>
  \A top \in Caps :
    LET r == Analyze(top)
        s == r.summary
        groups == TrackRuns(1..Len(df))
    IN  /\ SumFunction([g \in groups |-> g.run]) = s.hubRun + s.nonHubRun
        /\ SumFunction([g \in groups |-> g.executions]) = Len(df)
        /\ \A shown \in s.topGreenlets, g \in groups :
             Len(shown) = top => \A i \in 1..top : shown[i].run >= g.run
                                                 \/ \E j \in 1..i : shown[j] = g
        /\ top > 0 => \A slowest \in r.slowest :
             s.blockedCount > 0 <=> slowest # << >> /\ Level(slowest[1]) = 2
        /\ r.p50 <= r.p95 /\ r.p95 <= r.p99
        /\ r.p99 > 0 /\ r.p99 >= 100 * BlockedNs => s.blockedCount > 0
=============================================================================
