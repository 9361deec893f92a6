------------------------------- MODULE Report -------------------------------
(***************************************************************************)
(* The index report of pgbutler (db/store.rs, db.rs): what PostgreSQL      *)
(* counts, the samples of it that the local store keeps, and the table     *)
(* that /report-index-stats makes of them, with the scans per hour over    *)
(* several windows.                                                        *)
(*                                                                         *)
(* The counters only grow, but for pg_stat_reset and for an index that is  *)
(* created again, which has a new OID.  One .sqlite file serves all the    *)
(* databases of a server, and the indexes of the system catalog have the   *)
(* same OIDs in each of them.                                              *)
(*                                                                         *)
(* Left out: when a sample is due (Sampler), the tuple counters and the    *)
(* time of the last scan, which are copied, and the text of the cells.  A  *)
(* velocity is kept as its numerator and its denominator.                  *)
(***************************************************************************)
EXTENDS Integers, Sequences, FiniteSets, SequencesExt

CONSTANTS
  Database,    \* the databases of a server
  Index,       \* the OIDs, in the order of the index names
  Catalog,     \* those of the system catalog, which are always there
  HomeOf,      \* HomeOf[i]: the database of another index (OIDs are unique there)
  SchemaOf,    \* SchemaOf[i]: the schema, numbered in alphabetical order
  Public,      \* the number of the schema "public"
  Windows,     \* the windows of VELOCITY_WINDOWS, in hours
  MaxTime,     \* bound: hours
  MaxScans,    \* bound: scans in all databases
  MaxResets,   \* bound: calls of pg_stat_reset
  None,        \* no such index yet, no velocity, no sample
  Gone         \* the index was dropped

ASSUME IndexAssumption == IsFiniteSet(Index) /\ Index \subseteq Nat /\ SchemaOf \in [Index -> Nat]
ASSUME HomeAssumption == Catalog \subseteq Index /\ HomeOf \in [Index \ Catalog -> Database]
ASSUME WindowAssumption == Windows \subseteq Nat \ {0}
ASSUME TimeAssumption == MaxTime \in Nat

VARIABLES
  now,      \* the time
  counter,  \* counter[d][i]: idx_scan of index i in database d
  samples,  \* the table index_stats, one element per snapshot
  scans,    \* history: the scans there really were
  resets    \* history: the resets there really were

vars == <<now, counter, samples, scans, resets>>

\* Of a snapshot, `of', `scans' and `resets' are there for the properties only.
Snapshot ==
  [at : 0..MaxTime, idx_scan : [Index -> Nat \cup {None, Gone}],
   of : Database, scans : [Index -> Nat], resets : Nat]
Velocity == [scans : Nat, hours : Nat]

ASSUME NoneAssumption == None # Gone /\ {None, Gone} \cap Nat = {} /\ None \notin Snapshot \cup Velocity

Init ==
  /\ now = 0
  /\ counter = [d \in Database |-> [i \in Index |-> IF i \in Catalog THEN 0 ELSE None]]
  /\ samples = <<>>
  /\ scans = [d \in Database |-> [i \in Index |-> 0]]
  /\ resets = [d \in Database |-> 0]

(***************************************************************************)
(* The server.                                                             *)
(***************************************************************************)
Exists(counts, i) == counts[i] \notin {None, Gone}

Scans == FoldFunction(LAMBDA f, n : n + FoldFunction(+, 0, f), 0, scans)

Scan(d, i) ==
  /\ Exists(counter[d], i) /\ Scans < MaxScans
  /\ counter' = [counter EXCEPT ![d][i] = @ + 1]
  /\ scans' = [scans EXCEPT ![d][i] = @ + 1]
  /\ UNCHANGED <<now, samples, resets>>

\* pg_stat_reset.
Reset(d) ==
  /\ FoldFunction(+, 0, resets) < MaxResets
  /\ counter' = [counter EXCEPT ![d] = [i \in Index |-> IF Exists(@, i) THEN 0 ELSE @[i]]]
  /\ resets' = [resets EXCEPT ![d] = @ + 1]
  /\ UNCHANGED <<now, samples, scans>>

\* CREATE INDEX and DROP INDEX; an OID is not used again.
Create(d, i) ==
  /\ counter[d][i] = None /\ HomeOf[i] = d
  /\ counter' = [counter EXCEPT ![d][i] = 0]
  /\ UNCHANGED <<now, samples, scans, resets>>

Drop(d, i) ==
  /\ Exists(counter[d], i) /\ i \notin Catalog
  /\ counter' = [counter EXCEPT ![d][i] = Gone]
  /\ UNCHANGED <<now, samples, scans, resets>>

Tick ==
  /\ now < MaxTime /\ now' = now + 1
  /\ UNCHANGED <<counter, samples, scans, resets>>

(***************************************************************************)
(* The store.  Time stamps have microseconds: no two snapshots share one.  *)
(***************************************************************************)
\* Mutant: a snapshot is stamped with the time the next one is due.
RecordDue(d) ==
  /\ samples # <<>> => Last(samples).at < now
  /\ samples' = Append(samples, [at |-> now + 1, idx_scan |-> counter[d], of |-> d,
                                 scans |-> scans[d], resets |-> resets[d]])
  /\ UNCHANGED <<now, counter, scans, resets>>

\* read_index_stats and record_index_stats.
Record(d) ==
  /\ samples # <<>> => Last(samples).at < now
  /\ samples' = Append(samples, [at |-> now, idx_scan |-> counter[d], of |-> d,
                                 scans |-> scans[d], resets |-> resets[d]])
  /\ UNCHANGED <<now, counter, scans, resets>>

Next ==
  \/ Tick
  \/ \E d \in Database :
       \/ Reset(d) \/ Record(d)
       \/ \E i \in Index : Scan(d, i) \/ Create(d, i) \/ Drop(d, i)

Spec == Init /\ [][Next]_vars

(***************************************************************************)
(* The report (Store::index_stats_report).                                 *)
(***************************************************************************)
\* The snapshot with the latest time stamp of a set of them.
Latest(set) == CHOOSE s \in set : \A t \in set : t.at =< s.at

\* Mutant: only what is older than the window counts.
BaseOlder(w) ==
  LET old == {s \in Range(samples) : s.at < Last(samples).at - w} IN
  IF old = {} THEN None ELSE Latest(old)

\* The latest snapshot that is at least w hours older than the latest of all.
Base(w) ==
  LET old == {s \in Range(samples) : s.at =< Last(samples).at - w} IN
  IF old = {} THEN None ELSE Latest(old)

\* Mutants: an index that was not scanned has no velocity; a reset is not noticed.
RateGrown(i, base) ==
  IF base = None \/ ~Exists(base.idx_scan, i) THEN None
  ELSE LET more == Last(samples).idx_scan[i] - base.idx_scan[i] IN
       IF more > 0 THEN [scans |-> more, hours |-> Last(samples).at - base.at] ELSE None
RateUnchecked(i, base) ==
  IF base = None \/ ~Exists(base.idx_scan, i) THEN None
  ELSE [scans |-> Last(samples).idx_scan[i] - base.idx_scan[i],
        hours |-> Last(samples).at - base.at]

\* The velocity of index i since base; none when the counter went back.
Rate(i, base) ==
  IF base = None \/ ~Exists(base.idx_scan, i) THEN None
  ELSE LET more == Last(samples).idx_scan[i] - base.idx_scan[i] IN
       IF more >= 0 THEN [scans |-> more, hours |-> Last(samples).at - base.at] ELSE None

\* Mutant: "public" has no precedence.
BeforeBySchema(a, b) ==
  \/ SchemaOf[a.index] < SchemaOf[b.index]
  \/ SchemaOf[a.index] = SchemaOf[b.index] /\ a.idx_scan > b.idx_scan
  \/ SchemaOf[a.index] = SchemaOf[b.index] /\ a.idx_scan = b.idx_scan /\ a.index < b.index

\* "public" first, then by schema; the most scanned first, then by name.
Rank(i) == IF SchemaOf[i] = Public THEN -1 ELSE SchemaOf[i]
Before(a, b) ==
  \/ Rank(a.index) < Rank(b.index)
  \/ Rank(a.index) = Rank(b.index) /\ a.idx_scan > b.idx_scan
  \/ Rank(a.index) = Rank(b.index) /\ a.idx_scan = b.idx_scan /\ a.index < b.index

Listed == {i \in Index : Exists(Last(samples).idx_scan, i)}

Row(i) ==
  [index |-> i, idx_scan |-> Last(samples).idx_scan[i],
   rates |-> [w \in Windows |-> Rate(i, Base(w))]]

\* rows.sort_by: the k-th row has k - 1 others before it.
Sorted(rows) ==
  [k \in 1 .. Cardinality(rows) |->
     CHOOSE row \in rows : Cardinality({other \in rows : Before(other, row)}) = k - 1]

Rows == IF samples = <<>> THEN <<>> ELSE Sorted({Row(i) : i \in Listed})

(***************************************************************************)
(* Properties.                                                             *)
(***************************************************************************)
\* Every variable keeps its type; no counter is ahead of the scans.
TypeOK ==
  /\ now \in 0..MaxTime
  /\ samples \in Seq(Snapshot)
  /\ scans \in [Database -> [Index -> Nat]]
  /\ resets \in [Database -> Nat]
  /\ counter \in [Database -> [Index -> Nat \cup {None, Gone}]]
  /\ \A d \in Database, i \in Index : Exists(counter[d], i) => counter[d][i] =< scans[d][i]

\* The snapshot a velocity is taken from, found without the code's search.
Since(rate) == CHOOSE s \in Range(samples) : Last(samples).at - s.at = rate.hours

\* A velocity never tells of scans that did not happen, even if the counters were
\* reset since and have overtaken the old value; without a reset it tells of all of
\* them.  It is taken from a snapshot of the same database, or means nothing.
VelocityIsTrue ==
  \A row \in Range(Rows), w \in Windows :
    LET rate == row.rates[w] IN
    rate # None =>
      LET base == Since(rate)
          real == Last(samples).scans[row.index] - base.scans[row.index]
      IN base.of = Last(samples).of =>
           /\ 0 =< rate.scans /\ rate.scans =< real
           /\ base.resets = Last(samples).resets => rate.scans = real

\* A velocity covers its window and not more hours than the snapshots make
\* necessary: none taken between its start and the start of the window is passed over.
VelocityCoversWindow ==
  \A row \in Range(Rows), w \in Windows :
    LET rate == row.rates[w] IN
    rate # None =>
      /\ rate.hours >= w
      /\ \A s \in Range(samples) :
           Last(samples).at - s.at >= w => Last(samples).at - s.at >= rate.hours

\* "None when the history does not reach back far enough or the counter was reset"
\* (scans_per_hour): an index that is in both snapshots has its velocity, unless
\* there was a reset or the snapshots are of two databases.
VelocityWhenKnown ==
  \A row \in Range(Rows), w \in Windows :
    \A s \in Range(samples) :
      /\ Last(samples).at - s.at >= w
      /\ \A t \in Range(samples) :
           t.at >= s.at => /\ Exists(t.idx_scan, row.index) /\ t.of = s.of
                           /\ t.resets = s.resets
      => row.rates[w] # None

\* The report lists the indexes of the latest snapshot, each once, public ones
\* first, then schema by schema, the most scanned first.
ReportSorted ==
  samples # <<>> =>
    LET rows == Rows
        Key(k) == LET i == rows[k].index IN
                  <<IF SchemaOf[i] = Public THEN 0 ELSE 1, SchemaOf[i], -rows[k].idx_scan>>
    IN
    /\ {row.index : row \in Range(rows)} = {i \in Index : Exists(Last(samples).idx_scan, i)}
    /\ IsInjective([k \in DOMAIN rows |-> rows[k].index])
    /\ \A j, k \in DOMAIN rows :
         j < k => \/ \E c \in 1..3 : /\ Key(j)[c] < Key(k)[c]
                                     /\ \A b \in 1 .. c - 1 : Key(j)[b] = Key(k)[b]
                  \/ Key(j) = Key(k)

=============================================================================
