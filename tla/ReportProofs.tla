---------------------------- MODULE ReportProofs ----------------------------
(***************************************************************************)
(* Theorems about Report, for any databases, indexes, schemas and windows, *)
(* and histories of any length.                                            *)
(*                                                                         *)
(* What a velocity means rests on how a snapshot relates to the counters   *)
(* of its database at any later time (Later): the counter did not grow by  *)
(* more than the scans, and by as many if it was not reset.  Since a new   *)
(* snapshot copies the counters, the same holds between any two of them.   *)
(***************************************************************************)
EXTENDS Report, SequenceTheorems, FunctionTheorems, FiniteSetTheorems, WellFoundedInduction,
        TLAPS

(***************************************************************************)
(* The invariant.                                                          *)
(***************************************************************************)
Counts == [Index -> Nat \cup {None, Gone}]

\* What a snapshot would hold now.
Current(d) == [idx_scan |-> counter[d], scans |-> scans[d], resets |-> resets[d]]

\* What a database shows first as s and then as t.
Later(s, t) ==
  /\ s.resets =< t.resets
  /\ \A i \in Index :
       /\ s.scans[i] =< t.scans[i]
       /\ t.idx_scan[i] = None => s.idx_scan[i] = None
       /\ s.idx_scan[i] = Gone => t.idx_scan[i] = Gone
       /\ Exists(s.idx_scan, i) /\ Exists(t.idx_scan, i) =>
            /\ t.idx_scan[i] - s.idx_scan[i] =< t.scans[i] - s.scans[i]
            /\ s.resets = t.resets => t.idx_scan[i] - s.idx_scan[i] = t.scans[i] - s.scans[i]

SinceThen == \A k \in 1 .. Len(samples) : Later(samples[k], Current(samples[k].of))

Between == \A j, k \in 1 .. Len(samples) :
             j < k /\ samples[j].of = samples[k].of => Later(samples[j], samples[k])

InOrder == /\ \A j, k \in 1 .. Len(samples) : j < k => samples[j].at < samples[k].at
           /\ \A k \in 1 .. Len(samples) : samples[k].at =< now

ReportInv == TypeOK /\ InOrder /\ SinceThen /\ Between

(***************************************************************************)
(* Steps.                                                                  *)
(***************************************************************************)
\* What shows later than something later shows later.
LEMMA LaterStill ==
  ASSUME NEW s, NEW t, NEW u, s.idx_scan \in Counts, t.idx_scan \in Counts, u.idx_scan \in Counts,
         s.scans \in [Index -> Nat], t.scans \in [Index -> Nat], u.scans \in [Index -> Nat],
         s.resets \in Nat, t.resets \in Nat, u.resets \in Nat,
         Later(s, t), Later(t, u)
  PROVE  Later(s, u)
<1>1. s.resets =< u.resets /\ (s.resets = u.resets => s.resets = t.resets /\ t.resets = u.resets)
  BY DEF Later
<1>2. ASSUME NEW i \in Index
      PROVE  /\ s.scans[i] =< u.scans[i]
             /\ u.idx_scan[i] = None => s.idx_scan[i] = None
             /\ s.idx_scan[i] = Gone => u.idx_scan[i] = Gone
             /\ Exists(s.idx_scan, i) /\ Exists(u.idx_scan, i) =>
                  /\ u.idx_scan[i] - s.idx_scan[i] =< u.scans[i] - s.scans[i]
                  /\ s.resets = u.resets =>
                       u.idx_scan[i] - s.idx_scan[i] = u.scans[i] - s.scans[i]
  <2>1. s.scans[i] \in Nat /\ t.scans[i] \in Nat /\ u.scans[i] \in Nat
    OBVIOUS
  <2>2. s.scans[i] =< t.scans[i] /\ t.scans[i] =< u.scans[i]
    BY DEF Later
  <2>3. u.idx_scan[i] = None => s.idx_scan[i] = None
    BY DEF Later
  <2>4. s.idx_scan[i] = Gone => u.idx_scan[i] = Gone
    BY DEF Later
  <2>5. ASSUME Exists(s.idx_scan, i), Exists(u.idx_scan, i)
        PROVE  /\ u.idx_scan[i] - s.idx_scan[i] =< u.scans[i] - s.scans[i]
               /\ s.resets = u.resets => u.idx_scan[i] - s.idx_scan[i] = u.scans[i] - s.scans[i]
    <3>1. Exists(t.idx_scan, i)
      BY <2>5 DEF Later, Exists
    <3>2. s.idx_scan[i] \in Nat /\ t.idx_scan[i] \in Nat /\ u.idx_scan[i] \in Nat
      BY <2>5, <3>1 DEF Counts, Exists
    <3>3. /\ t.idx_scan[i] - s.idx_scan[i] =< t.scans[i] - s.scans[i]
          /\ s.resets = t.resets => t.idx_scan[i] - s.idx_scan[i] = t.scans[i] - s.scans[i]
          /\ u.idx_scan[i] - t.idx_scan[i] =< u.scans[i] - t.scans[i]
          /\ t.resets = u.resets => u.idx_scan[i] - t.idx_scan[i] = u.scans[i] - t.scans[i]
      BY <2>5, <3>1 DEF Later
    <3> QED
      BY <1>1, <2>1, <3>2, <3>3
  <2> QED
    BY <2>1, <2>2, <2>3, <2>4, <2>5
<1> QED
  BY <1>1, <1>2 DEF Later

\* The database shows the same as long as nothing happens.
LEMMA LaterSame ==
  ASSUME NEW s, s.idx_scan \in Counts, s.scans \in [Index -> Nat], s.resets \in Nat
  PROVE  Later(s, s)
<1>1. \A i \in Index : s.scans[i] \in Nat /\ (Exists(s.idx_scan, i) => s.idx_scan[i] \in Nat)
  BY DEF Counts, Exists
<1> QED
  BY <1>1 DEF Later

\* The types of what a database shows.
LEMMA Shown ==
  ASSUME TypeOK
  PROVE  /\ \A d \in Database : /\ Current(d).idx_scan = counter[d] /\ counter[d] \in Counts
                                /\ Current(d).scans = scans[d] /\ scans[d] \in [Index -> Nat]
                                /\ Current(d).resets = resets[d] /\ resets[d] \in Nat
         /\ Len(samples) \in Nat
         /\ \A k \in 1 .. Len(samples) :
              /\ samples[k] \in Snapshot /\ samples[k].of \in Database
              /\ samples[k].idx_scan \in Counts /\ samples[k].scans \in [Index -> Nat]
              /\ samples[k].resets \in Nat /\ samples[k].at \in 0 .. MaxTime
<1>1. \A d \in Database : /\ Current(d).idx_scan = counter[d] /\ counter[d] \in Counts
                          /\ Current(d).scans = scans[d] /\ scans[d] \in [Index -> Nat]
                          /\ Current(d).resets = resets[d] /\ resets[d] \in Nat
  BY DEF TypeOK, Current, Counts
<1>2. Len(samples) \in Nat /\ \A k \in 1 .. Len(samples) : samples[k] \in Snapshot
  BY LenProperties, ElementOfSeq DEF TypeOK
<1> QED
  BY <1>1, <1>2 DEF Snapshot, Counts

\* Where each database shows something later, every snapshot stays true of its own.
LEMMA ServerKeeps ==
  ASSUME ReportInv, TypeOK', UNCHANGED <<samples, now>>,
         \A d \in Database : Later(Current(d), Current(d)')
  PROVE  ReportInv'
<1>1. InOrder' /\ Between'
  BY DEF ReportInv, InOrder, Between
<1>2. ASSUME NEW k \in 1 .. Len(samples)
      PROVE  Later(samples[k], Current(samples[k].of)')
  <2> DEFINE d == samples[k].of
  <2>1. TypeOK /\ Later(samples[k], Current(d))
    BY DEF ReportInv, SinceThen
  <2>2. /\ d \in Database /\ samples[k].idx_scan \in Counts
        /\ samples[k].scans \in [Index -> Nat] /\ samples[k].resets \in Nat
    BY <2>1, Shown
  <2>3. /\ Current(d).idx_scan \in Counts /\ Current(d).scans \in [Index -> Nat]
        /\ Current(d).resets \in Nat
    BY <2>1, <2>2, Shown
  <2>4. /\ Current(d)'.idx_scan \in Counts /\ Current(d)'.scans \in [Index -> Nat]
        /\ Current(d)'.resets \in Nat
    BY <2>2 DEF TypeOK, Current, Counts
  <2>5. Later(Current(d), Current(d)')
    BY <2>2
  <2> HIDE DEF d
  <2>6. Later(samples[k], Current(d)')
    BY <2>1, <2>2, <2>3, <2>4, <2>5, LaterStill
  <2>7. d' = d
    BY DEF d
  <2> QED
    BY <2>6, <2>7 DEF d
<1>3. SinceThen'
  BY <1>2 DEF SinceThen
<1> QED
  BY <1>1, <1>3 DEF ReportInv

\* A scan counts once, in the counter and among the scans there really were.
LEMMA ScanStep ==
  ASSUME ReportInv, NEW d \in Database, NEW i \in Index, Scan(d, i)
  PROVE  ReportInv'
<1>1. TypeOK /\ counter[d][i] \in Nat
  BY DEF ReportInv, TypeOK, Scan, Exists
<1>2. /\ counter' = [counter EXCEPT ![d][i] = counter[d][i] + 1]
      /\ scans' = [scans EXCEPT ![d][i] = scans[d][i] + 1]
      /\ UNCHANGED <<now, samples, resets>>
  BY DEF Scan
<1>3. /\ \A e \in Database, j \in Index :
           /\ counter'[e][j] = IF e = d /\ j = i THEN counter[e][j] + 1 ELSE counter[e][j]
           /\ scans'[e][j] = IF e = d /\ j = i THEN scans[e][j] + 1 ELSE scans[e][j]
      /\ counter' \in [Database -> Counts] /\ scans' \in [Database -> [Index -> Nat]]
  BY <1>1, <1>2 DEF TypeOK, Counts
<1>4. TypeOK'
  <2>1. ASSUME NEW e \in Database, NEW j \in Index, Exists(counter'[e], j)
        PROVE  counter'[e][j] =< scans'[e][j]
    <3>1. Exists(counter[e], j)
      BY <1>1, <1>3, <2>1, NoneAssumption DEF Exists
    <3>2. counter[e][j] \in Nat /\ scans[e][j] \in Nat /\ counter[e][j] =< scans[e][j]
      BY <1>1, <3>1 DEF TypeOK, Exists
    <3> QED
      BY <1>3, <3>2
  <2> QED
    BY <1>1, <1>2, <1>3, <2>1 DEF TypeOK, Counts
<1>5. ASSUME NEW e \in Database PROVE Later(Current(e), Current(e)')
  <2>1. resets[e] \in Nat
    BY <1>1 DEF TypeOK
  <2>2. ASSUME NEW j \in Index
        PROVE  /\ scans[e][j] =< scans'[e][j]
               /\ counter'[e][j] = None => counter[e][j] = None
               /\ counter[e][j] = Gone => counter'[e][j] = Gone
               /\ Exists(counter[e], j) /\ Exists(counter'[e], j) =>
                    counter'[e][j] - counter[e][j] = scans'[e][j] - scans[e][j]
    <3>1. scans[e][j] \in Nat /\ (Exists(counter[e], j) => counter[e][j] \in Nat)
      BY <1>1 DEF TypeOK, Exists
    <3>2. CASE e = d /\ j = i
      <4>1. /\ counter'[e][j] = counter[e][j] + 1 /\ scans'[e][j] = scans[e][j] + 1
            /\ counter[e][j] \in Nat
        BY <1>1, <1>3, <3>2
      <4>2. counter'[e][j] \notin {None, Gone} /\ counter[e][j] \notin {None, Gone}
        BY <4>1, NoneAssumption
      <4> QED
        BY <3>1, <4>1, <4>2
    <3>3. CASE ~(e = d /\ j = i)
      BY <1>3, <3>1, <3>3
    <3> QED
      BY <3>2, <3>3
  <2>3. ASSUME NEW j \in Index, Exists(counter[e], j), Exists(counter'[e], j)
        PROVE  counter'[e][j] - counter[e][j] =< scans'[e][j] - scans[e][j]
    <3>1. /\ scans[e][j] \in Nat /\ scans'[e][j] \in Nat
          /\ counter[e][j] \in Nat /\ counter'[e][j] \in Nat
      BY <1>1, <1>3, <2>3 DEF TypeOK, Exists, Counts
    <3> QED
      BY <2>2, <2>3, <3>1
  <2> QED
    BY <1>2, <2>1, <2>2, <2>3 DEF Later, Current
<1> QED
  BY <1>2, <1>4, <1>5, ServerKeeps

\* A step that changes the counters of one database, none of them but to zero or to
\* Gone, lets it show something later.
LEMMA ChangeStep ==
  ASSUME ReportInv, NEW d \in Database, NEW counts \in Counts,
         counter' = [counter EXCEPT ![d] = counts], UNCHANGED <<now, samples, scans>>,
         \/ UNCHANGED resets
         \/ resets' = [resets EXCEPT ![d] = resets[d] + 1],
         \A i \in Index :
           \/ counts[i] = counter[d][i]
           \/ counter[d][i] = None /\ counts[i] = 0
           \/ Exists(counter[d], i) /\ counts[i] = Gone
           \/ Exists(counter[d], i) /\ counts[i] = 0 /\ resets'[d] # resets[d]
  PROVE  ReportInv'
<1>1. /\ TypeOK /\ counter' \in [Database -> Counts] /\ resets' \in [Database -> Nat]
      /\ counter'[d] = counts /\ resets'[d] >= resets[d]
      /\ \A e \in Database : e # d => counter'[e] = counter[e] /\ resets'[e] = resets[e]
  BY DEF ReportInv, TypeOK, Counts
<1>2. \A e \in Database, i \in Index :
        /\ scans[e][i] \in Nat
        /\ Exists(counter[e], i) => counter[e][i] \in Nat /\ counter[e][i] =< scans[e][i]
        /\ Exists(counter'[e], i) => counter'[e][i] \in Nat
  BY <1>1 DEF TypeOK, Counts, Exists
<1>3. TypeOK'
  <2>1. ASSUME NEW e \in Database, NEW i \in Index, Exists(counter'[e], i)
        PROVE  counter'[e][i] =< scans[e][i]
    <3>1. CASE counter'[e][i] = counter[e][i]
      BY <1>2, <2>1, <3>1 DEF Exists
    <3>2. CASE counter'[e][i] # counter[e][i]
      <4>1. counter'[e][i] = 0
        BY <1>1, <2>1, <3>2 DEF Exists
      <4> QED
        BY <1>2, <4>1
    <3> QED
      BY <3>1, <3>2
  <2> QED
    BY <1>1, <2>1 DEF TypeOK, Counts
<1>4. ASSUME NEW e \in Database PROVE Later(Current(e), Current(e)')
  <2>1. resets[e] \in Nat /\ resets[e] =< resets'[e]
    BY <1>1 DEF TypeOK
  <2>2. ASSUME NEW i \in Index
        PROVE  /\ scans[e][i] =< scans'[e][i]
               /\ counter'[e][i] = None => counter[e][i] = None
               /\ counter[e][i] = Gone => counter'[e][i] = Gone
               /\ Exists(counter[e], i) /\ Exists(counter'[e], i) =>
                    /\ counter'[e][i] - counter[e][i] =< scans'[e][i] - scans[e][i]
                    /\ resets[e] = resets'[e] =>
                         counter'[e][i] - counter[e][i] = scans'[e][i] - scans[e][i]
    <3>1. CASE counter'[e][i] = counter[e][i]
      BY <1>2, <3>1
    <3>2. CASE counter'[e][i] # counter[e][i]
      <4>1. /\ e = d
            /\ \/ counter[e][i] = None /\ counter'[e][i] = 0
               \/ Exists(counter[e], i) /\ counter'[e][i] = Gone
               \/ Exists(counter[e], i) /\ counter'[e][i] = 0 /\ resets'[e] # resets[e]
        BY <1>1, <3>2
      <4>2. scans[e][i] \in Nat /\ UNCHANGED scans
        BY <1>2
      <4>3. CASE counter[e][i] = None /\ counter'[e][i] = 0
        BY <4>2, <4>3, NoneAssumption DEF Exists
      <4>4. CASE Exists(counter[e], i) /\ counter'[e][i] = Gone
        BY <4>2, <4>4, NoneAssumption DEF Exists
      <4>5. CASE Exists(counter[e], i) /\ counter'[e][i] = 0 /\ resets'[e] # resets[e]
        <5>1. counter[e][i] \in Nat
          BY <1>2, <4>5
        <5> QED
          BY <4>2, <4>5, <5>1, NoneAssumption DEF Exists
      <4> QED
        BY <4>1, <4>3, <4>4, <4>5
    <3> QED
      BY <3>1, <3>2
  <2> QED
    BY <2>1, <2>2 DEF Later, Current
<1> QED
  BY <1>3, <1>4, ServerKeeps

\* Resets, and indexes that come and go, change the counters of one database.
LEMMA ServerStep ==
  ASSUME ReportInv, NEW d \in Database,
         Reset(d) \/ \E i \in Index : Create(d, i) \/ Drop(d, i)
  PROVE  ReportInv'
<1>1. /\ counter \in [Database -> Counts] /\ counter[d] \in Counts
      /\ resets \in [Database -> Nat] /\ resets[d] \in Nat
  BY DEF ReportInv, TypeOK, Counts
<1>2. CASE Reset(d)
  <2> DEFINE counts == [i \in Index |-> IF Exists(counter[d], i) THEN 0 ELSE counter[d][i]]
  <2>1. counts \in Counts
    BY <1>1 DEF Counts
  <2>2. counter' = [counter EXCEPT ![d] = counts]
    BY <1>2 DEF Reset
  <2>3. resets' = [resets EXCEPT ![d] = resets[d] + 1] /\ resets'[d] # resets[d]
    <3>1. resets' = [resets EXCEPT ![d] = resets[d] + 1]
      BY <1>2 DEF Reset
    <3> QED
      BY <1>1, <3>1
  <2>4. \A i \in Index : counts[i] = IF Exists(counter[d], i) THEN 0 ELSE counter[d][i]
    OBVIOUS
  <2>5. UNCHANGED <<now, samples, scans>>
    BY <1>2 DEF Reset
  <2> HIDE DEF counts
  <2> QED
    BY <2>1, <2>2, <2>3, <2>4, <2>5, ChangeStep
<1>3. ASSUME NEW i \in Index, Create(d, i) \/ Drop(d, i)
      PROVE  ReportInv'
  <2> DEFINE counts == [counter[d] EXCEPT ![i] = IF Create(d, i) THEN 0 ELSE Gone]
  <2>1. counts \in Counts
    BY <1>1 DEF Counts
  <2>2. counter' = [counter EXCEPT ![d] = counts]
    <3>1. CASE Create(d, i)
      BY <3>1 DEF Create
    <3>2. CASE ~Create(d, i)
      BY <1>3, <3>2 DEF Drop
    <3> QED
      BY <3>1, <3>2
  <2>3. UNCHANGED <<now, samples, scans, resets>>
    BY <1>3 DEF Create, Drop
  <2>4. \A j \in Index :
          \/ counts[j] = counter[d][j]
          \/ counter[d][j] = None /\ counts[j] = 0
          \/ Exists(counter[d], j) /\ counts[j] = Gone
    BY <1>1, <1>3 DEF Counts, Create, Drop
  <2> HIDE DEF counts
  <2> QED
    BY <2>1, <2>2, <2>3, <2>4, ChangeStep
<1> QED
  BY <1>2, <1>3

\* Time passes.
LEMMA TickStep ==
  ASSUME ReportInv, Tick
  PROVE  ReportInv'
<1>1. TypeOK'
  BY TimeAssumption DEF ReportInv, TypeOK, Tick
<1>2. InOrder'
  <2>1. \A k \in 1 .. Len(samples) : samples[k].at \in Nat /\ now \in Nat
    BY Shown DEF ReportInv, TypeOK
  <2> QED
    BY <2>1 DEF ReportInv, InOrder, Tick
<1>3. SinceThen' /\ Between'
  BY DEF ReportInv, SinceThen, Between, Current, Tick
<1> QED
  BY <1>1, <1>2, <1>3 DEF ReportInv

\* A snapshot shows what the database shows, and so is later than the ones before.
LEMMA RecordStep ==
  ASSUME ReportInv, NEW d \in Database, Record(d)
  PROVE  ReportInv'
<1> DEFINE sample == [at |-> now, idx_scan |-> counter[d], of |-> d,
                      scans |-> scans[d], resets |-> resets[d]]
           n == Len(samples)
<1>1. /\ sample \in Snapshot /\ sample.at = now /\ sample.of = d
      /\ sample.idx_scan = counter[d] /\ sample.scans = scans[d] /\ sample.resets = resets[d]
  BY DEF ReportInv, TypeOK, Snapshot, Counts
<1>2. samples' = Append(samples, sample) /\ UNCHANGED <<now, counter, scans, resets>>
  BY DEF Record
<1> HIDE DEF sample
<1>3. /\ samples' \in Seq(Snapshot) /\ Len(samples') = n + 1 /\ n \in Nat
      /\ \A k \in 1 .. n : samples'[k] = samples[k]
      /\ samples'[n + 1] = sample
  BY <1>1, <1>2, AppendProperties, LenProperties DEF ReportInv, TypeOK
<1> HIDE DEF n
<1>4. \A k \in 1 .. Len(samples') : k = n + 1 \/ k \in 1 .. n
  BY <1>3
<1>5. \A e \in Database : /\ Current(e)' = Current(e) /\ Current(e).idx_scan = counter[e]
                          /\ Current(e).scans = scans[e] /\ Current(e).resets = resets[e]
  BY <1>2 DEF Current
<1>6. TypeOK'
  BY <1>2, <1>3 DEF ReportInv, TypeOK
<1>7. \A k \in 1 .. n : /\ samples[k].at \in Nat /\ samples[k].at < now
                        /\ samples[k].of \in Database
  <2>1. \A k \in 1 .. n : samples[k].at \in Nat /\ samples[k].of \in Database
    BY Shown DEF ReportInv, n
  <2>2. now \in Nat
    BY DEF ReportInv, TypeOK
  <2>3. ASSUME NEW k \in 1 .. n PROVE samples[k].at < now
    <3>1. samples # <<>> /\ n \in 1 .. n
      BY <1>3, EmptySeq DEF n
    <3>2. samples[n].at < now
      BY <3>1 DEF Record, Last, n
    <3>3. k = n \/ samples[k].at < samples[n].at
      BY <1>3, <3>1 DEF ReportInv, InOrder, n
    <3> QED
      BY <2>1, <2>2, <3>1, <3>2, <3>3
  <2> QED
    BY <2>1, <2>3
<1>8. InOrder'
  <2>1. ASSUME NEW j \in 1 .. Len(samples'), NEW k \in 1 .. Len(samples'), j < k
        PROVE  samples'[j].at < samples'[k].at
    <3>1. j \in 1 .. n
      BY <1>3, <1>4, <2>1
    <3>2. CASE k = n + 1
      BY <1>1, <1>3, <1>7, <3>1, <3>2
    <3>3. CASE k \in 1 .. n
      BY <1>3, <2>1, <3>1, <3>3 DEF ReportInv, InOrder, n
    <3> QED
      BY <1>4, <3>2, <3>3
  <2>2. ASSUME NEW k \in 1 .. Len(samples') PROVE samples'[k].at =< now'
    <3>1. now \in Nat
      BY DEF ReportInv, TypeOK
    <3>2. CASE k = n + 1
      BY <1>1, <1>2, <1>3, <3>1, <3>2
    <3>3. CASE k \in 1 .. n
      BY <1>2, <1>3, <1>7, <3>1, <3>3
    <3> QED
      BY <1>4, <3>2, <3>3
  <2> QED
    BY <2>1, <2>2 DEF InOrder
<1>9. \A s : Later(s, Current(d)) <=> Later(s, sample)
  BY <1>1, <1>5 DEF Later
<1>10. Later(sample, Current(d))
  <2>1. Later(Current(d), Current(d))
    BY <1>5, Shown, LaterSame DEF ReportInv
  <2> QED
    BY <1>1, <1>5, <2>1 DEF Later
<1>11. SinceThen'
  <2> SUFFICES ASSUME NEW k \in 1 .. Len(samples')
               PROVE  Later(samples'[k], Current(samples'[k].of))
    BY <1>2 DEF SinceThen, Current
  <2>1. CASE k = n + 1
    BY <1>1, <1>3, <1>5, <1>10, <2>1
  <2>2. CASE k \in 1 .. n
    BY <1>3, <1>5, <1>7, <2>2 DEF ReportInv, SinceThen, n
  <2> QED
    BY <1>4, <2>1, <2>2
<1>12. Between'
  <2> SUFFICES ASSUME NEW j \in 1 .. Len(samples'), NEW k \in 1 .. Len(samples'),
                      j < k, samples'[j].of = samples'[k].of
               PROVE  Later(samples'[j], samples'[k])
    BY DEF Between
  <2>1. j \in 1 .. n
    BY <1>3, <1>4
  <2>2. CASE k = n + 1
    BY <1>1, <1>3, <1>9, <2>1, <2>2 DEF ReportInv, SinceThen, n
  <2>3. CASE k \in 1 .. n
    BY <1>3, <2>1, <2>3 DEF ReportInv, Between, n
  <2> QED
    BY <1>4, <2>2, <2>3
<1> QED
  BY <1>6, <1>8, <1>11, <1>12 DEF ReportInv

\* The invariant holds of every history.
LEMMA ReportInvariant == Spec => []ReportInv
<1>1. Init => ReportInv
  <2> SUFFICES ASSUME Init PROVE ReportInv
    OBVIOUS
  <2>1. samples = <<>> /\ Len(samples) = 0 /\ samples \in Seq(Snapshot)
    BY EmptySeq DEF Init
  <2>2. InOrder /\ SinceThen /\ Between
    BY <2>1 DEF InOrder, SinceThen, Between
  <2>3. TypeOK
    <3>1. counter \in [Database -> [Index -> Nat \cup {None, Gone}]]
      BY DEF Init
    <3>2. \A d \in Database, i \in Index : Exists(counter[d], i) => counter[d][i] =< scans[d][i]
      BY DEF Init, Exists
    <3>3. /\ now \in 0 .. MaxTime /\ scans \in [Database -> [Index -> Nat]]
          /\ resets \in [Database -> Nat]
      BY TimeAssumption DEF Init
    <3> QED
      BY <2>1, <3>1, <3>2, <3>3 DEF TypeOK
  <2> QED
    BY <2>2, <2>3 DEF ReportInv
<1>2. ReportInv /\ [Next]_vars => ReportInv'
  <2> SUFFICES ASSUME ReportInv, [Next]_vars PROVE ReportInv'
    OBVIOUS
  <2>1. CASE Tick
    BY <2>1, TickStep
  <2>2. ASSUME NEW d \in Database, Reset(d) \/ \E i \in Index : Create(d, i) \/ Drop(d, i)
        PROVE  ReportInv'
    BY <2>2, ServerStep
  <2>3. ASSUME NEW d \in Database, NEW i \in Index, Scan(d, i) PROVE ReportInv'
    BY <2>3, ScanStep
  <2>4. ASSUME NEW d \in Database, Record(d) PROVE ReportInv'
    BY <2>4, RecordStep
  <2>5. CASE UNCHANGED vars
    BY <2>5 DEF vars, ReportInv, TypeOK, InOrder, SinceThen, Between, Current
  <2> QED
    BY <2>1, <2>2, <2>3, <2>4, <2>5 DEF Next
<1> QED
  BY <1>1, <1>2, PTL DEF Spec

(***************************************************************************)
(* The snapshots that the report searches.                                 *)
(***************************************************************************)
\* The latest snapshot and the others.
LEMMA Kept ==
  ASSUME ReportInv, samples # <<>>
  PROVE  /\ Len(samples) \in 1 .. Len(samples)
         /\ Last(samples) = samples[Len(samples)] /\ Last(samples) \in Range(samples)
         /\ \A s : s \in Range(samples) <=> \E k \in 1 .. Len(samples) : s = samples[k]
         /\ \A s \in Range(samples) : /\ s \in Snapshot /\ s.at \in 0 .. MaxTime /\ s.at \in Nat
                                      /\ s.at =< Last(samples).at
         /\ \A s, t \in Range(samples) : s.at = t.at => s = t
<1> DEFINE n == Len(samples)
<1>1. n \in Nat /\ DOMAIN samples = 1 .. n /\ samples \in Seq(Snapshot)
  BY LenProperties DEF ReportInv, TypeOK
<1>2. n \in 1 .. n
  BY <1>1, EmptySeq
<1>3. \A s : s \in Range(samples) <=> \E k \in 1 .. n : s = samples[k]
  BY <1>1 DEF Range
<1>4. \A k \in 1 .. n : samples[k] \in Snapshot /\ samples[k].at \in 0 .. MaxTime
  BY Shown DEF ReportInv
<1>5. \A j, k \in 1 .. n : j < k => samples[j].at < samples[k].at
  BY DEF ReportInv, InOrder
<1>6. Last(samples) = samples[n]
  BY DEF Last
<1> HIDE DEF n
<1>7. \A j, k \in 1 .. n : samples[j].at = samples[k].at => j = k
  <2> TAKE j, k \in 1 .. n
  <2>1. samples[j].at \in Nat /\ samples[k].at \in Nat
    BY <1>4, TimeAssumption
  <2> QED
    BY <1>1, <1>5, <2>1
<1>8. \A k \in 1 .. n : samples[k].at \in Nat /\ samples[k].at =< samples[n].at
  <2> TAKE k \in 1 .. n
  <2>1. samples[k].at \in Nat /\ samples[n].at \in Nat
    BY <1>2, <1>4, TimeAssumption
  <2>2. k = n \/ samples[k].at < samples[n].at
    BY <1>1, <1>2, <1>5
  <2> QED
    BY <2>1, <2>2
<1>9. \A s \in Range(samples) : /\ s \in Snapshot /\ s.at \in 0 .. MaxTime /\ s.at \in Nat
                                /\ s.at =< samples[n].at
  BY <1>3, <1>4, <1>8
<1>10. \A s, t \in Range(samples) : s.at = t.at => s = t
  BY <1>3, <1>7
<1> QED
  BY <1>2, <1>3, <1>6, <1>9, <1>10 DEF n

\* A set of snapshots that is not empty has a latest one.
LEMMA LatestExists ==
  ASSUME ReportInv, samples # <<>>, NEW set \in SUBSET Range(samples), set # {}
  PROVE  Latest(set) \in set /\ \A t \in set : t.at =< Latest(set).at
<1> DEFINE ages == {m \in Nat : \E s \in set : m = MaxTime - s.at}
<1>1. \A s \in set : s.at \in 0 .. MaxTime /\ MaxTime - s.at \in ages
  BY Kept, TimeAssumption
<1>2. ages # {} /\ ages \subseteq Nat
  BY <1>1
<1>3. PICK m \in ages : \A l \in ages : ~(<<l, m>> \in OpToRel(<, Nat))
  BY <1>2, NatLessThanWellFounded, WFMin
<1>4. ASSUME NEW l \in ages PROVE m =< l
  <2>1. m \in Nat /\ l \in Nat
    BY <1>2
  <2>2. ~(<<l, m>>[1] < <<l, m>>[2])
    BY <1>3, <2>1, Zenon DEF OpToRel
  <2> QED
    BY <2>1, <2>2
<1>5. PICK s \in set : m = MaxTime - s.at
  OBVIOUS
<1>6. \A t \in set : t.at =< s.at
  <2> TAKE t \in set
  <2>1. m =< MaxTime - t.at
    BY <1>1, <1>4
  <2> QED
    BY <1>1, <1>5, <2>1, TimeAssumption
<1>7. \E u \in set : \A t \in set : t.at =< u.at
  BY <1>6
<1> QED
  BY <1>7 DEF Latest

\* The snapshot a window starts from.
LEMMA BaseFacts ==
  ASSUME ReportInv, samples # <<>>, NEW w \in Windows
  PROVE  /\ (\E s \in Range(samples) : s.at =< Last(samples).at - w) => Base(w) # None
         /\ Base(w) # None =>
              /\ Base(w) \in Range(samples) /\ Base(w).at =< Last(samples).at - w
              /\ \A s \in Range(samples) : s.at =< Last(samples).at - w => s.at =< Base(w).at
<1> DEFINE old == {s \in Range(samples) : s.at =< Last(samples).at - w}
<1>1. CASE old = {}
  BY <1>1 DEF Base
<1>2. CASE old # {}
  <2>1. Latest(old) \in old /\ \A t \in old : t.at =< Latest(old).at
    BY <1>2, LatestExists
  <2>2. Base(w) = Latest(old)
    BY <1>2 DEF Base
  <2>3. Base(w) # None
    <3>1. Base(w) \in Snapshot
      BY <2>1, <2>2, Kept
    <3> QED
      BY <3>1, NoneAssumption
  <2> QED
    BY <2>1, <2>2, <2>3
<1> QED
  BY <1>1, <1>2

\* What a velocity is made of.
LEMMA RateFacts ==
  ASSUME ReportInv, samples # <<>>, NEW i \in Listed, NEW w \in Windows
  PROVE  LET rate == Rate(i, Base(w))
             base == Base(w)
             last == Last(samples)
         IN
         /\ last.idx_scan[i] \in Nat /\ i \in Index
         /\ rate # None =>
              /\ base # None /\ Exists(base.idx_scan, i) /\ base.idx_scan[i] \in Nat
              /\ rate.scans = last.idx_scan[i] - base.idx_scan[i] /\ 0 =< rate.scans
              /\ rate.hours = last.at - base.at
              /\ base \in Range(samples) /\ base.at < last.at
              /\ Since(rate) = base
         /\ base # None /\ Exists(base.idx_scan, i) /\ last.idx_scan[i] - base.idx_scan[i] >= 0 =>
              rate # None
<1> DEFINE rate == Rate(i, Base(w))
           base == Base(w)
           last == Last(samples)
<1>1. i \in Index /\ last.idx_scan[i] \in Nat /\ last.at \in Nat /\ last \in Range(samples)
  BY Kept DEF Listed, Exists, Snapshot
<1>2. base # None => /\ base \in Range(samples) /\ base \in Snapshot
                     /\ base.at \in Nat /\ base.at < last.at
  <2>1. w \in Nat \ {0}
    BY WindowAssumption
  <2>2. ASSUME base # None
        PROVE  /\ base \in Range(samples) /\ base \in Snapshot
               /\ base.at \in Nat /\ base.at < last.at
    <3>1. base \in Range(samples) /\ base.at =< last.at - w
      BY <2>2, BaseFacts
    <3>2. base \in Snapshot /\ base.at \in Nat
      BY <3>1, Kept
    <3> QED
      BY <1>1, <2>1, <3>1, <3>2
  <2> QED
    BY <2>2
<1>3. base # None /\ Exists(base.idx_scan, i) => base.idx_scan[i] \in Nat
  BY <1>1, <1>2 DEF Exists, Snapshot
<1> DEFINE more == last.idx_scan[i] - base.idx_scan[i]
<1>4. rate = IF base = None \/ ~Exists(base.idx_scan, i) THEN None
             ELSE IF more >= 0 THEN [scans |-> more, hours |-> last.at - base.at] ELSE None
  BY DEF Rate
<1> HIDE DEF rate, base, last
<1>5. ASSUME rate # None
      PROVE  /\ base # None /\ Exists(base.idx_scan, i) /\ base.idx_scan[i] \in Nat
             /\ rate.scans = more /\ 0 =< rate.scans /\ rate.hours = last.at - base.at
             /\ base \in Range(samples) /\ base.at < last.at
  <2>1. base # None /\ Exists(base.idx_scan, i) /\ more >= 0
    BY <1>4, <1>5
  <2>2. rate = [scans |-> more, hours |-> last.at - base.at]
    BY <1>4, <1>5
  <2> QED
    BY <1>1, <1>2, <1>3, <2>1, <2>2
<1>6. ASSUME rate # None PROVE Since(rate) = base
  <2>1. base \in Range(samples) /\ last.at - base.at = rate.hours
    BY <1>5, <1>6
  <2>2. \A s \in Range(samples) : last.at - s.at = rate.hours => s = base
    <3> TAKE s \in Range(samples)
    <3> HAVE last.at - s.at = rate.hours
    <3>1. s.at \in Nat /\ base.at \in Nat
      BY <2>1, Kept
    <3>2. s.at = base.at
      BY <1>1, <2>1, <3>1
    <3> QED
      BY <2>1, <3>2, Kept
  <2> QED
    BY <2>1, <2>2 DEF Since, last
<1>7. ASSUME base # None, Exists(base.idx_scan, i), more >= 0 PROVE rate # None
  <2>1. rate = [scans |-> more, hours |-> last.at - base.at]
    BY <1>4, <1>7
  <2>2. rate \in Velocity
    <3>1. more \in Nat /\ last.at - base.at \in Nat
      BY <1>1, <1>2, <1>3, <1>7
    <3> QED
      BY <2>1, <3>1 DEF Velocity
  <2> QED
    BY <2>2, NoneAssumption
<1> QED
  BY <1>1, <1>5, <1>6, <1>7 DEF rate, base, last

(***************************************************************************)
(* The order of the rows.                                                  *)
(***************************************************************************)
\* Before orders the rows of different indexes, one way and without cycles.
LEMMA BeforeOrders ==
  ASSUME NEW a, NEW b, NEW c, a.index \in Index, b.index \in Index, c.index \in Index,
         a.idx_scan \in Nat, b.idx_scan \in Nat, c.idx_scan \in Nat
  PROVE  /\ ~Before(a, a) /\ (Before(a, b) => ~Before(b, a))
         /\ Before(a, b) /\ Before(b, c) => Before(a, c)
         /\ a.index # b.index => Before(a, b) \/ Before(b, a)
<1>1. \A i \in Index : i \in Nat /\ Rank(i) \in Int
  BY IndexAssumption DEF Rank
<1>2. /\ Rank(a.index) \in Int /\ Rank(b.index) \in Int /\ Rank(c.index) \in Int
      /\ a.index \in Nat /\ b.index \in Nat /\ c.index \in Nat
  BY <1>1
<1> QED
  BY <1>2 DEF Before

\* How many rows come before one.
Place(rows, row) == Cardinality({other \in rows : Before(other, row)})

\* Sorted lists every row once, each before the ones it is to be before.
LEMMA SortedOrders ==
  ASSUME NEW rows, IsFiniteSet(rows),
         \A row \in rows : row.index \in Index /\ row.idx_scan \in Nat,
         \A a, b \in rows : a.index = b.index => a = b
  PROVE  /\ DOMAIN Sorted(rows) = 1 .. Cardinality(rows) /\ Range(Sorted(rows)) = rows
         /\ \A j, k \in 1 .. Cardinality(rows) :
              /\ Sorted(rows)[j] = Sorted(rows)[k] => j = k
              /\ j < k => Before(Sorted(rows)[j], Sorted(rows)[k])
<1> DEFINE n == Cardinality(rows)
           before(row) == {other \in rows : Before(other, row)}
           f == [row \in rows |-> Place(rows, row) + 1]
<1>1. n \in Nat
  BY FS_CardinalityType
<1>2. ASSUME NEW a \in rows
      PROVE  Place(rows, a) \in Nat /\ Place(rows, a) < n /\ IsFiniteSet(before(a))
  <2>1. before(a) \in SUBSET rows /\ a \notin before(a)
    BY BeforeOrders
  <2>2. /\ IsFiniteSet(before(a)) /\ Cardinality(before(a)) =< n
        /\ Cardinality(before(a)) = n <=> before(a) = rows
    BY <2>1, FS_Subset
  <2>3. Cardinality(before(a)) \in Nat
    BY <2>2, FS_CardinalityType
  <2>4. Place(rows, a) = Cardinality(before(a))
    BY DEF Place
  <2> HIDE DEF before
  <2> QED
    BY <1>1, <2>1, <2>2, <2>3, <2>4
<1>3. ASSUME NEW a \in rows, NEW b \in rows, Before(a, b)
      PROVE  Place(rows, a) < Place(rows, b)
  <2>1. before(a) \in SUBSET before(b)
    BY <1>3, BeforeOrders
  <2>2. a \in before(b) /\ a \notin before(a)
    BY <1>3, BeforeOrders
  <2>3. Place(rows, a) = Cardinality(before(a)) /\ Place(rows, b) = Cardinality(before(b))
    BY DEF Place
  <2>4. IsFiniteSet(before(b)) /\ Place(rows, a) \in Nat /\ Place(rows, b) \in Nat
    BY <1>2
  <2> HIDE DEF before
  <2>5. /\ Cardinality(before(a)) =< Cardinality(before(b))
        /\ Cardinality(before(a)) # Cardinality(before(b))
    BY <2>1, <2>2, <2>4, FS_Subset
  <2> QED
    BY <2>3, <2>4, <2>5
<1>4. \A a, b \in rows : Place(rows, a) = Place(rows, b) => a = b
  <2> TAKE a, b \in rows
  <2> HAVE Place(rows, a) = Place(rows, b)
  <2>1. Place(rows, a) \in Nat /\ Place(rows, b) \in Nat
    BY <1>2
  <2>2. ~Before(a, b) /\ ~Before(b, a)
    BY <1>3, <2>1
  <2> QED
    BY <2>2, BeforeOrders
<1>5. \A a \in rows : Place(rows, a) + 1 \in 1 .. n /\ (Place(rows, a) + 1) - 1 = Place(rows, a)
  <2> TAKE a \in rows
  <2> DEFINE place == Place(rows, a)
  <2>1. place \in Nat /\ place < n
    BY <1>2
  <2> HIDE DEF n, place
  <2>2. place + 1 \in 1 .. n /\ (place + 1) - 1 = place
    BY <1>1, <2>1
  <2> QED
    BY <2>2 DEF place
<1>0. f \in [rows -> 1 .. n]
  BY <1>5
<1>6. f \in Injection(rows, 1 .. n)
  <2>1. \A a, b \in rows : f[a] = f[b] => a = b
    <3> TAKE a, b \in rows
    <3>1. Place(rows, a) \in Nat /\ Place(rows, b) \in Nat
      BY <1>2
    <3> QED
      BY <1>4, <3>1
  <2> QED
    BY <1>0, <2>1, Fun_IsInj
<1>7. IsFiniteSet(1 .. n) /\ Cardinality(1 .. n) = n
  BY <1>1, FS_Interval
<1>8. f \in Surjection(rows, 1 .. n)
  BY <1>6, <1>7, FS_Injection
<1>9. ASSUME NEW k \in 1 .. n
      PROVE  Sorted(rows)[k] \in rows /\ Place(rows, Sorted(rows)[k]) = k - 1
  <2>1. PICK row \in rows : f[row] = k
    BY <1>8 DEF Surjection
  <2>2. Place(rows, row) \in Nat /\ Place(rows, row) + 1 = k
    BY <1>2, <2>1
  <2>3. Place(rows, row) = k - 1
    BY <1>1, <2>2
  <2>4. Sorted(rows)[k] = CHOOSE r \in rows : Place(rows, r) = k - 1
    BY DEF Sorted, Place
  <2> QED
    BY <2>3, <2>4
<1>10. DOMAIN Sorted(rows) = 1 .. n
  BY DEF Sorted
<1>11. Range(Sorted(rows)) = rows
  <2>1. Range(Sorted(rows)) \subseteq rows
    BY <1>9, <1>10 DEF Range
  <2>2. ASSUME NEW row \in rows PROVE row \in Range(Sorted(rows))
    <3>1. Place(rows, row) + 1 \in 1 .. n /\ (Place(rows, row) + 1) - 1 = Place(rows, row)
      BY <1>5
    <3>2. Sorted(rows)[Place(rows, row) + 1] = row
      BY <1>4, <1>9, <3>1
    <3> QED
      BY <1>10, <3>1, <3>2 DEF Range
  <2> QED
    BY <2>1, <2>2
<1>12. ASSUME NEW j \in 1 .. n, NEW k \in 1 .. n
       PROVE  /\ Sorted(rows)[j] = Sorted(rows)[k] => j = k
              /\ j < k => Before(Sorted(rows)[j], Sorted(rows)[k])
  <2> DEFINE a == Sorted(rows)[j]
             b == Sorted(rows)[k]
  <2>1. a \in rows /\ Place(rows, a) = j - 1 /\ b \in rows /\ Place(rows, b) = k - 1
    BY <1>9
  <2> HIDE DEF a, b
  <2>2. a = b => j = k
    BY <1>1, <2>1
  <2>3. j < k => a # b /\ ~Before(b, a)
    BY <1>1, <1>3, <2>1
  <2>4. a # b /\ ~Before(b, a) => Before(a, b)
    BY <2>1, BeforeOrders
  <2> QED
    BY <2>2, <2>3, <2>4 DEF a, b
<1> QED
  BY <1>10, <1>11, <1>12

\* The rows of the report are those of the indexes in the latest snapshot.
LEMMA RowsFacts ==
  ASSUME ReportInv, samples # <<>>
  PROVE  LET rows == {Row(i) : i \in Listed} IN
         /\ Rows = Sorted(rows) /\ Range(Rows) = rows /\ DOMAIN Rows = 1 .. Cardinality(rows)
         /\ \A row \in rows : /\ row.index \in Listed /\ row.index \in Index
                              /\ row.idx_scan = Last(samples).idx_scan[row.index]
                              /\ row.idx_scan \in Nat
                              /\ \A w \in Windows : row.rates[w] = Rate(row.index, Base(w))
         /\ \A j, k \in 1 .. Cardinality(rows) :
              /\ Rows[j] = Rows[k] => j = k
              /\ j < k => Before(Rows[j], Rows[k])
         /\ \A a, b \in rows : a.index = b.index => a = b
<1> DEFINE rows == {Row(i) : i \in Listed}
<1>1. \A i \in Listed : /\ Row(i).index = i /\ Row(i).idx_scan = Last(samples).idx_scan[i]
                        /\ \A w \in Windows : Row(i).rates[w] = Rate(i, Base(w))
  BY DEF Row
<1>2. \A i \in Listed : i \in Index /\ Last(samples).idx_scan[i] \in Nat
  BY Kept DEF Listed, Exists, Snapshot
<1>3. IsFiniteSet(Listed)
  BY IndexAssumption, FS_Subset DEF Listed
<1>4. IsFiniteSet(rows)
  <2> DEFINE g == [i \in Listed |-> Row(i)]
  <2>1. g \in Surjection(Listed, rows)
    <3>1. g \in [Listed -> rows] /\ \A r \in rows : \E i \in Listed : g[i] = r
      OBVIOUS
    <3> HIDE DEF g, rows
    <3> QED
      BY <3>1, Fun_IsSurj
  <2> HIDE DEF g, rows
  <2> QED
    BY <1>3, <2>1, FS_Surjection
<1>5. \A row \in rows : /\ row.index \in Listed /\ row.index \in Index
                        /\ row.idx_scan = Last(samples).idx_scan[row.index]
                        /\ row.idx_scan \in Nat
                        /\ \A w \in Windows : row.rates[w] = Rate(row.index, Base(w))
                        /\ row = Row(row.index)
  BY <1>1, <1>2
<1>6. \A a, b \in rows : a.index = b.index => a = b
  <2> TAKE a, b \in rows
  <2>1. a = Row(a.index) /\ b = Row(b.index)
    BY <1>5
  <2> QED
    BY <2>1
<1>7. Rows = Sorted(rows)
  BY DEF Rows
<1> HIDE DEF rows
<1>8. /\ DOMAIN Sorted(rows) = 1 .. Cardinality(rows) /\ Range(Sorted(rows)) = rows
      /\ \A j, k \in 1 .. Cardinality(rows) :
           /\ Sorted(rows)[j] = Sorted(rows)[k] => j = k
           /\ j < k => Before(Sorted(rows)[j], Sorted(rows)[k])
  BY <1>4, <1>5, <1>6, SortedOrders
<1> QED
  BY <1>5, <1>6, <1>7, <1>8 DEF rows

\* There is no report without a snapshot.
LEMMA NoRows ==
  ASSUME samples = <<>>
  PROVE  Range(Rows) = {}
BY DEF Rows, Range

(***************************************************************************)
(* Theorems.                                                               *)
(***************************************************************************)
\* The store and the counters keep their types, and no counter is ahead of the scans.
THEOREM TypeCorrect == Spec => []TypeOK
<1>1. ReportInv => TypeOK
  BY DEF ReportInv
<1> QED
  BY <1>1, ReportInvariant, PTL

\* A velocity tells of no scans but real ones, and of all of them if the counters were
\* not reset, however often they were and whatever indexes were made and dropped.
THEOREM VelocityTrueCorrect == Spec => []VelocityIsTrue
<1>1. ReportInv => VelocityIsTrue
  <2> SUFFICES ASSUME ReportInv, NEW row \in Range(Rows), NEW w \in Windows,
                      row.rates[w] # None, Since(row.rates[w]).of = Last(samples).of
               PROVE  LET rate == row.rates[w]
                          base == Since(rate)
                          real == Last(samples).scans[row.index] - base.scans[row.index]
                      IN /\ 0 =< rate.scans /\ rate.scans =< real
                         /\ base.resets = Last(samples).resets => rate.scans = real
    BY DEF VelocityIsTrue
  <2> DEFINE i == row.index
             rate == row.rates[w]
             base == Base(w)
             last == Last(samples)
  <2>1. samples # <<>>
    BY NoRows
  <2>2. i \in Listed /\ rate = Rate(i, base)
    BY <2>1, RowsFacts
  <2>3. /\ base # None /\ Exists(base.idx_scan, i) /\ i \in Index
        /\ rate.scans = last.idx_scan[i] - base.idx_scan[i] /\ 0 =< rate.scans
        /\ base \in Range(samples) /\ base.at < last.at /\ Since(rate) = base
    BY <2>1, <2>2, RateFacts
  <2>4. Exists(last.idx_scan, i)
    BY <2>2 DEF Listed
  <2>5. Later(base, last)
    <3>1. PICK k \in 1 .. Len(samples) : base = samples[k]
      BY <2>1, <2>3, Kept
    <3>2. last = samples[Len(samples)] /\ Len(samples) \in 1 .. Len(samples)
      BY <2>1, Kept
    <3>3. base.at \in Nat /\ last.at \in Nat
      BY <2>1, <2>3, Kept
    <3> HIDE DEF base, last
    <3>4. k # Len(samples)
      BY <2>3, <3>1, <3>2, <3>3
    <3>5. k < Len(samples)
      BY <3>2, <3>4
    <3> QED
      BY <2>3, <3>1, <3>2, <3>5 DEF ReportInv, Between, last
  <2> HIDE DEF base, last, rate
  <2>6. /\ last.idx_scan[i] - base.idx_scan[i] =< last.scans[i] - base.scans[i]
        /\ base.resets = last.resets =>
             last.idx_scan[i] - base.idx_scan[i] = last.scans[i] - base.scans[i]
    BY <2>3, <2>4, <2>5 DEF Later
  <2> QED
    BY <2>3, <2>6 DEF last, rate
<1> QED
  BY <1>1, ReportInvariant, PTL

\* A velocity is taken over its window, or over the least more that there is.
THEOREM VelocityCovers == Spec => []VelocityCoversWindow
<1>1. ReportInv => VelocityCoversWindow
  <2> SUFFICES ASSUME ReportInv, NEW row \in Range(Rows), NEW w \in Windows, row.rates[w] # None
               PROVE  /\ row.rates[w].hours >= w
                      /\ \A s \in Range(samples) : Last(samples).at - s.at >= w =>
                           Last(samples).at - s.at >= row.rates[w].hours
    BY DEF VelocityCoversWindow
  <2> DEFINE i == row.index
             rate == row.rates[w]
             base == Base(w)
             last == Last(samples)
  <2>1. samples # <<>>
    BY NoRows
  <2>2. i \in Listed /\ rate = Rate(i, base)
    BY <2>1, RowsFacts
  <2>3. base # None /\ rate.hours = last.at - base.at /\ base \in Range(samples)
    BY <2>1, <2>2, RateFacts
  <2>4. /\ base.at =< last.at - w
        /\ \A s \in Range(samples) : s.at =< last.at - w => s.at =< base.at
    BY <2>1, <2>3, BaseFacts
  <2>5. last.at \in Nat /\ w \in Nat /\ \A s \in Range(samples) : s.at \in Nat
    BY <2>1, Kept, WindowAssumption
  <2> HIDE DEF rate, base, last
  <2>6. rate.hours >= w
    BY <2>3, <2>4, <2>5
  <2>7. ASSUME NEW s \in Range(samples), last.at - s.at >= w PROVE last.at - s.at >= rate.hours
    <3>1. s.at \in Nat /\ base.at \in Nat
      BY <2>3, <2>5
    <3>2. s.at =< base.at
      BY <2>4, <2>5, <2>7, <3>1
    <3> QED
      BY <2>3, <2>5, <3>1, <3>2
  <2> QED
    BY <2>6, <2>7 DEF rate, last
<1> QED
  BY <1>1, ReportInvariant, PTL

\* An index that was there all the time, with no reset, has its velocity.
THEOREM VelocityKnown == Spec => []VelocityWhenKnown
<1>1. ReportInv => VelocityWhenKnown
  <2> SUFFICES ASSUME ReportInv, NEW row \in Range(Rows), NEW w \in Windows,
                      NEW s \in Range(samples), Last(samples).at - s.at >= w,
                      \A t \in Range(samples) :
                        t.at >= s.at => /\ Exists(t.idx_scan, row.index) /\ t.of = s.of
                                        /\ t.resets = s.resets
               PROVE  row.rates[w] # None
    BY DEF VelocityWhenKnown
  <2> DEFINE i == row.index
             base == Base(w)
             last == Last(samples)
  <2>1. samples # <<>>
    BY NoRows
  <2>2. i \in Listed /\ i \in Index /\ row.rates[w] = Rate(i, base)
    BY <2>1, RowsFacts
  <2>3. /\ last.at \in Nat /\ w \in Nat \ {0} /\ s.at \in Nat /\ last \in Range(samples)
        /\ s.at =< last.at - w /\ s.at =< last.at
    <3>1. last.at \in Nat /\ w \in Nat \ {0} /\ s.at \in Nat /\ last \in Range(samples)
      BY <2>1, Kept, WindowAssumption
    <3>2. last.at - s.at >= w
      OBVIOUS
    <3> HIDE DEF last
    <3> QED
      BY <3>1, <3>2
  <2>4. /\ base # None /\ base \in Range(samples) /\ base.at =< last.at - w /\ s.at =< base.at
    BY <2>1, <2>3, BaseFacts
  <2>5. base.at \in Nat /\ base.at < last.at /\ base.at >= s.at /\ last.at >= s.at
    <3>1. base.at \in Nat
      BY <2>1, <2>4, Kept
    <3> HIDE DEF base, last
    <3> QED
      BY <2>3, <2>4, <3>1
  <2>6. /\ Exists(base.idx_scan, i) /\ Exists(last.idx_scan, i)
        /\ base.of = last.of /\ base.resets = last.resets
    BY <2>3, <2>4, <2>5
  <2>7. Later(base, last)
    <3>1. PICK k \in 1 .. Len(samples) : base = samples[k]
      BY <2>1, <2>4, Kept
    <3>2. last = samples[Len(samples)] /\ Len(samples) \in 1 .. Len(samples)
      BY <2>1, Kept
    <3> HIDE DEF base, last
    <3>3. k # Len(samples)
      BY <2>3, <2>5, <3>1, <3>2
    <3>4. k < Len(samples)
      BY <3>2, <3>3
    <3> QED
      BY <2>6, <3>1, <3>2, <3>4 DEF ReportInv, Between
  <2>8. base.scans \in [Index -> Nat] /\ last.scans \in [Index -> Nat]
    BY <2>1, <2>3, <2>4, Kept DEF Snapshot
  <2>9. /\ last.idx_scan[i] - base.idx_scan[i] = last.scans[i] - base.scans[i]
        /\ base.scans[i] =< last.scans[i]
    BY <2>2, <2>6, <2>7 DEF Later
  <2>10. last.idx_scan[i] - base.idx_scan[i] >= 0
    BY <2>2, <2>8, <2>9
  <2> QED
    BY <2>1, <2>2, <2>4, <2>6, <2>10, RateFacts
<1> QED
  BY <1>1, ReportInvariant, PTL

\* The report has a row for each index of the latest snapshot, in the order of the code.
THEOREM ReportSortedCorrect == Spec => []ReportSorted
<1>1. ReportInv => ReportSorted
  <2> SUFFICES ASSUME ReportInv, samples # <<>>
               PROVE  ReportSorted
    BY DEF ReportSorted
  <2> DEFINE rows == {Row(i) : i \in Listed}
             Key(k) == LET i == Rows[k].index IN
                       <<IF SchemaOf[i] = Public THEN 0 ELSE 1, SchemaOf[i], -Rows[k].idx_scan>>
  <2>1. /\ Range(Rows) = rows /\ DOMAIN Rows = 1 .. Cardinality(rows)
        /\ \A row \in rows : row.index \in Listed /\ row.index \in Index /\ row.idx_scan \in Nat
        /\ \A j, k \in 1 .. Cardinality(rows) :
             /\ Rows[j] = Rows[k] => j = k
             /\ j < k => Before(Rows[j], Rows[k])
        /\ \A a, b \in rows : a.index = b.index => a = b
    BY RowsFacts
  <2>2. \A k \in DOMAIN Rows : Rows[k] \in rows
    BY <2>1 DEF Range
  <2>3. {row.index : row \in Range(Rows)} = {i \in Index : Exists(Last(samples).idx_scan, i)}
    <3>1. \A i \in Listed : Row(i) \in rows /\ Row(i).index = i
      BY DEF Row
    <3> HIDE DEF rows
    <3> QED
      BY <2>1, <3>1 DEF Listed
  <2> HIDE DEF rows
  <2>4. IsInjective([k \in DOMAIN Rows |-> Rows[k].index])
    BY <2>1, <2>2 DEF IsInjective
  <2>5. ASSUME NEW j \in DOMAIN Rows, NEW k \in DOMAIN Rows, j < k
        PROVE  \/ \E c \in 1 .. 3 : /\ Key(j)[c] < Key(k)[c]
                                    /\ \A b \in 1 .. c - 1 : Key(j)[b] = Key(k)[b]
               \/ Key(j) = Key(k)
    <3> DEFINE a == Rows[j]
               z == Rows[k]
    <3>1. /\ a.index \in Index /\ z.index \in Index /\ a.idx_scan \in Nat /\ z.idx_scan \in Nat
          /\ Before(a, z)
      BY <2>1, <2>2, <2>5
    <3>2. SchemaOf[a.index] \in Nat /\ SchemaOf[z.index] \in Nat
      BY <3>1, IndexAssumption
    <3>3. /\ Key(j)[1] = (IF SchemaOf[a.index] = Public THEN 0 ELSE 1)
          /\ Key(k)[1] = (IF SchemaOf[z.index] = Public THEN 0 ELSE 1)
          /\ Key(j)[2] = SchemaOf[a.index] /\ Key(k)[2] = SchemaOf[z.index]
          /\ Key(j)[3] = -a.idx_scan /\ Key(k)[3] = -z.idx_scan
          /\ Key(j) = <<Key(j)[1], Key(j)[2], Key(j)[3]>>
          /\ Key(k) = <<Key(k)[1], Key(k)[2], Key(k)[3]>>
      OBVIOUS
    <3> HIDE DEF Key, a, z
    <3>4. \/ Key(j)[1] < Key(k)[1]
          \/ Key(j)[1] = Key(k)[1] /\ Key(j)[2] < Key(k)[2]
          \/ Key(j)[1] = Key(k)[1] /\ Key(j)[2] = Key(k)[2] /\ Key(j)[3] < Key(k)[3]
          \/ Key(j)[1] = Key(k)[1] /\ Key(j)[2] = Key(k)[2] /\ Key(j)[3] = Key(k)[3]
      <4>1. CASE SchemaOf[a.index] = Public
        BY <3>1, <3>2, <3>3, <4>1 DEF Before, Rank
      <4>2. CASE SchemaOf[a.index] # Public
        BY <3>1, <3>2, <3>3, <4>2 DEF Before, Rank
      <4> QED
        BY <4>1, <4>2
    <3> QED
      BY <3>3, <3>4
  <2> QED
    BY <2>3, <2>4, <2>5 DEF ReportSorted
<1> QED
  BY <1>1, ReportInvariant, PTL

=============================================================================
