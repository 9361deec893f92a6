--------------------------- MODULE SamplerProofs ----------------------------
(***************************************************************************)
(* Proofs about the index statistics sampler, for any connections, tasks,  *)
(* files, intervals and number of commands.  The last theorem says what    *)
(* must happen for a sample to come too early.                             *)
(***************************************************************************)
EXTENDS Sampler, TLAPS

Holding == {"asking", "reading", "recording"}

\* A task that runs belongs to a connection.
Owned == \A k \in Sampler : task[k].pc # "done" => task[k].conn \in Conn

\* A task that is being aborted still runs and is nobody's sampler any more.
AbortedUnknown ==
  \A k \in aborted : task[k].pc # "done" /\ \A c \in Conn : handle[c] # k

\* A connection that knows a running task knows its own.
KnownIsOwn ==
  \A c \in Conn, k \in Sampler :
    handle[c] = k /\ task[k].pc # "done" => task[k].conn = c

\* Only a sampler whose connection is gone ends by itself.
EndedIsGone ==
  \A c \in Conn, k \in Sampler :
    handle[c] = k /\ task[k].pc = "done" => ~Alive(c)

Links == Owned /\ AbortedUnknown /\ KnownIsOwn /\ EndedIsGone /\ OneSampler

SamplerInv == TypeOK /\ Links

----------------------------------------------------------------------------
\* The longest interval is one of them, and Longest bounds it and Retry.
LEMMA Bounds ==
  /\ Oldest \in Nat /\ \A i \in Intervals : i \in 0..Oldest
  /\ Longest \in Nat /\ Oldest =< Longest /\ Retry =< Longest
<1>1. Oldest \in Intervals /\ \A j \in Intervals : j =< Oldest
  BY IntervalsBounded DEF Oldest
<1>. QED  BY <1>1, IntervalAssumption DEF Longest

\* The links between tasks and connections give what the runs check.
LEMMA LinksSuffice == SamplerInv => SamplerRuns
<1>. SUFFICES ASSUME SamplerInv, NEW c \in Conn, Alive(c), handle[c] # None
              PROVE  /\ task[handle[c]].pc # "done" /\ task[handle[c]].conn = c
                     /\ handle[c] \notin aborted
  BY DEF SamplerRuns
<1>1. handle[c] \in Sampler  BY DEF SamplerInv, TypeOK
<1>. QED
  BY <1>1 DEF SamplerInv, Links, AbortedUnknown, KnownIsOwn, EndedIsGone

\* The initial states satisfy the invariant.
LEMMA InitInv == Init => SamplerInv
<1>. SUFFICES ASSUME Init PROVE SamplerInv  OBVIOUS
<1>1. Done \in SamplerState  BY Bounds DEF Done, SamplerState
<1>2. TypeOK
  <2>1. task \in [Sampler -> SamplerState] /\ aborted \subseteq Sampler
    BY <1>1 DEF Init
  <2>2. interval \in Intervals /\ ui \in Conn \cup {None} /\ early \in BOOLEAN
    BY DEF Init
  <2>3. store \in [Conn -> Store] /\ users \in [Conn -> Nat]
    BY DEF Init
  <2>4. handle \in [Conn -> Sampler \cup {None}]
    BY DEF Init
  <2>5. age \in [Store -> 0..Oldest]
    BY Bounds DEF Init
  <2>. QED  BY <2>1, <2>2, <2>3, <2>4, <2>5 DEF TypeOK
<1>3. \A c \in Conn : handle[c] \notin Sampler  BY NoneAssumption DEF Init
<1>4. \A k \in Sampler : task[k].pc = "done"  BY DEF Init, Done
<1>5. aborted = {}  BY DEF Init
<1>. QED
  BY <1>2, <1>3, <1>4, <1>5
  DEF SamplerInv, Links, Owned, AbortedUnknown, KnownIsOwn, EndedIsGone, OneSampler

----------------------------------------------------------------------------
\* A step of a running sampler that neither ends it nor lets it hold a
\* connection that is gone keeps the links.
LEMMA RunsOn ==
  ASSUME SamplerInv, NEW k \in Sampler, NEW r \in SamplerState,
         r.conn = task[k].conn, r.pc # "done", task[k].pc # "done",
         r.pc \in Holding => Alive(r.conn),
         task' = [task EXCEPT ![k] = r],
         UNCHANGED <<handle, aborted, ui, users>>
  PROVE  Links'
<1>1. \A q \in Sampler : /\ task'[q].conn = task[q].conn
                         /\ task'[q].pc = "done" <=> task[q].pc = "done"
  BY DEF SamplerInv, TypeOK
<1>2. \A c \in Conn : Alive(c)' => Alive(c)
  <2>. SUFFICES ASSUME NEW c \in Conn, NEW q \in Sampler, Holds(q, c)', ~Holds(q, c)
                PROVE  Alive(c)
    BY DEF Alive
  <2>1. q = k  BY DEF Holds, SamplerInv, TypeOK
  <2>2. r.pc \in Holding /\ r.conn = c
    BY <2>1 DEF Holds, Holding, SamplerInv, TypeOK
  <2>. QED  BY <2>2
<1>3. UNCHANGED <<handle, aborted>>  OBVIOUS
<1>4. Owned' /\ AbortedUnknown' /\ KnownIsOwn' /\ OneSampler'
  BY <1>1, <1>3
  DEF SamplerInv, TypeOK, Links, Owned, AbortedUnknown, KnownIsOwn, OneSampler
<1>5. EndedIsGone'
  BY <1>1, <1>2, <1>3 DEF SamplerInv, Links, EndedIsGone
<1>. QED  BY <1>4, <1>5 DEF Links

\* A step that leaves tasks and handles alone and brings no connection back
\* keeps the links.
LEMMA Bystands ==
  ASSUME SamplerInv, UNCHANGED <<task, handle, aborted>>,
         \A c \in Conn : Alive(c)' => Alive(c)
  PROVE  Links'
BY DEF SamplerInv, TypeOK, Links, Owned, AbortedUnknown, KnownIsOwn, EndedIsGone,
       OneSampler

----------------------------------------------------------------------------
\* Spawning a sampler for a connection in use, or just made.
LEMMA SpawnTypes ==
  ASSUME TypeOK, NEW c \in Conn, Spawn(c)
  PROVE  /\ handle' \in [Conn -> Sampler \cup {None}]
         /\ task' \in [Sampler -> SamplerState] /\ aborted' \subseteq Sampler
<1>1. Ready(c) \in SamplerState  BY Bounds DEF Ready, SamplerState
<1>2. \A k \in Sampler :
        [task EXCEPT ![k] = Ready(c)] \in [Sampler -> SamplerState]
  BY <1>1 DEF TypeOK
<1>3. Aborting(c) \subseteq Sampler  BY DEF Aborting
<1>. QED  BY <1>2, <1>3 DEF Spawn, TypeOK

\* A new sampler is linked to the connection that spawned it, and to no other
\* (spawn_index_stats_collector).
LEMMA SpawnLinks ==
  ASSUME SamplerInv, NEW c \in Conn, Spawn(c),
         \A d \in Conn \ {c} : Alive(d)' => Alive(d)
  PROVE  Links'
<1>1. PICK k \in Sampler :
        /\ Free(k)
        /\ task' = [task EXCEPT ![k] = Ready(c)]
        /\ handle' = [handle EXCEPT ![c] = k]
        /\ aborted' = aborted \cup Aborting(c)
  BY DEF Spawn
<1>2. /\ task'[k].pc = "ready" /\ task'[k].conn = c
      /\ \A q \in Sampler \ {k} : task'[q] = task[q]
  BY <1>1 DEF SamplerInv, TypeOK, Ready
<1>3. /\ handle'[c] = k
      /\ \A d \in Conn \ {c} : handle'[d] = handle[d] /\ handle[d] # k
  BY <1>1 DEF SamplerInv, TypeOK, Free
<1>4. task[k].pc = "done" /\ k \notin aborted /\ k \notin Aborting(c)
  BY <1>1 DEF Free, Aborting, SamplerInv, Links, AbortedUnknown
<1>5. \A q \in aborted' : q \in Sampler /\ q # k /\ task[q].pc # "done"
  BY <1>1, <1>4 DEF Aborting, SamplerInv, TypeOK, Links, AbortedUnknown
<1>6. Owned'
  BY <1>2 DEF SamplerInv, Links, Owned
<1>7. AbortedUnknown'
  <2>. SUFFICES ASSUME NEW q \in aborted', NEW d \in Conn, handle'[d] = q PROVE FALSE
    BY <1>2, <1>5 DEF AbortedUnknown
  <2>1. d # c /\ handle[d] = q  BY <1>3, <1>5
  <2>2. q \in Aborting(c)
    BY <1>1, <2>1 DEF SamplerInv, Links, AbortedUnknown
  <2>3. handle[c] = q /\ task[q].pc # "done"  BY <2>2 DEF Aborting
  <2>4. task[q].conn = c /\ task[q].conn = d
    BY <2>1, <2>3, <1>5 DEF SamplerInv, Links, KnownIsOwn
  <2>. QED  BY <2>1, <2>4
<1>8. KnownIsOwn'
  BY <1>2, <1>3 DEF SamplerInv, Links, KnownIsOwn
<1>9. EndedIsGone'
  BY <1>2, <1>3 DEF SamplerInv, Links, EndedIsGone
<1>10. OneSampler'
  <2>. SUFFICES ASSUME NEW q \in Sampler, task'[q].pc # "done", q \notin aborted'
                PROVE  handle'[task'[q].conn] = q
    BY DEF OneSampler
  <2>1. CASE q = k  BY <2>1, <1>2, <1>3
  <2>2. CASE q # k
    <3>1. task[q].pc # "done" /\ q \notin aborted /\ task'[q].conn = task[q].conn
      BY <2>2, <1>1, <1>2
    <3>2. handle[task[q].conn] = q /\ task[q].conn \in Conn
      BY <3>1 DEF SamplerInv, Links, OneSampler, Owned
    <3>3. task[q].conn # c
      <4>. SUFFICES ASSUME task[q].conn = c PROVE q \in Aborting(c)  BY <1>1
      <4>. QED  BY <3>1, <3>2 DEF Aborting
    <3>. QED  BY <1>3, <3>1, <3>2, <3>3
  <2>. QED  BY <2>1, <2>2
<1>. QED  BY <1>6, <1>7, <1>8, <1>9, <1>10 DEF Links

\* Forgetting the sampler of a connection aborts it.
LEMMA AbortLinks ==
  ASSUME SamplerInv, NEW c \in Conn, Abort(c), UNCHANGED <<ui, users>>
  PROVE  /\ handle' \in [Conn -> Sampler \cup {None}]
         /\ aborted' \subseteq Sampler /\ Links'
<1>1. /\ handle'[c] = None
      /\ \A d \in Conn \ {c} : handle'[d] = handle[d]
      /\ task' = task /\ aborted' = aborted \cup Aborting(c)
  BY DEF Abort, SamplerInv, TypeOK
<1>2. handle' \in [Conn -> Sampler \cup {None}] /\ aborted' \subseteq Sampler
  BY DEF Abort, Aborting, SamplerInv, TypeOK
<1>3. \A d \in Conn : Alive(d)' <=> Alive(d)
  BY <1>1 DEF Alive, Holds
<1>4. None \notin Sampler  BY NoneAssumption
<1>5. AbortedUnknown'
  <2>. SUFFICES ASSUME NEW q \in aborted'
                PROVE  task[q].pc # "done" /\ \A d \in Conn : handle'[d] # q
    BY <1>1 DEF AbortedUnknown
  <2>1. CASE q \in aborted
    BY <2>1, <1>1, <1>4 DEF SamplerInv, TypeOK, Links, AbortedUnknown
  <2>2. CASE q \in Aborting(c)
    BY <2>2, <1>1, <1>4 DEF Aborting, SamplerInv, Links, KnownIsOwn
  <2>. QED  BY <2>1, <2>2, <1>1
<1>6. Owned' /\ KnownIsOwn' /\ EndedIsGone'
  BY <1>1, <1>3, <1>4 DEF SamplerInv, Links, Owned, KnownIsOwn, EndedIsGone
<1>7. OneSampler'
  <2>. SUFFICES ASSUME NEW q \in Sampler, task[q].pc # "done", q \notin aborted'
                PROVE  handle'[task[q].conn] = q
    BY <1>1 DEF OneSampler
  <2>1. handle[task[q].conn] = q /\ task[q].conn \in Conn
    BY <1>1 DEF SamplerInv, Links, OneSampler, Owned
  <2>2. q \notin Aborting(c)  BY <1>1
  <2>3. task[q].conn # c  BY <2>1, <2>2 DEF Aborting
  <2>. QED  BY <1>1, <2>1, <2>3
<1>. QED  BY <1>2, <1>5, <1>6, <1>7 DEF Links

----------------------------------------------------------------------------
(***************************************************************************)
(* Every step of the event loop keeps the invariant.                       *)
(***************************************************************************)
LEMMA ConnectedInv ==
  ASSUME SamplerInv, NEW c \in Conn, NEW collect \in BOOLEAN, Connected(c, collect)
  PROVE  SamplerInv'
<1>1. store' \in [Conn -> Store] /\ ui' \in Conn \cup {None}
  BY DEF Connected, SamplerInv, TypeOK
<1>2. UNCHANGED <<interval, users, age, early>>  BY DEF Connected
<1>3. ASSUME NEW d \in Conn \ {c}, Alive(d)'
      PROVE  Alive(d)
  <2>1. ASSUME NEW q \in Sampler, Holds(q, d)' PROVE Holds(q, d)
    <3>1. CASE collect
      <4>1. PICK k \in Sampler :
              task' = [task EXCEPT ![k] = Ready(c)]
        BY <3>1 DEF Connected, Spawn
      <4>. QED  BY <2>1, <4>1 DEF Holds, Ready, SamplerInv, TypeOK
    <3>2. CASE ~collect
      BY <2>1, <3>2 DEF Connected, Holds
    <3>. QED  BY <3>1, <3>2
  <2>2. ui' = c /\ users' = users  BY DEF Connected
  <2>. QED  BY <1>3, <2>1, <2>2 DEF Alive
<1>4. CASE collect
  <2>1. Spawn(c)  BY <1>4 DEF Connected
  <2>2. Links'  BY <1>3, <2>1, SpawnLinks
  <2>. QED  BY <1>1, <1>2, <2>1, <2>2, SpawnTypes DEF SamplerInv, TypeOK
<1>5. CASE ~collect
  <2>1. UNCHANGED <<task, handle, aborted>> /\ handle[c] = None
    BY <1>5 DEF Connected
  <2>2. Owned' /\ AbortedUnknown' /\ KnownIsOwn' /\ OneSampler'
    BY <2>1 DEF SamplerInv, Links, Owned, AbortedUnknown, KnownIsOwn, OneSampler
  <2>3. EndedIsGone'
    BY <1>3, <2>1, NoneAssumption DEF SamplerInv, Links, EndedIsGone
  <2>. QED  BY <1>1, <1>2, <2>1, <2>2, <2>3 DEF SamplerInv, TypeOK, Links
<1>. QED  BY <1>4, <1>5

\* Switching the collection on or off (set_index_stats_collection).
LEMMA SetCollectionInv ==
  ASSUME SamplerInv, NEW collect \in BOOLEAN, SetCollection(collect)
  PROVE  SamplerInv'
<1>1. ui \in Conn /\ UNCHANGED <<interval, ui, store, users, age, early>>
  BY DEF SetCollection, SamplerInv, TypeOK
<1>2. CASE collect
  <2>1. Spawn(ui)  BY <1>2 DEF SetCollection
  <2>2. PICK k \in Sampler :
          task' = [task EXCEPT ![k] = Ready(ui)]
    BY <2>1 DEF Spawn
  <2>3. \A d \in Conn : Alive(d)' => Alive(d)
    BY <1>1, <2>2 DEF Alive, Holds, Ready, SamplerInv, TypeOK
  <2>4. Links'  BY <1>1, <2>1, <2>3, SpawnLinks
  <2>. QED  BY <1>1, <2>1, <2>4, SpawnTypes DEF SamplerInv, TypeOK
<1>3. CASE ~collect
  <2>1. Abort(ui)  BY <1>3 DEF SetCollection
  <2>2. task' = task  BY <2>1 DEF Abort
  <2>. QED  BY <1>1, <2>1, <2>2, AbortLinks DEF SamplerInv, TypeOK
<1>. QED  BY <1>2, <1>3

\* Drop of a DbConnection aborts its sampler.
LEMMA DropConnectionInv ==
  ASSUME SamplerInv, NEW c \in Conn, DropConnection(c)
  PROVE  SamplerInv'
<1>1. Abort(c) /\ UNCHANGED <<interval, ui, store, users, age, early>>
  BY DEF DropConnection
<1>2. task' = task  BY <1>1 DEF Abort
<1>. QED  BY <1>1, <1>2, AbortLinks DEF SamplerInv, TypeOK

\* The commands that hold a connection.
LEMMA CommandInv ==
  ASSUME SamplerInv, CommandStart \/ \E c \in Conn : CommandEnd(c)
  PROVE  SamplerInv'
<1>1. UNCHANGED <<interval, ui, store, handle, task, aborted, age, early>>
  BY DEF CommandStart, CommandEnd
<1>2. users' \in [Conn -> Nat] /\ \A c \in Conn : Alive(c)' => Alive(c)
  <2>1. CASE CommandStart
    <3>1. ui \in Conn /\ users' = [users EXCEPT ![ui] = @ + 1]
      BY <2>1 DEF CommandStart, SamplerInv, TypeOK
    <3>. QED  BY <1>1, <3>1 DEF SamplerInv, TypeOK, Alive, Holds
  <2>2. ASSUME NEW c \in Conn, CommandEnd(c)
        PROVE  users' \in [Conn -> Nat] /\ \A d \in Conn : Alive(d)' => Alive(d)
    <3>1. users[c] > 0 /\ users' = [users EXCEPT ![c] = @ - 1]
      BY <2>2 DEF CommandEnd
    <3>. QED  BY <1>1, <3>1 DEF SamplerInv, TypeOK, Alive, Holds
  <2>. QED  BY <2>1, <2>2
<1>3. Links'  BY <1>1, <1>2, Bystands
<1>. QED  BY <1>1, <1>2, <1>3 DEF SamplerInv, TypeOK

\* The schedule set in the settings.
LEMMA SetScheduleInv ==
  ASSUME SamplerInv, NEW i \in Intervals, SetSchedule(i)
  PROVE  SamplerInv'
<1>1. UNCHANGED <<ui, store, users, handle, task, aborted, age, early>> /\ interval' = i
  BY DEF SetSchedule
<1>2. \A c \in Conn : Alive(c)' => Alive(c)  BY <1>1 DEF Alive, Holds
<1>3. Links'  BY <1>1, <1>2, Bystands
<1>. QED  BY <1>1, <1>3 DEF SamplerInv, TypeOK

----------------------------------------------------------------------------
(***************************************************************************)
(* Every step of a sampler keeps it.                                       *)
(***************************************************************************)
\* Adding a sample resets the age of one file.
LEMMA AddTypes ==
  ASSUME SamplerInv, NEW k \in Sampler, Add(k)
  PROVE  age' \in [Store -> 0..Oldest] /\ early' \in BOOLEAN
<1>1. age' \in [Store -> 0..Oldest]
  <2>1. 0 \in 0..Oldest /\ age \in [Store -> 0..Oldest]
    BY Bounds DEF SamplerInv, TypeOK
  <2>2. age' = [age EXCEPT ![store[task[k].conn]] = 0]  BY DEF Add
  <2>. QED  BY <2>1, <2>2
<1>2. early' \in BOOLEAN  BY Zenon DEF Add
<1>. QED  BY <1>1, <1>2

\* What every step that keeps its sampler running has in common.
LEMMA StepInv ==
  ASSUME SamplerInv, NEW k \in Sampler, NEW r \in SamplerState,
         r.conn = task[k].conn, r.pc # "done", task[k].pc # "done",
         r.pc \in Holding => Alive(r.conn),
         task' = [task EXCEPT ![k] = r],
         UNCHANGED <<handle, aborted, ui, users, interval, store>>,
         age' \in [Store -> 0..Oldest] /\ early' \in BOOLEAN
  PROVE  SamplerInv'
<1>1. Links'  BY RunsOn
<1>2. task' \in [Sampler -> SamplerState]  BY DEF SamplerInv, TypeOK
<1>. QED  BY <1>1, <1>2 DEF SamplerInv, TypeOK

\* A task that works has its connection held.
LEMMA WorkingHolds ==
  ASSUME SamplerInv, NEW k \in Sampler, task[k].pc \in Holding
  PROVE  task[k].conn \in Conn /\ Alive(task[k].conn)
BY DEF SamplerInv, Links, Owned, Alive, Holds, Holding

\* A sampler takes hold of its connection.
LEMMA UpgradeInv ==
  ASSUME SamplerInv, NEW k \in Sampler, Upgrade(k)
  PROVE  SamplerInv'
<1>. DEFINE r == [task[k] EXCEPT !.pc = "asking", !.gap = interval]
<1>1. task[k] \in SamplerState /\ interval \in 0..Oldest
  BY Bounds DEF SamplerInv, TypeOK
<1>2. r \in SamplerState /\ r.conn = task[k].conn /\ r.pc = "asking"
  BY <1>1 DEF SamplerState
<1>3. task[k].pc = "ready" /\ Alive(task[k].conn)  BY DEF Upgrade, At
<1>4. task' = [task EXCEPT ![k] = r]  BY DEF Upgrade, SamplerInv, TypeOK
<1>5. UNCHANGED <<handle, aborted, ui, users, interval, store, age, early>>  BY DEF Upgrade
<1>6. age' \in [Store -> 0..Oldest] /\ early' \in BOOLEAN
  BY <1>5 DEF SamplerInv, TypeOK
<1>. HIDE DEF r
<1>. QED  BY <1>2, <1>3, <1>4, <1>5, <1>6, StepInv

\* A sampler whose connection is gone leaves its loop.
LEMMA BreakInv ==
  ASSUME SamplerInv, NEW k \in Sampler, Break(k)
  PROVE  SamplerInv'
<1>1. /\ task[k].pc = "ready" /\ k \notin aborted /\ ~Alive(task[k].conn)
      /\ task' = [task EXCEPT ![k] = Done]
      /\ UNCHANGED <<interval, ui, store, users, handle, aborted, age, early>>
  BY DEF Break, At
<1>2. Done \in SamplerState /\ Done.pc = "done"  BY Bounds DEF Done, SamplerState
<1>3. task'[k] = Done /\ \A q \in Sampler \ {k} : task'[q] = task[q]
  BY <1>1 DEF SamplerInv, TypeOK
<1>4. \A c \in Conn : Alive(c)' <=> Alive(c)
  <2>1. \A q \in Sampler, c \in Conn : Holds(q, c)' <=> Holds(q, c)
    BY <1>1, <1>2, <1>3 DEF Holds
  <2>. QED  BY <1>1, <2>1 DEF Alive
<1>5. Owned' /\ AbortedUnknown' /\ KnownIsOwn' /\ OneSampler'
  BY <1>1, <1>2, <1>3
  DEF SamplerInv, TypeOK, Links, Owned, AbortedUnknown, KnownIsOwn, OneSampler
<1>6. EndedIsGone'
  BY <1>1, <1>3, <1>4 DEF SamplerInv, Links, EndedIsGone, KnownIsOwn
<1>7. TypeOK'  BY <1>1, <1>2 DEF SamplerInv, TypeOK
<1>. QED  BY <1>5, <1>6, <1>7 DEF SamplerInv, Links

\* A sampler that goes to sleep lets its connection go.
LEMMA SleepInv ==
  ASSUME SamplerInv, NEW k \in Sampler, NEW minutes \in 0..Longest,
         task[k].pc \in Holding, Sleep(k, minutes),
         UNCHANGED <<handle, aborted, ui, users, interval, store>>,
         age' \in [Store -> 0..Oldest] /\ early' \in BOOLEAN
  PROVE  SamplerInv'
<1>. DEFINE r == [task[k] EXCEPT !.pc = "sleeping", !.left = minutes]
<1>1. task[k] \in SamplerState  BY DEF SamplerInv, TypeOK
<1>2. r \in SamplerState /\ r.conn = task[k].conn /\ r.pc = "sleeping"
  BY <1>1 DEF SamplerState
<1>3. task' = [task EXCEPT ![k] = r]  BY DEF Sleep, SamplerInv, TypeOK
<1>4. task[k].pc # "done" /\ r.pc \notin Holding  BY <1>2 DEF Holding
<1>. HIDE DEF r
<1>. QED  BY <1>2, <1>3, <1>4, StepInv

\* The time of the latest sample is known.
LEMMA LastKnownInv ==
  ASSUME SamplerInv, NEW k \in Sampler, LastKnown(k)
  PROVE  SamplerInv'
<1>. DEFINE old == age[store[task[k].conn]]
            r   == [task[k] EXCEPT !.pc = "reading"]
<1>1. task[k].pc = "asking" /\ task[k].pc \in Holding
  BY DEF LastKnown, At, Holding
<1>2. task[k].conn \in Conn /\ Alive(task[k].conn)  BY <1>1, WorkingHolds
<1>3. old \in 0..Oldest /\ task[k] \in SamplerState
  BY <1>2 DEF SamplerInv, TypeOK
<1>4. UNCHANGED <<handle, aborted, ui, users, interval, store, age, early>>
  BY DEF LastKnown
<1>5. age' \in [Store -> 0..Oldest] /\ early' \in BOOLEAN
  BY <1>4 DEF SamplerInv, TypeOK
<1>6. CASE old >= task[k].gap
  <2>1. task' = [task EXCEPT ![k] = r]
    BY <1>6 DEF LastKnown, SamplerInv, TypeOK
  <2>2. r \in SamplerState /\ r.conn = task[k].conn /\ r.pc = "reading"
    BY <1>3 DEF SamplerState
  <2>. HIDE DEF r
  <2>. QED  BY <1>1, <1>2, <1>4, <1>5, <2>1, <2>2, StepInv
<1>7. CASE ~(old >= task[k].gap)
  <2>1. Sleep(k, task[k].gap - old)  BY <1>7 DEF LastKnown
  <2>2. task[k].gap \in 0..Oldest  BY <1>3 DEF SamplerState
  <2>3. task[k].gap - old \in 0..Longest  BY <1>3, <1>7, <2>2, Bounds
  <2>. QED  BY <1>1, <1>4, <1>5, <2>1, <2>3, SleepInv
<1>. QED  BY <1>6, <1>7

\* The statistics are read.
LEMMA StatsReadInv ==
  ASSUME SamplerInv, NEW k \in Sampler, StatsRead(k)
  PROVE  SamplerInv'
<1>. DEFINE r == [task[k] EXCEPT !.pc = "recording"]
<1>1. task[k].pc = "reading" /\ task[k].pc \in Holding
  BY DEF StatsRead, At, Holding
<1>2. task[k] \in SamplerState /\ Alive(task[k].conn)
  BY <1>1, WorkingHolds DEF SamplerInv, TypeOK
<1>3. r \in SamplerState /\ r.conn = task[k].conn /\ r.pc = "recording"
  BY <1>2 DEF SamplerState
<1>4. task' = [task EXCEPT ![k] = r]  BY DEF StatsRead, SamplerInv, TypeOK
<1>5. UNCHANGED <<handle, aborted, ui, users, interval, store, age, early>>
  BY DEF StatsRead
<1>6. age' \in [Store -> 0..Oldest] /\ early' \in BOOLEAN
  BY <1>5 DEF SamplerInv, TypeOK
<1>. HIDE DEF r
<1>. QED  BY <1>1, <1>2, <1>3, <1>4, <1>5, <1>6, StepInv

\* The sample is committed.
LEMMA RecordedInv ==
  ASSUME SamplerInv, NEW k \in Sampler, Recorded(k)
  PROVE  SamplerInv'
<1>1. task[k].pc \in Holding  BY DEF Recorded, At, Holding
<1>2. task[k].gap \in 0..Longest
  BY Bounds DEF SamplerInv, TypeOK, SamplerState
<1>3. Sleep(k, task[k].gap) /\ UNCHANGED <<handle, aborted, ui, users, interval, store>>
  BY DEF Recorded
<1>4. age' \in [Store -> 0..Oldest] /\ early' \in BOOLEAN
  BY AddTypes DEF Recorded
<1>. QED  BY <1>1, <1>2, <1>3, <1>4, SleepInv

\* A query of the sampler fails.
LEMMA FailsInv ==
  ASSUME SamplerInv, NEW k \in Sampler, Fails(k)
  PROVE  SamplerInv'
<1>1. task[k].pc \in Holding /\ Sleep(k, Retry)
      /\ UNCHANGED <<handle, aborted, ui, users, interval, store, age, early>>
  BY DEF Fails, Holding
<1>2. Retry \in 0..Longest  BY Bounds, IntervalAssumption
<1>3. age' \in [Store -> 0..Oldest] /\ early' \in BOOLEAN
  BY <1>1 DEF SamplerInv, TypeOK
<1>. QED  BY <1>1, <1>2, <1>3, SleepInv

\* The time to sleep is over.
LEMMA WakeUpInv ==
  ASSUME SamplerInv, NEW k \in Sampler, WakeUp(k)
  PROVE  SamplerInv'
<1>. DEFINE r == [task[k] EXCEPT !.pc = "ready"]
<1>1. task[k].pc = "sleeping" /\ task[k] \in SamplerState
  BY DEF WakeUp, At, SamplerInv, TypeOK
<1>2. r \in SamplerState /\ r.conn = task[k].conn /\ r.pc = "ready"
  BY <1>1 DEF SamplerState
<1>3. task' = [task EXCEPT ![k] = r]  BY DEF WakeUp, SamplerInv, TypeOK
<1>4. UNCHANGED <<handle, aborted, ui, users, interval, store, age, early>>
  BY DEF WakeUp
<1>5. age' \in [Store -> 0..Oldest] /\ early' \in BOOLEAN
  BY <1>4 DEF SamplerInv, TypeOK
<1>6. r.pc \notin Holding  BY <1>2 DEF Holding
<1>. HIDE DEF r
<1>. QED  BY <1>1, <1>2, <1>3, <1>4, <1>5, <1>6, StepInv

\* A task that is cancelled is nobody's sampler.
LEMMA CancelInv ==
  ASSUME SamplerInv, NEW k \in Sampler, Cancel(k)
  PROVE  SamplerInv'
<1>1. /\ k \in aborted /\ aborted' = aborted \ {k}
      /\ task' = [task EXCEPT ![k] = Done]
      /\ UNCHANGED <<interval, ui, store, users, handle>>
  BY DEF Cancel
<1>2. Done \in SamplerState /\ Done.pc = "done"  BY Bounds DEF Done, SamplerState
<1>3. task'[k] = Done /\ \A q \in Sampler \ {k} : task'[q] = task[q]
  BY <1>1 DEF SamplerInv, TypeOK
<1>4. \A c \in Conn : handle[c] # k
  BY <1>1 DEF SamplerInv, Links, AbortedUnknown
<1>5. \A c \in Conn : Alive(c)' => Alive(c)
  <2>1. \A q \in Sampler, c \in Conn : Holds(q, c)' => Holds(q, c)
    BY <1>2, <1>3 DEF Holds
  <2>. QED  BY <1>1, <2>1 DEF Alive
<1>6. Owned' /\ AbortedUnknown' /\ KnownIsOwn' /\ OneSampler'
  BY <1>1, <1>2, <1>3, <1>4
  DEF SamplerInv, TypeOK, Links, Owned, AbortedUnknown, KnownIsOwn, OneSampler
<1>7. EndedIsGone'
  BY <1>1, <1>3, <1>4, <1>5 DEF SamplerInv, Links, EndedIsGone
<1>8. age' \in [Store -> 0..Oldest] /\ early' \in BOOLEAN
  BY AddTypes DEF Cancel, SamplerInv, TypeOK
<1>9. TypeOK'  BY <1>1, <1>2, <1>8 DEF SamplerInv, TypeOK
<1>. QED  BY <1>6, <1>7, <1>9 DEF SamplerInv, Links

\* A minute passes.
LEMMA TickInv ==
  ASSUME SamplerInv, Tick
  PROVE  SamplerInv'
<1>. DEFINE rest(n) == IF n > 0 THEN n - 1 ELSE 0
<1>1. UNCHANGED <<interval, ui, store, users, handle, aborted, early>>  BY DEF Tick
<1>2. age' \in [Store -> 0..Oldest]
  <2>1. \A s \in Store : age[s] \in 0..Oldest  BY DEF SamplerInv, TypeOK
  <2>2. \A s \in Store :
          (IF age[s] < Oldest THEN age[s] + 1 ELSE Oldest) \in 0..Oldest
    BY <2>1, Bounds
  <2>. QED  BY <2>2 DEF Tick
<1>3. \A k \in Sampler : rest(task[k].left) \in 0..Longest
  BY Bounds DEF SamplerInv, TypeOK, SamplerState
<1>4. task' = [k \in Sampler |-> [task[k] EXCEPT !.left = rest(task[k].left)]]
  BY DEF Tick
<1>. HIDE DEF rest
<1>5. task' \in [Sampler -> SamplerState]
  <2>1. \A k \in Sampler : task[k] \in SamplerState  BY DEF SamplerInv, TypeOK
  <2>2. \A k \in Sampler :
          [task[k] EXCEPT !.left = rest(task[k].left)] \in SamplerState
    BY <1>3, <2>1 DEF SamplerState
  <2>. QED  BY <1>4, <2>2
<1>6. \A k \in Sampler : task'[k].pc = task[k].pc /\ task'[k].conn = task[k].conn
  <2>1. \A k \in Sampler : task[k] \in SamplerState  BY DEF SamplerInv, TypeOK
  <2>. QED  BY <1>4, <2>1 DEF SamplerState
<1>7. \A c \in Conn : Alive(c)' => Alive(c)
  BY <1>1, <1>6 DEF Alive, Holds
<1>8. Links'
  BY <1>1, <1>6, <1>7
  DEF SamplerInv, TypeOK, Links, Owned, AbortedUnknown, KnownIsOwn, EndedIsGone, OneSampler
<1>. QED  BY <1>1, <1>2, <1>5, <1>8 DEF SamplerInv, TypeOK

----------------------------------------------------------------------------
\* The invariant is inductive.
LEMMA NextInv == SamplerInv /\ [Next]_vars => SamplerInv'
<1>. SUFFICES ASSUME SamplerInv, [Next]_vars PROVE SamplerInv'  OBVIOUS
<1>1. ASSUME NEW c \in Conn, NEW collect \in BOOLEAN, Connected(c, collect)
      PROVE  SamplerInv'
  BY <1>1, ConnectedInv
<1>2. ASSUME NEW collect \in BOOLEAN, SetCollection(collect) PROVE SamplerInv'
  BY <1>2, SetCollectionInv
<1>3. ASSUME NEW i \in Intervals, SetSchedule(i) PROVE SamplerInv'
  BY <1>3, SetScheduleInv
<1>4. CASE CommandStart  BY <1>4, CommandInv
<1>5. ASSUME NEW c \in Conn, CommandEnd(c) \/ DropConnection(c) PROVE SamplerInv'
  BY <1>5, CommandInv, DropConnectionInv
<1>6. ASSUME NEW k \in Sampler, Cycle(k) PROVE SamplerInv'
  BY <1>6, UpgradeInv, BreakInv, LastKnownInv, StatsReadInv, RecordedInv, FailsInv,
     WakeUpInv, CancelInv DEF Cycle
<1>7. CASE Tick  BY <1>7, TickInv
<1>8. CASE UNCHANGED vars
  <2>1. \A c \in Conn : Alive(c)' => Alive(c)  BY <1>8 DEF vars, Alive, Holds
  <2>2. Links'  BY <1>8, <2>1, Bystands DEF vars
  <2>. QED  BY <1>8, <2>2 DEF vars, SamplerInv, TypeOK
<1>. QED  BY <1>1, <1>2, <1>3, <1>4, <1>5, <1>6, <1>7, <1>8 DEF Next, User

\* The inductive invariant of the samplers and their connections.
LEMMA InvCorrect == Spec => []SamplerInv
BY InitInv, NextInv, PTL DEF Spec

\* Every variable of the sampler has its type, whatever the intervals, so that
\* no sampler sleeps longer than its interval or the retry delay
\* (collect_index_stats_if_due, db.rs).
THEOREM TypeCorrect == Spec => []TypeOK
BY InvCorrect, PTL DEF SamplerInv

\* However many connections and samplers there are, one that runs and has not
\* been aborted is the one its connection knows
\* (spawn_index_stats_collector, set_index_stats_collection, db.rs).
THEOREM OneSamplerCorrect == Spec => []OneSampler
BY InvCorrect, PTL DEF SamplerInv, Links

\* The sampler that a connection in use reports as running does run, after any
\* number of failures, replacements and reconnections
\* (index_stats_collection_enabled, Drop, db.rs).
THEOREM SamplerRunsCorrect == Spec => []SamplerRuns
<1>1. SamplerInv => SamplerRuns  BY LinksSuffice
<1>. QED  BY <1>1, InvCorrect, PTL

(***************************************************************************)
(* Why a sample may come too early.                                        *)
(***************************************************************************)
\* On its way from finding a sample due to adding it.
Writing == {"reading", "recording"}

\* No two samplers are on that way with the same file.
OneWriter ==
  \A j, k \in Sampler :
    /\ task[j].pc \in Writing /\ task[k].pc \in Writing
    /\ store[task[j].conn] = store[task[k].conn]
    => j = k

\* What was found due still is.
StillDue ==
  \A k \in Sampler :
    task[k].pc \in Writing => task[k].gap =< age[store[task[k].conn]]

\* Of the steps only an added sample makes an age smaller, and it finds a sampler
\* on its way with the same file only if there are two of them.
LEMMA DueStep ==
  ASSUME SamplerInv, OneWriter, StillDue, SamplesSpaced, [Next]_vars
  PROVE  (StillDue /\ SamplesSpaced)'
<1> USE DEF SamplerInv
<1>1. \A k \in Sampler : task[k] \in SamplerState /\ (task[k].pc # "done" => task[k].conn \in Conn)
  BY DEF TypeOK, Links, Owned
<1>2. ASSUME NEW c \in Conn, Spawn(c)
      PROVE  \A k \in Sampler : task'[k].pc \in Writing => task'[k] = task[k]
  BY <1>2 DEF Spawn, Ready, Writing, TypeOK
<1>3. ASSUME NEW c \in Conn, NEW collect \in BOOLEAN, Connected(c, collect)
      PROVE  (StillDue /\ SamplesSpaced)'
  <2>1. \A k \in Sampler : task'[k].pc \in Writing => task'[k] = task[k]
    BY <1>2, <1>3 DEF Connected
  <2>2. \A d \in Conn \ {c} : store'[d] = store[d]
    BY <1>3 DEF Connected, TypeOK
  <2>3. \A k \in Sampler : task[k].conn # c
    BY <1>3 DEF Connected
  <2> QED
    BY <1>1, <1>3, <2>1, <2>2, <2>3 DEF Connected, StillDue, SamplesSpaced, Writing
<1>4. ASSUME NEW collect \in BOOLEAN, SetCollection(collect)
      PROVE  (StillDue /\ SamplesSpaced)'
  <2>1. ui \in Conn
    BY <1>4 DEF SetCollection, TypeOK
  <2>2. \A k \in Sampler : task'[k].pc \in Writing => task'[k] = task[k]
    BY <1>2, <1>4, <2>1 DEF SetCollection, Abort
  <2> QED
    BY <1>4, <2>2 DEF SetCollection, StillDue, SamplesSpaced
<1>5. ASSUME UNCHANGED <<store, task, age, early>>
      PROVE  (StillDue /\ SamplesSpaced)'
  BY <1>5 DEF StillDue, SamplesSpaced
<1>6. ASSUME NEW k \in Sampler, NEW r \in SamplerState,
             task' = [task EXCEPT ![k] = r], UNCHANGED <<store, age, early>>,
             r.pc \in Writing => /\ r.conn = task[k].conn
                                 /\ r.gap =< age[store[task[k].conn]]
      PROVE  (StillDue /\ SamplesSpaced)'
  BY <1>6 DEF StillDue, SamplesSpaced, TypeOK
<1>7. ASSUME NEW k \in Sampler, NEW r \in SamplerState, task[k].pc = "recording", Add(k),
             task' = [task EXCEPT ![k] = r], UNCHANGED store, r.pc \notin Writing
      PROVE  (StillDue /\ SamplesSpaced)'
  <2> DEFINE s == store[task[k].conn]
  <2>1. s \in Store /\ task[k].gap =< age[s] /\ age[s] \in Nat /\ task[k].gap \in Nat
    BY <1>1, <1>7, Bounds DEF TypeOK, SamplerState, StillDue, Writing
  <2>2. SamplesSpaced'
    <3>1. ~(age[s] < task[k].gap)
      BY <2>1
    <3>2. early' = (early \/ age[s] < task[k].gap)
      BY <1>7 DEF Add
    <3> HIDE DEF s
    <3> QED
      BY <3>1, <3>2, Zenon DEF SamplesSpaced
  <2>3. ASSUME NEW q \in Sampler, task'[q].pc \in Writing
        PROVE  task'[q].gap =< age'[store'[task'[q].conn]]
    <3>1. q # k /\ task'[q] = task[q]
      BY <1>7, <2>3 DEF TypeOK
    <3>2. store[task[q].conn] # s
      BY <1>7, <2>3, <3>1 DEF OneWriter, Writing
    <3>3. store[task[q].conn] \in Store
      BY <1>1, <2>3, <3>1 DEF TypeOK, Writing
    <3>4. age'[store[task[q].conn]] = age[store[task[q].conn]]
      BY <1>7, <3>2, <3>3 DEF Add, TypeOK
    <3> QED
      BY <1>7, <2>3, <3>1, <3>4 DEF StillDue
  <2> QED
    BY <2>2, <2>3 DEF StillDue
<1>8. ASSUME NEW k \in Sampler, Cycle(k)
      PROVE  (StillDue /\ SamplesSpaced)'
  <2>1. Done \in SamplerState /\ Done.pc \notin Writing
    BY Bounds DEF Done, SamplerState, Writing
  <2>2. ASSUME NEW minutes \in 0..Longest
        PROVE  /\ [task[k] EXCEPT !.pc = "sleeping", !.left = minutes] \in SamplerState
               /\ [task[k] EXCEPT !.pc = "sleeping", !.left = minutes].pc \notin Writing
               /\ Sleep(k, minutes) =>
                    task' = [task EXCEPT ![k] = [task[k] EXCEPT !.pc = "sleeping",
                                                               !.left = minutes]]
    BY <1>1, <2>2 DEF SamplerState, Writing, Sleep, TypeOK
  <2>3. CASE Upgrade(k)
    <3> DEFINE r == [task[k] EXCEPT !.pc = "asking", !.gap = interval]
    <3>1. r \in SamplerState /\ r.pc \notin Writing
      BY <1>1, Bounds DEF SamplerState, Writing, TypeOK
    <3>2. task' = [task EXCEPT ![k] = r]
      BY <2>3 DEF Upgrade, TypeOK
    <3> QED
      BY <1>6, <2>3, <3>1, <3>2 DEF Upgrade
  <2>4. CASE Break(k)
    BY <1>6, <2>1, <2>4 DEF Break
  <2>5. CASE LastKnown(k)
    <3> DEFINE old == age[store[task[k].conn]]
    <3>1. old \in 0..Oldest /\ task[k].gap \in 0..Oldest
      BY <1>1, <2>5 DEF LastKnown, At, TypeOK, SamplerState
    <3>2. CASE old >= task[k].gap
      <4> DEFINE r == [task[k] EXCEPT !.pc = "reading"]
      <4>1. r \in SamplerState /\ r.conn = task[k].conn /\ r.gap = task[k].gap
        BY <1>1 DEF SamplerState
      <4>2. task' = [task EXCEPT ![k] = r]
        BY <2>5, <3>2 DEF LastKnown, TypeOK
      <4>3. r.gap =< old
        BY <3>1, <3>2, <4>1, Bounds
      <4> HIDE DEF r
      <4> QED
        BY <1>6, <2>5, <4>1, <4>2, <4>3 DEF LastKnown
    <3>3. CASE ~(old >= task[k].gap)
      <4>1. task[k].gap - old \in 0..Longest
        BY <3>1, <3>3, Bounds
      <4>2. Sleep(k, task[k].gap - old)
        BY <2>5, <3>3 DEF LastKnown
      <4> QED
        BY <1>6, <2>2, <2>5, <4>1, <4>2 DEF LastKnown
    <3> QED
      BY <3>2, <3>3
  <2>6. CASE StatsRead(k)
    <3> DEFINE r == [task[k] EXCEPT !.pc = "recording"]
    <3>1. r \in SamplerState /\ r.conn = task[k].conn /\ r.gap = task[k].gap
      BY <1>1 DEF SamplerState
    <3>2. task' = [task EXCEPT ![k] = r]
      BY <2>6 DEF StatsRead, TypeOK
    <3>3. r.gap =< age[store[task[k].conn]]
      BY <2>6, <3>1 DEF StatsRead, At, StillDue, Writing
    <3> HIDE DEF r
    <3> QED
      BY <1>6, <2>6, <3>1, <3>2, <3>3 DEF StatsRead
  <2>7. CASE Recorded(k)
    <3>1. task[k].gap \in 0..Longest
      BY <1>1, Bounds DEF SamplerState
    <3> QED
      BY <1>7, <2>2, <2>7, <3>1 DEF Recorded, At
  <2>8. CASE Fails(k)
    <3>1. Retry \in 0..Longest
      BY Bounds, IntervalAssumption
    <3> QED
      BY <1>6, <2>2, <2>8, <3>1 DEF Fails
  <2>9. CASE WakeUp(k)
    <3> DEFINE r == [task[k] EXCEPT !.pc = "ready"]
    <3>1. r \in SamplerState /\ r.pc \notin Writing
      BY <1>1 DEF SamplerState, Writing
    <3>2. task' = [task EXCEPT ![k] = r]
      BY <2>9 DEF WakeUp, TypeOK
    <3> QED
      BY <1>6, <2>9, <3>1, <3>2 DEF WakeUp
  <2>10. CASE Cancel(k)
    <3>1. CASE UNCHANGED <<age, early>>
      BY <1>6, <2>1, <2>10, <3>1 DEF Cancel
    <3>2. CASE task[k].pc = "recording" /\ Add(k)
      BY <1>7, <2>1, <2>10, <3>2 DEF Cancel
    <3> QED
      BY <2>10, <3>1, <3>2 DEF Cancel
  <2> QED
    BY <1>8, <2>3, <2>4, <2>5, <2>6, <2>7, <2>8, <2>9, <2>10 DEF Cycle
<1>9. ASSUME Tick PROVE (StillDue /\ SamplesSpaced)'
  <2>1. \A k \in Sampler : /\ task'[k].pc = task[k].pc /\ task'[k].conn = task[k].conn
                           /\ task'[k].gap = task[k].gap
    BY <1>1, <1>9 DEF Tick, SamplerState
  <2>2. \A s \in Store : age'[s] >= age[s] /\ age[s] \in Nat /\ age'[s] \in Nat
    BY <1>9, Bounds DEF Tick, TypeOK
  <2>3. ASSUME NEW k \in Sampler, task'[k].pc \in Writing
        PROVE  task'[k].gap =< age'[store'[task'[k].conn]]
    <3>1. store[task[k].conn] \in Store /\ task[k].gap \in Nat
      BY <1>1, <2>1, <2>3, Bounds DEF TypeOK, Writing, SamplerState
    <3>2. task[k].gap =< age[store[task[k].conn]]
      BY <2>1, <2>3 DEF StillDue
    <3> QED
      BY <1>9, <2>1, <2>2, <3>1, <3>2 DEF Tick
  <2> QED
    BY <1>9, <2>3 DEF Tick, StillDue, SamplesSpaced
<1>10. ASSUME NEW c \in Conn, DropConnection(c)
       PROVE  (StillDue /\ SamplesSpaced)'
  BY <1>5, <1>10 DEF DropConnection, Abort
<1> QED
  BY <1>3, <1>4, <1>5, <1>8, <1>9, <1>10
     DEF Next, User, CommandStart, CommandEnd, SetSchedule, vars

\* Samples come too close only if two samplers are on their way with one file: as
\* long as no two ever are, each sample is an interval apart from the one before
\* (collect_index_stats_if_due, db.rs).
THEOREM SpacedAlone == Spec /\ []OneWriter => []SamplesSpaced
<1>1. Init => StillDue /\ SamplesSpaced
  BY DEF Init, Done, StillDue, SamplesSpaced, Writing
<1>2. SamplerInv /\ OneWriter /\ StillDue /\ SamplesSpaced /\ [Next]_vars
        => (StillDue /\ SamplesSpaced)'
  BY DueStep
<1> QED
  BY <1>1, <1>2, InvCorrect, PTL DEF Spec

=============================================================================
