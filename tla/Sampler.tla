------------------------------ MODULE Sampler -------------------------------
(***************************************************************************)
(* The index statistics sampler of pgbutler (db.rs, db/store.rs).          *)
(*                                                                         *)
(* A DbConnection is shared through Arcs: the chat screen holds one, every *)
(* command that runs on it holds one, and its sampler, a tokio task with a *)
(* Weak reference, holds one only while it looks whether a sample is due   *)
(* and takes it.  When the last Arc goes, Drop aborts the sampler.  /connect *)
(* replaces the connection of the chat screen; a connection to the same    *)
(* server writes its samples to the same .sqlite file.                     *)
(*                                                                         *)
(* Time is kept as ages: `left' of a sleeping sampler and `age' of the     *)
(* latest sample of a file.  A sample gets its time stamp when it is       *)
(* committed.  Left out: what is sampled, the end of the process, and a    *)
(* clock that goes backwards.                                              *)
(***************************************************************************)
EXTENDS Naturals

CONSTANTS
  Conn,      \* database connections; their number bounds how many live at a time
  Sampler,   \* sampler tasks, bounded in the same way
  Store,     \* the .sqlite files
  Intervals, \* the sampling intervals the user may set, in minutes
  Retry,     \* the delay after a failure
  MaxUsers,  \* bound: commands running on one connection
  None       \* no connection, no task

ASSUME IntervalAssumption == Intervals \subseteq Nat \ {0} /\ Retry \in Nat \ {0}
ASSUME IntervalsBounded == \E i \in Intervals : \A j \in Intervals : j =< i
ASSUME BoundAssumption == MaxUsers \in Nat
ASSUME NoneAssumption == None \notin Conn \cup Sampler

VARIABLES
  interval,  \* index_stats_interval
  ui,        \* the connection of the chat screen
  store,     \* store[c]: the file of connection c
  users,     \* users[c]: the commands that hold an Arc of c
  handle,    \* handle[c]: DbConnection.index_stats_task
  task,      \* the samplers
  aborted,   \* the samplers whose abort has been requested
  age,       \* age[s]: minutes since the latest sample in file s
  early      \* history: a sample was added before the latest one was old enough

vars == <<interval, ui, store, users, handle, task, aborted, age, early>>

\* No age larger than every interval is told apart from it.
Oldest == CHOOSE i \in Intervals : \A j \in Intervals : j =< i
Longest == IF Retry > Oldest THEN Retry ELSE Oldest

SamplerState ==
  [pc : {"done", "ready", "asking", "reading", "recording", "sleeping"},
   conn : Conn \cup {None}, gap : 0..Oldest, left : 0..Longest]

Done == [pc |-> "done", conn |-> None, gap |-> 0, left |-> 0]
Ready(c) == [pc |-> "ready", conn |-> c, gap |-> 0, left |-> 0]

\* The sampler of c holds an Arc between upgrade and drop(conn).
Holds(k, c) == task[k].conn = c /\ task[k].pc \in {"asking", "reading", "recording"}

Alive(c) == c = ui \/ users[c] > 0 \/ \E k \in Sampler : Holds(k, c)

----------------------------------------------------------------------------
(***************************************************************************)
(* The event loop.                                                         *)
(***************************************************************************)
Init ==
  /\ interval \in Intervals
  /\ ui = None
  /\ store \in [Conn -> Store]
  /\ users = [c \in Conn |-> 0]
  /\ handle = [c \in Conn |-> None]
  /\ task = [k \in Sampler |-> Done] /\ aborted = {}
  /\ age = [s \in Store |-> Oldest]    \* no sample counts as an old one
  /\ early = FALSE

\* JoinHandle::abort does nothing to a task that has ended.
Aborting(c) == {k \in {handle[c]} \cap Sampler : task[k].pc # "done"}

\* A new task takes a slot that nothing refers to.
Free(k) == task[k].pc = "done" /\ \A c \in Conn : handle[c] # k

\* Mutant: the sampler that is replaced goes on.
SpawnWithoutAbort(c) ==
  \E k \in Sampler :
    /\ Free(k)
    /\ task' = [task EXCEPT ![k] = Ready(c)]
    /\ handle' = [handle EXCEPT ![c] = k]
    /\ UNCHANGED aborted

\* spawn_index_stats_collector: the new task takes the place of the old one.
Spawn(c) ==
  \E k \in Sampler :
    /\ Free(k)
    /\ task' = [task EXCEPT ![k] = Ready(c)]
    /\ handle' = [handle EXCEPT ![c] = k]
    /\ aborted' = aborted \cup Aborting(c)

\* Mutant: the handle is dropped, which detaches the task instead.
AbortDetaching(c) ==
  /\ handle' = [handle EXCEPT ![c] = None]
  /\ UNCHANGED <<task, aborted>>

Abort(c) ==
  /\ handle' = [handle EXCEPT ![c] = None]
  /\ aborted' = aborted \cup Aborting(c)
  /\ UNCHANGED task

\* The first connection, or the answer of /connect: the chat screen takes a new
\* connection and starts its sampler if the profile asks for it.
Connected(c, collect) ==
  /\ ~Alive(c) /\ handle[c] = None /\ \A k \in Sampler : task[k].conn # c
  /\ ui' = c
  /\ \E s \in Store : store' = [store EXCEPT ![c] = s]
  /\ IF collect THEN Spawn(c) ELSE UNCHANGED <<task, handle, aborted>>
  /\ UNCHANGED <<interval, users, age, early>>

\* /collect-index-stats true, false.
SetCollection(collect) ==
  /\ ui # None
  /\ IF collect THEN Spawn(ui) ELSE Abort(ui)
  /\ UNCHANGED <<interval, ui, store, users, age, early>>

\* A command clones the Arc of the chat screen and drops it when it ends.
CommandStart ==
  /\ ui # None /\ users[ui] < MaxUsers
  /\ users' = [users EXCEPT ![ui] = @ + 1]
  /\ UNCHANGED <<interval, ui, store, handle, task, aborted, age, early>>

CommandEnd(c) ==
  /\ users[c] > 0
  /\ users' = [users EXCEPT ![c] = @ - 1]
  /\ UNCHANGED <<interval, ui, store, handle, task, aborted, age, early>>

\* set_index_stats_schedule: the samplers read the interval in their next cycle.
SetSchedule(i) ==
  /\ interval' = i
  /\ UNCHANGED <<ui, store, users, handle, task, aborted, age, early>>

\* The last Arc is gone.  Drop runs on the thread that let it go, and other
\* threads may run in between.
DropConnection(c) ==
  /\ ~Alive(c) /\ handle[c] # None
  /\ Abort(c)
  /\ UNCHANGED <<interval, ui, store, users, age, early>>

----------------------------------------------------------------------------
(***************************************************************************)
(* A sampler.  An abort takes effect where the task waits.                 *)
(***************************************************************************)
At(k, pc) == k \notin aborted /\ task[k].pc = pc

\* Mutant: the sampler keeps its Arc and asks again.
SleepHolding(k, minutes) == task' = [task EXCEPT ![k].pc = "asking", ![k].left = minutes]

Sleep(k, minutes) == task' = [task EXCEPT ![k].pc = "sleeping", ![k].left = minutes]

Upgrade(k) ==
  /\ At(k, "ready") /\ Alive(task[k].conn)
  /\ task' = [task EXCEPT ![k].pc = "asking", ![k].gap = interval]
  /\ UNCHANGED <<interval, ui, store, users, handle, aborted, age, early>>

\* The connection is gone and Drop has not aborted the task yet.
Break(k) ==
  /\ At(k, "ready") /\ ~Alive(task[k].conn)
  /\ task' = [task EXCEPT ![k] = Done]
  /\ UNCHANGED <<interval, ui, store, users, handle, aborted, age, early>>

\* Mutant: the age of the latest sample is added, not subtracted.
LastKnownSum(k) ==
  /\ At(k, "asking")
  /\ LET old == age[store[task[k].conn]] IN
     IF old >= task[k].gap THEN task' = [task EXCEPT ![k].pc = "reading"]
     ELSE Sleep(k, task[k].gap + old)
  /\ UNCHANGED <<interval, ui, store, users, handle, aborted, age, early>>

\* last_index_stats_at has answered.
LastKnown(k) ==
  /\ At(k, "asking")
  /\ LET old == age[store[task[k].conn]] IN
     IF old >= task[k].gap THEN task' = [task EXCEPT ![k].pc = "reading"]
     ELSE Sleep(k, task[k].gap - old)
  /\ UNCHANGED <<interval, ui, store, users, handle, aborted, age, early>>

\* pg_stat_all_indexes has been read.
StatsRead(k) ==
  /\ At(k, "reading")
  /\ task' = [task EXCEPT ![k].pc = "recording"]
  /\ UNCHANGED <<interval, ui, store, users, handle, aborted, age, early>>

Add(k) ==
  LET s == store[task[k].conn] IN
  /\ age' = [age EXCEPT ![s] = 0]
  /\ early' = (early \/ age[s] < task[k].gap)

Recorded(k) ==
  /\ At(k, "recording")
  /\ Add(k)
  /\ Sleep(k, task[k].gap)
  /\ UNCHANGED <<interval, ui, store, users, handle, aborted>>

\* Mutant: the first failure ends the sampler.
FailsForGood(k) ==
  /\ k \notin aborted /\ task[k].pc \in {"asking", "reading", "recording"}
  /\ task' = [task EXCEPT ![k] = Done]
  /\ UNCHANGED <<interval, ui, store, users, handle, aborted, age, early>>

\* Any of the three answers is an error.
Fails(k) ==
  /\ k \notin aborted /\ task[k].pc \in {"asking", "reading", "recording"}
  /\ Sleep(k, Retry)
  /\ UNCHANGED <<interval, ui, store, users, handle, aborted, age, early>>

WakeUp(k) ==
  /\ At(k, "sleeping") /\ task[k].left = 0
  /\ task' = [task EXCEPT ![k].pc = "ready"]
  /\ UNCHANGED <<interval, ui, store, users, handle, aborted, age, early>>

\* A sample that is being committed may still be added.
Cancel(k) ==
  /\ k \in aborted
  /\ \/ UNCHANGED <<age, early>>
     \/ task[k].pc = "recording" /\ Add(k)
  /\ task' = [task EXCEPT ![k] = Done]
  /\ aborted' = aborted \ {k}
  /\ UNCHANGED <<interval, ui, store, users, handle>>

\* A minute passes.
Tick ==
  /\ task' = [k \in Sampler |->
               [task[k] EXCEPT !.left = IF @ > 0 THEN @ - 1 ELSE 0]]
  /\ age' = [s \in Store |-> IF age[s] < Oldest THEN age[s] + 1 ELSE Oldest]
  /\ UNCHANGED <<interval, ui, store, users, handle, aborted, early>>

----------------------------------------------------------------------------
Cycle(k) ==
  \/ Upgrade(k) \/ Break(k) \/ LastKnown(k) \/ StatsRead(k) \/ Recorded(k)
  \/ Fails(k) \/ WakeUp(k) \/ Cancel(k)

User ==
  \/ \E c \in Conn, collect \in BOOLEAN : Connected(c, collect)
  \/ \E collect \in BOOLEAN : SetCollection(collect)
  \/ CommandStart
  \/ \E i \in Intervals : SetSchedule(i)

Next ==
  \/ User \/ Tick
  \/ \E c \in Conn : CommandEnd(c) \/ DropConnection(c)
  \/ \E k \in Sampler : Cycle(k)

Spec == Init /\ [][Next]_vars

\* The runtime polls every task and its timers; Drop runs to its end.  That
\* the queries of commands and samplers are answered, with a result or an
\* error, is an assumption on PostgreSQL and SQLite.
Fairness ==
  /\ WF_vars(Tick)
  /\ \A c \in Conn : WF_vars(CommandEnd(c)) /\ WF_vars(DropConnection(c))
  /\ \A k \in Sampler : WF_vars(Cycle(k))

FairSpec == Spec /\ Fairness

----------------------------------------------------------------------------
(***************************************************************************)
(* Properties.                                                             *)
(***************************************************************************)
\* Every variable has its type (DbConnection, db.rs).
TypeOK ==
  /\ interval \in Intervals
  /\ ui \in Conn \cup {None}
  /\ store \in [Conn -> Store] /\ users \in [Conn -> Nat]
  /\ handle \in [Conn -> Sampler \cup {None}]
  /\ task \in [Sampler -> SamplerState]
  /\ aborted \subseteq Sampler
  /\ age \in [Store -> 0..Oldest] /\ early \in BOOLEAN

\* A sampler that runs is the one its connection knows, so that switching it
\* off or closing the connection reaches it: "calling this again replaces it"
\* (spawn_index_stats_collector, db.rs).
OneSampler ==
  \A k \in Sampler :
    task[k].pc # "done" /\ k \notin aborted => handle[task[k].conn] = k

\* As long as a connection is in use and knows a sampler, that sampler runs:
\* "Whether the background index statistics sampler is running"
\* (index_stats_collection_enabled, db.rs), also after failures.
SamplerRuns ==
  \A c \in Conn :
    Alive(c) /\ handle[c] # None =>
      task[handle[c]].pc # "done" /\ task[handle[c]].conn = c /\ handle[c] \notin aborted

\* Expected to fail: the interval is the "Minimum age of the latest index
\* statistics sample before a new one is taken" (index_stats_interval,
\* config.rs).  A sampler on its way out and the one that replaces it may both
\* find that a sample is due.
SamplesSpaced == ~early

\* A connection that was replaced is closed once the commands that run on it
\* are done: its sampler does not keep it ("Don't keep the connection alive
\* while sleeping", db.rs).
ConnectionsClose == \A c \in Conn : (Alive(c) /\ c # ui) ~> ~Alive(c)

\* A sampler that no connection knows any more, because it was switched off,
\* replaced or its connection is gone, ends (set_index_stats_collection, Drop).
SamplersEnd ==
  \A k \in Sampler :
    (task[k].pc # "done" /\ \A c \in Conn : handle[c] # k) ~> task[k].pc = "done"

\* A sampler that stays switched on keeps looking for due samples, whatever
\* fails meanwhile.
KeepsSampling ==
  \A c \in Conn, k \in Sampler :
    (handle[c] = k) ~> (handle[c] # k \/ task[k].pc = "asking")

=============================================================================
