--------------------------- MODULE AppRefinement ----------------------------
(***************************************************************************)
(* App implements RequestReply: the prompt, the setup form and the preview *)
(* each are a lock with answers on their way, for any number of tasks.     *)
(* The lemmas count those answers; the theorems follow action by action.   *)
(***************************************************************************)
EXTENDS AppProofs, FiniteSetTheorems

\* The two parts of Owed.
Working(kinds) == {t \in Task : tasks[t].kind \in kinds}
Waiting(types) == {i \in DOMAIN events : events[i].type \in types}
One(x, S) == IF x \in S THEN 1 ELSE 0

(***************************************************************************)
(* Counting.                                                               *)
(***************************************************************************)
\* Both parts are finite, so Owed is a number.
LEMMA OwedType ==
  ASSUME TypeOK, NEW kinds, NEW types
  PROVE  /\ IsFiniteSet(Working(kinds)) /\ Cardinality(Working(kinds)) \in Nat
         /\ IsFiniteSet(Waiting(types)) /\ Cardinality(Waiting(types)) \in Nat
         /\ Owed(kinds, types) = Cardinality(Working(kinds)) + Cardinality(Waiting(types))
         /\ Owed(kinds, types) \in Nat
<1>1. IsFiniteSet(Working(kinds)) /\ Cardinality(Working(kinds)) \in Nat
  BY TaskAssumption, FS_Subset, FS_CardinalityType DEF Working
<1>2. Len(events) \in Nat /\ DOMAIN events = 1 .. Len(events)
  BY LenProperties DEF TypeOK
<1>3. IsFiniteSet(DOMAIN events)
  BY <1>2, FS_Interval
<1>4. IsFiniteSet(Waiting(types)) /\ Cardinality(Waiting(types)) \in Nat
  BY <1>3, FS_Subset, FS_CardinalityType DEF Waiting
<1> QED
  BY <1>1, <1>4 DEF Owed, Working, Waiting

\* A member put into or taken out of a finite set changes its size by one.
LEMMA OneMember ==
  ASSUME NEW S, NEW T, NEW x, IsFiniteSet(S), S \ {x} = T \ {x}
  PROVE  /\ IsFiniteSet(T) /\ Cardinality(T) \in Nat /\ Cardinality(S) \in Nat
         /\ Cardinality(T) = Cardinality(S) - One(x, S) + One(x, T)
<1> DEFINE R == S \ {x}
<1>1. /\ IsFiniteSet(R) /\ Cardinality(R) \in Nat /\ Cardinality(S) \in Nat
      /\ Cardinality(R) = IF x \in S THEN Cardinality(S) - 1 ELSE Cardinality(S)
  BY FS_RemoveElement, FS_CardinalityType
<1>2. T = IF x \in T THEN R \cup {x} ELSE R
  OBVIOUS
<1>3. /\ IsFiniteSet(R \cup {x})
      /\ Cardinality(R \cup {x}) = Cardinality(R) + 1
  BY <1>1, FS_AddElement
<1>4. /\ x \in S => One(x, S) = 1
      /\ x \notin S => One(x, S) = 0
      /\ x \in T => One(x, T) = 1
      /\ x \notin T => One(x, T) = 0
  BY DEF One
<1>5. Cardinality(R) = Cardinality(S) - One(x, S)
  BY <1>1, <1>4
<1>6. CASE x \in T
  <2>1. T = R \cup {x}
    BY <1>2, <1>6
  <2> HIDE DEF R
  <2> QED
    BY <1>1, <1>3, <1>4, <1>5, <1>6, <2>1, FS_CardinalityType
<1>7. CASE x \notin T
  <2>1. T = R
    BY <1>2, <1>7
  <2> HIDE DEF R
  <2> QED
    BY <1>1, <1>4, <1>5, <1>7, <2>1
<1> QED
  BY <1>6, <1>7

\* A slot that changes its task.
LEMMA SlotCount ==
  ASSUME TypeOK, NEW kinds, NEW t \in Task, NEW job,
         tasks'[t] = job, \A u \in Task \ {t} : tasks'[u] = tasks[u]
  PROVE  /\ Cardinality(Working(kinds)') \in Nat
         /\ Cardinality(Working(kinds)') =
              Cardinality(Working(kinds)) - One(tasks[t].kind, kinds) + One(job.kind, kinds)
<1>1. Working(kinds)' \ {t} = Working(kinds) \ {t}
  BY DEF Working
<1>2. /\ t \in Working(kinds) <=> tasks[t].kind \in kinds
      /\ t \in Working(kinds)' <=> job.kind \in kinds
  BY DEF Working
<1>3. IsFiniteSet(Working(kinds))
  BY OwedType
<1>4. /\ Cardinality(Working(kinds)') \in Nat
      /\ Cardinality(Working(kinds)') =
           Cardinality(Working(kinds)) - One(t, Working(kinds)) + One(t, Working(kinds)')
  BY <1>1, <1>3, OneMember
<1> QED
  BY <1>2, <1>4 DEF One

\* An event is sent.
LEMMA SendCount ==
  ASSUME TypeOK, NEW types, NEW e \in AppEvent, events' = Append(events, e)
  PROVE  /\ Cardinality(Waiting(types)') \in Nat
         /\ Cardinality(Waiting(types)') = Cardinality(Waiting(types)) + One(e.type, types)
<1> DEFINE n == Len(events) + 1
<1>1. /\ Len(events) \in Nat /\ Len(events') = n
      /\ DOMAIN events = 1 .. Len(events) /\ DOMAIN events' = 1 .. n
      /\ \A i \in 1 .. Len(events) : events'[i] = events[i]
      /\ events'[n] = e
  BY AppendProperties, LenProperties DEF TypeOK
<1>2. Waiting(types)' \ {n} = Waiting(types) \ {n}
  BY <1>1 DEF Waiting
<1>3. n \notin Waiting(types) /\ (n \in Waiting(types)' <=> e.type \in types)
  BY <1>1 DEF Waiting
<1>4. IsFiniteSet(Waiting(types)) /\ Cardinality(Waiting(types)) \in Nat
  BY OwedType
<1>5. /\ Cardinality(Waiting(types)') \in Nat
      /\ Cardinality(Waiting(types)') =
           Cardinality(Waiting(types)) - One(n, Waiting(types)) + One(n, Waiting(types)')
  BY <1>2, <1>4, OneMember
<1> QED
  BY <1>3, <1>4, <1>5 DEF One

\* An event is taken; the places of the others shift by one.
LEMMA TakeCount ==
  ASSUME TypeOK, NEW types, events # <<>>, events' = Tail(events)
  PROVE  /\ Cardinality(Waiting(types)') \in Nat
         /\ Cardinality(Waiting(types)') =
              Cardinality(Waiting(types)) - One(Head(events).type, types)
<1> DEFINE R == Waiting(types) \ {1}
           W == Waiting(types)'
           shift == [i \in W |-> i + 1]
<1>1. /\ Len(events) \in Nat \ {0} /\ Len(events') = Len(events) - 1
      /\ DOMAIN events = 1 .. Len(events) /\ DOMAIN events' = 1 .. Len(events')
      /\ \A j \in 1 .. Len(events') : events'[j] = events[j + 1]
      /\ Head(events) = events[1]
  BY HeadTailProperties, LenProperties, EmptySeq DEF TypeOK
<1>2. IsFiniteSet(Waiting(types)) /\ Cardinality(Waiting(types)) \in Nat
  BY OwedType
<1>3. /\ IsFiniteSet(R) /\ Cardinality(R) \in Nat
      /\ Cardinality(R) = Cardinality(Waiting(types)) - One(Head(events).type, types)
  <2>1. 1 \in Waiting(types) <=> Head(events).type \in types
    BY <1>1 DEF Waiting
  <2>2. /\ IsFiniteSet(R) /\ Cardinality(R) \in Nat
        /\ Cardinality(R) = IF 1 \in Waiting(types) THEN Cardinality(Waiting(types)) - 1
                            ELSE Cardinality(Waiting(types))
    BY <1>2, FS_RemoveElement, FS_CardinalityType
  <2> QED
    BY <1>2, <2>1, <2>2 DEF One
<1>4. shift \in Bijection(W, R)
  <2>1. \A i \in W : i \in 1 .. Len(events') /\ events'[i].type \in types
    BY <1>1 DEF Waiting
  <2>2. \A i \in W : i + 1 \in R
    BY <1>1, <2>1 DEF Waiting
  <2>3. \A k \in R : k - 1 \in W /\ (k - 1) + 1 = k
    BY <1>1 DEF Waiting
  <2>4. \A i, j \in W : i + 1 = j + 1 => i = j
    BY <2>1
  <2> QED
    BY <2>2, <2>3, <2>4 DEF Bijection, Injection, Surjection, IsInjective
<1>5. IsFiniteSet(W)
  <2>1. W \subseteq 1 .. Len(events')
    BY <1>1 DEF Waiting
  <2>2. IsFiniteSet(1 .. Len(events'))
    BY <1>1, FS_Interval
  <2> HIDE DEF W
  <2> QED
    BY <2>1, <2>2, FS_Subset
<1>6. Cardinality(W) = Cardinality(R)
  <2>1. ExistsBijection(W, R)
    BY <1>4 DEF ExistsBijection
  <2> HIDE DEF W, R
  <2> QED
    BY <2>1, <1>5, FS_Bijection
<1> QED
  BY <1>3, <1>6

(***************************************************************************)
(* What a step does to the answers on their way.                           *)
(***************************************************************************)
\* A step that leaves tasks and events alone leaves their number.
LEMMA OwedSame ==
  ASSUME NEW kinds, NEW types, UNCHANGED <<tasks, events>>
  PROVE  Owed(kinds, types)' = Owed(kinds, types)
BY DEF Owed

\* A task that takes an idle slot (the spawn_* functions, app.rs).
LEMMA OwedSpawn ==
  ASSUME TypeOK, NEW kinds, NEW types, "Idle" \notin kinds,
         NEW job, Spawn(job), UNCHANGED events
  PROVE  Owed(kinds, types)' = Owed(kinds, types) + One(job.kind, kinds)
<1> PICK t \in Task : /\ tasks[t] = Idle
                      /\ tasks'[t] = job
                      /\ \A u \in Task \ {t} : tasks'[u] = tasks[u]
  BY SpawnTakesASlot
<1>1. tasks[t].kind \notin kinds
  BY DEF Idle, Job
<1>2. Cardinality(Working(kinds)') =
        Cardinality(Working(kinds)) - One(tasks[t].kind, kinds) + One(job.kind, kinds)
  BY SlotCount
<1>3. Waiting(types)' = Waiting(types)
  BY DEF Waiting
<1>4. Owed(kinds, types)' = Cardinality(Working(kinds)') + Cardinality(Waiting(types)')
  BY DEF Owed, Working, Waiting
<1>5. One(tasks[t].kind, kinds) = 0 /\ One(job.kind, kinds) \in {0, 1}
  BY <1>1 DEF One
<1> QED
  BY <1>2, <1>3, <1>4, <1>5, OwedType

\* A task that goes on to another step without sending anything.
LEMMA OwedStep ==
  ASSUME TypeOK, NEW kinds, NEW types, NEW t \in Task, NEW job, Step(t, job), UNCHANGED events
  PROVE  Owed(kinds, types)' =
           Owed(kinds, types) - One(tasks[t].kind, kinds) + One(job.kind, kinds)
<1>1. tasks'[t] = job /\ \A u \in Task \ {t} : tasks'[u] = tasks[u]
  BY DEF Step, TypeOK
<1>2. Cardinality(Working(kinds)') =
        Cardinality(Working(kinds)) - One(tasks[t].kind, kinds) + One(job.kind, kinds)
  BY <1>1, SlotCount
<1>3. Waiting(types)' = Waiting(types)
  BY DEF Waiting
<1>4. Owed(kinds, types)' = Cardinality(Working(kinds)') + Cardinality(Waiting(types)')
  BY DEF Owed, Working, Waiting
<1>5. One(tasks[t].kind, kinds) \in {0, 1} /\ One(job.kind, kinds) \in {0, 1}
  BY DEF One
<1> QED
  BY <1>2, <1>3, <1>4, <1>5, OwedType

\* A task that sends an event and ends or goes on.
LEMMA OwedSend ==
  ASSUME TypeOK, NEW kinds, NEW types, NEW t \in Task, NEW job, Step(t, job),
         NEW e \in AppEvent, events' = Append(events, e)
  PROVE  Owed(kinds, types)' =
           Owed(kinds, types) - One(tasks[t].kind, kinds) + One(job.kind, kinds)
             + One(e.type, types)
<1>1. tasks'[t] = job /\ \A u \in Task \ {t} : tasks'[u] = tasks[u]
  BY DEF Step, TypeOK
<1>2. Cardinality(Working(kinds)') =
        Cardinality(Working(kinds)) - One(tasks[t].kind, kinds) + One(job.kind, kinds)
  BY <1>1, SlotCount
<1>3. Cardinality(Waiting(types)') = Cardinality(Waiting(types)) + One(e.type, types)
  BY SendCount
<1>4. Owed(kinds, types)' = Cardinality(Working(kinds)') + Cardinality(Waiting(types)')
  BY DEF Owed, Working, Waiting
<1>5. /\ One(tasks[t].kind, kinds) \in {0, 1} /\ One(job.kind, kinds) \in {0, 1}
      /\ One(e.type, types) \in {0, 1}
  BY DEF One
<1> QED
  BY <1>2, <1>3, <1>4, <1>5, OwedType

\* The same for a task that ends with its answer: one answer on its way before
\* and one after.
LEMMA OwedFinish ==
  ASSUME TypeOK, NEW kinds, NEW types, "Idle" \notin kinds, NEW t \in Task,
         NEW e \in AppEvent, Finish(t, e), tasks[t].kind \in kinds <=> e.type \in types
  PROVE  Owed(kinds, types)' = Owed(kinds, types)
<1>1. /\ tasks[t].kind \in kinds => One(tasks[t].kind, kinds) = 1 /\ One(e.type, types) = 1
      /\ tasks[t].kind \notin kinds => One(tasks[t].kind, kinds) = 0 /\ One(e.type, types) = 0
  BY DEF One
<1>2. One(Idle.kind, kinds) = 0
  BY DEF One, Idle, Job
<1>3. Owed(kinds, types)' =
        Owed(kinds, types) - One(tasks[t].kind, kinds) + One(Idle.kind, kinds)
          + One(e.type, types)
  <2>1. Step(t, Idle) /\ events' = Append(events, e)
    BY DEF Finish
  <2> QED
    BY <2>1, OwedSend
<1>4. Owed(kinds, types) \in Nat
  BY OwedType
<1>5. CASE tasks[t].kind \in kinds
  BY <1>1, <1>2, <1>3, <1>4, <1>5, SMT
<1>6. CASE tasks[t].kind \notin kinds
  BY <1>1, <1>2, <1>3, <1>4, <1>6, SMT
<1> QED
  BY <1>5, <1>6

\* The event loop takes an event.
LEMMA OwedTake ==
  ASSUME TypeOK, NEW kinds, NEW types, NEW taken, Receive(taken), UNCHANGED tasks
  PROVE  /\ Owed(kinds, types)' \in Nat
         /\ Owed(kinds, types)' = Owed(kinds, types) - One(Head(events).type, types)
<1>1. /\ Cardinality(Waiting(types)') \in Nat
      /\ Cardinality(Waiting(types)') =
           Cardinality(Waiting(types)) - One(Head(events).type, types)
  BY TakeCount DEF Receive
<1>2. Working(kinds)' = Working(kinds)
  BY DEF Working
<1>3. Owed(kinds, types)' = Cardinality(Working(kinds)') + Cardinality(Waiting(types)')
  BY DEF Owed, Working, Waiting
<1>4. One(Head(events).type, types) \in {0, 1}
  BY DEF One
<1> QED
  BY <1>1, <1>2, <1>3, <1>4, OwedType

\* The event loop takes an event and spawns a task.
LEMMA OwedTakeSpawn ==
  ASSUME TypeOK, NEW kinds, NEW types, "Idle" \notin kinds, NEW taken, Receive(taken),
         NEW job, Spawn(job)
  PROVE  /\ Owed(kinds, types) - One(Head(events).type, types) \in Nat
         /\ Owed(kinds, types)' = Owed(kinds, types) - One(Head(events).type, types)
                                    + One(job.kind, kinds)
<1> PICK t \in Task : /\ tasks[t] = Idle
                      /\ tasks'[t] = job
                      /\ \A u \in Task \ {t} : tasks'[u] = tasks[u]
  BY SpawnTakesASlot
<1>1. tasks[t].kind \notin kinds
  BY DEF Idle, Job
<1>2. Cardinality(Working(kinds)') =
        Cardinality(Working(kinds)) - One(tasks[t].kind, kinds) + One(job.kind, kinds)
  BY SlotCount
<1>3. /\ Cardinality(Waiting(types)') \in Nat
      /\ Cardinality(Waiting(types)') =
           Cardinality(Waiting(types)) - One(Head(events).type, types)
  BY TakeCount DEF Receive
<1>4. Owed(kinds, types)' = Cardinality(Working(kinds)') + Cardinality(Waiting(types)')
  BY DEF Owed, Working, Waiting
<1>5. /\ One(tasks[t].kind, kinds) = 0 /\ One(job.kind, kinds) \in {0, 1}
      /\ One(Head(events).type, types) \in {0, 1}
  BY <1>1 DEF One
<1> QED
  BY <1>2, <1>3, <1>4, <1>5, OwedType

(***************************************************************************)
(* The prompt.                                                             *)
(***************************************************************************)
\* Every step of App is one of RequestReply for the prompt, or leaves it alone.
LEMMA PromptStep ==
  ASSUME TypeOK, SetupConnectsOnce, [Next]_vars
  PROVE  [PromptLock!Next]_(PromptLock!vars)
<1> USE DEF config, ui
<1> DEFINE owed == Owed(BusyTask, BusyEvent)
           Goal == PromptLock!Next \/ UNCHANGED PromptLock!vars
<1> SUFFICES Goal
  OBVIOUS
<1>0. "Idle" \notin BusyTask /\ owed \in Nat /\ busy \in BOOLEAN
  BY OwedType DEF BusyTask, TypeOK
<1>1. ASSUME UNCHANGED <<status, busy>>, owed' = owed PROVE Goal
  BY <1>1 DEF PromptLock!vars, Running
<1>2. ASSUME Running, UNCHANGED status, busy' \in {busy, TRUE}, owed' = owed + 1 PROVE Goal
  BY <1>2 DEF PromptLock!Next, PromptLock!Ask, Running
<1>3. ASSUME Running, UNCHANGED status, busy' = FALSE, owed' \in Nat, owed' = owed - 1 PROVE Goal
  BY <1>0, <1>3 DEF PromptLock!Next, PromptLock!Answer, Running
<1>4. ASSUME Running, UNCHANGED status, busy' = FALSE, owed > 0, owed' = owed PROVE Goal
  BY <1>4 DEF PromptLock!Next, PromptLock!Forward, Running
<1>5. ASSUME Running, ~Running', busy' \in BOOLEAN, owed' = owed PROVE Goal
  BY <1>5 DEF PromptLock!Next, PromptLock!Stop
<1>6. ASSUME UNCHANGED <<status, busy, tasks, events>> PROVE Goal
  BY <1>1, <1>6, OwedSame
<1>7. ASSUME Running, ~Running', busy' \in BOOLEAN, UNCHANGED <<tasks, events>> PROVE Goal
  BY <1>5, <1>7, OwedSame
<1>8. ASSUME NEW kind \in BusyTask, NEW p, Spawn(Job(kind, p)), UNCHANGED <<status, events>>,
             Running, busy' \in {busy, TRUE}
      PROVE  Goal
  <2>1. One(Job(kind, p).kind, BusyTask) = 1
    BY DEF One, Job
  <2> QED
    BY <1>0, <1>2, <1>8, <2>1, OwedSpawn
<1>9. CASE User
  <2>1. CASE SetupSubmit
    BY <2>1, <1>8 DEF SetupSubmit, BusyTask, TaskKind, PlainCommand
  <2>2. CASE QuitKey \/ SubmitExit
    BY <2>2, <1>0, <1>7 DEF QuitKey, SubmitExit, Prompt, ChatKey, Running
  <2>3. CASE OpenSettings \/ CycleModel \/ SettingsEnter \/ SettingsDiscard \/ SettingsLeaveModels
    BY <2>3, <1>6 DEF OpenSettings, CycleModel, SettingsEnter, SettingsDiscard,
      SettingsLeaveModels
  <2>4. ASSUME NEW kind \in PlainCommand, SubmitCommand(kind) PROVE Goal
    BY <2>4, <1>8 DEF SubmitCommand, Prompt, ChatKey, BusyTask, TaskKind, PlainCommand
  <2>5. CASE SubmitAnalyze
    BY <2>5, <1>8 DEF SubmitAnalyze, Prompt, ChatKey, BusyTask, TaskKind
  <2>6. CASE SubmitApiKey
    BY <2>6, <1>8 DEF SubmitApiKey, Prompt, ChatKey, BusyTask, TaskKind
  <2>7. ASSUME NEW p \in Provider, SubmitProvider(p) PROVE Goal
    BY <2>7, <1>8 DEF SubmitProvider, Prompt, ChatKey, BusyTask, TaskKind
  <2>8. ASSUME NEW p \in Provider, SettingsApplyApp(p) PROVE Goal
    BY <2>8, <1>6 DEF SettingsApplyApp
  <2>9. ASSUME NEW m \in Model, SubmitModel(m) PROVE Goal
    BY <2>9, <1>6 DEF SubmitModel
  <2>10. CASE SettingsClose
    <3>1. CASE settings.dirty
      BY <2>10, <3>1, <1>8 DEF SettingsClose, SettingsKey, BusyTask, TaskKind
    <3>2. CASE ~settings.dirty
      BY <2>10, <3>2, <1>6 DEF SettingsClose
    <3> QED
      BY <3>1, <3>2
  <2>11. ASSUME NEW s \in Section, SettingsApplyProvider(s) PROVE Goal
    BY <2>11, <1>6 DEF SettingsApplyProvider
  <2>12. ASSUME NEW s \in Section, SettingsOpenModels(s) PROVE Goal
    <3> DEFINE job == [Job("ProviderModels", settings.of) EXCEPT !.filled = Complete(s)]
    <3>1. One(job.kind, BusyTask) = 0
      BY DEF One, Job, BusyTask
    <3>2. owed' = owed + One(job.kind, BusyTask)
      BY <2>12, <1>0, OwedSpawn DEF SettingsOpenModels
    <3> QED
      BY <2>12, <3>1, <3>2, <1>0, <1>1 DEF SettingsOpenModels
  <2> QED
    BY <1>9, <2>1, <2>2, <2>3, <2>4, <2>5, <2>6, <2>7, <2>8, <2>9, <2>10, <2>11, <2>12 DEF User
<1>10. CASE Background
  <2> PICK t \in Task : Work(t) \/ AnalyzeProgress(t)
    BY <1>10 DEF Background
  <2>1. ASSUME NEW e \in AppEvent, e.type \in BusyEvent, tasks[t].kind \in BusyTask, Finish(t, e),
               UNCHANGED <<status, busy>>
        PROVE  Goal
    BY <2>1, <1>0, <1>1, OwedFinish
  <2>2. ASSUME NEW kind \in BusyTask, NEW p, tasks[t].kind \in BusyTask, Step(t, Job(kind, p)),
               UNCHANGED <<status, busy, events>>
        PROVE  Goal
    <3>1. One(tasks[t].kind, BusyTask) = 1 /\ One(Job(kind, p).kind, BusyTask) = 1
      BY <2>2 DEF One, Job
    <3>2. owed' = owed - One(tasks[t].kind, BusyTask) + One(Job(kind, p).kind, BusyTask)
      BY <2>2, OwedStep
    <3> QED
      BY <2>2, <3>1, <3>2, <1>0, <1>1
  <2>3. CASE ConnectDone(t)
    BY <2>3, <2>1, EventTypeCorrect DEF ConnectDone, At, EventType, BusyEvent, BusyTask, TaskKind,
      PlainCommand
  <2>4. CASE CommandDone(t)
    <3>1. Answer[tasks[t].kind] \subseteq BusyEvent /\ tasks[t].kind \in BusyTask
      BY <2>4 DEF CommandDone, Answer, EventType, BusyEvent, BusyTask, TaskKind, PlainCommand
    <3> QED
      BY <2>4, <3>1, <2>1, EventTypeCorrect DEF CommandDone, BusyEvent, Event
  <2>5. CASE AnalyzeStart(t)
    <3> PICK client \in Clients :
          IF client = None THEN Finish(t, Event("AnalyzeResult"))
          ELSE Step(t, Job("Analyzing", client)) /\ UNCHANGED events
      BY <2>5 DEF AnalyzeStart
    <3>1. tasks[t].kind \in BusyTask
      BY <2>5 DEF AnalyzeStart, At, BusyTask, TaskKind
    <3>2. CASE client = None
      BY <2>5, <3>1, <3>2, <2>1, EventTypeCorrect DEF AnalyzeStart, EventType, BusyEvent
    <3>3. CASE client # None
      BY <2>5, <3>1, <3>3, <2>2 DEF AnalyzeStart, TaskKind, BusyTask
    <3> QED
      BY <3>2, <3>3
  <2>6. CASE AnalyzeEnd(t)
    BY <2>6, <2>1, EventTypeCorrect DEF AnalyzeEnd, At, EventType, BusyEvent, BusyTask, TaskKind
  <2>7. CASE SwitchStart(t) \/ FetchStart(t)
    BY <2>7, <2>2 DEF SwitchStart, FetchStart, At, TaskKind, BusyTask
  <2>8. CASE SwitchReady(t)
    <3> PICK p : Step(t, Job("Listing", p))
      BY <2>8 DEF SwitchReady
    <3>1. /\ One(tasks[t].kind, BusyTask) = 1 /\ One(Job("Listing", p).kind, BusyTask) = 1
          /\ One(Event("ProviderReady").type, BusyEvent) = 0
      BY <2>8 DEF SwitchReady, At, One, Job, Event, BusyTask, TaskKind, BusyEvent
    <3>2. Event("ProviderReady") \in AppEvent
      BY EventTypeCorrect DEF EventType
    <3>3. owed' = owed - One(tasks[t].kind, BusyTask) + One(Job("Listing", p).kind, BusyTask)
                    + One(Event("ProviderReady").type, BusyEvent)
      BY <2>8, <3>2, OwedSend DEF SwitchReady
    <3> QED
      BY <2>8, <3>1, <3>3, <1>0, <1>1 DEF SwitchReady
  <2>9. CASE ListDone(t)
    <3> PICK list \in Listings(tasks[t].of) :
          Finish(t, [Event("ModelsResult") EXCEPT !.list = list])
      BY <2>9 DEF ListDone
    <3>1. list \in Seq(Model)
      BY OffersAssumption, EmptySeq DEF Listings
    <3>2. /\ [Event("ModelsResult") EXCEPT !.list = list] \in AppEvent
          /\ [Event("ModelsResult") EXCEPT !.list = list].type \in BusyEvent
      BY <3>1 DEF Event, AppEvent, EventType, BusyEvent
    <3>3. tasks[t].kind \in BusyTask
      BY <2>9 DEF ListDone, At, BusyTask, TaskKind
    <3> QED
      BY <2>9, <3>2, <3>3, <2>1 DEF ListDone
  <2>10. CASE ProviderModelsDone(t)
    <3> DEFINE e == [Event("ProviderModelsResult") EXCEPT !.of = tasks[t].of]
    <3>1. e \in AppEvent /\ e.type \notin BusyEvent
      BY EmptySeq DEF Event, AppEvent, EventType, TypeOK, TaskState, BusyEvent
    <3>2. tasks[t].kind \notin BusyTask
      BY <2>10 DEF ProviderModelsDone, At, BusyTask
    <3>3. owed' = owed
      BY <2>10, <3>1, <3>2, <1>0, OwedFinish DEF ProviderModelsDone
    <3> QED
      BY <2>10, <3>3, <1>1 DEF ProviderModelsDone
  <2>11. CASE Panic(t)
    BY <2>11, <1>0, <1>7 DEF Panic, Running
  <2>12. CASE AnalyzeProgress(t)
    <3>1. Event("AnalyzeProgress") \in AppEvent
      BY EventTypeCorrect DEF EventType
    <3>2. owed' = owed
      <4>1. Step(t, tasks[t])
        BY <2>12 DEF AnalyzeProgress, Step, TypeOK
      <4>2. owed' = owed - One(tasks[t].kind, BusyTask) + One(tasks[t].kind, BusyTask)
                      + One(Event("AnalyzeProgress").type, BusyEvent)
        BY <2>12, <3>1, <4>1, OwedSend DEF AnalyzeProgress
      <4>3. /\ One(Event("AnalyzeProgress").type, BusyEvent) = 0
            /\ One(tasks[t].kind, BusyTask) \in {0, 1}
        BY DEF One, Event, BusyEvent
      <4> QED
        BY <4>2, <4>3, <1>0
    <3> QED
      BY <2>12, <3>2, <1>1 DEF AnalyzeProgress
  <2> QED
    BY <2>3, <2>4, <2>5, <2>6, <2>7, <2>8, <2>9, <2>10, <2>11, <2>12 DEF Work
<1>11. CASE Handle
  <2>1. ASSUME NEW taken, taken \subseteq BusyEvent, Receive(taken), UNCHANGED <<status, tasks>>,
               busy' = FALSE
        PROVE  Goal
    <3>1. Head(events).type \in BusyEvent /\ Running
      BY <2>1 DEF Receive
    <3>2. One(Head(events).type, BusyEvent) = 1
      BY <3>1 DEF One
    <3>3. owed' \in Nat /\ owed' = owed - One(Head(events).type, BusyEvent)
      BY <2>1, OwedTake
    <3> QED
      BY <2>1, <3>1, <3>2, <3>3, <1>3
  <2>2. ASSUME Receive({"ConnectOk"}), Spawn(Job("FetchModels", None)), UNCHANGED status,
               busy' = FALSE
        PROVE  Goal
    <3>1. Head(events).type \in BusyEvent /\ Running
      BY <2>2 DEF Receive, BusyEvent, EventType
    <3>2. /\ One(Head(events).type, BusyEvent) = 1
          /\ One(Job("FetchModels", None).kind, BusyTask) = 1
      BY <3>1 DEF One, Job, BusyTask, TaskKind
    <3>3. /\ owed - One(Head(events).type, BusyEvent) \in Nat
          /\ owed' = owed - One(Head(events).type, BusyEvent)
                       + One(Job("FetchModels", None).kind, BusyTask)
      BY <2>2, <1>0, OwedTakeSpawn
    <3>4. owed > 0 /\ owed' = owed
      BY <3>2, <3>3, <1>0
    <3> QED
      BY <2>2, <3>1, <3>4, <1>4
  <2>3. ASSUME NEW taken, taken \cap BusyEvent = {}, Receive(taken),
               UNCHANGED <<status, tasks, busy>>
        PROVE  Goal
    <3>1. One(Head(events).type, BusyEvent) = 0
      BY <2>3 DEF Receive, One
    <3>2. owed' = owed - One(Head(events).type, BusyEvent)
      BY <2>3, OwedTake
    <3> QED
      BY <2>3, <3>1, <3>2, <1>0, <1>1
  <2>4. CASE OnFirstConnect \/ OnReconnect
    BY <2>4, <2>2 DEF OnFirstConnect, OnReconnect
  <2>5. CASE OnSetupFailure
    <3>1. busy' = FALSE
      BY <2>5, <1>0 DEF OnSetupFailure, SetupConnectsOnce
    <3> QED
      BY <2>5, <3>1, <2>1 DEF OnSetupFailure, BusyEvent, EventType
  <2>6. CASE OnResult \/ OnAnalyzeResult \/ OnModelsResult
    BY <2>6, <2>1 DEF OnResult, OnAnalyzeResult, OnModelsResult, BusyEvent, EventType
  <2>7. CASE OnNotice \/ OnProviderModels
    BY <2>7, <2>3 DEF OnNotice, OnProviderModels, BusyEvent
  <2>8. CASE LayoutPanic
    BY <2>8, <1>0, <1>7 DEF LayoutPanic, Running
  <2> QED
    BY <1>11, <2>4, <2>5, <2>6, <2>7, <2>8 DEF Handle
<1>12. CASE Exit
  <2>1. CASE Running
    BY <2>1, <1>12, <1>0, <1>7 DEF Exit, Running
  <2>2. CASE ~Running
    BY <2>2, <1>12, OwedSame DEF Exit, Running, PromptLock!vars
  <2> QED
    BY <2>1, <2>2
<1>13. CASE UNCHANGED vars
  BY <1>13, <1>6 DEF vars
<1> QED
  BY <1>9, <1>10, <1>11, <1>12, <1>13 DEF Next, Terminated

\* The prompt implements RequestReply: it is locked only while an answer is on
\* its way, each answer that is taken opens it, and no other step touches the
\* answers (ChatScreen.busy with the spawn_* functions of app.rs).
THEOREM PromptRefinement == Spec => PromptImplements
<1>1. ASSUME Init PROVE PromptLock!Init
  <2>1. TypeOK
    BY <1>1, TypeInit
  <2> QED
    BY <1>1, <2>1, OwedType DEF Init, PromptLock!Init, Running
<1>2. TypeOK /\ SetupConnectsOnce /\ [Next]_vars => [PromptLock!Next]_(PromptLock!vars)
  BY PromptStep
<1> QED
  BY <1>1, <1>2, TypeCorrect, SetupCorrect, PTL DEF Spec, PromptImplements, PromptLock!Spec

(***************************************************************************)
(* The preview and the setup form.                                         *)
(***************************************************************************)
\* Nothing happens to a lock and its answers when a task of another kind is spawned,
\* goes on or sends an event of another type, or when such an event is taken.
LEMMA OwedElsewhere ==
  ASSUME TypeOK, NEW kinds, NEW types, "Idle" \notin kinds,
         \/ UNCHANGED <<tasks, events>>
         \/ \E job : job.kind \notin kinds /\ Spawn(job) /\ UNCHANGED events
         \/ \E t \in Task : \E job : /\ tasks[t].kind \notin kinds /\ job.kind \notin kinds
                                     /\ Step(t, job)
                                     /\ \/ UNCHANGED events
                                        \/ \E e \in AppEvent : /\ e.type \notin types
                                                               /\ events' = Append(events, e)
         \/ \E taken : /\ taken \cap types = {} /\ Receive(taken)
                       /\ \/ UNCHANGED tasks
                          \/ \E job : job.kind \notin kinds /\ Spawn(job)
  PROVE  Owed(kinds, types)' = Owed(kinds, types)
<1>1. Owed(kinds, types) \in Nat
  BY OwedType
<1>2. CASE UNCHANGED <<tasks, events>>
  BY <1>2, OwedSame
<1>3. ASSUME NEW job, job.kind \notin kinds, Spawn(job), UNCHANGED events
      PROVE  Owed(kinds, types)' = Owed(kinds, types)
  <2>1. One(job.kind, kinds) = 0
    BY <1>3 DEF One
  <2> QED
    BY <1>1, <1>3, <2>1, OwedSpawn
<1>4. ASSUME NEW t \in Task, NEW job, tasks[t].kind \notin kinds, job.kind \notin kinds,
             Step(t, job)
      PROVE  /\ UNCHANGED events => Owed(kinds, types)' = Owed(kinds, types)
             /\ \A e \in AppEvent : e.type \notin types /\ events' = Append(events, e) =>
                  Owed(kinds, types)' = Owed(kinds, types)
  <2>1. One(tasks[t].kind, kinds) = 0 /\ One(job.kind, kinds) = 0
    BY <1>4 DEF One
  <2>2. CASE UNCHANGED events
    BY <1>1, <1>4, <2>1, <2>2, OwedStep
  <2>3. ASSUME NEW e \in AppEvent, e.type \notin types, events' = Append(events, e)
        PROVE  Owed(kinds, types)' = Owed(kinds, types)
    <3>1. One(e.type, types) = 0
      BY <2>3 DEF One
    <3> QED
      BY <1>1, <1>4, <2>1, <2>3, <3>1, OwedSend
  <2> QED
    BY <2>2, <2>3
<1>5. ASSUME NEW taken, taken \cap types = {}, Receive(taken)
      PROVE  /\ UNCHANGED tasks => Owed(kinds, types)' = Owed(kinds, types)
             /\ \A job : job.kind \notin kinds /\ Spawn(job) =>
                  Owed(kinds, types)' = Owed(kinds, types)
  <2>1. One(Head(events).type, types) = 0
    BY <1>5 DEF Receive, One
  <2>2. CASE UNCHANGED tasks
    BY <1>1, <1>5, <2>1, <2>2, OwedTake
  <2>3. ASSUME NEW job, job.kind \notin kinds, Spawn(job)
        PROVE  Owed(kinds, types)' = Owed(kinds, types)
    <3>1. One(job.kind, kinds) = 0
      BY <2>3 DEF One
    <3> QED
      BY <1>1, <1>5, <2>1, <2>3, <3>1, OwedTakeSpawn
  <2> QED
    BY <2>2, <2>3
<1> QED
  BY <1>2, <1>3, <1>4, <1>5

\* The tasks and the answers of a connection and of an analysis.
Connecting == {"Connect"}
Connected == {"ConnectOk", "ConnectErr"}
Analysis == {"Analyze", "Analyzing"}
Analyzed == {"AnalyzeResult"}

\* A key that asks neither for a connection nor for an analysis leaves the answers
\* that the setup form and the preview wait for.
LEMMA KeysElsewhere ==
  ASSUME TypeOK, User, ~SetupSubmit, ~SubmitAnalyze, ~SubmitCommand("Connect"),
         NEW kinds \in {Connecting, Analysis}, NEW types
  PROVE  Owed(kinds, types)' = Owed(kinds, types)
<1>1. "Idle" \notin kinds
  BY DEF Connecting, Analysis
<1>2. \A kind \in {"Query", "IndexStatsReport", "Explain", "RelKind", "SwitchProvider"} :
        Job(kind, None).kind \notin kinds
  BY DEF Connecting, Analysis, Job
<1>3. ASSUME NEW kind \in {"Query", "IndexStatsReport", "Explain", "RelKind", "SwitchProvider"},
             Spawn(Job(kind, None)), UNCHANGED events
      PROVE  Owed(kinds, types)' = Owed(kinds, types)
  BY <1>1, <1>2, <1>3, OwedElsewhere
<1>4. ASSUME NEW kind \in PlainCommand, SubmitCommand(kind)
      PROVE  Owed(kinds, types)' = Owed(kinds, types)
  <2>1. kind \in {"Query", "IndexStatsReport", "Explain", "RelKind"}
    BY <1>4 DEF PlainCommand
  <2> QED
    BY <1>3, <1>4, <2>1 DEF SubmitCommand
<1>5. ASSUME NEW s \in Section, SettingsOpenModels(s)
      PROVE  Owed(kinds, types)' = Owed(kinds, types)
  <2> DEFINE job == [Job("ProviderModels", settings.of) EXCEPT !.filled = Complete(s)]
  <2>1. job.kind \notin kinds
    BY DEF Connecting, Analysis, Job
  <2>2. Spawn(job) /\ UNCHANGED events
    BY <1>5 DEF SettingsOpenModels
  <2> HIDE DEF job
  <2> QED
    BY <1>1, <2>1, <2>2, OwedElsewhere
<1>6. CASE UNCHANGED <<tasks, events>>
  BY <1>6, OwedSame
<1> QED
  BY <1>3, <1>4, <1>5, <1>6 DEF User, QuitKey, OpenSettings, CycleModel, SubmitApiKey, SubmitExit,
    SubmitProvider, SettingsApplyApp, SubmitModel, SettingsEnter, SettingsDiscard,
    SettingsLeaveModels, SettingsClose, SettingsApplyProvider

\* So does a step of a task of another kind.
LEMMA TasksElsewhere ==
  ASSUME TypeOK, NEW t \in Task, Work(t) \/ AnalyzeProgress(t),
         NEW kinds \in {Connecting, Analysis}, NEW types \in {Connected, Analyzed},
         tasks[t].kind \notin kinds \cup Connecting \cup Analysis \/ AnalyzeProgress(t)
  PROVE  Owed(kinds, types)' = Owed(kinds, types)
<1>1. "Idle" \notin kinds
  BY DEF Connecting, Analysis
<1> DEFINE Other(job) == job.kind \notin kinds
           Foreign(e) == e \in AppEvent /\ e.type \notin types
<1>2. Other(Idle) /\ \A p : Other(Job("Probing", p)) /\ Other(Job("Listing", p))
  BY DEF Idle, Job, Connecting, Analysis
<1>3. \A type \in EventType \ (Connected \cup Analyzed) : Foreign(Event(type))
  BY EventTypeCorrect
<1>4. CASE AnalyzeProgress(t)
  <2>1. Foreign(Event("AnalyzeProgress"))
    BY <1>3 DEF Connected, Analyzed, EventType
  <2>2. Cardinality(Waiting(types)') = Cardinality(Waiting(types))
    <3>1. /\ Event("AnalyzeProgress") \in AppEvent
          /\ events' = Append(events, Event("AnalyzeProgress"))
      BY <1>4, <2>1 DEF AnalyzeProgress
    <3>2. One(Event("AnalyzeProgress").type, types) = 0
      BY <2>1 DEF One
    <3> QED
      BY <3>1, <3>2, SendCount, OwedType
  <2>3. Working(kinds)' = Working(kinds)
    BY <1>4 DEF AnalyzeProgress, Working
  <2>4. Owed(kinds, types)' = Cardinality(Working(kinds)') + Cardinality(Waiting(types)')
    BY DEF Owed, Working, Waiting
  <2> QED
    BY <2>2, <2>3, <2>4, OwedType
<1>5. CASE Work(t) /\ tasks[t].kind \notin kinds \cup Connecting \cup Analysis
  <2> SUFFICES \/ UNCHANGED <<tasks, events>>
               \/ \E job : /\ Other(job) /\ Step(t, job)
                           /\ UNCHANGED events \/ \E e : Foreign(e) /\ events' = Append(events, e)
    BY <1>1, <1>5, OwedElsewhere
  <2>1. CASE CommandDone(t)
    <3>1. Answer[tasks[t].kind] \subseteq EventType \ (Connected \cup Analyzed)
      BY <2>1 DEF CommandDone, Answer, EventType, Connected, Analyzed
    <3> HIDE DEF Other, Foreign
    <3> QED
      BY <1>2, <1>3, <2>1, <3>1 DEF CommandDone, Finish
  <2>2. CASE SwitchStart(t) \/ FetchStart(t)
    <3> HIDE DEF Other, Foreign
    <3> QED
      BY <1>2, <2>2 DEF SwitchStart, FetchStart
  <2>3. CASE SwitchReady(t)
    <3>1. Foreign(Event("ProviderReady"))
      BY <1>3 DEF Connected, Analyzed, EventType
    <3> HIDE DEF Other, Foreign
    <3> QED
      BY <1>2, <2>3, <3>1 DEF SwitchReady
  <2>4. CASE ListDone(t)
    <3> PICK list \in Listings(tasks[t].of) :
          Finish(t, [Event("ModelsResult") EXCEPT !.list = list])
      BY <2>4 DEF ListDone
    <3> DEFINE e == [Event("ModelsResult") EXCEPT !.list = list]
    <3>1. list \in Seq(Model)
      BY OffersAssumption, EmptySeq DEF Listings
    <3>2. Foreign(e)
      BY <3>1 DEF Event, AppEvent, EventType, Connected, Analyzed
    <3>3. Step(t, Idle) /\ events' = Append(events, e)
      BY DEF Finish
    <3> HIDE DEF e, Other, Foreign
    <3> QED
      BY <1>2, <3>2, <3>3
  <2>5. CASE ProviderModelsDone(t)
    <3> DEFINE e == [Event("ProviderModelsResult") EXCEPT !.of = tasks[t].of]
    <3>1. Foreign(e)
      BY EmptySeq DEF Event, AppEvent, EventType, TypeOK, TaskState, Connected, Analyzed
    <3>2. Step(t, Idle) /\ events' = Append(events, e)
      BY <2>5 DEF ProviderModelsDone, Finish
    <3> HIDE DEF e, Other, Foreign
    <3> QED
      BY <1>2, <3>1, <3>2
  <2>6. CASE Panic(t)
    BY <2>6 DEF Panic
  <2> QED
    BY <1>5, <2>1, <2>2, <2>3, <2>4, <2>5, <2>6 DEF Work, ConnectDone, AnalyzeStart, AnalyzeEnd, At,
      Connecting, Analysis
<1> QED
  BY <1>4, <1>5

\* Every step of App is one of RequestReply for the preview, or leaves it alone.
LEMMA PreviewLockStep ==
  ASSUME TypeOK, SetupConnectsOnce, [Next]_vars
  PROVE  [PreviewLock!Next]_(PreviewLock!vars)
<1> USE DEF config, ui
<1> DEFINE owed == Owed(Analysis, Analyzed)
           Goal == PreviewLock!Next \/ UNCHANGED PreviewLock!vars
<1> SUFFICES Goal
  OBVIOUS
<1>0. "Idle" \notin Analysis /\ owed \in Nat /\ preview \in BOOLEAN
  BY OwedType DEF Analysis, TypeOK
<1>1. ASSUME UNCHANGED <<status, preview>>, owed' = owed PROVE Goal
  BY <1>1 DEF PreviewLock!vars, Running, Analysis, Analyzed
<1>2. ASSUME Running, UNCHANGED status, preview', owed' = owed + 1 PROVE Goal
  BY <1>2 DEF PreviewLock!Next, PreviewLock!Ask, Running, Analysis, Analyzed
<1>3. ASSUME Running, UNCHANGED status, preview' = FALSE, owed' \in Nat, owed' = owed - 1
      PROVE  Goal
  BY <1>0, <1>3 DEF PreviewLock!Next, PreviewLock!Answer, Running, Analysis, Analyzed
<1>4. ASSUME Running, ~Running', UNCHANGED preview, UNCHANGED <<tasks, events>> PROVE Goal
  BY <1>0, <1>4, OwedSame DEF PreviewLock!Next, PreviewLock!Stop, Analysis, Analyzed
<1>5. CASE User
  <2>1. CASE SubmitAnalyze
    <3>1. One(Job("Analyze", None).kind, Analysis) = 1
      BY DEF One, Job, Analysis
    <3> QED
      BY <2>1, <3>1, <1>0, <1>2, OwedSpawn DEF SubmitAnalyze, Prompt, ChatKey
  <2>2. CASE QuitKey \/ SubmitExit
    BY <2>2, <1>4 DEF QuitKey, SubmitExit, Prompt, ChatKey, Running
  <2>3. CASE SetupSubmit \/ SubmitCommand("Connect")
    <3>1. Job("Connect", None).kind \notin Analysis
      BY DEF Job, Analysis
    <3>2. Spawn(Job("Connect", None)) /\ UNCHANGED <<status, preview, events>>
      BY <2>3 DEF SetupSubmit, SubmitCommand
    <3> QED
      BY <3>1, <3>2, <1>0, <1>1, OwedElsewhere
  <2>4. CASE ~SubmitAnalyze /\ ~QuitKey /\ ~SubmitExit /\ ~SetupSubmit /\ ~SubmitCommand("Connect")
    <3>1. UNCHANGED <<status, preview>>
      BY <1>5, <2>4 DEF User, OpenSettings, CycleModel, SubmitCommand,
        SubmitApiKey, SubmitProvider, SettingsApplyApp, SubmitModel, SettingsEnter,
        SettingsDiscard, SettingsLeaveModels, SettingsClose, SettingsApplyProvider,
        SettingsOpenModels
    <3>2. owed' = owed
      BY <1>5, <2>4, KeysElsewhere
    <3> QED
      BY <3>1, <3>2, <1>1
  <2> QED
    BY <2>1, <2>2, <2>3, <2>4
<1>6. CASE Background
  <2> PICK t \in Task : Work(t) \/ AnalyzeProgress(t)
    BY <1>6 DEF Background
  <2>1. CASE AnalyzeStart(t) \/ AnalyzeEnd(t)
    <3>1. tasks[t].kind \in Analysis /\ UNCHANGED <<status, preview>>
      BY <2>1 DEF AnalyzeStart, AnalyzeEnd, At, Analysis
    <3>2. CASE Finish(t, Event("AnalyzeResult"))
      <4>1. Event("AnalyzeResult") \in AppEvent /\ Event("AnalyzeResult").type \in Analyzed
        BY EventTypeCorrect DEF EventType, Analyzed
      <4> QED
        BY <3>1, <3>2, <4>1, <1>0, <1>1, OwedFinish
    <3>3. ASSUME NEW p, Step(t, Job("Analyzing", p)), UNCHANGED events PROVE Goal
      <4>1. One(tasks[t].kind, Analysis) = 1 /\ One(Job("Analyzing", p).kind, Analysis) = 1
        BY <3>1 DEF One, Job, Analysis
      <4>2. owed' = owed - One(tasks[t].kind, Analysis) + One(Job("Analyzing", p).kind, Analysis)
        BY <3>3, OwedStep
      <4> QED
        BY <3>1, <4>1, <4>2, <1>0, <1>1
    <3> QED
      BY <2>1, <3>2, <3>3 DEF AnalyzeStart, AnalyzeEnd
  <2>2. CASE ConnectDone(t)
    <3> PICK type \in {"ConnectOk", "ConnectErr"} : Finish(t, Event(type))
      BY <2>2 DEF ConnectDone
    <3>1. /\ tasks[t].kind \notin Analysis
          /\ Event(type) \in AppEvent /\ Event(type).type \notin Analyzed
      BY <2>2, EventTypeCorrect DEF ConnectDone, At, Analysis, EventType, Analyzed
    <3> QED
      BY <2>2, <3>1, <1>0, <1>1, OwedFinish DEF ConnectDone
  <2>3. CASE Panic(t)
    BY <2>3, <1>4 DEF Panic, Running
  <2>4. CASE ~AnalyzeStart(t) /\ ~AnalyzeEnd(t) /\ ~ConnectDone(t) /\ ~Panic(t)
    <3>1. tasks[t].kind \notin Connecting \cup Analysis \/ AnalyzeProgress(t)
      BY <2>4 DEF Work, CommandDone, Answer, SwitchStart, SwitchReady, FetchStart, ListDone,
        ProviderModelsDone, At, Connecting, Analysis
    <3>2. owed' = owed
      BY <3>1, TasksElsewhere
    <3>3. UNCHANGED <<status, preview>>
      BY <2>4 DEF Work, CommandDone, AnalyzeProgress, SwitchStart, SwitchReady, FetchStart,
        ListDone, ProviderModelsDone
    <3> QED
      BY <3>2, <3>3, <1>1
  <2> QED
    BY <2>1, <2>2, <2>3, <2>4
<1>7. CASE Handle
  <2>1. ASSUME NEW taken, taken \cap Analyzed = {}, Receive(taken), UNCHANGED <<status, preview>>,
               UNCHANGED tasks \/ Spawn(Job("FetchModels", None))
        PROVE  Goal
    <3>1. Job("FetchModels", None).kind \notin Analysis
      BY DEF Job, Analysis
    <3>2. owed' = owed
      BY <2>1, <3>1, <1>0, OwedElsewhere
    <3> QED
      BY <2>1, <3>2, <1>1
  <2>2. CASE OnFirstConnect \/ OnReconnect
    <3>1. UNCHANGED preview
      BY <2>2 DEF OnFirstConnect, OnReconnect, SetupConnectsOnce, TypeOK
    <3> QED
      BY <2>2, <3>1, <2>1 DEF OnFirstConnect, OnReconnect, Analyzed
  <2>3. CASE OnSetupFailure \/ OnResult \/ OnNotice \/ OnModelsResult \/ OnProviderModels
    BY <2>3, <2>1 DEF OnSetupFailure, OnResult, OnNotice, OnModelsResult, OnProviderModels, Analyzed
  <2>4. CASE OnAnalyzeResult
    <3>1. Running /\ One(Head(events).type, Analyzed) = 1
      BY <2>4 DEF OnAnalyzeResult, Receive, One, Analyzed
    <3>2. owed' \in Nat /\ owed' = owed - One(Head(events).type, Analyzed)
      BY <2>4, OwedTake DEF OnAnalyzeResult
    <3> QED
      BY <2>4, <3>1, <3>2, <1>3 DEF OnAnalyzeResult
  <2>5. CASE LayoutPanic
    BY <2>5, <1>4 DEF LayoutPanic, Running
  <2> QED
    BY <1>7, <2>2, <2>3, <2>4, <2>5 DEF Handle
<1>8. CASE Exit
  <2>1. CASE Running
    BY <2>1, <1>8, <1>4 DEF Exit, Running
  <2>2. CASE ~Running
    BY <2>2, <1>8, OwedSame DEF Exit, Running, PreviewLock!vars
  <2> QED
    BY <2>1, <2>2
<1>9. CASE UNCHANGED vars
  BY <1>9, <1>1, OwedSame DEF vars
<1> QED
  BY <1>5, <1>6, <1>7, <1>8, <1>9 DEF Next, Terminated

\* The preview implements RequestReply: it stays only while an analysis has its result
\* to deliver, and the first result that is taken closes it
\* (ChatScreen.analysis_preview).
THEOREM PreviewRefinement == Spec => PreviewImplements
<1>1. ASSUME Init PROVE PreviewLock!Init
  <2>1. TypeOK
    BY <1>1, TypeInit
  <2> QED
    BY <1>1, <2>1, OwedType DEF Init, PreviewLock!Init, Running
<1>2. TypeOK /\ SetupConnectsOnce /\ [Next]_vars => [PreviewLock!Next]_(PreviewLock!vars)
  BY PreviewLockStep
<1> QED
  BY <1>1, <1>2, TypeCorrect, SetupCorrect, PTL DEF Spec, PreviewImplements, PreviewLock!Spec

\* The setup form is not locked once the chat screen has replaced it.
ChatConnected == screen = "Chat" => ~connecting

\* Only the form itself locks it, so every step keeps it so.
LEMMA ChatConnectedStep ==
  ASSUME TypeOK, ChatConnected, [Next]_vars
  PROVE  ChatConnected'
BY DEF ChatConnected, Next, Terminated, vars, config, ui, User, SetupSubmit, QuitKey, OpenSettings,
  CycleModel, SubmitCommand, SubmitAnalyze, SubmitApiKey, SubmitExit, SubmitProvider,
  SettingsApplyApp, SubmitModel, SettingsEnter, SettingsDiscard, SettingsLeaveModels,
  SettingsClose, SettingsApplyProvider, SettingsOpenModels, Background, Work, ConnectDone,
  CommandDone, AnalyzeStart, AnalyzeProgress, AnalyzeEnd, SwitchStart, SwitchReady, FetchStart,
  ListDone, ProviderModelsDone, Panic, Handle, OnFirstConnect, OnSetupFailure, OnReconnect,
  OnResult, LayoutPanic, OnAnalyzeResult, OnNotice, OnModelsResult, OnProviderModels, Exit

\* Every step of App is one of RequestReply for the setup form, or leaves it alone.
LEMMA FormStep ==
  ASSUME TypeOK, ChatConnected, [Next]_vars
  PROVE  [FormLock!Next]_(FormLock!vars)
<1> USE DEF config, ui
<1> DEFINE owed == Owed(Connecting, Connected)
           Goal == FormLock!Next \/ UNCHANGED FormLock!vars
<1> SUFFICES Goal
  OBVIOUS
<1>0. "Idle" \notin Connecting /\ owed \in Nat /\ connecting \in BOOLEAN
  BY OwedType DEF Connecting, TypeOK
<1>1. ASSUME UNCHANGED <<status, connecting>>, owed' = owed PROVE Goal
  BY <1>1 DEF FormLock!vars, Running, Connecting, Connected
<1>2. ASSUME Running, UNCHANGED status, connecting' \in {connecting, TRUE}, owed' = owed + 1
      PROVE  Goal
  BY <1>2 DEF FormLock!Next, FormLock!Ask, Running, Connecting, Connected
<1>3. ASSUME Running, UNCHANGED status, connecting' = FALSE, owed' \in Nat, owed' = owed - 1
      PROVE  Goal
  BY <1>0, <1>3 DEF FormLock!Next, FormLock!Answer, Running, Connecting, Connected
<1>4. ASSUME Running, ~Running', UNCHANGED connecting, UNCHANGED <<tasks, events>> PROVE Goal
  BY <1>0, <1>4, OwedSame DEF FormLock!Next, FormLock!Stop, Connecting, Connected
<1>5. CASE User
  <2>1. CASE SetupSubmit \/ SubmitCommand("Connect")
    <3>1. One(Job("Connect", None).kind, Connecting) = 1
      BY DEF One, Job, Connecting
    <3>2. /\ Running /\ Spawn(Job("Connect", None)) /\ UNCHANGED <<status, events>>
          /\ connecting' \in {connecting, TRUE}
      BY <2>1 DEF SetupSubmit, SubmitCommand, Prompt, ChatKey
    <3> QED
      BY <3>1, <3>2, <1>0, <1>2, OwedSpawn
  <2>2. CASE QuitKey \/ SubmitExit
    BY <2>2, <1>4 DEF QuitKey, SubmitExit, Prompt, ChatKey, Running
  <2>3. CASE SubmitAnalyze
    <3>1. Job("Analyze", None).kind \notin Connecting
      BY DEF Job, Connecting
    <3> QED
      BY <2>3, <3>1, <1>0, <1>1, OwedElsewhere DEF SubmitAnalyze
  <2>4. CASE ~SubmitAnalyze /\ ~QuitKey /\ ~SubmitExit /\ ~SetupSubmit /\ ~SubmitCommand("Connect")
    <3>1. UNCHANGED <<status, connecting>>
      BY <1>5, <2>4 DEF User, OpenSettings, CycleModel, SubmitCommand,
        SubmitApiKey, SubmitProvider, SettingsApplyApp, SubmitModel, SettingsEnter,
        SettingsDiscard, SettingsLeaveModels, SettingsClose, SettingsApplyProvider,
        SettingsOpenModels
    <3>2. owed' = owed
      BY <1>5, <2>4, KeysElsewhere
    <3> QED
      BY <3>1, <3>2, <1>1
  <2> QED
    BY <2>1, <2>2, <2>3, <2>4
<1>6. CASE Background
  <2> PICK t \in Task : Work(t) \/ AnalyzeProgress(t)
    BY <1>6 DEF Background
  <2>1. CASE ConnectDone(t)
    <3> PICK type \in {"ConnectOk", "ConnectErr"} : Finish(t, Event(type))
      BY <2>1 DEF ConnectDone
    <3>1. tasks[t].kind \in Connecting /\ Event(type) \in AppEvent /\ Event(type).type \in Connected
      BY <2>1, EventTypeCorrect DEF ConnectDone, At, Connecting, EventType, Connected
    <3> QED
      BY <2>1, <3>1, <1>0, <1>1, OwedFinish DEF ConnectDone
  <2>2. CASE AnalyzeStart(t) \/ AnalyzeEnd(t)
    <3>1. tasks[t].kind \notin Connecting /\ UNCHANGED <<status, connecting>>
      BY <2>2 DEF AnalyzeStart, AnalyzeEnd, At, Connecting
    <3>2. CASE Finish(t, Event("AnalyzeResult"))
      <4>1. Event("AnalyzeResult") \in AppEvent /\ Event("AnalyzeResult").type \notin Connected
        BY EventTypeCorrect DEF EventType, Connected
      <4> QED
        BY <3>1, <3>2, <4>1, <1>0, <1>1, OwedFinish
    <3>3. ASSUME NEW p, Step(t, Job("Analyzing", p)), UNCHANGED events PROVE Goal
      <4>1. Job("Analyzing", p).kind \notin Connecting
        BY DEF Job, Connecting
      <4> QED
        BY <3>1, <3>3, <4>1, <1>0, <1>1, OwedElsewhere
    <3> QED
      BY <2>2, <3>2, <3>3 DEF AnalyzeStart, AnalyzeEnd
  <2>3. CASE Panic(t)
    BY <2>3, <1>4 DEF Panic, Running
  <2>4. CASE ~AnalyzeStart(t) /\ ~AnalyzeEnd(t) /\ ~ConnectDone(t) /\ ~Panic(t)
    <3>1. tasks[t].kind \notin Connecting \cup Analysis \/ AnalyzeProgress(t)
      BY <2>4 DEF Work, CommandDone, Answer, SwitchStart, SwitchReady, FetchStart, ListDone,
        ProviderModelsDone, At, Connecting, Analysis
    <3>2. owed' = owed
      BY <3>1, TasksElsewhere
    <3>3. UNCHANGED <<status, connecting>>
      BY <2>4 DEF Work, CommandDone, AnalyzeProgress, SwitchStart, SwitchReady, FetchStart,
        ListDone, ProviderModelsDone
    <3> QED
      BY <3>2, <3>3, <1>1
  <2> QED
    BY <2>1, <2>2, <2>3, <2>4
<1>7. CASE Handle
  <2>1. ASSUME NEW taken, taken \subseteq Connected, Receive(taken), UNCHANGED status,
               connecting' = FALSE, UNCHANGED tasks \/ Spawn(Job("FetchModels", None))
        PROVE  Goal
    <3>1. Running /\ One(Head(events).type, Connected) = 1
      BY <2>1 DEF Receive, One
    <3>2. One(Job("FetchModels", None).kind, Connecting) = 0
      BY DEF One, Job, Connecting
    <3>3. CASE UNCHANGED tasks
      BY <2>1, <3>1, <3>3, <1>3, OwedTake
    <3>4. CASE Spawn(Job("FetchModels", None))
      <4>1. /\ owed - One(Head(events).type, Connected) \in Nat
            /\ owed' = owed - One(Head(events).type, Connected)
                         + One(Job("FetchModels", None).kind, Connecting)
        BY <2>1, <3>4, <1>0, OwedTakeSpawn
      <4>2. owed' \in Nat /\ owed' = owed - 1
        BY <3>1, <3>2, <4>1, <1>0
      <4> QED
        BY <2>1, <3>1, <4>2, <1>3
    <3> QED
      BY <2>1, <3>3, <3>4
  <2>2. ASSUME NEW taken, taken \cap Connected = {}, Receive(taken),
               UNCHANGED <<status, connecting, tasks>>
        PROVE  Goal
    BY <2>2, <1>0, <1>1, OwedElsewhere
  <2>3. CASE OnFirstConnect \/ OnSetupFailure
    BY <2>3, <2>1 DEF OnFirstConnect, OnSetupFailure, Connected
  <2>4. CASE OnReconnect
    BY <2>4, <2>1 DEF OnReconnect, ChatConnected, TypeOK, Connected
  <2>5. CASE OnResult
    <3>1. \/ Receive({"ConnectErr"})
          \/ Receive({"QueryResult", "ExplainResult", "RelKindResult"})
      BY <2>5 DEF OnResult, Receive
    <3>2. connecting' = FALSE /\ UNCHANGED <<status, connecting, tasks>>
      BY <2>5 DEF OnResult, ChatConnected, TypeOK
    <3> QED
      BY <3>1, <3>2, <2>1, <2>2 DEF Connected
  <2>6. CASE OnAnalyzeResult \/ OnNotice \/ OnModelsResult \/ OnProviderModels
    BY <2>6, <2>2 DEF OnAnalyzeResult, OnNotice, OnModelsResult, OnProviderModels, Connected
  <2>7. CASE LayoutPanic
    BY <2>7, <1>4 DEF LayoutPanic, Running
  <2> QED
    BY <1>7, <2>3, <2>4, <2>5, <2>6, <2>7 DEF Handle
<1>8. CASE Exit
  <2>1. CASE Running
    BY <2>1, <1>8, <1>4 DEF Exit, Running
  <2>2. CASE ~Running
    BY <2>2, <1>8, OwedSame DEF Exit, Running, FormLock!vars
  <2> QED
    BY <2>1, <2>2
<1>9. CASE UNCHANGED vars
  BY <1>9, <1>1, OwedSame DEF vars
<1> QED
  BY <1>5, <1>6, <1>7, <1>8, <1>9 DEF Next, Terminated

\* The setup form implements RequestReply: it is locked only while an attempt is under
\* way, and its answer opens it or replaces the form (SetupScreen.connecting).
THEOREM FormRefinement == Spec => FormImplements
<1>1. ASSUME Init PROVE FormLock!Init
  <2>1. TypeOK
    BY <1>1, TypeInit
  <2>2. Owed(Connecting, Connected) \in Nat
    BY <2>1, OwedType
  <2>3. connecting => Owed(Connecting, Connected) > 0
    <3>1. ASSUME connecting PROVE \E t \in Task : t \in Working(Connecting)
      BY <1>1, <3>1 DEF Init, Job, Working, Connecting
    <3>2. ASSUME NEW t \in Working(Connecting) PROVE Cardinality(Working(Connecting)) # 0
      BY <2>1, <3>2, OwedType, FS_EmptySet
    <3> QED
      BY <2>1, <3>1, <3>2, OwedType
  <2> QED
    BY <1>1, <2>1, <2>2, <2>3 DEF Init, FormLock!Init, Running, TypeOK, Connecting, Connected
<1>2. Init => ChatConnected
  BY DEF Init, ChatConnected
<1>3. TypeOK /\ ChatConnected /\ [Next]_vars => ChatConnected'
  BY ChatConnectedStep
<1>4. TypeOK /\ ChatConnected /\ [Next]_vars => [FormLock!Next]_(FormLock!vars)
  BY FormStep
<1> QED
  BY <1>1, <1>2, <1>3, <1>4, TypeCorrect, PTL DEF Spec, FormImplements, FormLock!Spec

=============================================================================
