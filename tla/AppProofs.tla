----------------------------- MODULE AppProofs -----------------------------
(***************************************************************************)
(* Theorems about App, for any providers, models, listings and number of   *)
(* tasks.  The proofs of invariance have one step per action; lemmas say   *)
(* what spawning, finishing and receiving do to the work that is pending.  *)
(* First the types, the setup screen and the prompt; then what the chat    *)
(* shows: the preview of an analysis, the loading mark of the model        *)
(* picker, the selected model and the provider sections behind them.  The  *)
(* last two theorems say what must happen for two statements that App does *)
(* not keep, about the models on offer and about aborts, to fail.          *)
(***************************************************************************)
EXTENDS App, SequenceTheorems, WellFoundedInduction, TLAPS

(***************************************************************************)
(* Operators.                                                              *)
(***************************************************************************)
\* Ctrl+M selects a model that is in the list (ChatScreen::cycle_model).
LEMMA NextModelListed ==
  ASSUME NEW list \in Seq(Model), list # <<>>, NEW m
  PROVE  /\ NextModel(list, m) \in Model
         /\ Offered(list, NextModel(list, m))
<1> DEFINE at == {i \in DOMAIN list : list[i] = m}
           first == CHOOSE i \in at : \A j \in at : i =< j
<1>1. DOMAIN list = 1 .. Len(list) /\ Len(list) \in Nat \ {0}
  BY EmptySeq, LenProperties
<1>2. \A k \in 1 .. Len(list) : list[k] \in Model /\ Offered(list, list[k])
  BY <1>1, ElementOfSeq DEF Offered
<1>3. CASE at = {}
  BY <1>1, <1>2, <1>3 DEF NextModel
<1>4. CASE at # {}
  <2>1. at \subseteq Nat
    BY <1>1
  <2>2. PICK i \in at : \A j \in at : ~(<<j, i>> \in OpToRel(<, Nat))
    BY <2>1, <1>4, NatLessThanWellFounded, WFMin
  <2>3. ASSUME NEW j \in at PROVE i =< j
    <3>1. i \in Nat /\ j \in Nat
      BY <2>1
    <3>2. ~(<<j, i>>[1] < <<j, i>>[2])
      BY <2>2, <3>1, Zenon DEF OpToRel
    <3> QED
      BY <3>1, <3>2
  <2>4. first \in 1 .. Len(list)
    BY <2>2, <2>3, <1>1
  <2>5. (first % Len(list)) + 1 \in 1 .. Len(list)
    BY <2>4, <1>1
  <2>6. NextModel(list, m) = list[(first % Len(list)) + 1]
    BY <1>4 DEF NextModel
  <2> QED
    BY <2>5, <2>6, <1>2
<1> QED
  BY <1>3, <1>4

\* A task slot that is taken holds the new job; the others are untouched.
LEMMA SpawnTakesASlot ==
  ASSUME TypeOK, NEW job, Spawn(job)
  PROVE  \E t \in Task : /\ tasks[t] = Idle
                         /\ tasks'[t] = job
                         /\ \A u \in Task \ {t} : tasks'[u] = tasks[u]
BY DEF TypeOK, Spawn

\* A job for a known provider, or for none, is a task (spawn_*, app.rs).
LEMMA JobType ==
  ASSUME NEW kind \in TaskKind, NEW p \in Provider \cup {None}
  PROVE  Job(kind, p) \in TaskState /\ Job(kind, p).kind = kind /\ Job(kind, p).of = p
BY DEF Job, TaskState

\* An event without a list is an event of the channel (AppEvent, app.rs).
LEMMA EventTypeCorrect ==
  ASSUME NEW type \in EventType
  PROVE  Event(type) \in AppEvent /\ Event(type).type = type
BY EmptySeq DEF Event, AppEvent

(***************************************************************************)
(* Type correctness.                                                       *)
(***************************************************************************)
\* What TypeOK says of the tasks.
TasksOK ==
  /\ tasks \in [Task -> TaskState]
  /\ \A t \in Task : tasks[t].kind = "ProviderModels" => tasks[t].of \in Provider

\* Spawning keeps the tasks well typed.
LEMMA SpawnType ==
  ASSUME TypeOK, NEW job \in TaskState, Spawn(job),
         job.kind = "ProviderModels" => job.of \in Provider
  PROVE  TasksOK'
BY DEF TypeOK, TasksOK, Spawn

\* So does a step of a task to a well typed state.
LEMMA StepType ==
  ASSUME TypeOK, NEW job \in TaskState, NEW t \in Task, Step(t, job),
         job.kind = "ProviderModels" => job.of \in Provider
  PROVE  TasksOK'
BY DEF TypeOK, TasksOK, Step

\* The same for a job of a kind that carries no section.
LEMMA JobsType ==
  ASSUME TypeOK, NEW kind \in TaskKind \ {"ProviderModels"}, NEW p \in Provider \cup {None}
  PROVE  /\ Spawn(Job(kind, p)) => TasksOK'
         /\ \A t \in Task : Step(t, Job(kind, p)) => TasksOK'
BY JobType, SpawnType, StepType

\* A task that ends leaves well typed tasks and a well typed channel.
LEMMA FinishType ==
  ASSUME TypeOK, NEW e \in AppEvent, NEW t \in Task, Finish(t, e)
  PROVE  TasksOK' /\ events' \in Seq(AppEvent)
<1>1. Idle \in TaskState /\ Idle.kind # "ProviderModels"
  BY JobType DEF Idle, TaskKind
<1>2. TasksOK'
  BY <1>1, StepType DEF Finish
<1>3. events' \in Seq(AppEvent)
  BY AppendProperties DEF Finish, TypeOK
<1> QED
  BY <1>2, <1>3

\* Taking the first event leaves a well typed channel (App::run).
LEMMA ReceiveType ==
  ASSUME TypeOK, NEW types, Receive(types)
  PROVE  /\ events' \in Seq(AppEvent)
         /\ Head(events) \in AppEvent /\ Head(events).type \in types
BY HeadTailProperties DEF TypeOK, Receive

\* A client is one of a known provider, or there is none.
LEMMA ClientsType == Clients \subseteq Provider \cup {None}
BY DEF Clients

\* Setting the model keeps every section well typed (set_provider_model).
LEMMA WithModelType ==
  ASSUME TypeOK, NEW m \in Model
  PROVE  WithModel(m) \in [Provider -> Section]
BY DEF TypeOK, WithModel, Section

\* The closed overlay is well typed (ChatScreen.settings is None).
LEMMA ClosedType == SettingsClosed \in SettingsState /\ SettingsClosed.node = "Menu"
BY DEF SettingsClosed, SettingsState, Blank, Section

\* So is the overlay after Esc in a form (SettingsScreen::back).
LEMMA UpType ==
  ASSUME TypeOK
  PROVE  /\ Up \in SettingsState /\ Up.node = "Menu"
         /\ Applied \in SettingsState /\ Applied.node = "Menu"
<1>1. Blank \in Section
  BY DEF Blank, Section
<1> QED
  BY <1>1 DEF TypeOK, SettingsState, Up, Applied

\* The state that App::new builds is well typed.
LEMMA TypeInit == Init => TypeOK
<1> SUFFICES ASSUME Init PROVE TypeOK
  OBVIOUS
<1>1. TasksOK
  BY JobType DEF Init, TasksOK, Idle, TaskKind, PlainCommand
<1>2. events \in Seq(AppEvent) /\ models \in Seq(Model)
  BY EmptySeq DEF Init
<1>3. settings \in SettingsState /\ settings.node = "Menu"
  BY ClosedType DEF Init
<1> QED
  BY <1>1, <1>2, <1>3 DEF Init, TypeOK, TasksOK

\* The keys.
LEMMA TypeUser ==
  ASSUME TypeOK, User
  PROVE  TypeOK'
<1> USE DEF config, ui
<1>1. CASE SetupSubmit
  <2>1. TasksOK'
    BY <1>1, JobsType DEF SetupSubmit, TaskKind, PlainCommand
  <2> QED
    BY <1>1, <2>1 DEF SetupSubmit, TypeOK, TasksOK
<1>2. CASE QuitKey
  BY <1>2 DEF QuitKey, TypeOK
<1>3. CASE OpenSettings
  <2>1. settings' \in SettingsState /\ settings'.node = "Menu"
    BY <1>3, ClosedType DEF OpenSettings, SettingsState
  <2> QED
    BY <1>3, <2>1 DEF OpenSettings, TypeOK
<1>4. CASE CycleModel
  <2>1. section' \in [Provider -> Section]
    BY <1>4, NextModelListed, WithModelType DEF CycleModel, TypeOK
  <2> QED
    BY <1>4, <2>1 DEF CycleModel, TypeOK
<1>5. ASSUME NEW kind \in PlainCommand, SubmitCommand(kind) PROVE TypeOK'
  <2>1. TasksOK'
    BY <1>5, JobsType DEF SubmitCommand, TaskKind, PlainCommand
  <2> QED
    BY <1>5, <2>1 DEF SubmitCommand, TypeOK, TasksOK
<1>6. CASE SubmitAnalyze
  <2>1. TasksOK'
    BY <1>6, JobsType DEF SubmitAnalyze, TaskKind
  <2> QED
    BY <1>6, <2>1 DEF SubmitAnalyze, TypeOK, TasksOK
<1>7. CASE SubmitApiKey
  <2>1. TasksOK'
    BY <1>7, JobsType DEF SubmitApiKey, TaskKind
  <2> QED
    BY <1>7, <2>1 DEF SubmitApiKey, TypeOK, TasksOK
<1>8. CASE SubmitExit
  BY <1>8 DEF SubmitExit, TypeOK
<1>9. ASSUME NEW p \in Provider, SubmitProvider(p) PROVE TypeOK'
  <2>1. TasksOK'
    BY <1>9, JobsType DEF SubmitProvider, TaskKind
  <2> QED
    BY <1>9, <2>1 DEF SubmitProvider, TypeOK, TasksOK
<1>10. ASSUME NEW p \in Provider, SettingsApplyApp(p) PROVE TypeOK'
  BY <1>10, UpType DEF SettingsApplyApp, TypeOK
<1>11. ASSUME NEW m \in Model, SubmitModel(m) PROVE TypeOK'
  <2>1. section' \in [Provider -> Section]
    BY <1>11, WithModelType DEF SubmitModel
  <2> QED
    BY <1>11, <2>1 DEF SubmitModel, TypeOK
<1>12. CASE SettingsEnter
  <2>1. settings \in SettingsState /\ \A p \in Provider : section[p] \in Section
    BY DEF TypeOK
  <2>2. /\ settings' \in SettingsState
        /\ settings'.node \in {"Provider", "Models"} => settings'.of \in Provider
    BY <1>12, <2>1 DEF SettingsEnter, SettingsKey, SettingsState
  <2> QED
    BY <1>12, <2>2 DEF SettingsEnter, TypeOK
<1>13. CASE SettingsDiscard
  BY <1>13, UpType DEF SettingsDiscard, TypeOK
<1>14. CASE SettingsLeaveModels
  <2>1. settings.form \in Section /\ settings.form.model \in Model \cup {None}
    BY DEF TypeOK, SettingsState, Section
  <2>2. PICK m \in Model \cup {None} :
          settings' = [settings EXCEPT !.node = "Provider", !.form = [@ EXCEPT !.model = m],
                                       !.loading = FALSE]
    BY <1>14, <2>1 DEF SettingsLeaveModels
  <2>3. [settings.form EXCEPT !.model = m] \in Section
    BY <2>1 DEF Section
  <2>4. settings' \in SettingsState /\ settings'.of = settings.of /\ settings.of \in Provider
    BY <1>14, <2>2, <2>3 DEF SettingsLeaveModels, SettingsKey, TypeOK, SettingsState
  <2> QED
    BY <1>14, <2>4 DEF SettingsLeaveModels, TypeOK
<1>15. CASE SettingsClose
  <2>1. TasksOK'
    <3>1. CASE settings.dirty
      BY <1>15, <3>1, JobsType DEF SettingsClose, TaskKind
    <3>2. CASE ~settings.dirty
      BY <1>15, <3>2 DEF SettingsClose, TypeOK, TasksOK
    <3> QED
      BY <3>1, <3>2
  <2>2. settings' \in SettingsState /\ settings'.node = "Menu"
    BY <1>15, ClosedType DEF SettingsClose
  <2> QED
    BY <1>15, <2>1, <2>2 DEF SettingsClose, TypeOK, TasksOK
<1>16. ASSUME NEW s \in Section, SettingsApplyProvider(s) PROVE TypeOK'
  BY <1>16, UpType DEF SettingsApplyProvider, TypeOK
<1>17. ASSUME NEW s \in Section, SettingsOpenModels(s) PROVE TypeOK'
  <2> DEFINE job == [Job("ProviderModels", settings.of) EXCEPT !.filled = Complete(s)]
  <2>1. settings.of \in Provider
    BY <1>17 DEF SettingsOpenModels, SettingsKey, TypeOK
  <2>2. job \in TaskState /\ job.of \in Provider
    BY <2>1 DEF Job, TaskState, TaskKind, Complete, Section
  <2>3. TasksOK'
    BY <1>17, <2>2, SpawnType DEF SettingsOpenModels
  <2>4. settings' \in SettingsState /\ settings'.of \in Provider
    BY <1>17, <2>1 DEF SettingsOpenModels, TypeOK, SettingsState
  <2> QED
    BY <1>17, <2>3, <2>4 DEF SettingsOpenModels, TypeOK, TasksOK
<1> QED
  BY <1>1, <1>2, <1>3, <1>4, <1>5, <1>6, <1>7, <1>8, <1>9, <1>10, <1>11, <1>12,
     <1>13, <1>14, <1>15, <1>16, <1>17 DEF User

\* The tasks.
LEMMA TypeBackground ==
  ASSUME TypeOK, Background
  PROVE  TypeOK'
<1> USE DEF config, ui
<1> PICK t \in Task : Work(t) \/ AnalyzeProgress(t)
  BY DEF Background
<1>1. CASE ConnectDone(t)
  <2>1. TasksOK' /\ events' \in Seq(AppEvent)
    BY <1>1, EventTypeCorrect, FinishType DEF ConnectDone, EventType
  <2> QED
    BY <1>1, <2>1 DEF ConnectDone, TypeOK, TasksOK
<1>2. CASE CommandDone(t)
  <2>1. Answer[tasks[t].kind] \subseteq EventType
    BY <1>2 DEF CommandDone, Answer, EventType
  <2>2. TasksOK' /\ events' \in Seq(AppEvent)
    BY <1>2, <2>1, EventTypeCorrect, FinishType DEF CommandDone
  <2> QED
    BY <1>2, <2>2 DEF CommandDone, TypeOK, TasksOK
<1>3. CASE AnalyzeStart(t)
  <2> PICK client \in Clients :
        IF client = None THEN Finish(t, Event("AnalyzeResult"))
        ELSE Step(t, Job("Analyzing", client)) /\ UNCHANGED events
    BY <1>3 DEF AnalyzeStart
  <2>1. CASE client = None
    <3>1. TasksOK' /\ events' \in Seq(AppEvent)
      BY <2>1, EventTypeCorrect, FinishType DEF EventType
    <3> QED
      BY <1>3, <3>1 DEF AnalyzeStart, TypeOK, TasksOK
  <2>2. CASE client # None
    <3>1. TasksOK'
      BY <2>2, ClientsType, JobsType DEF TaskKind
    <3> QED
      BY <1>3, <2>2, <3>1 DEF AnalyzeStart, TypeOK, TasksOK
  <2> QED
    BY <2>1, <2>2
<1>4. CASE AnalyzeEnd(t)
  <2>1. TasksOK' /\ events' \in Seq(AppEvent)
    BY <1>4, EventTypeCorrect, FinishType DEF AnalyzeEnd, EventType
  <2> QED
    BY <1>4, <2>1 DEF AnalyzeEnd, TypeOK, TasksOK
<1>5. CASE SwitchStart(t)
  <2>1. TasksOK'
    BY <1>5, ClientsType, JobsType DEF SwitchStart, TaskKind
  <2> QED
    BY <1>5, <2>1 DEF SwitchStart, TypeOK, TasksOK
<1>6. CASE SwitchReady(t)
  <2>1. tasks[t].of \in Provider \cup {None}
    BY DEF TypeOK, TaskState
  <2>2. TasksOK'
    BY <1>6, <2>1, JobsType DEF SwitchReady, TaskKind
  <2>3. events' \in Seq(AppEvent)
    BY <1>6, EventTypeCorrect, AppendProperties DEF SwitchReady, EventType, TypeOK
  <2> QED
    BY <1>6, <2>2, <2>3 DEF SwitchReady, TypeOK, TasksOK
<1>7. CASE FetchStart(t)
  <2>1. TasksOK'
    BY <1>7, ClientsType, JobsType DEF FetchStart, TaskKind
  <2> QED
    BY <1>7, <2>1 DEF FetchStart, TypeOK, TasksOK
<1>8. CASE ListDone(t)
  <2> PICK list \in Listings(tasks[t].of) :
        Finish(t, [Event("ModelsResult") EXCEPT !.list = list])
    BY <1>8 DEF ListDone
  <2>1. list \in Seq(Model)
    BY OffersAssumption, EmptySeq DEF Listings
  <2>2. [Event("ModelsResult") EXCEPT !.list = list] \in AppEvent
    BY <2>1 DEF Event, AppEvent, EventType
  <2>3. TasksOK' /\ events' \in Seq(AppEvent)
    BY <2>2, FinishType
  <2> QED
    BY <1>8, <2>3 DEF ListDone, TypeOK, TasksOK
<1>9. CASE ProviderModelsDone(t)
  <2>1. [Event("ProviderModelsResult") EXCEPT !.of = tasks[t].of] \in AppEvent
    BY EmptySeq DEF Event, AppEvent, EventType, TypeOK, TaskState
  <2>2. TasksOK' /\ events' \in Seq(AppEvent)
    BY <1>9, <2>1, FinishType DEF ProviderModelsDone
  <2> QED
    BY <1>9, <2>2 DEF ProviderModelsDone, TypeOK, TasksOK
<1>10. CASE Panic(t)
  BY <1>10 DEF Panic, TypeOK
<1>11. CASE AnalyzeProgress(t)
  <2>1. events' \in Seq(AppEvent)
    BY <1>11, EventTypeCorrect, AppendProperties DEF AnalyzeProgress, EventType, TypeOK
  <2> QED
    BY <1>11, <2>1 DEF AnalyzeProgress, TypeOK
<1> QED
  BY <1>1, <1>2, <1>3, <1>4, <1>5, <1>6, <1>7, <1>8, <1>9, <1>10, <1>11 DEF Work

\* The event loop.
LEMMA TypeHandle ==
  ASSUME TypeOK, Handle
  PROVE  TypeOK'
<1> USE DEF config, ui
<1>1. CASE OnFirstConnect
  <2>1. TasksOK'
    BY <1>1, JobsType DEF OnFirstConnect, TaskKind
  <2>2. events' \in Seq(AppEvent)
    BY <1>1, ReceiveType DEF OnFirstConnect
  <2>3. models' \in Seq(Model) /\ settings' \in SettingsState /\ settings'.node = "Menu"
    BY <1>1, EmptySeq, ClosedType DEF OnFirstConnect
  <2> QED
    BY <1>1, <2>1, <2>2, <2>3 DEF OnFirstConnect, TypeOK, TasksOK
<1>2. CASE OnSetupFailure
  BY <1>2, ReceiveType DEF OnSetupFailure, TypeOK
<1>3. CASE OnReconnect
  <2>1. TasksOK'
    BY <1>3, JobsType DEF OnReconnect, TaskKind
  <2>2. events' \in Seq(AppEvent)
    BY <1>3, ReceiveType DEF OnReconnect
  <2> QED
    BY <1>3, <2>1, <2>2 DEF OnReconnect, TypeOK, TasksOK
<1>4. CASE OnResult
  BY <1>4, ReceiveType DEF OnResult, TypeOK
<1>5. CASE OnAnalyzeResult
  BY <1>5, ReceiveType DEF OnAnalyzeResult, TypeOK
<1>6. CASE OnNotice
  BY <1>6, ReceiveType DEF OnNotice, TypeOK
<1>7. CASE OnModelsResult
  <2> DEFINE list == Head(events).list
  <2>1. events' \in Seq(AppEvent) /\ list \in Seq(Model)
    BY <1>7, ReceiveType DEF OnModelsResult, AppEvent
  <2>2. section' \in [Provider -> Section]
    <3>1. CASE list = <<>> \/ Offered(list, CurrentModel)
      BY <1>7, <3>1 DEF OnModelsResult, TypeOK
    <3>2. CASE ~(list = <<>> \/ Offered(list, CurrentModel))
      <4>1. list[1] \in Model
        BY <2>1, <3>2, EmptySeq, ElementOfSeq
      <4>2. section' = WithModel(list[1])
        BY <1>7, <3>2 DEF OnModelsResult
      <4> QED
        BY <4>1, <4>2, WithModelType
    <3> QED
      BY <3>1, <3>2
  <2> QED
    BY <1>7, <2>1, <2>2 DEF OnModelsResult, TypeOK
<1>8. CASE OnProviderModels
  <2>1. events' \in Seq(AppEvent)
    BY <1>8, ReceiveType DEF OnProviderModels
  <2>2. /\ settings' \in SettingsState
        /\ settings'.node = settings.node /\ settings'.of = settings.of
    BY <1>8 DEF OnProviderModels, TypeOK, SettingsState
  <2> QED
    BY <1>8, <2>1, <2>2 DEF OnProviderModels, TypeOK
<1>9. CASE LayoutPanic
  BY <1>9 DEF LayoutPanic, TypeOK
<1> QED
  BY <1>1, <1>2, <1>3, <1>4, <1>5, <1>6, <1>7, <1>8, <1>9 DEF Handle

\* Every variable keeps its type.
THEOREM TypeCorrect == Spec => []TypeOK
<1>1. TypeOK /\ [Next]_vars => TypeOK'
  <2> SUFFICES ASSUME TypeOK, [Next]_vars PROVE TypeOK'
    OBVIOUS
  <2>1. CASE Exit
    BY <2>1 DEF Exit, TypeOK, config, ui
  <2>2. CASE UNCHANGED vars
    BY <2>2 DEF vars, TypeOK
  <2> QED
    BY <2>1, <2>2, TypeUser, TypeBackground, TypeHandle DEF Next, Terminated
<1> QED
  BY <1>1, TypeInit, PTL DEF Spec

(***************************************************************************)
(* Pending work.  kinds and types are any sets of task kinds and event     *)
(* types, Idle not among the kinds.                                        *)
(***************************************************************************)
\* Spawning takes an idle slot, so it loses nothing that is pending.
LEMMA PendingSpawn ==
  ASSUME TypeOK, NEW kinds, NEW types, "Idle" \notin kinds,
         NEW job, Spawn(job), UNCHANGED events,
         Pending(kinds, types) \/ job.kind \in kinds
  PROVE  Pending(kinds, types)'
<1> PICK t \in Task : /\ tasks[t] = Idle
                      /\ tasks'[t] = job
                      /\ \A u \in Task \ {t} : tasks'[u] = tasks[u]
  BY SpawnTakesASlot
<1>1. tasks[t].kind \notin kinds
  BY DEF Idle, Job
<1> QED
  BY <1>1 DEF Pending

\* Sending an event keeps the events that wait and adds itself.
LEMMA SendKeeps ==
  ASSUME TypeOK, NEW e \in AppEvent, events' = Append(events, e)
  PROVE  /\ \A i \in DOMAIN events : i \in DOMAIN events' /\ events'[i] = events[i]
         /\ \E i \in DOMAIN events' : events'[i] = e
<1>1. events \in Seq(AppEvent)
  BY DEF TypeOK
<1>2. /\ Len(events) \in Nat /\ Len(events') = Len(events) + 1
      /\ DOMAIN events = 1 .. Len(events) /\ DOMAIN events' = 1 .. Len(events')
      /\ \A i \in 1 .. Len(events) : events'[i] = events[i]
      /\ events'[Len(events) + 1] = e
  BY <1>1, AppendProperties, LenProperties
<1> QED
  BY <1>2

\* A task that ends replaces itself by the event it sends.
LEMMA PendingFinish ==
  ASSUME TypeOK, NEW kinds, NEW types, NEW t \in Task, NEW e \in AppEvent, Finish(t, e),
         tasks[t].kind \in kinds => e.type \in types,
         Pending(kinds, types)
  PROVE  Pending(kinds, types)'
<1>1. \A u \in Task \ {t} : tasks'[u] = tasks[u]
  BY DEF TypeOK, Finish, Step
<1>2. /\ \A i \in DOMAIN events : i \in DOMAIN events' /\ events'[i] = events[i]
      /\ \E i \in DOMAIN events' : events'[i] = e
  BY SendKeeps DEF Finish
<1> QED
  BY <1>1, <1>2 DEF Pending

\* Taking an event of another type leaves what is pending.
LEMMA TailKeeps ==
  ASSUME TypeOK, events # <<>>, events' = Tail(events)
  PROVE  \A i \in DOMAIN events :
           events[i] = Head(events) \/ \E j \in DOMAIN events' : events'[j] = events[i]
<1>1. events \in Seq(AppEvent)
  BY DEF TypeOK
<1>2. /\ Len(events) \in Nat \ {0} /\ Len(events') = Len(events) - 1
      /\ DOMAIN events = 1 .. Len(events) /\ DOMAIN events' = 1 .. Len(events')
      /\ \A j \in 1 .. Len(events') : events'[j] = events[j + 1]
      /\ Head(events) = events[1]
  BY <1>1, HeadTailProperties, LenProperties, EmptySeq
<1> SUFFICES ASSUME NEW i \in DOMAIN events, i # 1
             PROVE  \E j \in DOMAIN events' : events'[j] = events[i]
  BY <1>2
<1>3. i - 1 \in DOMAIN events' /\ events'[i - 1] = events[i]
  BY <1>2
<1> QED
  BY <1>3

\* Taking the first event loses only that event from what is pending.
LEMMA PendingReceive ==
  ASSUME TypeOK, NEW kinds, NEW types, NEW taken, Receive(taken),
         taken \cap types = {}, UNCHANGED tasks, Pending(kinds, types)
  PROVE  Pending(kinds, types)'
BY TailKeeps DEF Pending, Receive

(***************************************************************************)
(* The setup screen.                                                       *)
(***************************************************************************)
\* A step on the setup screen keeps its one attempt (setup.rs, app.rs).
LEMMA SetupStep ==
  ASSUME TypeOK, SetupConnectsOnce, [Next]_vars
  PROVE  SetupConnectsOnce'
<1> USE DEF config, ui
<1> SUFFICES ASSUME screen' = "Setup" PROVE SetupConnectsOnce'
  BY DEF SetupConnectsOnce
<1> DEFINE Fresh == ~busy /\ ~preview /\ models = <<>> /\ settings = SettingsClosed
<1>1. CASE SetupSubmit
  <2>1. Fresh /\ events = <<>> /\ \A t \in Task : tasks[t] = Idle
    BY <1>1 DEF SetupSubmit, SetupConnectsOnce
  <2>2. PICK t \in Task : /\ tasks'[t] = Job("Connect", None)
                          /\ \A u \in Task \ {t} : tasks'[u] = tasks[u]
    BY <1>1, SpawnTakesASlot DEF SetupSubmit
  <2>3. tasks'[t].kind = "Connect"
    BY <2>2 DEF Job
  <2> QED
    BY <1>1, <2>1, <2>2, <2>3 DEF SetupSubmit, SetupConnectsOnce
<1>2. CASE QuitKey \/ Exit \/ UNCHANGED vars
  BY <1>2 DEF QuitKey, Exit, vars, SetupConnectsOnce
<1>3. CASE User /\ ~SetupSubmit /\ ~QuitKey
  <2>1. screen = "Chat" \/ settings.open
    BY <1>3 DEF User, OpenSettings, CycleModel, SubmitCommand, SubmitAnalyze, SubmitApiKey,
      SubmitExit, SubmitProvider, SettingsApplyApp, SubmitModel, SettingsEnter, SettingsDiscard,
      SettingsLeaveModels, SettingsClose, SettingsApplyProvider, SettingsOpenModels, Prompt,
      ChatKey, SettingsKey
  <2>2. screen' = screen
    BY <1>3 DEF User, OpenSettings, CycleModel, SubmitCommand, SubmitAnalyze, SubmitApiKey,
      SubmitExit, SubmitProvider, SettingsApplyApp, SubmitModel, SettingsEnter, SettingsDiscard,
      SettingsLeaveModels, SettingsClose, SettingsApplyProvider, SettingsOpenModels
  <2> QED
    BY <2>1, <2>2 DEF SetupConnectsOnce, SettingsClosed
<1>4. CASE Background
  <2> PICK t \in Task : Work(t) \/ AnalyzeProgress(t)
    BY <1>4 DEF Background
  <2>1. screen = "Setup" /\ UNCHANGED ui
    BY DEF Work, ConnectDone, CommandDone, AnalyzeStart, AnalyzeProgress, AnalyzeEnd, SwitchStart,
      SwitchReady, FetchStart, ListDone, ProviderModelsDone, Panic
  <2>2. tasks[t].kind \in {"Idle", "Connect"}
    BY <2>1 DEF SetupConnectsOnce, Idle, Job
  <2>3. ConnectDone(t)
    BY <2>2 DEF Work, CommandDone, Answer, AnalyzeStart, AnalyzeProgress, AnalyzeEnd, SwitchStart,
      SwitchReady, FetchStart, ListDone, ProviderModelsDone, Panic, At
  <2>4. /\ connecting /\ events = <<>> /\ Fresh
        /\ \A u \in Task \ {t} : tasks[u] = Idle
    <3>1. tasks[t].kind = "Connect" /\ tasks[t] # Idle
      BY <2>3 DEF ConnectDone, At, Idle, Job
    <3> QED
      BY <2>1, <3>1 DEF SetupConnectsOnce, Idle, Job
  <2>5. PICK type \in {"ConnectOk", "ConnectErr"} : Finish(t, Event(type))
    BY <2>3 DEF ConnectDone
  <2>6. \A u \in Task : tasks'[u] = Idle
    BY <2>4, <2>5 DEF Finish, Step, TypeOK
  <2>7. events' = <<Event(type)>>
    BY <2>4, <2>5 DEF Finish
  <2>8. Len(events') = 1 /\ Head(events').type \in {"ConnectOk", "ConnectErr"}
    BY <2>7 DEF Event
  <2> QED
    BY <2>1, <2>4, <2>6, <2>8 DEF SetupConnectsOnce
<1>5. CASE Handle
  <2>1. screen = "Setup"
    BY <1>5 DEF Handle, OnFirstConnect, OnSetupFailure, OnReconnect, OnResult, OnAnalyzeResult,
      LayoutPanic, OnNotice, OnModelsResult, OnProviderModels
  <2>2. OnSetupFailure
    BY <1>5, <2>1 DEF Handle, OnFirstConnect, OnReconnect, OnResult, OnAnalyzeResult,
      LayoutPanic, OnNotice, OnModelsResult, OnProviderModels
  <2>3. Fresh /\ Len(events) = 1 /\ \A t \in Task : tasks[t] = Idle
    BY <2>1, <2>2 DEF OnSetupFailure, Receive, SetupConnectsOnce
  <2>4. events' = <<>>
    <3>1. events' \in Seq(AppEvent) /\ Len(events') = 0
      BY <2>2, <2>3, HeadTailProperties DEF OnSetupFailure, Receive, TypeOK
    <3> QED
      BY <3>1, EmptySeq
  <2> QED
    BY <2>2, <2>3, <2>4 DEF OnSetupFailure, SetupConnectsOnce
<1> QED
  BY <1>1, <1>2, <1>3, <1>4, <1>5 DEF Next, Terminated

\* At most one connection attempt is in flight before the first chat.
THEOREM SetupCorrect == Spec => []SetupConnectsOnce
<1>1. ASSUME Init PROVE SetupConnectsOnce
  <2>1. CASE connecting
    <3>1. PICK s \in Task :
            tasks = [t \in Task |-> IF t = s THEN Job("Connect", None) ELSE Idle]
      BY <1>1, <2>1 DEF Init
    <3>2. tasks[s].kind = "Connect" /\ \A u \in Task \ {s} : tasks[u] = Idle
      BY <3>1 DEF Job
    <3> QED
      BY <1>1, <2>1, <3>2 DEF Init, SetupConnectsOnce
  <2>2. CASE ~connecting
    BY <1>1, <2>2 DEF Init, SetupConnectsOnce
  <2> QED
    BY <2>1, <2>2
<1>2. TypeOK /\ SetupConnectsOnce /\ [Next]_vars => SetupConnectsOnce'
  BY SetupStep
<1> QED
  BY <1>1, <1>2, TypeCorrect, PTL DEF Spec

(***************************************************************************)
(* The locked prompt.                                                      *)
(***************************************************************************)
\* A step that leaves the prompt locked leaves an answer pending.
LEMMA BusyStep ==
  ASSUME TypeOK, SetupConnectsOnce, BusyHasCause, [Next]_vars
  PROVE  BusyHasCause'
<1> USE DEF config, ui
<1> SUFFICES ASSUME status' = "running", busy' PROVE Pending(BusyTask, BusyEvent)'
  BY DEF BusyHasCause, Running
<1>0. "Idle" \notin BusyTask
  BY DEF BusyTask
<1>1. ASSUME status = "running", busy, UNCHANGED <<tasks, events>>
      PROVE  Pending(BusyTask, BusyEvent)'
  BY <1>1 DEF BusyHasCause, Running, Pending
<1>2. ASSUME NEW kind \in BusyTask, NEW p, Spawn(Job(kind, p)), UNCHANGED events
      PROVE  Pending(BusyTask, BusyEvent)'
  BY <1>0, <1>2, PendingSpawn DEF Job
<1>3. CASE User
  <2>1. CASE SetupSubmit
    BY <2>1, <1>2 DEF SetupSubmit, BusyTask, TaskKind, PlainCommand
  <2>2. CASE QuitKey \/ SubmitExit
    BY <2>2 DEF QuitKey, SubmitExit
  <2>3. CASE OpenSettings \/ CycleModel \/ SettingsEnter \/ SettingsDiscard \/ SettingsLeaveModels
    BY <2>3, <1>1 DEF OpenSettings, CycleModel, SettingsEnter, SettingsDiscard,
      SettingsLeaveModels, ChatKey, SettingsKey, Running
  <2>4. ASSUME NEW kind \in PlainCommand, SubmitCommand(kind) PROVE Pending(BusyTask, BusyEvent)'
    BY <2>4, <1>2 DEF SubmitCommand, BusyTask, TaskKind, PlainCommand
  <2>5. CASE SubmitAnalyze
    BY <2>5, <1>2 DEF SubmitAnalyze, BusyTask, TaskKind
  <2>6. CASE SubmitApiKey
    BY <2>6, <1>2 DEF SubmitApiKey, BusyTask, TaskKind
  <2>7. ASSUME NEW p \in Provider, SubmitProvider(p) PROVE Pending(BusyTask, BusyEvent)'
    BY <2>7, <1>2 DEF SubmitProvider, BusyTask, TaskKind
  <2>8. ASSUME NEW p \in Provider, SettingsApplyApp(p) PROVE Pending(BusyTask, BusyEvent)'
    BY <2>8, <1>1 DEF SettingsApplyApp, SettingsKey, Running
  <2>9. ASSUME NEW m \in Model, SubmitModel(m) PROVE Pending(BusyTask, BusyEvent)'
    BY <2>9, <1>1 DEF SubmitModel, Prompt, ChatKey, Running
  <2>10. CASE SettingsClose
    <3>1. CASE settings.dirty
      BY <2>10, <3>1, <1>2 DEF SettingsClose, BusyTask, TaskKind
    <3>2. CASE ~settings.dirty
      BY <2>10, <3>2, <1>1 DEF SettingsClose, SettingsKey, Running
    <3> QED
      BY <3>1, <3>2
  <2>11. ASSUME NEW s \in Section, SettingsApplyProvider(s) PROVE Pending(BusyTask, BusyEvent)'
    BY <2>11, <1>1 DEF SettingsApplyProvider, SettingsKey, Running
  <2>12. ASSUME NEW s \in Section, SettingsOpenModels(s) PROVE Pending(BusyTask, BusyEvent)'
    <3>1. Pending(BusyTask, BusyEvent)
      BY <2>12 DEF SettingsOpenModels, SettingsKey, BusyHasCause
    <3> QED
      BY <2>12, <3>1, <1>0, PendingSpawn DEF SettingsOpenModels
  <2> QED
    BY <1>3, <2>1, <2>2, <2>3, <2>4, <2>5, <2>6, <2>7, <2>8, <2>9, <2>10, <2>11, <2>12 DEF User
<1>4. CASE Background
  <2> PICK t \in Task : Work(t) \/ AnalyzeProgress(t)
    BY <1>4 DEF Background
  <2>1. Pending(BusyTask, BusyEvent)
    BY DEF Work, ConnectDone, CommandDone, AnalyzeStart, AnalyzeProgress, AnalyzeEnd, SwitchStart,
      SwitchReady, FetchStart, ListDone, ProviderModelsDone, Panic, At, BusyHasCause
  <2>2. ASSUME NEW e \in AppEvent, e.type \in BusyEvent, Finish(t, e)
        PROVE  Pending(BusyTask, BusyEvent)'
    BY <2>1, <2>2, PendingFinish
  <2>3. ASSUME NEW kind \in BusyTask, NEW p, Step(t, Job(kind, p))
        PROVE  Pending(BusyTask, BusyEvent)'
    BY <2>3 DEF Step, Job, Pending, TypeOK
  <2>4. CASE ConnectDone(t)
    BY <2>4, <2>2, EventTypeCorrect DEF ConnectDone, EventType, BusyEvent
  <2>5. CASE CommandDone(t)
    <3>1. Answer[tasks[t].kind] \subseteq BusyEvent /\ BusyEvent \subseteq EventType
      BY <2>5 DEF CommandDone, Answer, EventType, BusyEvent
    <3> QED
      BY <2>5, <3>1, <2>2, EventTypeCorrect DEF CommandDone, Event
  <2>6. CASE AnalyzeStart(t)
    <3> PICK client \in Clients :
          IF client = None THEN Finish(t, Event("AnalyzeResult"))
          ELSE Step(t, Job("Analyzing", client)) /\ UNCHANGED events
      BY <2>6 DEF AnalyzeStart
    <3>1. CASE client = None
      BY <3>1, <2>2, EventTypeCorrect DEF EventType, BusyEvent
    <3>2. CASE client # None
      BY <3>2, <2>3 DEF TaskKind, BusyTask
    <3> QED
      BY <3>1, <3>2
  <2>7. CASE AnalyzeEnd(t)
    BY <2>7, <2>2, EventTypeCorrect DEF AnalyzeEnd, EventType, BusyEvent
  <2>8. CASE SwitchStart(t) \/ FetchStart(t)
    BY <2>8, <2>3 DEF SwitchStart, FetchStart, TaskKind, BusyTask
  <2>9. CASE SwitchReady(t)
    BY <2>9, <2>3 DEF SwitchReady, TaskKind, BusyTask
  <2>10. CASE ListDone(t)
    <3> PICK list \in Listings(tasks[t].of) :
          Finish(t, [Event("ModelsResult") EXCEPT !.list = list])
      BY <2>10 DEF ListDone
    <3>1. list \in Seq(Model)
      BY OffersAssumption, EmptySeq DEF Listings
    <3>2. /\ [Event("ModelsResult") EXCEPT !.list = list] \in AppEvent
          /\ [Event("ModelsResult") EXCEPT !.list = list].type \in BusyEvent
      BY <3>1 DEF Event, AppEvent, EventType, BusyEvent
    <3> QED
      BY <3>2, <2>2
  <2>11. CASE ProviderModelsDone(t)
    <3> DEFINE e == [Event("ProviderModelsResult") EXCEPT !.of = tasks[t].of]
    <3>1. e \in AppEvent
      BY EmptySeq DEF Event, AppEvent, EventType, TypeOK, TaskState
    <3>2. tasks[t].kind \notin BusyTask
      BY <2>11 DEF ProviderModelsDone, At, BusyTask
    <3> QED
      BY <2>1, <2>11, <3>1, <3>2, PendingFinish DEF ProviderModelsDone
  <2>12. CASE Panic(t)
    BY <2>12 DEF Panic
  <2>13. CASE AnalyzeProgress(t)
    <3>1. Event("AnalyzeProgress") \in AppEvent
      BY EventTypeCorrect DEF EventType
    <3>2. \A i \in DOMAIN events : i \in DOMAIN events' /\ events'[i] = events[i]
      BY <2>13, <3>1, SendKeeps DEF AnalyzeProgress
    <3> QED
      BY <2>1, <2>13, <3>2 DEF AnalyzeProgress, Pending
  <2> QED
    BY <2>4, <2>5, <2>6, <2>7, <2>8, <2>9, <2>10, <2>11, <2>12, <2>13 DEF Work
<1>5. CASE Handle
  <2>1. CASE OnNotice
    <3>1. Pending(BusyTask, BusyEvent)
      BY <2>1 DEF OnNotice, Receive, BusyHasCause
    <3> QED
      BY <2>1, <3>1, PendingReceive DEF OnNotice, BusyEvent
  <2>2. CASE OnProviderModels
    <3>1. Pending(BusyTask, BusyEvent)
      BY <2>2 DEF OnProviderModels, Receive, BusyHasCause
    <3> QED
      BY <2>2, <3>1, PendingReceive DEF OnProviderModels, BusyEvent
  <2>3. ~OnSetupFailure
    BY DEF OnSetupFailure, SetupConnectsOnce
  <2> QED
    BY <1>5, <2>1, <2>2, <2>3 DEF Handle, OnFirstConnect, OnReconnect, OnResult, OnAnalyzeResult,
      OnModelsResult, LayoutPanic
<1>6. CASE Exit
  BY <1>6 DEF Exit
<1>7. CASE UNCHANGED vars
  BY <1>7, <1>1 DEF vars
<1> QED
  BY <1>3, <1>4, <1>5, <1>6, <1>7 DEF Next, Terminated

\* The prompt never stays locked without an answer on its way, for any number
\* of commands, provider switches and reconnections in flight.
THEOREM BusyCorrect == Spec => []BusyHasCause
<1>1. Init => BusyHasCause
  BY DEF Init, BusyHasCause
<1>2. TypeOK /\ SetupConnectsOnce /\ BusyHasCause /\ [Next]_vars => BusyHasCause'
  BY BusyStep
<1> QED
  BY <1>1, <1>2, TypeCorrect, SetupCorrect, PTL DEF Spec

(***************************************************************************)
(* The chat screen.  Two frame lemmas say how work gets lost: a task       *)
(* changes only by its own work, an event goes only when the event loop    *)
(* takes it.                                                               *)
(***************************************************************************)
\* A task that is not idle changes only when it works itself (spawn_*, app.rs).
LEMMA TaskFrame ==
  ASSUME TypeOK, [Next]_vars, NEW t \in Task, tasks[t] # Idle
  PROVE  tasks'[t] = tasks[t] \/ Work(t)
<1> USE DEF config, ui
<1>1. ASSUME NEW job, Spawn(job) PROVE tasks'[t] = tasks[t]
  BY <1>1, SpawnTakesASlot
<1>2. CASE User
  <2>1. (\E job : Spawn(job)) \/ tasks' = tasks
    BY <1>2 DEF User, SetupSubmit, QuitKey, OpenSettings, CycleModel, SubmitCommand,
      SubmitAnalyze, SubmitApiKey, SubmitExit, SubmitProvider, SettingsApplyApp, SubmitModel,
      SettingsEnter, SettingsDiscard, SettingsLeaveModels, SettingsClose,
      SettingsApplyProvider, SettingsOpenModels
  <2> QED
    BY <2>1, <1>1
<1>3. CASE Background
  <2> PICK u \in Task : Work(u) \/ AnalyzeProgress(u)
    BY <1>3 DEF Background
  <2>1. tasks' = tasks \/ \E job : Step(u, job)
    BY DEF Work, ConnectDone, CommandDone, AnalyzeStart, AnalyzeProgress, AnalyzeEnd, SwitchStart,
      SwitchReady, FetchStart, ListDone, ProviderModelsDone, Panic, Finish
  <2>2. t = u \/ tasks'[t] = tasks[t]
    BY <2>1 DEF Step, TypeOK
  <2>3. CASE AnalyzeProgress(u)
    BY <2>3 DEF AnalyzeProgress
  <2> QED
    BY <2>2, <2>3
<1>4. CASE Handle
  <2>1. (\E job : Spawn(job)) \/ tasks' = tasks
    BY <1>4 DEF Handle, OnFirstConnect, OnSetupFailure, OnReconnect, OnResult, LayoutPanic,
      OnAnalyzeResult, OnNotice, OnModelsResult, OnProviderModels
  <2> QED
    BY <2>1, <1>1
<1>5. CASE Exit \/ UNCHANGED vars
  BY <1>5 DEF Exit, vars
<1> QED
  BY <1>2, <1>3, <1>4, <1>5 DEF Next, Terminated

\* An event waits until the event loop takes it (App::run).
LEMMA EventFrame ==
  ASSUME TypeOK, [Next]_vars, NEW i \in DOMAIN events
  PROVE  \/ \E j \in DOMAIN events' : events'[j] = events[i]
         \/ Handle /\ events[i] = Head(events)
<1> USE DEF config, ui
<1>1. ASSUME events' = events PROVE \E j \in DOMAIN events' : events'[j] = events[i]
  BY <1>1
<1>2. CASE User
  <2>1. events' = events
    BY <1>2 DEF User, SetupSubmit, QuitKey, OpenSettings, CycleModel, SubmitCommand,
      SubmitAnalyze, SubmitApiKey, SubmitExit, SubmitProvider, SettingsApplyApp, SubmitModel,
      SettingsEnter, SettingsDiscard, SettingsLeaveModels, SettingsClose,
      SettingsApplyProvider, SettingsOpenModels
  <2> QED
    BY <2>1, <1>1
<1>3. CASE Background
  <2> PICK t \in Task : Work(t) \/ AnalyzeProgress(t)
    BY <1>3 DEF Background
  <2>1. events' = events \/ \E e : events' = Append(events, e)
    BY DEF Work, ConnectDone, CommandDone, AnalyzeStart, AnalyzeProgress, AnalyzeEnd, SwitchStart,
      SwitchReady, FetchStart, ListDone, ProviderModelsDone, Panic, Finish
  <2>2. TypeOK'
    BY TypeBackground, <1>3
  <2>3. ASSUME NEW e, events' = Append(events, e)
        PROVE  i \in DOMAIN events' /\ events'[i] = events[i]
    BY <2>3, LenProperties DEF TypeOK
  <2> QED
    BY <2>1, <2>3, <1>1
<1>4. CASE Handle
  <2>1. events' = events \/ (events # <<>> /\ events' = Tail(events))
    BY <1>4 DEF Handle, OnFirstConnect, OnSetupFailure, OnReconnect, OnResult, LayoutPanic,
      OnAnalyzeResult, OnNotice, OnModelsResult, OnProviderModels, Receive
  <2> QED
    BY <2>1, <1>1, <1>4, TailKeeps
<1>5. CASE Exit \/ UNCHANGED vars
  BY <1>5, <1>1 DEF Exit, vars
<1> QED
  BY <1>2, <1>3, <1>4, <1>5 DEF Next, Terminated

\* What a task sends is in the channel after the step.
LEMMA SentIsThere ==
  ASSUME TypeOK, NEW t \in Task, NEW e \in AppEvent, Finish(t, e)
  PROVE  \E i \in DOMAIN events' : events'[i] = e
BY SendKeeps DEF Finish

(***************************************************************************)
(* The preview.                                                            *)
(***************************************************************************)
\* An analysis that works goes on or delivers its result (analyze_query, app.rs).
LEMMA AnalysisGoesOn ==
  ASSUME TypeOK, NEW t \in Task, tasks[t].kind \in {"Analyze", "Analyzing"}, Work(t)
  PROVE  Pending({"Analyze", "Analyzing"}, {"AnalyzeResult"})'
<1>1. Event("AnalyzeResult") \in AppEvent /\ Event("AnalyzeResult").type = "AnalyzeResult"
  BY EventTypeCorrect DEF EventType
<1>2. ASSUME Finish(t, Event("AnalyzeResult"))
      PROVE  Pending({"Analyze", "Analyzing"}, {"AnalyzeResult"})'
  BY <1>1, <1>2, SentIsThere DEF Pending
<1>3. CASE AnalyzeStart(t)
  <2> PICK client \in Clients :
        IF client = None THEN Finish(t, Event("AnalyzeResult"))
        ELSE Step(t, Job("Analyzing", client)) /\ UNCHANGED events
    BY <1>3 DEF AnalyzeStart
  <2>1. CASE client # None
    BY <2>1 DEF Step, TypeOK, Job, Pending
  <2> QED
    BY <2>1, <1>2
<1>4. CASE AnalyzeEnd(t)
  BY <1>4, <1>2 DEF AnalyzeEnd
<1>5. CASE Panic(t)
  BY <1>5 DEF Panic, Pending
<1> QED
  BY <1>3, <1>4, <1>5 DEF Work, ConnectDone, CommandDone, Answer, SwitchStart, SwitchReady,
    FetchStart, ListDone, ProviderModelsDone, At

\* A step that leaves the preview leaves an analysis that ends it.
LEMMA PreviewStep ==
  ASSUME TypeOK, PreviewHasCause, [Next]_vars
  PROVE  PreviewHasCause'
<1> SUFFICES ASSUME preview' PROVE Pending({"Analyze", "Analyzing"}, {"AnalyzeResult"})'
  BY DEF PreviewHasCause
<1>1. CASE ~preview
  <2>1. SubmitAnalyze
    BY <1>1 DEF Next, Terminated, vars, config, ui, User, SetupSubmit, QuitKey, OpenSettings,
      CycleModel, SubmitCommand, SubmitAnalyze, SubmitApiKey, SubmitExit, SubmitProvider,
      SettingsApplyApp, SubmitModel, SettingsEnter, SettingsDiscard, SettingsLeaveModels,
      SettingsClose, SettingsApplyProvider, SettingsOpenModels, Background, Work, ConnectDone,
      CommandDone, AnalyzeStart, AnalyzeProgress, AnalyzeEnd, SwitchStart, SwitchReady,
      FetchStart, ListDone, ProviderModelsDone, Panic, Handle, OnFirstConnect, OnSetupFailure,
      OnReconnect, OnResult, LayoutPanic, OnAnalyzeResult, OnNotice, OnModelsResult,
      OnProviderModels, Exit
  <2> QED
    BY <2>1, SpawnTakesASlot DEF SubmitAnalyze, Job, Pending
<1>2. ASSUME NEW t \in Task, tasks[t].kind \in {"Analyze", "Analyzing"}
      PROVE  Pending({"Analyze", "Analyzing"}, {"AnalyzeResult"})'
  <2>1. tasks[t] # Idle
    BY <1>2 DEF Idle, Job
  <2> QED
    BY <1>2, <2>1, TaskFrame, AnalysisGoesOn DEF Pending
<1>3. ASSUME NEW i \in DOMAIN events, events[i].type = "AnalyzeResult"
      PROVE  Pending({"Analyze", "Analyzing"}, {"AnalyzeResult"})'
  <2>1. ~(Handle /\ events[i] = Head(events))
    BY <1>3 DEF Handle, OnFirstConnect, OnSetupFailure, OnReconnect, OnResult, LayoutPanic,
      OnAnalyzeResult, OnNotice, OnModelsResult, OnProviderModels, Receive
  <2> QED
    BY <1>3, <2>1, EventFrame DEF Pending
<1> QED
  BY <1>1, <1>2, <1>3 DEF PreviewHasCause, Pending

\* The preview is never left over, for any number of analyses and other answers.
THEOREM PreviewCorrect == Spec => []PreviewHasCause
<1>1. Init => PreviewHasCause
  BY DEF Init, PreviewHasCause
<1>2. TypeOK /\ PreviewHasCause /\ [Next]_vars => PreviewHasCause'
  BY PreviewStep
<1> QED
  BY <1>1, <1>2, TypeCorrect, PTL DEF Spec

(***************************************************************************)
(* The model picker.                                                       *)
(***************************************************************************)
\* An answer for the picker of provider p is on its way.
Answering(p) ==
  \/ \E t \in Task : tasks[t].kind = "ProviderModels" /\ tasks[t].of = p
  \/ \E i \in DOMAIN events : events[i].type = "ProviderModelsResult" /\ events[i].of = p

\* The answer for a picker stays on its way until the event loop takes it, and
\* then that picker stops loading (SettingsScreen::on_models).
LEMMA AnswerStays ==
  ASSUME TypeOK, [Next]_vars, NEW p, Answering(p)
  PROVE  \/ Answering(p)'
         \/ OnProviderModels /\ Head(events).of = p
<1>1. ASSUME NEW t \in Task, tasks[t].kind = "ProviderModels", tasks[t].of = p
      PROVE  Answering(p)'
  <2>1. tasks[t] # Idle
    BY <1>1 DEF Idle, Job
  <2>2. CASE Work(t)
    <3> DEFINE e == [Event("ProviderModelsResult") EXCEPT !.of = tasks[t].of]
    <3>1. ProviderModelsDone(t) \/ Panic(t)
      BY <1>1, <2>2 DEF Work, ConnectDone, CommandDone, Answer, AnalyzeStart, AnalyzeEnd,
        SwitchStart, SwitchReady, FetchStart, ListDone, At
    <3>2. CASE ProviderModelsDone(t)
      <4>1. e \in AppEvent /\ e.type = "ProviderModelsResult" /\ e.of = p
        BY <1>1, EmptySeq DEF Event, AppEvent, EventType, TypeOK, TaskState
      <4>2. Finish(t, e)
        BY <3>2 DEF ProviderModelsDone
      <4> HIDE DEF e
      <4>3. PICK i \in DOMAIN events' : events'[i] = e
        BY <4>1, <4>2, SentIsThere
      <4> QED
        BY <4>1, <4>3 DEF Answering
    <3>3. CASE Panic(t)
      BY <3>3, <1>1 DEF Panic, Answering
    <3> QED
      BY <3>1, <3>2, <3>3
  <2> QED
    BY <1>1, <2>1, <2>2, TaskFrame DEF Answering
<1>2. ASSUME NEW i \in DOMAIN events, events[i].type = "ProviderModelsResult", events[i].of = p
      PROVE  Answering(p)' \/ (OnProviderModels /\ Head(events).of = p)
  <2>1. CASE Handle /\ events[i] = Head(events)
    <3>1. CASE LayoutPanic
      BY <3>1, <1>2 DEF LayoutPanic, Answering
    <3>2. CASE ~LayoutPanic
      BY <1>2, <2>1, <3>2 DEF Handle, OnFirstConnect, OnSetupFailure, OnReconnect, OnResult,
        OnAnalyzeResult, OnNotice, OnModelsResult, Receive
    <3> QED
      BY <3>1, <3>2
  <2> QED
    BY <1>2, <2>1, EventFrame DEF Answering
<1> QED
  BY <1>1, <1>2 DEF Answering

\* A picker starts to load with its request, and stops loading when it is left.
LEMMA LoadingStarts ==
  ASSUME TypeOK, PickerHasCause, [Next]_vars, settings'.loading
  PROVE  \/ settings.loading /\ settings' = settings
         \/ \E s \in Section : SettingsOpenModels(s)
<1>0. settings.loading => settings.node = "Models"
  BY DEF PickerHasCause
<1>1. ~SettingsClosed.loading /\ ~[SettingsClosed EXCEPT !.open = TRUE].loading
  BY DEF SettingsClosed
<1>2. CASE settings' = settings
  BY <1>2
<1>3. CASE settings' # settings /\ User
  <2>1. /\ Up.loading = settings.loading /\ Applied.loading = settings.loading
    BY DEF Up, Applied, TypeOK, SettingsState
  <2>2. ~OpenSettings /\ ~SettingsClose
    BY <1>1 DEF OpenSettings, SettingsClose
  <2>3. ~SettingsEnter
    BY <1>0 DEF SettingsEnter, SettingsKey, TypeOK, SettingsState
  <2>4. /\ ~SettingsDiscard
        /\ \A p \in Provider : ~SettingsApplyApp(p)
        /\ \A s \in Section : ~SettingsApplyProvider(s)
    BY <1>0, <2>1 DEF SettingsDiscard, SettingsApplyApp, SettingsApplyProvider, SettingsKey
  <2>5. ~SettingsLeaveModels
    BY DEF SettingsLeaveModels, TypeOK, SettingsState
  <2> QED
    BY <1>3, <2>2, <2>3, <2>4, <2>5 DEF User, SetupSubmit, QuitKey, CycleModel, SubmitCommand,
      SubmitAnalyze, SubmitApiKey, SubmitExit, SubmitProvider, SubmitModel, config, ui
<1>4. CASE settings' # settings /\ ~User
  <2>1. OnFirstConnect \/ OnProviderModels
    BY <1>4 DEF Next, Terminated, vars, config, ui, Background, Work, ConnectDone,
      CommandDone, AnalyzeStart, AnalyzeProgress, AnalyzeEnd, SwitchStart, SwitchReady,
      FetchStart, ListDone, ProviderModelsDone, Panic, Handle, OnSetupFailure,
      OnReconnect, OnResult, LayoutPanic, OnAnalyzeResult, OnNotice, OnModelsResult, Exit
  <2>2. ~OnFirstConnect
    BY <1>1 DEF OnFirstConnect
  <2>3. ~OnProviderModels
    BY <1>4 DEF OnProviderModels, TypeOK, SettingsState
  <2> QED
    BY <2>1, <2>2, <2>3
<1> QED
  BY <1>2, <1>3, <1>4

\* A step that leaves a picker loading leaves an answer for its provider.
LEMMA PickerStep ==
  ASSUME TypeOK, PickerHasCause, [Next]_vars
  PROVE  PickerHasCause'
<1> SUFFICES ASSUME settings'.loading
             PROVE  settings'.node = "Models" /\ Answering(settings.of)'
  BY DEF PickerHasCause, Answering
<1>1. CASE settings.loading /\ settings' = settings
  <2>1. settings.node = "Models" /\ Answering(settings.of)
    BY <1>1 DEF PickerHasCause, Answering
  <2> PICK p : p = settings.of
    OBVIOUS
  <2>2. Answering(p)'
    <3>1. ASSUME OnProviderModels, Head(events).of = p PROVE ~settings'.loading
      BY <2>1, <3>1 DEF OnProviderModels, TypeOK, SettingsState
    <3> QED
      BY <2>1, <3>1, AnswerStays
  <2> QED
    BY <1>1, <2>1, <2>2
<1>2. ASSUME NEW s \in Section, SettingsOpenModels(s)
      PROVE  settings'.node = "Models" /\ Answering(settings.of)'
  <2>1. settings'.node = "Models" /\ settings'.of = settings.of
    BY <1>2 DEF SettingsOpenModels, TypeOK, SettingsState
  <2> DEFINE job == [Job("ProviderModels", settings.of) EXCEPT !.filled = Complete(s)]
  <2>2. job.kind = "ProviderModels" /\ job.of = settings.of
    BY DEF Job
  <2>3. PICK t \in Task : tasks'[t] = job
    BY <1>2, SpawnTakesASlot DEF SettingsOpenModels
  <2> QED
    BY <2>1, <2>2, <2>3 DEF Answering
<1> QED
  BY <1>1, <1>2, LoadingStarts

\* The picker never waits for an answer that does not come: for any number of
\* pickers opened and left, an answer for the provider it shows is on its way.
THEOREM PickerCorrect == Spec => []PickerHasCause
<1>1. Init => PickerHasCause
  BY DEF Init, PickerHasCause, SettingsClosed
<1>2. TypeOK /\ PickerHasCause /\ [Next]_vars => PickerHasCause'
  BY PickerStep
<1> QED
  BY <1>1, <1>2, TypeCorrect, PTL DEF Spec

(***************************************************************************)
(* The provider sections.                                                  *)
(***************************************************************************)
\* Setting the model changes the active provider's section at most.
LEMMA WithModelLocal ==
  ASSUME TypeOK, NEW m, NEW p \in Provider, WithModel(m)[p] # section[p]
  PROVE  p = provider
BY DEF WithModel, TypeOK

\* No handler changes the section of a provider that is neither active nor
\* edited in the settings (set_provider_model, set_provider_config).
THEOREM SectionsCorrect == Spec => OnlyActiveSectionChanges
<1> DEFINE Local ==
      \A p \in Provider :
        section'[p] # section[p] =>
          p = provider \/ (settings.node = "Provider" /\ settings.of = p)
<1>1. ASSUME TypeOK, [Next]_vars PROVE [Local]_vars
  <2> SUFFICES ASSUME NEW p \in Provider, section'[p] # section[p]
               PROVE  p = provider \/ (settings.node = "Provider" /\ settings.of = p)
    OBVIOUS
  <2>1. ASSUME NEW m, section' = WithModel(m) PROVE p = provider
    BY <2>1, <1>1, WithModelLocal
  <2>2. CASE CycleModel
    BY <2>1, <2>2 DEF CycleModel
  <2>3. ASSUME NEW m \in Model, SubmitModel(m) PROVE p = provider
    BY <2>1, <2>3 DEF SubmitModel
  <2>4. ASSUME NEW s \in Section, SettingsApplyProvider(s)
        PROVE  settings.node = "Provider" /\ settings.of = p
    BY <1>1, <2>4 DEF SettingsApplyProvider, SettingsKey, TypeOK
  <2>5. CASE OnModelsResult
    BY <2>1, <2>5 DEF OnModelsResult
  <2>6. section' # section
    OBVIOUS
  <2> QED
    BY <1>1, <2>2, <2>3, <2>4, <2>5, <2>6 DEF Next, Terminated, vars, config, ui, User, SetupSubmit,
      QuitKey, OpenSettings, SubmitCommand, SubmitAnalyze, SubmitApiKey, SubmitExit,
      SubmitProvider, SettingsApplyApp, SettingsEnter, SettingsDiscard, SettingsLeaveModels,
      SettingsClose, SettingsOpenModels, Background, Work, ConnectDone, CommandDone,
      AnalyzeStart, AnalyzeProgress, AnalyzeEnd, SwitchStart, SwitchReady, FetchStart,
      ListDone, ProviderModelsDone, Panic, Handle, OnFirstConnect, OnSetupFailure,
      OnReconnect, OnResult, LayoutPanic, OnAnalyzeResult, OnNotice, OnProviderModels, Exit
<1>2. Spec => [][Local]_vars
  BY <1>1, TypeCorrect, PTL DEF Spec
<1> QED
  BY <1>2 DEF OnlyActiveSectionChanges

(***************************************************************************)
(* The selected model.                                                     *)
(***************************************************************************)
\* The lists of models on their way are asked from p, or are empty.
ListsFrom(p) ==
  /\ \A t \in Task : tasks[t].kind \in {"Probing", "Listing"} => tasks[t].of \in {p, None}
  /\ \A i \in DOMAIN events : events[i].type = "ModelsResult" => events[i].list \in Listings(p)

\* Two facts that the selected model depends on: an overlay that is closed has no
\* change of the provider to announce, and as long as config.toml names an unknown
\* provider no models are listed, nor on their way.
ClosedIsClean == ~settings.open => ~settings.dirty
UnknownIsEmpty ==
  provider = None => models = <<>> /\ ListsFrom(None)

ModelInv == TypeOK /\ ClosedIsClean /\ UnknownIsEmpty /\ SelectedModelListed

\* The overlay is closed as clean as it is opened.
LEMMA CleanStep ==
  ASSUME TypeOK, ClosedIsClean, [Next]_vars
  PROVE  ClosedIsClean'
<1>1. ~SettingsClosed.dirty /\ ~[SettingsClosed EXCEPT !.open = TRUE].dirty
  BY DEF SettingsClosed
<1>2. /\ Up.open = settings.open /\ Applied.open = settings.open
  BY DEF Up, Applied, TypeOK, SettingsState
<1>3. CASE settings' = settings
  BY <1>3 DEF ClosedIsClean
<1>4. CASE settings' # settings /\ User
  <2>1. CASE OpenSettings \/ SettingsClose
    BY <1>1, <2>1 DEF OpenSettings, SettingsClose, ClosedIsClean
  <2>2. CASE SettingsEnter \/ SettingsLeaveModels \/ \E s \in Section : SettingsOpenModels(s)
    <3>1. settings.open /\ settings'.open = settings.open
      BY <2>2 DEF SettingsEnter, SettingsLeaveModels, SettingsOpenModels, SettingsKey, TypeOK,
        SettingsState
    <3> QED
      BY <3>1 DEF ClosedIsClean
  <2>3. CASE \/ SettingsDiscard
             \/ \E p \in Provider : SettingsApplyApp(p)
             \/ \E s \in Section : SettingsApplyProvider(s)
    BY <1>2, <2>3 DEF SettingsDiscard, SettingsApplyApp, SettingsApplyProvider, SettingsKey,
      ClosedIsClean
  <2> QED
    BY <1>4, <2>1, <2>2, <2>3 DEF User, SetupSubmit, QuitKey, CycleModel, SubmitCommand,
      SubmitAnalyze, SubmitApiKey, SubmitExit, SubmitProvider, SubmitModel, config, ui
<1>5. CASE settings' # settings /\ ~User
  <2>1. OnFirstConnect \/ OnProviderModels
    BY <1>5 DEF Next, Terminated, vars, config, ui, Background, Work, ConnectDone,
      CommandDone, AnalyzeStart, AnalyzeProgress, AnalyzeEnd, SwitchStart, SwitchReady,
      FetchStart, ListDone, ProviderModelsDone, Panic, Handle, OnSetupFailure,
      OnReconnect, OnResult, LayoutPanic, OnAnalyzeResult, OnNotice, OnModelsResult, Exit
  <2>2. CASE OnFirstConnect
    BY <1>1, <2>2 DEF OnFirstConnect, ClosedIsClean
  <2>3. CASE OnProviderModels
    BY <2>3 DEF OnProviderModels, TypeOK, SettingsState, ClosedIsClean
  <2> QED
    BY <2>1, <2>2, <2>3
<1> QED
  BY <1>3, <1>4, <1>5

\* A task asks the provider that is active when it reads the configuration, so the
\* lists on their way stay those of one provider while it is active.
LEMMA ListsStep ==
  ASSUME TypeOK, NEW p \in Provider \cup {None}, p = provider, ListsFrom(p), [Next]_vars
  PROVE  ListsFrom(p)'
<1> DEFINE Mine(job) == job.kind \in {"Probing", "Listing"} => job.of \in {p, None}
           Listed(e) == e.type = "ModelsResult" => e.list \in Listings(p)
<1> USE DEF config, ui
<1>1. Clients \subseteq {p, None}
  BY DEF Clients
<1>2. /\ \A t \in Task : Mine(tasks[t])
      /\ \A i \in DOMAIN events : Listed(events[i])
  BY DEF ListsFrom
<1>3. Listings(None) \subseteq Listings(p) /\ \A list \in Listings(p) : list \in Seq(Model)
  BY OffersAssumption, NoneAssumption, EmptySeq DEF Listings
<1> SUFFICES /\ \A t \in Task : Mine(tasks'[t])
             /\ \A i \in DOMAIN events' : Listed(events'[i])
  BY DEF ListsFrom
<1>4. ASSUME NEW job, Mine(job), Spawn(job) \/ \E t \in Task : Step(t, job)
      PROVE  \A t \in Task : Mine(tasks'[t])
  BY <1>2, <1>4 DEF Spawn, Step, TypeOK
<1>5. ASSUME NEW e \in AppEvent, Listed(e), events' = Append(events, e)
      PROVE  \A i \in DOMAIN events' : Listed(events'[i])
  <2>1. /\ Len(events) \in Nat /\ DOMAIN events = 1 .. Len(events)
        /\ DOMAIN events' = 1 .. Len(events) + 1
        /\ \A i \in 1 .. Len(events) : events'[i] = events[i]
        /\ events'[Len(events) + 1] = e
    BY <1>5, AppendProperties, LenProperties DEF TypeOK
  <2> QED
    BY <1>2, <1>5, <2>1
<1>6. ASSUME events # <<>>, events' = Tail(events)
      PROVE  \A i \in DOMAIN events' : Listed(events'[i])
  <2>1. /\ Len(events) \in Nat \ {0} /\ DOMAIN events = 1 .. Len(events)
        /\ DOMAIN events' = 1 .. Len(events) - 1
        /\ \A i \in 1 .. Len(events) - 1 : events'[i] = events[i + 1]
    BY <1>6, HeadTailProperties, LenProperties, EmptySeq DEF TypeOK
  <2> QED
    BY <1>2, <2>1
<1>7. CASE User
  <2>1. events' = events
    BY <1>7 DEF User, SetupSubmit, QuitKey, OpenSettings, CycleModel, SubmitCommand,
      SubmitAnalyze, SubmitApiKey, SubmitExit, SubmitProvider, SettingsApplyApp, SubmitModel,
      SettingsEnter, SettingsDiscard, SettingsLeaveModels, SettingsClose,
      SettingsApplyProvider, SettingsOpenModels
  <2>2. tasks' = tasks \/ \E job : Spawn(job) /\ Mine(job)
    <3>1. \A kind \in TaskKind \ {"Probing", "Listing"} : Mine(Job(kind, None))
      BY DEF Job
    <3>2. ASSUME NEW s \in Section
          PROVE  Mine([Job("ProviderModels", settings.of) EXCEPT !.filled = Complete(s)])
      BY DEF Job
    <3>3. ASSUME NEW kind \in PlainCommand, SubmitCommand(kind)
          PROVE  \E job : Spawn(job) /\ Mine(job)
      BY <3>1, <3>3 DEF SubmitCommand, PlainCommand, TaskKind
    <3>4. CASE SetupSubmit \/ SubmitAnalyze \/ SubmitApiKey
      BY <3>1, <3>4 DEF SetupSubmit, SubmitAnalyze, SubmitApiKey, PlainCommand, TaskKind
    <3>5. ASSUME NEW q \in Provider, SubmitProvider(q)
          PROVE  \E job : Spawn(job) /\ Mine(job)
      BY <3>1, <3>5 DEF SubmitProvider, TaskKind
    <3>6. CASE SettingsClose
      BY <3>1, <3>6 DEF SettingsClose, TaskKind
    <3>7. ASSUME NEW s \in Section, SettingsOpenModels(s)
          PROVE  \E job : Spawn(job) /\ Mine(job)
      BY <3>2, <3>7 DEF SettingsOpenModels
    <3> HIDE DEF Mine
    <3> QED
      BY <1>7, <3>3, <3>4, <3>5, <3>6, <3>7 DEF User, QuitKey, OpenSettings, CycleModel,
        SubmitExit, SettingsApplyApp, SubmitModel, SettingsEnter, SettingsDiscard,
        SettingsLeaveModels, SettingsApplyProvider
  <2> HIDE DEF Mine, Listed
  <2> QED
    BY <1>2, <1>4, <2>1, <2>2
<1>8. CASE Background
  <2> PICK t \in Task : Work(t) \/ AnalyzeProgress(t)
    BY <1>8 DEF Background
  <2>1. tasks' = tasks \/ \E job : Step(t, job) /\ Mine(job)
    <3>1. Mine(Idle) /\ \A q \in {p, None} : Mine(Job("Probing", q)) /\ Mine(Job("Listing", q))
      BY DEF Idle, Job
    <3>2. \A q : Mine(Job("Analyzing", q))
      BY DEF Job
    <3>3. CASE SwitchReady(t)
      <4>1. tasks[t].of \in {p, None}
        BY <1>2, <3>3 DEF SwitchReady, At
      <4> QED
        BY <3>1, <3>3, <4>1 DEF SwitchReady
    <3>4. CASE SwitchStart(t) \/ FetchStart(t)
      BY <1>1, <3>1, <3>4 DEF SwitchStart, FetchStart
    <3>5. CASE AnalyzeStart(t)
      BY <3>1, <3>2, <3>5 DEF AnalyzeStart, Finish
    <3> HIDE DEF Mine
    <3> QED
      BY <3>1, <3>3, <3>4, <3>5 DEF Work, ConnectDone, CommandDone, AnalyzeProgress, AnalyzeEnd,
        ListDone, ProviderModelsDone, Panic, Finish
  <2>2. events' = events \/ \E e \in AppEvent : events' = Append(events, e) /\ Listed(e)
    <3>1. \A type \in EventType : Event(type) \in AppEvent /\ Listed(Event(type))
      BY EventTypeCorrect DEF Event, Listings
    <3>2. CASE ListDone(t)
      <4>1. Listings(tasks[t].of) \subseteq Listings(p)
        BY <1>2, <1>3, <3>2 DEF ListDone, At
      <4>2. PICK list \in Listings(p) : Finish(t, [Event("ModelsResult") EXCEPT !.list = list])
        BY <3>2, <4>1 DEF ListDone
      <4> DEFINE e == [Event("ModelsResult") EXCEPT !.list = list]
      <4>3. e \in AppEvent /\ Listed(e)
        BY <1>3 DEF Event, AppEvent, EventType
      <4>4. events' = Append(events, e)
        BY <4>2 DEF Finish
      <4> QED
        BY <4>3, <4>4
    <3>3. CASE ProviderModelsDone(t)
      <4> DEFINE e == [Event("ProviderModelsResult") EXCEPT !.of = tasks[t].of]
      <4>1. e \in AppEvent /\ Listed(e)
        BY EmptySeq DEF Event, AppEvent, EventType, TypeOK, TaskState
      <4>2. events' = Append(events, e)
        BY <3>3 DEF ProviderModelsDone, Finish
      <4> QED
        BY <4>1, <4>2
    <3>4. CASE CommandDone(t)
      <4>1. Answer[tasks[t].kind] \subseteq EventType
        BY <3>4 DEF CommandDone, Answer, EventType
      <4> QED
        BY <3>1, <3>4, <4>1 DEF CommandDone, Finish
    <3>5. CASE \/ ConnectDone(t) \/ AnalyzeStart(t) \/ AnalyzeProgress(t) \/ AnalyzeEnd(t)
               \/ SwitchReady(t)
      <4>1. {"ConnectOk", "ConnectErr", "AnalyzeResult", "AnalyzeProgress", "ProviderReady"}
              \subseteq EventType
        BY DEF EventType
      <4> HIDE DEF Listed
      <4> QED
        BY <3>1, <3>5, <4>1 DEF ConnectDone, AnalyzeStart, AnalyzeProgress, AnalyzeEnd,
          SwitchReady, Finish
    <3>6. CASE SwitchStart(t) \/ FetchStart(t) \/ Panic(t)
      BY <3>6 DEF SwitchStart, FetchStart, Panic
    <3> HIDE DEF Listed
    <3> QED
      BY <3>2, <3>3, <3>4, <3>5, <3>6 DEF Work
  <2> HIDE DEF Mine, Listed
  <2> QED
    BY <1>2, <1>4, <1>5, <2>1, <2>2
<1>9. CASE Handle
  <2>1. tasks' = tasks \/ Spawn(Job("FetchModels", None))
    BY <1>9 DEF Handle, OnFirstConnect, OnSetupFailure, OnReconnect, OnResult, LayoutPanic,
      OnAnalyzeResult, OnNotice, OnModelsResult, OnProviderModels
  <2>2. Mine(Job("FetchModels", None))
    BY DEF Job
  <2>3. events' = events \/ (events # <<>> /\ events' = Tail(events))
    BY <1>9 DEF Handle, OnFirstConnect, OnSetupFailure, OnReconnect, OnResult, LayoutPanic,
      OnAnalyzeResult, OnNotice, OnModelsResult, OnProviderModels, Receive
  <2> HIDE DEF Mine, Listed
  <2> QED
    BY <1>2, <1>4, <1>6, <2>1, <2>2, <2>3
<1>10. CASE Exit \/ UNCHANGED vars
  BY <1>2, <1>10 DEF Exit, vars
<1> QED
  BY <1>7, <1>8, <1>9, <1>10 DEF Next, Terminated

\* Models are there only if a list of models was taken.
LEMMA ModelsStay ==
  ASSUME [Next]_vars, ~OnModelsResult
  PROVE  models' = models \/ models' = <<>>
BY DEF config, ui, Next, Terminated, vars, User, SetupSubmit, QuitKey, OpenSettings,
    CycleModel, SubmitCommand, SubmitAnalyze, SubmitApiKey, SubmitExit, SubmitProvider,
    SettingsApplyApp, SubmitModel, SettingsEnter, SettingsDiscard, SettingsLeaveModels,
    SettingsClose, SettingsApplyProvider, SettingsOpenModels, Background, Work, ConnectDone,
    CommandDone, AnalyzeStart, AnalyzeProgress, AnalyzeEnd, SwitchStart, SwitchReady,
    FetchStart, ListDone, ProviderModelsDone, Panic, Handle, OnFirstConnect, OnSetupFailure,
    OnReconnect, OnResult, LayoutPanic, OnAnalyzeResult, OnNotice, OnProviderModels, Exit

\* Only /provider and the application form change the provider.
LEMMA OnlySwitchesChange ==
  ASSUME [Next]_vars, provider' # provider
  PROVE  \E p \in Provider : SubmitProvider(p) \/ SettingsApplyApp(p)
BY DEF config, ui, Next, Terminated, vars, User, SetupSubmit, QuitKey, OpenSettings,
    CycleModel, SubmitCommand, SubmitAnalyze, SubmitApiKey, SubmitExit, SubmitModel,
    SettingsEnter, SettingsDiscard, SettingsLeaveModels, SettingsClose,
    SettingsApplyProvider, SettingsOpenModels, Background, Work, ConnectDone, CommandDone,
    AnalyzeStart, AnalyzeProgress, AnalyzeEnd, SwitchStart, SwitchReady, FetchStart,
    ListDone, ProviderModelsDone, Panic, Handle, OnFirstConnect, OnSetupFailure, OnReconnect,
    OnResult, LayoutPanic, OnAnalyzeResult, OnNotice, OnModelsResult, OnProviderModels, Exit

\* Nobody makes the provider unknown (select_provider refuses unknown names), and
\* nobody lists the models of an unknown one.
LEMMA UnknownStep ==
  ASSUME TypeOK, UnknownIsEmpty, [Next]_vars
  PROVE  UnknownIsEmpty'
<1> SUFFICES ASSUME provider' = None PROVE UnknownIsEmpty'
  BY DEF UnknownIsEmpty
<1>1. provider = None
  BY NoneAssumption, OnlySwitchesChange DEF SubmitProvider, SettingsApplyApp
<1>2. models = <<>> /\ ListsFrom(None)
  BY <1>1 DEF UnknownIsEmpty
<1>3. ASSUME OnModelsResult PROVE models' = <<>>
  <2>1. Head(events) = events[1] /\ 1 \in DOMAIN events
    BY <1>3, HeadTailProperties, LenProperties, EmptySeq DEF TypeOK, OnModelsResult, Receive
  <2>2. Head(events).list \in Listings(None)
    BY <1>2, <1>3, <2>1 DEF ListsFrom, OnModelsResult, Receive
  <2> QED
    BY <1>3, <2>2, NoneAssumption DEF OnModelsResult, Listings
<1>4. models' = <<>>
  BY <1>2, <1>3, ModelsStay
<1> QED
  BY <1>1, <1>2, <1>4, ListsStep DEF UnknownIsEmpty

\* A refresh that was announced goes on until its list of models is taken
\* (switch_provider, app.rs).
LEMMA RefreshGoesOn ==
  ASSUME TypeOK, ClosedIsClean, [Next]_vars, Refreshing
  PROVE  \/ Refreshing'
         \/ OnModelsResult
         \/ OnFirstConnect
<1> DEFINE kinds == {"SwitchProvider", "Probing", "Listing"}
           types == {"ModelsResult"}
<1>1. ASSUME settings.dirty PROVE Refreshing' \/ OnFirstConnect
  <2>1. CASE settings' = settings
    BY <1>1, <2>1 DEF Refreshing
  <2>2. CASE settings' # settings /\ User
    <3>1. Up.dirty = settings.dirty /\ Applied.dirty
      BY DEF Up, Applied, TypeOK, SettingsState
    <3>2. ~OpenSettings
      BY <1>1 DEF OpenSettings, ChatKey, ClosedIsClean
    <3>3. CASE SettingsClose
      <4>1. \E t \in Task : tasks'[t] = Job("SwitchProvider", None)
        BY <1>1, <3>3, SpawnTakesASlot DEF SettingsClose
      <4> QED
        BY <4>1 DEF Job, Refreshing, Pending
    <3>4. CASE SettingsEnter \/ SettingsLeaveModels \/ \E s \in Section : SettingsOpenModels(s)
      <4>1. settings'.dirty = settings.dirty
        BY <3>4 DEF SettingsEnter, SettingsLeaveModels, SettingsOpenModels, TypeOK, SettingsState
      <4> QED
        BY <1>1, <4>1 DEF Refreshing
    <3>5. CASE \/ SettingsDiscard
               \/ \E p \in Provider : SettingsApplyApp(p)
               \/ \E s \in Section : SettingsApplyProvider(s)
      BY <1>1, <3>1, <3>5 DEF SettingsDiscard, SettingsApplyApp, SettingsApplyProvider, Refreshing
    <3> QED
      BY <2>2, <3>2, <3>3, <3>4, <3>5 DEF User, SetupSubmit, QuitKey, CycleModel, SubmitCommand,
        SubmitAnalyze, SubmitApiKey, SubmitExit, SubmitProvider, SubmitModel, config, ui
  <2>3. CASE settings' # settings /\ ~User
    <3>1. OnFirstConnect \/ OnProviderModels
      BY <2>3 DEF Next, Terminated, vars, config, ui, Background, Work, ConnectDone,
        CommandDone, AnalyzeStart, AnalyzeProgress, AnalyzeEnd, SwitchStart, SwitchReady,
        FetchStart, ListDone, ProviderModelsDone, Panic, Handle, OnSetupFailure,
        OnReconnect, OnResult, LayoutPanic, OnAnalyzeResult, OnNotice, OnModelsResult, Exit
    <3>2. CASE OnProviderModels
      BY <1>1, <3>2 DEF OnProviderModels, TypeOK, SettingsState, Refreshing
    <3> QED
      BY <3>1, <3>2
  <2> QED
    BY <2>1, <2>2, <2>3
<1>2. ASSUME NEW t \in Task, tasks[t].kind \in kinds PROVE Pending(kinds, types)'
  <2>1. tasks[t] # Idle
    BY <1>2 DEF Idle, Job
  <2>2. ASSUME NEW kind \in kinds, NEW p, Step(t, Job(kind, p)) PROVE Pending(kinds, types)'
    BY <2>2 DEF Step, Job, TypeOK, Pending
  <2>3. CASE SwitchStart(t)
    BY <2>2, <2>3 DEF SwitchStart
  <2>4. CASE SwitchReady(t)
    BY <2>2, <2>4 DEF SwitchReady
  <2>5. CASE ListDone(t)
    <3> PICK list \in Listings(tasks[t].of) :
          Finish(t, [Event("ModelsResult") EXCEPT !.list = list])
      BY <2>5 DEF ListDone
    <3> DEFINE e == [Event("ModelsResult") EXCEPT !.list = list]
    <3>1. list \in Seq(Model)
      BY OffersAssumption, EmptySeq DEF Listings
    <3>2. e \in AppEvent /\ e.type = "ModelsResult"
      BY <3>1 DEF Event, AppEvent, EventType
    <3>3. Finish(t, e)
      OBVIOUS
    <3> HIDE DEF e
    <3> QED
      BY <3>2, <3>3, SentIsThere DEF Pending
  <2>6. CASE Panic(t)
    BY <2>6, <1>2 DEF Panic, Pending
  <2>7. CASE Work(t)
    BY <1>2, <2>3, <2>4, <2>5, <2>6, <2>7 DEF Work, ConnectDone, CommandDone, Answer,
      AnalyzeStart, AnalyzeEnd, FetchStart, ProviderModelsDone, At
  <2> QED
    BY <1>2, <2>1, <2>7, TaskFrame DEF Pending
<1>3. ASSUME NEW i \in DOMAIN events, events[i].type \in types
      PROVE  Pending(kinds, types)' \/ OnModelsResult
  <2>1. CASE Handle /\ events[i] = Head(events)
    <3>1. CASE LayoutPanic
      BY <3>1, <1>3 DEF LayoutPanic, Pending
    <3>2. CASE ~LayoutPanic
      BY <1>3, <2>1, <3>2 DEF Handle, OnFirstConnect, OnSetupFailure, OnReconnect, OnResult,
        OnAnalyzeResult, OnNotice, OnProviderModels, Receive
    <3> QED
      BY <3>1, <3>2
  <2> QED
    BY <1>3, <2>1, EventFrame DEF Pending
<1> QED
  BY <1>1, <1>2, <1>3 DEF Refreshing, Pending

\* When the list is taken, the model that stays selected is in it
\* (ChatScreen::on_models_result).
LEMMA TakenListOffers ==
  ASSUME TypeOK, UnknownIsEmpty, OnModelsResult, models' # <<>>
  PROVE  Offered(models, CurrentModel)'
<1> DEFINE list == Head(events).list
<1>1. list \in Seq(Model) /\ models' = list /\ provider' = provider
  BY ReceiveType DEF OnModelsResult, AppEvent
<1>2. provider \in Provider
  <2>1. Head(events) = events[1] /\ 1 \in DOMAIN events
    BY HeadTailProperties, LenProperties, EmptySeq DEF TypeOK, OnModelsResult, Receive
  <2>2. provider # None
    BY <2>1, <1>1, NoneAssumption DEF UnknownIsEmpty, ListsFrom, Listings, OnModelsResult, Receive
  <2> QED
    BY <2>2 DEF TypeOK
<1>3. CASE Offered(list, CurrentModel)
  BY <1>1, <1>3 DEF OnModelsResult, CurrentModel, Offered
<1>4. CASE ~Offered(list, CurrentModel)
  <2>1. section' = WithModel(list[1])
    BY <1>1, <1>4 DEF OnModelsResult
  <2>2. section'[provider].model = list[1]
    BY <1>2, <2>1 DEF WithModel, TypeOK, Section
  <2>3. 1 \in DOMAIN list
    BY <1>1, LenProperties, EmptySeq
  <2>4. CurrentModel' = list[1]
    BY <1>1, <1>2, <2>2 DEF CurrentModel
  <2> QED
    BY <1>1, <2>3, <2>4 DEF Offered
<1> QED
  BY <1>3, <1>4

\* A step after which nothing is being refreshed leaves a selected model that is
\* offered.
LEMMA SelectedStep ==
  ASSUME ModelInv, [Next]_vars
  PROVE  SelectedModelListed'
<1> USE DEF ModelInv
<1> SUFFICES ASSUME models' # <<>>, ~Refreshing' PROVE Offered(models, CurrentModel)'
  BY DEF SelectedModelListed
<1>1. CASE OnModelsResult
  BY <1>1, TakenListOffers
<1>2. CASE ~OnModelsResult
  <2>1. ~OnFirstConnect
    BY DEF OnFirstConnect
  <2>2. models' = models
    BY <1>2, ModelsStay
  <2>3. Offered(models, CurrentModel)
    BY <1>2, <2>1, <2>2, RefreshGoesOn DEF SelectedModelListed
  <2>4. provider \in Provider
    BY <2>2 DEF UnknownIsEmpty, TypeOK
  <2>5. ASSUME NEW m \in Model, Offered(models, m), section' = WithModel(m), provider' = provider
        PROVE  Offered(models, CurrentModel)'
    <3>1. section'[provider].model = m
      BY <2>4, <2>5 DEF WithModel, TypeOK, Section
    <3>2. CurrentModel' = m
      BY <2>4, <2>5, <3>1 DEF CurrentModel
    <3> QED
      BY <2>2, <2>5, <3>2 DEF Offered
  <2>6. CASE CycleModel
    <3> DEFINE m == NextModel(models, CurrentModel)
    <3>1. m \in Model /\ Offered(models, m)
      BY <2>6, NextModelListed DEF CycleModel, TypeOK
    <3>2. section' = WithModel(m) /\ provider' = provider
      BY <2>6 DEF CycleModel
    <3> HIDE DEF m
    <3> QED
      BY <2>5, <3>1, <3>2
  <2>7. ASSUME NEW m \in Model, SubmitModel(m) PROVE Offered(models, CurrentModel)'
    BY <2>5, <2>7 DEF SubmitModel
  <2>8. ASSUME NEW p \in Provider, SubmitProvider(p) PROVE FALSE
    <3>1. \E t \in Task : tasks'[t] = Job("SwitchProvider", None)
      BY <2>8, SpawnTakesASlot DEF SubmitProvider
    <3> QED
      BY <3>1 DEF Job, Refreshing, Pending
  <2>9. \A p \in Provider : ~SettingsApplyApp(p)
    BY DEF SettingsApplyApp, Applied, Up, TypeOK, SettingsState, Refreshing
  <2>10. \A s \in Section : ~SettingsApplyProvider(s)
    BY DEF SettingsApplyProvider, Applied, Up, TypeOK, SettingsState, Refreshing
  <2>11. CASE section' = section /\ provider' = provider
    BY <2>2, <2>3, <2>11 DEF Offered, CurrentModel
  <2> QED
    BY <1>2, <2>1, <2>6, <2>7, <2>8, <2>9, <2>10, <2>11 DEF Next, Terminated, vars, config, ui,
      User, SetupSubmit, QuitKey, OpenSettings, SubmitCommand, SubmitAnalyze, SubmitApiKey,
      SubmitExit, SettingsEnter, SettingsDiscard, SettingsLeaveModels, SettingsClose,
      SettingsOpenModels, Background, Work, ConnectDone, CommandDone, AnalyzeStart,
      AnalyzeProgress, AnalyzeEnd, SwitchStart, SwitchReady, FetchStart, ListDone,
      ProviderModelsDone, Panic, Handle, OnSetupFailure, OnReconnect, OnResult, LayoutPanic,
      OnAnalyzeResult, OnNotice, OnProviderModels, Exit
<1> QED
  BY <1>1, <1>2

\* Once a refresh is over the selected model is offered, however switches, edited
\* sections and late lists are interleaved.
THEOREM SelectedModelCorrect == Spec => []SelectedModelListed
<1>1. Init => ModelInv
  <2> SUFFICES ASSUME Init PROVE ClosedIsClean /\ UnknownIsEmpty /\ SelectedModelListed
    BY TypeInit DEF ModelInv
  <2>1. ClosedIsClean
    BY DEF Init, SettingsClosed, ClosedIsClean
  <2>2. \A t \in Task : tasks[t].kind \in {"Idle", "Connect"}
    BY DEF Init, Idle, Job
  <2> QED
    BY <2>1, <2>2 DEF Init, UnknownIsEmpty, ListsFrom, SelectedModelListed
<1>2. ModelInv /\ [Next]_vars => ModelInv'
  <2> SUFFICES ASSUME ModelInv, [Next]_vars PROVE ModelInv'
    OBVIOUS
  <2>1. TypeOK'
    <3>1. CASE Exit \/ UNCHANGED vars
      BY <3>1 DEF Exit, vars, config, ui, ModelInv, TypeOK
    <3> QED
      BY <3>1, TypeUser, TypeBackground, TypeHandle DEF Next, Terminated, ModelInv
  <2> QED
    BY <2>1, CleanStep, UnknownStep, SelectedStep DEF ModelInv
<1>3. ModelInv => SelectedModelListed
  BY DEF ModelInv
<1> QED
  BY <1>1, <1>2, <1>3, PTL DEF Spec

(***************************************************************************)
(* Where the models come from.                                             *)
(***************************************************************************)
\* The provider is changed only while no list of models is on its way.
SwitchIdle == provider' # provider => ~Pending({"Probing", "Listing"}, {"ModelsResult"})

OriginInv ==
  TypeOK /\ ClosedIsClean /\ UnknownIsEmpty /\ ListsFrom(provider) /\ ModelsFromActiveProvider

\* Then the lists on their way are those of the provider that is active.
LEMMA ActiveListsStep ==
  ASSUME TypeOK, ListsFrom(provider), [Next]_vars, SwitchIdle
  PROVE  ListsFrom(provider)'
<1>1. CASE provider' = provider
  <2>1. PICK p \in Provider \cup {None} : p = provider
    BY DEF TypeOK
  <2>2. ListsFrom(p)
    BY <2>1 DEF ListsFrom
  <2>3. ListsFrom(p)'
    BY <2>1, <2>2, ListsStep
  <2> QED
    BY <1>1, <2>1, <2>3 DEF ListsFrom
<1>2. CASE provider' # provider
  <2>1. /\ \A t \in Task : tasks[t].kind \notin {"Probing", "Listing"}
        /\ \A i \in DOMAIN events : events[i].type # "ModelsResult"
    BY <1>2 DEF SwitchIdle, Pending
  <2>2. events' = events /\ (tasks' = tasks \/ Spawn(Job("SwitchProvider", None)))
    BY <1>2, OnlySwitchesChange DEF SubmitProvider, SettingsApplyApp
  <2>3. \A t \in Task : tasks'[t].kind \notin {"Probing", "Listing"}
    BY <2>1, <2>2 DEF Spawn, Job, TypeOK
  <2> QED
    BY <2>1, <2>2, <2>3 DEF ListsFrom
<1> QED
  BY <1>1, <1>2

\* A step after which nothing is being refreshed leaves models of the provider
\* that is active.
LEMMA OriginStep ==
  ASSUME OriginInv, [Next]_vars
  PROVE  ModelsFromActiveProvider'
<1> USE DEF OriginInv
<1> SUFFICES ASSUME models' # <<>>, ~Refreshing'
             PROVE  (provider \in Provider /\ models \in Offers[provider])'
  BY DEF ModelsFromActiveProvider
<1>1. CASE OnModelsResult
  <2>1. Head(events) = events[1] /\ 1 \in DOMAIN events
    BY <1>1, HeadTailProperties, LenProperties, EmptySeq DEF TypeOK, OnModelsResult, Receive
  <2>2. models' \in Listings(provider) /\ provider' = provider
    BY <1>1, <2>1 DEF OnModelsResult, Receive, ListsFrom
  <2> QED
    BY <2>2 DEF Listings
<1>2. CASE ~OnModelsResult
  <2>1. ~OnFirstConnect
    BY DEF OnFirstConnect
  <2>2. models' = models /\ ~Refreshing
    BY <1>2, <2>1, ModelsStay, RefreshGoesOn
  <2>3. ASSUME NEW p \in Provider PROVE ~SubmitProvider(p)
    <3>1. ASSUME SubmitProvider(p) PROVE \E t \in Task : tasks'[t] = Job("SwitchProvider", None)
      BY <3>1, SpawnTakesASlot DEF SubmitProvider
    <3> QED
      BY <3>1 DEF Job, Refreshing, Pending
  <2>4. \A p \in Provider : ~SettingsApplyApp(p)
    BY DEF SettingsApplyApp, Applied, Up, TypeOK, SettingsState, Refreshing
  <2>5. provider' = provider
    BY <2>3, <2>4, OnlySwitchesChange
  <2> QED
    BY <2>2, <2>5 DEF ModelsFromActiveProvider
<1> QED
  BY <1>1, <1>2

\* If the provider is changed only while no list of models is on its way, the models
\* on offer are those of the active provider as soon as no refresh is under way: what
\* defeats on_models_result (chat.rs) is a switch that overtakes a list, and nothing else.
THEOREM ActiveModelsCorrect == Spec /\ [][SwitchIdle]_vars => []ModelsFromActiveProvider
<1>1. Init => OriginInv
  <2> SUFFICES ASSUME Init PROVE OriginInv
    OBVIOUS
  <2>1. TypeOK
    BY TypeInit
  <2>2. ClosedIsClean
    BY DEF Init, SettingsClosed, ClosedIsClean
  <2>3. \A t \in Task : tasks[t].kind \in {"Idle", "Connect"}
    BY DEF Init, Idle, Job
  <2> QED
    BY <2>1, <2>2, <2>3
    DEF Init, OriginInv, UnknownIsEmpty, ListsFrom, ModelsFromActiveProvider
<1>2. OriginInv /\ TypeOK' /\ [Next]_vars /\ [SwitchIdle]_vars => OriginInv'
  <2> SUFFICES ASSUME OriginInv, TypeOK', [Next]_vars, [SwitchIdle]_vars PROVE OriginInv'
    OBVIOUS
  <2>1. SwitchIdle
    BY DEF SwitchIdle, vars, config
  <2> QED
    BY <2>1, CleanStep, UnknownStep, ActiveListsStep, OriginStep DEF OriginInv
<1>3. OriginInv => ModelsFromActiveProvider
  BY DEF OriginInv
<1> QED
  BY <1>1, <1>2, <1>3, TypeCorrect, PTL DEF Spec

(***************************************************************************)
(* Why the process may abort.                                              *)
(***************************************************************************)
\* The user leaves no field of a provider form blank.
CompleteForms == \A s \in FormSections : Complete(s)

\* Then every section can build a client, also the one in a form and the one that a
\* picker's task has captured; and an abort is one of laying out a ragged result.
Ragged == events # <<>> /\ Head(events).type = "RaggedResult"
AbortInv ==
  /\ TypeOK
  /\ \A p \in Provider : Complete(section[p])
  /\ settings.node \in {"Provider", "Models"} => Complete(settings.form)
  /\ \A t \in Task : tasks[t].kind = "ProviderModels" => tasks[t].filled
  /\ NeverAborts \/ Ragged

\* A model that is set is a model (set_provider_model, config.rs).
LEMMA WithModelComplete ==
  ASSUME TypeOK, NEW m \in Model, \A p \in Provider : Complete(section[p])
  PROVE  \A p \in Provider : Complete(WithModel(m)[p])
<1>1. m # None
  BY NoneAssumption
<1> QED
  BY <1>1 DEF WithModel, Complete, TypeOK, Section

\* What a step does to the sections keeps them complete.
LEMMA SectionsStayComplete ==
  ASSUME CompleteForms, AbortInv, [Next]_vars
  PROVE  \A p \in Provider : Complete(section'[p])
<1>1. ASSUME NEW m \in Model, section' = WithModel(m)
      PROVE  \A p \in Provider : Complete(section'[p])
  BY <1>1, WithModelComplete DEF AbortInv
<1>2. ASSUME UNCHANGED section PROVE \A p \in Provider : Complete(section'[p])
  BY <1>2 DEF AbortInv
<1>3. CASE CycleModel
  <2>1. NextModel(models, CurrentModel) \in Model
    BY <1>3, NextModelListed, ElementOfSeq DEF CycleModel, AbortInv, TypeOK, Offered
  <2> QED
    BY <1>1, <1>3, <2>1 DEF CycleModel
<1>4. ASSUME NEW m \in Model, SubmitModel(m) PROVE \A p \in Provider : Complete(section'[p])
  BY <1>1, <1>4 DEF SubmitModel
<1>5. ASSUME NEW s \in Section, SettingsApplyProvider(s)
      PROVE  \A p \in Provider : Complete(section'[p])
  <2>1. Complete(s)
    BY <1>5 DEF SettingsApplyProvider, SettingsKey, Typed, CompleteForms, AbortInv
  <2> QED
    BY <1>5, <2>1 DEF SettingsApplyProvider, AbortInv, TypeOK
<1>6. CASE OnModelsResult
  <2> DEFINE list == Head(events).list
  <2>1. list \in Seq(Model)
    <3>1. Head(events) \in AppEvent
      BY <1>6, ReceiveType DEF OnModelsResult, AbortInv
    <3> QED
      BY <3>1 DEF AppEvent
  <2>2. CASE list = <<>> \/ Offered(list, CurrentModel)
    BY <1>2, <1>6, <2>2 DEF OnModelsResult
  <2>3. CASE ~(list = <<>> \/ Offered(list, CurrentModel))
    <3>1. list[1] \in Model
      BY <2>1, <2>3
    <3> QED
      BY <1>1, <1>6, <2>3, <3>1 DEF OnModelsResult
  <2> QED
    BY <2>2, <2>3
<1> QED
  BY <1>2, <1>3, <1>4, <1>5, <1>6 DEF Next, Terminated, vars, config, ui, User, SetupSubmit,
    QuitKey, OpenSettings, SubmitCommand, SubmitAnalyze, SubmitApiKey, SubmitExit,
    SubmitProvider, SettingsApplyApp, SettingsEnter, SettingsDiscard, SettingsLeaveModels,
    SettingsClose, SettingsOpenModels, Background, Work, ConnectDone, CommandDone,
    AnalyzeStart, AnalyzeProgress, AnalyzeEnd, SwitchStart, SwitchReady, FetchStart,
    ListDone, ProviderModelsDone, Panic, Handle, OnFirstConnect, OnSetupFailure,
    OnReconnect, OnResult, LayoutPanic, OnAnalyzeResult, OnNotice, OnProviderModels, Exit

\* A form shows a complete section, and so does what its model picker goes back to.
LEMMA FormsStayComplete ==
  ASSUME CompleteForms, AbortInv, [Next]_vars
  PROVE  settings'.node \in {"Provider", "Models"} => Complete(settings'.form)
<1> USE DEF AbortInv
<1>1. settings \in SettingsState
  BY DEF TypeOK
<1>2. ASSUME \/ settings' = SettingsClosed
             \/ \E b \in BOOLEAN : settings' = [SettingsClosed EXCEPT !.open = b]
      PROVE  settings'.node = "Menu"
  BY <1>2 DEF SettingsClosed
<1>3. ASSUME settings' \in {Up, Applied} PROVE settings'.node = "Menu"
  BY <1>1, <1>3 DEF Up, Applied, SettingsState
<1>4. CASE SettingsEnter
  <2>1. CASE settings' = [settings EXCEPT !.node = "App"]
    BY <1>1, <2>1 DEF SettingsState
  <2>2. ASSUME NEW p \in Provider,
               settings' = [settings EXCEPT !.node = "Provider", !.of = p, !.form = section[p]]
        PROVE  Complete(settings'.form)
    BY <1>1, <2>2 DEF SettingsState
  <2> QED
    BY <1>4, <2>1, <2>2 DEF SettingsEnter
<1>5. ASSUME NEW s \in Section, SettingsOpenModels(s) PROVE Complete(settings'.form)
  <2>1. Complete(s)
    BY <1>5 DEF SettingsOpenModels, SettingsKey, Typed, CompleteForms
  <2> QED
    BY <1>1, <1>5, <2>1 DEF SettingsOpenModels, SettingsState
<1>6. CASE SettingsLeaveModels
  <2>1. PICK m \in {settings.form.model} \cup Model :
          settings' = [settings EXCEPT !.node = "Provider", !.form = [@ EXCEPT !.model = m],
                                       !.loading = FALSE]
    BY <1>6 DEF SettingsLeaveModels
  <2>2. Complete(settings.form) /\ settings.form \in Section
    BY <1>1, <1>6 DEF SettingsLeaveModels, SettingsKey, SettingsState
  <2>3. m # None
    BY <2>1, <2>2, NoneAssumption DEF Complete
  <2>4. settings'.form = [settings.form EXCEPT !.model = m]
    BY <1>1, <2>1 DEF SettingsState
  <2> QED
    BY <2>2, <2>3, <2>4 DEF Complete, Section
<1>7. CASE OnProviderModels
  <2>1. settings'.node = settings.node /\ settings'.form = settings.form
    BY <1>1, <1>7 DEF OnProviderModels, SettingsState
  <2> QED
    BY <2>1
<1>8. ASSUME UNCHANGED settings
      PROVE  settings'.node \in {"Provider", "Models"} => Complete(settings'.form)
  BY <1>8
<1>9. CASE OpenSettings \/ SettingsClose \/ OnFirstConnect
  BY <1>2, <1>9 DEF OpenSettings, SettingsClose, OnFirstConnect
<1>10. ASSUME \/ SettingsDiscard \/ \E p \in Provider : SettingsApplyApp(p)
              \/ \E s \in Section : SettingsApplyProvider(s)
       PROVE  settings'.node = "Menu"
  BY <1>3, <1>10 DEF SettingsDiscard, SettingsApplyApp, SettingsApplyProvider
<1> QED
  BY <1>4, <1>5, <1>6, <1>7, <1>8, <1>9, <1>10 DEF Next, Terminated, vars, config, ui, User,
    SetupSubmit, QuitKey, CycleModel, SubmitCommand, SubmitAnalyze, SubmitApiKey, SubmitExit,
    SubmitProvider, SubmitModel, Background, Work, ConnectDone, CommandDone,
    AnalyzeStart, AnalyzeProgress, AnalyzeEnd, SwitchStart, SwitchReady, FetchStart,
    ListDone, ProviderModelsDone, Panic, Handle, OnSetupFailure,
    OnReconnect, OnResult, LayoutPanic, OnAnalyzeResult, OnNotice, OnModelsResult, Exit

\* A task of the picker has captured a complete section.
LEMMA CapturesStayComplete ==
  ASSUME CompleteForms, AbortInv, [Next]_vars
  PROVE  \A t \in Task : tasks'[t].kind = "ProviderModels" => tasks'[t].filled
<1> USE DEF AbortInv
<1> DEFINE Filled == \A t \in Task : tasks'[t].kind = "ProviderModels" => tasks'[t].filled
<1>1. ASSUME NEW job, Spawn(job), job.kind = "ProviderModels" => job.filled PROVE Filled
  BY <1>1, SpawnTakesASlot
<1>2. ASSUME NEW t \in Task, NEW job, Step(t, job), job.kind # "ProviderModels" PROVE Filled
  BY <1>2 DEF Step, TypeOK
<1>3. ASSUME NEW kind, NEW p, Spawn(Job(kind, p)) PROVE Filled
  <2>1. Job(kind, p).filled
    BY DEF Job
  <2> QED
    BY <1>1, <1>3, <2>1
<1>4. ASSUME UNCHANGED tasks PROVE Filled
  BY <1>4
<1>5. CASE User
  <2>1. ASSUME NEW s \in Section, SettingsOpenModels(s) PROVE Filled
    <3> DEFINE job == [Job("ProviderModels", settings.of) EXCEPT !.filled = Complete(s)]
    <3>1. Complete(s)
      BY <2>1 DEF SettingsOpenModels, SettingsKey, Typed, CompleteForms
    <3>2. job.filled
      BY <3>1 DEF Job
    <3>3. Spawn(job)
      BY <2>1 DEF SettingsOpenModels
    <3> QED
      BY <1>1, <3>2, <3>3
  <2> QED
    BY <1>3, <1>4, <1>5, <2>1 DEF User, SetupSubmit, QuitKey, OpenSettings, CycleModel,
      SubmitCommand, SubmitAnalyze, SubmitApiKey, SubmitExit, SubmitProvider,
      SettingsApplyApp, SubmitModel, SettingsEnter, SettingsDiscard, SettingsLeaveModels,
      SettingsClose, SettingsApplyProvider, ui
<1>6. ASSUME NEW t \in Task, Work(t) PROVE Filled
  <2>1. \A p : /\ Idle.kind # "ProviderModels" /\ Job("Analyzing", p).kind # "ProviderModels"
               /\ Job("Probing", p).kind # "ProviderModels"
               /\ Job("Listing", p).kind # "ProviderModels"
    BY DEF Idle, Job
  <2>2. \/ Step(t, Idle) \/ UNCHANGED tasks
        \/ \E p : Step(t, Job("Analyzing", p)) \/ Step(t, Job("Probing", p))
                    \/ Step(t, Job("Listing", p))
    BY <1>6 DEF Work, ConnectDone, CommandDone, AnalyzeStart, AnalyzeEnd, SwitchStart,
      SwitchReady, FetchStart, ListDone, ProviderModelsDone, Panic, Finish
  <2> QED
    BY <1>2, <1>4, <1>6, <2>1, <2>2
<1>7. CASE Handle
  BY <1>3, <1>4, <1>7 DEF Handle, OnFirstConnect, OnSetupFailure, OnReconnect, OnResult,
    LayoutPanic, OnAnalyzeResult, OnNotice, OnModelsResult, OnProviderModels
<1>8. ASSUME NEW t \in Task, AnalyzeProgress(t) PROVE Filled
  BY <1>4, <1>8 DEF AnalyzeProgress
<1>9. CASE Exit \/ Terminated \/ UNCHANGED vars
  BY <1>4, <1>9 DEF Exit, Terminated, vars
<1> QED
  BY <1>5, <1>6, <1>7, <1>8, <1>9 DEF Next, Background

\* Only laying out a ragged result aborts the process, and then nothing happens any more.
LEMMA RaggedStep ==
  ASSUME AbortInv, [Next]_vars
  PROVE  NeverAborts' \/ Ragged'
<1> SUFFICES ASSUME status' = "aborted" PROVE Ragged'
  BY DEF NeverAborts
<1>1. CASE status = "aborted"
  <2>1. ~Running /\ Ragged
    BY <1>1 DEF Running, AbortInv, NeverAborts
  <2>2. UNCHANGED vars
    BY <1>1, <2>1 DEF Next, Terminated, User, SetupSubmit, QuitKey, OpenSettings, CycleModel,
      ChatKey, Prompt, SettingsKey, At, Receive,
      SubmitCommand, SubmitAnalyze, SubmitApiKey, SubmitExit, SubmitProvider, SubmitModel,
      SettingsApplyApp, SettingsEnter, SettingsDiscard, SettingsLeaveModels, SettingsClose,
      SettingsApplyProvider, SettingsOpenModels, Background, Work, ConnectDone, CommandDone,
      AnalyzeStart, AnalyzeProgress, AnalyzeEnd, SwitchStart, SwitchReady, FetchStart,
      ListDone, ProviderModelsDone, Panic, Handle, OnFirstConnect, OnSetupFailure,
      OnReconnect, OnResult, LayoutPanic, OnAnalyzeResult, OnNotice, OnModelsResult,
      OnProviderModels, Exit
  <2> QED
    BY <2>1, <2>2 DEF vars, Ragged
<1>2. CASE status # "aborted"
  <2>1. \A t \in Task : ~Panic(t)
    BY DEF Panic, AbortInv
  <2>2. CASE LayoutPanic
    BY <2>2 DEF LayoutPanic, Ragged
  <2>3. CASE User
    BY <1>2, <2>3 DEF User, SetupSubmit, QuitKey, OpenSettings, CycleModel,
      SubmitCommand, SubmitAnalyze, SubmitApiKey, SubmitExit, SubmitProvider, SubmitModel,
      SettingsApplyApp, SettingsEnter, SettingsDiscard, SettingsLeaveModels, SettingsClose,
      SettingsApplyProvider, SettingsOpenModels
  <2>4. CASE Background
    BY <1>2, <2>1, <2>4 DEF Background, Work, ConnectDone, CommandDone,
      AnalyzeStart, AnalyzeProgress, AnalyzeEnd, SwitchStart, SwitchReady, FetchStart,
      ListDone, ProviderModelsDone
  <2>5. CASE Handle /\ ~LayoutPanic
    BY <1>2, <2>5 DEF Handle, OnFirstConnect, OnSetupFailure,
      OnReconnect, OnResult, OnAnalyzeResult, OnNotice, OnModelsResult, OnProviderModels
  <2> QED
    BY <1>2, <2>2, <2>3, <2>4, <2>5 DEF Next, Exit, Terminated, vars
<1> QED
  BY <1>1, <1>2

\* If the user leaves no field of a provider form blank, no task finds a section it
\* cannot build a client from, whatever is switched, edited and fetched meanwhile:
\* the process aborts for the other reason only, a result of several statements
\* whose rows are narrower than its columns (format_outcome, chat.rs).
THEOREM AbortCauses ==
  ASSUME CompleteForms
  PROVE  Spec => [](NeverAborts \/ Ragged)
<1>1. Init => AbortInv
  <2> SUFFICES ASSUME Init PROVE AbortInv
    OBVIOUS
  <2>1. TypeOK
    BY TypeInit
  <2>2. \A p \in Provider : Complete(section[p])
    BY DEF Init
  <2>3. settings.node = "Menu" /\ NeverAborts
    BY DEF Init, SettingsClosed, NeverAborts
  <2>4. \A t \in Task : tasks[t].kind # "ProviderModels"
    BY DEF Init, Idle, Job
  <2> QED
    BY <2>1, <2>2, <2>3, <2>4 DEF AbortInv
<1>2. AbortInv /\ TypeOK' /\ [Next]_vars => AbortInv'
  <2> SUFFICES ASSUME AbortInv, TypeOK', [Next]_vars PROVE AbortInv'
    OBVIOUS
  <2>1. /\ \A p \in Provider : Complete(section'[p])
        /\ settings'.node \in {"Provider", "Models"} => Complete(settings'.form)
        /\ \A t \in Task : tasks'[t].kind = "ProviderModels" => tasks'[t].filled
        /\ NeverAborts' \/ Ragged'
    BY SectionsStayComplete, FormsStayComplete, CapturesStayComplete, RaggedStep
  <2> QED
    BY <2>1 DEF AbortInv, Complete
<1>3. AbortInv => NeverAborts \/ Ragged
  BY DEF AbortInv
<1> QED
  BY <1>1, <1>2, <1>3, TypeCorrect, PTL DEF Spec

=============================================================================
