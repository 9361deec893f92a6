-------------------------------- MODULE App --------------------------------
(***************************************************************************)
(* The event loop of pgbutler (app.rs) together with the chat screen       *)
(* (ui/chat.rs), the settings overlay (ui/settings.rs), the provider part  *)
(* of the configuration (config.rs) and the background tasks.              *)
(*                                                                         *)
(* One thread reads keys and, from an unbounded FIFO channel, the events   *)
(* that tokio tasks send.  A key handler may spawn a task; the task reads  *)
(* the shared configuration when it first runs, talks to PostgreSQL or to  *)
(* an AI provider, and sends its answer.  Answers carry no request id, so  *)
(* the handler that takes one cannot tell which request it belongs to.     *)
(*                                                                         *)
(* Left out: what is only displayed (messages, the text of the preview,    *)
(* token usage), the characters of the prompt and of the forms (a form is  *)
(* one choice among FormSections), and the database connection and the     *)
(* files, which the other modules of this project model.                   *)
(***************************************************************************)
EXTENDS Naturals, Sequences, FiniteSets

CONSTANTS
  Provider,      \* the known AI providers
  Keyless,       \* those that need no API key (ollama)
  Model,         \* model names
  Offers,        \* Offers[p]: the non-empty listings provider p may answer
  Task,          \* slots for background tasks; their number bounds the work in flight
  Commands,      \* the chat commands the user gives
  FormSections,  \* the provider sections the user may type into a settings form
  None           \* no model is set; the configured provider name is unknown

Section == [model : Model \cup {None}, filled : BOOLEAN]

PlainCommand == {"Connect", "Query", "IndexStatsReport", "Explain", "RelKind"}
ChatCommand == PlainCommand \cup {"Analyze", "Provider", "ApiKey", "Model", "Exit"}

ASSUME NoneAssumption == None \notin Provider \cup Model
ASSUME ProviderAssumption == Keyless \subseteq Provider
ASSUME OffersAssumption == Offers \in [Provider -> SUBSET (Seq(Model) \ {<<>>})]
ASSUME TaskAssumption == IsFiniteSet(Task)
ASSUME InputAssumption == Commands \subseteq ChatCommand /\ FormSections \subseteq Section

VARIABLES
  status,      \* of the process: "running", "quitting", "exited", "aborted"
  screen,      \* "Setup" or "Chat"
  connecting,  \* SetupScreen.connecting
  provider,    \* the active provider, None when config.toml names an unknown one
  section,     \* section[p]: the configured model, and whether URL and sizes are set
  busy,        \* ChatScreen.busy
  models,      \* ChatScreen.models
  preview,     \* TRUE when ChatScreen.analysis_preview is Some
  settings,    \* the settings overlay
  tasks,       \* the spawned tasks
  events       \* the channel of AppEvents

vars == <<status, screen, connecting, provider, section, busy, models, preview,
          settings, tasks, events>>
config == <<provider, section>>
ui == <<screen, connecting, busy, models, preview, settings>>

(***************************************************************************)
(* Tasks and events.  `of' is the provider a task works for (None when it  *)
(* has none); `filled' says whether the section that ProviderModels        *)
(* captured can build a client.                                            *)
(***************************************************************************)
TaskKind == PlainCommand \cup {"Idle", "Analyze", "Analyzing", "SwitchProvider", "Probing",
                               "FetchModels", "Listing", "ProviderModels"}
TaskState == [kind : TaskKind, of : Provider \cup {None}, filled : BOOLEAN]

\* A RaggedResult is a QueryResult with rows narrower than its columns.
EventType == {"ConnectOk", "ConnectErr", "QueryResult", "RaggedResult", "ExplainResult",
              "RelKindResult",
              "AnalyzeProgress", "AnalyzeResult", "ModelsResult", "ProviderReady",
              "ProviderModelsResult"}
AppEvent == [type : EventType, of : Provider \cup {None}, list : Seq(Model)]

Job(kind, p) == [kind |-> kind, of |-> p, filled |-> TRUE]
Idle == Job("Idle", None)
Event(type) == [type |-> type, of |-> None, list |-> <<>>]

\* `form' holds what the fields of the provider form show: the section as it was
\* when the form was opened, with the user's edits.
Blank == [model |-> None, filled |-> FALSE]
SettingsClosed ==
  [open |-> FALSE, dirty |-> FALSE, node |-> "Menu", of |-> None, form |-> Blank,
   loading |-> FALSE]
SettingsState ==
  [open : BOOLEAN, dirty : BOOLEAN, node : {"Menu", "App", "Provider", "Models"},
   of : Provider \cup {None}, form : Section, loading : BOOLEAN]

(***************************************************************************)
(* The provider configuration.                                             *)
(***************************************************************************)
\* The section can build a client: provider/*.rs unwrap every one of its fields.
Complete(s) == s.filled /\ s.model # None

CurrentModel == IF provider \in Provider THEN section[provider].model ELSE None

\* Mutant: the model is set in every section, not in the active one.
WithModelEverywhere(m) ==
  IF provider \in Provider
  THEN [p \in Provider |-> [section[p] EXCEPT !.model = m]]
  ELSE section

WithModel(m) ==
  IF provider \in Provider THEN [section EXCEPT ![provider].model = m] ELSE section

Offered(list, m) == \E i \in DOMAIN list : list[i] = m

\* The model after m in the list, wrapping around; the first when m is not in it.
NextModel(list, m) ==
  LET at == {i \in DOMAIN list : list[i] = m} IN
  IF at = {} THEN list[1]
  ELSE list[((CHOOSE i \in at : \A j \in at : i =< j) % Len(list)) + 1]

(***************************************************************************)
(* The clients a task may end up with when it reads the configuration:     *)
(* the active provider's; none, when the provider is unknown or its key    *)
(* is missing (the key is checked first).  A section that is not complete  *)
(* makes the task panic, see Panic.                                        *)
(***************************************************************************)
Clients ==
  {p \in {provider} \cap Provider : Complete(section[p])}
    \cup {p \in {None} : provider \notin Keyless}

----------------------------------------------------------------------------
Running == status = "running"

\* The user acts only while a slot is left for every answer in flight: a bound
\* of the model, the channel and the number of tasks have none in the code.
Room == Cardinality({t \in Task : tasks[t] # Idle}) + Len(events) < Cardinality(Task)

Spawn(job) == \E t \in Task : tasks[t] = Idle /\ tasks' = [tasks EXCEPT ![t] = job]

Init ==
  /\ status = "running"
  /\ screen = "Setup"
  /\ provider \in Provider \cup {None}
  /\ section \in [Provider -> {s \in Section : Complete(s)}]
  /\ busy = FALSE /\ models = <<>> /\ preview = FALSE /\ settings = SettingsClosed
  /\ events = <<>>
  /\ \/ /\ connecting = FALSE
        /\ tasks = [t \in Task |-> Idle]
     \/ /\ connecting = TRUE          \* a saved connection is tried at once
        /\ \E s \in Task : tasks = [t \in Task |-> IF t = s THEN Job("Connect", None) ELSE Idle]

----------------------------------------------------------------------------
(***************************************************************************)
(* The user on the setup screen, and quitting.                             *)
(***************************************************************************)
\* Mutant: input is not ignored while an attempt is in flight.
SetupSubmitAgain ==
  /\ Running /\ screen = "Setup" /\ Room
  /\ connecting' = TRUE
  /\ Spawn(Job("Connect", None))
  /\ UNCHANGED <<status, screen, config, busy, models, preview, settings, events>>

\* A valid form is submitted; an invalid one only shows an error.
SetupSubmit ==
  /\ Running /\ screen = "Setup" /\ ~connecting /\ Room
  /\ connecting' = TRUE
  /\ Spawn(Job("Connect", None))
  /\ UNCHANGED <<status, screen, config, busy, models, preview, settings, events>>

\* Ctrl+C and Ctrl+D, on any screen.
QuitKey ==
  /\ Running
  /\ status' = "quitting"
  /\ UNCHANGED <<config, ui, tasks, events>>

(***************************************************************************)
(* The user on the chat screen.  Ctrl+S and Ctrl+M work while a command    *)
(* runs; the prompt does not.                                              *)
(***************************************************************************)
ChatKey == Running /\ screen = "Chat" /\ ~settings.open
Prompt == ChatKey /\ ~busy

OpenSettings ==
  /\ ChatKey
  /\ settings' = [SettingsClosed EXCEPT !.open = TRUE]
  /\ UNCHANGED <<status, screen, connecting, config, busy, models, preview, tasks, events>>

CycleModel ==
  /\ ChatKey /\ models # <<>>
  /\ section' = WithModel(NextModel(models, CurrentModel))
  /\ UNCHANGED <<status, provider, ui, tasks, events>>

SubmitCommand(kind) ==
  /\ Prompt /\ Room
  /\ kind \in Commands \cap PlainCommand
  /\ busy' = TRUE
  /\ Spawn(Job(kind, None))
  /\ UNCHANGED <<status, screen, connecting, config, models, preview, settings, events>>

SubmitAnalyze ==
  /\ Prompt /\ Room /\ "Analyze" \in Commands
  /\ busy' = TRUE /\ preview' = TRUE
  /\ Spawn(Job("Analyze", None))
  /\ UNCHANGED <<status, screen, connecting, config, models, settings, events>>

\* /provider with a known name; an unknown one only shows an error.
SubmitProvider(p) ==
  /\ Prompt /\ Room /\ "Provider" \in Commands
  /\ provider' = p
  /\ busy' = TRUE
  /\ Spawn(Job("SwitchProvider", None))
  /\ UNCHANGED <<status, screen, connecting, section, models, preview, settings, events>>

\* /api-key; refused by a provider that is unknown or has no key.
SubmitApiKey ==
  /\ Prompt /\ Room /\ "ApiKey" \in Commands
  /\ provider \in Provider \ Keyless
  /\ busy' = TRUE
  /\ Spawn(Job("SwitchProvider", None))
  /\ UNCHANGED <<status, screen, connecting, config, models, preview, settings, events>>

\* /model with a listed name; nothing is spawned and busy stays FALSE.
SubmitModel(m) ==
  /\ Prompt /\ "Model" \in Commands
  /\ Offered(models, m)
  /\ section' = WithModel(m)
  /\ UNCHANGED <<status, provider, ui, tasks, events>>

\* /exit and /quit.
SubmitExit ==
  /\ Prompt /\ "Exit" \in Commands
  /\ busy' = TRUE
  /\ status' = "quitting"
  /\ UNCHANGED <<screen, connecting, config, models, preview, settings, tasks, events>>

(***************************************************************************)
(* The user in the settings overlay, which takes every key while it is     *)
(* open.  "Menu" stands for every level that edits neither the provider    *)
(* choice nor a provider section.                                          *)
(***************************************************************************)
SettingsKey(node) == Running /\ settings.open /\ settings.node = node

SettingsEnter ==
  /\ SettingsKey("Menu")
  /\ \/ settings' = [settings EXCEPT !.node = "App"]
     \/ \E p \in Provider :
          settings' = [settings EXCEPT !.node = "Provider", !.of = p, !.form = section[p]]
  /\ UNCHANGED <<status, screen, connecting, config, busy, models, preview, tasks, events>>

\* Esc in a form applies it and goes up one level.
Up == [settings EXCEPT !.node = "Menu", !.of = None, !.form = Blank]
Applied == [Up EXCEPT !.dirty = TRUE]

\* What the provider form may show when the next key is no edit.
Typed == FormSections \cup {settings.form}

SettingsApplyApp(p) ==
  /\ SettingsKey("App")
  /\ provider' = p
  /\ settings' = Applied
  /\ UNCHANGED <<status, screen, connecting, section, busy, models, preview, tasks, events>>

\* Mutant: applying a section does not mark the providers as changed.
SettingsApplyUnmarked(s) ==
  /\ SettingsKey("Provider")
  /\ s \in Typed
  /\ section' = [section EXCEPT ![settings.of] = s]
  /\ settings' = Up
  /\ UNCHANGED <<status, screen, connecting, provider, busy, models, preview, tasks, events>>

\* The form replaces the whole section; blank fields are stored as unset.
SettingsApplyProvider(s) ==
  /\ SettingsKey("Provider")
  /\ s \in Typed
  /\ section' = [section EXCEPT ![settings.of] = s]
  /\ settings' = Applied
  /\ UNCHANGED <<status, screen, connecting, provider, busy, models, preview, tasks, events>>

\* The form was rejected and a second Esc discards it.
SettingsDiscard ==
  /\ SettingsKey("App") \/ SettingsKey("Provider")
  /\ settings' = Up
  /\ UNCHANGED <<status, screen, connecting, config, busy, models, preview, tasks, events>>

\* Mutant: the request does not carry the provider's name.
SettingsOpenModelsUnnamed(s) ==
  /\ SettingsKey("Provider") /\ Room
  /\ s \in Typed
  /\ settings' = [settings EXCEPT !.node = "Models", !.form = s, !.loading = TRUE]
  /\ Spawn([Job("ProviderModels", None) EXCEPT !.filled = Complete(s)])
  /\ UNCHANGED <<status, screen, connecting, config, busy, models, preview, events>>

\* Enter on the model field asks for the models of the section being edited.
SettingsOpenModels(s) ==
  /\ SettingsKey("Provider") /\ Room
  /\ s \in Typed
  /\ settings' = [settings EXCEPT !.node = "Models", !.form = s, !.loading = TRUE]
  /\ Spawn([Job("ProviderModels", settings.of) EXCEPT !.filled = Complete(s)])
  /\ UNCHANGED <<status, screen, connecting, config, busy, models, preview, events>>

\* Esc in the picker, or Enter on a model that the provider has: back to the
\* form, which shows the model picked.
SettingsLeaveModels ==
  /\ SettingsKey("Models")
  /\ \E m \in {settings.form.model} \cup
              {m \in Model : ~settings.loading /\ \E list \in Offers[settings.of] : Offered(list, m)} :
       settings' = [settings EXCEPT !.node = "Provider", !.form = [@ EXCEPT !.model = m],
                                     !.loading = FALSE]
  /\ UNCHANGED <<status, screen, connecting, config, busy, models, preview, tasks, events>>

\* Esc at the root; a changed provider is reloaded as /provider does.
SettingsClose ==
  /\ SettingsKey("Menu")
  /\ settings' = SettingsClosed
  /\ IF settings.dirty
     THEN Room /\ busy' = TRUE /\ Spawn(Job("SwitchProvider", None))
     ELSE UNCHANGED <<busy, tasks>>
  /\ UNCHANGED <<status, screen, connecting, config, models, preview, events>>

----------------------------------------------------------------------------
(***************************************************************************)
(* Background tasks.                                                       *)
(***************************************************************************)
At(t, kind) == Running /\ tasks[t].kind = kind
Step(t, job) == tasks' = [tasks EXCEPT ![t] = job]
Finish(t, event) == Step(t, Idle) /\ events' = Append(events, event)

ConnectDone(t) ==
  /\ At(t, "Connect")
  /\ \E type \in {"ConnectOk", "ConnectErr"} : Finish(t, Event(type))
  /\ UNCHANGED <<status, config, ui>>

\* run_query collects the rows of all statements under the first one's columns.
Answer == [Query |-> {"QueryResult", "RaggedResult"}, IndexStatsReport |-> {"QueryResult"},
           Explain |-> {"ExplainResult"}, RelKind |-> {"RelKindResult"}]

CommandDone(t) ==
  /\ Running /\ tasks[t].kind \in DOMAIN Answer
  /\ \E type \in Answer[tasks[t].kind] : Finish(t, Event(type))
  /\ UNCHANGED <<status, config, ui>>

\* Mutant: a task that cannot build a client returns without an answer.
AnalyzeStartSilent(t) ==
  /\ At(t, "Analyze")
  /\ \E client \in Clients : Step(t, IF client = None THEN Idle ELSE Job("Analyzing", client))
  /\ UNCHANGED <<status, config, ui, events>>

\* The provider is read only now; the model was read when the task was spawned.
AnalyzeStart(t) ==
  /\ At(t, "Analyze")
  /\ \E client \in Clients :
       IF client = None THEN Finish(t, Event("AnalyzeResult"))
       ELSE Step(t, Job("Analyzing", client)) /\ UNCHANGED events
  /\ UNCHANGED <<status, config, ui>>

\* Text of the answer, or a reset when the provider retries a turn.
AnalyzeProgress(t) ==
  /\ At(t, "Analyzing") /\ Room
  /\ events' = Append(events, Event("AnalyzeProgress"))
  /\ UNCHANGED <<status, config, ui, tasks>>

AnalyzeEnd(t) ==
  /\ At(t, "Analyzing")
  /\ Finish(t, Event("AnalyzeResult"))
  /\ UNCHANGED <<status, config, ui>>

SwitchStart(t) ==
  /\ At(t, "SwitchProvider")
  /\ \E client \in Clients : Step(t, Job("Probing", client))
  /\ UNCHANGED <<status, config, ui, events>>

\* Both requests of a switch are done and the first of its two events goes out;
\* other tasks may send between the two.  A provider that is not ready (never
\* one without a key) has not been asked for its models.
SwitchReady(t) ==
  /\ At(t, "Probing")
  /\ \E client \in {tasks[t].of} \cup {p \in {None} : tasks[t].of \notin Keyless} :
       Step(t, Job("Listing", client))
  /\ events' = Append(events, Event("ProviderReady"))
  /\ UNCHANGED <<status, config, ui>>

FetchStart(t) ==
  /\ At(t, "FetchModels")
  /\ \E client \in Clients : Step(t, Job("Listing", client))
  /\ UNCHANGED <<status, config, ui, events>>

\* The models arrive, or a switch sends its second event; a listing that fails
\* is an empty one.
Listings(p) == {<<>>} \cup (IF p \in Provider THEN Offers[p] ELSE {})

ListDone(t) ==
  /\ At(t, "Listing")
  /\ \E list \in Listings(tasks[t].of) :
       Finish(t, [Event("ModelsResult") EXCEPT !.list = list])
  /\ UNCHANGED <<status, config, ui>>

\* Mutant: only a successful listing is reported.
ProviderModelsDoneOnSuccess(t) ==
  /\ At(t, "ProviderModels")
  /\ tasks[t].filled \/ tasks[t].of \notin Keyless
  /\ \/ Finish(t, [Event("ProviderModelsResult") EXCEPT !.of = tasks[t].of])
     \/ Step(t, Idle) /\ UNCHANGED events
  /\ UNCHANGED <<status, config, ui>>

\* A section that is not filled gets an answer only when its key is missing.
ProviderModelsDone(t) ==
  /\ At(t, "ProviderModels")
  /\ tasks[t].filled \/ tasks[t].of \notin Keyless
  /\ Finish(t, [Event("ProviderModelsResult") EXCEPT !.of = tasks[t].of])
  /\ UNCHANGED <<status, config, ui>>

\* Building a client unwraps fields that are not set; the release profile
\* turns the panic into an abort of the process.
Panic(t) ==
  /\ Running
  /\ \/ /\ tasks[t].kind \in {"Analyze", "SwitchProvider", "FetchModels"}
        /\ \E p \in {provider} \cap Provider : ~Complete(section[p])
     \/ tasks[t].kind = "ProviderModels" /\ ~tasks[t].filled
  /\ status' = "aborted"
  /\ UNCHANGED <<config, ui, tasks, events>>

Work(t) ==
  \/ ConnectDone(t) \/ CommandDone(t)
  \/ AnalyzeStart(t) \/ AnalyzeEnd(t)
  \/ SwitchStart(t) \/ SwitchReady(t) \/ FetchStart(t) \/ ListDone(t)
  \/ ProviderModelsDone(t)
  \/ Panic(t)

----------------------------------------------------------------------------
(***************************************************************************)
(* The event loop takes the next event.  On the setup screen every event   *)
(* but a ConnectResult is dropped; SetupConnectsOnce says there is none.   *)
(***************************************************************************)
Receive(types) ==
  /\ Running /\ events # <<>> /\ Head(events).type \in types
  /\ events' = Tail(events)

\* A new ChatScreen replaces the setup screen.
OnFirstConnect ==
  /\ Receive({"ConnectOk"}) /\ screen = "Setup"
  /\ screen' = "Chat" /\ connecting' = FALSE
  /\ busy' = FALSE /\ models' = <<>> /\ preview' = FALSE /\ settings' = SettingsClosed
  /\ Spawn(Job("FetchModels", None))
  /\ UNCHANGED <<status, config>>

\* Mutant: a failed attempt leaves the form locked.
OnSetupFailureLocked ==
  /\ Receive({"ConnectErr"}) /\ screen = "Setup"
  /\ UNCHANGED <<status, config, ui, tasks>>

OnSetupFailure ==
  /\ Receive({"ConnectErr"}) /\ screen = "Setup"
  /\ connecting' = FALSE
  /\ UNCHANGED <<status, screen, config, busy, models, preview, settings, tasks>>

\* /connect succeeded: the models are fetched again.
OnReconnect ==
  /\ Receive({"ConnectOk"}) /\ screen = "Chat"
  /\ busy' = FALSE
  /\ Spawn(Job("FetchModels", None))
  /\ UNCHANGED <<status, screen, connecting, config, models, preview, settings>>

\* Mutant: the answer of /explain leaves the prompt locked.
OnResultLocked ==
  /\ Receive({"ConnectErr", "QueryResult", "ExplainResult", "RelKindResult"})
  /\ screen = "Chat"
  /\ busy' = (busy /\ Head(events).type = "ExplainResult")
  /\ UNCHANGED <<status, screen, connecting, config, models, preview, settings, tasks>>

\* The answers that only clear busy and show a message.
OnResult ==
  /\ Receive({"ConnectErr", "QueryResult", "ExplainResult", "RelKindResult"})
  /\ screen = "Chat"
  /\ busy' = FALSE
  /\ UNCHANGED <<status, screen, connecting, config, models, preview, settings, tasks>>

\* format_outcome indexes each row by the columns, also a narrower one.
LayoutPanic ==
  /\ Running /\ events # <<>> /\ Head(events).type = "RaggedResult"
  /\ screen = "Chat"
  /\ status' = "aborted"
  /\ UNCHANGED <<config, ui, tasks, events>>

\* Mutant: the preview outlives its analysis.
OnAnalyzeResultKeepsPreview ==
  /\ Receive({"AnalyzeResult"}) /\ screen = "Chat"
  /\ busy' = FALSE
  /\ UNCHANGED <<status, screen, connecting, config, models, preview, settings, tasks>>

OnAnalyzeResult ==
  /\ Receive({"AnalyzeResult"}) /\ screen = "Chat"
  /\ busy' = FALSE /\ preview' = FALSE
  /\ UNCHANGED <<status, screen, connecting, config, models, settings, tasks>>

\* These two change only what is displayed.
OnNotice ==
  /\ Receive({"AnalyzeProgress", "ProviderReady"}) /\ screen = "Chat"
  /\ UNCHANGED <<status, config, ui, tasks>>

\* The list replaces the old one, whichever provider it came from; a selected
\* model that is not in it gives way to the first one that is.
OnModelsResult ==
  /\ Receive({"ModelsResult"}) /\ screen = "Chat"
  /\ busy' = FALSE
  /\ LET list == Head(events).list IN
       /\ models' = list
       /\ section' = IF list = <<>> \/ Offered(list, CurrentModel) THEN section
                     ELSE WithModel(list[1])
  /\ UNCHANGED <<status, screen, connecting, provider, preview, settings, tasks>>

\* Ignored unless a picker of that provider is open.
OnProviderModels ==
  /\ Receive({"ProviderModelsResult"}) /\ screen = "Chat"
  /\ settings' = IF settings.node = "Models" /\ settings.of = Head(events).of
                 THEN [settings EXCEPT !.loading = FALSE] ELSE settings
  /\ UNCHANGED <<status, screen, connecting, config, busy, models, preview, tasks>>

Handle ==
  \/ OnFirstConnect \/ OnSetupFailure \/ OnReconnect \/ OnResult \/ LayoutPanic
  \/ OnAnalyzeResult \/ OnNotice \/ OnModelsResult \/ OnProviderModels

\* The loop ends after a quit, or when drawing fails; the tasks die with it.
Exit ==
  /\ status \in {"running", "quitting"}
  /\ status' = "exited"
  /\ UNCHANGED <<config, ui, tasks, events>>

Terminated == status \in {"exited", "aborted"} /\ UNCHANGED vars

----------------------------------------------------------------------------
User ==
  \/ SetupSubmit \/ QuitKey \/ OpenSettings \/ CycleModel
  \/ \E kind \in PlainCommand : SubmitCommand(kind)
  \/ SubmitAnalyze \/ SubmitApiKey \/ SubmitExit
  \/ \E p \in Provider : SubmitProvider(p) \/ SettingsApplyApp(p)
  \/ \E m \in Model : SubmitModel(m)
  \/ SettingsEnter \/ SettingsDiscard \/ SettingsLeaveModels \/ SettingsClose
  \/ \E s \in Section : SettingsApplyProvider(s) \/ SettingsOpenModels(s)

Background == \E t \in Task : Work(t) \/ AnalyzeProgress(t)

Next == User \/ Background \/ Handle \/ Exit \/ Terminated

Spec == Init /\ [][Next]_vars

(***************************************************************************)
(* select! picks at random among the branches that are ready, so a waiting *)
(* event is taken; the runtime polls every task.  That a task's work ends  *)
(* is an assumption on PostgreSQL and the providers: the code sets no time *)
(* limit on either.  Nothing forces the user to act.                       *)
(***************************************************************************)
Fairness == WF_vars(Handle) /\ \A t \in Task : WF_vars(Work(t))

FairSpec == Spec /\ Fairness

----------------------------------------------------------------------------
(***************************************************************************)
(* Properties.                                                             *)
(***************************************************************************)
\* A task of one of these kinds runs or an event of one of these types waits.
Pending(kinds, types) ==
  \/ \E t \in Task : tasks[t].kind \in kinds
  \/ \E i \in DOMAIN events : events[i].type \in types

\* Every variable has its type, and an answer for the model picker names the
\* provider it is for (AppEvent::ProviderModelsResult, app.rs).
TypeOK ==
  /\ status \in {"running", "quitting", "exited", "aborted"}
  /\ screen \in {"Setup", "Chat"}
  /\ connecting \in BOOLEAN /\ busy \in BOOLEAN /\ preview \in BOOLEAN
  /\ provider \in Provider \cup {None}
  /\ section \in [Provider -> Section]
  /\ models \in Seq(Model)
  /\ settings \in SettingsState
  /\ settings.node \in {"Provider", "Models"} => settings.of \in Provider
  /\ tasks \in [Task -> TaskState]
  /\ \A t \in Task : tasks[t].kind = "ProviderModels" => tasks[t].of \in Provider
  /\ events \in Seq(AppEvent)

\* The setup screen has one connection attempt in flight while it shows that
\* it is connecting and none otherwise, and nothing of a chat exists yet: none
\* of the events that handle_app_event drops there is ever sent, and the first
\* successful answer cannot be followed by another one from the setup form.
SetupConnectsOnce ==
  screen = "Setup" =>
    /\ ~busy /\ ~preview /\ models = <<>> /\ settings = SettingsClosed
    /\ \/ ~connecting /\ events = <<>> /\ \A t \in Task : tasks[t] = Idle
       \/ /\ connecting /\ events = <<>>
          /\ \E t \in Task : /\ tasks[t].kind = "Connect"
                             /\ \A u \in Task \ {t} : tasks[u] = Idle
       \/ /\ connecting /\ \A t \in Task : tasks[t] = Idle
          /\ Len(events) = 1 /\ Head(events).type \in {"ConnectOk", "ConnectErr"}

\* The prompt is locked only while an answer that unlocks it is on its way,
\* however commands, provider switches and reconnections overlap.
BusyTask == TaskKind \ {"Idle", "ProviderModels"}
BusyEvent == EventType \ {"AnalyzeProgress", "ProviderReady", "ProviderModelsResult"}
BusyHasCause == Running /\ busy => Pending(BusyTask, BusyEvent)

\* The preview of an analysis is shown only while an analysis still has its
\* result to deliver.
PreviewHasCause == preview => Pending({"Analyze", "Analyzing"}, {"AnalyzeResult"})

\* The model picker says that it is loading only while an answer for its own
\* provider is on its way.
PickerHasCause ==
  settings.loading =>
    /\ settings.node = "Models"
    /\ \/ \E t \in Task : tasks[t].kind = "ProviderModels" /\ tasks[t].of = settings.of
       \/ \E i \in DOMAIN events :
            events[i].type = "ProviderModelsResult" /\ events[i].of = settings.of

\* Some change of the provider still has its list of models to deliver.
Refreshing ==
  settings.dirty \/ Pending({"SwitchProvider", "Probing", "Listing"}, {"ModelsResult"})

\* Once no refresh is under way, the selected model is one of the models that
\* Ctrl+M and /model offer, or nothing is offered.
SelectedModelListed ==
  models # <<>> /\ ~Refreshing => Offered(models, CurrentModel)

\* Expected to fail: "Store the models available from the active provider"
\* (chat.rs, on_models_result).  An answer asked from the provider that was
\* active before can be the last one to arrive.
ModelsFromActiveProvider ==
  models # <<>> /\ ~Refreshing => provider \in Provider /\ models \in Offers[provider]

\* Expected to fail: a provider has a "Model used when none is selected explicitly"
\* (default_model, agent/provider.rs), but a client cannot be built without a model,
\* nor with another field missing.  And "one or more semicolon-separated statements"
\* (run_query, db.rs) may give a result that cannot be laid out.
NeverAborts == status # "aborted"

\* Only the active provider's section changes, but for the section whose form
\* the settings apply (config.rs, setting_model_updates_only_the_active_provider).
OnlyActiveSectionChanges ==
  [][\A p \in Provider :
       section'[p] # section[p] =>
         p = provider \/ (settings.node = "Provider" /\ settings.of = p)]_vars

\* The answers on their way: tasks of one of these kinds, events of one of
\* these types.
Owed(kinds, types) ==
  Cardinality({t \in Task : tasks[t].kind \in kinds})
    + Cardinality({i \in DOMAIN events : events[i].type \in types})

\* The prompt, the setup form and the preview each implement RequestReply: the
\* spawn_* functions of app.rs lose no answer, and each answer opens its lock.
PromptLock == INSTANCE RequestReply WITH
  up <- Running, locked <- busy, owed <- Owed(BusyTask, BusyEvent)
FormLock == INSTANCE RequestReply WITH
  up <- Running, locked <- connecting, owed <- Owed({"Connect"}, {"ConnectOk", "ConnectErr"})
PreviewLock == INSTANCE RequestReply WITH
  up <- Running, locked <- preview, owed <- Owed({"Analyze", "Analyzing"}, {"AnalyzeResult"})

PromptImplements == PromptLock!Spec
FormImplements == FormLock!Spec
PreviewImplements == PreviewLock!Spec

\* The prompt, the setup form, the preview and the picker do not stay as they are.
PreviewEnds == PreviewLock!Opens
BusyEnds == (Running /\ busy) ~> ~(Running /\ busy)
ConnectingEnds == (Running /\ connecting) ~> ~(Running /\ connecting)
LoadingEnds == (Running /\ settings.loading) ~> ~(Running /\ settings.loading)

=============================================================================
