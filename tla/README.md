# A TLA+ verification of pgbutler

pgbutler is a terminal chat for PostgreSQL: the user types SQL or slash commands, the
program runs them in background tasks, and an AI agent explains query plans. This directory
holds TLA+ modules that model it, TLC configurations that check them on small instances, and
theorems that TLAPS proves for instances of any size. Paths below are relative to the
crate (`src/app.rs` is the file of that name in the repository).

1. [Inventory](#1-inventory): the program's parts, their state, what can go wrong.
2. [Modules](#2-modules): how state and actions correspond to the code.
3. [Runs](#3-runs): what each run asks, its bounds, what it shows.
4. [Fairness](#4-fairness)
5. [Proofs](#5-proofs)
6. [Findings](#6-findings)
7. [What is not modelled](#7-what-is-not-modelled)
8. [Plan](#8-plan)

`PROJECT.json` lists the same things for tools: components, runs, mutants (one wrong variant
of the code for every property, which TLC must catch), the source lines of every definition,
findings, hazards and theorems.

## 1. Inventory

One thread runs the **event loop** (`App::run`, `src/app.rs`): draw, then wait for a key or
for an `AppEvent` with `tokio::select!`. Everything slow is a tokio task that owns a clone of
an unbounded channel's sender and sends one or more events back. An event says what kind of
answer it is; but for the answer of the model picker none says which request it answers.

| Part | State it keeps | Operations | Talks to | Modelled in |
| --- | --- | --- | --- | --- |
| Event loop, `app.rs` | `App.screen`, `running`, the channel | `run`, `handle_event`, `handle_app_event`, the `spawn_*` functions | every screen; spawns all tasks | `App` |
| Setup screen, `ui/setup.rs` | form fields, `connecting`, error | `handle_key`, `submit`, `connection_from_form` | event loop (returns a `Connection` to try) | `App`, `Profiles` |
| Chat screen, `ui/chat.rs` | prompt, messages, `busy`, `models`, `analysis_preview`, `settings`, `db` | `handle_key`, `parse_chat_command` and the `handle_*_command` functions, one `on_*` handler per event | event loop (returns a `ChatAction`), `Config`, `DbConnection` | `App`; `/connect` and `/collect-index-stats` also in `Profiles` and `Sampler` |
| Settings overlay, `ui/settings.rs` | path of levels, form being edited, error line, question before a deletion, model picker | `handle_key`, `enter`, `back`, `apply`, `on_models` | `Config`; chat screen through `SettingsEvent` | `Settings`; its effect on the chat in `App`, on files in `Profiles` |
| Configuration, `config.rs` | provider sections, default connection, schedule, `servers`; on disk `config.toml` and `connections/*.toml` | `read`, `write`, `save_*`, `delete_*`, `select_provider`, `set_*` | files, `crypto` | `Profiles`, `App` (providers), `Sampler` (schedule) |
| Database, `db.rs` | client, store, `index_stats_task` | `connect`, queries, catalog readers, `spawn_index_stats_collector`, `Drop` | PostgreSQL, the store | `Sampler`, `App` |
| Local store, `db/store.rs` | one SQLite file per server | `record_index_stats`, `last_index_stats_at`, `index_stats_report` | SQLite | `Sampler`, `Report` |
| Agent, `agent.rs`, `agent/` | none between analyses | `list_models`, `is_provider_ready`, `build_analyzer_agent`, `analyze_query_streaming`, tools | AI providers, `DbConnection` | `App`, as steps of the tasks |
| Encryption, `crypto.rs`, `config/keyring.rs` | the master key | create or read the key, encrypt, decrypt | key ring, key file | `MasterKey` |
| Widgets, `ui/widgets.rs` | `Form` | `handle_key`, `scroll_window`, drawing | terminal | `Window`, `Settings` |
| TLS, `config/sslmode.rs` | none | what each mode demands | `db.rs` | not modelled |
| Start, `main.rs`; colours, `theme.rs` | none | | terminal | not modelled |

### What is hard

* **Answers without request ids.** Ctrl+S and Ctrl+M work while a command runs, and closing the
  settings may start a refresh beside it. Then two answers are in flight, and the first of
  them clears `busy`. A lock that no answer lifts would leave only Ctrl+C.
  Correct means: whatever is locked has an answer on its way, and the answer comes.
* **Configuration read late.** A task reads the provider when it first runs, not when it was
  spawned; a list of models may come from the provider that was active before.
  Correct means: the selected model is one that is offered, it is stored in the active provider's
  section and in no other, and no task finds a section it cannot use.
* **Names and indices remembered over several keys.** The settings overlay remembers which server
  and which row a level, a form or a question is about, while a rename changes the name, a deletion
  shifts the rows and a listing of models may arrive for a level that is gone.
  Correct means: they still name the same entry; Esc drops no edit but those that were refused.
* **Several file operations in a row.** A profile is renamed by writing the new file, then
  removing the old one, then changing memory. Each may fail and the process may die in between.
  Correct means: memory and disk agree, no profile is lost, no other profile is touched.
* **A default connection kept by name.** It is `login@server`, saved after every connection, with
  answers of `/connect` in any order. Correct means: a restart gets the connection last used.
* **A key created on first use, without a lock.** Several pgbutler processes share one key store; each
  looks for the key and creates it if there is none.
  Correct means: what was encrypted can be decrypted later.
* **Errors that look like absence.** `Path::is_file` and `Path::exists` are false for a file that is there and
  could not be looked at; the key, `config.toml` or the profiles are then taken for missing.
  Correct means: nothing is lost by it that the code could have kept.
* **A task that must not outlive its connection nor keep it alive.** The sampler holds a `Weak`
  reference, an abort takes effect at its next `await`, a new connection to the same server writes
  to the same file. Correct means: one sampler per connection that is switched on, none
  otherwise, closed connections are closed, samples are spaced by the interval.
* **Differences of counters that can go back.** The report subtracts samples of counters that a reset
  or a new index sets to zero, of databases that share a file.
  Correct means: the scans per hour are those there were, over the window they claim.
* **Arithmetic and indexing at boundaries**: minutes times 60, rows indexed by another statement's
  columns, the first and last rows of a scrolled menu.

`PROJECT.json` lists each of these at its line under `hazards`, with the property that covers it
or the reason why none does.

## 2. Modules

```
RequestReply                      what a lock of the user interface promises
   ^  implemented by
App       <- MCApp                event loop, setup, chat, providers, tasks
          <- AppProofs            invariants and step properties; causes of two findings
          <- AppRefinement        App implements RequestReply three times
Window                            which rows of a menu are drawn
   ^  extended by
Settings  <- MCSettings           the levels of the settings overlay
          <- SettingsProofs       also about Window
Profiles  <- MCProfiles           profile files, config.toml, the default connection
          <- ProfilesProofs
MasterKey <- MCMasterKey          the key, its stores, the passwords sealed under it
          <- MasterKeyProofs
Sampler   <- MCSampler            connections, their reference counts, the sampler
          <- SamplerProofs
Report    <- MCReport             counters, snapshots, the report with its velocities
          <- ReportProofs
```

`App`, `Settings`, `Profiles`, `MasterKey`, `Sampler` and `Report` share no variable; each leaves to the
others what it does not model, and allows whatever the others may do there. The connection that a
`ConnectResult` carries is an event in `App`, a profile in `Profiles` and an Arc in `Sampler`; it leaves the
overlay alone, since an answer of `/connect` saves no profile. None depends on how the others resolve it: in `App` an
attempt may succeed or fail, in `Sampler` any new connection may point at any store and may or may
not ask for sampling, in `Settings` a form may hold anything that its fields can tell apart, in `Profiles` an
edit is any new content of a profile, and in `Report` a snapshot may be taken at any time.

### RequestReply

The abstract specification of a lock: `up` (the loop runs), `locked`, and `owed`, the number of
answers on their way. `Ask` starts a request and may lock; `Answer` and `Forward` take an answer and
unlock, the latter with a further request; `Stop` ends the loop. It promises `LockHasAnswer` and, where answers are
taken in the end, `Opens`. Requests may overlap and answers have no identity, as in the
program.

`App` implements it three times, with `owed` counting tasks and events of the kinds that matter:

| Lock | `locked` | `owed` counts |
| --- | --- | --- |
| `PromptLock` | `busy` | the tasks and events that clear `busy` (`BusyTask`, `BusyEvent`) |
| `FormLock` | `connecting` | connection attempts and their results |
| `PreviewLock` | `preview` | analyses and their results |

The refinement says more than the invariants: each answer *opens* the lock, no answer is lost or
counted twice, and no step outside touches the lock.

### App

| Variable | In the code |
| --- | --- |
| `status` | `App.running` and the life of the process; `"aborted"` is a panic, since the release profile aborts |
| `screen`, `connecting` | `App.screen`, `SetupScreen.connecting` |
| `provider`, `section` | `ProviderConfig`: the active name (`None` when `config.toml` names an unknown one) and, per provider, its model and whether all other fields are set |
| `busy`, `models`, `preview` | `ChatScreen.busy`, `.models`, `.analysis_preview.is_some()` |
| `settings` | `ChatScreen.settings`: open, `provider_dirty()`, the level, the provider edited or picked for, the picker's loading mark |
| `tasks` | the spawned tasks, each with the step it has reached |
| `events` | the channel, first in first out |

An action is a key handler that has an effect on this state (`Submit*`, `Settings*`,
`CycleModel`, ...), a step of a task between two awaits (`AnalyzeStart`, `SwitchReady`, ...) or the
handler of one event (`On*`). Key presses that only edit text are part of the choice made on
submission: a form is one of `FormSections`, a prompt one of `Commands`.

A task reads the configuration in an action of its own, after it was spawned: `Clients` is the set
of outcomes. A section with a missing field makes `Panic` possible, as `provider/*.rs` unwrap
their fields. A `RaggedResult` is the result of several statements whose rows are narrower than the
first one's columns: laying it out indexes the row past its end (`LayoutPanic`, `format_outcome`).
A switch of the provider (`spawn_switch_provider`) sends two events one after the
other, and others' events may come between. After `Ctrl+C` the loop ends before the next
event, so the tasks stop mattering: nothing but `Exit` happens once `status = "quitting"`.

### Settings and Window

| Variable | In the code |
| --- | --- |
| `servers` | `Config.servers`, each with the list of its logins |
| `custom` | `config.toml` names a provider that is not in the menu, so that the application form cannot be applied as it is |
| `path` | `SettingsScreen.path`: menus and forms with the server, provider or login index they are about, the selected row, the form's fields that decide where it goes |
| `error`, `confirm` | `SettingsScreen.error`, `.delete_confirmation` |
| `asked` | listings of models on their way, for pickers open or left |
| `refused`, a level's `opened` | history: what was refused last; the login a form was opened for |

There is one action per key (`Down`, `Up`, `Enter`, `AddServer`, `AddLogin`, `EditServer`, `Ask`, `Delete`, `Cancel`, `Apply`, `Back`,
`Close`, `OpenModels`, `PickModel`), one for keys that change a value (`Type`), and one for what reaches the
overlay from outside: `OnModels`, the answer of a provider. `Apply` is Esc on a form without an error: `ApplyServer` renames in all levels below (`Renamed`), a
refusal keeps the user there; `Back` is Esc after that, or on a menu. File operations succeed or fail in one
step here, since `Profiles` has their order.

`Window` is the arithmetic of `scroll_window`, rows counted from 0, with saturating subtraction.

### Profiles

| Variable | In the code |
| --- | --- |
| `servers`, `default` | `Config.servers`, `Config.default_connection` |
| `disk`, `conf` | the files of `connections/`, the default connection in `config.toml` |
| `conn`, `attempts` | `ChatScreen.db.config()`; the connections being tried |
| `op` | what is left of the handler that runs: the file operations of `save_server`, `delete_server` and `Config::write`, in their order |
| `clean` | history: since the start no file operation has failed, nor has a file that exists been taken for missing |

A handler on the event loop is not interrupted by another one, but `Die` (a panic of any task)
and the failure of the current file operation are possible at each of its steps. `fs::write` is two
steps: truncate, fill. A server name is a number in alphabetical order, `StemOf` gives the stem that
`sanitize_filename` makes of it, and `FileOf` the file that a stem denotes: two stems share one
where the file system ignores case. Memory changes after the files do (`Commit`, `Forget`), and
`save_connection` passes the name it saves as the old name, as in the code. `Path::exists` hides errors:
`Start` may overlook the directory or `config.toml`, `FillFile` the old file of a renamed server.

### MasterKey

| Variable | In the code |
| --- | --- |
| `stored`, `born` | the entry of the key store; the keys that `rand_bytes` has returned so far |
| `file` | per profile, the key its password is sealed under, `Plain` for an empty password, `Torn` for a truncated file |
| `pc`, `op`, `text`, `key` | per process, where it is in `encrypt_password` or `decrypt_password`, for which file, and what it has read |
| `known` | the profiles a process has in memory |
| `raced`, `missed` | history: somebody looked the key up while it was being created; somebody took a key that is stored for missing |
| `settled`, `firm` | history: who looked the key up when it was stored and nobody was creating one; what is sealed under such a key. A key taken for missing ends both |

`ReadKey`, `CreateKey`, `FillKey` and `Protect` are the steps of `get_or_create_master_key` and of the key file, which is
truncated, filled and given its mode; with the key chain of macOS (`Keychain`) creation is one step. `ReadKey` has three outcomes: there is no key,
it is read, or, in the key file's store only, the stat in `is_file` fails and the key counts as missing; `CreateKey` then
writes a new one over it. Every other error is `KeyStoreFails`.
`KeyStoreFails`, `ProfileFails` and `Die` may come at each of them. That what is sealed under a key is opened
by that key and no other is taken from AES-GCM.

### Sampler

| Variable | In the code |
| --- | --- |
| `interval` | the sampling interval in `Config` (`index_stats_interval`) |
| `ui`, `users` | who holds an `Arc<DbConnection>`: the chat screen, running commands |
| `handle` | `DbConnection.index_stats_task` |
| `task`, `aborted` | the sampler tasks with the await they wait at; `JoinHandle::abort` requested |
| `store`, `age` | the `.sqlite` file of a connection; minutes since its latest sample |
| `early` | history: a sample was added too early |

`Upgrade` to `Sleep` is one cycle of `spawn_index_stats_collector`; each query is an await, where it may
fail (`Fails`) or be cancelled (`Cancel`). A sample whose commit is under way when the abort takes
effect may or may not be there. `DropConnection` is a step of its own after the last Arc has gone:
another thread may wake the sampler in between (`Break`).

Abstractions that matter for reading the results: time is whole minutes and ages never run
backwards; a sample is stamped when it is committed, while the code stamps it just before; queries on
the store and on PostgreSQL take any time.

### Report

| Variable | In the code |
| --- | --- |
| `now` | the clock, in hours |
| `counter` | `idx_scan` in `pg_stat_all_indexes` of each database; an index may not exist yet, or be dropped |
| `samples` | the table `index_stats`, one element per snapshot |
| `scans`, `resets` | history: what really happened |

`Scan`, `Reset`, `Create` and `Drop` are PostgreSQL's part; `Record` is `read_index_stats` with
`record_index_stats`. The report itself is a function of the table: `Base` is the subquery for the start of a
window, `Rate` is `scans_per_hour` kept as a fraction, `Row` a line of the report, `Rows` all of them in the order
that `sort_by` puts them in (`Before`, `Sorted`). The file belongs to a server, so databases share it, and indexes of the system
catalog have the same OID in each.

## 3. Runs

Each run ends within two minutes or so with two workers.

| Run | Asks | Instance | Result |
| --- | --- | --- | --- |
| `app_safety` | Can any order of keys and answers leave something locked without a cause, or a wrong model selected? Does the prompt behave as `RequestReply`? | two providers (one without a key), two models, a form with a blank field, two slots | holds, 1.2 million states |
| `app_liveness` | Does every lock end? Do the form and the preview behave as `RequestReply`? | one model; connecting, explaining, analysing; two slots | holds, 0.2 million states |
| `app_stale_models` | Are the models offered those of the active provider? | as `app_safety`, only `/provider` | violated |
| `app_blank_section` | Can a task find a section it cannot build a client from? | as above, with a form whose model is cleared | violated |
| `settings_safety` | Do names and indices the overlay remembers still mean the same, and does Esc keep what it should? | two names, up to three logins, two providers, two models | holds, 0.9 million states |
| `profiles_safety` | Do memory and disk agree through every edit, failure and crash? | three names, two with one stem; one login per server; two attempts | holds, 2.0 million states |
| `profiles_ignoring_case` | The same, on a file system that ignores case | two names with one file | violated |
| `profiles_default` | Does a restart come back to the connection in use? | two databases for one user | violated |
| `master_key` | Can what is sealed always be opened? | two processes, three keys, two files, the key in a file | holds, 2.0 million states |
| `sampler` | Is there one sampler per connection that has it on? Do connections close, samplers end and sampling go on? | two connections, two samplers, one store, intervals 1 and 2 | holds, 70 000 states |
| `sampler_spacing` | Are samples at least an interval apart? | as above, interval 2 | violated |
| `report` | Are the velocities true? | two databases, three indexes, windows of 1 and 2 hours, one reset | holds, 0.4 million states |

**Bounds of App.** `Task` is the number of tasks and, through `Room`, of tasks and events together
that the user may bring about; the code has no limit. Every property of `App` relates one lock to the
answers in flight, or two answers to each other, so two slots are enough for the cases that matter:
a command beside a refresh, two refreshes, an analysis beside a picker. The theorems remove
the bound for every safety property. Two models, one of which `openai` does not list, let a selected model be missing
from a list; the blank section is the one form the user may type besides leaving it as it is. In `app_blank_section`
that form has all fields but the model, which any provider's form may leave empty. `app_safety` leaves
out `/explain`, which reaches the same steps as `/relkind` and `/report-index-stats`, and the liveness run keeps
it as the one of the three. In the liveness run switches happen through the settings, which spawn the same task
as `/provider`.

**Bounds of Settings.** Two names are a rename to a free name and a collision; three logins per server (`MaxLogins`), so that a
deletion shifts the indices behind it and leaves more than one. `MaxAsked` listings may be
on their way to one provider: one for a picker that was left and one for the picker shown. The
longest list has four rows, so heights of 1 to 5 are all that `SelectedShown` has to tell apart. The theorems
remove these bounds.

**Bounds of Profiles.** Collisions of stems need two servers, and a third one as the bystander that must
not be touched. One login per server suffices for the file properties, since a file is
written whole; `profiles_default` has two. Two attempts are enough to get two answers out of order. The
theorems are for any names and logins and for any value of both bounds.

**Bounds of MasterKey.** A race is between two processes. Three keys are three creations: two in a race, or the
first one, and one more after the key was taken for missing; two files are one
sealed before and one sealed after. The run takes the key file, whose creation has the most steps; with the key ring
of macOS (`Keychain = TRUE`) they are one, and the proofs are about both.

**Bounds of Sampler.** Two connections to one store are a reconnection. A second sampler lets one be
replaced while the one before it is still being cancelled. Ages stop at the largest interval, beyond
which the code does not tell them apart. With intervals 1 and 2 a schedule can become shorter or
longer under a sleeping sampler. One command per connection is enough to keep it alive. Its safety
properties are proved without bounds.

**Bounds of Report.** `MaxTime` hours, `MaxScans` scans per index and `MaxResets` resets of a database. Three
points in time are enough for a base, a sample between and the latest; one reset, with scans after it, lets a counter overtake its old
value. Two databases share the file, with an index of each and one of the catalog, whose OID both have. The theorems
are for any databases, indexes and windows, whatever the three bounds are.

**Views and symmetry.** `WhileRunning` (App): when the loop has ended only `status` changes, so the states
that differ in what it left behind are alike. `WhileHeld` (Sampler): drops the history `early`, which the run's
properties do not read, and the interval in a sleeping sampler, which it reads again before use. `WhileRefused`
(Settings): what was refused last is read only while an error is shown, and compared with the form on
top. Symmetry of tasks, processes, keys and files is used in runs whose properties are invariants
and step properties only, never with fairness.

`CHECK_DEADLOCK` is on but in `report`, which comes to its bounds and stops. `App` has an
explicit `Terminated` step for a process that has ended.

### Properties

*App.* `SetupConnectsOnce`: one attempt in flight, and none of the events that
`handle_app_event` drops on the setup screen is ever sent there. `BusyHasCause`, `PreviewHasCause`,
`PickerHasCause`: each lock or indicator has a task or an event that will clear it, for the picker
one of the very provider it shows. `SelectedModelListed`: with no refresh under way, the selected model is offered.
`OnlyActiveSectionChanges`: a step changes the section of the active provider, or of the one whose form is applied.
`PromptImplements`, `FormImplements`, `PreviewImplements`: the three refinements of section 2.
`BusyEnds`, `ConnectingEnds`, `LoadingEnds`, `PreviewEnds`: the locks end.

*Settings.* `PathExists`: what the levels are about exists, whatever is renamed, deleted or added above and below them.
`SelectedShown`: the selected row is drawn, at any height. `DiscardsRefused`: an error that is shown is about what the form
holds now, so that the second Esc drops only what was refused. `LosesOnlyChosen`: a login disappears only with the
server or as the login that the question names, or overwritten by the form opened for it.

*Profiles.* `StemsDistinct`; `InSync`: a restart reads what memory holds; `Recoverable`: at every moment, in
the middle of a rename too, each profile is complete in some file, except one that is being
rewritten in place; `DefaultIsCurrent`; `OthersUntouched`: an operation on one server does not touch
another one's file.

*MasterKey.* `LossHasCause`: through all failures and crashes, a password becomes unreadable for one of two causes
only: two processes looked for the key while one was creating it, or a lookup took the stored key for missing.
`SettledOpens`: the loss stays confined to these lookups; what is sealed under a key that was found while nobody was
creating one opens until a lookup takes that key for missing, even after an earlier race or loss.

*Sampler.* `OneSampler`: a running sampler can be reached through its connection; `SamplerRuns`: one that a
live connection knows does run; `ConnectionsClose`, `SamplersEnd`, `KeepsSampling`.

*Report.* `VelocityIsTrue`: never more scans than there were, and all of them when nothing was reset.
`VelocityCoversWindow`: the window, and not more hours than the snapshots make necessary. `VelocityWhenKnown`: there is one
whenever there can be. `ReportSorted`: each index once, in the order of the keys that `sort_by` compares.

## 4. Fairness

*App.* `WF(Handle)`: the loop awaits both sources in a `select!`, which picks at random among those that
are ready, so a waiting event is taken. `WF(Work(t))` for each task: the tokio runtime polls every task,
*and back ends answer*. The latter is an assumption on PostgreSQL and the providers, since the code sets no
time limit on any request. Progress reports of an analysis are not fair and cannot delay its
end for ever. Nothing makes the user act: the picker, the prompt and the form are unlocked without the user.

*RequestReply* has no fairness of its own: its `Opens` is checked on `App`, under App's fairness (`PreviewEnds` is
`PreviewLock!Opens`).

*Sampler.* Time passes, the runtime polls tasks and timers, `Drop` runs to its end, and commands and the
sampler's queries get an answer or an error. `Fails` is part of the fair cycle: the liveness
properties hold even if every query fails. Starting, replacing and reconnecting are not fair.

*Settings, Profiles, MasterKey, Report* have no liveness property: a key handler, a file operation and a report
are straight-line code that waits for nobody.

## 5. Proofs

TLAPS proves the following for all values of the constants that satisfy the named assumptions of the modules
(`NoneAssumption`, `ProviderAssumption`, ... ), which TLC evaluates in every run. "Inductive" means: true
initially, kept by every step.

**App** (`AppProofs`).
* `TypeCorrect`: `TypeOK` is inductive. The part that is not just a type, that each
  request of the model picker names a provider, is needed for the event to name one.
* `SetupCorrect`: `SetupConnectsOnce` is inductive together with `TypeOK`. The
  setup screen's three states (nothing in flight; one task; one event) form a cycle; every
  action of the chat screen is impossible there. That excludes a second `ConnectResult`
  from the setup form after the chat screen has taken over.
* `BusyCorrect`: `BusyHasCause` is not inductive by itself: a lock could be carried into the chat by
  the first connection, or an answer of the model picker could be the only thing pending. The
  inductive invariant is `TypeOK /\ SetupConnectsOnce /\ BusyHasCause`. An action that
  sets `busy` spawns a task of a kind in `BusyTask`; a task's last step puts an event of a type in
  `BusyEvent` into the queue, its other steps stay within `BusyTask`; taking such an event
  clears `busy`; taking another one leaves the rest of the queue alone.
* `PreviewCorrect`: an analysis goes on until its result is in the queue, and the handler of that result puts the
  preview away. Two frame lemmas say what a step of the system does to one given task (nothing, unless it is that
  task's step) and to one given event (it is taken, or stays in the queue).
* `PickerCorrect`: the same for the answer to one provider's picker. The interesting case: another picker's
  answer arrives, for another provider.
* `SectionsCorrect`: `OnlyActiveSectionChanges` follows from `TypeOK` alone.
* `SelectedModelCorrect`: the inductive invariant is `ModelInv`. `SelectedModelListed` needs that an overlay
  that is closed has no change of a provider left to act on (`ClosedIsClean`), or a selection could change without a
  refresh, and that an unknown provider has no list of models, neither on the screen nor on its way
  (`UnknownIsEmpty`). The latter rests on `ListsStep`: while a provider stays active, lists on their way stay that provider's.

**App implements RequestReply** (`AppRefinement`). The abstract `owed` is a number, so the proof counts: lemmas say by how
much spawning, a task's step, a task's end and taking an event change the number of tasks and events of given
kinds (`Owed`), for any finite set of tasks. Each action of `App` then is an `Ask`, an `Answer`, a `Forward`, a `Stop` or
a stutter. `PromptRefinement`, `FormRefinement` and `PreviewRefinement` are the three results;
`RequestReply!LockIsAnswered` proves what the abstract specification promises.

**Profiles** (`ProfilesProofs`).
* `TypeCorrect`, `StemsCorrect`: with `StemInv == TypeOK /\ OpSound /\ FilesNamed /\ StemsDistinct`. `OpSound`
  says what the pending file operations stand for: a server that is being saved under a stem which is free or is
  its own; `FilesNamed`, that a file holds a profile whose stem it is named for. Nothing is assumed of the file system: two servers with one stem are excluded even where stems
  share files.
* `RecoverableCorrect`, `InSyncCorrect`, `OthersCorrect`: these assume `DistinctFiles`, that different stems are different files;
  `profiles_ignoring_case` shows that they do not hold without it. `FilesInv` says for each step of a rename which file
  is complete (`FilesSound`), and that the directory has no file too many while no operation has failed (`NoStrays`).
* `DefaultCorrect`: with `DefaultFollows`, which says what `config.toml` and memory hold in the middle of a write.

**MasterKey** (`MasterKeyProofs`), for any number of processes and both key stores. `KeyInv` adds to the two properties what each
process has read at each place of its code (`Locals`), that without a race or a key taken for missing only one process
creates the key, while nothing is sealed yet, and every key held is the stored one (`Unraced`), and that nobody creates a
key while a process holds a settled one (`Settled`). `LossCorrect` and `SettledCorrect` follow from it. `KeychainLoss` adds
that with the key chain of macOS no lookup takes an error for a missing key (`KeychainNeverMisses`), so that there the race is the
only cause.

**Sampler** (`SamplerProofs`), for any numbers of connections, samplers, stores and commands. `SamplerInv == TypeOK /\ Links`;
`Links` ties `handle`, `task` and `aborted` together: a handle is of a task of that very connection, what is aborted
is nobody's handle, what holds an Arc works. `OneSamplerCorrect` and `SamplerRunsCorrect` follow from it.

**Settings** (`SettingsProofs`), for any servers, logins, providers, models and listings.
* `SettingsInv` is inductive and contains `TypeOK`, `PathExists` and `DiscardsRefused`. Neither of these is inductive: whether a level
  still exists after a rename or a deletion depends on the levels it lies on. `Shape` says how a level follows the one
  below it (`Follows`), so that a path has at most four of them; `AllSound`, that each is about something that
  exists and that a login form still holds the login it was opened for (`Sound`), whatever index that login has;
  `ConfirmSound`, that the question on the screen is about the entry it shows. There is a lemma for pushing, for
  changing and for leaving a level, and one for each action. The hard one is `ApplyServer`, which renames in
  all levels at once.
* `TypeCorrect`, `PathCorrect`, `DiscardsCorrect` are the invariants that follow.
* `SelectionShown` is about `Window` alone: for every length of the menu and every height the selected row is drawn, everything fits,
  and the arrows tell whether there is more. Saturating subtraction is where this could go wrong.
  `SelectedShownCorrect` applies it to the selections of the path, which `Sound` bounds.
* `LosesCorrect`: `LosesOnlyChosen` speaks of the number of copies of a login. That a step leaves no fewer is proved by
  mapping the places it had into the places it has (`NoneLost`, `NoneRenamed`), that a deletion takes one
  only with a bijection that closes the gap (`OneDeleted`).

**Report** (`ReportProofs`), for any databases, indexes and windows and histories of any length.
* `ReportInv == TypeOK /\ InOrder /\ SinceThen /\ Between`. `VelocityIsTrue` relates two samples, so it says nothing that a
  step could build on. `Later(s, t)` is the relation that can be kept: from `s` to `t` the counter of an
  index that exists in both grew by no more than its scans, and by as many if nothing was reset. It holds between each sample and the
  counters now (`SinceThen`), and is transitive (`LaterStill`); a new sample copies the counters, so it holds between samples too (`Between`).
* `VelocityTrueCorrect`, `VelocityCovers`, `VelocityKnown` follow from it with what `Base` selects (`BaseFacts`).
* `ReportSortedCorrect`: `Before` is a strict total order on the rows, and the place of a row is the number of
  rows before it, so sorting neither loses nor repeats one.

**Causes of the findings.** Five statements do not hold (section 6). For each a theorem says under what condition they do,
so that what the run shows is the only way to break them:

| Statement | Holds if | Theorem |
| --- | --- | --- |
| `ModelsFromActiveProvider` | `SwitchIdle`: the provider is changed only while no list of models is on its way | `AppProofs!ActiveModelsCorrect` |
| `NeverAborts` | `CompleteForms`: no field of a provider form is left blank; but for a `RaggedResult` | `AppProofs!AbortCauses` |
| `ProfilesOnDisk` | `DistinctFiles`: different stems are different files | `ProfilesProofs!OnDiskCorrect` |
| `RestartReconnects` | `DistinctFiles`, and in states where no server has two logins of one user (`UsersDistinct`) | `ProfilesProofs!RestartCorrect` |
| `SamplesSpaced` | `OneWriter`: no two samplers are between finding a sample due and adding it, with one file | `SamplerProofs!SpacedAlone` |

`SwitchIdle` and `OneWriter` are conditions on behaviours (`Spec /\ [][SwitchIdle]_vars => ...`, `Spec /\ []OneWriter => ...`): a fix
that makes them true, such as refusing a switch while a list is on its way, or waiting until the aborted sampler has ended, is enough. Behind `AbortCauses` is
the invariant that every section, every form and every section a picker's task has captured stays complete (`AbortInv`).

*Only model-checked* is liveness (`BusyEnds`, `ConnectingEnds`, `LoadingEnds`, `PreviewEnds`, `ConnectionsClose`,
`SamplersEnd`, `KeepsSampling`), which is out of reach of TLAPS as is ENABLED. Every invariant, step property and
refinement that a passing run checks is a theorem. The violations below are counterexamples of TLC.

## 6. Findings

1. **A late list of models wins** (`ui/chat.rs:100`, run `app_stale_models`). `ModelsResult` does not say which provider
   it is from. The list fetched at the first connection may arrive after the answer of the one the user has
   switched to meanwhile; `on_models_result` stores it and Ctrl+M offers it as the new provider's. The code also selects
   its first entry where the selected model is not in it (`ui/chat.rs:107`); in the run, whose stale list names all
   models, the selection stays.
2. **A cleared model aborts the process** (`agent/provider/ollama.rs:26`, likewise `anthropic.rs:34` and `openai.rs:29`, run
   `app_blank_section`). The doc of `default_model` (`agent/provider.rs:25`) speaks of the "Model used when none is selected
   explicitly.", and `agent.rs:122` falls back to it, but building a client unwraps the section's model. In the run
   the user clears the model in a provider's form and presses Enter there to choose one: the task that lists
   the models gets the form as it is, panics, and `panic = "abort"` ends the process. Blank fields that are saved wait for the
   next task that builds a client, since `Config::with_defaults` fills them only when the file is read.
3. **Names that differ in case share a file** (`config.rs:440`, run `profiles_ignoring_case`), on file systems that
   ignore case: the second server overwrites the first; a rename that only changes case removes the
   file it has just written.
4. **The default connection does not name the database** (`app.rs:60`, run `profiles_default`): of two logins of one user for
   two databases a restart takes the first.
5. **Two samples too close** (`db.rs:210`, run `sampler_spacing`): after reconnecting to the same server the old
   sampler, still in its cycle, and the new one both find a sample due.

Not findings but worth knowing, as no document promises otherwise in so many words:
* The two causes in `LossHasCause`. Two processes started together for the first time may lose a password. And a stat of the
  key file that fails is read as "no master key has been stored yet" (`config/keyring.rs:120`), so that a new key replaces
  the one that is there. Comparing the error kind with `NotFound` instead of asking `is_file` removes the second.
* In the same way a start that cannot look at `connections/` or `config.toml` goes on with no servers or with
  the defaults (`config.rs:247`, `config.rs:896`), and the next save writes over what it did not see.

## 7. What is not modelled

* What is only displayed: messages, token usage, layout, colours, cursor. The prompt editor, its completion and the
  parsing of a command line: a prompt is one of `Commands`.
* In `Profiles`: the provider settings in `config.toml` (in memory they are in `App`), certificate paths and their
  validation, the legacy profile format, profiles written by hand (two of which might share a stem).
* In `Sampler` and `Report`: a clock that is set back, migrations, the end of the process.
* The turns and tool calls inside an analysis: they run in one task, one after the other, and change no state
  of the program. The agent's tools are stateless wrappers around one query.
* Query plans and the rows of the catalog readers other than `read_index_stats`; the layout of results, except
  that ragged ones abort.
* TLS modes: a decision table without state, from a mode and two paths to what the connector demands.
* PostgreSQL, SQLite, the key ring, the cipher and the providers, except that they answer or fail and, for the
  cipher, that only the right key opens.
* Time-outs: the code has none. What happens when a back end never answers is that the lock stays.
* Terminal set-up, logging, drawing, and a terminal whose input ends.

## 8. Plan

1. `ProfileStore`, an abstract specification in which each edit takes effect at once or not at all, implemented by
   `Profiles` while nothing fails.
2. `ChatInput`: the prompt editor and the parsing of commands, plain text against the help's words
   (`ui/chat.rs:515`).
3. `TlsModes`: the decision table of `sslmode` against PostgreSQL's definition of it.
4. `Analysis`: the turns of an analysis with retries, against the preview.
