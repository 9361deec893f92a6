------------------------------ MODULE Settings ------------------------------
(***************************************************************************)
(* The settings overlay of pgbutler as a place to navigate                 *)
(* (ui/settings.rs): a path of levels, each a menu or a form, one error    *)
(* line, and a question before anything is deleted.  Esc saves a form and  *)
(* goes back; after an error it goes back without saving.                  *)
(*                                                                         *)
(* The levels remember servers by name and logins by index while the forms *)
(* above them rename, add and replace what these stand for; only the user  *)
(* changes the servers while the overlay is open.  A list of models may    *)
(* arrive for a picker that was left.                                      *)
(*                                                                         *)
(* Left out: the fields of a form but the few that decide where it goes    *)
(* (one of the values a form may hold is refused), the characters typed    *)
(* there, file operations in detail (Profiles), and what the provider      *)
(* forms do to the chat screen (App).                                      *)
(***************************************************************************)
EXTENDS Naturals, Sequences, FiniteSets, Window

CONSTANTS
  Name,       \* server names, numbered in alphabetical order
  Login,      \* logins, each with its database; they name the rows of a server
  Default,    \* the login that LoginConfig::with_defaults proposes
  Provider,   \* the providers, numbered in the order of the root menu
  Model,      \* model names
  Lists,      \* the listings a provider may answer
  MaxLogins,  \* bound: logins of one server
  MaxAsked,   \* bound: listings asked from one provider and not answered yet
  None        \* no server, no login, no form, no model

ASSUME NameAssumption == Name \subseteq Nat \ {0} /\ Default \in Login
ASSUME ProviderAssumption == IsFiniteSet(Provider) /\ Provider = 1 .. Cardinality(Provider)
ASSUME ListAssumption == Lists \subseteq Seq(Model)
ASSUME BoundAssumption == MaxLogins \in Nat \ {0} /\ MaxAsked \in Nat

VARIABLES
  servers,  \* Config.servers: the logins of each server
  custom,   \* config.toml names a provider that is not in the menu
  path,     \* SettingsScreen.path
  error,    \* an error is shown
  confirm,  \* SettingsScreen.delete_confirmation
  asked,    \* asked[p]: listings on their way from provider p
  refused   \* history: what the form held that was refused last

vars == <<servers, custom, path, error, confirm, asked, refused>>

(***************************************************************************)
(* Levels.  `of' is the server of ServerLogins, LoginForm and ServerForm   *)
(* (original_name, None for a new one), or the provider; `index' is 0 for  *)
(* a new login.  `opened' records, for the properties only, which login    *)
(* the form was opened for.                                                *)
(***************************************************************************)
ServerForm == [name : Name \cup {None}, valid : BOOLEAN]
LoginForm == [login : Login \cup {None}]
AppForm == [custom : BOOLEAN, minutes : BOOLEAN]
ProviderForm == [model : Model \cup {None}, valid : BOOLEAN]
Form == ServerForm \cup LoginForm \cup AppForm \cup ProviderForm

ASSUME NoneAssumption == None \notin Name \cup Login \cup Form

Node == {"Root", "Connections", "ServerLogins", "ServerForm", "LoginForm", "App", "Provider",
         "Models"}

Level(node, of, form) ==
  [node |-> node, of |-> of, index |-> 0, opened |-> None, selected |-> 1, form |-> form,
   models |-> <<>>, loading |-> FALSE]

Top == path[Len(path)]
Parent == path[Len(path) - 1]
Below == SubSeq(path, 1, Len(path) - 1)
Change(level) == path' = [path EXCEPT ![Len(path)] = level]
Push(level) == path' = Append(path, level) /\ error' = FALSE

Server == DOMAIN servers
Row(names, n) == Cardinality({m \in names : m =< n})
Rows(level, known) ==
  CASE level.node = "Root" -> 2 + Cardinality(Provider)
    [] level.node = "Connections" -> Cardinality(DOMAIN known)
    [] level.node = "ServerLogins" -> IF level.of \in DOMAIN known THEN Len(known[level.of]) ELSE 0
    [] level.node = "Models" -> Len(level.models)
    [] OTHER -> 0
Count == Rows(Top, servers)
Selected == CHOOSE n \in Server : Row(Server, n) = Top.selected

Init ==
  /\ servers \in UNION {[S -> {<<>>, <<Default>>}] : S \in {T \in SUBSET Name : IsFiniteSet(T)}}
  /\ custom \in BOOLEAN
  /\ path = <<Level("Root", None, None)>>
  /\ error = FALSE /\ confirm = None
  /\ asked = [p \in Provider |-> 0]
  /\ refused = None

Keys == confirm = None
OnForm == Top.form # None

Refuse == error' = TRUE /\ refused' = Top.form /\ UNCHANGED <<servers, custom, path>>

(***************************************************************************)
(* Menus.                                                                  *)
(***************************************************************************)
Down ==
  /\ Keys /\ ~OnForm /\ Count > 0
  /\ Change([Top EXCEPT !.selected = (@ % Count) + 1])
  /\ UNCHANGED <<servers, custom, error, confirm, asked, refused>>

Up ==
  /\ Keys /\ ~OnForm /\ Count > 0
  /\ Change([Top EXCEPT !.selected = ((@ + Count - 2) % Count) + 1])
  /\ UNCHANGED <<servers, custom, error, confirm, asked, refused>>

\* provider_config of the selected provider may hold any model.
EnterRoot ==
  /\ Top.node = "Root"
  /\ \/ Top.selected = 1 /\ Push(Level("Connections", None, None))
     \/ Top.selected = 2 /\ Push(Level("App", None, [custom |-> custom, minutes |-> TRUE]))
     \/ /\ Top.selected > 2
        /\ \E m \in Model \cup {None} :
             Push(Level("Provider", Top.selected - 2, [model |-> m, valid |-> TRUE]))

EnterLogin ==
  /\ Top.node = "ServerLogins" /\ Count > 0
  /\ LET login == servers[Top.of][Top.selected] IN
     Push([Level("LoginForm", Top.of, [login |-> login])
             EXCEPT !.index = Top.selected, !.opened = login])

Enter ==
  /\ Keys /\ ~OnForm
  /\ \/ EnterRoot
     \/ EnterLogin
     \/ /\ Top.node = "Connections" /\ Count > 0
        /\ Push(Level("ServerLogins", Selected, None))
  /\ UNCHANGED <<servers, custom, confirm, asked, refused>>

\* "+" on a menu; the name proposed for a server is not in use.
AddServer ==
  /\ Keys /\ Top.node = "Connections"
  /\ \E n \in Name \ Server : Push(Level("ServerForm", None, [name |-> n, valid |-> TRUE]))
  /\ UNCHANGED <<servers, custom, confirm, asked, refused>>

\* Mutant: the error line is left alone.
AddLoginKeepingError ==
  /\ Keys /\ Top.node = "ServerLogins"
  /\ path' = Append(path, Level("LoginForm", Top.of, [login |-> Default]))
  /\ UNCHANGED <<servers, custom, error, confirm, asked, refused>>

AddLogin ==
  /\ Keys /\ Top.node = "ServerLogins"
  /\ Push(Level("LoginForm", Top.of, [login |-> Default]))
  /\ UNCHANGED <<servers, custom, confirm, asked, refused>>

\* "e" on the list of servers or on that of a server's logins.
EditServer ==
  /\ Keys
  /\ \E n \in Server :
       /\ \/ Top.node = "Connections" /\ n = Selected
          \/ Top.node = "ServerLogins" /\ n = Top.of
       /\ Push(Level("ServerForm", n, [name |-> n, valid |-> TRUE]))
  /\ UNCHANGED <<servers, custom, confirm, asked, refused>>

(***************************************************************************)
(* Deleting.                                                               *)
(***************************************************************************)
Question == [of : Name, index : Nat, label : Login \cup {None}]

\* "-": the question remembers the name of the server, or the index and the label
\* of the login.
Ask ==
  /\ Keys /\ Count > 0
  /\ \/ /\ Top.node = "Connections"
        /\ confirm' = [of |-> Selected, index |-> 0, label |-> None]
     \/ /\ Top.node = "ServerLogins"
        /\ confirm' = [of |-> Top.of, index |-> Top.selected,
                       label |-> servers[Top.of][Top.selected]]
  /\ error' = FALSE
  /\ UNCHANGED <<servers, custom, path, asked, refused>>

WithoutServer(n) == [m \in Server \ {n} |-> servers[m]]
WithoutLogin(n, i) ==
  [servers EXCEPT ![n] = [j \in 1 .. Len(@) - 1 |-> IF j < i THEN @[j] ELSE @[j + 1]]]

Clamped(known) ==
  LET last == Rows(Top, known) IN
  [Top EXCEPT !.selected = IF last = 0 THEN 1 ELSE Smaller(@, last)]

\* "y": the file operation may fail.
Delete ==
  /\ confirm # None /\ confirm' = None
  /\ \/ /\ servers' = IF confirm.index = 0 THEN WithoutServer(confirm.of)
                      ELSE WithoutLogin(confirm.of, confirm.index)
        /\ Change(Clamped(servers'))
        /\ error' = FALSE
     \/ error' = TRUE /\ UNCHANGED <<servers, path>>
  /\ UNCHANGED <<custom, asked, refused>>

Cancel ==
  /\ confirm # None /\ confirm' = None
  /\ UNCHANGED <<servers, custom, path, error, asked, refused>>

(***************************************************************************)
(* Forms.                                                                  *)
(***************************************************************************)
Typed(level) ==
  CASE level.node = "ServerForm" -> ServerForm
    [] level.node = "LoginForm" -> LoginForm
    [] level.node = "App" -> {f \in AppForm : f.custom => level.form.custom}
    [] level.node = "Provider" -> ProviderForm
    [] OTHER -> {}

\* A key that changes a value, perhaps of a field that is left out here.
Type ==
  /\ Keys /\ OnForm
  /\ \E f \in Typed(Top) : Change([Top EXCEPT !.form = f])
  /\ error' = FALSE
  /\ UNCHANGED <<servers, custom, confirm, asked, refused>>

\* A saved form goes away; so does an error.
Return(levels) == path' = levels /\ error' = FALSE /\ UNCHANGED refused

\* Mutant: the lists below keep the old name.
RenamedNot(levels, old, new) == levels

Renamed(levels, old, new) ==
  [i \in DOMAIN levels |->
     IF levels[i].node = "ServerLogins" /\ levels[i].of = old
     THEN [levels[i] EXCEPT !.of = new] ELSE levels[i]]

\* The level below shows what was saved.
Selecting(levels, row) == [levels EXCEPT ![Len(levels)].selected = row]

\* Mutant: the logins are looked up under the name that is in the form.
ApplyServerByForm ==
  LET new == Top.form.name
      others == Server \ {Top.of}
      logins == IF new \in Server THEN servers[new] ELSE <<>>
  IN
  /\ Top.node = "ServerForm"
  /\ \/ /\ Top.form.valid /\ new # None /\ new \notin others
        /\ servers' = [n \in others \cup {new} |-> IF n = new THEN logins ELSE servers[n]]
        /\ LET levels == Renamed(Below, Top.of, new) IN
           Return(IF Parent.node = "Connections"
                  THEN Selecting(levels, Row(others \cup {new}, new)) ELSE levels)
        /\ UNCHANGED custom
     \/ Refuse

\* save_server: the logins are those the server has now.
ApplyServer ==
  LET new == Top.form.name
      others == Server \ {Top.of}
      logins == IF Top.of \in Server THEN servers[Top.of] ELSE <<>>
  IN
  /\ Top.node = "ServerForm"
  /\ \/ /\ Top.form.valid /\ new # None /\ new \notin others
        /\ servers' = [n \in others \cup {new} |-> IF n = new THEN logins ELSE servers[n]]
        /\ LET levels == Renamed(Below, Top.of, new) IN
           Return(IF Parent.node = "Connections"
                  THEN Selecting(levels, Row(others \cup {new}, new)) ELSE levels)
        /\ UNCHANGED custom
     \/ Refuse    \* not valid, taken, or the file cannot be written

\* save_login: replaces the login at its index or adds one.
ApplyLogin ==
  LET n == Top.of
      i == IF Top.index = 0 THEN Len(servers[n]) + 1 ELSE Top.index
  IN
  /\ Top.node = "LoginForm"
  /\ \/ /\ Top.form.login # None /\ n \in Server
        /\ i =< Len(servers[n]) + (IF Top.index = 0 THEN 1 ELSE 0) /\ i =< MaxLogins
        /\ servers' = [servers EXCEPT ![n] =
             [j \in 1 .. Len(@) + (IF Top.index = 0 THEN 1 ELSE 0) |->
                IF j = i THEN Top.form.login ELSE @[j]]]
        /\ Return(Selecting(Below, i))
        /\ UNCHANGED custom
     \/ Refuse

\* The schedule is set before an unknown provider is refused.
ApplyApp ==
  /\ Top.node = "App"
  /\ \/ /\ Top.form.minutes /\ ~Top.form.custom
        /\ custom' = FALSE
        /\ Return(Below)
        /\ UNCHANGED servers
     \/ (~Top.form.minutes \/ Top.form.custom) /\ Refuse

ApplyProvider ==
  /\ Top.node = "Provider"
  /\ \/ Top.form.valid /\ Return(Below) /\ UNCHANGED <<servers, custom>>
     \/ ~Top.form.valid /\ Refuse

\* Esc on a form: saves it and goes back.
Apply ==
  /\ Keys /\ OnForm /\ ~error
  /\ ApplyServer \/ ApplyLogin \/ ApplyApp \/ ApplyProvider
  /\ UNCHANGED <<confirm, asked>>

\* Esc again: "discards the edits".  Esc on a menu.
Back ==
  /\ Keys /\ Len(path) > 1
  /\ OnForm => error
  /\ Return(Below)
  /\ UNCHANGED <<servers, custom, confirm, asked>>

\* Esc on the root, and the overlay is opened again.
Close ==
  /\ Keys /\ Len(path) = 1
  /\ path' = <<Level("Root", None, None)>>
  /\ error' = FALSE
  /\ UNCHANGED <<servers, custom, confirm, asked, refused>>

(***************************************************************************)
(* The model picker.                                                       *)
(***************************************************************************)
OpenModels ==
  /\ Keys /\ Top.node = "Provider" /\ asked[Top.of] < MaxAsked
  /\ \/ /\ Top.form.valid
        /\ Push([Level("Models", Top.of, None) EXCEPT !.loading = TRUE])
        /\ asked' = [asked EXCEPT ![Top.of] = @ + 1]
        /\ UNCHANGED <<servers, custom, refused>>
     \/ ~Top.form.valid /\ Refuse /\ UNCHANGED asked
  /\ UNCHANGED confirm

\* Mutant: the model is written to the level of the picker's own number.
PickModelNameless ==
  /\ Keys /\ Top.node = "Models" /\ Count > 0
  /\ path' = [Below EXCEPT ![Len(path) - 1].form.model = Top.selected]
  /\ error' = FALSE
  /\ UNCHANGED <<servers, custom, confirm, asked, refused>>

PickModel ==
  /\ Keys /\ Top.node = "Models" /\ Count > 0
  /\ path' = [Below EXCEPT ![Len(path) - 1].form.model = Top.models[Top.selected]]
  /\ error' = FALSE
  /\ UNCHANGED <<servers, custom, confirm, asked, refused>>

Position(list, m) ==
  LET at == {i \in DOMAIN list : list[i] = m} IN
  IF at = {} THEN 1 ELSE CHOOSE i \in at : \A j \in at : i =< j

\* A listing arrives; it is ignored unless its picker is open.
OnModels(p) ==
  /\ asked[p] > 0 /\ asked' = [asked EXCEPT ![p] = @ - 1]
  /\ IF Top.node = "Models" /\ Top.of = p
     THEN \/ /\ \E list \in Lists :
                  Change([Top EXCEPT !.loading = FALSE, !.models = list,
                                     !.selected = Position(list, Parent.form.model)])
             /\ UNCHANGED error
          \/ Change([Top EXCEPT !.loading = FALSE]) /\ error' = TRUE
     ELSE UNCHANGED <<path, error>>
  /\ UNCHANGED <<servers, custom, confirm, refused>>

Next ==
  \/ Down \/ Up \/ Enter \/ AddServer \/ AddLogin \/ EditServer
  \/ Ask \/ Delete \/ Cancel
  \/ Type \/ Apply \/ Back \/ Close
  \/ OpenModels \/ PickModel
  \/ \E p \in Provider : OnModels(p)

Spec == Init /\ [][Next]_vars

(***************************************************************************)
(* Properties.                                                             *)
(***************************************************************************)
Levels ==
  [node : Node, of : Name \cup Provider \cup {None}, index : Nat, opened : Login \cup {None},
   selected : Nat \ {0}, form : Form \cup {None}, models : Lists \cup {<<>>}, loading : BOOLEAN]

FormsOf(node) ==
  CASE node = "ServerForm" -> ServerForm
    [] node = "LoginForm" -> LoginForm
    [] node = "App" -> AppForm
    [] node = "Provider" -> ProviderForm
    [] OTHER -> {None}

\* Every variable keeps its type; a form holds the fields of its own node.
TypeOK ==
  /\ IsFiniteSet(Server) /\ Server \subseteq Name
  /\ servers \in [Server -> Seq(Login)] /\ \A n \in Server : Len(servers[n]) =< MaxLogins
  /\ custom \in BOOLEAN /\ error \in BOOLEAN
  /\ confirm = None \/ confirm \in Question
  /\ asked \in [Provider -> 0..MaxAsked]
  /\ refused = None \/ refused \in Form
  /\ path # <<>> /\ path \in Seq(Levels)
  /\ \A i \in DOMAIN path : path[i].form \in FormsOf(path[i].node)

\* Wherever the user is, what the path names exists: the overlay holds names and
\* indices while forms and questions rename, delete and add servers.  So no key ends
\* in "server not found" or "login not found", and the picker has its form below.
PathExists ==
  \A i \in DOMAIN path :
    LET level == path[i] IN
    /\ level.node \in {"ServerLogins", "LoginForm"} => level.of \in Server
    /\ level.node = "ServerForm" /\ level.of # None => level.of \in Server
    /\ level.node = "LoginForm" => level.index =< Len(servers[level.of])
    /\ level.node = "Models" => path[i - 1].node = "Provider" /\ path[i - 1].of = level.of
    /\ level.selected =< Rows(level, servers) \/ level.selected = 1

\* The selected row is among the ones that scroll_window draws, for any height.
SelectedShown ==
  \A visible \in 1..5 :
    Count > 0 =>
      Shows(ScrollWindow(Count, visible, Top.selected - 1), Count, visible, Top.selected - 1)

\* "A failed apply keeps the user in place; pressing Esc again discards the edits"
\* (back): an error shown on a form is about what the form holds at this moment, so
\* Esc never drops edits that were not refused.
DiscardsRefused == error /\ OnForm => refused = Top.form

Times(known, login) ==
  Cardinality({s \in (DOMAIN known) \X (1..MaxLogins) :
                 s[2] \in DOMAIN known[s[1]] /\ known[s[1]][s[2]] = login})

\* A login is lost only with the server or as the login that the question names, or
\* overwritten by the form that was opened for it (apply, handle_key): the names and
\* indices that levels remember over several keys never mean another entry, and a
\* server keeps its logins when it is renamed.
LosesOnlyChosen ==
  [][\A login \in Login :
       Times(servers', login) < Times(servers, login) =>
         \/ /\ confirm # None /\ confirm.index = 0
            /\ \A n \in Server \ {confirm.of} : n \in DOMAIN servers' /\ servers'[n] = servers[n]
         \/ /\ confirm # None /\ confirm.label = login
            /\ Times(servers', login) = Times(servers, login) - 1
         \/ Top.node = "LoginForm" /\ Top.opened = login]_vars

=============================================================================
