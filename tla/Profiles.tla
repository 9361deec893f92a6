------------------------------ MODULE Profiles ------------------------------
(***************************************************************************)
(* The connection profiles of pgbutler (config.rs): the list of servers    *)
(* that Config keeps in memory, one file per server in connections/, and   *)
(* the default connection in config.toml.  The settings overlay, the chat  *)
(* command /collect-index-stats and a successful first connection change   *)
(* them (ui/settings.rs, ui/chat.rs, app.rs).                              *)
(*                                                                         *)
(* Each change runs on the event loop, several file operations in a row:   *)
(* none is interrupted by another change, but each may fail, and the       *)
(* process may die between any two of them (a panic of a background task   *)
(* aborts it).  Writing a file truncates it and then fills it.             *)
(*                                                                         *)
(* Left out: passwords and their encryption, certificate paths, the        *)
(* provider settings kept in config.toml, profiles in the legacy format    *)
(* and profiles the user writes by hand.                                   *)
(***************************************************************************)
EXTENDS Naturals, Sequences, FiniteSets

CONSTANTS
  Name,         \* server names, numbered in alphabetical order
  StemOf,       \* StemOf[n]: the file stem sanitize_filename makes of name n
  FileOf,       \* FileOf[s]: the file a stem denotes (two stems may share one
                \* where the file system ignores case)
  Host,         \* the network settings of a server
  Login,        \* user names
  Catalog,      \* databases
  MaxLogins,    \* bound: logins of one server
  MaxAttempts,  \* bound: connections being tried at a time
  Absent,       \* of a file: there is none
  Empty,        \* of a file: truncated and not filled
  None          \* nothing chosen, nothing known

ASSUME NameAssumption == Name \subseteq Nat
ASSUME StemAssumption == DOMAIN StemOf = Name /\ \A n \in Name : StemOf[n] \in DOMAIN FileOf
ASSUME BoundAssumption == MaxLogins \in Nat /\ MaxAttempts \in Nat

VARIABLES
  status,    \* of the process: "stopped", "setup" (the first screen) or "chat"
  servers,   \* Config.servers
  default,   \* Config.default_connection
  disk,      \* the files of connections/
  conf,      \* default_connection in config.toml; None when absent or emptied
  conn,      \* the Connection of the database in use
  attempts,  \* the connections being tried
  op,        \* what the running handler still has to do
  clean      \* history: no file operation has failed since the process started, the
             \* looks at files that Path::exists hides the errors of included

vars == <<status, servers, default, disk, conf, conn, attempts, op, clean>>

File == {FileOf[StemOf[n]] : n \in Name}
F(n) == FileOf[StemOf[n]]

LoginConfig == [login : Login, catalog : Catalog, stats : BOOLEAN]
ServerConfig ==
  [name : Name, host : Host, logins : UNION {[1..k -> LoginConfig] : k \in 0..MaxLogins}]
Connection == [name : Name, host : Host, login : Login, catalog : Catalog, stats : BOOLEAN]
Selectors == Login \X Name

ASSUME NoneAssumption == None \notin Name \cup ServerConfig \cup Connection \cup Selectors
ASSUME FileAssumption == {Absent, Empty} \cap ServerConfig = {}

\* Mutant: the two parts of a selector change places.
selectorSwapped(c) == <<c.name, c.login>>

selector(c) == <<c.login, c.name>>
flatten(s, i) ==
  [name |-> s.name, host |-> s.host, login |-> s.logins[i].login,
   catalog |-> s.logins[i].catalog, stats |-> s.logins[i].stats]

(***************************************************************************)
(* A handler's remaining steps.  `server' is what it writes, `old' the     *)
(* name it is or was known by, `next' what follows the profile:            *)
(* "stay" nothing, "chat" and "connect" the default connection, "exit"     *)
(* the last write of config.toml.                                          *)
(***************************************************************************)
NoOp == [step |-> "none", server |-> None, old |-> None, next |-> "stay"]
Operation ==
  [step : {"none", "create", "fill", "remove", "commit", "unlink", "forget",
           "confCreate", "confFill"},
   server : ServerConfig \cup {None}, old : Name \cup {None},
   next : {"stay", "chat", "connect", "exit"}]

Save(server, old, next) == [step |-> "create", server |-> server, old |-> old, next |-> next]
WriteConfig(next) == [NoOp EXCEPT !.step = "confCreate", !.next = next]

(***************************************************************************)
(* What a list of servers offers.                                          *)
(***************************************************************************)
Profiles(d) == {d[f] : f \in File} \cap ServerConfig

Connections(list) == UNION {{<<s, i>> : i \in DOMAIN s.logins} : s \in list}

\* The list is sorted by name, the logins of a server keep their order.
First(pairs) ==
  CHOOSE p \in pairs : \A q \in pairs :
    p[1].name < q[1].name \/ (p[1].name = q[1].name /\ p[2] =< q[2])

Matching(list, sel) == {p \in Connections(list) : selector(flatten(p[1], p[2])) = sel}

\* The connection tried at startup: the default one, or else the first.
Selected(list, sel) ==
  LET match == Matching(list, sel)
      from == IF match = {} THEN Connections(list) ELSE match IN
  IF from = {} THEN {} ELSE {flatten(First(from)[1], First(from)[2])}

\* Mutant: only equal names are refused.
TakenByName(name, old) == \E s \in servers : s.name # old /\ s.name = name

\* Another server has the name, or one that makes the same file stem.
Taken(name, old) ==
  \E s \in servers : s.name # old /\ (s.name = name \/ StemOf[s.name] = StemOf[name])

----------------------------------------------------------------------------
Idle == op.step = "none"
Running == status # "stopped" /\ Idle
InSettings == status = "chat" /\ Idle

Init ==
  /\ status = "stopped"
  /\ servers = {} /\ default = None
  /\ disk = [f \in File |-> Absent] /\ conf = None
  /\ conn = None /\ attempts = {} /\ op = NoOp /\ clean = TRUE

\* Config::read and App::new; a profile that does not parse is skipped.  The
\* directory or config.toml counts as missing when it cannot be looked at.
Start ==
  /\ status = "stopped"
  /\ status' = "setup"
  /\ \E dirSeen, confSeen \in BOOLEAN :
       /\ servers' = IF dirSeen THEN Profiles(disk) ELSE {}
       /\ default' = IF confSeen THEN conf ELSE None
       /\ clean' = (dirSeen /\ confSeen)
  /\ attempts' = Selected(servers', default')
  /\ UNCHANGED <<disk, conf, conn, op>>

\* The process dies, or drawing fails and run returns early: what is only in
\* memory is gone.
Die ==
  /\ status # "stopped"
  /\ status' = "stopped"
  /\ conn' = None /\ attempts' = {} /\ op' = NoOp
  /\ UNCHANGED <<servers, default, disk, conf, clean>>

Quit ==
  /\ Running
  /\ op' = WriteConfig("exit")
  /\ UNCHANGED <<status, servers, default, disk, conf, conn, attempts, clean>>

----------------------------------------------------------------------------
(***************************************************************************)
(* Connecting.                                                             *)
(***************************************************************************)
SubmitSetup(c) ==
  /\ status = "setup" /\ Idle /\ attempts = {}
  /\ attempts' = {c}
  /\ UNCHANGED <<status, servers, default, disk, conf, conn, op, clean>>

AttemptFails(c) ==
  /\ Running /\ c \in attempts
  /\ attempts' = attempts \ {c}
  /\ UNCHANGED <<status, servers, default, disk, conf, conn, op, clean>>

\* The profile save_connection writes: the saved server with the network
\* settings of the connection, its login replaced or added.
Updated(c) ==
  LET saved == {s \in servers : s.name = c.name}
      base == IF saved = {} THEN <<>> ELSE (CHOOSE s \in saved : TRUE).logins
      login == [login |-> c.login, catalog |-> c.catalog, stats |-> c.stats]
      at == {i \in DOMAIN base : base[i].login = c.login /\ base[i].catalog = c.catalog} IN
  [name |-> c.name, host |-> c.host,
   logins |-> IF at = {} THEN Append(base, login)
              ELSE [base EXCEPT ![CHOOSE i \in at : \A j \in at : i =< j] = login]]

\* save_connection passes the name it saves as the old one.
SaveConnection(c, refused, next) ==
  /\ Len(Updated(c).logins) =< MaxLogins
  /\ op' = IF Taken(c.name, c.name) THEN refused ELSE Save(Updated(c), c.name, next)

\* ConnectResult on the setup screen; a profile that cannot be saved is only
\* logged, the default connection follows all the same.
FirstConnected(c) ==
  /\ status = "setup" /\ Idle /\ c \in attempts
  /\ conn' = c /\ attempts' = {}
  /\ default' = selector(c)
  /\ SaveConnection(c, WriteConfig("chat"), "chat")
  /\ UNCHANGED <<status, servers, disk, conf, clean>>

\* /connect takes the first saved connection with that selector.
SubmitConnect(sel) ==
  /\ InSettings
  /\ Matching(servers, sel) # {}
  /\ attempts' = attempts \cup Selected(servers, sel)
  /\ Cardinality(attempts') =< MaxAttempts
  /\ UNCHANGED <<status, servers, default, disk, conf, conn, op, clean>>

\* Mutant: the default connection stays the one of the first screen.
ReconnectedKeepingDefault(c) ==
  /\ InSettings /\ c \in attempts
  /\ conn' = c /\ attempts' = attempts \ {c}
  /\ op' = WriteConfig("connect")
  /\ UNCHANGED <<status, servers, default, disk, conf, clean>>

\* on_connect_result: the profile is not saved again.
Reconnected(c) ==
  /\ InSettings /\ c \in attempts
  /\ conn' = c /\ attempts' = attempts \ {c}
  /\ default' = selector(c)
  /\ op' = WriteConfig("connect")
  /\ UNCHANGED <<status, servers, disk, conf, clean>>

\* /collect-index-stats saves the connection as it was when it was made.
CollectIndexStats(enabled) ==
  /\ InSettings
  /\ SaveConnection([conn EXCEPT !.stats = enabled], NoOp, "stay")
  /\ UNCHANGED <<status, servers, default, disk, conf, conn, attempts, clean>>

----------------------------------------------------------------------------
(***************************************************************************)
(* The settings overlay.  An error keeps the user in the form.             *)
(***************************************************************************)
Settings(next) ==
  /\ InSettings
  /\ op' = next
  /\ UNCHANGED <<status, servers, default, disk, conf, conn, attempts, clean>>

\* A server form: a new server has no logins, an edited one keeps them.
AddServer(name, host) ==
  /\ ~Taken(name, None)
  /\ Settings(Save([name |-> name, host |-> host, logins |-> <<>>], None, "stay"))

EditServer(s, name, host) ==
  /\ ~Taken(name, s.name)
  /\ Settings(Save([s EXCEPT !.name = name, !.host = host], s.name, "stay"))

AddLogin(s, login) ==
  /\ Len(s.logins) < MaxLogins
  /\ Settings(Save([s EXCEPT !.logins = Append(@, login)], s.name, "stay"))

EditLogin(s, i, login) ==
  Settings(Save([s EXCEPT !.logins[i] = login], s.name, "stay"))

DeleteLogin(s, i) ==
  Settings(Save([s EXCEPT !.logins = SubSeq(@, 1, i - 1) \o SubSeq(@, i + 1, Len(@))],
                s.name, "stay"))

DeleteServer(s) == Settings([NoOp EXCEPT !.step = "unlink", !.old = s.name])

----------------------------------------------------------------------------
(***************************************************************************)
(* File operations of the running handler.                                 *)
(***************************************************************************)
Do(step) == status # "stopped" /\ op.step = step

\* Mutant: the old file goes before the new one is complete.
CreateFileRemovingOld ==
  /\ Do("create")
  /\ disk' = [f \in File |-> IF f = F(op.server.name) THEN Empty
                            ELSE IF op.old # None /\ f = F(op.old) THEN Absent ELSE disk[f]]
  /\ op' = [op EXCEPT !.step = "fill"]
  /\ UNCHANGED <<status, servers, default, conf, conn, attempts, clean>>

CreateFile ==
  /\ Do("create")
  /\ disk' = [disk EXCEPT ![F(op.server.name)] = Empty]
  /\ op' = [op EXCEPT !.step = "fill"]
  /\ UNCHANGED <<status, servers, default, conf, conn, attempts, clean>>

\* The old file goes when the new name has another path and it exists.
Renames == op.old # None /\ StemOf[op.old] # StemOf[op.server.name]

\* Mutant: the old file of a renamed server is left behind.
FillFileOnly ==
  /\ Do("fill")
  /\ disk' = [disk EXCEPT ![F(op.server.name)] = op.server]
  /\ op' = [op EXCEPT !.step = "commit"]
  /\ UNCHANGED <<status, servers, default, conf, conn, attempts, clean>>

\* An old file that cannot be looked at counts as gone, and is left behind.
FillFile ==
  /\ Do("fill")
  /\ disk' = [disk EXCEPT ![F(op.server.name)] = op.server]
  /\ LET leftover == Renames /\ disk'[F(op.old)] # Absent IN
     \/ /\ op' = [op EXCEPT !.step = IF leftover THEN "remove" ELSE "commit"]
        /\ UNCHANGED clean
     \/ leftover /\ op' = [op EXCEPT !.step = "commit"] /\ clean' = FALSE
  /\ UNCHANGED <<status, servers, default, conf, conn, attempts>>

RemoveFile ==
  /\ Do("remove")
  /\ disk' = [disk EXCEPT ![F(op.old)] = Absent]
  /\ op' = [op EXCEPT !.step = "commit"]
  /\ UNCHANGED <<status, servers, default, conf, conn, attempts, clean>>

\* The profile is done, or has failed; on the first screen config.toml follows.
Followed == IF op.next = "chat" THEN WriteConfig("chat") ELSE NoOp

\* Memory follows once the files are right.
Commit ==
  /\ Do("commit")
  /\ servers' = {s \in servers : s.name \notin {op.old, op.server.name}} \cup {op.server}
  /\ op' = Followed
  /\ UNCHANGED <<status, default, disk, conf, conn, attempts, clean>>

Unlink ==
  /\ Do("unlink") /\ disk[F(op.old)] # Absent
  /\ disk' = [disk EXCEPT ![F(op.old)] = Absent]
  /\ op' = [op EXCEPT !.step = "forget"]
  /\ UNCHANGED <<status, servers, default, conf, conn, attempts, clean>>

Forget ==
  /\ Do("forget")
  /\ servers' = {s \in servers : s.name # op.old}
  /\ op' = NoOp
  /\ UNCHANGED <<status, default, disk, conf, conn, attempts, clean>>

CreateConfig ==
  /\ Do("confCreate")
  /\ conf' = None
  /\ op' = [op EXCEPT !.step = "confFill"]
  /\ UNCHANGED <<status, servers, default, disk, conn, attempts, clean>>

\* config.toml has been written, or could not be.
Leave ==
  /\ status' = CASE op.next = "chat" -> "chat" [] op.next = "exit" -> "stopped"
                 [] OTHER -> status
  /\ op' = NoOp
  /\ IF op.next = "exit" THEN conn' = None /\ attempts' = {} ELSE UNCHANGED <<conn, attempts>>

FillConfig ==
  /\ Do("confFill")
  /\ conf' = default
  /\ Leave
  /\ UNCHANGED <<servers, default, disk, clean>>

\* A file operation reports an error and the handler gives up on the profile.
ProfileFails ==
  /\ status # "stopped" /\ op.step \in {"create", "fill", "remove", "unlink"}
  /\ clean' = FALSE
  /\ op' = Followed
  /\ UNCHANGED <<status, servers, default, disk, conf, conn, attempts>>

ConfigFails ==
  /\ status # "stopped" /\ op.step \in {"confCreate", "confFill"}
  /\ clean' = FALSE
  /\ Leave
  /\ UNCHANGED <<servers, default, disk, conf>>

----------------------------------------------------------------------------
Handler ==
  \/ CreateFile \/ FillFile \/ RemoveFile \/ Commit \/ Unlink \/ Forget
  \/ CreateConfig \/ FillConfig \/ ProfileFails \/ ConfigFails

Connecting ==
  \/ \E c \in Connection : SubmitSetup(c)
  \/ \E c \in attempts : AttemptFails(c) \/ FirstConnected(c) \/ Reconnected(c)
  \/ \E sel \in Selectors : SubmitConnect(sel)

Editing ==
  \/ \E enabled \in BOOLEAN : CollectIndexStats(enabled)
  \/ \E name \in Name, host \in Host : AddServer(name, host)
  \/ \E s \in servers :
       \/ \E name \in Name, host \in Host : EditServer(s, name, host)
       \/ \E login \in LoginConfig : AddLogin(s, login)
       \/ \E i \in DOMAIN s.logins :
            DeleteLogin(s, i) \/ \E login \in LoginConfig : EditLogin(s, i, login)
       \/ DeleteServer(s)

Next == Start \/ Die \/ Quit \/ Connecting \/ Editing \/ Handler

Spec == Init /\ [][Next]_vars

----------------------------------------------------------------------------
(***************************************************************************)
(* Properties.                                                             *)
(***************************************************************************)
\* Every variable has its type (Config, config.rs).
TypeOK ==
  /\ status \in {"stopped", "setup", "chat"}
  /\ servers \subseteq ServerConfig
  /\ default \in Selectors \cup {None} /\ conf \in Selectors \cup {None}
  /\ disk \in [File -> ServerConfig \cup {Absent, Empty}]
  /\ conn \in Connection \cup {None} /\ attempts \subseteq Connection
  /\ op \in Operation
  /\ clean \in BOOLEAN

\* No two servers in memory share a file stem, whatever is added, renamed,
\* connected to, or read back after a crash: "Friendly, unique name for this
\* server (also used as the file stem)" (ServerConfig::name, config.rs).
StemsDistinct ==
  status # "stopped" => \A s, t \in servers : StemOf[s.name] = StemOf[t.name] => s = t

\* Between operations, and as long as no file operation has failed, what a
\* restart would read is what memory holds: no renamed or deleted profile comes
\* back and none is missing (save_server, save_login, delete_server).
InSync == Running /\ clean => servers = Profiles(disk)

\* Expected to fail where the file system ignores case: "Connection profiles
\* live in ~/.pgbutler/connections/<name>.toml" (README.md).  The stems that
\* save_server compares differ in case, the files do not: a second server
\* overwrites the first, and a rename removes the file it has just written.
ProfilesOnDisk == Running /\ clean => servers \subseteq Profiles(disk)

\* The process may die at any moment, even during a rename, without losing a
\* profile: its file is complete under the old name or under the new one.  The
\* one exception is a file that is being rewritten in place, or whose rewriting
\* failed before (save_server, save_server_profile).
Recoverable ==
  status # "stopped" =>
    \A s \in servers :
      \/ disk[F(s.name)] = s
      \/ op.old = s.name /\ op.step \in {"remove", "commit"} /\ disk[F(op.server.name)] = op.server
      \/ op.old = s.name /\ op.step = "forget"
      \/ disk[F(s.name)] = Empty /\ (~clean \/ (op.step = "fill" /\ op.old = s.name))

\* While the chat runs and nothing has failed, config.toml names the connection
\* in use, also when several /connect answers arrive out of order
\* (on_connect_result, chat.rs; handle_app_event, app.rs).
DefaultIsCurrent == status = "chat" /\ Idle /\ clean => conf = selector(conn)

\* Saving, renaming or deleting one server leaves the file of every other one
\* alone (the collision test of save_server, config.rs).
OthersUntouched ==
  [][\A s \in servers :
       disk[F(s.name)] = s /\ s.name # op.old => disk'[F(s.name)] = s]_vars

\* Expected to fail: App::new brings back the connection last used, "preferring
\* the saved default connection" (app.rs).  The selector login@server does not
\* say which database: of two logins with the same user the first one is taken.
RestartReconnects ==
  LET saved == {flatten(p[1], p[2]) : p \in Connections(servers)} IN
  status = "chat" /\ Idle /\ clean /\ conn \in saved
    => Selected(Profiles(disk), conf) = {conn}

=============================================================================
