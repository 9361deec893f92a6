--------------------------- MODULE ProfilesProofs ---------------------------
(***************************************************************************)
(* Theorems about Profiles: the types, the stems, the files and the        *)
(* default connection, for any names, hosts, logins and databases, and any *)
(* number of failures and crashes.  The last two say under what conditions *)
(* the two statements hold that Profiles does not keep in general.         *)
(***************************************************************************)
EXTENDS Profiles, SequenceTheorems, WellFoundedInduction, TLAPS

\* Every set of numbers has a least one.
LEMMA Least ==
  ASSUME NEW S \in SUBSET Nat, S # {}
  PROVE  \E m \in S : \A n \in S : m =< n
<1>1. PICK m \in S : \A n \in S : <<n, m>> \notin OpToRel(<, Nat)
  BY NatLessThanWellFounded, WFMin
<1>2. \A n \in S : ~(n < m)
  BY <1>1 DEF OpToRel
<1> QED
  BY <1>2

\* The first connection of a list is one of the list: names and places are numbers
\* (Config::connections, config.rs).
LEMMA FirstIsOne ==
  ASSUME NEW pairs, pairs # {}, \A p \in pairs : p[1].name \in Nat /\ p[2] \in Nat
  PROVE  First(pairs) \in pairs
<1> DEFINE names == {p[1].name : p \in pairs}
<1>1. PICK n \in names : \A k \in names : n =< k
  <2>1. names \in SUBSET Nat /\ names # {}
    OBVIOUS
  <2> QED
    BY <2>1, Least
<1> DEFINE same == {p \in pairs : p[1].name = n}
           places == {p[2] : p \in same}
<1>2. PICK i \in places : \A k \in places : i =< k
  <2>1. places \in SUBSET Nat /\ places # {}
    OBVIOUS
  <2> QED
    BY <2>1, Least
<1>3. PICK p \in same : p[2] = i
  OBVIOUS
<1>4. ASSUME NEW q \in pairs
      PROVE  p[1].name < q[1].name \/ (p[1].name = q[1].name /\ p[2] =< q[2])
  <2>1. p \in pairs /\ p[1].name = n
    BY <1>3
  <2>2. n =< q[1].name
    BY <1>1
  <2>3. q[1].name = n => p[2] =< q[2]
    BY <1>2, <1>3
  <2>4. n \in Nat /\ q[1].name \in Nat
    BY <2>1
  <2> QED
    BY <2>1, <2>2, <2>3, <2>4
<1> QED
  BY <1>3, <1>4 DEF First

(***************************************************************************)
(* What the types are made of.                                             *)
(***************************************************************************)
\* The logins of a server are a bounded sequence.
LEMMA LoginsType ==
  ASSUME NEW logins
  PROVE  logins \in UNION {[1..k -> LoginConfig] : k \in 0..MaxLogins}
           <=> logins \in Seq(LoginConfig) /\ Len(logins) =< MaxLogins
<1>1. ASSUME NEW k \in 0..MaxLogins, logins \in [1..k -> LoginConfig]
      PROVE  logins \in Seq(LoginConfig) /\ Len(logins) =< MaxLogins
  BY <1>1, BoundAssumption
<1>2. ASSUME logins \in Seq(LoginConfig), Len(logins) =< MaxLogins
      PROVE  Len(logins) \in 0..MaxLogins /\ logins \in [1..Len(logins) -> LoginConfig]
  BY <1>2, BoundAssumption
<1> QED
  BY <1>1, <1>2

\* A profile is a name, a host and such logins (ServerConfig, config.rs).
LEMMA ServerType ==
  /\ \A s \in ServerConfig : /\ s.name \in Name /\ s.host \in Host
                             /\ s.logins \in Seq(LoginConfig) /\ Len(s.logins) =< MaxLogins
  /\ \A name \in Name, host \in Host, logins \in Seq(LoginConfig) :
       Len(logins) =< MaxLogins =>
         [name |-> name, host |-> host, logins |-> logins] \in ServerConfig
BY LoginsType DEF ServerConfig

\* A profile with other logins is a profile.
LEMMA RelistType ==
  ASSUME NEW s \in ServerConfig, NEW logins \in Seq(LoginConfig), Len(logins) =< MaxLogins
  PROVE  [s EXCEPT !.logins = logins] \in ServerConfig
<1>1. [s EXCEPT !.logins = logins] = [name |-> s.name, host |-> s.host, logins |-> logins]
  BY DEF ServerConfig
<1>2. s.name \in Name /\ s.host \in Host
  BY ServerType
<1> QED
  BY <1>1, <1>2, ServerType

\* Replacing a login, at whatever place, keeps the list as long as it is.
LEMMA ReplacedType ==
  ASSUME NEW logins \in Seq(LoginConfig), NEW i, NEW login \in LoginConfig
  PROVE  /\ [logins EXCEPT ![i] = login] \in Seq(LoginConfig)
         /\ Len([logins EXCEPT ![i] = login]) = Len(logins)
<1>1. CASE i \in 1..Len(logins)
  BY <1>1, ExceptSeq
<1>2. CASE i \notin 1..Len(logins)
  <2>1. [logins EXCEPT ![i] = login] = logins
    BY <1>2
  <2> QED
    BY <2>1
<1> QED
  BY <1>1, <1>2

\* A list without one of its logins is one shorter (delete_login, config.rs).
LEMMA WithoutType ==
  ASSUME NEW logins \in Seq(LoginConfig), NEW i \in 1..Len(logins)
  PROVE  LET rest == SubSeq(logins, 1, i - 1) \o SubSeq(logins, i + 1, Len(logins)) IN
         rest \in Seq(LoginConfig) /\ Len(rest) = Len(logins) - 1
<1> DEFINE before == SubSeq(logins, 1, i - 1)
           after == SubSeq(logins, i + 1, Len(logins))
<1>1. before \in Seq(LoginConfig) /\ Len(before) = i - 1
  BY SubSeqProperties
<1>2. after \in Seq(LoginConfig) /\ Len(after) = Len(logins) - i
  BY SubSeqProperties
<1> HIDE DEF before, after
<1>3. before \o after \in Seq(LoginConfig) /\ Len(before \o after) = Len(logins) - 1
  BY <1>1, <1>2, ConcatProperties
<1> QED
  BY <1>3 DEF before, after

\* What save_connection writes is a profile of the connection's name.
LEMMA UpdatedType ==
  ASSUME servers \subseteq ServerConfig, NEW c \in Connection, Len(Updated(c).logins) =< MaxLogins
  PROVE  Updated(c) \in ServerConfig /\ Updated(c).name = c.name
<1> DEFINE saved == {s \in servers : s.name = c.name}
           base == IF saved = {} THEN <<>> ELSE (CHOOSE s \in saved : TRUE).logins
           login == [login |-> c.login, catalog |-> c.catalog, stats |-> c.stats]
           at == {i \in DOMAIN base : base[i].login = c.login /\ base[i].catalog = c.catalog}
           place == CHOOSE i \in at : \A j \in at : i =< j
           logins == IF at = {} THEN Append(base, login) ELSE [base EXCEPT ![place] = login]
<1>1. base \in Seq(LoginConfig)
  BY ServerType
<1>2. login \in LoginConfig
  BY DEF LoginConfig, Connection
<1> HIDE DEF base, login
<1>3. Append(base, login) \in Seq(LoginConfig)
  BY <1>1, <1>2
<1>4. [base EXCEPT ![place] = login] \in Seq(LoginConfig)
  BY <1>1, <1>2, ReplacedType
<1>5. logins \in Seq(LoginConfig)
  BY <1>3, <1>4
<1>6. Updated(c) = [name |-> c.name, host |-> c.host, logins |-> logins]
  BY DEF Updated, base, login
<1> HIDE DEF logins
<1>7. c.name \in Name /\ c.host \in Host
  BY DEF Connection
<1> QED
  BY <1>5, <1>6, <1>7, ServerType

\* A connection of a saved profile is a connection (Config::connections).
LEMMA SelectedType ==
  ASSUME NEW list, list \subseteq ServerConfig, NEW sel
  PROVE  Selected(list, sel) \subseteq Connection
<1> DEFINE match == Matching(list, sel)
           from == IF match = {} THEN Connections(list) ELSE match
<1>1. ASSUME NEW p \in Connections(list)
      PROVE  /\ p[1] \in ServerConfig /\ p[2] \in DOMAIN p[1].logins
             /\ p[1].name \in Nat /\ p[2] \in Nat
  <2>1. PICK s \in list : \E i \in DOMAIN s.logins : p = <<s, i>>
    BY <1>1 DEF Connections
  <2>2. s \in ServerConfig /\ s.name \in Nat
    BY ServerType, NameAssumption
  <2>3. s.logins \in Seq(LoginConfig)
    BY <2>2, ServerType
  <2> QED
    BY <2>1, <2>2, <2>3
<1>2. from \subseteq Connections(list)
  BY DEF Matching
<1>3. CASE from = {}
  BY <1>3 DEF Selected
<1>4. CASE from # {}
  <2>1. First(from) \in Connections(list)
    BY <1>1, <1>2, <1>4, FirstIsOne
  <2> DEFINE s == First(from)[1]
             i == First(from)[2]
  <2>2. s \in ServerConfig /\ i \in DOMAIN s.logins
    BY <1>1, <2>1
  <2> HIDE DEF s, i
  <2>3. s.logins[i] \in LoginConfig /\ s.name \in Name /\ s.host \in Host
    BY <2>2, ServerType
  <2>4. flatten(s, i) \in Connection
    BY <2>3 DEF flatten, Connection, LoginConfig
  <2>5. Selected(list, sel) = {flatten(s, i)}
    BY <1>4 DEF Selected, s, i
  <2> QED
    BY <2>4, <2>5
<1> QED
  BY <1>3, <1>4

(***************************************************************************)
(* The inductive invariant.                                                *)
(***************************************************************************)
Saving == op.step \in {"create", "fill", "remove", "commit"}
Removing == op.step \in {"unlink", "forget"}

\* What a handler still has to do makes sense: it saves a profile whose stem nobody
\* else has, under a name that is new, its own or another's former one.
OpSound ==
  /\ status = "stopped" => op = NoOp
  /\ Saving => /\ op.server \in ServerConfig
               /\ op.old \in {None, op.server.name} \cup {s.name : s \in servers}
               /\ ~Taken(op.server.name, op.old)
  /\ Removing => op.old \in {s.name : s \in servers}
  /\ op.step = "remove" => Renames
  /\ status = "chat" \/ op.next = "chat" => conn \in Connection

\* A complete file holds a profile that belongs there.
FilesNamed == \A f \in File : disk[f] \in ServerConfig => F(disk[f].name) = f

StemInv == TypeOK /\ OpSound /\ FilesNamed /\ StemsDistinct

\* Where the handler is with the files.
FilesSound ==
  /\ op.step \in {"remove", "commit"} => disk[F(op.server.name)] = op.server
  /\ op.step \notin {"commit", "forget"} /\ status # "stopped" =>
       \A s \in servers : disk[F(s.name)] \in {s, Empty}

\* Nothing stays on disk that memory does not hold, or is about to.
NoStrays ==
  clean /\ status # "stopped" =>
    /\ \A f \in File : disk[f] \in ServerConfig =>
         disk[f] \in servers \/ (op.step \in {"remove", "commit"} /\ f = F(op.server.name))
    /\ op.step = "commit" /\ Renames => disk[F(op.old)] = Absent
    /\ op.step = "forget" => disk[F(op.old)] = Absent

\* What config.toml will hold, or holds.
DefaultFollows ==
  /\ status = "chat" \/ op.next \in {"chat", "connect"} => default = selector(conn)
  /\ op.step \in {"confCreate", "confFill"} /\ status = "chat" => op.next \in {"connect", "exit"}
  /\ op.step \notin {"confCreate", "confFill"} /\ status = "chat" /\ clean => conf = default
  /\ op.next = "chat" => status = "setup"

\* An operation is made of its parts.
LEMMA OperationType ==
  /\ NoOp \in Operation /\ NoOp.step = "none" /\ NoOp.next = "stay" /\ NoOp.old = None
  /\ \A server \in ServerConfig, old \in Name \cup {None}, next \in {"stay", "chat"} :
       /\ Save(server, old, next) \in Operation
       /\ Save(server, old, next).step = "create" /\ Save(server, old, next).server = server
       /\ Save(server, old, next).old = old /\ Save(server, old, next).next = next
  /\ \A next \in {"chat", "connect", "exit"} :
       /\ WriteConfig(next) \in Operation
       /\ WriteConfig(next).step = "confCreate" /\ WriteConfig(next).next = next
       /\ WriteConfig(next).old = None
  /\ \A old \in Name : LET unlink == [NoOp EXCEPT !.step = "unlink", !.old = old] IN
       /\ unlink \in Operation
       /\ unlink.step = "unlink" /\ unlink.old = old /\ unlink.next = "stay"
BY ZenonT(30) DEF NoOp, Save, WriteConfig, Operation

\* The next step of an operation is one of the same operation.
LEMMA StepType ==
  ASSUME op \in Operation,
         NEW step \in {"fill", "remove", "commit", "forget", "confFill"}
  PROVE  LET next == [op EXCEPT !.step = step] IN
         /\ next \in Operation
         /\ next.step = step /\ next.server = op.server /\ next.old = op.old /\ next.next = op.next
BY DEF Operation

\* What follows a profile.
LEMMA FollowedType ==
  ASSUME op \in Operation
  PROVE  /\ Followed \in Operation /\ Followed.step \in {"none", "confCreate"}
         /\ Followed.next \in {"stay", "chat"} /\ (Followed.next = "chat" => op.next = "chat")
         /\ Followed.step = "confCreate" => Followed.next = "chat"
BY OperationType DEF Followed

\* A selector is one of a login and a server.
LEMMA SelectorType == \A c \in Connection : selector(c) \in Selectors
BY DEF Connection, selector, Selectors

\* The file of a saved server is one of the files.
LEMMA FileType ==
  /\ \A name \in Name : F(name) \in File
  /\ \A s \in ServerConfig : F(s.name) \in File /\ s.name # None
  /\ None \notin ServerConfig /\ None \notin Name
  /\ Empty \notin ServerConfig /\ Absent \notin ServerConfig
BY ServerType, NoneAssumption, FileAssumption DEF F, File

(***************************************************************************)
(* The types.                                                              *)
(***************************************************************************)
\* A start, an end and a connection leave every variable well typed.
LEMMA TypeConnecting ==
  ASSUME TypeOK, Start \/ Die \/ Quit \/ Connecting
  PROVE  TypeOK'
<1>1. CASE Start
  <2>1. Profiles(disk) \subseteq ServerConfig
    BY DEF Profiles
  <2> QED
    BY <1>1, <2>1, SelectedType DEF Start, TypeOK
<1>2. CASE Die
  BY <1>2, OperationType DEF Die, TypeOK
<1>3. CASE Quit
  BY <1>3, OperationType DEF Quit, TypeOK, Running
<1>4. ASSUME NEW c \in Connection, SubmitSetup(c) PROVE TypeOK'
  BY <1>4 DEF SubmitSetup, TypeOK
<1>5. ASSUME NEW c \in attempts, AttemptFails(c) PROVE TypeOK'
  BY <1>5 DEF AttemptFails, TypeOK
<1>6. ASSUME NEW c \in attempts, FirstConnected(c) PROVE TypeOK'
  <2>1. c \in Connection /\ selector(c) \in Selectors /\ c.name \in Name
    BY <1>6, SelectorType DEF TypeOK, Connection
  <2>2. Updated(c) \in ServerConfig
    BY <1>6, <2>1, UpdatedType DEF FirstConnected, SaveConnection, TypeOK
  <2>3. op' \in Operation
    BY <1>6, <2>1, <2>2, OperationType DEF FirstConnected, SaveConnection
  <2> QED
    BY <1>6, <2>1, <2>3 DEF FirstConnected, TypeOK
<1>7. ASSUME NEW c \in attempts, Reconnected(c) PROVE TypeOK'
  BY <1>7, SelectorType, OperationType DEF Reconnected, TypeOK
<1>8. ASSUME NEW sel \in Selectors, SubmitConnect(sel) PROVE TypeOK'
  <2>1. Selected(servers, sel) \subseteq Connection
    BY SelectedType DEF TypeOK
  <2> QED
    BY <1>8, <2>1 DEF SubmitConnect, TypeOK
<1> QED
  BY <1>1, <1>2, <1>3, <1>4, <1>5, <1>6, <1>7, <1>8 DEF Connecting

\* A handler that starts with a well typed operation leaves every variable well typed.
LEMMA TypeSettings ==
  ASSUME TypeOK, NEW next \in Operation, Settings(next)
  PROVE  TypeOK'
BY DEF Settings, TypeOK

\* The operation that each edit starts: it saves a profile whose stem is free, or
\* deletes one (ui/settings.rs, chat.rs).
LEMMA EditingStarts ==
  ASSUME StemInv, Editing
  PROVE  \/ /\ status = "chat" /\ op' = NoOp
            /\ UNCHANGED <<status, servers, default, disk, conf, conn, attempts, clean>>
         \/ \E server \in ServerConfig, old \in Name \cup {None} :
              /\ old \in {None, server.name} \cup {s.name : s \in servers}
              /\ ~Taken(server.name, old)
              /\ Settings(Save(server, old, "stay"))
         \/ \E s \in servers : Settings([NoOp EXCEPT !.step = "unlink", !.old = s.name])
<1>1. /\ servers \subseteq ServerConfig
      /\ status = "chat" => conn \in Connection /\ StemsDistinct
  BY DEF StemInv, TypeOK, OpSound
<1>2. ASSUME NEW s \in servers, status = "chat" PROVE ~Taken(s.name, s.name)
  BY <1>1, <1>2 DEF Taken, StemsDistinct
<1>3. ASSUME NEW s \in servers, NEW logins \in Seq(LoginConfig), Len(logins) =< MaxLogins,
             Settings(Save([s EXCEPT !.logins = logins], s.name, "stay"))
      PROVE  \E server \in ServerConfig, old \in Name \cup {None} :
               /\ old \in {None, server.name} \cup {t.name : t \in servers}
               /\ ~Taken(server.name, old)
               /\ Settings(Save(server, old, "stay"))
  <2> DEFINE server == [s EXCEPT !.logins = logins]
  <2>1. s \in ServerConfig
    BY <1>1
  <2>2. server \in ServerConfig
    BY <1>3, <2>1, RelistType
  <2>3. server.name = s.name /\ s.name \in Name
    BY <2>1, ServerType DEF ServerConfig
  <2>4. ~Taken(server.name, s.name)
    BY <1>2, <1>3, <2>3 DEF Settings, InSettings
  <2> QED
    BY <1>3, <2>2, <2>3, <2>4
<1>4. ASSUME NEW enabled \in BOOLEAN, CollectIndexStats(enabled)
      PROVE  \/ /\ status = "chat" /\ op' = NoOp
                /\ UNCHANGED <<status, servers, default, disk, conf, conn, attempts, clean>>
             \/ \E server \in ServerConfig, old \in Name \cup {None} :
                  /\ old \in {None, server.name} \cup {s.name : s \in servers}
                  /\ ~Taken(server.name, old)
                  /\ Settings(Save(server, old, "stay"))
  <2> DEFINE c == [conn EXCEPT !.stats = enabled]
  <2>1. c \in Connection
    BY <1>1, <1>4 DEF CollectIndexStats, InSettings, Connection
  <2>2. c.name \in Name
    BY <2>1 DEF Connection
  <2>3. Updated(c) \in ServerConfig /\ Updated(c).name = c.name
    BY <1>1, <1>4, <2>1, UpdatedType DEF CollectIndexStats, SaveConnection
  <2>4. CASE Taken(c.name, c.name)
    BY <1>4, <2>4 DEF CollectIndexStats, SaveConnection, InSettings
  <2>5. CASE ~Taken(c.name, c.name)
    <3>1. Settings(Save(Updated(c), c.name, "stay"))
      BY <1>4, <2>5 DEF CollectIndexStats, SaveConnection, Settings
    <3> QED
      BY <2>2, <2>3, <2>5, <3>1
  <2> QED
    BY <2>4, <2>5
<1>5. ASSUME NEW name \in Name, NEW host \in Host, AddServer(name, host)
      PROVE  \E server \in ServerConfig :
               ~Taken(server.name, None) /\ Settings(Save(server, None, "stay"))
  <2> DEFINE server == [name |-> name, host |-> host, logins |-> <<>>]
  <2>1. <<>> \in Seq(LoginConfig) /\ Len(<<>>) =< MaxLogins
    BY BoundAssumption
  <2>2. server \in ServerConfig
    BY <2>1, ServerType
  <2> QED
    BY <1>5, <2>2 DEF AddServer
<1>6. ASSUME NEW s \in servers, NEW name \in Name, NEW host \in Host, EditServer(s, name, host)
      PROVE  \E server \in ServerConfig :
               ~Taken(server.name, s.name) /\ Settings(Save(server, s.name, "stay"))
  <2> DEFINE server == [s EXCEPT !.name = name, !.host = host]
  <2>1. s \in ServerConfig
    BY <1>1
  <2> DEFINE renamed == [s EXCEPT !.name = name]
  <2>2. renamed = [name |-> name, host |-> s.host, logins |-> s.logins]
    BY <2>1 DEF ServerConfig
  <2>3. renamed \in ServerConfig
    BY ZenonT(30), <2>1, <2>2, ServerType
  <2>4. server = [renamed EXCEPT !.host = host]
    OBVIOUS
  <2> HIDE DEF renamed, server
  <2>5. server = [name |-> renamed.name, host |-> host, logins |-> renamed.logins]
    BY <2>3, <2>4 DEF ServerConfig
  <2>6. server \in ServerConfig /\ server.name = name
    BY <2>1, <2>2, <2>5, ServerType
  <2> QED
    BY <1>6, <2>6 DEF EditServer, server
<1>7. ASSUME NEW s \in servers
      PROVE  /\ s \in ServerConfig /\ s.logins \in Seq(LoginConfig)
             /\ Len(s.logins) =< MaxLogins /\ s.name \in Name
  BY <1>1, ServerType
<1>8. ASSUME NEW s \in servers, NEW login \in LoginConfig, AddLogin(s, login)
      PROVE  \E logins \in Seq(LoginConfig) :
               /\ Len(logins) =< MaxLogins
               /\ Settings(Save([s EXCEPT !.logins = logins], s.name, "stay"))
  <2>1. Append(s.logins, login) \in Seq(LoginConfig) /\ Len(Append(s.logins, login)) =< MaxLogins
    BY <1>7, <1>8, BoundAssumption DEF AddLogin
  <2>2. Settings(Save([s EXCEPT !.logins = Append(s.logins, login)], s.name, "stay"))
    BY <1>8 DEF AddLogin
  <2> QED
    BY <2>1, <2>2
<1>9. ASSUME NEW s \in servers, NEW i \in DOMAIN s.logins, NEW login \in LoginConfig,
             EditLogin(s, i, login)
      PROVE  \E logins \in Seq(LoginConfig) :
               /\ Len(logins) =< MaxLogins
               /\ Settings(Save([s EXCEPT !.logins = logins], s.name, "stay"))
  <2> DEFINE logins == [s.logins EXCEPT ![i] = login]
  <2>1. logins \in Seq(LoginConfig) /\ Len(logins) =< MaxLogins
    BY <1>7, ReplacedType
  <2>2. [s EXCEPT !.logins[i] = login] = [s EXCEPT !.logins = logins]
    BY <1>7 DEF ServerConfig
  <2> QED
    BY <1>9, <2>1, <2>2 DEF EditLogin
<1>10. ASSUME NEW s \in servers, NEW i \in DOMAIN s.logins, DeleteLogin(s, i)
       PROVE  \E logins \in Seq(LoginConfig) :
                /\ Len(logins) =< MaxLogins
               /\ Settings(Save([s EXCEPT !.logins = logins], s.name, "stay"))
  <2> DEFINE logins == SubSeq(s.logins, 1, i - 1) \o SubSeq(s.logins, i + 1, Len(s.logins))
  <2>1. i \in 1..Len(s.logins)
    BY <1>7
  <2>2. logins \in Seq(LoginConfig) /\ Len(logins) = Len(s.logins) - 1
    BY <1>7, <2>1, WithoutType
  <2>3. Len(logins) =< MaxLogins
    BY <1>7, <2>1, <2>2, BoundAssumption
  <2>4. Settings(Save([s EXCEPT !.logins = logins], s.name, "stay"))
    BY <1>10 DEF DeleteLogin
  <2> QED
    BY <2>2, <2>3, <2>4
<1>11. ASSUME NEW s \in servers, DeleteServer(s)
       PROVE  Settings([NoOp EXCEPT !.step = "unlink", !.old = s.name])
  BY <1>11 DEF DeleteServer
<1>12. ASSUME NEW s \in servers,
              \/ \E login \in LoginConfig : AddLogin(s, login)
              \/ \E i \in DOMAIN s.logins :
                   DeleteLogin(s, i) \/ \E login \in LoginConfig : EditLogin(s, i, login)
       PROVE  \E server \in ServerConfig, old \in Name \cup {None} :
                /\ old \in {None, server.name} \cup {t.name : t \in servers}
                /\ ~Taken(server.name, old)
                /\ Settings(Save(server, old, "stay"))
  <2>1. \E logins \in Seq(LoginConfig) :
          Len(logins) =< MaxLogins /\ Settings(Save([s EXCEPT !.logins = logins], s.name, "stay"))
    BY <1>8, <1>9, <1>10, <1>12
  <2> QED
    BY <1>3, <2>1
<1>13. ASSUME NEW s \in servers, NEW name \in Name, NEW host \in Host, EditServer(s, name, host)
       PROVE  \E server \in ServerConfig, old \in Name \cup {None} :
                /\ old \in {None, server.name} \cup {t.name : t \in servers}
                /\ ~Taken(server.name, old)
                /\ Settings(Save(server, old, "stay"))
  BY <1>6, <1>7, <1>13
<1>14. ASSUME NEW name \in Name, NEW host \in Host, AddServer(name, host)
       PROVE  \E server \in ServerConfig, old \in Name \cup {None} :
                /\ old \in {None, server.name} \cup {t.name : t \in servers}
                /\ ~Taken(server.name, old)
                /\ Settings(Save(server, old, "stay"))
  BY <1>5, <1>14
<1> QED
  BY <1>4, <1>11, <1>12, <1>13, <1>14 DEF Editing

\* The edits leave every variable well typed.
LEMMA TypeEditing ==
  ASSUME StemInv, Editing
  PROVE  TypeOK'
<1>1. TypeOK
  BY DEF StemInv
<1>2. CASE /\ op' = NoOp
           /\ UNCHANGED <<status, servers, default, disk, conf, conn, attempts, clean>>
  BY <1>1, <1>2, OperationType DEF TypeOK
<1>3. ASSUME NEW server \in ServerConfig, NEW old \in Name \cup {None},
             Settings(Save(server, old, "stay"))
      PROVE  TypeOK'
  BY <1>1, <1>3, OperationType, TypeSettings
<1>4. ASSUME NEW s \in servers, Settings([NoOp EXCEPT !.step = "unlink", !.old = s.name])
      PROVE  TypeOK'
  <2>1. s.name \in Name
    BY <1>1, ServerType DEF TypeOK
  <2> QED
    BY <1>1, <1>4, <2>1, OperationType, TypeSettings
<1> QED
  BY <1>2, <1>3, <1>4, EditingStarts

\* The file operations leave every variable well typed.
LEMMA TypeHandler ==
  ASSUME TypeOK, OpSound, Handler
  PROVE  TypeOK'
<1>1. CASE CreateFile
  <2>1. op.server.name \in Name
    BY <1>1, ServerType DEF CreateFile, Do, OpSound, Saving
  <2> QED
    BY <1>1, <2>1, StepType DEF CreateFile, TypeOK
<1>2. CASE FillFile
  <2>1. op.server \in ServerConfig
    BY <1>2 DEF FillFile, Do, OpSound, Saving
  <2>2. op' \in Operation
    BY <1>2, StepType DEF FillFile, TypeOK
  <2> QED
    BY <1>2, <2>1, <2>2 DEF FillFile, TypeOK
<1>3. CASE RemoveFile
  BY <1>3, StepType DEF RemoveFile, TypeOK
<1>4. CASE Commit
  <2>1. op.server \in ServerConfig
    BY <1>4 DEF Commit, Do, OpSound, Saving
  <2> QED
    BY <1>4, <2>1, FollowedType DEF Commit, TypeOK
<1>5. CASE Unlink
  BY <1>5, StepType DEF Unlink, TypeOK
<1>6. CASE Forget
  BY <1>6, OperationType DEF Forget, TypeOK
<1>7. CASE CreateConfig
  BY <1>7, StepType DEF CreateConfig, TypeOK
<1>8. CASE FillConfig
  BY <1>8, OperationType DEF FillConfig, Leave, TypeOK
<1>9. CASE ProfileFails
  BY <1>9, FollowedType DEF ProfileFails, TypeOK
<1>10. CASE ConfigFails
  BY <1>10, OperationType DEF ConfigFails, Leave, TypeOK
<1> QED
  BY <1>1, <1>2, <1>3, <1>4, <1>5, <1>6, <1>7, <1>8, <1>9, <1>10 DEF Handler

\* Only the file operations change the disk, only a start and the end of a handler
\* change what memory holds.
LEMMA Frames ==
  ASSUME [Next]_vars
  PROVE  /\ CreateFile \/ FillFile \/ RemoveFile \/ Unlink \/ UNCHANGED disk
         /\ Start \/ Commit \/ Forget \/ UNCHANGED servers
<1>1. CASE Start \/ Die \/ Quit \/ UNCHANGED vars
  BY <1>1 DEF Start, Die, Quit, vars
<1>2. CASE Connecting
  BY <1>2 DEF Connecting, SubmitSetup, AttemptFails, FirstConnected, Reconnected, SubmitConnect
<1>3. CASE Editing
  BY <1>3 DEF Editing, CollectIndexStats, AddServer, EditServer, AddLogin, DeleteLogin, EditLogin,
    DeleteServer, Settings
<1>4. CASE Handler
  BY <1>4 DEF Handler, CreateFile, FillFile, RemoveFile, Commit, Unlink, Forget, CreateConfig,
    FillConfig, ProfileFails, ConfigFails
<1> QED
  BY <1>1, <1>2, <1>3, <1>4 DEF Next

(***************************************************************************)
(* What a handler still has to do.                                         *)
(***************************************************************************)
\* A handler that writes no profile has nothing to respect.
LEMMA SoundRest ==
  ASSUME op'.step \in {"none", "confCreate", "confFill"},
         status' = "stopped" => op' = NoOp,
         status' = "chat" \/ op'.next = "chat" => conn' \in Connection
  PROVE  OpSound'
BY DEF OpSound, Saving, Removing

\* A handler that starts to save a profile has a free stem for it.
LEMMA SoundSave ==
  ASSUME OpSound, status \in {"setup", "chat"}, servers' = servers, status' = status,
         NEW server \in ServerConfig, NEW old \in Name \cup {None},
         old \in {None, server.name} \cup {s.name : s \in servers}, ~Taken(server.name, old),
         NEW next \in {"stay", "chat"}, op' = Save(server, old, next),
         next = "chat" \/ status = "chat" => conn' \in Connection
  PROVE  OpSound'
<1>1. /\ op'.step = "create" /\ op'.server = server
      /\ op'.old = old /\ op'.next = next
  BY DEF Save
<1> QED
  BY <1>1 DEF OpSound, Saving, Removing, Taken

\* The next step of a handler respects what the one before it did.
LEMMA SoundGoesOn ==
  ASSUME OpSound, op \in Operation, status # "stopped",
         UNCHANGED <<status, servers, conn>>,
         NEW step \in {"fill", "remove", "commit"}, Saving, op' = [op EXCEPT !.step = step],
         step = "remove" => Renames
  PROVE  OpSound'
<1>1. /\ op'.step = step /\ op'.server = op.server
      /\ op'.old = op.old /\ op'.next = op.next
  BY StepType
<1> QED
  BY <1>1 DEF OpSound, Saving, Removing, Taken, Renames

\* Connections and the start.
LEMMA SoundConnecting ==
  ASSUME StemInv, Start \/ Die \/ Quit \/ Connecting
  PROVE  OpSound'
<1> USE DEF StemInv
<1>1. CASE Start
  <2>1. op' = NoOp /\ status' = "setup"
    BY <1>1 DEF Start, OpSound
  <2> QED
    BY <2>1, OperationType, SoundRest
<1>2. CASE Die
  BY <1>2, OperationType, SoundRest DEF Die
<1>3. CASE Quit
  <2>1. status' # "stopped" /\ status' = status /\ conn' = conn
    BY <1>3 DEF Quit, Running
  <2>2. op'.step = "confCreate" /\ op'.next = "exit"
    BY <1>3, OperationType DEF Quit
  <2> QED
    BY <2>1, <2>2, SoundRest DEF OpSound
<1>4. ASSUME Idle, op' = op, status' = status, status # "stopped", conn' = conn
      PROVE  OpSound'
  <2>1. op'.step = "none"
    BY <1>4 DEF Idle
  <2> QED
    BY <1>4, <2>1, SoundRest DEF OpSound
<1>5. CASE \/ \E c \in Connection : SubmitSetup(c)
           \/ \E c \in attempts : AttemptFails(c)
           \/ \E sel \in Selectors : SubmitConnect(sel)
  BY <1>4, <1>5 DEF SubmitSetup, AttemptFails, SubmitConnect, Running, InSettings
<1>6. ASSUME NEW c \in attempts, FirstConnected(c) PROVE OpSound'
  <2>1. c \in Connection /\ c.name \in Name
    BY <1>6 DEF TypeOK, Connection
  <2>2. status' = "setup" /\ status = "setup" /\ conn' = c /\ servers' = servers
    BY <1>6 DEF FirstConnected
  <2>3. Updated(c) \in ServerConfig /\ Updated(c).name = c.name
    BY <1>6, <2>1, UpdatedType DEF FirstConnected, SaveConnection, TypeOK
  <2>4. CASE Taken(c.name, c.name)
    <3>1. op' = WriteConfig("chat")
      BY <1>6, <2>4 DEF FirstConnected, SaveConnection
    <3> QED
      BY <2>1, <2>2, <3>1, OperationType, SoundRest
  <2>5. CASE ~Taken(c.name, c.name)
    <3>1. op' = Save(Updated(c), c.name, "chat")
      BY <1>6, <2>5 DEF FirstConnected, SaveConnection
    <3> QED
      BY <2>1, <2>2, <2>3, <2>5, <3>1, SoundSave
  <2> QED
    BY <2>4, <2>5
<1>7. ASSUME NEW c \in attempts, Reconnected(c) PROVE OpSound'
  <2>1. c \in Connection /\ conn' = c /\ status' = "chat"
    BY <1>7 DEF TypeOK, Reconnected, InSettings
  <2>2. op'.step = "confCreate"
    BY <1>7, OperationType DEF Reconnected
  <2> QED
    BY <2>1, <2>2, SoundRest
<1> QED
  BY <1>1, <1>2, <1>3, <1>5, <1>6, <1>7 DEF Connecting

\* The edits.
LEMMA SoundEditing ==
  ASSUME StemInv, Editing
  PROVE  OpSound'
<1> USE DEF StemInv
<1>1. CASE status = "chat" /\ op' = NoOp /\ UNCHANGED <<status, conn>>
  <2>1. conn \in Connection
    BY <1>1 DEF OpSound
  <2> QED
    BY <1>1, <2>1, OperationType, SoundRest
<1>2. ASSUME NEW server \in ServerConfig, NEW old \in Name \cup {None},
             old \in {None, server.name} \cup {s.name : s \in servers},
             ~Taken(server.name, old), Settings(Save(server, old, "stay"))
      PROVE  OpSound'
  BY <1>2, SoundSave DEF Settings, InSettings, OpSound
<1>3. ASSUME NEW s \in servers, Settings([NoOp EXCEPT !.step = "unlink", !.old = s.name])
      PROVE  OpSound'
  <2>1. s.name \in Name
    BY ServerType DEF TypeOK
  <2>2. op'.step = "unlink" /\ op'.old = s.name /\ op'.next = "stay"
    BY <1>3, <2>1, OperationType DEF Settings
  <2> QED
    BY <1>3, <2>2 DEF OpSound, Saving, Removing, Settings, InSettings
<1> QED
  BY <1>1, <1>2, <1>3, EditingStarts

\* The file operations.
LEMMA SoundHandler ==
  ASSUME StemInv, Handler
  PROVE  OpSound'
<1> USE DEF StemInv
<1>1. op \in Operation
  BY DEF TypeOK
<1>2. CASE CreateFile
  BY <1>1, <1>2, SoundGoesOn DEF CreateFile, Do, Saving
<1>3. CASE FillFile
  <2>1. PICK step \in {"remove", "commit"} :
          op' = [op EXCEPT !.step = step] /\ (step = "remove" => Renames)
    BY <1>3 DEF FillFile
  <2> QED
    BY <1>1, <1>3, <2>1, SoundGoesOn DEF FillFile, Do, Saving
<1>4. CASE RemoveFile
  BY <1>1, <1>4, SoundGoesOn DEF RemoveFile, Do, Saving
<1>5. CASE Commit
  <2>1. op' = Followed /\ status' = status /\ status # "stopped" /\ conn' = conn
    BY <1>5 DEF Commit, Do
  <2> QED
    BY <1>1, <2>1, FollowedType, SoundRest DEF OpSound
<1>6. CASE Unlink
  <2>1. /\ op'.step = "forget" /\ op'.old = op.old /\ op'.next = op.next
    BY <1>1, <1>6, StepType DEF Unlink
  <2>2. op.step = "unlink" /\ status # "stopped"
    BY <1>6 DEF Unlink, Do
  <2> QED
    BY <1>6, <2>1, <2>2 DEF OpSound, Saving, Removing, Unlink
<1>7. CASE Forget
  BY <1>7, OperationType, SoundRest DEF Forget, Do, OpSound
<1>8. CASE CreateConfig
  <2>1. op'.step = "confFill" /\ op'.next = op.next
    BY <1>1, <1>8, StepType DEF CreateConfig
  <2> QED
    BY <1>8, <2>1, SoundRest DEF CreateConfig, Do, OpSound
<1>9. CASE FillConfig \/ ConfigFails
  <2>1. Leave /\ status # "stopped"
    BY <1>9 DEF FillConfig, ConfigFails, Do
  <2>2. op' = NoOp
    BY <2>1 DEF Leave
  <2>3. status' = "chat" => conn' \in Connection
    BY <2>1 DEF Leave, OpSound
  <2> QED
    BY <2>2, <2>3, OperationType, SoundRest
<1>10. CASE ProfileFails
  <2>1. op' = Followed /\ status' = status /\ status # "stopped" /\ conn' = conn
    BY <1>10 DEF ProfileFails
  <2> QED
    BY <1>1, <2>1, FollowedType, SoundRest DEF OpSound
<1> QED
  BY <1>2, <1>3, <1>4, <1>5, <1>6, <1>7, <1>8, <1>9, <1>10 DEF Handler

(***************************************************************************)
(* The stems.                                                              *)
(***************************************************************************)
\* A file is filled with the profile it belongs to.
LEMMA NamedStep ==
  ASSUME StemInv, [Next]_vars
  PROVE  FilesNamed'
<1> USE DEF StemInv
<1>1. CASE UNCHANGED disk
  BY <1>1 DEF FilesNamed
<1>2. CASE CreateFile
  BY <1>2, FileType DEF CreateFile, FilesNamed, TypeOK
<1>3. CASE FillFile
  BY <1>3 DEF FillFile, FilesNamed, TypeOK
<1>4. CASE RemoveFile \/ Unlink
  BY <1>4, FileType DEF RemoveFile, Unlink, FilesNamed, TypeOK
<1> QED
  BY <1>1, <1>2, <1>3, <1>4, Frames

\* A start finds one profile per file, and a saved profile has a stem of its own.
LEMMA DistinctStep ==
  ASSUME StemInv, [Next]_vars
  PROVE  StemsDistinct'
<1> USE DEF StemInv
<1>1. CASE Start
  <2>1. \A s \in servers' : \E f \in File : disk[f] = s /\ F(s.name) = f
    BY <1>1 DEF Start, Profiles, FilesNamed
  <2> QED
    BY <2>1 DEF StemsDistinct, F
<1>2. CASE Commit
  <2>1. ~Taken(op.server.name, op.old) /\ status' # "stopped" /\ StemsDistinct
    BY <1>2 DEF Commit, Do, OpSound, Saving
  <2> QED
    BY <1>2, <2>1 DEF Commit, Do, StemsDistinct, Taken
<1>3. CASE Forget
  BY <1>3 DEF Forget, Do, StemsDistinct
<1>4. CASE UNCHANGED servers /\ ~Start
  <2>1. status' # "stopped" => status # "stopped"
    BY <1>4 DEF Next, vars, Die, Quit, Connecting, SubmitSetup, AttemptFails, FirstConnected,
      Reconnected, SubmitConnect, Editing, CollectIndexStats, AddServer, EditServer, AddLogin,
      DeleteLogin, EditLogin, DeleteServer, Settings, Handler, CreateFile, FillFile, RemoveFile,
      Commit, Unlink, Forget, CreateConfig, FillConfig, ProfileFails, ConfigFails, Do, Running,
      InSettings
  <2> QED
    BY <1>4, <2>1 DEF StemsDistinct
<1> QED
  BY <1>1, <1>2, <1>3, <1>4, Frames

\* The inductive invariant of the stems.
LEMMA StemCorrect == Spec => []StemInv
<1>1. Init => StemInv
  <2> SUFFICES ASSUME Init PROVE StemInv
    OBVIOUS
  <2>1. disk = [f \in File |-> Absent] /\ servers = {} /\ op = NoOp /\ status = "stopped"
    BY DEF Init
  <2>2. TypeOK
    <3>1. disk \in [File -> ServerConfig \cup {Absent, Empty}]
      BY <2>1
    <3>2. op \in Operation
      BY <2>1, OperationType
    <3> QED
      BY <3>1, <3>2 DEF Init, TypeOK
  <2>3. OpSound
    BY <2>1, OperationType DEF OpSound, Saving, Removing
  <2>4. FilesNamed
    BY <2>1, FileType DEF FilesNamed
  <2> QED
    BY <2>1, <2>2, <2>3, <2>4 DEF StemInv, StemsDistinct
<1>2. StemInv /\ [Next]_vars => StemInv'
  <2> SUFFICES ASSUME StemInv, [Next]_vars PROVE StemInv'
    OBVIOUS
  <2>1. TypeOK'
    <3>1. CASE UNCHANGED vars
      BY <3>1 DEF StemInv, TypeOK, vars
    <3>2. CASE Editing
      BY <3>2, TypeEditing
    <3> QED
      BY <3>1, <3>2, TypeConnecting, TypeHandler DEF Next, StemInv
  <2>2. OpSound'
    <3>1. CASE UNCHANGED vars
      BY <3>1 DEF StemInv, OpSound, vars, Saving, Removing, Taken, Renames
    <3> QED
      BY <3>1, SoundConnecting, SoundEditing, SoundHandler DEF Next
  <2> QED
    BY <2>1, <2>2, NamedStep, DistinctStep DEF StemInv
<1> QED
  BY <1>1, <1>2, PTL DEF Spec

\* Every variable keeps its type.
THEOREM TypeCorrect == Spec => []TypeOK
<1>1. StemInv => TypeOK
  BY DEF StemInv
<1> QED
  BY <1>1, StemCorrect, PTL

\* No two servers ever share a file stem, for any names, hosts and logins, through
\* every edit, connection, failed file operation and crash.
THEOREM StemsCorrect == Spec => []StemsDistinct
<1>1. StemInv => StemsDistinct
  BY DEF StemInv
<1> QED
  BY <1>1, StemCorrect, PTL

(***************************************************************************)
(* The files, on a file system that keeps different stems apart.           *)
(***************************************************************************)
\* Different stems denote different files: the file system respects case.
DistinctFiles == \A s, t \in DOMAIN FileOf : FileOf[s] = FileOf[t] => s = t

\* Then two saved servers that share a file are one, and a handler that saves a profile
\* shares its file with nobody but the server whose former name it replaces.
LEMMA SharedFile ==
  ASSUME StemInv, DistinctFiles, status # "stopped"
  PROVE  /\ \A s, t \in servers : F(s.name) = F(t.name) => s = t
         /\ Saving => /\ op.server \in ServerConfig
                      /\ \A s \in servers : F(s.name) = F(op.server.name) => s.name = op.old
                      /\ op.old # None /\ ~Renames => F(op.old) = F(op.server.name)
         /\ op.step = "remove" => F(op.old) # F(op.server.name)
         /\ op.step \in {"remove", "unlink", "forget"} \/ (Saving /\ Renames) =>
              /\ op.old \in Name
              /\ \A s \in servers : F(s.name) = F(op.old) => s.name = op.old
<1>1. servers \subseteq ServerConfig /\ \A s \in servers : s.name \in Name
  BY ServerType DEF StemInv, TypeOK
<1>2. \A n, m \in Name : F(n) = F(m) => StemOf[n] = StemOf[m]
  BY StemAssumption DEF DistinctFiles, F
<1>3. ASSUME NEW s \in servers, NEW t \in servers, F(s.name) = F(t.name) PROVE s = t
  BY <1>1, <1>2, <1>3 DEF StemInv, StemsDistinct
<1>4. ASSUME Saving
      PROVE  /\ op.server \in ServerConfig /\ op.server.name \in Name
             /\ \A s \in servers : F(s.name) = F(op.server.name) => s.name = op.old
  <2>1. op.server \in ServerConfig /\ ~Taken(op.server.name, op.old)
    BY <1>4 DEF StemInv, OpSound
  <2>2. op.server.name \in Name
    BY <2>1, ServerType
  <2> QED
    BY <1>1, <1>2, <2>1, <2>2 DEF Taken
<1>5. ASSUME op.old # None, ~Renames PROVE F(op.old) = F(op.server.name)
  BY <1>5 DEF Renames, F
<1>6. ASSUME op.step \in {"remove", "unlink", "forget"} \/ (Saving /\ Renames)
      PROVE  op.old \in {s.name : s \in servers}
  BY <1>6 DEF StemInv, OpSound, Saving, Removing, Renames
<1>7. ASSUME op.step = "remove" PROVE F(op.old) # F(op.server.name)
  <2>1. Saving /\ Renames
    BY <1>7 DEF StemInv, OpSound, Saving
  <2>2. op.old \in Name
    BY <1>1, <1>6, <2>1
  <2> QED
    BY <1>2, <1>4, <2>1, <2>2 DEF Renames
<1>8. ASSUME op.step \in {"remove", "unlink", "forget"} \/ (Saving /\ Renames)
      PROVE  /\ op.old \in Name
             /\ \A s \in servers : F(s.name) = F(op.old) => s.name = op.old
  BY <1>1, <1>3, <1>6, <1>8
<1> QED
  BY <1>3, <1>4, <1>5, <1>7, <1>8

\* What a handler that neither writes nor removes profiles leaves alone.
LEMMA QuietStep ==
  ASSUME StemInv, Next, ~Start, ~Die, ~CreateFile, ~FillFile, ~RemoveFile, ~Commit, ~Unlink,
         ~Forget, ~ProfileFails
  PROVE  /\ UNCHANGED <<servers, disk>>
         /\ status # "stopped" /\ (clean' => clean)
         /\ op.step \in {"none", "confCreate", "confFill"}
         /\ op'.step \in {"none", "create", "unlink", "confCreate", "confFill"}
<1> USE DEF StemInv
<1>1. CASE Quit \/ Connecting
  <2>1. /\ Idle /\ status # "stopped" /\ UNCHANGED <<servers, disk, clean>>
        /\ \/ op' = op
           \/ \E next \in {"chat", "connect", "exit"} : op' = WriteConfig(next)
           \/ \E server, old, next : op' = Save(server, old, next)
    BY <1>1 DEF Quit, Connecting, SubmitSetup, AttemptFails, FirstConnected, Reconnected,
      SubmitConnect, SaveConnection, Running, InSettings
  <2>2. op'.step \in {"none", "create", "confCreate"}
    <3>1. \A next : WriteConfig(next).step = "confCreate"
      BY DEF WriteConfig, NoOp
    <3>2. \A server, old, next : Save(server, old, next).step = "create"
      BY DEF Save
    <3> QED
      BY <2>1, <3>1, <3>2 DEF Idle
  <2> QED
    BY <2>1, <2>2 DEF Idle
<1>2. CASE Editing
  <2>1. InSettings /\ UNCHANGED <<servers, disk, clean>>
    BY <1>2 DEF Editing, CollectIndexStats, AddServer, EditServer, AddLogin, DeleteLogin,
      EditLogin, DeleteServer, Settings
  <2>2. ASSUME op' = NoOp PROVE op'.step = "none"
    BY <2>2 DEF NoOp
  <2>3. ASSUME NEW server, NEW old, op' = Save(server, old, "stay")
        PROVE  op'.step = "create"
    BY <2>3 DEF Save
  <2>4. ASSUME NEW s \in servers, op' = [NoOp EXCEPT !.step = "unlink", !.old = s.name]
        PROVE  op'.step = "unlink"
    BY <2>4 DEF NoOp
  <2>5. op'.step \in {"none", "create", "unlink"}
    BY <1>2, <2>2, <2>3, <2>4, EditingStarts DEF Settings
  <2> QED
    BY <2>1, <2>5 DEF InSettings, Idle
<1>3. CASE CreateConfig
  BY <1>3, StepType DEF CreateConfig, Do, TypeOK
<1>4. CASE FillConfig \/ ConfigFails
  <2>1. op' = NoOp
    BY <1>4 DEF FillConfig, ConfigFails, Leave
  <2>2. op'.step = "none"
    BY <2>1 DEF NoOp
  <2> QED
    BY <1>4, <2>2 DEF FillConfig, ConfigFails, Do
<1> QED
  BY <1>1, <1>2, <1>3, <1>4 DEF Next, Handler

FilesInv == Recoverable /\ FilesSound /\ NoStrays

\* A profile is filled: the old file is next, or it is thought to be gone.
LEMMA FillFacts ==
  ASSUME op \in Operation, FillFile
  PROVE  /\ op.step = "fill" /\ status # "stopped"
         /\ UNCHANGED <<status, servers, default, conf, conn>> /\ (clean' => clean)
         /\ disk' = [disk EXCEPT ![F(op.server.name)] = op.server]
         /\ \/ op'.step = (IF Renames /\ disk'[F(op.old)] # Absent THEN "remove" ELSE "commit")
            \/ op'.step = "commit" /\ ~clean'
         /\ op'.old = op.old /\ op'.server = op.server /\ op'.next = op.next
<1> DEFINE leftover == Renames /\ disk'[F(op.old)] # Absent
           step == IF leftover THEN "remove" ELSE "commit"
<1>1. /\ op.step = "fill" /\ status # "stopped"
      /\ UNCHANGED <<status, servers, default, conf, conn>>
      /\ disk' = [disk EXCEPT ![F(op.server.name)] = op.server]
      /\ \/ op' = [op EXCEPT !.step = step] /\ clean' = clean
         \/ op' = [op EXCEPT !.step = "commit"] /\ clean' = FALSE
  BY DEF FillFile, Do
<1> HIDE DEF leftover
<1>2. CASE op' = [op EXCEPT !.step = step] /\ clean' = clean
  <2>1. op'.step = step /\ op'.old = op.old /\ op'.server = op.server /\ op'.next = op.next
    BY <1>2, StepType
  <2> QED
    BY <1>1, <1>2, <2>1 DEF leftover
<1>3. CASE op' = [op EXCEPT !.step = "commit"] /\ clean' = FALSE
  <2>1. op'.step = "commit" /\ op'.old = op.old /\ op'.server = op.server /\ op'.next = op.next
    BY <1>3, StepType
  <2> QED
    BY <1>1, <1>3, <2>1
<1> QED
  BY <1>1, <1>2, <1>3

\* Every step keeps the files right.
LEMMA FilesStep ==
  ASSUME StemInv, DistinctFiles, FilesInv, [Next]_vars
  PROVE  FilesInv'
<1>1. /\ op \in Operation /\ servers \subseteq ServerConfig
      /\ disk \in [File -> ServerConfig \cup {Absent, Empty}]
  BY DEF StemInv, TypeOK
<1>2. CASE UNCHANGED vars
  BY <1>2 DEF FilesInv, Recoverable, FilesSound, NoStrays, vars, Renames
<1>3. CASE Start
  <2>1. op' = NoOp /\ op'.step = "none"
    BY <1>3, OperationType DEF Start, StemInv, OpSound
  <2>2. disk' = disk /\ servers' \subseteq Profiles(disk) /\ (clean' => servers' = Profiles(disk))
    BY <1>3 DEF Start
  <2>3. \A s \in servers' : disk'[F(s.name)] = s
    BY <2>2 DEF Profiles, StemInv, FilesNamed
  <2>4. clean' => \A f \in File : disk'[f] \in ServerConfig => disk'[f] \in servers'
    BY <2>2 DEF Profiles
  <2> QED
    BY <2>1, <2>3, <2>4 DEF FilesInv, Recoverable, FilesSound, NoStrays
<1>4. CASE Die
  BY <1>4, OperationType DEF Die, FilesInv, Recoverable, FilesSound, NoStrays
<1>5. CASE CreateFile
  <2>1. /\ op.step = "create" /\ Saving /\ status # "stopped"
        /\ UNCHANGED <<status, servers, clean>>
        /\ disk' = [disk EXCEPT ![F(op.server.name)] = Empty]
        /\ op'.step = "fill" /\ op'.old = op.old
    BY <1>1, <1>5, StepType DEF CreateFile, Do, Saving
  <2>2. /\ op.server \in ServerConfig
        /\ \A s \in servers : F(s.name) = F(op.server.name) => s.name = op.old
    BY <2>1, SharedFile
  <2>3. ASSUME NEW s \in servers
        PROVE  /\ disk'[F(s.name)] = s \/ (disk'[F(s.name)] = Empty /\ (~clean \/ op.old = s.name))
               /\ disk'[F(s.name)] \in {s, Empty}
    <3>1. F(s.name) \in File
      BY <1>1, FileType
    <3>2. disk[F(s.name)] = s \/ (disk[F(s.name)] = Empty /\ ~clean)
      BY <2>1 DEF FilesInv, Recoverable
    <3> QED
      BY <1>1, <2>1, <2>2, <3>1, <3>2
  <2>4. \A f \in File : disk'[f] \in ServerConfig => disk'[f] = disk[f]
    BY <1>1, <2>1, FileType
  <2> QED
    BY <2>1, <2>3, <2>4 DEF FilesInv, Recoverable, FilesSound, NoStrays
<1>6. CASE FillFile
  <2> DEFINE file == F(op.server.name)
  <2>1. /\ op.step = "fill" /\ Saving /\ status # "stopped"
        /\ UNCHANGED <<status, servers>> /\ (clean' => clean)
        /\ disk' = [disk EXCEPT ![file] = op.server]
        /\ \/ op'.step = (IF Renames /\ disk'[F(op.old)] # Absent THEN "remove" ELSE "commit")
           \/ op'.step = "commit" /\ ~clean'
        /\ op'.old = op.old /\ op'.server = op.server
    BY <1>1, <1>6, FillFacts DEF Saving
  <2>2. /\ op.server \in ServerConfig /\ file \in File
        /\ \A s \in servers : F(s.name) = file => s.name = op.old
    BY <2>1, SharedFile, FileType
  <2>3. disk'[file] = op.server
    BY <1>1, <2>1, <2>2
  <2>4. ASSUME NEW s \in servers
        PROVE  /\ \/ disk'[F(s.name)] = s
                  \/ s.name = op.old
                  \/ disk'[F(s.name)] = Empty /\ ~clean
               /\ F(s.name) # file => disk'[F(s.name)] \in {s, Empty}
    <3>1. F(s.name) \in File
      BY <1>1, FileType
    <3>2. /\ disk[F(s.name)] \in {s, Empty}
          /\ disk[F(s.name)] = s \/ s.name = op.old \/ (disk[F(s.name)] = Empty /\ ~clean)
      BY <2>1 DEF FilesInv, FilesSound, Recoverable
    <3> QED
      BY <1>1, <2>1, <2>2, <3>1, <3>2
  <2>5. \A f \in File : disk'[f] \in ServerConfig => disk'[f] = disk[f] \/ f = file
    BY <1>1, <2>1
  <2>6. op'.step = "remove" => \A s \in servers : disk'[F(s.name)] \in {s, Empty}
    <3> SUFFICES ASSUME op'.step = "remove", NEW s \in servers
                 PROVE  disk'[F(s.name)] \in {s, Empty}
      OBVIOUS
    <3>1. Renames
      BY <2>1
    <3>2. op.old \in Name /\ op.server.name \in Name
      BY <2>1, <2>2, <3>1, SharedFile, ServerType
    <3>3. F(op.old) # file
      BY <3>1, <3>2, StemAssumption DEF Renames, F, DistinctFiles
    <3> QED
      BY <2>2, <2>4, <3>3
  <2>7. op'.step \in {"remove", "commit"}
    BY <2>1
  <2>8. Recoverable'
    BY <2>1, <2>3, <2>4, <2>7 DEF Recoverable
  <2>9. FilesSound'
    BY <2>1, <2>3, <2>6, <2>7 DEF FilesSound
  <2>10. NoStrays'
    BY <2>1, <2>5, <2>7 DEF FilesInv, NoStrays, Renames
  <2> QED
    BY <2>8, <2>9, <2>10 DEF FilesInv
<1>7. CASE RemoveFile
  <2> DEFINE file == F(op.server.name)
  <2>1. /\ op.step = "remove" /\ Saving /\ status # "stopped"
        /\ UNCHANGED <<status, servers, clean>>
        /\ disk' = [disk EXCEPT ![F(op.old)] = Absent]
        /\ op'.step = "commit" /\ op'.old = op.old /\ op'.server = op.server
    BY <1>1, <1>7, StepType DEF RemoveFile, Do, Saving
  <2>2. /\ op.server \in ServerConfig /\ F(op.old) # file /\ op.old \in Name
        /\ \A s \in servers : F(s.name) = F(op.old) => s.name = op.old
    BY <2>1, SharedFile
  <2>3. disk[file] = op.server /\ file \in File /\ F(op.old) \in File
    BY <2>1, <2>2, FileType DEF FilesInv, FilesSound
  <2>4. disk'[file] = op.server /\ disk'[F(op.old)] = Absent
    BY <1>1, <2>1, <2>2, <2>3
  <2>5. ASSUME NEW s \in servers
        PROVE  \/ disk'[F(s.name)] = s
               \/ s.name = op.old
               \/ disk'[F(s.name)] = Empty /\ ~clean
    <3>1. F(s.name) \in File
      BY <1>1, FileType
    <3>2. disk[F(s.name)] = s \/ s.name = op.old \/ (disk[F(s.name)] = Empty /\ ~clean)
      BY <2>1 DEF FilesInv, Recoverable
    <3> QED
      BY <1>1, <2>1, <2>2, <3>1, <3>2
  <2>6. \A f \in File : disk'[f] \in ServerConfig => disk'[f] = disk[f]
    BY <1>1, <2>1, FileType
  <2>7. Recoverable' /\ FilesSound'
    BY <2>1, <2>4, <2>5 DEF Recoverable, FilesSound
  <2>8. NoStrays'
    BY <2>1, <2>4, <2>6 DEF FilesInv, NoStrays, Renames
  <2> QED
    BY <2>7, <2>8 DEF FilesInv
<1>8. CASE Commit
  <2> DEFINE file == F(op.server.name)
  <2>1. /\ op.step = "commit" /\ Saving /\ status # "stopped" /\ UNCHANGED <<status, disk, clean>>
        /\ servers' = {s \in servers : s.name \notin {op.old, op.server.name}} \cup {op.server}
        /\ op'.step \in {"none", "confCreate"}
    BY <1>1, <1>8, FollowedType DEF Commit, Do, Saving
  <2>2. /\ op.server \in ServerConfig /\ disk[file] = op.server
        /\ op.old # None /\ ~Renames => F(op.old) = file
    BY <2>1, SharedFile DEF FilesInv, FilesSound
  <2>3. ASSUME NEW s \in servers'
        PROVE  disk[F(s.name)] = s \/ (disk[F(s.name)] = Empty /\ ~clean)
    BY <2>1, <2>2 DEF FilesInv, Recoverable
  <2>4. ASSUME clean, NEW f \in File, disk[f] \in ServerConfig PROVE disk[f] \in servers'
    <3>1. disk[f] \in servers \/ f = file
      BY <2>1, <2>4 DEF FilesInv, NoStrays
    <3>2. CASE f = file
      BY <2>1, <2>2, <3>2
    <3>3. CASE f # file
      <4>1. F(disk[f].name) = f
        BY <2>4 DEF StemInv, FilesNamed
      <4>2. Renames => disk[F(op.old)] = Absent
        BY <2>1, <2>4 DEF FilesInv, NoStrays
      <4>3. disk[f].name # op.server.name
        BY <3>3, <4>1
      <4>4. disk[f].name # op.old
        BY <2>2, <2>4, <3>3, <4>1, <4>2, FileType
      <4> QED
        BY <2>1, <3>1, <3>3, <4>3, <4>4
    <3> QED
      BY <3>2, <3>3
  <2> QED
    BY <2>1, <2>3, <2>4 DEF FilesInv, Recoverable, FilesSound, NoStrays
<1>9. CASE Unlink
  <2>1. /\ op.step = "unlink" /\ status # "stopped" /\ UNCHANGED <<status, servers, clean>>
        /\ disk' = [disk EXCEPT ![F(op.old)] = Absent]
        /\ op'.step = "forget" /\ op'.old = op.old
    BY <1>1, <1>9, StepType DEF Unlink, Do
  <2>2. op.old \in Name /\ \A s \in servers : F(s.name) = F(op.old) => s.name = op.old
    BY <2>1, SharedFile
  <2>3. F(op.old) \in File /\ disk'[F(op.old)] = Absent
    BY <1>1, <2>1, <2>2, FileType
  <2>4. ASSUME NEW s \in servers
        PROVE  \/ disk'[F(s.name)] = s
               \/ s.name = op.old
               \/ disk'[F(s.name)] = Empty /\ ~clean
    <3>1. F(s.name) \in File
      BY <1>1, FileType
    <3>2. disk[F(s.name)] = s \/ (disk[F(s.name)] = Empty /\ ~clean)
      BY <2>1 DEF FilesInv, Recoverable
    <3> QED
      BY <1>1, <2>1, <2>2, <3>1, <3>2
  <2>5. \A f \in File : disk'[f] \in ServerConfig => disk'[f] = disk[f]
    BY <1>1, <2>1, FileType
  <2> QED
    BY <2>1, <2>3, <2>4, <2>5 DEF FilesInv, Recoverable, FilesSound, NoStrays
<1>10. CASE Forget
  <2>1. /\ op.step = "forget" /\ status # "stopped" /\ UNCHANGED <<status, disk, clean>>
        /\ servers' = {s \in servers : s.name # op.old} /\ op'.step = "none"
    BY <1>10, OperationType DEF Forget, Do
  <2>2. \A s \in servers' : disk[F(s.name)] = s \/ (disk[F(s.name)] = Empty /\ ~clean)
    BY <2>1 DEF FilesInv, Recoverable
  <2>3. ASSUME clean, NEW f \in File, disk[f] \in ServerConfig PROVE disk[f] \in servers'
    <3>1. disk[f] \in servers /\ disk[F(op.old)] = Absent
      BY <2>1, <2>3 DEF FilesInv, NoStrays
    <3>2. F(disk[f].name) = f
      BY <2>3 DEF StemInv, FilesNamed
    <3>3. disk[f].name # op.old
      BY <2>3, <3>1, <3>2, FileType
    <3> QED
      BY <2>1, <3>1, <3>3
  <2> QED
    BY <2>1, <2>2, <2>3 DEF FilesInv, Recoverable, FilesSound, NoStrays
<1>11. CASE ProfileFails
  <2>1. /\ op.step \in {"create", "fill", "remove", "unlink"} /\ status # "stopped"
        /\ clean' = FALSE /\ UNCHANGED <<status, servers, disk>>
        /\ op'.step \in {"none", "confCreate"}
    BY <1>1, <1>11, FollowedType DEF ProfileFails
  <2>2. \A s \in servers : disk[F(s.name)] \in {s, Empty}
    BY <2>1 DEF FilesInv, FilesSound
  <2> QED
    BY <2>1, <2>2 DEF FilesInv, Recoverable, FilesSound, NoStrays
<1>12. CASE /\ Next /\ ~Start /\ ~Die /\ ~CreateFile /\ ~FillFile /\ ~RemoveFile /\ ~Commit
            /\ ~Unlink /\ ~Forget /\ ~ProfileFails
  <2>1. /\ UNCHANGED <<servers, disk>>
        /\ status # "stopped" /\ (clean' => clean)
        /\ op.step \in {"none", "confCreate", "confFill"}
        /\ op'.step \in {"none", "create", "unlink", "confCreate", "confFill"}
    BY <1>12, QuietStep
  <2>2. \A s \in servers : disk[F(s.name)] = s \/ (disk[F(s.name)] = Empty /\ ~clean)
    BY <2>1 DEF FilesInv, Recoverable
  <2>3. clean => \A f \in File : disk[f] \in ServerConfig => disk[f] \in servers
    BY <2>1 DEF FilesInv, NoStrays
  <2> QED
    BY <2>1, <2>2, <2>3 DEF FilesInv, Recoverable, FilesSound, NoStrays
<1> QED
  BY <1>2, <1>3, <1>4, <1>5, <1>6, <1>7, <1>8, <1>9, <1>10, <1>11, <1>12

\* The inductive invariant of the files.
LEMMA FilesCorrect ==
  ASSUME DistinctFiles
  PROVE  Spec => [](StemInv /\ FilesInv)
<1>1. Init => FilesInv
  BY OperationType DEF Init, FilesInv, Recoverable, FilesSound, NoStrays
<1>2. StemInv /\ FilesInv /\ [Next]_vars => FilesInv'
  BY FilesStep
<1> QED
  BY <1>1, <1>2, StemCorrect, PTL DEF Spec

\* At every moment each profile in memory is complete in some file, or is the one
\* that is being rewritten in place, through all edits, failures and crashes.
THEOREM RecoverableCorrect ==
  ASSUME DistinctFiles
  PROVE  Spec => []Recoverable
<1>1. FilesInv => Recoverable
  BY DEF FilesInv
<1> QED
  BY <1>1, FilesCorrect, PTL

\* Between handlers, and while nothing has failed, a restart reads what memory holds.
THEOREM InSyncCorrect ==
  ASSUME DistinctFiles
  PROVE  Spec => []InSync
<1>1. StemInv /\ FilesInv => InSync
  <2> SUFFICES ASSUME StemInv, FilesInv, Running, clean PROVE servers = Profiles(disk)
    BY DEF InSync
  <2>1. status # "stopped" /\ op.step = "none" /\ servers \subseteq ServerConfig
    BY DEF Running, Idle, StemInv, TypeOK
  <2>2. \A s \in servers : disk[F(s.name)] = s /\ F(s.name) \in File
    BY <2>1, FileType DEF FilesInv, Recoverable
  <2>3. \A f \in File : disk[f] \in ServerConfig => disk[f] \in servers
    BY <2>1 DEF FilesInv, NoStrays
  <2> QED
    BY <2>1, <2>2, <2>3 DEF Profiles
<1> QED
  BY <1>1, FilesCorrect, PTL

\* No operation on one server touches the complete file of another.
THEOREM OthersCorrect ==
  ASSUME DistinctFiles
  PROVE  Spec => OthersUntouched
<1> DEFINE A == \A s \in servers : disk[F(s.name)] = s /\ s.name # op.old => disk'[F(s.name)] = s
<1>1. StemInv /\ [Next]_vars => A
  <2> SUFFICES ASSUME StemInv, [Next]_vars, NEW s \in servers, disk[F(s.name)] = s, s.name # op.old
               PROVE  disk'[F(s.name)] = s
    OBVIOUS
  <2>1. /\ F(s.name) \in File /\ disk \in [File -> ServerConfig \cup {Absent, Empty}]
    BY FileType DEF StemInv, TypeOK
  <2>2. CASE CreateFile \/ FillFile
    <3>1. Saving /\ status # "stopped"
      BY <2>2 DEF CreateFile, FillFile, Do, Saving
    <3>2. F(s.name) # F(op.server.name)
      BY <3>1, SharedFile
    <3> QED
      BY <2>1, <2>2, <3>2 DEF CreateFile, FillFile
  <2>3. CASE RemoveFile \/ Unlink
    <3>1. op.step \in {"remove", "unlink"} /\ status # "stopped"
      BY <2>3 DEF RemoveFile, Unlink, Do
    <3>2. F(s.name) # F(op.old)
      BY <3>1, SharedFile
    <3> QED
      BY <2>1, <2>3, <3>2 DEF RemoveFile, Unlink
  <2> QED
    BY <2>2, <2>3, Frames
<1>2. StemInv /\ [Next]_vars => [A]_vars
  BY <1>1
<1> QED
  BY <1>2, StemCorrect, PTL DEF Spec, OthersUntouched

(***************************************************************************)
(* The default connection.                                                 *)
(***************************************************************************)
\* A handler of the chat screen that leaves connection and default alone, and ends
\* or goes on without touching config.toml, keeps the default as it is.
LEMMA FollowsStill ==
  ASSUME DefaultFollows, status # "stopped", op.step \notin {"confCreate", "confFill"},
         UNCHANGED <<status, default, conf, conn>>, clean' => clean,
         \/ op'.step \notin {"confCreate", "confFill"} /\ op'.next \in {"stay", op.next}
         \/ op'.next = "exit"
         \/ op'.next = "chat" /\ op.next = "chat"
  PROVE  DefaultFollows'
BY DEF DefaultFollows

\* Every step keeps the default that of the connection in use.
LEMMA FollowsStep ==
  ASSUME StemInv, DefaultFollows, [Next]_vars
  PROVE  DefaultFollows'
<1> USE DEF StemInv
<1>1. op \in Operation /\ NoOp.step = "none" /\ NoOp.next = "stay"
  BY DEF TypeOK, NoOp
<1>2. CASE UNCHANGED vars
  BY <1>2 DEF DefaultFollows, vars
<1>3. CASE Start
  <2>1. op' = NoOp /\ status' = "setup"
    BY <1>3 DEF Start, OpSound
  <2> QED
    BY <1>1, <2>1 DEF DefaultFollows
<1>4. CASE Die
  BY <1>1, <1>4 DEF Die, DefaultFollows
<1>5. CASE Quit
  <2>1. op'.next = "exit"
    BY <1>5 DEF Quit, WriteConfig, NoOp
  <2> QED
    BY <1>5, <2>1, FollowsStill DEF Quit, Running, Idle
<1>6. ASSUME NEW c \in Connection, SubmitSetup(c) PROVE DefaultFollows'
  BY <1>6, FollowsStill DEF SubmitSetup, Idle
<1>7. ASSUME NEW c \in attempts, AttemptFails(c) PROVE DefaultFollows'
  BY <1>7, FollowsStill DEF AttemptFails, Running, Idle
<1>8. ASSUME NEW sel \in Selectors, SubmitConnect(sel) PROVE DefaultFollows'
  BY <1>8, FollowsStill DEF SubmitConnect, InSettings, Idle
<1>9. ASSUME NEW c \in attempts, FirstConnected(c) PROVE DefaultFollows'
  BY <1>9 DEF FirstConnected, DefaultFollows
<1>10. ASSUME NEW c \in attempts, Reconnected(c) PROVE DefaultFollows'
  <2>1. op'.step = "confCreate" /\ op'.next = "connect"
    BY <1>10 DEF Reconnected, WriteConfig, NoOp
  <2> QED
    BY <1>10, <2>1 DEF Reconnected, InSettings, DefaultFollows
<1>11. CASE Editing
  <2>1. InSettings /\ UNCHANGED <<status, default, conf, conn, clean>>
    BY <1>11 DEF Editing, CollectIndexStats, AddServer, EditServer, AddLogin, DeleteLogin,
      EditLogin, DeleteServer, Settings
  <2>2. ASSUME op' = NoOp PROVE op'.step = "none" /\ op'.next = "stay"
    BY <1>1, <2>2
  <2>3. ASSUME NEW server, NEW old, op' = Save(server, old, "stay")
        PROVE  op'.step = "create" /\ op'.next = "stay"
    BY <2>3 DEF Save
  <2>4. ASSUME NEW s \in servers, op' = [NoOp EXCEPT !.step = "unlink", !.old = s.name]
        PROVE  op'.step = "unlink" /\ op'.next = "stay"
    BY <2>4 DEF NoOp
  <2>5. op'.step \notin {"confCreate", "confFill"} /\ op'.next = "stay"
    BY <1>11, <2>2, <2>3, <2>4, EditingStarts DEF Settings
  <2> QED
    BY <2>1, <2>5, FollowsStill DEF InSettings, Idle
<1>12. CASE CreateFile \/ FillFile \/ RemoveFile \/ Unlink
  <2>1. /\ op.step \in {"create", "fill", "remove", "unlink"} /\ status # "stopped"
        /\ UNCHANGED <<status, default, conf, conn>> /\ (clean' => clean)
        /\ op'.step \in {"fill", "remove", "commit", "forget"} /\ op'.next = op.next
    <3>1. CASE FillFile
      BY <1>1, <3>1, FillFacts
    <3>2. CASE CreateFile
      BY <1>1, <3>2, StepType DEF CreateFile, Do
    <3>3. CASE RemoveFile
      BY <1>1, <3>3, StepType DEF RemoveFile, Do
    <3>4. CASE Unlink
      BY <1>1, <3>4, StepType DEF Unlink, Do
    <3> QED
      BY <1>12, <3>1, <3>2, <3>3, <3>4
  <2> QED
    BY <2>1, FollowsStill
<1>13. CASE Commit \/ ProfileFails
  <2>1. /\ op.step \in {"create", "fill", "remove", "commit", "unlink"} /\ status # "stopped"
        /\ UNCHANGED <<status, default, conf, conn>> /\ (clean' => clean)
        /\ op' = Followed
    BY <1>13 DEF Commit, ProfileFails, Do
  <2>2. \/ op'.step = "none" /\ op'.next = "stay"
        \/ op'.next = "chat" /\ op.next = "chat"
    BY <1>1, <2>1, FollowedType
  <2> QED
    BY <2>1, <2>2, FollowsStill
<1>14. CASE Forget
  BY <1>1, <1>14, FollowsStill DEF Forget, Do
<1>15. CASE CreateConfig
  <2>1. op'.step = "confFill" /\ op'.next = op.next
    BY <1>1, <1>15, StepType DEF CreateConfig
  <2> QED
    BY <1>15, <2>1 DEF CreateConfig, Do, DefaultFollows
<1>16. CASE FillConfig \/ ConfigFails
  <2>1. /\ status # "stopped" /\ (op.step = "confFill" \/ ~clean')
        /\ UNCHANGED default /\ op' = NoOp
        /\ status' = "chat" => op.next = "chat" \/ (status = "chat" /\ op.next # "exit")
        /\ op.next = "exit" => status' = "stopped"
        /\ op.next # "exit" => UNCHANGED conn
        /\ conf' = default \/ ~clean'
    BY <1>16 DEF FillConfig, ConfigFails, Do, Leave
  <2> QED
    BY <1>1, <2>1 DEF DefaultFollows
<1> QED
  BY <1>2, <1>3, <1>4, <1>5, <1>6, <1>7, <1>8, <1>9, <1>10, <1>11, <1>12, <1>13, <1>14, <1>15, <1>16
     DEF Next, Connecting, Handler

\* Between handlers, and while nothing has failed, config.toml names the connection in
\* use, in whatever order the answers of /connect arrive.
THEOREM DefaultCorrect == Spec => []DefaultIsCurrent
<1>1. Init => DefaultFollows
  BY DEF Init, DefaultFollows, NoOp
<1>2. StemInv /\ DefaultFollows /\ [Next]_vars => DefaultFollows'
  BY FollowsStep
<1>3. DefaultFollows => DefaultIsCurrent
  BY DEF DefaultFollows, DefaultIsCurrent, Idle
<1> QED
  BY <1>1, <1>2, <1>3, StemCorrect, PTL DEF Spec

(***************************************************************************)
(* What is true of the two statements that fail.                           *)
(***************************************************************************)
\* Where different stems are different files, every profile is in its own
\* (README.md): two stems that share a file are the only way to lose one.
THEOREM OnDiskCorrect ==
  ASSUME DistinctFiles
  PROVE  Spec => []ProfilesOnDisk
<1>1. InSync => ProfilesOnDisk
  BY DEF InSync, ProfilesOnDisk
<1> QED
  BY <1>1, InSyncCorrect, PTL

\* No server has two logins of one user.
UsersDistinct ==
  \A s \in servers : \A i, j \in DOMAIN s.logins :
    s.logins[i].login = s.logins[j].login => i = j

\* Then login@server names one saved connection, and a restart comes back to the
\* one in use: two databases of one user are the only way to get another
\* (App::new, app.rs; Config::connections, config.rs).
THEOREM RestartCorrect ==
  ASSUME DistinctFiles
  PROVE  Spec => [](UsersDistinct => RestartReconnects)
<1>1. ASSUME StemInv, InSync, DefaultIsCurrent, UsersDistinct, status = "chat", Idle, clean,
             NEW s \in servers, NEW i \in DOMAIN s.logins, conn = flatten(s, i)
      PROVE  Selected(Profiles(disk), conf) = {conn}
  <2> DEFINE match == Matching(servers, selector(conn))
  <2>1. Profiles(disk) = servers /\ conf = selector(conn)
    BY <1>1 DEF InSync, DefaultIsCurrent, Running
  <2>2. s \in ServerConfig /\ i \in Nat /\ s.name \in Nat
    <3>1. s \in ServerConfig
      BY <1>1 DEF StemInv, TypeOK
    <3>2. s.name \in Name /\ s.logins \in Seq(LoginConfig)
      BY <3>1, ServerType
    <3>3. i \in Nat
      BY <3>2
    <3>4. s.name \in Nat
      BY <3>2, NameAssumption
    <3> QED
      BY <3>1, <3>3, <3>4
  <2>3. <<s, i>> \in match
    BY <1>1 DEF Matching, Connections
  <2>4. ASSUME NEW p \in match PROVE p = <<s, i>>
    <3>1. PICK t \in servers : \E j \in DOMAIN t.logins : p = <<t, j>>
      BY DEF Matching, Connections
    <3>2. PICK j \in DOMAIN t.logins : p = <<t, j>>
      BY <3>1
    <3>3. selector(flatten(t, j)) = selector(flatten(s, i))
      BY <1>1, <3>2 DEF Matching
    <3>4. t.name = s.name /\ t.logins[j].login = s.logins[i].login
      BY <3>3 DEF selector, flatten
    <3>5. t = s
      BY <1>1, <3>4 DEF StemInv, StemsDistinct
    <3> QED
      BY <1>1, <3>2, <3>4, <3>5 DEF UsersDistinct
  <2>5. match = {<<s, i>>}
    BY <2>3, <2>4
  <2>6. First(match) = <<s, i>>
    <3> HIDE DEF match
    <3>1. match # {} /\ \A p \in match : p[1].name \in Nat /\ p[2] \in Nat
      BY <2>2, <2>5
    <3>2. First(match) \in match
      BY <3>1, FirstIsOne
    <3> QED
      BY <2>4, <3>2
  <2> QED
    BY <1>1, <2>1, <2>5, <2>6 DEF Selected
<1>2. StemInv /\ InSync /\ DefaultIsCurrent => (UsersDistinct => RestartReconnects)
  <2> SUFFICES ASSUME StemInv, InSync, DefaultIsCurrent, UsersDistinct,
                      status = "chat", Idle, clean,
                      conn \in {flatten(p[1], p[2]) : p \in Connections(servers)}
               PROVE  Selected(Profiles(disk), conf) = {conn}
    BY DEF RestartReconnects
  <2>1. PICK s \in servers : \E i \in DOMAIN s.logins : conn = flatten(s, i)
    BY DEF Connections
  <2>2. PICK i \in DOMAIN s.logins : conn = flatten(s, i)
    BY <2>1
  <2> QED
    BY <1>1, <2>2
<1> QED
  BY <1>2, StemCorrect, InSyncCorrect, DefaultCorrect, PTL

=============================================================================
