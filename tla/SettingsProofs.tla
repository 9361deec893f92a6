--------------------------- MODULE SettingsProofs ---------------------------
(***************************************************************************)
(* Theorems about Settings and Window, for any servers, logins, providers, *)
(* models and listings, and menus and terminals of any size.               *)
(*                                                                         *)
(* The inductive invariant says how the levels of the path follow one      *)
(* another (Follows) and that each is about something that exists (Sound); *)
(* lemmas say that pushing, changing and leaving a level keep that.        *)
(***************************************************************************)
EXTENDS Settings, SequenceTheorems, FunctionTheorems, FiniteSetTheorems, WellFoundedInduction,
        TLAPS

(***************************************************************************)
(* The invariant.                                                          *)
(***************************************************************************)
\* Which level the user may have entered from which.
Follows(a, b) ==
  /\ b.node # "Root"
  /\ b.node \in {"Connections", "App", "Provider"} => a.node = "Root"
  /\ b.node = "ServerLogins" => a.node = "Connections"
  /\ b.node = "ServerForm" => a.node = "Connections" \/ (a.node = "ServerLogins" /\ b.of = a.of)
  /\ b.node = "LoginForm" => a.node = "ServerLogins" /\ b.of = a.of
  /\ b.node = "Models" => a.node = "Provider" /\ b.of = a.of

\* What a level is about exists, and a login form is over the login it was opened for.
Sound(level, known) ==
  /\ level.node \in {"ServerLogins", "LoginForm"} => level.of \in DOMAIN known
  /\ level.node = "ServerForm" => level.of \in DOMAIN known \cup {None}
  /\ level.node = "LoginForm" =>
       /\ level.index =< Len(known[level.of])
       /\ level.index # 0 => known[level.of][level.index] = level.opened
  /\ level.selected =< Rows(level, known) \/ level.selected = 1

Known(known) ==
  /\ IsFiniteSet(DOMAIN known) /\ DOMAIN known \subseteq Name
  /\ known \in [DOMAIN known -> Seq(Login)]
  /\ \A n \in DOMAIN known : Len(known[n]) =< MaxLogins

Shape(levels) ==
  /\ levels # <<>> /\ levels \in Seq(Levels)
  /\ levels[1].node = "Root"
  /\ \A i \in 2 .. Len(levels) : Follows(levels[i - 1], levels[i])
  /\ \A i \in 1 .. Len(levels) : levels[i].form \in FormsOf(levels[i].node)

AllSound(levels, known) == \A i \in 1 .. Len(levels) : Sound(levels[i], known)

\* The question is about an entry of the menu that is shown.
ConfirmSound ==
  confirm # None =>
    /\ confirm.of \in Server
    /\ IF confirm.index = 0 THEN Top.node = "Connections"
       ELSE /\ Top.node = "ServerLogins" /\ Top.of = confirm.of
            /\ confirm.index =< Len(servers[confirm.of])
            /\ confirm.label = servers[confirm.of][confirm.index]

Others == /\ custom \in BOOLEAN /\ error \in BOOLEAN
          /\ asked \in [Provider -> 0..MaxAsked]
          /\ refused = None \/ refused \in Form
          /\ confirm = None \/ confirm \in Question

SettingsInv ==
  /\ Known(servers) /\ Others
  /\ Shape(path) /\ AllSound(path, servers)
  /\ ConfirmSound /\ DiscardsRefused

\* It contains what the runs check of the state.
LEMMA InvSuffices == SettingsInv => TypeOK /\ PathExists
<1> SUFFICES ASSUME SettingsInv PROVE TypeOK /\ PathExists
  OBVIOUS
<1>1. DOMAIN path = 1 .. Len(path) /\ Len(path) \in Nat
  BY LenProperties DEF SettingsInv, Shape
<1>2. TypeOK
  BY <1>1 DEF SettingsInv, Known, Others, Shape, TypeOK, Server
<1>3. ASSUME NEW i \in DOMAIN path, path[i].node = "Models"
      PROVE  path[i - 1].node = "Provider" /\ path[i - 1].of = path[i].of
  <2>1. i \in 2 .. Len(path)
    BY <1>1, <1>3 DEF SettingsInv, Shape
  <2> QED
    BY <2>1, <1>3 DEF SettingsInv, Shape, Follows
<1>4. PathExists
  BY <1>1, <1>3 DEF SettingsInv, AllSound, Sound, PathExists, Server
<1> QED
  BY <1>2, <1>4

(***************************************************************************)
(* Numbering the rows of a sorted menu.                                    *)
(***************************************************************************)
\* The row of a name in the menu of servers is a number of a row.
LEMMA RowType ==
  ASSUME NEW S \in SUBSET Nat, IsFiniteSet(S), NEW n \in S
  PROVE  Row(S, n) \in 1 .. Cardinality(S)
<1> DEFINE upto == {m \in S : m =< n}
<1>1. upto \in SUBSET S /\ n \in upto
  OBVIOUS
<1>2. /\ IsFiniteSet(upto) /\ Cardinality(upto) =< Cardinality(S)
      /\ Cardinality(upto) \in Nat /\ Cardinality(S) \in Nat
  BY <1>1, FS_Subset, FS_CardinalityType
<1>3. Cardinality(upto) # 0
  BY <1>1, <1>2, FS_EmptySet
<1> QED
  BY <1>2, <1>3 DEF Row

\* Every row shows a server: the one that `selected' denotes exists.
LEMMA RowShows ==
  ASSUME NEW S \in SUBSET Nat, IsFiniteSet(S), NEW k \in 1 .. Cardinality(S)
  PROVE  \E n \in S : Row(S, n) = k
<1> DEFINE T == 1 .. Cardinality(S)
           f == [n \in S |-> Row(S, n)]
<1>1. Cardinality(S) \in Nat
  BY FS_CardinalityType
<1>2. f \in [S -> T]
  BY RowType
<1>3. ASSUME NEW a \in S, NEW b \in S, a < b PROVE f[a] # f[b]
  <2> DEFINE A == {m \in S : m =< a}
             B == {m \in S : m =< b}
  <2>1. A \in SUBSET B /\ B \in SUBSET S /\ b \in B /\ b \notin A
    <3>1. \A m \in S : m \in Nat
      OBVIOUS
    <3>2. a \in Nat /\ b \in Nat /\ a < b
      BY <1>3, <3>1
    <3>3. \A m \in S : m =< a => m =< b
      BY <3>1, <3>2
    <3>4. A \in SUBSET B
      BY <3>3
    <3>5. b \in B /\ b \notin A
      BY <3>2
    <3> QED
      BY <3>4, <3>5
  <2>2. IsFiniteSet(B)
    BY <2>1, FS_Subset
  <2>3. Cardinality(B) # Cardinality(A)
    BY <2>1, <2>2, FS_Subset
  <2> QED
    BY <2>3 DEF Row
<1>4. f \in Injection(S, T)
  <2>1. \A a, b \in S : f[a] = f[b] => a = b
    BY <1>3
  <2> QED
    BY <1>2, <2>1, Fun_IsInj
<1>5. IsFiniteSet(T) /\ Cardinality(T) = Cardinality(S)
  BY <1>1, FS_Interval
<1>6. f \in Surjection(S, T)
  BY <1>4, <1>5, FS_Injection
<1>7. \E n \in S : f[n] = k
  BY <1>6 DEF Surjection
<1> QED
  BY <1>7

(***************************************************************************)
(* Paths.                                                                  *)
(***************************************************************************)
\* Only the root, the list of servers and, right below the top, the logins of a
\* server or a provider have a level above them.
LEMMA Inner ==
  ASSUME NEW levels, Shape(levels)
  PROVE  /\ \A i \in 1 .. Len(levels) - 1 :
              levels[i].node \in {"Root", "Connections", "ServerLogins", "Provider"}
         /\ \A i \in 1 .. Len(levels) - 2 : levels[i].node \in {"Root", "Connections"}
<1>1. Len(levels) \in Nat \ {0} /\ \A i \in 1 .. Len(levels) : levels[i].node \in Node
  <2>1. Len(levels) \in Nat \ {0}
    BY EmptySeq DEF Shape
  <2>2. \A i \in 1 .. Len(levels) : levels[i] \in Levels
    BY ElementOfSeq DEF Shape
  <2> QED
    BY <2>1, <2>2 DEF Levels
<1>2. \A i \in 1 .. Len(levels) - 1 :
        Follows(levels[i], levels[i + 1]) /\ levels[i + 1].node \in Node
  <2>1. \A i \in 1 .. Len(levels) - 1 : i + 1 \in 2 .. Len(levels) /\ (i + 1) - 1 = i
    BY <1>1
  <2> QED
    BY <1>1, <2>1 DEF Shape
<1>3. \A i \in 1 .. Len(levels) - 1 :
        levels[i].node \in {"Root", "Connections", "ServerLogins", "Provider"}
  BY <1>2 DEF Follows, Node
<1>4. ASSUME NEW i \in 1 .. Len(levels) - 2 PROVE levels[i].node \in {"Root", "Connections"}
  <2>1. i \in 1 .. Len(levels) - 1 /\ i + 1 \in 1 .. Len(levels) - 1
    BY <1>1
  <2> QED
    BY <1>2, <1>3, <2>1 DEF Follows
<1> QED
  BY <1>3, <1>4

\* A level is entered (Push).
LEMMA Pushed ==
  ASSUME NEW levels, Shape(levels), NEW known, AllSound(levels, known),
         NEW level \in Levels, Follows(levels[Len(levels)], level),
         level.form \in FormsOf(level.node), Sound(level, known)
  PROVE  /\ Shape(Append(levels, level)) /\ AllSound(Append(levels, level), known)
         /\ Append(levels, level)[Len(Append(levels, level))] = level
<1> DEFINE more == Append(levels, level)
<1>1. /\ more \in Seq(Levels) /\ more # <<>> /\ Len(more) = Len(levels) + 1
      /\ \A i \in 1 .. Len(levels) : more[i] = levels[i]
      /\ more[Len(levels) + 1] = level
  BY AppendProperties DEF Shape
<1>2. Len(levels) \in Nat \ {0}
  BY EmptySeq DEF Shape
<1>3. \A i \in 2 .. Len(more) : Follows(more[i - 1], more[i])
  <2> TAKE i \in 2 .. Len(more)
  <2>1. CASE i = Len(levels) + 1
    BY <1>1, <1>2, <2>1
  <2>2. CASE i \in 2 .. Len(levels)
    BY <1>1, <1>2, <2>2 DEF Shape
  <2> QED
    BY <1>1, <1>2, <2>1, <2>2
<1>4. \A i \in 1 .. Len(more) : more[i].form \in FormsOf(more[i].node) /\ Sound(more[i], known)
  <2> TAKE i \in 1 .. Len(more)
  <2>1. CASE i = Len(levels) + 1
    BY <1>1, <2>1
  <2>2. CASE i \in 1 .. Len(levels)
    BY <1>1, <2>2 DEF Shape, AllSound
  <2> QED
    BY <1>1, <1>2, <2>1, <2>2
<1>5. more[1].node = "Root"
  BY <1>1, <1>2 DEF Shape
<1> QED
  BY <1>1, <1>3, <1>4, <1>5 DEF Shape, AllSound

\* The level shown changes, but not what it is about (Change).
LEMMA Changed ==
  ASSUME NEW levels, Shape(levels),
         NEW known, \A i \in 1 .. Len(levels) - 1 : Sound(levels[i], known),
         NEW level \in Levels, level.node = levels[Len(levels)].node,
         level.of = levels[Len(levels)].of,
         level.form \in FormsOf(level.node), Sound(level, known)
  PROVE  LET other == [levels EXCEPT ![Len(levels)] = level] IN
         /\ Shape(other) /\ AllSound(other, known)
         /\ Len(other) = Len(levels) /\ other[Len(other)] = level
<1> DEFINE other == [levels EXCEPT ![Len(levels)] = level]
<1>1. Len(levels) \in Nat \ {0} /\ Len(levels) \in 1 .. Len(levels)
  BY EmptySeq DEF Shape
<1>2. /\ other \in Seq(Levels) /\ Len(other) = Len(levels)
      /\ \A i \in 1 .. Len(levels) : other[i] = IF i = Len(levels) THEN level ELSE levels[i]
  BY <1>1, ExceptSeq DEF Shape
<1>3. other # <<>>
  BY <1>1, <1>2, EmptySeq
<1>4. \A i \in 1 .. Len(levels) : other[i].node = levels[i].node /\ other[i].of = levels[i].of
  BY <1>2
<1>5. \A i \in 2 .. Len(other) : Follows(other[i - 1], other[i])
  <2> TAKE i \in 2 .. Len(other)
  <2>1. i \in 1 .. Len(levels) /\ i - 1 \in 1 .. Len(levels) /\ i \in 2 .. Len(levels)
    BY <1>1, <1>2
  <2>2. Follows(levels[i - 1], levels[i])
    BY <2>1 DEF Shape
  <2> QED
    BY <1>4, <2>1, <2>2 DEF Follows
<1>6. \A i \in 1 .. Len(other) :
        other[i].form \in FormsOf(other[i].node) /\ Sound(other[i], known)
  <2>1. \A i \in 1 .. Len(levels) : i = Len(levels) \/ i \in 1 .. Len(levels) - 1
    BY <1>1
  <2> QED
    BY <1>2, <2>1 DEF Shape
<1>7. other[1].node = "Root"
  BY <1>1, <1>4 DEF Shape
<1> QED
  BY <1>1, <1>2, <1>3, <1>5, <1>6, <1>7 DEF Shape, AllSound

\* The level shown is left (Below).
LEMMA LeftBehind ==
  ASSUME NEW levels, Shape(levels), Len(levels) > 1
  PROVE  LET rest == SubSeq(levels, 1, Len(levels) - 1) IN
         /\ Shape(rest) /\ Len(rest) = Len(levels) - 1
         /\ \A i \in 1 .. Len(levels) - 1 : rest[i] = levels[i]
         /\ \A known : AllSound(levels, known) => AllSound(rest, known)
<1> DEFINE rest == SubSeq(levels, 1, Len(levels) - 1)
<1>1. Len(levels) \in Nat
  BY LenProperties DEF Shape
<1>2. \A i \in 1 .. Len(levels) - 1 : levels[i] \in Levels
  BY <1>1, ElementOfSeq DEF Shape
<1>3. /\ rest \in Seq(Levels) /\ Len(rest) = Len(levels) - 1
      /\ \A i \in 1 .. Len(levels) - 1 : rest[i] = levels[i]
  <2>1. Len(levels) - 1 \in Int /\ 1 \in Int
    BY <1>1
  <2>2. /\ rest \in Seq(Levels)
        /\ Len(rest) = (IF 1 =< Len(levels) - 1 THEN Len(levels) - 1 - 1 + 1 ELSE 0)
        /\ \A i \in 1 .. Len(levels) - 1 - 1 + 1 : rest[i] = levels[1 + i - 1]
    BY <1>2, <2>1, SubSeqProperties
  <2> QED
    BY <1>1, <2>2
<1> HIDE DEF rest
<1>4. rest # <<>>
  BY <1>1, <1>3, EmptySeq
<1>5. \A i \in 2 .. Len(rest) : Follows(rest[i - 1], rest[i])
  BY <1>1, <1>3 DEF Shape
<1>6. \A i \in 1 .. Len(rest) : i \in 1 .. Len(levels) /\ rest[i] = levels[i]
  BY <1>1, <1>3
<1>7. rest[1].node = "Root"
  BY <1>1, <1>3 DEF Shape
<1>8. \A known : AllSound(levels, known) => AllSound(rest, known)
  BY <1>6 DEF AllSound
<1>9. Shape(rest)
  BY <1>3, <1>4, <1>5, <1>6, <1>7 DEF Shape
<1> QED
  BY <1>3, <1>8, <1>9 DEF rest

(***************************************************************************)
(* Steps.                                                                  *)
(***************************************************************************)
\* What is known of the level that is shown.
LEMMA TopFacts ==
  ASSUME SettingsInv
  PROVE  /\ Len(path) \in Nat \ {0} /\ Top \in Levels
         /\ Sound(Top, servers) /\ Top.form \in FormsOf(Top.node)
         /\ Top.node \in Node /\ Top.selected \in Nat \ {0}
         /\ Count \in Nat
<1>1. Len(path) \in Nat \ {0}
  BY EmptySeq DEF SettingsInv, Shape
<1>2. Top \in Levels
  BY <1>1, ElementOfSeq DEF SettingsInv, Shape, Top
<1>3. Sound(Top, servers) /\ Top.form \in FormsOf(Top.node)
  BY <1>1 DEF SettingsInv, Shape, AllSound, Top
<1>4. Top.node \in Node /\ Top.selected \in Nat \ {0} /\ Top.models \in Seq(Model)
  <2>1. <<>> \in Seq(Model)
    BY EmptySeq
  <2> QED
    BY <1>2, <2>1, ListAssumption DEF Levels
<1>5. Count \in Nat
  <2>1. Cardinality(DOMAIN servers) \in Nat /\ Cardinality(Provider) \in Nat
    BY FS_CardinalityType, ProviderAssumption DEF SettingsInv, Known
  <2>2. \A n \in DOMAIN servers : Len(servers[n]) \in Nat
    BY LenProperties DEF SettingsInv, Known
  <2>3. Len(Top.models) \in Nat
    BY <1>4, LenProperties
  <2> QED
    BY <2>1, <2>2, <2>3 DEF Count, Rows
<1> QED
  BY <1>1, <1>2, <1>3, <1>4, <1>5

\* Only a form has a form.
LEMMA MenusHaveNoForm ==
  ASSUME SettingsInv
  PROVE  Top.node \in {"Root", "Connections", "ServerLogins", "Models"} <=> ~OnForm
<1>1. None \notin ServerForm \cup LoginForm \cup AppForm \cup ProviderForm
  BY NoneAssumption DEF Form
<1>2. Top.node \in Node /\ Top.form \in FormsOf(Top.node)
  BY TopFacts
<1> QED
  BY <1>1, <1>2 DEF Node, FormsOf, OnForm

\* A fresh level.
LEMMA LevelType ==
  ASSUME NEW node \in Node, NEW of \in Name \cup Provider \cup {None},
         NEW form \in Form \cup {None}
  PROVE  /\ Level(node, of, form) \in Levels
         /\ Level(node, of, form).node = node /\ Level(node, of, form).of = of
         /\ Level(node, of, form).form = form /\ Level(node, of, form).selected = 1
         /\ Level(node, of, form).index = 0 /\ Level(node, of, form).models = <<>>
BY DEF Level, Levels

\* The level shown is replaced by one about the same, in a menu or a form; nothing
\* else changes but what is shown of errors and asked of the providers.
LEMMA ChangeKeeps ==
  ASSUME SettingsInv, NEW level \in Levels, Change(level),
         level.node = Top.node, level.of = Top.of, level.form \in FormsOf(level.node),
         Sound(level, servers), UNCHANGED <<servers, custom, confirm>>, Others',
         DiscardsRefused'
  PROVE  SettingsInv'
<1>0. \A i \in 1 .. Len(path) - 1 : Sound(path[i], servers)
  BY TopFacts DEF SettingsInv, AllSound
<1>1. /\ Shape(path') /\ AllSound(path', servers)
      /\ Top'.node = Top.node /\ Top'.of = Top.of
  BY ZenonT(30), <1>0, Changed DEF SettingsInv, Change, Top
<1>2. ConfirmSound'
  BY <1>1 DEF SettingsInv, ConfirmSound, Server
<1> QED
  BY <1>1, <1>2 DEF SettingsInv

\* A level is entered.
LEMMA PushKeeps ==
  ASSUME SettingsInv, NEW level \in Levels, Push(level), Keys,
         Follows(Top, level), level.form \in FormsOf(level.node), Sound(level, servers),
         UNCHANGED <<servers, custom, confirm>>, Others'
  PROVE  SettingsInv'
<1>1. Shape(path') /\ AllSound(path', servers)
  BY Pushed DEF SettingsInv, Push, Top
<1>2. ConfirmSound' /\ DiscardsRefused'
  BY DEF ConfirmSound, DiscardsRefused, Push, Keys
<1> QED
  BY <1>1, <1>2 DEF SettingsInv

\* What is shown then.
LEMMA ChangedTop ==
  ASSUME SettingsInv, NEW level \in Levels, Change(level), level.node = Top.node,
         level.of = Top.of, level.form \in FormsOf(level.node), Sound(level, servers)
  PROVE  Top' = level
<1>1. \A i \in 1 .. Len(path) - 1 : Sound(path[i], servers)
  BY TopFacts DEF SettingsInv, AllSound
<1> QED
  BY <1>1, Changed DEF SettingsInv, Change, Top

\* Selecting another row.
LEMMA SelectKeeps ==
  ASSUME SettingsInv, Keys, NEW k \in 1 .. Count, ~OnForm,
         Change([Top EXCEPT !.selected = k]),
         UNCHANGED <<servers, custom, error, confirm, asked, refused>>
  PROVE  SettingsInv'
<1> DEFINE level == [Top EXCEPT !.selected = k]
<1>1. k \in Nat \ {0} /\ k =< Count
  BY TopFacts
<1>2. /\ level \in Levels /\ level.node = Top.node /\ level.of = Top.of
      /\ level.form = Top.form /\ level.index = Top.index /\ level.opened = Top.opened
      /\ level.models = Top.models /\ level.selected = k
  BY <1>1, TopFacts DEF Levels
<1>3. Rows(level, servers) = Count
  BY <1>2 DEF Rows, Count
<1> HIDE DEF level
<1>4. Sound(level, servers) /\ level.form \in FormsOf(level.node)
  BY <1>1, <1>2, <1>3, TopFacts DEF Sound
<1>5. Others'
  BY DEF SettingsInv, Others
<1>6. Change(level)
  BY DEF level
<1>7. DiscardsRefused'
  <2>1. Top' = level
    BY <1>2, <1>4, <1>6, ChangedTop
  <2> QED
    BY <1>2, <2>1 DEF DiscardsRefused, OnForm
<1> QED
  BY <1>2, <1>4, <1>5, <1>6, <1>7, ChangeKeeps

\* Up and down keep to the rows there are.
LEMMA MoveStep ==
  ASSUME SettingsInv, Down \/ Up
  PROVE  SettingsInv'
<1>1. Count \in Nat /\ Top.selected \in Nat
  BY TopFacts
<1>2. CASE Down
  <2>1. (Top.selected % Count) + 1 \in 1 .. Count
    BY <1>1, <1>2 DEF Down
  <2> QED
    BY <1>2, <2>1, SelectKeeps DEF Down
<1>3. CASE Up
  <2>1. Top.selected + Count - 2 \in Int
    BY <1>1
  <2>2. ((Top.selected + Count - 2) % Count) + 1 \in 1 .. Count
    BY <1>1, <1>3, <2>1 DEF Up
  <2> QED
    BY <1>3, <2>2, SelectKeeps DEF Up
<1> QED
  BY <1>2, <1>3

\* Showing and refusing touch nothing the invariant is about.
LEMMA OthersStay ==
  ASSUME SettingsInv, error' \in BOOLEAN, UNCHANGED <<custom, confirm, asked, refused>>
  PROVE  Others'
BY DEF SettingsInv, Others

\* The row of the list of servers denotes a server.
LEMMA SelectedServer ==
  ASSUME SettingsInv, Top.node = "Connections", Count > 0
  PROVE  Selected \in Server
<1>1. Server \in SUBSET Nat /\ IsFiniteSet(Server)
  BY NameAssumption DEF SettingsInv, Known, Server
<1>2. Top.selected \in 1 .. Cardinality(Server)
  <2>1. Count = Cardinality(Server) /\ Rows(Top, servers) = Count
    BY DEF Count, Rows, Server
  <2> QED
    BY <2>1, TopFacts DEF Sound
<1> QED
  BY <1>1, <1>2, RowShows DEF Selected

\* A row of a server's logins denotes a login.
LEMMA SelectedLogin ==
  ASSUME SettingsInv, Top.node = "ServerLogins", Count > 0
  PROVE  /\ Top.of \in Server /\ Top.of \in Name
         /\ Top.selected \in 1 .. Len(servers[Top.of])
         /\ servers[Top.of][Top.selected] \in Login
<1>1. Top.of \in Server /\ Top.of \in Name
  BY TopFacts DEF Sound, Server, SettingsInv, Known
<1>2. Count = Len(servers[Top.of]) /\ Rows(Top, servers) = Count
  BY <1>1 DEF Count, Rows, Server
<1>3. Top.selected \in 1 .. Len(servers[Top.of])
  BY <1>2, TopFacts DEF Sound
<1>4. servers[Top.of] \in Seq(Login)
  BY <1>1 DEF SettingsInv, Known, Server
<1> QED
  BY <1>1, <1>3, <1>4, ElementOfSeq

\* What is entered from a menu exists.
LEMMA EnterStep ==
  ASSUME SettingsInv, Enter
  PROVE  SettingsInv'
<1>0. Keys /\ UNCHANGED <<servers, custom, asked, confirm, refused>>
  BY DEF Enter
<1>1. CASE EnterRoot
  <2>1. CASE Push(Level("Connections", None, None))
    <3> DEFINE level == Level("Connections", None, None)
    <3>1. /\ level \in Levels /\ level.node = "Connections" /\ level.selected = 1
          /\ level.form = None
      BY LevelType DEF Node
    <3> HIDE DEF level
    <3>2. Follows(Top, level) /\ level.form \in FormsOf(level.node) /\ Sound(level, servers)
      BY <1>1, <3>1 DEF EnterRoot, Follows, FormsOf, Sound
    <3>3. Push(level) /\ Others'
      BY <1>0, <2>1, OthersStay DEF level, Push
    <3> QED
      BY <1>0, <3>1, <3>2, <3>3, PushKeeps
  <2>2. CASE Push(Level("App", None, [custom |-> custom, minutes |-> TRUE]))
    <3> DEFINE form == [custom |-> custom, minutes |-> TRUE]
               level == Level("App", None, form)
    <3>0. form \in AppForm
      BY DEF SettingsInv, Others, AppForm
    <3>1. /\ level \in Levels /\ level.node = "App" /\ level.selected = 1
          /\ level.form = form
      BY <3>0, LevelType DEF Node, Form
    <3> HIDE DEF level
    <3>2. Follows(Top, level) /\ level.form \in FormsOf(level.node) /\ Sound(level, servers)
      BY <1>1, <3>0, <3>1 DEF EnterRoot, Follows, FormsOf, Sound
    <3>3. Push(level) /\ Others'
      BY <1>0, <2>2, OthersStay DEF level, Push
    <3> QED
      BY <1>0, <3>1, <3>2, <3>3, PushKeeps
  <2>3. ASSUME Top.selected > 2, NEW m \in Model \cup {None},
               Push(Level("Provider", Top.selected - 2, [model |-> m, valid |-> TRUE]))
        PROVE  SettingsInv'
    <3> DEFINE form == [model |-> m, valid |-> TRUE]
               level == Level("Provider", Top.selected - 2, form)
    <3>0. form \in ProviderForm
      BY DEF ProviderForm
    <3>4. Top.selected - 2 \in Provider
      <4>1. Rows(Top, servers) = 2 + Cardinality(Provider)
        BY <1>1 DEF EnterRoot, Rows
      <4> QED
        BY <2>3, <4>1, TopFacts, ProviderAssumption, FS_CardinalityType DEF Sound
    <3>1. /\ level \in Levels /\ level.node = "Provider" /\ level.selected = 1
          /\ level.form = form
      BY <3>0, <3>4, LevelType DEF Node, Form
    <3> HIDE DEF level
    <3>2. Follows(Top, level) /\ level.form \in FormsOf(level.node) /\ Sound(level, servers)
      BY <1>1, <3>0, <3>1 DEF EnterRoot, Follows, FormsOf, Sound
    <3>3. Push(level) /\ Others'
      BY <1>0, <2>3, OthersStay DEF level, Push
    <3> QED
      BY <1>0, <3>1, <3>2, <3>3, PushKeeps
  <2> QED
    BY <1>1, <2>1, <2>2, <2>3 DEF EnterRoot
<1>2. CASE EnterLogin
  <2> DEFINE login == servers[Top.of][Top.selected]
             form == [login |-> login]
             base == Level("LoginForm", Top.of, form)
             level == [base EXCEPT !.index = Top.selected, !.opened = login]
  <2>1. /\ Top.node = "ServerLogins" /\ Top.of \in Server /\ Top.of \in Name
        /\ Top.selected \in 1 .. Len(servers[Top.of]) /\ login \in Login
    BY <1>2, SelectedLogin DEF EnterLogin
  <2>2. form \in LoginForm
    BY <2>1 DEF LoginForm
  <2>3. /\ base \in Levels /\ base.node = "LoginForm" /\ base.of = Top.of
        /\ base.form = form /\ base.selected = 1
    BY <2>1, <2>2, LevelType DEF Node, Form
  <2>4. Push(level)
    BY <1>2 DEF EnterLogin
  <2>5. Top.selected \in Nat
    BY TopFacts
  <2> HIDE DEF base, form, login
  <2>6. /\ level \in Levels /\ level.node = "LoginForm" /\ level.of = Top.of
        /\ level.form = form /\ level.selected = 1 /\ level.index = Top.selected
        /\ level.opened = login
    BY <2>1, <2>3, <2>5 DEF Levels
  <2> HIDE DEF level
  <2>7. Follows(Top, level) /\ level.form \in FormsOf(level.node)
    BY <2>1, <2>2, <2>6 DEF Follows, FormsOf
  <2>8. Sound(level, servers)
    BY <2>1, <2>6 DEF Sound, Server, login
  <2>9. Others'
    BY <1>0, <2>4, OthersStay DEF Push
  <2> QED
    BY <1>0, <2>4, <2>6, <2>7, <2>8, <2>9, PushKeeps
<1>3. CASE Top.node = "Connections" /\ Count > 0 /\ Push(Level("ServerLogins", Selected, None))
  <2> DEFINE level == Level("ServerLogins", Selected, None)
  <2>1. Selected \in Server /\ Selected \in Name
    BY <1>3, SelectedServer DEF Server, SettingsInv, Known
  <2>2. /\ level \in Levels /\ level.node = "ServerLogins" /\ level.of = Selected
        /\ level.selected = 1 /\ level.form = None
    BY <2>1, LevelType DEF Node
  <2> HIDE DEF level
  <2>3. Follows(Top, level) /\ level.form \in FormsOf(level.node) /\ Sound(level, servers)
    BY <1>3, <2>1, <2>2 DEF Follows, FormsOf, Sound, Server
  <2>4. Push(level) /\ Others'
    BY <1>0, <1>3, OthersStay DEF level, Push
  <2> QED
    BY <1>0, <2>2, <2>3, <2>4, PushKeeps
<1> QED
  BY <1>1, <1>2, <1>3 DEF Enter

\* How deep each level lies.
LEMMA Depth ==
  ASSUME NEW levels, Shape(levels), NEW i \in 1 .. Len(levels)
  PROVE  /\ levels[i].node = "Root" <=> i = 1
         /\ levels[i].node \in {"Connections", "App", "Provider"} => i = 2
         /\ levels[i].node \in {"ServerLogins", "Models"} => i = 3
         /\ levels[i].node = "ServerForm" => i \in 3 .. 4
         /\ levels[i].node = "LoginForm" => i = 4
<1>1. Len(levels) \in Nat \ {0}
  BY EmptySeq DEF Shape
<1>2. \A j \in 1 .. Len(levels) : levels[j].node = "Root" <=> j = 1
  <2>1. \A j \in 1 .. Len(levels) : j = 1 \/ j \in 2 .. Len(levels)
    BY <1>1
  <2> QED
    BY <2>1, <1>1 DEF Shape, Follows
<1>3. \A j \in 1 .. Len(levels) :
        j # 1 => j - 1 \in 1 .. Len(levels) /\ Follows(levels[j - 1], levels[j])
  BY <1>1 DEF Shape
<1>4. \A j \in 1 .. Len(levels) : levels[j].node \in {"Connections", "App", "Provider"} => j = 2
  BY <1>2, <1>3 DEF Follows
<1>5. \A j \in 1 .. Len(levels) : levels[j].node \in {"ServerLogins", "Models"} => j = 3
  BY <1>2, <1>3, <1>4 DEF Follows
<1>6. \A j \in 1 .. Len(levels) :
        (levels[j].node = "ServerForm" => j \in 3 .. 4) /\ (levels[j].node = "LoginForm" => j = 4)
  BY <1>2, <1>3, <1>4, <1>5 DEF Follows
<1> QED
  BY <1>2, <1>4, <1>5, <1>6

\* Servers and logins that are added leave every level sound; so do logins that are
\* replaced, but for the form that was opened for one.
LEMMA GrowthKeeps ==
  ASSUME NEW known, Known(known), NEW more, Known(more), DOMAIN known \subseteq DOMAIN more,
         \A n \in DOMAIN known : Len(known[n]) =< Len(more[n]),
         NEW level \in Levels, Sound(level, known),
         level.node = "LoginForm" /\ level.index # 0 =>
           more[level.of][level.index] = known[level.of][level.index]
  PROVE  Sound(level, more)
<1>1. Cardinality(DOMAIN known) =< Cardinality(DOMAIN more)
  BY FS_Subset DEF Known
<1>2. /\ Cardinality(DOMAIN known) \in Nat /\ Cardinality(DOMAIN more) \in Nat
      /\ \A n \in DOMAIN known : Len(known[n]) \in Nat
      /\ \A n \in DOMAIN more : Len(more[n]) \in Nat
  BY FS_CardinalityType, LenProperties DEF Known
<1>3. level.selected \in Nat /\ level.index \in Nat
  BY DEF Levels
<1>4. level.selected =< Rows(level, more) \/ level.selected = 1
  <2>1. CASE level.node = "Connections"
    BY <1>1, <1>2, <1>3, <2>1 DEF Sound, Rows
  <2>2. CASE level.node = "ServerLogins"
    BY <1>2, <1>3, <2>2 DEF Sound, Rows
  <2>3. CASE level.node \notin {"Connections", "ServerLogins"}
    BY <2>3 DEF Sound, Rows
  <2> QED
    BY <2>1, <2>2, <2>3
<1>5. level.node = "LoginForm" => level.index =< Len(more[level.of])
  BY <1>2, <1>3 DEF Sound
<1> QED
  BY <1>4, <1>5 DEF Sound

\* A new server has no level of its own yet.
LEMMA AddServerStep ==
  ASSUME SettingsInv, AddServer
  PROVE  SettingsInv'
<1>1. PICK n \in Name \ Server : Push(Level("ServerForm", None, [name |-> n, valid |-> TRUE]))
  BY DEF AddServer
<1> DEFINE form == [name |-> n, valid |-> TRUE]
           level == Level("ServerForm", None, form)
<1>2. form \in ServerForm
  BY DEF ServerForm
<1>3. /\ level \in Levels /\ level.node = "ServerForm" /\ level.of = None
      /\ level.form = form /\ level.selected = 1
  BY SMTT(20), <1>2, LevelType DEF Node, Form
<1> HIDE DEF level
<1>4. Follows(Top, level) /\ level.form \in FormsOf(level.node) /\ Sound(level, servers)
  BY <1>2, <1>3 DEF AddServer, Follows, FormsOf, Sound
<1>5. Push(level) /\ Others'
  BY <1>1, OthersStay DEF level, Push, AddServer
<1> QED
  BY <1>3, <1>4, <1>5, PushKeeps DEF AddServer

\* A new login belongs to the server whose logins are shown.
LEMMA AddLoginStep ==
  ASSUME SettingsInv, AddLogin
  PROVE  SettingsInv'
<1> DEFINE form == [login |-> Default]
           level == Level("LoginForm", Top.of, form)
<1>1. Top.of \in Server /\ Top.of \in Name
  BY TopFacts DEF AddLogin, Sound, Server, SettingsInv, Known
<1>2. form \in LoginForm
  BY NameAssumption DEF LoginForm
<1>3. /\ level \in Levels /\ level.node = "LoginForm" /\ level.of = Top.of
      /\ level.form = form /\ level.selected = 1 /\ level.index = 0
  BY <1>1, <1>2, LevelType DEF Node, Form
<1> HIDE DEF level
<1>4. 0 =< Len(servers[Top.of])
  BY <1>1, LenProperties DEF SettingsInv, Known, Server
<1>5. Follows(Top, level) /\ level.form \in FormsOf(level.node) /\ Sound(level, servers)
  BY <1>1, <1>2, <1>3, <1>4 DEF AddLogin, Follows, FormsOf, Sound, Server
<1>6. Push(level) /\ Others'
  BY OthersStay DEF level, Push, AddLogin
<1> QED
  BY <1>3, <1>5, <1>6, PushKeeps DEF AddLogin

\* A server form is about a server of the list.
LEMMA EditServerStep ==
  ASSUME SettingsInv, EditServer
  PROVE  SettingsInv'
<1>1. PICK n \in Server :
        /\ \/ Top.node = "Connections" /\ n = Selected
           \/ Top.node = "ServerLogins" /\ n = Top.of
        /\ Push(Level("ServerForm", n, [name |-> n, valid |-> TRUE]))
  BY DEF EditServer
<1> DEFINE form == [name |-> n, valid |-> TRUE]
           level == Level("ServerForm", n, form)
<1>2. n \in Name /\ form \in ServerForm
  BY DEF ServerForm, Server, SettingsInv, Known
<1>3. /\ level \in Levels /\ level.node = "ServerForm" /\ level.of = n
      /\ level.form = form /\ level.selected = 1
  BY <1>2, LevelType DEF Node, Form
<1> HIDE DEF level
<1>4. Follows(Top, level) /\ level.form \in FormsOf(level.node) /\ Sound(level, servers)
  BY <1>1, <1>2, <1>3 DEF EditServer, Follows, FormsOf, Sound, Server
<1>5. Push(level) /\ Others'
  BY <1>1, OthersStay DEF level, Push, EditServer
<1> QED
  BY <1>3, <1>4, <1>5, PushKeeps DEF EditServer

\* The question names the selected entry.
LEMMA AskStep ==
  ASSUME SettingsInv, Ask
  PROVE  SettingsInv'
<1>1. Shape(path') /\ AllSound(path', servers') /\ Known(servers') /\ DiscardsRefused'
  BY DEF Ask, SettingsInv, DiscardsRefused
<1>2. CASE /\ Top.node = "Connections"
           /\ confirm' = [of |-> Selected, index |-> 0, label |-> None]
  <2>1. Selected \in Server /\ Selected \in Name
    BY <1>2, SelectedServer DEF Ask, SettingsInv, Known, Server
  <2>2. confirm' \in Question
    BY <1>2, <2>1 DEF Question
  <2>3. ConfirmSound'
    BY <1>2, <2>1 DEF Ask, ConfirmSound, Server, Top
  <2>4. Others'
    BY <2>2 DEF Ask, SettingsInv, Others
  <2> QED
    BY <1>1, <2>3, <2>4 DEF SettingsInv
<1>3. CASE /\ Top.node = "ServerLogins"
           /\ confirm' = [of |-> Top.of, index |-> Top.selected,
                          label |-> servers[Top.of][Top.selected]]
  <2>1. /\ Top.of \in Server /\ Top.of \in Name /\ Top.selected \in 1 .. Len(servers[Top.of])
        /\ servers[Top.of][Top.selected] \in Login
    BY <1>3, SelectedLogin DEF Ask
  <2>2. confirm' \in Question
    BY <1>3, <2>1, TopFacts DEF Question
  <2>3. ConfirmSound'
    BY <1>3, <2>1, TopFacts DEF Ask, ConfirmSound, Server, Top
  <2>4. Others'
    BY <2>2 DEF Ask, SettingsInv, Others
  <2> QED
    BY <1>1, <2>3, <2>4 DEF SettingsInv
<1> QED
  BY <1>2, <1>3 DEF Ask

\* Saying no forgets the question.
LEMMA CancelStep ==
  ASSUME SettingsInv, Cancel
  PROVE  SettingsInv'
BY DEF Cancel, SettingsInv, Others, ConfirmSound, DiscardsRefused, OnForm, Top

\* Deleting a server, or a login, leaves a map of servers.
LEMMA DeletedKnown ==
  ASSUME SettingsInv, confirm # None
  PROVE  /\ confirm.of \in Server /\ confirm.index \in Nat
         /\ Known(WithoutServer(confirm.of))
         /\ DOMAIN WithoutServer(confirm.of) = Server \ {confirm.of}
         /\ confirm.index # 0 =>
              /\ confirm.index \in 1 .. Len(servers[confirm.of])
              /\ Known(WithoutLogin(confirm.of, confirm.index))
              /\ DOMAIN WithoutLogin(confirm.of, confirm.index) = Server
<1>1. confirm.of \in Server /\ confirm.index \in Nat
  BY DEF SettingsInv, ConfirmSound, Others, Question
<1>2. Known(WithoutServer(confirm.of)) /\ DOMAIN WithoutServer(confirm.of) = Server \ {confirm.of}
  <2>1. IsFiniteSet(Server \ {confirm.of})
    BY FS_RemoveElement DEF SettingsInv, Known, Server
  <2> QED
    BY <2>1 DEF SettingsInv, Known, Server, WithoutServer
<1>3. ASSUME confirm.index # 0
      PROVE  /\ confirm.index \in 1 .. Len(servers[confirm.of])
             /\ Known(WithoutLogin(confirm.of, confirm.index))
             /\ DOMAIN WithoutLogin(confirm.of, confirm.index) = Server
  <2> DEFINE n == confirm.of
             i == confirm.index
             old == servers[n]
             less == [j \in 1 .. Len(old) - 1 |-> IF j < i THEN old[j] ELSE old[j + 1]]
  <2>1. old \in Seq(Login) /\ Len(old) \in Nat /\ Len(old) =< MaxLogins
    BY <1>1, LenProperties DEF SettingsInv, Known, Server
  <2>2. i \in 1 .. Len(old)
    BY <1>1, <1>3, <2>1 DEF SettingsInv, ConfirmSound
  <2>3. \A j \in 1 .. Len(old) - 1 : (IF j < i THEN old[j] ELSE old[j + 1]) \in Login
    <3> TAKE j \in 1 .. Len(old) - 1
    <3>1. j \in 1 .. Len(old) /\ j + 1 \in 1 .. Len(old)
      BY <2>1
    <3> QED
      BY <2>1, <3>1, ElementOfSeq
  <2>4. less \in Seq(Login) /\ Len(less) = Len(old) - 1
    <3>1. Len(old) - 1 \in Nat
      BY <2>1, <2>2
    <3> QED
      BY <2>3, <3>1, IsASeq, LenProperties
  <2>5. WithoutLogin(n, i) = [servers EXCEPT ![n] = less]
    BY DEF WithoutLogin
  <2> HIDE DEF less, old
  <2> DEFINE known == [servers EXCEPT ![n] = less]
  <2>6. Known(known)
    <3>1. DOMAIN known = DOMAIN servers
      OBVIOUS
    <3>2. \A m \in DOMAIN servers : known[m] = IF m = n THEN less ELSE servers[m]
      OBVIOUS
    <3>3. Len(less) =< MaxLogins
      BY <2>1, <2>4, BoundAssumption
    <3>4. known \in [DOMAIN servers -> Seq(Login)]
      BY <2>4 DEF SettingsInv, Known
    <3> HIDE DEF known
    <3> QED
      BY <3>1, <3>2, <3>3, <3>4 DEF SettingsInv, Known
  <2>7. DOMAIN known = Server
    BY DEF Server
  <2> QED
    BY <2>2, <2>5, <2>6, <2>7 DEF old
<1> QED
  BY <1>1, <1>2, <1>3

\* What is deleted is not below the menu shown, and the selection stays on a row.
LEMMA DeleteStep ==
  ASSUME SettingsInv, Delete
  PROVE  SettingsInv'
<1> DEFINE known == IF confirm.index = 0 THEN WithoutServer(confirm.of)
                    ELSE WithoutLogin(confirm.of, confirm.index)
<1>1. confirm # None /\ confirm' = None /\ UNCHANGED <<custom, asked, refused>>
  BY DEF Delete
<1>2. CASE error' = TRUE /\ UNCHANGED <<servers, path>>
  <2>1. ~OnForm
    <3>1. Top.node \in {"Connections", "ServerLogins"}
      BY <1>1 DEF SettingsInv, ConfirmSound
    <3> QED
      BY <3>1, MenusHaveNoForm
  <2>2. DiscardsRefused' /\ ConfirmSound' /\ Others'
    BY <1>1, <1>2, <2>1 DEF DiscardsRefused, ConfirmSound, OnForm, Top, SettingsInv, Others
  <2>3. Shape(path') /\ AllSound(path', servers') /\ Known(servers')
    BY <1>2 DEF SettingsInv
  <2> QED
    BY <2>2, <2>3 DEF SettingsInv
<1>3. CASE servers' = known /\ Change(Clamped(servers')) /\ error' = FALSE
  <2> DEFINE last == Rows(Top, known)
             level == Clamped(known)
  <2>1. Known(known) /\ DOMAIN known \subseteq Server
    BY <1>1, DeletedKnown
  <2>2. confirm.index # 0 => DOMAIN known = Server
    BY <1>1, DeletedKnown
  <2>3. IF confirm.index = 0 THEN Top.node = "Connections"
        ELSE Top.node = "ServerLogins" /\ Top.of \in Server
    BY <1>1 DEF SettingsInv, ConfirmSound
  <2>4. Len(path) \in Nat \ {0} /\ Top \in Levels /\ Top.selected \in Nat \ {0}
    BY TopFacts
  <2>5. last \in Nat
    <3>1. Cardinality(DOMAIN known) \in Nat
      BY <2>1, FS_CardinalityType DEF Known
    <3>2. \A n \in DOMAIN known : Len(known[n]) \in Nat
      BY <2>1, LenProperties DEF Known
    <3> QED
      BY <2>3, <3>1, <3>2 DEF Rows
  <2> HIDE DEF known
  <2>6. /\ level \in Levels /\ level.node = Top.node /\ level.of = Top.of
        /\ level.form = Top.form
        /\ level.selected =< last \/ level.selected = 1
    BY <2>4, <2>5 DEF Clamped, Smaller, Levels
  <2>7. Rows(level, known) = last
    BY <2>3, <2>6 DEF Rows
  <2> HIDE DEF level, last
  <2>8. Sound(level, known) /\ level.form \in FormsOf(level.node)
    <3>1. level.form \in FormsOf(level.node)
      BY <2>6, TopFacts
    <3>2. level.node \in {"Connections", "ServerLogins"}
      BY <2>3, <2>6
    <3>3. level.node = "ServerLogins" => level.of \in DOMAIN known
      BY <2>2, <2>3, <2>6
    <3>4. level.selected =< Rows(level, known) \/ level.selected = 1
      BY <2>6, <2>7
    <3> QED
      BY <3>1, <3>2, <3>3, <3>4 DEF Sound
  <2>9. ASSUME NEW i \in 1 .. Len(path) - 1 PROVE Sound(path[i], known)
    <3>1. i \in 1 .. Len(path) /\ Len(path) \in 1 .. Len(path)
      BY <2>4
    <3>2. Sound(path[i], servers)
      BY <3>1 DEF SettingsInv, AllSound
    <3>3. CASE confirm.index = 0
      <4>1. path[i].node = "Root"
        BY <2>3, <2>4, <3>1, <3>3, Depth DEF SettingsInv, Top
      <4> QED
        BY <3>2, <4>1 DEF Sound, Rows
    <3>4. CASE confirm.index # 0
      <4>0. Len(path) = 3
        BY <2>3, <3>1, <3>4, Depth DEF SettingsInv, Top
      <4>1. i = 1 \/ (i = 2 /\ Len(path) = 3)
        BY <4>0
      <4>2. path[i].node \in {"Root", "Connections"}
        <5>1. CASE i = 1
          BY <5>1 DEF SettingsInv, Shape
        <5>2. CASE i = 2 /\ Len(path) = 3
          <6>1. Follows(path[3 - 1], path[3])
            BY <5>2 DEF SettingsInv, Shape
          <6> QED
            BY <2>3, <3>4, <5>2, <6>1 DEF Follows, Top
        <5> QED
          BY <4>1, <5>1, <5>2
      <4> QED
        BY <2>2, <3>2, <3>4, <4>2 DEF Sound, Rows, Server
    <3> QED
      BY <3>3, <3>4
  <2>10. path' = [path EXCEPT ![Len(path)] = level]
    BY <1>3 DEF Change, level
  <2>11. Shape(path') /\ AllSound(path', known)
    BY <2>6, <2>8, <2>9, <2>10, Changed DEF SettingsInv, Top
  <2>12. Known(servers') /\ ConfirmSound' /\ Others' /\ DiscardsRefused'
    BY <1>1, <1>3, <2>1 DEF ConfirmSound, SettingsInv, Others, DiscardsRefused
  <2> QED
    BY <1>3, <2>11, <2>12 DEF SettingsInv
<1> QED
  BY <1>2, <1>3 DEF Delete

\* Typing changes the form and nothing else of its level.
LEMMA TypeStep ==
  ASSUME SettingsInv, Type
  PROVE  SettingsInv'
<1>1. PICK f \in Typed(Top) : Change([Top EXCEPT !.form = f])
  BY DEF Type
<1> DEFINE level == [Top EXCEPT !.form = f]
<1>2. f \in FormsOf(Top.node) /\ f \in Form
  BY TopFacts DEF Typed, FormsOf, Form
<1>3. /\ level \in Levels /\ level.node = Top.node /\ level.of = Top.of /\ level.form = f
      /\ level.selected = Top.selected /\ level.index = Top.index
      /\ level.opened = Top.opened /\ level.models = Top.models
  BY <1>2, TopFacts DEF Levels
<1>4. Change(level)
  BY <1>1
<1> HIDE DEF level
<1>5. Sound(level, servers) /\ level.form \in FormsOf(level.node)
  BY <1>2, <1>3, TopFacts DEF Sound, Rows
<1>6. Others' /\ DiscardsRefused'
  BY OthersStay DEF Type, DiscardsRefused
<1> QED
  BY <1>3, <1>4, <1>5, <1>6, ChangeKeeps DEF Type

\* What is refused stays as it is, under an error about it.
LEMMA RefuseKeeps ==
  ASSUME SettingsInv, Refuse, UNCHANGED <<confirm, asked>>
  PROVE  SettingsInv'
<1>1. Top.form = None \/ Top.form \in Form
  BY TopFacts DEF Levels
<1>2. Others' /\ DiscardsRefused' /\ ConfirmSound'
  BY <1>1 DEF Refuse, SettingsInv, Others, DiscardsRefused, ConfirmSound, Top, Server
<1> QED
  BY <1>2 DEF Refuse, SettingsInv

\* Keys that go to another level leave no question and no error behind.
LEMMA MovedKeeps ==
  ASSUME SettingsInv, Keys, Known(servers'), Shape(path'), AllSound(path', servers'),
         custom' \in BOOLEAN, error' = FALSE, UNCHANGED <<confirm, asked, refused>>
  PROVE  SettingsInv'
BY DEF SettingsInv, Others, ConfirmSound, DiscardsRefused, Keys

\* Leaving a level keeps the ones below.
LEMMA BackStep ==
  ASSUME SettingsInv, Back
  PROVE  SettingsInv'
<1>1. Shape(path') /\ AllSound(path', servers)
  BY LeftBehind DEF Back, Return, Below, SettingsInv
<1>2. custom \in BOOLEAN /\ Known(servers)
  BY DEF SettingsInv, Others
<1> QED
  BY <1>1, <1>2, MovedKeeps DEF Back, Return

\* The overlay opens on its root.
LEMMA CloseStep ==
  ASSUME SettingsInv, Close
  PROVE  SettingsInv'
<1> DEFINE root == Level("Root", None, None)
<1>1. root \in Levels /\ root.node = "Root" /\ root.form = None /\ root.selected = 1
  BY LevelType DEF Node
<1> HIDE DEF root
<1>2. path' = <<root>>
  BY DEF Close, root
<1>3. /\ path' \in Seq(Levels) /\ path' # <<>> /\ Len(path') = 1 /\ path'[1] = root
  BY <1>1, <1>2
<1>4. Shape(path') /\ AllSound(path', servers)
  BY <1>1, <1>3 DEF Shape, AllSound, Sound, FormsOf
<1>5. custom \in BOOLEAN /\ Known(servers)
  BY DEF SettingsInv, Others
<1> QED
  BY <1>4, <1>5, MovedKeeps DEF Close

\* The picker opens over the form of its provider.
LEMMA OpenModelsStep ==
  ASSUME SettingsInv, OpenModels
  PROVE  SettingsInv'
<1> DEFINE base == Level("Models", Top.of, None)
           level == [base EXCEPT !.loading = TRUE]
<1>1. CASE Refuse /\ UNCHANGED asked
  BY <1>1, RefuseKeeps DEF OpenModels
<1>2. CASE /\ Push(level) /\ asked' = [asked EXCEPT ![Top.of] = @ + 1]
           /\ UNCHANGED <<servers, custom, refused>>
  <2>1. Top.of \in Name \cup Provider \cup {None}
    BY TopFacts DEF Levels
  <2>2. /\ base \in Levels /\ base.node = "Models" /\ base.of = Top.of
        /\ base.form = None /\ base.selected = 1
    BY <2>1, LevelType DEF Node
  <2> HIDE DEF base
  <2>3. /\ level \in Levels /\ level.node = "Models" /\ level.of = Top.of
        /\ level.form = None /\ level.selected = 1
    BY <2>2 DEF Levels
  <2>4. Push(level)
    BY <1>2
  <2> HIDE DEF level
  <2>5. Follows(Top, level) /\ level.form \in FormsOf(level.node) /\ Sound(level, servers)
    BY <2>3 DEF OpenModels, Follows, FormsOf, Sound
  <2>6. asked' \in [Provider -> 0 .. MaxAsked]
    <3>1. asked \in [Provider -> 0 .. MaxAsked] /\ asked[Top.of] < MaxAsked
      BY DEF OpenModels, SettingsInv, Others
    <3>2. \A p \in Provider : p = Top.of => asked[p] + 1 \in 0 .. MaxAsked
      BY <3>1, BoundAssumption
    <3> QED
      BY <1>2, <3>1, <3>2
  <2>7. Others'
    BY <1>2, <2>4, <2>6 DEF OpenModels, SettingsInv, Others, Push
  <2> QED
    BY <1>2, <2>3, <2>4, <2>5, <2>7, PushKeeps DEF OpenModels
<1> QED
  BY <1>1, <1>2 DEF OpenModels

\* The model is written to the form below the picker.
LEMMA PickModelStep ==
  ASSUME SettingsInv, PickModel
  PROVE  SettingsInv'
<1> DEFINE rest == Below
           last == Len(path) - 1
           form == [path[2].form EXCEPT !.model = Top.models[Top.selected]]
           level == [path[2] EXCEPT !.form = form]
<1>0. Len(path) \in 1 .. Len(path)
  BY TopFacts
<1>1. Len(path) = 3
  BY <1>0, Depth DEF PickModel, SettingsInv, Top
<1>2. /\ Shape(rest) /\ Len(rest) = 2 /\ rest[2] = path[2]
      /\ AllSound(rest, servers)
  <2>0. Shape(path) /\ AllSound(path, servers) /\ Len(path) > 1
    BY <1>1 DEF SettingsInv
  <2>1. /\ Shape(rest) /\ Len(rest) = Len(path) - 1
        /\ \A i \in 1 .. Len(path) - 1 : rest[i] = path[i]
        /\ AllSound(rest, servers)
    BY <2>0, LeftBehind, Zenon DEF Below
  <2> QED
    BY <1>1, <2>1
<1>3. path[2].node = "Provider" /\ path[2] \in Levels /\ path[2].form \in ProviderForm
  <2>1. Follows(path[3 - 1], path[3])
    BY <1>1 DEF SettingsInv, Shape
  <2>2. path[2].node = "Provider"
    BY <1>1, <2>1 DEF PickModel, Top, Follows
  <2>3. path[2] \in Levels /\ path[2].form \in FormsOf(path[2].node)
    <3>1. 2 \in 1 .. Len(path)
      BY <1>1
    <3> QED
      BY <3>1, ElementOfSeq DEF SettingsInv, Shape
  <2> QED
    BY <2>2, <2>3 DEF FormsOf
<1>4. Top.models[Top.selected] \in Model
  <2>1. Top.models \in Seq(Model)
    <3>1. <<>> \in Seq(Model)
      BY EmptySeq
    <3> QED
      BY <3>1, TopFacts, ListAssumption DEF Levels
  <2>2. Top.selected \in 1 .. Len(Top.models)
    BY <2>1, TopFacts DEF PickModel, Sound, Count, Rows
  <2> QED
    BY <2>1, <2>2, ElementOfSeq
<1>5. form \in ProviderForm /\ form \in Form
  BY <1>3, <1>4 DEF ProviderForm, Form
<1>6. /\ level \in Levels /\ level.node = "Provider" /\ level.of = path[2].of
      /\ level.form = form /\ level.selected = path[2].selected
  BY <1>3, <1>5 DEF Levels
<1>7. Sound(path[2], servers)
  BY <1>1 DEF SettingsInv, AllSound
<1>8. path' = [rest EXCEPT ![2] = level]
  <2>1. Len(path) - 1 = 2
    BY <1>1
  <2>2. path' = [Below EXCEPT ![2].form.model = Top.models[Top.selected]]
    BY <2>1 DEF PickModel
  <2> QED
    BY <1>2, <2>2
<1> HIDE DEF level, form, rest
<1>9. Sound(level, servers) /\ level.form \in FormsOf(level.node)
  BY <1>3, <1>5, <1>6, <1>7 DEF Sound, Rows, FormsOf
<1>10. Shape(path') /\ AllSound(path', servers)
  <2>1. \A i \in 1 .. Len(rest) - 1 : Sound(rest[i], servers)
    BY <1>2 DEF AllSound
  <2>2. rest[Len(rest)] = path[2] /\ path' = [rest EXCEPT ![Len(rest)] = level]
    BY <1>2, <1>8
  <2> QED
    BY <1>2, <1>3, <1>6, <1>9, <2>1, <2>2, Changed
<1>11. custom \in BOOLEAN /\ Known(servers)
  BY DEF SettingsInv, Others
<1> QED
  BY <1>10, <1>11, MovedKeeps DEF PickModel

\* The row of a model that the list holds.
LEMMA PositionListed ==
  ASSUME NEW list \in Seq(Model), NEW m
  PROVE  /\ Position(list, m) \in Nat \ {0}
         /\ Position(list, m) =< Len(list) \/ Position(list, m) = 1
<1> DEFINE at == {i \in DOMAIN list : list[i] = m}
           first == CHOOSE i \in at : \A j \in at : i =< j
<1>1. DOMAIN list = 1 .. Len(list) /\ Len(list) \in Nat
  BY LenProperties
<1>2. CASE at = {}
  BY <1>1, <1>2 DEF Position
<1>3. CASE at # {}
  <2>1. at \subseteq Nat
    BY <1>1
  <2>2. PICK i \in at : \A j \in at : ~(<<j, i>> \in OpToRel(<, Nat))
    BY <2>1, <1>3, NatLessThanWellFounded, WFMin
  <2>3. ASSUME NEW j \in at PROVE i =< j
    <3>1. i \in Nat /\ j \in Nat
      BY <2>1
    <3>2. ~(<<j, i>>[1] < <<j, i>>[2])
      BY <2>2, <3>1, Zenon DEF OpToRel
    <3> QED
      BY <3>1, <3>2
  <2>4. \E k \in at : \A j \in at : k =< j
    BY <2>3
  <2> HIDE DEF at
  <2>5. first \in at
    BY <2>4
  <2>6. Position(list, m) = first
    BY <1>3 DEF Position, at
  <2>7. first \in DOMAIN list
    BY <2>5 DEF at
  <2> HIDE DEF first
  <2> QED
    BY <1>1, <2>6, <2>7
<1> QED
  BY <1>2, <1>3

\* An answer changes the picker of its provider, if that is shown, and no other level.
LEMMA OnModelsStep ==
  ASSUME SettingsInv, NEW p \in Provider, OnModels(p)
  PROVE  SettingsInv'
<1>1. asked' \in [Provider -> 0 .. MaxAsked]
  <2>1. asked \in [Provider -> 0 .. MaxAsked] /\ asked[p] > 0
    BY DEF OnModels, SettingsInv, Others
  <2>2. asked[p] - 1 \in 0 .. MaxAsked
    BY <2>1, BoundAssumption
  <2>3. asked' = [asked EXCEPT ![p] = asked[p] - 1]
    BY DEF OnModels
  <2> QED
    BY <2>1, <2>2, <2>3
<1>2. error' \in BOOLEAN => Others'
  BY <1>1 DEF OnModels, SettingsInv, Others
<1>3. CASE Top.node = "Models" /\ Top.of = p
  <2>0. Top.form = None
    BY <1>3, MenusHaveNoForm DEF OnForm
  <2>1. ASSUME NEW list \in Lists, UNCHANGED error,
               Change([Top EXCEPT !.loading = FALSE, !.models = list,
                                  !.selected = Position(list, Parent.form.model)])
        PROVE  SettingsInv'
    <3> DEFINE row == Position(list, Parent.form.model)
               level == [Top EXCEPT !.loading = FALSE, !.models = list, !.selected = row]
    <3>1. /\ row \in Nat \ {0} /\ (row =< Len(list) \/ row = 1)
      BY PositionListed, ListAssumption
    <3> HIDE DEF row
    <3>2. /\ level \in Levels
          /\ level.node = Top.node /\ level.of = Top.of /\ level.form = Top.form
          /\ level.selected = row /\ level.models = list
      BY <3>1, TopFacts DEF Levels
    <3>3. Change(level)
      BY <2>1 DEF row
    <3> HIDE DEF level
    <3>4. Sound(level, servers) /\ level.form \in FormsOf(level.node)
      BY <1>3, <2>0, <3>1, <3>2 DEF Sound, Rows, FormsOf
    <3>5. Top' = level
      BY <3>2, <3>3, <3>4, ChangedTop
    <3>6. DiscardsRefused' /\ Others'
      BY <1>2, <2>0, <2>1, <3>2, <3>5 DEF DiscardsRefused, OnForm, SettingsInv, Others
    <3> QED
      BY <3>2, <3>3, <3>4, <3>6, ChangeKeeps DEF OnModels
  <2>2. ASSUME Change([Top EXCEPT !.loading = FALSE]), error' = TRUE
        PROVE  SettingsInv'
    <3> DEFINE level == [Top EXCEPT !.loading = FALSE]
    <3>1. /\ level \in Levels
          /\ level.node = Top.node /\ level.of = Top.of /\ level.form = Top.form
          /\ level.selected = Top.selected /\ level.models = Top.models
      BY TopFacts DEF Levels
    <3>2. Change(level)
      BY <2>2
    <3> HIDE DEF level
    <3>3. Sound(level, servers) /\ level.form \in FormsOf(level.node)
      BY <1>3, <2>0, <3>1, TopFacts DEF Sound, Rows, FormsOf
    <3>4. Top' = level
      BY <3>1, <3>2, <3>3, ChangedTop
    <3>5. DiscardsRefused' /\ Others'
      BY <1>2, <2>0, <2>2, <3>1, <3>4 DEF DiscardsRefused, OnForm
    <3> QED
      BY <3>1, <3>2, <3>3, <3>5, ChangeKeeps DEF OnModels
  <2> QED
    BY <1>3, <2>1, <2>2 DEF OnModels
<1>4. CASE ~(Top.node = "Models" /\ Top.of = p)
  <2>1. UNCHANGED <<path, error, servers, custom, confirm, refused>>
    BY <1>4 DEF OnModels
  <2>2. ConfirmSound' /\ DiscardsRefused' /\ Others'
    BY <1>2, <2>1 DEF ConfirmSound, DiscardsRefused, OnForm, Top, Server, SettingsInv, Others
  <2> QED
    BY <2>1, <2>2 DEF SettingsInv
<1> QED
  BY <1>3, <1>4

\* Selecting a row of the menu below a form that is saved.
LEMMA SelectingKeeps ==
  ASSUME NEW levels, Shape(levels), NEW known, AllSound(levels, known),
         NEW row \in Nat \ {0}, row =< Rows(levels[Len(levels)], known)
  PROVE  Shape(Selecting(levels, row)) /\ AllSound(Selecting(levels, row), known)
<1> DEFINE last == levels[Len(levels)]
           level == [last EXCEPT !.selected = row]
<1>1. Len(levels) \in 1 .. Len(levels)
  BY EmptySeq DEF Shape
<1>2. last \in Levels /\ last.form \in FormsOf(last.node) /\ Sound(last, known)
  BY <1>1, ElementOfSeq DEF Shape, AllSound
<1>3. Selecting(levels, row) = [levels EXCEPT ![Len(levels)] = level]
  BY DEF Selecting
<1>4. row =< Rows(last, known)
  OBVIOUS
<1> HIDE DEF last
<1>5. /\ level \in Levels /\ level.node = last.node /\ level.of = last.of
      /\ level.form = last.form /\ level.index = last.index /\ level.opened = last.opened
      /\ level.models = last.models /\ level.selected = row
  BY <1>2 DEF Levels
<1>6. Rows(level, known) = Rows(last, known)
  BY <1>5 DEF Rows
<1> HIDE DEF level
<1>7. Sound(level, known) /\ level.form \in FormsOf(level.node)
  BY <1>2, <1>4, <1>5, <1>6 DEF Sound
<1>8. \A i \in 1 .. Len(levels) - 1 : Sound(levels[i], known)
  BY <1>1 DEF AllSound
<1> DEFINE other == [levels EXCEPT ![Len(levels)] = level]
<1>9. Shape(other) /\ AllSound(other, known)
  BY <1>5, <1>7, <1>8, Changed DEF last
<1> QED
  BY <1>3, <1>9

\* The levels below the one shown.
LEMMA BelowFacts ==
  ASSUME SettingsInv, Len(path) > 1
  PROVE  /\ Shape(Below) /\ Len(Below) = Len(path) - 1 /\ Len(Below) \in Nat \ {0}
         /\ \A i \in 1 .. Len(Below) : Below[i] = path[i] /\ Below[i] \in Levels
         /\ AllSound(Below, servers)
         /\ Below[Len(Below)] = Parent /\ Follows(Parent, Top)
<1>1. Shape(path) /\ AllSound(path, servers) /\ Len(path) \in Nat \ {0}
  BY TopFacts DEF SettingsInv
<1>2. /\ Shape(Below) /\ Len(Below) = Len(path) - 1
      /\ \A i \in 1 .. Len(path) - 1 : Below[i] = path[i]
      /\ AllSound(Below, servers)
  BY <1>1, LeftBehind, Zenon DEF Below
<1>3. \A i \in 1 .. Len(path) - 1 : path[i] \in Levels
  <2>1. \A i \in 1 .. Len(path) - 1 : i \in 1 .. Len(path)
    BY <1>1
  <2> QED
    BY <1>1, <2>1, ElementOfSeq DEF Shape
<1>4. Follows(Parent, Top)
  <2>1. Len(path) \in 2 .. Len(path)
    BY <1>1
  <2> QED
    BY <1>1, <2>1 DEF Shape, Parent, Top
<1> QED
  BY <1>1, <1>2, <1>3, <1>4 DEF Parent

\* save_login leaves a map of servers, which has grown but for the login replaced.
LEMMA LoginKnown ==
  ASSUME SettingsInv, NEW n \in Server, NEW login \in Login, NEW index \in Nat,
         NEW i \in Nat, i = (IF index = 0 THEN Len(servers[n]) + 1 ELSE index),
         i =< Len(servers[n]) + (IF index = 0 THEN 1 ELSE 0), i =< MaxLogins,
         servers' = [servers EXCEPT ![n] =
                       [j \in 1 .. Len(@) + (IF index = 0 THEN 1 ELSE 0) |->
                          IF j = i THEN login ELSE @[j]]]
  PROVE  /\ Known(servers') /\ DOMAIN servers' = Server
         /\ i \in 1 .. Len(servers'[n])
         /\ \A m \in Server : Len(servers[m]) =< Len(servers'[m])
<1> DEFINE old == servers[n]
           len == Len(old) + (IF index = 0 THEN 1 ELSE 0)
           more == [j \in 1 .. len |-> IF j = i THEN login ELSE old[j]]
<1>1. old \in Seq(Login) /\ Len(old) \in Nat /\ Len(old) =< MaxLogins
  BY LenProperties DEF SettingsInv, Known, Server
<1>2. /\ len \in Nat /\ Len(old) =< len /\ i \in 1 .. len /\ len =< MaxLogins
      /\ \A j \in 1 .. len : j # i => j \in 1 .. Len(old)
  <2>1. CASE index = 0
    <3>1. len = Len(old) + 1 /\ i = Len(old) + 1
      BY <2>1
    <3> HIDE DEF len, old
    <3>2. \A j \in 1 .. len : j # i => j \in 1 .. Len(old)
      BY <1>1, <3>1
    <3> QED
      BY <1>1, <3>1, <3>2, BoundAssumption
  <2>2. CASE index # 0
    <3>1. len = Len(old) + 0 /\ i = index /\ i =< Len(old) + 0
      BY <2>2
    <3> QED
      BY <1>1, <2>2, <3>1
  <2> QED
    BY <2>1, <2>2
<1>0. servers' = [servers EXCEPT ![n] = more]
  OBVIOUS
<1> HIDE DEF len
<1>3. \A j \in 1 .. len : (IF j = i THEN login ELSE old[j]) \in Login
  <2> TAKE j \in 1 .. len
  <2>1. j # i => j \in 1 .. Len(old)
    BY <1>2
  <2> QED
    BY <1>1, <2>1, ElementOfSeq
<1>4. more \in Seq(Login) /\ Len(more) = len
  BY <1>2, <1>3, IsASeq, LenProperties
<1> HIDE DEF more
<1>7. /\ DOMAIN servers' = DOMAIN servers /\ servers' \in [DOMAIN servers -> Seq(Login)]
      /\ \A m \in DOMAIN servers : servers'[m] = IF m = n THEN more ELSE servers[m]
  BY <1>0, <1>4 DEF SettingsInv, Known
<1> HIDE DEF old
<1>8. Known(servers')
  BY <1>2, <1>4, <1>7 DEF SettingsInv, Known
<1>9. \A m \in Server : Len(servers[m]) =< Len(servers'[m])
  <2> TAKE m \in Server
  <2>1. Len(servers[m]) \in Nat
    BY LenProperties DEF SettingsInv, Known, Server
  <2> QED
    BY <1>2, <1>4, <1>7, <2>1 DEF Server, old
<1> QED
  BY <1>2, <1>4, <1>7, <1>8, <1>9 DEF Server

\* A login that is saved is selected in the list below.
LEMMA ApplyLoginStep ==
  ASSUME SettingsInv, Keys, OnForm, ApplyLogin, UNCHANGED <<confirm, asked>>
  PROVE  SettingsInv'
<1> DEFINE n == Top.of
           index == Top.index
           login == Top.form.login
           i == IF index = 0 THEN Len(servers[n]) + 1 ELSE index
<1>1. CASE Refuse
  BY <1>1, RefuseKeeps
<1>2. CASE /\ login # None /\ n \in Server
           /\ i =< Len(servers[n]) + (IF index = 0 THEN 1 ELSE 0) /\ i =< MaxLogins
           /\ servers' = [servers EXCEPT ![n] =
                [j \in 1 .. Len(@) + (IF index = 0 THEN 1 ELSE 0) |->
                   IF j = i THEN login ELSE @[j]]]
           /\ Return(Selecting(Below, i))
           /\ UNCHANGED custom
  <2>1. Top.node = "LoginForm" /\ Top \in Levels /\ login \in Login
    BY <1>2, TopFacts DEF ApplyLogin, FormsOf, LoginForm
  <2>2. index \in Nat /\ i \in Nat
    <3>1. Len(servers[n]) \in Nat
      BY <1>2, LenProperties DEF SettingsInv, Known, Server
    <3> QED
      BY <2>1, <3>1 DEF Levels
  <2>3. Len(path) > 1
    <3>1. Len(path) \in 1 .. Len(path)
      BY TopFacts
    <3> QED
      BY <2>1, <3>1, Depth DEF SettingsInv, Top
  <2>4. /\ Shape(Below) /\ Len(Below) \in Nat \ {0}
        /\ \A k \in 1 .. Len(Below) : Below[k] = path[k] /\ Below[k] \in Levels
        /\ AllSound(Below, servers)
        /\ Below[Len(Below)] = Parent /\ Follows(Parent, Top)
    BY <2>3, BelowFacts
  <2> HIDE DEF n, index, login
  <2>5. /\ Known(servers') /\ DOMAIN servers' = Server
        /\ i \in 1 .. Len(servers'[n])
        /\ \A m \in Server : Len(servers[m]) =< Len(servers'[m])
    BY <1>2, <2>1, <2>2, LoginKnown
  <2> HIDE DEF i
  <2>6. \A k \in 1 .. Len(Below) : Below[k].node # "LoginForm"
    BY <2>1, <2>3, <2>4, Inner, BelowFacts, TopFacts DEF SettingsInv
  <2>7. AllSound(Below, servers')
    BY <2>4, <2>5, <2>6, GrowthKeeps DEF AllSound, SettingsInv, Server
  <2>8. Rows(Parent, servers') = Len(servers'[n])
    BY <1>2, <2>1, <2>4, <2>5 DEF Follows, Rows, n
  <2>9. Len(servers'[n]) \in Nat
    BY <1>2, <2>5, LenProperties DEF Known
  <2>10. Shape(path') /\ AllSound(path', servers')
    BY <1>2, <2>2, <2>4, <2>5, <2>7, <2>8, <2>9, SelectingKeeps DEF Return
  <2>11. custom' \in BOOLEAN
    BY <1>2 DEF SettingsInv, Others
  <2> QED
    BY <1>2, <2>5, <2>10, <2>11, MovedKeeps DEF Return
<1> QED
  BY <1>1, <1>2 DEF ApplyLogin

\* save_server leaves a map of servers, with as many as before or one more.
LEMMA ServerKnown ==
  ASSUME SettingsInv, Top.of \in Server \cup {None}, Top.form.name \in Name,
         Top.form.name \notin Server \ {Top.of},
         servers' = [n \in (Server \ {Top.of}) \cup {Top.form.name} |->
                       IF n = Top.form.name
                       THEN IF Top.of \in Server THEN servers[Top.of] ELSE <<>>
                       ELSE servers[n]]
  PROVE  /\ Known(servers') /\ DOMAIN servers' = (Server \ {Top.of}) \cup {Top.form.name}
         /\ servers'[Top.form.name] = (IF Top.of \in Server THEN servers[Top.of] ELSE <<>>)
         /\ Cardinality(Server) =< Cardinality(DOMAIN servers')
         /\ Cardinality(Server) \in Nat /\ Cardinality(DOMAIN servers') \in Nat
<1> DEFINE old == Top.of
           new == Top.form.name
           logins == IF old \in Server THEN servers[old] ELSE <<>>
           others == Server \ {old}
           all == others \cup {new}
<1>0. servers' = [n \in all |-> IF n = new THEN logins ELSE servers[n]] /\ new \notin others
  OBVIOUS
<1>1. IsFiniteSet(Server) /\ Server \subseteq Name /\ None \notin Server
  BY NoneAssumption DEF SettingsInv, Known, Server
<1>2. logins \in Seq(Login) /\ Len(logins) \in Nat /\ Len(logins) =< MaxLogins
  <2>1. CASE old \in Server
    BY <2>1, LenProperties DEF SettingsInv, Known, Server
  <2>2. CASE old \notin Server
    BY <2>2, EmptySeq, BoundAssumption
  <2> QED
    BY <2>1, <2>2
<1>3. /\ IsFiniteSet(others) /\ IsFiniteSet(all) /\ Cardinality(all) = Cardinality(others) + 1
      /\ Cardinality(others) \in Nat /\ Cardinality(all) \in Nat /\ Cardinality(Server) \in Nat
  <2>1. IsFiniteSet(others) /\ Cardinality(others) \in Nat /\ Cardinality(Server) \in Nat
    BY <1>1, FS_RemoveElement, FS_CardinalityType
  <2> HIDE DEF others
  <2>2. IsFiniteSet(all) /\ Cardinality(all) = Cardinality(others) + 1
    BY <1>0, <2>1, FS_AddElement
  <2> QED
    BY <2>1, <2>2
<1>4. Cardinality(Server) =< Cardinality(all)
  <2>1. CASE old \in Server
    <3>1. Cardinality(others) = Cardinality(Server) - 1
      BY <1>1, <2>1, FS_RemoveElement
    <3> QED
      BY <1>3, <3>1
  <2>2. CASE old \notin Server
    <3>1. others = Server
      BY <2>2
    <3> HIDE DEF others, all
    <3> QED
      BY <1>3, <3>1
  <2> QED
    BY <2>1, <2>2
<1>5. /\ DOMAIN servers' = all
      /\ \A n \in all : servers'[n] = IF n = new THEN logins ELSE servers[n]
  BY <1>0
<1>6. Known(servers')
  <2>1. all \subseteq Name /\ others \subseteq DOMAIN servers
    BY <1>1 DEF Server
  <2>2. servers' \in [all -> Seq(Login)]
    BY <1>0, <1>2, <2>1 DEF SettingsInv, Known
  <2>3. \A n \in all : Len(servers'[n]) =< MaxLogins
    BY <1>2, <1>5, <2>1 DEF SettingsInv, Known
  <2> QED
    BY <1>3, <1>5, <2>1, <2>2, <2>3 DEF Known
<1> QED
  BY <1>2, <1>3, <1>4, <1>5, <1>6

\* A server form lies on the list of servers or on that of a server's logins.
LEMMA ServerFormDepth ==
  ASSUME SettingsInv, Top.node = "ServerForm"
  PROVE  Len(path) \in 3 .. 4 /\ Len(path) > 1
<1>1. Len(path) \in 1 .. Len(path) /\ Len(path) \in Nat
  BY TopFacts
<1>2. Len(path) \in 3 .. 4
  BY <1>1, Depth DEF SettingsInv, Top
<1> QED
  BY <1>1, <1>2

\* The levels below a server form, once its server has another name.
LEMMA RenamedKeeps ==
  ASSUME SettingsInv, Top.node = "ServerForm", NEW new \in Name,
         Known(servers'), DOMAIN servers' = (Server \ {Top.of}) \cup {new},
         servers'[new] = (IF Top.of \in Server THEN servers[Top.of] ELSE <<>>),
         Cardinality(Server) =< Cardinality(DOMAIN servers'),
         Cardinality(Server) \in Nat, Cardinality(DOMAIN servers') \in Nat
  PROVE  LET levels == Renamed(Below, Top.of, new) IN
         /\ Shape(levels) /\ AllSound(levels, servers')
         /\ levels[Len(levels)].node = Parent.node
<1> DEFINE old == Top.of
           levels == Renamed(Below, old, new)
<1>1. Len(path) \in 3 .. 4 /\ Len(path) > 1
  BY ServerFormDepth
<1>2. /\ Shape(Below) /\ Len(Below) = Len(path) - 1 /\ Len(Below) \in Nat \ {0}
      /\ \A i \in 1 .. Len(Below) : Below[i] = path[i] /\ Below[i] \in Levels
      /\ AllSound(Below, servers)
      /\ Below[Len(Below)] = Parent /\ Follows(Parent, Top)
  BY <1>1, BelowFacts
<1>3. DOMAIN Below = 1 .. Len(Below)
  BY <1>2, LenProperties DEF Shape
<1>4. \A i \in 1 .. Len(Below) :
        Below[i].node \in {"Root", "Connections", "ServerLogins", "Provider"}
  BY <1>2, Inner DEF SettingsInv
<1>5. \A i \in 1 .. Len(Below) :
        Below[i].node = "ServerLogins" => Below[i] = Parent /\ Parent.of = old
  <2> TAKE i \in 1 .. Len(Below)
  <2> HAVE Below[i].node = "ServerLogins"
  <2>1. i = 3
    BY <1>2, Depth
  <2>2. Len(Below) = 3
    BY <1>1, <1>2, <2>1
  <2> QED
    BY <1>2, <2>1, <2>2 DEF Follows
<1>6. /\ levels \in Seq(Levels) /\ Len(levels) = Len(Below)
      /\ \A i \in 1 .. Len(Below) :
           levels[i] = IF Below[i].node = "ServerLogins" /\ Below[i].of = old
                       THEN [Below[i] EXCEPT !.of = new] ELSE Below[i]
  <2> DEFINE at(i) == IF Below[i].node = "ServerLogins" /\ Below[i].of = old
                      THEN [Below[i] EXCEPT !.of = new] ELSE Below[i]
  <2>1. \A i \in 1 .. Len(Below) : at(i) \in Levels
    <3> TAKE i \in 1 .. Len(Below)
    <3>1. Below[i] \in Levels
      BY <1>2
    <3>2. CASE at(i) = Below[i]
      BY <3>1, <3>2
    <3>3. CASE at(i) = [Below[i] EXCEPT !.of = new]
      BY <3>1, <3>3 DEF Levels
    <3> QED
      BY <3>2, <3>3
  <2>2. levels = [i \in 1 .. Len(Below) |-> at(i)]
    BY <1>3 DEF Renamed
  <2> HIDE DEF at, levels
  <2>3. levels \in Seq(Levels) /\ Len(levels) = Len(Below)
    BY <1>2, <2>1, <2>2, IsASeq, LenProperties
  <2>4. \A i \in 1 .. Len(Below) : levels[i] = at(i)
    BY <2>2
  <2> QED
    BY <2>3, <2>4 DEF at
<1> HIDE DEF levels, old
<1>7. \A i \in 1 .. Len(Below) :
        /\ levels[i] \in Levels /\ levels[i].node = Below[i].node
        /\ levels[i].form = Below[i].form /\ levels[i].selected = Below[i].selected
        /\ levels[i].of = IF Below[i].node = "ServerLogins" THEN new ELSE Below[i].of
  <2> TAKE i \in 1 .. Len(Below)
  <2>1. Below[i] \in Levels
    BY <1>2
  <2>2. CASE Below[i].node = "ServerLogins"
    <3>1. levels[i] = [Below[i] EXCEPT !.of = new]
      BY <1>5, <1>6, <2>2
    <3> QED
      BY <2>1, <2>2, <3>1 DEF Levels
  <2>3. CASE Below[i].node # "ServerLogins"
    BY <1>6, <2>1, <2>3
  <2> QED
    BY <2>2, <2>3
<1>8. Shape(levels)
  <2>1. levels # <<>>
    BY <1>2, <1>6, EmptySeq
  <2>2. levels[1].node = "Root"
    BY <1>2, <1>7 DEF Shape
  <2>3. \A i \in 2 .. Len(levels) : Follows(levels[i - 1], levels[i])
    <3> TAKE i \in 2 .. Len(levels)
    <3>1. i \in 1 .. Len(Below) /\ i - 1 \in 1 .. Len(Below) /\ i \in 2 .. Len(Below)
      BY <1>2, <1>6
    <3>2. Follows(Below[i - 1], Below[i])
      BY <1>2, <3>1 DEF Shape
    <3> QED
      BY <1>4, <1>7, <3>1, <3>2 DEF Follows
  <2>4. \A i \in 1 .. Len(levels) : levels[i].form \in FormsOf(levels[i].node)
    BY <1>2, <1>6, <1>7 DEF Shape
  <2> QED
    BY <1>6, <2>1, <2>2, <2>3, <2>4 DEF Shape
<1>9. AllSound(levels, servers')
  <2> SUFFICES ASSUME NEW i \in 1 .. Len(Below)
               PROVE  Sound(levels[i], servers')
    BY <1>6 DEF AllSound
  <2>1. Sound(Below[i], servers) /\ Below[i].selected \in Nat \ {0}
    BY <1>2 DEF AllSound, Levels
  <2>2. CASE Below[i].node \in {"Root", "Provider"}
    BY <1>7, <2>1, <2>2 DEF Sound, Rows
  <2>3. CASE Below[i].node = "Connections"
    BY <1>7, <2>1, <2>3 DEF Sound, Rows, Server
  <2>4. CASE Below[i].node = "ServerLogins"
    <3>1. Below[i].of = old /\ old \in Server
      BY <1>5, <2>1, <2>4 DEF Sound, Server
    <3>2. levels[i].of = new /\ new \in DOMAIN servers' /\ servers'[new] = servers[old]
      BY <1>7, <2>4, <3>1 DEF old
    <3> QED
      BY <1>7, <2>1, <2>4, <3>1, <3>2 DEF Sound, Rows, Server
  <2> QED
    BY <1>4, <2>2, <2>3, <2>4
<1>10. levels[Len(levels)].node = Parent.node
  BY <1>2, <1>6, <1>7
<1> QED
  BY <1>8, <1>9, <1>10 DEF levels, old

\* A server that is saved is selected, or its logins are shown under its new name.
LEMMA ApplyServerStep ==
  ASSUME SettingsInv, Keys, OnForm, ApplyServer, UNCHANGED <<confirm, asked>>
  PROVE  SettingsInv'
<1> DEFINE old == Top.of
           new == Top.form.name
           others == Server \ {old}
           all == others \cup {new}
           logins == IF old \in Server THEN servers[old] ELSE <<>>
           levels == Renamed(Below, old, new)
           row == Row(all, new)
<1>1. CASE Refuse
  BY <1>1, RefuseKeeps
<1>2. CASE /\ new # None /\ new \notin others
           /\ servers' = [n \in all |-> IF n = new THEN logins ELSE servers[n]]
           /\ Return(IF Parent.node = "Connections" THEN Selecting(levels, row) ELSE levels)
           /\ UNCHANGED custom
  <2>1. Top.node = "ServerForm" /\ old \in Server \cup {None} /\ new \in Name
    BY <1>2, TopFacts DEF ApplyServer, FormsOf, ServerForm, Sound, Server
  <2>2. /\ Known(servers') /\ DOMAIN servers' = all /\ servers'[new] = logins
        /\ Cardinality(Server) =< Cardinality(DOMAIN servers')
        /\ Cardinality(Server) \in Nat /\ Cardinality(DOMAIN servers') \in Nat
    BY <1>2, <2>1, ServerKnown
  <2>3. /\ Shape(levels) /\ AllSound(levels, servers')
        /\ levels[Len(levels)].node = Parent.node
    BY <2>1, <2>2, RenamedKeeps
  <2>4. row \in 1 .. Cardinality(all)
    <3>1. all \in SUBSET Nat /\ IsFiniteSet(all) /\ new \in all
      BY <2>2, NameAssumption DEF Known
    <3> QED
      BY <3>1, RowType
  <2> HIDE DEF levels, row
  <2>5. Shape(path') /\ AllSound(path', servers')
    <3>1. CASE Parent.node = "Connections"
      <4>1. row \in Nat \ {0} /\ row =< Rows(levels[Len(levels)], servers')
        BY <2>2, <2>3, <2>4, <3>1 DEF Rows
      <4>2. path' = Selecting(levels, row)
        BY <1>2, <3>1 DEF Return
      <4> QED
        BY <2>3, <4>1, <4>2, SelectingKeeps
    <3>2. CASE Parent.node # "Connections"
      BY <1>2, <2>3, <3>2 DEF Return
    <3> QED
      BY <3>1, <3>2
  <2>6. custom' \in BOOLEAN
    BY <1>2 DEF SettingsInv, Others
  <2> QED
    BY <1>2, <2>2, <2>5, <2>6, MovedKeeps DEF Return
<1> QED
  BY <1>1, <1>2 DEF ApplyServer

\* A form that is saved goes away; one that is refused stays.
LEMMA ApplyStep ==
  ASSUME SettingsInv, Apply
  PROVE  SettingsInv'
<1>1. Keys /\ OnForm /\ UNCHANGED <<confirm, asked>>
  BY DEF Apply
<1>2. ASSUME Top.node \in {"App", "Provider"}, Return(Below), custom' \in BOOLEAN,
             UNCHANGED servers
      PROVE  SettingsInv'
  <2>1. Len(path) > 1
    <3>1. Len(path) \in 1 .. Len(path)
      BY TopFacts
    <3> QED
      BY <1>2, <3>1, Depth DEF SettingsInv, Top
  <2>2. Shape(path') /\ AllSound(path', servers')
    BY <1>2, <2>1, BelowFacts DEF Return
  <2>3. Known(servers')
    BY <1>2 DEF SettingsInv
  <2> QED
    BY <1>1, <1>2, <2>2, <2>3, MovedKeeps DEF Return
<1>3. CASE ApplyServer
  BY <1>1, <1>3, ApplyServerStep
<1>4. CASE ApplyLogin
  BY <1>1, <1>4, ApplyLoginStep
<1>5. CASE ApplyApp
  BY <1>1, <1>2, <1>5, RefuseKeeps DEF ApplyApp
<1>6. CASE ApplyProvider
  <2>1. custom \in BOOLEAN
    BY DEF SettingsInv, Others
  <2> QED
    BY <1>1, <1>2, <1>6, <2>1, RefuseKeeps DEF ApplyProvider
<1> QED
  BY <1>3, <1>4, <1>5, <1>6 DEF Apply

\* The invariant holds whatever keys are pressed and whatever is answered meanwhile.
LEMMA SettingsInvariant == Spec => []SettingsInv
<1>1. Init => SettingsInv
  <2> SUFFICES ASSUME Init PROVE SettingsInv
    OBVIOUS
  <2> DEFINE root == Level("Root", None, None)
  <2>1. PICK S \in {T \in SUBSET Name : IsFiniteSet(T)} : servers \in [S -> {<<>>, <<Default>>}]
    BY DEF Init
  <2>2. <<>> \in Seq(Login) /\ <<Default>> \in Seq(Login) /\ Len(<<>>) = 0 /\ Len(<<Default>>) = 1
    BY NameAssumption
  <2>3. Known(servers)
    <3>1. DOMAIN servers = S /\ \A n \in S : servers[n] \in {<<>>, <<Default>>}
      BY <2>1
    <3>2. servers \in [S -> Seq(Login)] /\ \A n \in S : Len(servers[n]) =< MaxLogins
      <4>1. servers \in [S -> Seq(Login)]
        BY <2>1, <2>2
      <4>2. 0 =< MaxLogins /\ 1 =< MaxLogins
        BY BoundAssumption
      <4> QED
        BY <2>2, <3>1, <4>1, <4>2
    <3> QED
      BY <3>1, <3>2 DEF Known
  <2>4. Others
    <3>1. 0 \in 0 .. MaxAsked
      BY BoundAssumption
    <3>2. asked \in [Provider -> 0 .. MaxAsked]
      BY <3>1 DEF Init
    <3> QED
      BY <3>2 DEF Init, Others
  <2>5. root \in Levels /\ root.node = "Root" /\ root.form = None /\ root.selected = 1
    BY LevelType DEF Node
  <2> HIDE DEF root
  <2>6. path = <<root>>
    BY DEF Init, root
  <2>7. path \in Seq(Levels) /\ path # <<>> /\ Len(path) = 1 /\ path[1] = root
    BY <2>5, <2>6
  <2>8. Shape(path) /\ AllSound(path, servers)
    BY <2>5, <2>7 DEF Shape, AllSound, Sound, FormsOf
  <2>9. ConfirmSound /\ DiscardsRefused
    BY DEF Init, ConfirmSound, DiscardsRefused
  <2> QED
    BY <2>3, <2>4, <2>8, <2>9 DEF SettingsInv
<1>2. SettingsInv /\ [Next]_vars => SettingsInv'
  <2> SUFFICES ASSUME SettingsInv, [Next]_vars PROVE SettingsInv'
    OBVIOUS
  <2>1. CASE Down \/ Up
    BY <2>1, MoveStep
  <2>2. CASE Enter
    BY <2>2, EnterStep
  <2>3. CASE AddServer
    BY <2>3, AddServerStep
  <2>4. CASE AddLogin
    BY <2>4, AddLoginStep
  <2>5. CASE EditServer
    BY <2>5, EditServerStep
  <2>6. CASE Ask
    BY <2>6, AskStep
  <2>7. CASE Delete
    BY <2>7, DeleteStep
  <2>8. CASE Cancel
    BY <2>8, CancelStep
  <2>9. CASE Type
    BY <2>9, TypeStep
  <2>10. CASE Apply
    BY <2>10, ApplyStep
  <2>11. CASE Back
    BY <2>11, BackStep
  <2>12. CASE Close
    BY <2>12, CloseStep
  <2>13. CASE OpenModels
    BY <2>13, OpenModelsStep
  <2>14. CASE PickModel
    BY <2>14, PickModelStep
  <2>15. ASSUME NEW p \in Provider, OnModels(p) PROVE SettingsInv'
    BY <2>15, OnModelsStep
  <2>16. CASE UNCHANGED vars
    BY <2>16 DEF vars, SettingsInv, Others, ConfirmSound, DiscardsRefused, OnForm, Top, Server
  <2> QED
    BY <2>1, <2>2, <2>3, <2>4, <2>5, <2>6, <2>7, <2>8, <2>9, <2>10, <2>11, <2>12, <2>13,
       <2>14, <2>15, <2>16 DEF Next
<1> QED
  BY <1>1, <1>2, PTL DEF Spec

(***************************************************************************)
(* Theorems.                                                               *)
(***************************************************************************)
\* Every variable of the overlay keeps its type, and a form the fields of its node.
THEOREM TypeCorrect == Spec => []TypeOK
BY SettingsInvariant, InvSuffices, PTL

\* Whatever the overlay names exists, although forms and questions rename, delete and
\* add servers and logins while names and indices of them are on the path.
THEOREM PathCorrect == Spec => []PathExists
BY SettingsInvariant, InvSuffices, PTL

\* Esc under an error drops only what was refused: the edits since then were not lost.
THEOREM DiscardsCorrect == Spec => []DiscardsRefused
<1>1. SettingsInv => DiscardsRefused
  BY DEF SettingsInv
<1> QED
  BY <1>1, SettingsInvariant, PTL

\* scroll_window shows the selected item whatever the length of the list and the
\* height of the terminal, and its arrows tell the truth.
THEOREM SelectionShown ==
  ASSUME NEW len \in Nat, NEW visible \in Nat \ {0}, NEW selected \in 0 .. len - 1
  PROVE  Shows(ScrollWindow(len, visible, selected), len, visible, selected)
<1> DEFINE mid == visible - 2
           from == Less(selected, mid \div 2)
<1>1. CASE len =< visible
  BY <1>1 DEF ScrollWindow, View, Shows
<1>2. CASE len > visible /\ visible < 3
  <2>1. visible = 1 \/ visible = 2
    BY <1>2
  <2>2. CASE visible = 1
    BY <1>2, <2>2 DEF ScrollWindow, View, Shows, Less, Smaller
  <2>3. CASE visible = 2
    BY <1>2, <2>3 DEF ScrollWindow, View, Shows, Less, Smaller
  <2> QED
    BY <2>1, <2>2, <2>3
<1>3. CASE len > visible /\ visible >= 3
  <2>1. /\ mid \in Nat /\ mid >= 1
        /\ mid \div 2 \in Nat /\ mid \div 2 < mid /\ 2 * (mid \div 2) =< mid
    BY <1>3
  <2>2. /\ from \in Nat /\ from =< selected /\ selected =< from + mid \div 2
    BY <2>1 DEF Less
  <2>3. CASE from =< 1
    <3>1. ScrollWindow(len, visible, selected) = View(0, visible - 1, FALSE, TRUE)
      BY <1>3, <2>3 DEF ScrollWindow, View, Less
    <3> QED
      BY <1>3, <2>1, <2>2, <2>3, <3>1 DEF View, Shows
  <2>4. CASE from > 1 /\ from + mid >= len - 1
    <3>1. ScrollWindow(len, visible, selected)
            = View(len - (visible - 1), visible - 1, TRUE, FALSE)
      BY <1>3, <2>4 DEF ScrollWindow, View, Less
    <3> QED
      BY <1>3, <2>1, <2>2, <2>4, <3>1 DEF View, Shows
  <2>5. CASE from > 1 /\ ~(from + mid >= len - 1)
    <3>1. ScrollWindow(len, visible, selected) = View(from, mid, TRUE, TRUE)
      BY <1>3, <2>5 DEF ScrollWindow, View, Less
    <3>2. from < len
      BY <1>3, <2>2
    <3> QED
      BY <1>3, <2>1, <2>2, <2>5, <3>1, <3>2 DEF View, Shows
  <2> QED
    BY <2>2, <2>3, <2>4, <2>5
<1> QED
  BY <1>1, <1>2, <1>3

\* Every menu the user reaches shows its selected row.
THEOREM SelectedShownCorrect == Spec => []SelectedShown
<1>1. SettingsInv => SelectedShown
  <2> SUFFICES ASSUME SettingsInv, NEW visible \in 1 .. 5, Count > 0
               PROVE  Shows(ScrollWindow(Count, visible, Top.selected - 1), Count, visible,
                            Top.selected - 1)
    BY DEF SelectedShown
  <2>1. Count \in Nat /\ Top.selected \in Nat \ {0}
    BY TopFacts
  <2>2. Top.selected =< Count \/ Top.selected = 1
    BY TopFacts DEF Sound, Count
  <2>3. Top.selected - 1 \in 0 .. Count - 1
    BY <2>1, <2>2
  <2> QED
    BY <2>1, <2>3, SelectionShown
<1> QED
  BY <1>1, SettingsInvariant, PTL

(***************************************************************************)
(* Counting the entries that hold a login.                                 *)
(***************************************************************************)
\* The places where a login is found.
Holding(known, login) ==
  {s \in (DOMAIN known) \X (1 .. MaxLogins) :
     s[2] \in DOMAIN known[s[1]] /\ known[s[1]][s[2]] = login}

\* There are finitely many of them.
LEMMA HoldingFacts ==
  ASSUME NEW known, Known(known), NEW login
  PROVE  /\ IsFiniteSet(Holding(known, login)) /\ Times(known, login) \in Nat
         /\ Times(known, login) = Cardinality(Holding(known, login))
         /\ \A n, j : <<n, j>> \in Holding(known, login) <=>
              n \in DOMAIN known /\ j \in 1 .. Len(known[n]) /\ known[n][j] = login
         /\ \A s \in Holding(known, login) : s = <<s[1], s[2]>>
<1>1. IsFiniteSet((DOMAIN known) \X (1 .. MaxLogins))
  <2>1. 1 \in Int /\ MaxLogins \in Int
    BY BoundAssumption
  <2>2. IsFiniteSet(1 .. MaxLogins) /\ IsFiniteSet(DOMAIN known)
    BY <2>1, FS_Interval DEF Known
  <2> QED
    BY <2>2, FS_Product
<1>2. IsFiniteSet(Holding(known, login))
  BY <1>1, FS_Subset DEF Holding
<1>3. Times(known, login) = Cardinality(Holding(known, login))
  BY DEF Times, Holding
<1>4. ASSUME NEW n, NEW j
      PROVE  <<n, j>> \in Holding(known, login) <=>
               n \in DOMAIN known /\ j \in 1 .. Len(known[n]) /\ known[n][j] = login
  <2>1. n \in DOMAIN known =>
          /\ DOMAIN known[n] = 1 .. Len(known[n])
          /\ Len(known[n]) \in Nat /\ Len(known[n]) =< MaxLogins
    BY LenProperties DEF Known
  <2>2. n \in DOMAIN known /\ j \in 1 .. Len(known[n]) => j \in 1 .. MaxLogins
    BY <2>1, BoundAssumption
  <2> QED
    BY <2>1, <2>2 DEF Holding
<1>5. \A s \in Holding(known, login) : s = <<s[1], s[2]>>
  BY DEF Holding
<1> QED
  BY <1>2, <1>3, <1>4, <1>5, FS_CardinalityType

\* Nothing is lost where every login that is found is found in the same place.
LEMMA NoneLost ==
  ASSUME NEW known, Known(known), NEW more, Known(more), NEW login,
         \A n \in DOMAIN known : \A j \in 1 .. Len(known[n]) :
           known[n][j] = login =>
             n \in DOMAIN more /\ j \in 1 .. Len(more[n]) /\ more[n][j] = login
  PROVE  ~(Times(more, login) < Times(known, login))
<1>1. Holding(known, login) \subseteq Holding(more, login)
  BY HoldingFacts
<1>2. Cardinality(Holding(known, login)) =< Cardinality(Holding(more, login))
  BY <1>1, HoldingFacts, FS_Subset
<1> QED
  BY <1>2, HoldingFacts

\* A renamed server keeps its logins.
LEMMA NoneRenamed ==
  ASSUME SettingsInv, Known(servers'), NEW old, NEW new, new \notin Server \ {old},
         DOMAIN servers' = (Server \ {old}) \cup {new},
         old \in Server => servers'[new] = servers[old],
         \A n \in (Server \ {old}) : servers'[n] = servers[n],
         NEW login
  PROVE  ~(Times(servers', login) < Times(servers, login))
<1> DEFINE H == Holding(servers, login)
           G == Holding(servers', login)
           f == [s \in H |-> IF s[1] = old THEN <<new, s[2]>> ELSE s]
<1>0. Known(servers) /\ Known(servers')
  BY DEF SettingsInv
<1>1. /\ \A n, j : <<n, j>> \in H <=>
           n \in Server /\ j \in 1 .. Len(servers[n]) /\ servers[n][j] = login
      /\ \A s \in H : s = <<s[1], s[2]>>
  BY <1>0, HoldingFacts DEF Server
<1>2. \A n, j : <<n, j>> \in G <=>
        n \in DOMAIN servers' /\ j \in 1 .. Len(servers'[n]) /\ servers'[n][j] = login
  BY <1>0, HoldingFacts
<1>3. IsFiniteSet(G) /\ Cardinality(G) \in Nat /\ Cardinality(H) \in Nat
  BY <1>0, HoldingFacts
<1> HIDE DEF H, G
<1>4. \A s \in H : f[s] \in G
  <2> TAKE s \in H
  <2>1. /\ s = <<s[1], s[2]>> /\ s[1] \in Server /\ s[2] \in 1 .. Len(servers[s[1]])
        /\ servers[s[1]][s[2]] = login
    BY <1>1
  <2>2. CASE s[1] = old
    <3>1. new \in DOMAIN servers' /\ servers'[new] = servers[old]
      BY <2>1, <2>2
    <3>2. <<new, s[2]>> \in G
      BY <1>2, <2>1, <2>2, <3>1
    <3> QED
      BY <2>2, <3>2
  <2>3. CASE s[1] # old
    <3>1. s[1] \in DOMAIN servers' /\ servers'[s[1]] = servers[s[1]]
      BY <2>1, <2>3
    <3>2. <<s[1], s[2]>> \in G
      BY <1>2, <2>1, <3>1
    <3> QED
      BY <2>1, <2>3, <3>2
  <2> QED
    BY <2>2, <2>3
<1>5. \A a, b \in H : f[a] = f[b] => a = b
  <2> TAKE a, b \in H
  <2> HAVE f[a] = f[b]
  <2>1. /\ a = <<a[1], a[2]>> /\ a[1] \in Server
        /\ b = <<b[1], b[2]>> /\ b[1] \in Server
    BY <1>1
  <2>2. /\ f[a] = IF a[1] = old THEN <<new, a[2]>> ELSE a
        /\ f[b] = IF b[1] = old THEN <<new, b[2]>> ELSE b
    OBVIOUS
  <2>3. a[1] = b[1] /\ a[2] = b[2]
    <3>1. f[a][2] = a[2] /\ f[b][2] = b[2]
      BY <2>1, <2>2
    <3>2. /\ f[a][1] = IF a[1] = old THEN new ELSE a[1]
          /\ f[b][1] = IF b[1] = old THEN new ELSE b[1]
      BY <2>1, <2>2
    <3>3. f[a][1] = f[b][1] /\ f[a][2] = f[b][2]
      OBVIOUS
    <3> HIDE DEF f
    <3> QED
      BY <2>1, <3>1, <3>2, <3>3
  <2> QED
    BY <2>1, <2>3
<1>6. f \in [H -> G]
  BY <1>4
<1> HIDE DEF f
<1>7. Cardinality(H) =< Cardinality(G)
  BY <1>3, <1>5, <1>6, Fun_IsInj, FS_Injection
<1> QED
  BY <1>0, <1>3, <1>7, HoldingFacts DEF H, G

\* A login that is deleted is lost once; no other login is.
LEMMA OneDeleted ==
  ASSUME SettingsInv, confirm # None, confirm.index # 0,
         servers' = WithoutLogin(confirm.of, confirm.index),
         NEW login, Times(servers', login) < Times(servers, login)
  PROVE  confirm.label = login /\ Times(servers', login) = Times(servers, login) - 1
<1> DEFINE n == confirm.of
           i == confirm.index
           H == Holding(servers, login)
           G == Holding(servers', login)
           K == H \ {<<n, i>>}
           f == [s \in K |-> IF s[1] = n /\ s[2] > i THEN <<n, s[2] - 1>> ELSE s]
<1>0. /\ Known(servers) /\ Known(servers') /\ DOMAIN servers' = Server
      /\ n \in Server /\ i \in 1 .. Len(servers[n]) /\ i \in Nat
      /\ confirm.label = servers[n][i]
  BY DeletedKnown DEF SettingsInv, ConfirmSound
<1>1. /\ \A m, j : <<m, j>> \in H <=>
           m \in Server /\ j \in 1 .. Len(servers[m]) /\ servers[m][j] = login
      /\ \A s \in H : s = <<s[1], s[2]>>
  BY <1>0, HoldingFacts DEF Server
<1>2. /\ \A m, j : <<m, j>> \in G <=>
           m \in Server /\ j \in 1 .. Len(servers'[m]) /\ servers'[m][j] = login
      /\ \A s \in G : s = <<s[1], s[2]>>
  BY <1>0, HoldingFacts
<1>3. IsFiniteSet(H) /\ Cardinality(G) \in Nat /\ Cardinality(H) \in Nat
  BY <1>0, HoldingFacts
<1>4. /\ \A m \in Server : m # n => servers'[m] = servers[m]
      /\ Len(servers'[n]) = Len(servers[n]) - 1 /\ Len(servers[n]) \in Nat
      /\ \A j \in 1 .. Len(servers[n]) - 1 :
           servers'[n][j] = IF j < i THEN servers[n][j] ELSE servers[n][j + 1]
  <2> DEFINE less == [j \in 1 .. Len(servers[n]) - 1 |->
                        IF j < i THEN servers[n][j] ELSE servers[n][j + 1]]
  <2>1. servers' = [servers EXCEPT ![n] = less]
    BY DEF WithoutLogin
  <2>2. servers'[n] = less /\ \A m \in Server : m # n => servers'[m] = servers[m]
    BY <1>0, <2>1 DEF Server
  <2>3. Len(servers[n]) \in Nat /\ servers'[n] \in Seq(Login)
    BY <1>0, LenProperties DEF Known, Server
  <2>4. Len(servers'[n]) = Len(servers[n]) - 1
    <3>1. Len(servers[n]) - 1 \in Nat
      BY <1>0, <2>3
    <3>2. DOMAIN servers'[n] = 1 .. Len(servers[n]) - 1
      BY <2>2
    <3> HIDE DEF less
    <3> QED
      BY <2>3, <3>1, <3>2, LenProperties
  <2> QED
    BY <2>2, <2>3, <2>4
<1> HIDE DEF H, G, n, i
<1>5. IsFiniteSet(K)
  BY <1>3, FS_RemoveElement
<1>6. ASSUME NEW s \in K
      PROVE  /\ s = <<s[1], s[2]>> /\ s[1] \in Server /\ s[2] \in 1 .. Len(servers[s[1]])
             /\ servers[s[1]][s[2]] = login /\ s[1] = n => s[2] # i
  BY <1>1
<1>7. \A s \in K : f[s] \in G
  <2> TAKE s \in K
  <2>1. /\ s = <<s[1], s[2]>> /\ s[1] \in Server /\ s[2] \in 1 .. Len(servers[s[1]])
        /\ servers[s[1]][s[2]] = login
        /\ s[1] = n => s[2] # i
    BY <1>1
  <2>2. CASE s[1] # n
    <3>1. <<s[1], s[2]>> \in G
      BY <1>2, <1>4, <2>1, <2>2
    <3> QED
      BY <2>1, <2>2, <3>1
  <2>3. CASE s[1] = n /\ s[2] > i
    <3>1. /\ s[2] - 1 \in 1 .. Len(servers[n]) - 1 /\ ~(s[2] - 1 < i) /\ (s[2] - 1) + 1 = s[2]
      BY <1>0, <1>4, <2>1, <2>3
    <3>2. <<n, s[2] - 1>> \in G
      BY ZenonT(30), <1>0, <1>2, <1>4, <2>1, <2>3, <3>1
    <3> QED
      BY <2>3, <3>2
  <2>4. CASE s[1] = n /\ ~(s[2] > i)
    <3>1. s[2] \in 1 .. Len(servers[n]) - 1 /\ s[2] < i
      BY <1>0, <1>4, <2>1, <2>4
    <3>2. <<s[1], s[2]>> \in G
      BY <1>0, <1>2, <1>4, <2>1, <2>4, <3>1
    <3> QED
      BY <2>1, <2>4, <3>2
  <2> QED
    BY <2>2, <2>3, <2>4
<1>8. \A a, b \in K : f[a] = f[b] => a = b
  <2> TAKE a, b \in K
  <2> HAVE f[a] = f[b]
  <2>1. /\ a = <<a[1], a[2]>> /\ a[2] \in Nat /\ (a[1] = n => a[2] # i)
        /\ b = <<b[1], b[2]>> /\ b[2] \in Nat /\ (b[1] = n => b[2] # i)
    <3>1. \A m \in Server : Len(servers[m]) \in Nat
      BY <1>0, LenProperties DEF Known, Server
    <3> QED
      BY <1>1, <3>1
  <2>2. /\ f[a] = IF a[1] = n /\ a[2] > i THEN <<n, a[2] - 1>> ELSE a
        /\ f[b] = IF b[1] = n /\ b[2] > i THEN <<n, b[2] - 1>> ELSE b
    OBVIOUS
  <2>3. /\ f[a][1] = a[1] /\ f[a][2] = IF a[1] = n /\ a[2] > i THEN a[2] - 1 ELSE a[2]
        /\ f[b][1] = b[1] /\ f[b][2] = IF b[1] = n /\ b[2] > i THEN b[2] - 1 ELSE b[2]
    BY <2>1, <2>2
  <2>4. f[a][1] = f[b][1] /\ f[a][2] = f[b][2]
    OBVIOUS
  <2> HIDE DEF f
  <2>5. a[1] = b[1] /\ a[2] = b[2]
    BY <1>0, <2>1, <2>3, <2>4
  <2> QED
    BY <2>1, <2>5
<1>9. \A t \in G : \E s \in K : f[s] = t
  <2> TAKE t \in G
  <2>1. /\ t = <<t[1], t[2]>> /\ t[1] \in Server /\ t[2] \in 1 .. Len(servers'[t[1]])
        /\ servers'[t[1]][t[2]] = login
    BY <1>2
  <2>2. CASE t[1] # n
    <3>1. t \in K
      BY <1>1, <1>4, <2>1, <2>2
    <3> QED
      BY <2>2, <3>1
  <2>3. CASE t[1] = n /\ t[2] < i
    <3>1. t[2] \in 1 .. Len(servers[n]) /\ servers[n][t[2]] = login /\ ~(t[2] > i) /\ t[2] # i
      BY <1>0, <1>4, <2>1, <2>3
    <3>2. <<t[1], t[2]>> \in H
      BY <1>0, <1>1, <2>3, <3>1
    <3>3. t \in K
      BY <2>1, <3>1, <3>2
    <3> QED
      BY <3>1, <3>3
  <2>4. CASE t[1] = n /\ ~(t[2] < i)
    <3> DEFINE s == <<n, t[2] + 1>>
    <3>1. /\ t[2] + 1 \in 1 .. Len(servers[n]) /\ servers[n][t[2] + 1] = login
          /\ t[2] + 1 > i /\ t[2] + 1 # i /\ (t[2] + 1) - 1 = t[2]
      <4>1. /\ t[2] \in 1 .. Len(servers[n]) - 1 /\ ~(t[2] < i)
            /\ servers'[n][t[2]] = login
        BY <1>4, <2>1, <2>4
      <4>2. servers[n][t[2] + 1] = login
        BY <1>4, <4>1
      <4>3. t[2] \in Nat /\ i \in Nat /\ Len(servers[n]) \in Nat
        BY <1>0, <1>4, <4>1
      <4> QED
        BY <4>1, <4>2, <4>3
    <3>2. s \in H
      BY <1>0, <1>1, <3>1
    <3>3. s \in K /\ s[1] = n /\ s[2] = t[2] + 1
      BY <3>1, <3>2
    <3>4. f[s] = <<n, (t[2] + 1) - 1>>
      BY <3>1, <3>3
    <3> QED
      BY <2>1, <2>4, <3>1, <3>3, <3>4
  <2> QED
    BY <2>2, <2>3, <2>4
<1>10. f \in [K -> G]
  BY <1>7
<1> HIDE DEF f
<1>11. f \in Bijection(K, G)
  BY <1>8, <1>9, <1>10, Fun_IsBij
<1>12. Cardinality(G) = Cardinality(K)
  BY <1>5, <1>11, FS_Bijection DEF ExistsBijection
<1>13. Cardinality(K) = IF <<n, i>> \in H THEN Cardinality(H) - 1 ELSE Cardinality(H)
  BY <1>3, FS_RemoveElement
<1>14. Cardinality(G) < Cardinality(H)
  BY <1>0, HoldingFacts DEF G, H
<1>15. <<n, i>> \in H /\ Cardinality(G) = Cardinality(H) - 1
  BY <1>3, <1>12, <1>13, <1>14
<1>16. confirm.label = login
  BY <1>0, <1>1, <1>15
<1> QED
  BY <1>0, <1>15, <1>16, HoldingFacts DEF G, H

\* No sequence of keys and answers makes a login disappear but the one the question
\* named, the ones of the server it named, or the one the form was opened for.
THEOREM LosesCorrect == Spec => LosesOnlyChosen
<1> DEFINE Chosen(login) ==
             \/ /\ confirm # None /\ confirm.index = 0
                /\ \A n \in Server \ {confirm.of} :
                     n \in DOMAIN servers' /\ servers'[n] = servers[n]
             \/ /\ confirm # None /\ confirm.label = login
                /\ Times(servers', login) = Times(servers, login) - 1
             \/ Top.node = "LoginForm" /\ Top.opened = login
           Loss == \A login \in Login :
                     Times(servers', login) < Times(servers, login) => Chosen(login)
<1>1. ASSUME SettingsInv, SettingsInv', [Next]_vars PROVE Loss
  <2> SUFFICES ASSUME NEW login \in Login, Times(servers', login) < Times(servers, login)
               PROVE  Chosen(login)
    OBVIOUS
  <2>0. /\ Known(servers) /\ Known(servers')
        /\ Times(servers, login) \in Nat /\ Times(servers', login) \in Nat
    BY <1>1, HoldingFacts DEF SettingsInv
  <2>1. servers' # servers
    BY <2>0
  <2>2. CASE Delete
    <3>1. confirm # None
      BY <2>2 DEF Delete
    <3>2. CASE confirm.index = 0
      <4>1. servers' = WithoutServer(confirm.of)
        BY <2>1, <2>2, <3>2 DEF Delete
      <4> QED
        BY <3>1, <3>2, <4>1 DEF WithoutServer
    <3>3. CASE confirm.index # 0
      <4>1. servers' = WithoutLogin(confirm.of, confirm.index)
        BY <2>1, <2>2, <3>3 DEF Delete
      <4> QED
        BY <1>1, <3>1, <3>3, <4>1, OneDeleted
    <3> QED
      BY <3>2, <3>3
  <2>3. CASE ApplyServer
    <3>1. /\ Top.form.name \notin Server \ {Top.of}
          /\ servers' = [n \in (Server \ {Top.of}) \cup {Top.form.name} |->
               IF n = Top.form.name
               THEN IF Top.of \in Server THEN servers[Top.of] ELSE <<>>
               ELSE servers[n]]
      BY <2>1, <2>3 DEF ApplyServer, Refuse
    <3>2. /\ DOMAIN servers' = (Server \ {Top.of}) \cup {Top.form.name}
          /\ Top.of \in Server => servers'[Top.form.name] = servers[Top.of]
          /\ \A n \in Server \ {Top.of} : servers'[n] = servers[n]
      BY <3>1
    <3> QED
      BY <1>1, <2>0, <3>1, <3>2, NoneRenamed
  <2>4. CASE ApplyLogin
    <3> DEFINE n == Top.of
               extra == IF Top.index = 0 THEN 1 ELSE 0
               i == IF Top.index = 0 THEN Len(servers[n]) + 1 ELSE Top.index
    <3>1. /\ Top.node = "LoginForm" /\ n \in Server
          /\ servers' = [servers EXCEPT ![n] =
               [j \in 1 .. Len(@) + extra |-> IF j = i THEN Top.form.login ELSE @[j]]]
      BY <2>1, <2>4 DEF ApplyLogin, Refuse
    <3>2. Len(servers[n]) \in Nat
      BY <2>0, <3>1, LenProperties DEF Known, Server
    <3>3. PICK m \in Server : \E j \in 1 .. Len(servers[m]) :
            /\ servers[m][j] = login
            /\ ~(j \in 1 .. Len(servers'[m]) /\ servers'[m][j] = login)
      <4>1. DOMAIN servers' = DOMAIN servers
        BY <3>1
      <4> QED
        BY <2>0, <4>1, NoneLost DEF Server
    <3>4. m = n
      BY <3>1, <3>3 DEF Server
    <3>5. PICK j \in 1 .. Len(servers[n]) :
            /\ servers[n][j] = login
            /\ ~(j \in 1 .. Len(servers'[n]) /\ servers'[n][j] = login)
      BY <3>3, <3>4
    <3>6. servers'[n] = [k \in 1 .. Len(servers[n]) + extra |->
                           IF k = i THEN Top.form.login ELSE servers[n][k]]
      BY <3>1 DEF Server
    <3>7. j \in 1 .. Len(servers[n]) + extra
      <4>1. extra \in Nat
        OBVIOUS
      <4> HIDE DEF extra
      <4> QED
        BY <3>2, <4>1
    <3>8. j \in 1 .. Len(servers'[n])
      <4>1. DOMAIN servers'[n] = 1 .. Len(servers'[n])
        BY <2>0, <3>1, LenProperties DEF Known, Server
      <4>2. DOMAIN servers'[n] = 1 .. Len(servers[n]) + extra
        BY <3>6
      <4> HIDE DEF extra, n
      <4> QED
        BY <3>7, <4>1, <4>2
    <3>9. j = i
      BY <3>5, <3>6, <3>7, <3>8
    <3>10. Top.index # 0 /\ Top.index = j
      BY <3>2, <3>9
    <3>11. Top.opened = login
      BY <1>1, <3>1, <3>5, <3>10, TopFacts DEF Sound
    <3> QED
      BY <3>1, <3>11
  <2>5. CASE \/ Down \/ Up \/ Enter \/ AddServer \/ AddLogin \/ EditServer \/ Ask \/ Cancel
             \/ Type \/ ApplyApp \/ ApplyProvider \/ Back \/ Close \/ OpenModels \/ PickModel
             \/ (\E p \in Provider : OnModels(p)) \/ UNCHANGED vars
    BY <2>1, <2>5 DEF Down, Up, Enter, AddServer, AddLogin, EditServer, Ask, Cancel, Type,
       ApplyApp, ApplyProvider, Refuse, Back, Close, OpenModels, PickModel, OnModels, vars
  <2> QED
    BY <1>1, <2>2, <2>3, <2>4, <2>5 DEF Next, Apply
<1> HIDE DEF Loss
<1>2. SettingsInv /\ SettingsInv' /\ [Next]_vars => [Loss]_vars
  BY <1>1
<1>3. Spec => [][Loss]_vars
  BY <1>2, SettingsInvariant, PTL DEF Spec
<1> QED
  BY <1>3 DEF Loss, LosesOnlyChosen

=============================================================================
