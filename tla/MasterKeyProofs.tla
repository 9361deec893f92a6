--------------------------- MODULE MasterKeyProofs --------------------------
(***************************************************************************)
(* Theorems about MasterKey, for any number of processes, keys and         *)
(* profiles and for both kinds of key store.  The inductive invariant has  *)
(* three parts beside the types: what a process knows while it works on a  *)
(* file (Locals), what holds as long as nobody raced and no lookup took    *)
(* the key for missing (Unraced), and what holds of a settled key in any   *)
(* case (Settled).                                                         *)
(***************************************************************************)
EXTENDS MasterKey, TLAPS

\* What process p has read and generated when it gets to a step.
Locals ==
  \A p \in Proc :
    /\ pc[p] \in {"down", "loading", "ready"} => key[p] = None /\ text[p] = None
    /\ pc[p] \in {"emptied", "filled"} => key[p] \in Key
    /\ pc[p] \in {"keyed", "torn"} => key[p] # None
    /\ pc[p] = "keyed" /\ op[p].kind = "open" => key[p] \in Secret
    /\ pc[p] \in {"lookup", "keyless", "emptied", "filled", "keyed"} /\ op[p].kind = "open"
         => text[p] \in Secret

\* The keys that are past their creation.
Held(p) == pc[p] \in {"filled", "keyed", "torn"} /\ key[p] \in Secret

\* Without a race or a missed key one process creates the key, while nothing is
\* sealed yet, and whatever is sealed, read or held is under the stored key.
Unraced ==
  ~raced /\ ~missed =>
    /\ \A p, q \in Creating : p = q
    /\ \A f \in File : file[f] \in Secret => Creating = {} /\ file[f] = stored
    /\ \A p \in Proc : Held(p) => Creating = {} /\ key[p] = stored
    /\ \A p \in Proc : text[p] \in Secret => Creating = {} /\ text[p] = stored

\* A settled key is stored, held or used for a file only while nobody creates one.
Settled ==
  /\ \A p \in settled : /\ pc[p] \in {"keyed", "torn"}
                         /\ Creating = {} /\ stored \in Secret /\ key[p] = stored
  /\ \A f \in firm : Creating = {} /\ stored \in Secret /\ file[f] = stored

\* The constants that stand for no key are no keys.
LEMMA Distinct ==
  /\ None \notin Secret /\ Plain \notin Secret /\ Torn \notin Secret
  /\ Blank \notin Key /\ None # Plain /\ None # Torn /\ Plain # Torn
BY DistinctAssumption DEF Secret

\* Every step keeps the types.
LEMMA TypeStep ==
  ASSUME TypeOK, Locals, [Next]_vars
  PROVE  TypeOK'
<1> USE Distinct DEF TypeOK, Locals, PC, Op, Content, Secret
<1>1. ASSUME NEW p \in Proc, Start(p) PROVE TypeOK'
  BY <1>1 DEF Start, Goto
<1>2. ASSUME NEW p \in Proc, Loaded(p) PROVE TypeOK'
  BY <1>2 DEF Loaded, Goto
<1>3. ASSUME NEW p \in Proc, Die(p) PROVE TypeOK'
  BY <1>3 DEF Die, Return, Goto
<1>4. ASSUME NEW p \in Proc, NEW f \in File, Load(p, f) PROVE TypeOK'
  BY <1>4 DEF Load, Goto
<1>5. ASSUME NEW p \in Proc, NEW f \in File, Save(p, f) PROVE TypeOK'
  BY <1>5 DEF Save, Goto
<1>6. ASSUME NEW p \in Proc, ReadKey(p) PROVE TypeOK'
  <2>1. UNCHANGED <<stored, born, file, op, text, known>> /\ raced' \in BOOLEAN
    BY <1>6 DEF ReadKey
  <2>2. missed' \in BOOLEAN /\ settled' \subseteq Proc /\ firm' \subseteq File
    BY <1>6 DEF ReadKey
  <2>3. key' \in [Proc -> Secret \cup {None, Plain}]
    BY <1>6 DEF ReadKey
  <2>4. CASE pc' = [pc EXCEPT ![p] = "keyless"]
    <3>1. pc' \in [Proc -> PC] /\ op[p] \in Op
      BY <1>6, <2>4 DEF ReadKey
    <3>2. \A q \in Proc :
            /\ pc'[q] \notin {"down", "loading", "ready"} => op'[q] \in Op
            /\ pc'[q] = "torn" => op'[q].kind = "seal" /\ key'[q] # None
      BY <1>6, <2>1, <2>4, <3>1 DEF ReadKey
    <3> QED
      BY <2>1, <2>2, <2>3, <3>1, <3>2
  <2>5. CASE pc' = [pc EXCEPT ![p] = "keyed"]
    <3>1. pc' \in [Proc -> PC] /\ op[p] \in Op
      BY <1>6, <2>5 DEF ReadKey
    <3>2. \A q \in Proc :
            /\ pc'[q] \notin {"down", "loading", "ready"} => op'[q] \in Op
            /\ pc'[q] = "torn" => op'[q].kind = "seal" /\ key'[q] # None
      BY <1>6, <2>1, <2>5, <3>1 DEF ReadKey
    <3> QED
      BY <2>1, <2>2, <2>3, <3>1, <3>2
  <2> QED
    BY <1>6, <2>4, <2>5 DEF ReadKey, Goto
<1>7. ASSUME NEW p \in Proc, CreateKey(p) PROVE TypeOK'
  BY <1>7 DEF CreateKey, Goto
<1>8. ASSUME NEW p \in Proc, FillKey(p) PROVE TypeOK'
  BY <1>8 DEF FillKey, Goto
<1>9. ASSUME NEW p \in Proc, Protect(p) PROVE TypeOK'
  BY <1>9 DEF Protect, Goto
<1>10. ASSUME NEW p \in Proc, KeyStoreFails(p) PROVE TypeOK'
  <2>1. /\ UNCHANGED <<stored, born, file, raced, missed, firm>>
        /\ settled' = settled \ {p}
        /\ op' = [op EXCEPT ![p] = None]
        /\ text' = [text EXCEPT ![p] = None]
        /\ key' = [key EXCEPT ![p] = None]
    BY <1>10 DEF KeyStoreFails, Return
  <2>2. known' \in [Proc -> SUBSET File]
    BY <1>10 DEF KeyStoreFails
  <2>3. \/ pc' = [pc EXCEPT ![p] = "loading"]
        \/ pc' = [pc EXCEPT ![p] = "down"]
    BY <1>10 DEF KeyStoreFails, Return, Goto
  <2>4. /\ pc' \in [Proc -> PC]
        /\ pc'[p] \in {"loading", "down"}
        /\ \A q \in Proc \ {p} : pc'[q] = pc[q]
    BY <2>3
  <2>5. /\ stored' \in Secret \cup {None} /\ born' \subseteq Key
        /\ file' \in [File -> Content]
        /\ op' \in [Proc -> Op \cup {None}]
        /\ text' \in [Proc -> Secret \cup {None}]
        /\ key' \in [Proc -> Secret \cup {None, Plain}]
        /\ raced' \in BOOLEAN /\ missed' \in BOOLEAN
        /\ settled' \subseteq Proc /\ firm' \subseteq File
    BY <2>1
  <2>6. \A q \in Proc :
          /\ pc'[q] \notin {"down", "loading", "ready"} => op'[q] \in Op
          /\ pc'[q] = "torn" => op'[q].kind = "seal" /\ key'[q] # None
    BY <2>1, <2>4
  <2> QED
    BY <2>2, <2>4, <2>5, <2>6
<1>11. ASSUME NEW p \in Proc, Open(p) PROVE TypeOK'
  BY <1>11 DEF Open, Return, Goto
<1>12. ASSUME NEW p \in Proc, TruncateProfile(p) PROVE TypeOK'
  BY <1>12 DEF TruncateProfile, Goto
<1>13. ASSUME NEW p \in Proc, FillProfile(p) PROVE TypeOK'
  BY <1>13 DEF FillProfile, Return, Goto
<1>14. ASSUME NEW p \in Proc, ProfileFails(p) PROVE TypeOK'
  BY <1>14 DEF ProfileFails, Return, Goto
<1>15. CASE UNCHANGED vars
  BY <1>15 DEF vars
<1> QED
  BY <1>1, <1>2, <1>3, <1>4, <1>5, <1>6, <1>7, <1>8,
     <1>9, <1>10, <1>11, <1>12, <1>13, <1>14, <1>15 DEF Next

\* Every step leaves a process with what its next step needs.
LEMMA LocalsStep ==
  ASSUME TypeOK, Locals, [Next]_vars
  PROVE  Locals'
<1> USE Distinct DEF TypeOK, Locals, PC, Op, Secret
<1>1. ASSUME NEW p \in Proc, Start(p) PROVE Locals'
  BY <1>1 DEF Start, Goto
<1>2. ASSUME NEW p \in Proc, Loaded(p) PROVE Locals'
  BY <1>2 DEF Loaded, Goto
<1>3. ASSUME NEW p \in Proc, Die(p) PROVE Locals'
  BY <1>3 DEF Die, Return, Goto
<1>4. ASSUME NEW p \in Proc, NEW f \in File, Load(p, f) PROVE Locals'
  BY <1>4 DEF Load, Goto
<1>5. ASSUME NEW p \in Proc, NEW f \in File, Save(p, f) PROVE Locals'
  BY <1>5 DEF Save, Goto
<1>6. ASSUME NEW p \in Proc, ReadKey(p) PROVE Locals'
  BY <1>6 DEF ReadKey, Goto
<1>7. ASSUME NEW p \in Proc, CreateKey(p) PROVE Locals'
  BY <1>7 DEF CreateKey, Goto
<1>8. ASSUME NEW p \in Proc, FillKey(p) PROVE Locals'
  BY <1>8 DEF FillKey, Goto
<1>9. ASSUME NEW p \in Proc, Protect(p) PROVE Locals'
  BY <1>9 DEF Protect, Goto
<1>10. ASSUME NEW p \in Proc, KeyStoreFails(p) PROVE Locals'
  BY <1>10 DEF KeyStoreFails, Return, Goto
<1>11. ASSUME NEW p \in Proc, Open(p) PROVE Locals'
  BY <1>11 DEF Open, Return, Goto
<1>12. ASSUME NEW p \in Proc, TruncateProfile(p) PROVE Locals'
  BY <1>12 DEF TruncateProfile, Goto
<1>13. ASSUME NEW p \in Proc, FillProfile(p) PROVE Locals'
  BY <1>13 DEF FillProfile, Return, Goto
<1>14. ASSUME NEW p \in Proc, ProfileFails(p) PROVE Locals'
  BY <1>14 DEF ProfileFails, Return, Goto
<1>15. CASE UNCHANGED vars
  BY <1>15 DEF vars
<1> QED
  BY <1>1, <1>2, <1>3, <1>4, <1>5, <1>6, <1>7, <1>8,
     <1>9, <1>10, <1>11, <1>12, <1>13, <1>14, <1>15 DEF Next

\* Every step but the race itself and the lookup that misses the key keeps the one key.
LEMMA UnracedStep ==
  ASSUME TypeOK, Locals, Unraced, [Next]_vars
  PROVE  Unraced'
<1> USE Distinct DEF TypeOK, Locals, Unraced, Held, Creating, PC, Op, Secret
<1>1. ASSUME NEW p \in Proc, Start(p) PROVE Unraced'
  BY <1>1 DEF Start, Goto
<1>2. ASSUME NEW p \in Proc, Loaded(p) PROVE Unraced'
  BY <1>2 DEF Loaded, Goto
<1>3. ASSUME NEW p \in Proc, Die(p) PROVE Unraced'
  BY <1>3 DEF Die, Return, Goto
<1>4. ASSUME NEW p \in Proc, NEW f \in File, Load(p, f) PROVE Unraced'
  BY <1>4 DEF Load, Goto
<1>5. ASSUME NEW p \in Proc, NEW f \in File, Save(p, f) PROVE Unraced'
  BY <1>5 DEF Save, Goto
<1>6. ASSUME NEW p \in Proc, ReadKey(p) PROVE Unraced'
  <2> SUFFICES ASSUME ~raced', ~missed'
               PROVE  Unraced'
    OBVIOUS
  <2>1. ~raced /\ ~missed /\ Creating = {} /\ pc[p] = "lookup"
    BY <1>6 DEF ReadKey
  <2>2. CASE stored = None
    <3>1. pc' = [pc EXCEPT ![p] = "keyless"] /\ UNCHANGED <<stored, file, text, key>>
      BY <1>6, <2>2 DEF ReadKey, Goto
    <3>2. Creating' = {p}
      BY <2>1, <3>1
    <3>3. \A f \in File : file'[f] \notin Secret
      BY <2>1, <2>2, <3>1
    <3>4. \A q \in Proc : ~Held(q)' /\ text'[q] \notin Secret
      BY <2>1, <2>2, <3>1
    <3> QED
      BY <3>2, <3>3, <3>4
  <2>3. CASE stored # None
    <3>1. /\ pc' = [pc EXCEPT ![p] = "keyed"] /\ key' = [key EXCEPT ![p] = stored]
          /\ UNCHANGED <<stored, file, text>>
      BY <1>6, <2>3 DEF ReadKey, Goto
    <3>2. Creating' = {}
      BY <2>1, <3>1
    <3> QED
      BY <2>1, <3>1, <3>2
  <2> QED
    BY <2>2, <2>3
<1>7. ASSUME NEW p \in Proc, CreateKey(p) PROVE Unraced'
  BY <1>7 DEF CreateKey, Goto
<1>8. ASSUME NEW p \in Proc, FillKey(p) PROVE Unraced'
  BY <1>8 DEF FillKey, Goto
<1>9. ASSUME NEW p \in Proc, Protect(p) PROVE Unraced'
  BY <1>9 DEF Protect, Goto
<1>10. ASSUME NEW p \in Proc, KeyStoreFails(p) PROVE Unraced'
  BY <1>10 DEF KeyStoreFails, Return, Goto
<1>11. ASSUME NEW p \in Proc, Open(p) PROVE Unraced'
  BY <1>11 DEF Open, Return, Goto
<1>12. ASSUME NEW p \in Proc, TruncateProfile(p) PROVE Unraced'
  BY <1>12 DEF TruncateProfile, Goto
<1>13. ASSUME NEW p \in Proc, FillProfile(p) PROVE Unraced'
  BY <1>13 DEF FillProfile, Return, Goto
<1>14. ASSUME NEW p \in Proc, ProfileFails(p) PROVE Unraced'
  BY <1>14 DEF ProfileFails, Return, Goto
<1>15. CASE UNCHANGED vars
  BY <1>15 DEF vars
<1> QED
  BY <1>1, <1>2, <1>3, <1>4, <1>5, <1>6, <1>7, <1>8,
     <1>9, <1>10, <1>11, <1>12, <1>13, <1>14, <1>15 DEF Next

\* No step replaces a settled key.
LEMMA SettledStep ==
  ASSUME TypeOK, Locals, Settled, [Next]_vars
  PROVE  Settled'
<1> USE Distinct DEF TypeOK, Locals, Settled, Creating, PC, Op, Secret
<1>1. ASSUME NEW p \in Proc, Start(p) PROVE Settled'
  BY <1>1 DEF Start, Goto
<1>2. ASSUME NEW p \in Proc, Loaded(p) PROVE Settled'
  BY <1>2 DEF Loaded, Goto
<1>3. ASSUME NEW p \in Proc, Die(p) PROVE Settled'
  BY <1>3 DEF Die, Return, Goto
<1>4. ASSUME NEW p \in Proc, NEW f \in File, Load(p, f) PROVE Settled'
  BY <1>4 DEF Load, Goto
<1>5. ASSUME NEW p \in Proc, NEW f \in File, Save(p, f) PROVE Settled'
  BY <1>5 DEF Save, Goto
<1>6. ASSUME NEW p \in Proc, ReadKey(p) PROVE Settled'
  BY <1>6 DEF ReadKey, Goto
<1>7. ASSUME NEW p \in Proc, CreateKey(p) PROVE Settled'
  BY <1>7 DEF CreateKey, Goto
<1>8. ASSUME NEW p \in Proc, FillKey(p) PROVE Settled'
  BY <1>8 DEF FillKey, Goto
<1>9. ASSUME NEW p \in Proc, Protect(p) PROVE Settled'
  BY <1>9 DEF Protect, Goto
<1>10. ASSUME NEW p \in Proc, KeyStoreFails(p) PROVE Settled'
  BY <1>10 DEF KeyStoreFails, Return, Goto
<1>11. ASSUME NEW p \in Proc, Open(p) PROVE Settled'
  BY <1>11 DEF Open, Return, Goto
<1>12. ASSUME NEW p \in Proc, TruncateProfile(p) PROVE Settled'
  BY <1>12 DEF TruncateProfile, Goto
<1>13. ASSUME NEW p \in Proc, FillProfile(p) PROVE Settled'
  BY <1>13 DEF FillProfile, Return, Goto
<1>14. ASSUME NEW p \in Proc, ProfileFails(p) PROVE Settled'
  BY <1>14 DEF ProfileFails, Return, Goto
<1>15. CASE UNCHANGED vars
  BY <1>15 DEF vars
<1> QED
  BY <1>1, <1>2, <1>3, <1>4, <1>5, <1>6, <1>7, <1>8,
     <1>9, <1>10, <1>11, <1>12, <1>13, <1>14, <1>15 DEF Next

\* The inductive invariant.
KeyInv == TypeOK /\ Locals /\ Unraced /\ Settled

\* It holds of every behaviour.
LEMMA KeyInvariant == Spec => []KeyInv
<1>1. Init => KeyInv
  BY ZenonT(30), Distinct DEF Init, KeyInv, TypeOK, Locals, Unraced, Settled, Held,
     Creating, Secret, Content, PC
<1>2. KeyInv /\ [Next]_vars => KeyInv'
  BY TypeStep, LocalsStep, UnracedStep, SettledStep DEF KeyInv
<1> QED
  BY <1>1, <1>2, PTL DEF Spec

\* Every variable of the processes that share a key store keeps its type.
THEOREM TypeCorrect == Spec => []TypeOK
<1>1. KeyInv => TypeOK
  BY DEF KeyInv
<1> QED
  BY <1>1, KeyInvariant, PTL

\* A password is lost only if one process looked for the key while another one was
\* creating it (get_or_create_master_key), or took it for missing after a failed stat
\* (read, keyring.rs), whatever else fails or dies in between.
THEOREM LossCorrect == Spec => []LossHasCause
<1>1. KeyInv => LossHasCause
  BY DEF KeyInv, Unraced, Locals, LossHasCause, Openable, Held
<1> QED
  BY <1>1, KeyInvariant, PTL

\* Only the key file can be missed.
LEMMA KeychainNeverMisses ==
  ASSUME Keychain, ~missed, [Next]_vars
  PROVE  ~missed'
BY DEF Next, vars, Start, Load, Loaded, Save, ReadKey, CreateKey, FillKey, Protect,
  KeyStoreFails, Open, TruncateProfile, FillProfile, ProfileFails, Die, Return

\* With the key chain of macOS, whose read tells a missing key from an error, the
\* race is the only way to lose a password (read, keyring.rs).
THEOREM KeychainLoss == Keychain => (Spec => [](~raced => Openable))
<1> SUFFICES ASSUME Keychain
             PROVE  Spec => [](~raced => Openable)
  OBVIOUS
<1>1. Init => ~missed
  BY DEF Init
<1>2. ~missed /\ [Next]_vars => ~missed'
  BY KeychainNeverMisses
<1>3. Spec => []~missed
  BY <1>1, <1>2, PTL DEF Spec
<1>4. LossHasCause /\ ~missed => (~raced => Openable)
  BY DEF LossHasCause
<1> QED
  BY <1>3, <1>4, LossCorrect, PTL

\* What is sealed under a settled key opens until a lookup takes the key for missing,
\* even after a race or an earlier such lookup.
THEOREM SettledCorrect == Spec => []SettledOpens
<1>1. KeyInv => SettledOpens
  BY DEF KeyInv, Settled, SettledOpens
<1> QED
  BY <1>1, KeyInvariant, PTL

=============================================================================
