----------------------------- MODULE MasterKey ------------------------------
(***************************************************************************)
(* The master key of pgbutler (crypto.rs, config/keyring.rs) and the       *)
(* passwords sealed under it in the connection profiles (config.rs).       *)
(*                                                                         *)
(* The key is created when first needed and read again for every password  *)
(* that is encrypted or decrypted.  The key store and the profiles belong  *)
(* to the user: several pgbutler processes may use them at once, without   *)
(* any lock, and each may die between any two file operations.  Within a   *)
(* process the event loop does one thing at a time.                        *)
(*                                                                         *)
(* Left out: the cipher itself (a text sealed under a key is opened by     *)
(* that key and no other), all of a profile but one password, the mode of  *)
(* the key file, and the names of the profiles (see Profiles).             *)
(***************************************************************************)
CONSTANTS
  Proc,      \* the processes of one user
  Key,       \* what rand_bytes may return
  File,      \* the profiles
  Keychain,  \* TRUE on macOS, where setting the key is one step; FALSE where
             \* it is a file that is truncated, filled and given its mode
  None,      \* no key is stored; there is no such file
  Blank,     \* the content of a key file that was truncated and not filled
  Plain,     \* a profile with an empty password, which is not encrypted
  Torn       \* a profile that was truncated and not filled

ASSUME KeychainAssumption == Keychain \in BOOLEAN
ASSUME DistinctAssumption ==
  /\ {None, Blank, Plain, Torn} \cap Key = {}
  /\ Blank \notin {None, Plain, Torn} /\ None \notin {Plain, Torn} /\ Plain # Torn

VARIABLES
  stored,   \* the key store
  born,     \* the keys generated so far
  file,     \* file[f]: the key its password is sealed under, or None, Plain or Torn
  pc,       \* what each process does
  op,       \* the file it loads or saves, and which of the two
  text,     \* what it read from the file it loads
  key,      \* the key it read or generated for it
  known,    \* the profiles it has loaded or saved
  raced,    \* history: a key was looked up while another process was creating one
  missed,   \* history: a key that was stored was taken for missing
  settled,  \* history: the processes that looked their key up when it was settled
  firm      \* history: the files sealed under such a key; a key taken for missing
            \* ends both

vars == <<stored, born, file, pc, op, text, key, known, raced, missed, settled, firm>>

Secret == Key \cup {Blank}
Content == Secret \cup {None, Plain, Torn}
PC == {"down", "loading", "ready", "lookup", "keyless", "emptied", "filled", "keyed", "torn"}
Op == [kind : {"open", "seal"}, file : File]

\* The processes that found no key and have not stored theirs yet.
Creating == {p \in Proc : pc[p] \in {"keyless", "emptied"}}

Init ==
  /\ stored = None /\ born = {}
  /\ file = [f \in File |-> None]
  /\ pc = [p \in Proc |-> "down"]
  /\ op = [p \in Proc |-> None]
  /\ text = [p \in Proc |-> None]
  /\ key = [p \in Proc |-> None]
  /\ known = [p \in Proc |-> {}]
  /\ raced = FALSE /\ missed = FALSE /\ settled = {} /\ firm = {}

Goto(p, label) == pc' = [pc EXCEPT ![p] = label]

\* Process p is done with its file, one way or another.
Return(p, label) ==
  /\ Goto(p, label)
  /\ op' = [op EXCEPT ![p] = None]
  /\ text' = [text EXCEPT ![p] = None]
  /\ key' = [key EXCEPT ![p] = None]
  /\ settled' = settled \ {p}

(***************************************************************************)
(* Loading the profiles and saving one.                                    *)
(***************************************************************************)
Start(p) ==
  /\ pc[p] = "down"
  /\ Goto(p, "loading")
  /\ UNCHANGED <<stored, born, file, op, text, key, known, raced, missed, settled, firm>>

\* A profile that is read and needs the key; the others are taken or skipped at once.
Load(p, f) ==
  /\ pc[p] = "loading"
  /\ IF file[f] \in Secret
     THEN /\ Goto(p, "lookup")
          /\ op' = [op EXCEPT ![p] = [kind |-> "open", file |-> f]]
          /\ text' = [text EXCEPT ![p] = file[f]]
          /\ UNCHANGED known
     ELSE /\ file[f] = Plain /\ f \notin known[p]
          /\ known' = [known EXCEPT ![p] = @ \cup {f}]
          /\ UNCHANGED <<pc, op, text>>
  /\ UNCHANGED <<stored, born, file, key, raced, missed, settled, firm>>

Loaded(p) ==
  /\ pc[p] = "loading"
  /\ Goto(p, "ready")
  /\ UNCHANGED <<stored, born, file, op, text, key, known, raced, missed, settled, firm>>

\* A profile is saved, with a password or without one.
Save(p, f) ==
  /\ pc[p] = "ready"
  /\ op' = [op EXCEPT ![p] = [kind |-> "seal", file |-> f]]
  /\ \/ Goto(p, "lookup") /\ UNCHANGED key
     \/ Goto(p, "keyed") /\ key' = [key EXCEPT ![p] = Plain]
  /\ UNCHANGED <<stored, born, file, text, known, raced, missed, settled, firm>>

(***************************************************************************)
(* get_or_create_master_key.                                               *)
(***************************************************************************)
\* A failed stat of the key file counts as no key (path.is_file()); an error of the
\* read itself and every error of the key chain do not (KeyStoreFails).
ReadKey(p) ==
  /\ pc[p] = "lookup"
  /\ raced' = (raced \/ Creating # {})
  /\ \/ /\ stored = None
        /\ Goto(p, "keyless")
        /\ UNCHANGED <<key, missed, settled, firm>>
     \/ /\ stored # None
        /\ Goto(p, "keyed")
        /\ key' = [key EXCEPT ![p] = stored]
        /\ settled' = settled \cup {q \in {p} : Creating = {}}
        /\ UNCHANGED <<missed, firm>>
     \/ /\ ~Keychain /\ stored # None
        /\ Goto(p, "keyless")
        /\ missed' = TRUE /\ settled' = {} /\ firm' = {}
        /\ UNCHANGED key
  /\ UNCHANGED <<stored, born, file, op, text, known>>

\* A new key; the fallback store truncates its file before it writes there.
CreateKey(p) ==
  /\ pc[p] = "keyless"
  /\ \E k \in Key \ born :
       /\ born' = born \cup {k}
       /\ key' = [key EXCEPT ![p] = k]
       /\ stored' = IF Keychain THEN k ELSE Blank
  /\ Goto(p, IF Keychain THEN "keyed" ELSE "emptied")
  /\ UNCHANGED <<file, op, text, known, raced, missed, settled, firm>>

FillKey(p) ==
  /\ pc[p] = "emptied"
  /\ stored' = key[p]
  /\ Goto(p, "filled")
  /\ UNCHANGED <<born, file, op, text, key, known, raced, missed, settled, firm>>

\* The key file is given its mode.
Protect(p) ==
  /\ pc[p] = "filled"
  /\ Goto(p, "keyed")
  /\ UNCHANGED <<stored, born, file, op, text, key, known, raced, missed, settled, firm>>

\* Mutants: a key that could not be stored is used all the same; a profile whose
\* password could not be sealed is written all the same; a key file that cannot be
\* given its mode is removed again.
KeyStoreFailsQuietly(p) ==
  /\ pc[p] \in {"emptied", "filled"}
  /\ Goto(p, "keyed")
  /\ UNCHANGED <<stored, born, file, op, text, key, known, raced, missed, settled, firm>>
KeyStoreFailsWriting(p) ==
  /\ pc[p] = "lookup" /\ op[p].kind = "seal"
  /\ Goto(p, "torn")
  /\ UNCHANGED <<stored, born, file, op, text, key, known, raced, missed, settled, firm>>

KeyStoreFailsCleaning(p) ==
  /\ pc[p] \in {"lookup", "keyless", "emptied", "filled"}
  /\ \/ op[p].kind = "open" /\ Return(p, "loading") /\ UNCHANGED known
     \/ op[p].kind = "seal" /\ Return(p, "down") /\ known' = [known EXCEPT ![p] = {}]
  /\ stored' = IF pc[p] = "filled" THEN None ELSE stored
  /\ UNCHANGED <<born, file, raced, missed, firm>>

\* The store refuses to read, create, fill or protect the key.  A profile that is
\* being loaded is skipped; saving one panics, since it "is always serializable".
KeyStoreFails(p) ==
  /\ pc[p] \in {"lookup", "keyless", "emptied", "filled"}
  /\ \/ op[p].kind = "open" /\ Return(p, "loading") /\ UNCHANGED known
     \/ op[p].kind = "seal" /\ Return(p, "down") /\ known' = [known EXCEPT ![p] = {}]
  /\ UNCHANGED <<stored, born, file, raced, missed, firm>>

(***************************************************************************)
(* The password is opened, or the profile written with the sealed one.     *)
(***************************************************************************)
Open(p) ==
  /\ pc[p] = "keyed" /\ op[p].kind = "open"
  /\ known' = [known EXCEPT ![p] = IF text[p] = key[p] THEN @ \cup {op[p].file} ELSE @]
  /\ Return(p, "loading")
  /\ UNCHANGED <<stored, born, file, raced, missed, firm>>

TruncateProfile(p) ==
  /\ pc[p] = "keyed" /\ op[p].kind = "seal"
  /\ file' = [file EXCEPT ![op[p].file] = Torn]
  /\ firm' = firm \ {op[p].file}
  /\ Goto(p, "torn")
  /\ UNCHANGED <<stored, born, op, text, key, known, raced, missed, settled>>

FillProfile(p) ==
  /\ pc[p] = "torn"
  /\ file' = [file EXCEPT ![op[p].file] = key[p]]
  /\ firm' = IF p \in settled THEN firm \cup {op[p].file} ELSE firm \ {op[p].file}
  /\ known' = [known EXCEPT ![p] = @ \cup {op[p].file}]
  /\ Return(p, "ready")
  /\ UNCHANGED <<stored, born, raced, missed>>

\* The profile cannot be written; the error is shown.
ProfileFails(p) ==
  /\ pc[p] = "torn" \/ (pc[p] = "keyed" /\ op[p].kind = "seal")
  /\ Return(p, "ready")
  /\ UNCHANGED <<stored, born, file, known, raced, missed, firm>>

\* The user quits, or the process dies at any point.
Die(p) ==
  /\ pc[p] # "down"
  /\ Return(p, "down")
  /\ known' = [known EXCEPT ![p] = {}]
  /\ UNCHANGED <<stored, born, file, raced, missed, firm>>

Next ==
  \E p \in Proc :
    \/ Start(p) \/ Loaded(p) \/ Die(p)
    \/ \E f \in File : Load(p, f) \/ Save(p, f)
    \/ ReadKey(p) \/ CreateKey(p) \/ FillKey(p) \/ Protect(p) \/ KeyStoreFails(p)
    \/ Open(p) \/ TruncateProfile(p) \/ FillProfile(p) \/ ProfileFails(p)

Spec == Init /\ [][Next]_vars

(***************************************************************************)
(* Properties.                                                             *)
(***************************************************************************)
\* Every variable keeps its type; a process that looks for a key or has one
\* knows what for, and one that writes a profile has what to write.
TypeOK ==
  /\ stored \in Secret \cup {None} /\ born \subseteq Key
  /\ file \in [File -> Content]
  /\ pc \in [Proc -> PC]
  /\ op \in [Proc -> Op \cup {None}]
  /\ text \in [Proc -> Secret \cup {None}]
  /\ key \in [Proc -> Secret \cup {None, Plain}]
  /\ known \in [Proc -> SUBSET File]
  /\ raced \in BOOLEAN /\ missed \in BOOLEAN /\ settled \subseteq Proc /\ firm \subseteq File
  /\ \A p \in Proc :
       /\ pc[p] \notin {"down", "loading", "ready"} => op[p] \in Op
       /\ pc[p] = "torn" => op[p].kind = "seal" /\ key[p] # None

\* All that is sealed, on disk or just read, opens with the stored key.
Openable ==
  /\ \A f \in File : file[f] \in Secret => file[f] = stored
  /\ \A p \in Proc : pc[p] = "keyed" /\ op[p].kind = "open" => text[p] = key[p]

\* A password is lost for one of two causes, whatever else fails and whoever dies
\* in between (get_or_create_master_key): two processes looked for the key while one
\* of them was creating it, or a failed stat made one take the key for missing and
\* write a new one over it (read, keyring.rs).
LossHasCause == ~raced /\ ~missed => Openable

\* The loss is confined to what those lookups can reach: what is sealed by a process
\* that looked for the key when one was stored and nobody was creating one can be
\* opened until a lookup takes the key for missing, even if there was a race or such
\* a lookup before (get_or_create_master_key).
SettledOpens == \A f \in firm : file[f] = stored

=============================================================================
