----------------------------- MODULE MCProfiles -----------------------------
(***************************************************************************)
(* Instances of Profiles for TLC.  Names 1 and 2 stand for two names that  *)
(* sanitize_filename maps to one stem ("a.b" and "a b"), name 3 for one    *)
(* with a stem of its own.                                                 *)
(***************************************************************************)
EXTENDS Profiles

Names == 1..3
Stems == <<"a_b", "a_b", "c">>
OneFilePerStem == [stem \in {"a_b", "c"} |-> stem]

\* Two names that differ in case only, on a file system that ignores case.
CaseNames == 1..2
CaseStems == <<"Prod", "prod">>
OneFileForBoth == [stem \in {"Prod", "prod"} |-> "prod"]

=============================================================================
