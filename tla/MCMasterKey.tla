---------------------------- MODULE MCMasterKey -----------------------------
(***************************************************************************)
(* An instance of MasterKey for TLC.                                       *)
(***************************************************************************)
EXTENDS MasterKey, TLC

MasterKeySymmetry == Permutations(Proc) \cup Permutations(Key) \cup Permutations(File)

=============================================================================
