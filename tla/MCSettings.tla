----------------------------- MODULE MCSettings -----------------------------
(***************************************************************************)
(* An instance of Settings for TLC.                                        *)
(***************************************************************************)
EXTENDS Settings

CONSTANTS m1, m2

TwoNames == 1..2
TwoProviders == 1..2
TwoLists == {<<m1>>, <<m2, m1>>}

\* What was refused last matters while an error is shown.
WhileRefused == <<servers, custom, path, error, confirm, asked, error /\ refused = Top.form>>

=============================================================================
