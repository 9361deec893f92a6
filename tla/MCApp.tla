------------------------------- MODULE MCApp -------------------------------
(***************************************************************************)
(* Constants for checking App: one provider without a key and one with a   *)
(* key.                                                                    *)
(***************************************************************************)
EXTENDS App, TLC

CONSTANTS ollama, openai, llama, gpt, t1, t2

BothProviders == {ollama, openai}

\* A list to cycle through, and a list without one of its models.
TwoModels == {llama, gpt}
TwoOffers == (ollama :> {<<gpt, llama>>}) @@ (openai :> {<<gpt>>})

\* One model, for liveness.
OneModel == {llama}
OneOffer == [p \in BothProviders |-> {<<llama>>}]

\* The user clears the URL and types a model that openai does not list.
BlankSections == {[model |-> llama, filled |-> FALSE]}

\* The user clears the model.
NoModelSections == {[model |-> None, filled |-> TRUE]}
NoSections == {}

TaskSymmetry == Permutations(Task)

\* Once the loop has ended only status changes; the states that differ in what it
\* left behind are alike.
WhileRunning == IF Running THEN vars ELSE <<status>>
=============================================================================
