---------------------------- MODULE RequestReply ----------------------------
(***************************************************************************)
(* What every lock of pgbutler's user interface promises: the prompt while *)
(* a command runs, the setup form while it connects, the preview while an  *)
(* analysis streams.  The event loop asks background tasks to do           *)
(* something and counts on getting one answer for each request, after      *)
(* which the lock is open.  Several requests may be under way, since not   *)
(* everything that asks is stopped by the lock; the answers carry no       *)
(* request id, so any of them opens it.                                    *)
(*                                                                         *)
(* This is the abstract specification; App implements it three times.      *)
(***************************************************************************)
EXTENDS Naturals, TLAPS

VARIABLES
  up,      \* the event loop runs
  locked,  \* the lock
  owed     \* the number of answers on their way

vars == <<up, locked, owed>>

Init ==
  /\ up = TRUE
  /\ owed \in Nat
  /\ locked \in BOOLEAN /\ (locked => owed > 0)

\* A request; it need not lock (reloading the provider, connecting at the start).
Ask ==
  /\ up
  /\ locked' \in {locked, TRUE}
  /\ owed' = owed + 1
  /\ UNCHANGED up

\* An answer is taken.
Answer ==
  /\ up /\ owed > 0
  /\ locked' = FALSE
  /\ owed' = owed - 1
  /\ UNCHANGED up

\* An answer is taken and makes a further request: a new connection has its
\* models listed.
Forward ==
  /\ up /\ owed > 0
  /\ locked' = FALSE
  /\ UNCHANGED <<up, owed>>

\* The user quits, drawing fails or a task panics.
Stop ==
  /\ up
  /\ up' = FALSE
  /\ locked' \in BOOLEAN
  /\ UNCHANGED owed

Next == Ask \/ Answer \/ Forward \/ Stop

Spec == Init /\ [][Next]_vars

\* A lock has an answer on its way that opens it.
LockHasAnswer == up /\ locked => owed > 0

\* Every request has its answer, so no order of requests and answers leaves a lock
\* without one.  What implements this specification inherits it.
THEOREM LockIsAnswered == Spec => []LockHasAnswer
<1> DEFINE Inv == owed \in Nat /\ LockHasAnswer
<1>1. Init => Inv
  BY DEF Init, LockHasAnswer
<1>2. Inv /\ [Next]_vars => Inv'
  <2> SUFFICES ASSUME owed \in Nat, LockHasAnswer, [Next]_vars PROVE Inv'
    OBVIOUS
  <2>1. CASE Ask
    <3>1. owed + 1 \in Nat /\ owed + 1 > 0
      OBVIOUS
    <3> QED
      BY <2>1, <3>1 DEF Ask, LockHasAnswer
  <2>2. CASE Answer
    <3>1. owed > 0
      BY <2>2 DEF Answer
    <3>2. owed - 1 \in Nat
      BY <3>1
    <3> QED
      BY <2>2, <3>2 DEF Answer, LockHasAnswer
  <2>3. CASE Forward \/ Stop \/ UNCHANGED vars
    BY <2>3 DEF Forward, Stop, vars, LockHasAnswer
  <2> QED
    BY <2>1, <2>2, <2>3 DEF Next
<1> QED
  BY <1>1, <1>2, PTL DEF Spec

\* What the user sees: the lock does not stay.
Opens == (up /\ locked) ~> ~(up /\ locked)

=============================================================================
