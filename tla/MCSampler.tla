----------------------------- MODULE MCSampler ------------------------------
(***************************************************************************)
(* Instances of Sampler for TLC.                                           *)
(***************************************************************************)
EXTENDS Sampler, TLC

\* What the rest of a behaviour depends on: not the history, and the interval
\* a sampler has read only while it works with it.
WhileHeld ==
  <<interval, ui, store, users, handle, aborted, age,
    [k \in Sampler |-> IF task[k].pc = "sleeping" THEN [task[k] EXCEPT !.gap = 0]
                       ELSE task[k]]>>

=============================================================================
