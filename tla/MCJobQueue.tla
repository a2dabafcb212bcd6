----------------------------- MODULE MCJobQueue -----------------------------
(***************************************************************************)
(* Instances of JobQueue for TLC: two jobs, each on its own queue.         *)
(***************************************************************************)
EXTENDS JobQueue, TLC

CONSTANTS j1, j2, w1, w2

TwoQueues == j1 :> 1 @@ j2 :> 2

AtOnceOrLater == {0, 1}

=============================================================================
