---------------------------- MODULE MCScanStatus ----------------------------
(* For TLC: two server processes with one background thread each, or one    *)
(* with two.                                                                *)
EXTENDS ScanStatus, TLC

CONSTANTS w1, w2, j1, j2

MCWorkers == {w1, w2}
MCOneWorker == {w1}
MCJobs == {j1, j2}
MCApart == (j1 :> w1) @@ (j2 :> w2)
MCTogether == (j1 :> w1) @@ (j2 :> w1)

(* Two processes with one thread each are interchangeable when the thread   *)
(* goes by the name of its process.                                         *)
MCOwn == (w1 :> w1) @@ (w2 :> w2)
MCSwap == Permutations(MCWorkers)
=============================================================================
