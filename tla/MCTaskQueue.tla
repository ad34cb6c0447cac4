------------------------------ MODULE MCTaskQueue ------------------------------
(* A checked instance of TaskQueue: two tasks of equal exposure, of which the
   demo task overtakes the other or not as the minute it is scheduled in, and one
   without exposure, escalated and due at the same time. *)
EXTENDS TaskQueue, TLC

Queue == {1, 2, 3}
Amounts == (1 :> 28400) @@ (2 :> 28400) @@ (3 :> -1)
Times == (1 :> 19) @@ (2 :> 0) @@ (3 :> 19)

Interchangeable == Permutations(Seeders)
==============================================================================
