--------------------------- MODULE CustomerSyncMC ---------------------------
(* CustomerSync on two customers, one with three events. *)
EXTENDS CustomerSync, TLC

CONSTANTS c1, c2, new1, upd1, upd1b, new2, bad2

\* The events of each customer in the order of their payloads.
History == (c1 :> <<new1, upd1, upd1b>>) @@ (c2 :> <<new2, bad2>>)

MCCustomer == [e \in Events |-> IF e \in {new2, bad2} THEN c2 ELSE c1]

MCVersion == [e \in Events |->
                 CHOOSE n \in 1 .. 3 : n \in DOMAIN History[MCCustomer[e]]
                                         /\ History[MCCustomer[e]][n] = e]

WorkerSymmetry == Permutations(Workers)
=============================================================================
