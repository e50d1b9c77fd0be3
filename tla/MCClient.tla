------------------------------ MODULE MCClient ------------------------------
(* The client with a batch the driver refuses, one without an entry, and a *)
(* negative max_retries.                                                   *)
EXTENDS Client

FirstBatch == {1}
SecondBatch == {2}
Retries == {-1, 1}

=============================================================================
