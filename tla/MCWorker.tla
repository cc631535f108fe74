------------------------------- MODULE MCWorker -----------------------------
(***************************************************************************)
(* Small instances of WorkerClient for TLC.                                *)
(***************************************************************************)
EXTENDS WorkerProperties

CONSTANT Budget

NoDeps == [id \in Ids |-> <<>>]
NoKeys == [id \in Ids |-> 0]
SameBudget == [id \in Ids |-> Budget]

=============================================================================
