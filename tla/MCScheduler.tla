---------------------------- MODULE MCScheduler -----------------------------
(***************************************************************************)
(* Small instances of Scheduler for TLC.                                   *)
(***************************************************************************)
EXTENDS SchedulerProperties, TLC

CONSTANTS a, b, c, d, Budget

NoDeps == [id \in Ids |-> <<>>]
BNeedsA == [id \in Ids |-> IF id = b THEN <<a>> ELSE <<>>]
NodeSymmetry == Permutations(Nodes)
CallerSymmetry == Permutations(Callers)
NoKeys == [id \in Ids |-> 0]
CDShareKey == [id \in Ids |-> IF id \in {c, d} THEN 1 ELSE 0]
SameBudget == [id \in Ids |-> Budget]

=============================================================================
