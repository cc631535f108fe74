------------------------------- MODULE Store --------------------------------
(***************************************************************************)
(* The store contract the scheduler relies on (internal/store).  A store   *)
(* value st maps every id to a record; each operator below is one call,    *)
(* atomic under the store's mutex (memory, file) or in one SQL statement.  *)
(* Validate, which every write calls, only rejects records that the        *)
(* scheduler never writes.                                                 *)
(***************************************************************************)
EXTENDS Task, FiniteSets

Exists(st, id) == st[id].status # "absent"

\* Mutants: half of the guard.
SameStatus(st, id, status, token) == st[id].status = status
SameToken(st, id, status, token) == st[id].status # "absent" /\ st[id].token = token

\* The guard of UpdateIfState: nothing but status and token is compared.
InState(st, id, status, token) ==
    st[id].status = status /\ st[id].token = token

UpdateIfState(st, id, status, token, t) ==
    IF InState(st, id, status, token) THEN [st EXCEPT ![id] = t] ELSE st

UpdateIfLease(st, id, token, t) == UpdateIfState(st, id, "running", token, t)

\* Update: unconditional, but the record has to exist.
Update(st, id, t) == IF Exists(st, id) THEN [st EXCEPT ![id] = t] ELSE st

\* GetByIdempotencyKey finds a record with the key of task id.
KeyTaken(st, id) == Key[id] # 0 /\ \E j \in Ids : Exists(st, j) /\ Key[j] = Key[id]

\* Mutant: the key is left to the check that Submit makes.
CreateUnkeyed(st, id, t) == IF Exists(st, id) THEN st ELSE [st EXCEPT ![id] = t]

Create(st, id, t) ==
    IF Exists(st, id) \/ KeyTaken(st, id) THEN st ELSE [st EXCEPT ![id] = t]

Delete(st, id) == [st EXCEPT ![id] = NoTask]

-----------------------------------------------------------------------------
(* Listings.  A listing is a store value with the other ids blanked, so    *)
(* that a caller walking it holds the records as they were when listed.    *)

Snapshots == [Ids -> Task]
Empty == [id \in Ids |-> NoTask]

Listing(st, S) == [id \in Ids |-> IF id \in S THEN st[id] ELSE NoTask]
Listed(snap) == {id \in Ids : snap[id].status # "absent"}
Without(snap, id) == [snap EXCEPT ![id] = NoTask]

ListDue(st) == Listing(st, {id \in Ids : Claimable(st[id])})
ListRunning(st) == Listing(st, {id \in Ids : st[id].status = "running"})

\* Mutant: only the leases of local workers are looked at.
ListExpiredLocal(st) ==
    Listing(st, {id \in Ids : /\ st[id].status = "running" /\ st[id].lease = "lapsed"
                              /\ st[id].worker \in Nodes})

ListExpired(st) ==
    Listing(st, {id \in Ids : st[id].status = "running" /\ st[id].lease = "lapsed"})

CountInFlight(st) == Cardinality({id \in Ids : IsInFlight(st[id])})

\* RenewWorkerTaskLeases: every running task of w, whether its lease is still
\* live or has already lapsed.
RenewWorkerTaskLeases(st, w) ==
    [id \in Ids |-> IF st[id].status = "running" /\ st[id].worker = w
                    THEN [st[id] EXCEPT !.lease = "live"] ELSE st[id]]

-----------------------------------------------------------------------------
(* dependenciesReady and dependenciesInTx: in the order in which the task  *)
(* lists them, the first dependency that has not succeeded decides.        *)

DepsReady(st, id) ==
    \A i \in DOMAIN DependsOn[id] : st[DependsOn[id][i]].status = "success"

DepsBroken(st, id) ==
    \E i \in DOMAIN DependsOn[id] :
        /\ st[DependsOn[id][i]].status \in {"absent", "failed", "canceled"}
        /\ \A j \in 1..(i - 1) : st[DependsOn[id][j]].status = "success"

\* dependsOn: following the stored records from id, one comes upon target.
Reaches(st, id, target) ==
    \A S \in SUBSET Ids :
        /\ id \in S
        /\ \A j \in S : Exists(st, j) =>
               \A i \in DOMAIN DependsOn[j] : DependsOn[j][i] \in S
        => target \in S

=============================================================================
