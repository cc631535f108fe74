-------------------------- MODULE ClusterProperties -------------------------
(***************************************************************************)
(* What FileRegistry and the Electors are expected to guarantee, and the   *)
(* fairness under which they make progress.                                *)
(***************************************************************************)
EXTENDS FileRegistry

\* Every registry that is on disk, or about to be, has one leader, the node with
\* the lowest id, although Leader does not reset the other roles
\* (file_registry.go:98): they cannot be wrong.
OneLeaderPerDocument ==
    /\ \A f \in Names : dir[f] \in {NoFile, Torn, Blank} \/ OneLeader(dir[f])
    /\ \A p \in Node : OneLeader(copy[p])

\* The lock file serializes updates across processes (file_registry.go:15) as long
\* as no lock file reaches the age of 30 seconds.  After that it does not: two
\* processes may find the same old lock, and the second removes the new lock of
\* the first (file_registry.go:184).
ExclusiveWhileFresh ==
    ~aged => \A p, q \in Node : Inside(p) /\ Inside(q) => p = q

\* The document can be read unless two processes have written at the same time:
\* a process that dies, or a write that fails, leaves no half-written document.
TornOnlyByOverlap == dir["dst"] = Torn => overlapped

\* The registry as it is meant: while Replace has moved the document away, its
\* backup.
Doc == LET x == IF Misplaced THEN dir["bak"] ELSE dir["dst"]
       IN  IF x \in {NoFile, Torn, Blank} THEN NoNodes ELSE x

\* Leases end by time alone: no operation of one node undoes or shortens the lease
\* of another, wherever processes die, unless two processes wrote at the same time
\* or the document was misplaced when it was read.
LeasesOnlyAge ==
    [][\/ Tick \/ overlapped' \/ lost'
       \/ \A n \in Node : Left(Doc, n) <= Left(Doc', n)]_vars

-----------------------------------------------------------------------------
\* The nodes whose scheduler dispatches and serves claims (scheduler.go:313, :700),
\* once the gate is set.
Acting == {p \in Node : Up(p) /\ cached[p] = "leader"}

Unreadable == dir["dst"] = Torn

Fairness ==
    /\ WF_vars(LockAges)
    /\ \A p \in Node : /\ WF_vars(Acquire(p)) /\ WF_vars(FindsOld(p)) /\ WF_vars(Steal(p))
                       /\ SF_vars(Read(p, "renew")) /\ WF_vars(Work(p))

FairSpec == Spec /\ Fairness

\* After a crash the survivor takes over (file_registry.go:16): a node that is left
\* alone becomes and stays the leader when time passes, whatever the others left
\* behind of locks, leases and files, unless that is an unreadable document.
TakesOver ==
    WF_vars(Tick) =>
        \A p \in Node :
            <>[](\A q \in Node : Up(q) <=> q = p) => <>[](Acting = {p}) \/ <>[]Unreadable

Calm == /\ \A p \in Node : Up(p) /\ Left(Doc, p) > 0
        /\ \A p, q \in Node : Inside(p) /\ Inside(q) => p = q

\* When every node gets the lock again and again, in time for its lease and alone,
\* the node with the lowest id ends up as the only one that acts.
SettlesOnOne ==
    <>[]Calm /\ (\A p \in Node : []<>Inside(p))
        => <>[](\A p \in Node : p \in Acting <=> IsFirst(p, Node))

=============================================================================
