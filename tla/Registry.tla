------------------------------- MODULE Registry -----------------------------
(***************************************************************************)
(* internal/cluster/election.go: what Renew, Leader and List do to a       *)
(* registry, the map from node ids to their entries.  MemoryRegistry does  *)
(* it under a mutex, FileRegistry to the copy that it has read.            *)
(*                                                                         *)
(* Node ids are numbers, in the order of the code's strings.  A lease is   *)
(* the number of ticks that are left of it, 0 when it has expired.         *)
(***************************************************************************)
EXTENDS Naturals

CONSTANTS Node, TTL

ASSUME RegistryAssumption == Node \subseteq Nat /\ TTL \in Nat \ {0}

Entry == [role : {"leader", "follower"}, left : 0..TTL]
Document == UNION {[S -> Entry] : S \in SUBSET Node}
NoNodes == [n \in {} |-> n]

\* The nodes whose lease has not expired: the others are deleted.
Live(d) == {n \in DOMAIN d : d[n].left > 0}

Left(d, n) == IF n \in DOMAIN d THEN d[n].left ELSE 0

\* n is ids[0] after sort.Strings(ids).
IsFirst(n, S) == \A m \in S : n <= m

RoleIn(n, S) == IF IsFirst(n, S) THEN "leader" ELSE "follower"

\* Mutant: a lease is extended from where it ends, not from now.
RenewedFromEnd(d, id) ==
    LET S == Live(d) \cup {id}
    IN  [n \in S |-> [role |-> RoleIn(n, S),
                      left |-> IF n = id THEN Left(d, n) + TTL ELSE d[n].left]]

\* Mutant: the roles of the other nodes are not reset.
RenewedKeepingRoles(d, id) ==
    LET S == Live(d) \cup {id}
    IN  [n \in S |-> [role |-> IF n = id THEN RoleIn(n, S) ELSE d[n].role,
                      left |-> IF n = id THEN TTL ELSE d[n].left]]

Renewed(d, id) ==
    LET S == Live(d) \cup {id}
    IN  [n \in S |-> [role |-> RoleIn(n, S),
                      left |-> IF n = id THEN TTL ELSE d[n].left]]

\* Leader gives the first node its role and leaves the others theirs.
Leading(d) ==
    [n \in Live(d) |-> IF IsFirst(n, Live(d)) THEN [d[n] EXCEPT !.role = "leader"] ELSE d[n]]

\* List gives every node its role.
List(d) == [n \in Live(d) |-> [d[n] EXCEPT !.role = RoleIn(n, Live(d))]]

\* Time passes for a lease wherever it is written down.
Aged(d) == [n \in DOMAIN d |-> [d[n] EXCEPT !.left = IF @ = 0 THEN 0 ELSE @ - 1]]

\* The node with the lowest id is the leader, and no other.
OneLeader(d) == \A n \in DOMAIN d : d[n].role = RoleIn(n, DOMAIN d)

=============================================================================
