--------------------------- MODULE TaskLifecycle ----------------------------
(***************************************************************************)
(* What the scheduler promises about tasks: the statuses a task moves      *)
(* through, the lease tokens it is handed out under, and when.  The        *)
(* goroutines, the copies and the reservations of Scheduler are gone; a    *)
(* step is what a client polling the tasks could tell apart.  Several      *)
(* tasks may move in one step (a restart recovers all of them).            *)
(***************************************************************************)
EXTENDS Naturals

CONSTANTS Ids, DependsOn

VARIABLES state,   \* status of each task, "absent" when there is no record
          token,   \* the lease token in force, 0 for none
          last     \* the latest lease token the task was handed out under

Waiting == {"pending", "retrying"}

Init ==
    /\ state \in [Ids -> {"absent", "pending"}]
    /\ token = [id \in Ids |-> 0]
    /\ last = [id \in Ids |-> 0]

Ready(id) == \A i \in DOMAIN DependsOn[id] : state[DependsOn[id][i]] = "success"

SameLease(id) == token'[id] = token[id] /\ last'[id] = last[id]

Submit(id) == state[id] = "absent" /\ state'[id] = "pending" /\ SameLease(id)

\* Only a waiting, ready task is handed out, under a token never used before.
Grant(id) ==
    /\ state[id] \in Waiting /\ Ready(id)
    /\ state'[id] = "running"
    /\ token'[id] = last'[id]
    /\ \A i \in Ids : last'[id] > last[i]

\* The lease is over: the run reported back, expired, or was given up.
Settle(id) ==
    /\ state[id] = "running"
    /\ state'[id] \in Waiting \cup {"success", "failed", "canceled"}
    /\ token'[id] = 0 /\ last'[id] = last[id]

\* A waiting task fails only for want of its dependencies.
Starve(id) ==
    /\ state[id] \in Waiting /\ ~Ready(id)
    /\ state'[id] = "failed" /\ SameLease(id)

Withdraw(id) ==
    /\ state[id] \in Waiting \cup {"failed"}
    /\ state'[id] = "canceled" /\ SameLease(id)

Rest(id) == state'[id] = state[id] /\ SameLease(id)

Next == \A id \in Ids : \/ Submit(id) \/ Grant(id) \/ Settle(id)
                        \/ Starve(id) \/ Withdraw(id) \/ Rest(id)

Spec == Init /\ [][Next]_<<state, token, last>>

=============================================================================
