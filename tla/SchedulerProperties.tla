------------------------ MODULE SchedulerProperties -------------------------
(***************************************************************************)
(* What internal/scheduler promises, stated over Scheduler.                *)
(***************************************************************************)
EXTENDS Scheduler

(* Leases and fencing.                                                     *)

\* A lease is open exactly while the stored record is running under its token:
\* whoever presents a token that the record does not carry has been fenced off,
\* so a task never has two open leases (UpdateIfState in finish, Cancel,
\* reapExpired, the dispatch rollback and requeueRunningOnStop).
LeaseIsFenced ==
    /\ \A k \in 1..issued : grant[k].end = "open" =>
         /\ tasks[grant[k].id].status = "running"
         /\ tasks[grant[k].id].token = k
    /\ \A id \in Ids : tasks[id].status = "running" =>
         /\ tasks[id].token \in 1..issued
         /\ grant[tasks[id].token].id = id
         /\ grant[tasks[id].token].end = "open"

\* A lease ends once: of completion, cancellation, lease expiry, rollback and
\* requeue, racing for one lease, exactly one takes effect and is counted.
SettledOnce ==
    [][\A k \in 1..issued : grant[k].end # "open" => grant'[k] = grant[k]]_grant

\* success and canceled are final: no stale copy held by the dispatcher, a worker
\* goroutine or an API call brings such a task back.
FinalIsFinal ==
    [][\A id \in Ids : tasks[id].status \in {"success", "canceled"} =>
          tasks'[id].status \in {tasks[id].status, "absent"}]_tasks

\* While a task runs, everything it depends on has succeeded: dispatch and Claim check
\* the dependencies (dependenciesReady) some steps before the write that starts the task,
\* ClaimDue in its transaction, and neither in between nor later does a reaper with an old
\* listing (reapExpired) take a finished dependency back.
DependencyGate ==
    \A id \in Ids : tasks[id].status = "running" =>
        \A i \in DOMAIN DependsOn[id] : tasks[DependsOn[id][i]].status = "success"

-----------------------------------------------------------------------------
(* The reservation table Scheduler.running.                                *)

\* Somebody is going to delete the reservation of task id on node n.
Answers(n, id) ==
    \/ disp[n].id = id /\ disp[n].pc \in {"commit", "enqueue", "rollback", "unreserve"}
    \/ \E i \in DOMAIN queue[n] : grant[queue[n][i]].id = id
    \/ \E s \in Slots : exec[n][s].pc # "idle" /\ grant[exec[n][s].token].id = id
    \/ \E c \in Callers : /\ call[c].node = n /\ call[c].id = id
                          /\ call[c].pc \in {"claimRead", "claimWrite", "unreserve", "release"}
    \/ /\ tasks[id].status = "running"
       /\ grant[tasks[id].token].holder \in Workers

\* No reservation is left behind: as long as running has an entry for a task, a
\* goroutine on its way will delete it or an external worker holds the lease.  A
\* leftover entry would keep dispatch and Claim from ever starting the task.
NoLeakedReservation ==
    \A n \in Nodes, id \in Ids : running[n][id] # "free" => Answers(n, id)

-----------------------------------------------------------------------------
(* Counting executions.                                                    *)

EndedBy(id, ends) == {k \in 1..issued : grant[k].id = id /\ grant[k].end \in ends}

\* RunCount is the number of executions that reported back, also when a stop, a
\* crash or an expired lease took some of them away.
RunCountExact ==
    \A id \in Ids : Exists(tasks, id) =>
        tasks[id].runs = Cardinality(EndedBy(id, {"succeeded", "retried", "failed"}))

\* A task that keeps failing is executed at most MaxAttempts times.
RetryBudget ==
    \A id \in Ids \ Periodic :
        Cardinality(EndedBy(id, {"retried", "failed"})) <= MaxAttempts[id]

-----------------------------------------------------------------------------
(* Expiry, shutdown, purge, backpressure.                                  *)

\* What reapExpired counts as LeaseExpired was overdue when it was written.
ReapsOnlyExpired ==
    [][\A k \in 1..issued :
          grant[k].end = "open" /\ grant'[k].end = "expired"
             => tasks[grant[k].id].lease = "lapsed"]_grant

\* Once Stop has returned, no task is left running in the name of this node's
\* local workers.
StopHandsBack ==
    \A n \in Nodes : node[n] = "stopped" =>
        \A id \in Ids : ~(tasks[id].status = "running" /\ tasks[id].worker = n)

\* Once Stop has returned, nothing that this node dispatched to its own worker
\* goroutines is left running.
StopRequeuesLocalRuns ==
    \A n \in Nodes : node[n] = "stopped" =>
        ~\E k \in 1..issued : grant[k].holder = n /\ grant[k].end = "open"

\* Purge never removes a task that is executing.
PurgeSparesRunning == \A k \in 1..issued : grant[k].end # "deleted"

\* Concurrent submits overshoot the limit by no more than one task for every
\* other submit in flight, since each checks the count before it creates.
BackpressureOvershoot ==
    MaxPending > 0 => CountInFlight(tasks) + 1 <= MaxPending + Cardinality(Callers)

\* An idempotency key is accepted once: submits that race past the check of
\* FindByIdempotencyKey still leave one record with the key.
OneRecordPerKey ==
    \A i, j \in Ids :
        Exists(tasks, i) /\ Exists(tasks, j) /\ Key[i] = Key[j] /\ Key[i] # 0 => i = j

-----------------------------------------------------------------------------
(* Refinement: each task, seen through the store, behaves as TaskLifecycle *)
(* says.                                                                   *)

LastToken(id) ==
    LET ks == {k \in 1..issued : grant[k].id = id}
    IN  IF ks = {} THEN 0 ELSE CHOOSE k \in ks : \A j \in ks : j <= k

Abstract == INSTANCE TaskLifecycle WITH
    state <- [id \in Ids |-> tasks[id].status],
    token <- [id \in Ids |-> IF tasks[id].status = "running" THEN tasks[id].token ELSE 0],
    last  <- [id \in Ids |-> LastToken(id)]

\* Whatever races take place between listings, claims, completions, reaps and
\* cancellations, each task only makes the steps of TaskLifecycle: handed out
\* when waiting and ready, always under a fresh token, final once final.
FollowsLifecycle == Abstract!Spec

-----------------------------------------------------------------------------
(* Liveness.  The Go runtime schedules every goroutine, tickers keep       *)
(* ticking and time passes.  Handlers are assumed to return: execute calls *)
(* them synchronously and cannot make them.  Nothing obliges a client or   *)
(* an external worker to act.                                              *)

Fairness ==
    /\ \A n \in Nodes : WF_vars(Dispatch(n)) /\ WF_vars(Start(n))
    /\ \A n \in Nodes, s \in Slots : WF_vars(Execute(n, s))
    /\ \A c \in Callers : WF_vars(Serve(c))
    /\ \A id \in Ids : WF_vars(BecomesDue(id)) /\ WF_vars(LeaseLapses(id))

FairSpec == Spec /\ Fairness

Exhausted == issued = MaxGrants

\* No lease stays open for ever: a local run returns, and the task of an external
\* worker that falls silent is taken back.
EveryLeaseEnds ==
    \A k \in Tokens :
        k <= issued /\ grant[k].end = "open" ~> grant[k].end # "open" \/ Exhausted

\* A waiting task that is due and ready does not wait for ever: no interleaving of
\* claims, cancels and reaps leaves it reserved by nobody.
ReadyTaskStarts ==
    \A id \in Handled :
        Claimable(tasks[id]) /\ DepsReady(tasks, id)
            ~> ~(Claimable(tasks[id]) /\ DepsReady(tasks, id)) \/ Exhausted

=============================================================================
