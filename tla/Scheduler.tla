----------------------------- MODULE Scheduler ------------------------------
(***************************************************************************)
(* internal/scheduler/scheduler.go: the dispatch loop, the local worker    *)
(* goroutines and the calls that API goroutines make, interleaved at every *)
(* store call and every critical section of Scheduler.mu.                  *)
(*                                                                         *)
(* A node is one Scheduler in one process.  With SharedStore = FALSE the   *)
(* store is a MemoryStore or FileStore, owned by one process at a time; a  *)
(* process started after a crash is another member of Nodes.  With         *)
(* SharedStore = TRUE it is the PostgresStore (an AtomicClaimer) and       *)
(* several nodes run at once.  The leader gate only keeps a node from      *)
(* ticking or claiming, which a node may always refrain from here.         *)
(*                                                                         *)
(* grant and issued are history: entry k records what became of lease      *)
(* token k.  Its end is the scheduler metric that the settling write bumps *)
(* (succeeded, retried, failed, expired, canceled) or the unmetered way in *)
(* which the lease was given up.                                           *)
(***************************************************************************)
EXTENDS Store

CONSTANTS Slots,        \* worker goroutines of a node
          Callers,      \* API goroutines
          Handled,      \* ids whose Name has a registered Handler
          QueueCap,     \* capacity of Scheduler.queue
          MaxPending,   \* Scheduler.maxPending
          SharedStore,  \* the store is an AtomicClaimer
          Ops,          \* which operations clients and operators perform
          NoId

ASSUME SchedulerAssumption ==
    /\ NoId \notin Ids
    /\ Handled \subseteq Ids
    /\ QueueCap \in Nat /\ MaxPending \in Nat
    /\ SharedStore \in BOOLEAN
    /\ Slots \cap {"free", "nil"} = {}
    /\ Nodes \cap Workers = {} /\ NoWorker \notin Nodes

VARIABLES
    tasks,    \* the store
    grant,    \* history: lease tokens, see above
    issued,   \* history: how many tokens were issued
    node,     \* lifecycle of each Scheduler
    workers,  \* workersByID of each node (their union is the SQL registry)
    running,  \* Scheduler.running: "free", "nil" or the slot to cancel
    queue,    \* Scheduler.queue, as the lease tokens of the queued tasks
    disp,     \* locals of the goroutine running loop
    exec,     \* locals of the worker goroutines
    call      \* locals of the API goroutines

vars == <<tasks, grant, issued, node, workers, running, queue, disp, exec, call>>

-----------------------------------------------------------------------------
Ends == {"open", "succeeded", "retried", "failed", "expired", "canceled",
         "rolledback", "requeued", "recovered", "deleted"}
NoGrant == [id |-> NoId, holder |-> NoWorker, end |-> "deleted"]

IdleLoop == [pc |-> "idle", snap |-> Empty, id |-> NoId, t |-> NoTask]
IdleSlot == [pc |-> "idle", token |-> 0, t |-> NoTask, ok |-> FALSE,
             aborted |-> FALSE]
IdleCall == [pc |-> "idle", node |-> NoWorker, worker |-> NoWorker,
             token |-> 0, ok |-> FALSE, snap |-> Empty, id |-> NoId, t |-> NoTask]

LoopPcs == {"idle", "reap", "reapWrite", "walk", "failUnready", "reserve",
            "commit", "enqueue", "rollback", "unreserve", "requeue", "recover"}
SlotPcs == {"idle", "check", "drop", "begin", "handler", "finish", "release"}
CallPcs == {"idle", "walk", "failUnready", "reserve", "claimRead", "claimWrite",
            "unreserve", "finish", "release", "renew", "cancel", "cancelWrite",
            "purge", "submitCount", "submitDeps", "create"}

\* Every variable has the type its declaration in scheduler.go gives it.
TypeOK ==
    /\ tasks \in [Ids -> Task]
    /\ issued \in 0..MaxGrants
    /\ grant \in [Tokens -> [id : Ids \cup {NoId}, holder : Labels, end : Ends]]
    /\ node \in [Nodes -> {"new", "up", "stopping", "stopped", "restarting", "dead"}]
    /\ workers \in [Nodes -> [Nodes \cup Workers -> {"absent", "live", "lapsed"}]]
    /\ running \in [Nodes -> [Ids -> {"free", "nil"} \cup Slots]]
    /\ queue \in [Nodes -> Seq(Tokens)]
    /\ disp \in [Nodes -> [pc : LoopPcs, snap : Snapshots,
                           id : Ids \cup {NoId}, t : Task]]
    /\ exec \in [Nodes -> [Slots -> [pc : SlotPcs, token : 0..MaxGrants,
                                     t : Task, ok : BOOLEAN, aborted : BOOLEAN]]]
    /\ call \in [Callers -> [pc : CallPcs, node : Labels, worker : Labels,
                             token : 0..MaxGrants, ok : BOOLEAN,
                             snap : Snapshots, id : Ids \cup {NoId}, t : Task]]

Init ==
    /\ tasks = IF "submit" \in Ops THEN Empty ELSE [id \in Ids |-> NewTask]
    /\ grant = [k \in Tokens |-> NoGrant]
    /\ issued = 0
    /\ node = [n \in Nodes |-> "new"]
    /\ workers = [n \in Nodes |-> [w \in Nodes \cup Workers |-> "absent"]]
    /\ running = [n \in Nodes |-> [id \in Ids |-> "free"]]
    /\ queue = [n \in Nodes |-> <<>>]
    /\ disp = [n \in Nodes |-> IdleLoop]
    /\ exec = [n \in Nodes |-> [s \in Slots |-> IdleSlot]]
    /\ call = [c \in Callers |-> IdleCall]

-----------------------------------------------------------------------------
(* Writes.                                                                 *)

\* UpdateIfState of a copy whose expected status is running: when it matches,
\* it is the end of the lease with the expected token.
Settle(id, token, t, end) ==
    /\ tasks' = UpdateIfState(tasks, id, "running", token, t)
    /\ grant' = IF InState(tasks, id, "running", token)
                THEN [grant EXCEPT ![token].end = end] ELSE grant

\* A claim that went through: the next token names a new lease, that holder
\* works under while the record says w.
Issue(id, t, w, holder) ==
    /\ issued < MaxGrants
    /\ issued' = issued + 1
    /\ tasks' = [tasks EXCEPT ![id] = Granted(t, w, issued + 1)]
    /\ grant' = [grant EXCEPT ![issued + 1] =
                    [id |-> id, holder |-> holder, end |-> "open"]]

Unreserved(n, id) == running' = [running EXCEPT ![n][id] = "free"]

\* Call the cancel function stored for the task, if there is one.
CancelRun(n, id) ==
    exec' = IF running[n][id] \in Slots
            THEN [exec EXCEPT ![n][running[n][id]].aborted = TRUE] ELSE exec

(* One candidate of a listing, as both dispatch and Claim treat it: p is   *)
(* the walking goroutine.                                                  *)

\* Mutant: a task whose dependencies have not finished is not passed over.
ConsiderUnready(p, id) ==
    [p EXCEPT !.pc = IF DepsBroken(tasks, id) THEN "failUnready" ELSE "reserve",
              !.snap = Without(@, id), !.id = id, !.t = p.snap[id]]

Consider(p, id) ==
    LET q == [p EXCEPT !.snap = Without(@, id), !.id = id, !.t = p.snap[id]]
    IN  IF DepsBroken(tasks, id) THEN [q EXCEPT !.pc = "failUnready"]
        ELSE IF DepsReady(tasks, id) THEN [q EXCEPT !.pc = "reserve"]
        ELSE [p EXCEPT !.snap = Without(@, id)]

\* The goroutine is done with its candidate and goes back to pc.
Back(p, pc) == [p EXCEPT !.pc = pc, !.id = NoId, !.t = NoTask]

FailUnready(p) == tasks' = UpdateIfState(tasks, p.id, p.t.status, p.t.token,
                                         DepFailed(p.t))

-----------------------------------------------------------------------------
(* dispatch, run by the loop goroutine on every tick of its interval.      *)

Looping(n) == node[n] \in {"up", "stopping"}

\* reapExpired lists the lapsed leases ...
Tick(n) ==
    /\ Looping(n) /\ disp[n].pc = "idle"
    /\ disp' = [disp EXCEPT ![n].pc = "reap", ![n].snap = ListExpired(tasks)]
    /\ UNCHANGED <<tasks, grant, issued, node, workers, running, queue, exec, call>>

\* ... cancels the run and drops the reservation of each ...
ReapRelease(n, id) ==
    /\ disp[n].pc = "reap" /\ id \in Listed(disp[n].snap)
    /\ CancelRun(n, id)
    /\ Unreserved(n, id)
    /\ disp' = [disp EXCEPT ![n].pc = "reapWrite", ![n].id = id,
                            ![n].t = disp[n].snap[id], ![n].snap = Without(@, id)]
    /\ UNCHANGED <<tasks, grant, issued, node, workers, queue, call>>

\* Mutant: the snapshot is written back unconditionally.
ReapWriteBlind(n) ==
    LET id == disp[n].id IN
    /\ disp[n].pc = "reapWrite"
    /\ tasks' = Update(tasks, id, Requeued(disp[n].t))
    /\ grant' = IF InState(tasks, id, "running", disp[n].t.token)
                THEN [grant EXCEPT ![disp[n].t.token].end = "expired"] ELSE grant
    /\ disp' = [disp EXCEPT ![n] = Back(@, "reap")]
    /\ UNCHANGED <<issued, node, workers, running, queue, exec, call>>

\* ... and makes it retryable, unless it left that lease since the listing.
ReapWrite(n) ==
    /\ disp[n].pc = "reapWrite"
    /\ Settle(disp[n].id, disp[n].t.token, Requeued(disp[n].t), "expired")
    /\ disp' = [disp EXCEPT ![n] = Back(@, "reap")]
    /\ UNCHANGED <<issued, node, workers, running, queue, exec, call>>

DispatchList(n) ==
    /\ disp[n].pc = "reap" /\ Listed(disp[n].snap) = {}
    /\ disp' = [disp EXCEPT ![n].pc = "walk", ![n].snap = ListDue(tasks)]
    /\ UNCHANGED <<tasks, grant, issued, node, workers, running, queue, exec, call>>

DispatchConsider(n, id) ==
    /\ disp[n].pc = "walk" /\ id \in Listed(disp[n].snap)
    /\ disp' = [disp EXCEPT ![n] = Consider(disp[n], id)]
    /\ UNCHANGED <<tasks, grant, issued, node, workers, running, queue, exec, call>>

DispatchFail(n) ==
    /\ disp[n].pc = "failUnready"
    /\ FailUnready(disp[n])
    /\ disp' = [disp EXCEPT ![n] = Back(@, "walk")]
    /\ UNCHANGED <<grant, issued, node, workers, running, queue, exec, call>>

DispatchReserve(n) ==
    LET id == disp[n].id IN
    /\ disp[n].pc = "reserve"
    /\ IF running[n][id] = "free" /\ id \in Handled
       THEN /\ running' = [running EXCEPT ![n][id] = "nil"]
            /\ disp' = [disp EXCEPT ![n].pc = "commit"]
       ELSE /\ disp' = [disp EXCEPT ![n] = Back(@, "walk")]
            /\ UNCHANGED running
    /\ UNCHANGED <<tasks, grant, issued, node, workers, queue, exec, call>>

\* pickWorker: any worker this node knows that is not overdue, external ones
\* included.
PickWorker(n) ==
    LET live == {w \in Nodes \cup Workers : workers[n][w] = "live"}
    IN  IF live = {} THEN {NoWorker} ELSE live

\* Mutant: the listed record is taken for current.
DispatchCommitBlind(n) ==
    LET id == disp[n].id  t == disp[n].t IN
    /\ disp[n].pc = "commit"
    /\ \E w \in PickWorker(n) :
         /\ Issue(id, t, w, n)
         /\ disp' = [disp EXCEPT ![n].pc = "enqueue",
                                 ![n].t = Granted(t, w, issued + 1)]
    /\ UNCHANGED <<node, workers, running, queue, exec, call>>

DispatchCommit(n) ==
    LET id == disp[n].id  t == disp[n].t IN
    /\ disp[n].pc = "commit"
    /\ IF InState(tasks, id, t.status, t.token)
       THEN \E w \in PickWorker(n) :
              /\ Issue(id, t, w, n)
              /\ disp' = [disp EXCEPT ![n].pc = "enqueue",
                                      ![n].t = Granted(t, w, issued + 1)]
       ELSE /\ disp' = [disp EXCEPT ![n].pc = "unreserve"]
            /\ UNCHANGED <<tasks, grant, issued>>
    /\ UNCHANGED <<node, workers, running, queue, exec, call>>

DispatchEnqueue(n) ==
    /\ disp[n].pc = "enqueue"
    /\ IF Len(queue[n]) < QueueCap
       THEN /\ queue' = [queue EXCEPT ![n] = Append(@, disp[n].t.token)]
            /\ disp' = [disp EXCEPT ![n] = Back(@, "walk")]
       ELSE /\ disp' = [disp EXCEPT ![n].pc = "rollback"]
            /\ UNCHANGED queue
    /\ UNCHANGED <<tasks, grant, issued, node, workers, running, exec, call>>

\* Mutant: the reservation is kept after the rollback.
DispatchRollbackLeaky(n) ==
    /\ disp[n].pc = "rollback"
    /\ Settle(disp[n].id, disp[n].t.token, RolledBack(disp[n].t), "rolledback")
    /\ disp' = [disp EXCEPT ![n] = Back(@, "walk")]
    /\ UNCHANGED <<issued, node, workers, running, queue, exec, call>>

DispatchRollback(n) ==
    /\ disp[n].pc = "rollback"
    /\ Settle(disp[n].id, disp[n].t.token, RolledBack(disp[n].t), "rolledback")
    /\ disp' = [disp EXCEPT ![n].pc = "unreserve"]
    /\ UNCHANGED <<issued, node, workers, running, queue, exec, call>>

DispatchUnreserve(n) ==
    /\ disp[n].pc = "unreserve"
    /\ Unreserved(n, disp[n].id)
    /\ disp' = [disp EXCEPT ![n] = Back(@, "walk")]
    /\ UNCHANGED <<tasks, grant, issued, node, workers, queue, exec, call>>

DispatchDone(n) ==
    /\ disp[n].pc = "walk" /\ Listed(disp[n].snap) = {}
    /\ disp' = [disp EXCEPT ![n] = IdleLoop]
    /\ UNCHANGED <<tasks, grant, issued, node, workers, running, queue, exec, call>>

\* The same goroutine's heartbeat ticker.
LocalHeartbeat(n) ==
    /\ Looping(n) /\ disp[n].pc = "idle"
    /\ workers' = [workers EXCEPT ![n][n] = "live"]
    /\ tasks' = RenewWorkerTaskLeases(tasks, n)
    /\ UNCHANGED <<grant, issued, node, running, queue, disp, exec, call>>

Dispatch(n) ==
    \/ Tick(n) \/ ReapWrite(n) \/ DispatchList(n) \/ DispatchFail(n)
    \/ DispatchReserve(n) \/ DispatchCommit(n) \/ DispatchEnqueue(n)
    \/ DispatchRollback(n) \/ DispatchUnreserve(n) \/ DispatchDone(n)
    \/ \E id \in Ids : ReapRelease(n, id) \/ DispatchConsider(n, id)


-----------------------------------------------------------------------------
(* The worker goroutines: worker and execute.                              *)

Alive(n) == node[n] \notin {"new", "dead"}

\* The record still says running under the token the goroutine was given.
StillOurs(token) ==
    InState(tasks, grant[token].id, "running", token)

\* worker takes a task; once the scheduler is stopping it still may, and then
\* works under a context that is already done.
Take(n, s) ==
    /\ Alive(n) /\ exec[n][s].pc = "idle" /\ queue[n] # <<>>
    /\ exec' = [exec EXCEPT ![n][s] = [IdleSlot EXCEPT !.pc = "check",
                    !.token = Head(queue[n]), !.aborted = node[n] # "up"]]
    /\ queue' = [queue EXCEPT ![n] = Tail(@)]
    /\ UNCHANGED <<tasks, grant, issued, node, workers, running, disp, call>>

ExecCheck(n, s) ==
    /\ exec[n][s].pc = "check"
    /\ exec' = [exec EXCEPT ![n][s].pc =
                    IF StillOurs(exec[n][s].token) THEN "begin" ELSE "drop"]
    /\ UNCHANGED <<tasks, grant, issued, node, workers, running, queue, disp, call>>

\* The cancel function goes into running.
ExecBegin(n, s) ==
    /\ exec[n][s].pc = "begin"
    /\ running' = [running EXCEPT ![n][grant[exec[n][s].token].id] = s]
    /\ exec' = [exec EXCEPT ![n][s].pc = "handler"]
    /\ UNCHANGED <<tasks, grant, issued, node, workers, queue, disp, call>>

\* The handler returns, within its timeout or not; a done context turns success
\* into an error.  The record is read again, and the run given up if it changed.
ExecReturn(n, s) ==
    LET token == exec[n][s].token IN
    /\ exec[n][s].pc = "handler"
    /\ IF StillOurs(token)
       THEN \E ok \in BOOLEAN :
              /\ exec[n][s].aborted => ~ok
              /\ exec' = [exec EXCEPT ![n][s].pc = "finish", ![n][s].ok = ok,
                                      ![n][s].t = tasks[grant[token].id]]
       ELSE exec' = [exec EXCEPT ![n][s].pc = "release"]
    /\ UNCHANGED <<tasks, grant, issued, node, workers, running, queue, disp, call>>

ExecFinish(n, s) ==
    LET x == exec[n][s]  id == grant[x.token].id IN
    /\ x.pc = "finish"
    /\ Settle(id, x.t.token, Finished(id, x.t, x.ok), Verdict(id, x.t, x.ok))
    /\ exec' = [exec EXCEPT ![n][s].pc = "release"]
    /\ UNCHANGED <<issued, node, workers, running, queue, disp, call>>

\* Both ways out of execute delete the reservation, whoever holds it by now.
ExecRelease(n, s) ==
    /\ exec[n][s].pc \in {"drop", "release"}
    /\ Unreserved(n, grant[exec[n][s].token].id)
    /\ exec' = [exec EXCEPT ![n][s] = IdleSlot]
    /\ UNCHANGED <<tasks, grant, issued, node, workers, queue, disp, call>>

Execute(n, s) ==
    \/ Take(n, s) \/ ExecCheck(n, s) \/ ExecBegin(n, s)
    \/ ExecReturn(n, s) \/ ExecFinish(n, s) \/ ExecRelease(n, s)

-----------------------------------------------------------------------------
(* Start, Stop and the end of loop.                                        *)

\* A process starts.  Before its API is served, and with the store to itself,
\* recoverRunning makes every running task retryable; a shared store is left
\* alone.
Start(n) ==
    /\ node[n] = "new"
    /\ SharedStore \/ \A m \in Nodes : ~Alive(m)
    /\ node' = [node EXCEPT ![n] = "up"]
    /\ workers' = [workers EXCEPT ![n][n] = "live"]
    /\ IF SharedStore THEN UNCHANGED <<tasks, grant>>
       ELSE /\ tasks' = [id \in Ids |-> IF tasks[id].status = "running"
                                        THEN Requeued(tasks[id]) ELSE tasks[id]]
            /\ grant' = [k \in Tokens |-> IF grant[k].end = "open"
                              THEN [grant[k] EXCEPT !.end = "recovered"] ELSE grant[k]]
    /\ UNCHANGED <<issued, running, queue, disp, exec, call>>

\* The context is cancelled, by a signal or by Stop.
Stop(n) ==
    /\ "stop" \in Ops /\ node[n] = "up"
    /\ node' = [node EXCEPT ![n] = "stopping"]
    /\ exec' = [exec EXCEPT ![n] = [s \in Slots |->
                    [exec[n][s] EXCEPT !.aborted = exec[n][s].pc # "idle"]]]
    /\ UNCHANGED <<tasks, grant, issued, workers, running, queue, disp, call>>

\* loop returns between two ticks: requeueRunningOnStop lists the running tasks
\* and keeps those whose worker id is one of its own local workers.
RequeueList(n) ==
    /\ node[n] = "stopping" /\ disp[n].pc = "idle"
    /\ disp' = [disp EXCEPT ![n].pc = "requeue",
          ![n].snap = Listing(tasks, {id \in Ids : /\ tasks[id].status = "running"
                                                   /\ tasks[id].worker = n})]
    /\ UNCHANGED <<tasks, grant, issued, node, workers, running, queue, exec, call>>

\* Mutant: the task is requeued even if it has left the lease that was listed.
RequeueWriteBlind(n, id) ==
    LET t == disp[n].snap[id] IN
    /\ disp[n].pc = "requeue" /\ id \in Listed(disp[n].snap)
    /\ tasks' = Update(tasks, id, Requeued(t))
    /\ grant' = [grant EXCEPT ![t.token].end = "requeued"]
    /\ disp' = [disp EXCEPT ![n].snap = Without(@, id)]
    /\ UNCHANGED <<issued, node, workers, running, queue, exec, call>>

RequeueWrite(n, id) ==
    LET t == disp[n].snap[id] IN
    /\ disp[n].pc = "requeue" /\ id \in Listed(disp[n].snap)
    /\ Settle(id, t.token, Requeued(t), "requeued")
    /\ disp' = [disp EXCEPT ![n].snap = Without(@, id)]
    /\ UNCHANGED <<issued, node, workers, running, queue, exec, call>>

\* Mutant: Stop returns while the requeueing is still going on.
StoppedEarly(n) ==
    /\ disp[n].pc = "requeue"
    /\ node' = [node EXCEPT ![n] = "stopped"]
    /\ disp' = [disp EXCEPT ![n] = IdleLoop]
    /\ UNCHANGED <<tasks, grant, issued, workers, running, queue, exec, call>>

Stopped(n) ==
    /\ disp[n].pc = "requeue" /\ Listed(disp[n].snap) = {}
    /\ node' = [node EXCEPT ![n] = "stopped"]
    /\ disp' = [disp EXCEPT ![n] = IdleLoop]
    /\ UNCHANGED <<tasks, grant, issued, workers, running, queue, exec, call>>

\* Start after Stop in the same process: recoverRunning now lists and writes
\* while API goroutines and left-over worker goroutines are active.
Restart(n) ==
    /\ "restart" \in Ops /\ node[n] = "stopped"
    /\ node' = [node EXCEPT ![n] = "restarting"]
    /\ workers' = [workers EXCEPT ![n][n] = "live"]
    /\ disp' = [disp EXCEPT ![n].pc = "recover",
                  ![n].snap = IF SharedStore THEN Empty ELSE ListRunning(tasks)]
    /\ UNCHANGED <<tasks, grant, issued, running, queue, exec, call>>

\* The write is unconditional: whatever lease is current, it ends here.
RecoverWrite(n, id) ==
    /\ disp[n].pc = "recover" /\ id \in Listed(disp[n].snap)
    /\ tasks' = Update(tasks, id, Requeued(disp[n].snap[id]))
    /\ grant' = IF tasks[id].status = "running"
                THEN [grant EXCEPT ![tasks[id].token].end = "recovered"] ELSE grant
    /\ disp' = [disp EXCEPT ![n].snap = Without(@, id)]
    /\ UNCHANGED <<issued, node, workers, running, queue, exec, call>>

Restarted(n) ==
    /\ disp[n].pc = "recover" /\ Listed(disp[n].snap) = {}
    /\ node' = [node EXCEPT ![n] = "up"]
    /\ disp' = [disp EXCEPT ![n] = IdleLoop]
    /\ UNCHANGED <<tasks, grant, issued, workers, running, queue, exec, call>>

\* The process is gone, with everything but the store (and its worker rows).
Crash(n) ==
    /\ "crash" \in Ops /\ Alive(n)
    /\ node' = [node EXCEPT ![n] = "dead"]
    /\ running' = [running EXCEPT ![n] = [id \in Ids |-> "free"]]
    /\ queue' = [queue EXCEPT ![n] = <<>>]
    /\ disp' = [disp EXCEPT ![n] = IdleLoop]
    /\ exec' = [exec EXCEPT ![n] = [s \in Slots |-> IdleSlot]]
    /\ call' = [c \in Callers |-> IF call[c].node = n THEN IdleCall ELSE call[c]]
    /\ UNCHANGED <<tasks, grant, issued, workers>>

StartStop(n) ==
    \/ Start(n) \/ Stop(n) \/ RequeueList(n) \/ Stopped(n)
    \/ Restart(n) \/ Restarted(n) \/ Crash(n)
    \/ \E id \in Ids : RequeueWrite(n, id) \/ RecoverWrite(n, id)


-----------------------------------------------------------------------------
(* External workers: registration, heartbeats, claims.                     *)

Registered(n, w) == IF SharedStore THEN \E m \in Nodes : workers[m][w] # "absent"
                    ELSE workers[n][w] # "absent"
WorkerHealthy(n, w) == IF SharedStore THEN \E m \in Nodes : workers[m][w] = "live"
                       ELSE workers[n][w] = "live"

\* Registering a worker that is live already leaves the state as it is.
RegisterWorker(n, w) ==
    /\ "claim" \in Ops /\ Alive(n) /\ workers[n][w] # "live"
    /\ workers' = [workers EXCEPT ![n][w] = "live"]
    /\ UNCHANGED <<tasks, grant, issued, node, running, queue, disp, exec, call>>

\* A heartbeat also renews every running task that carries the worker's id.
Heartbeat(n, w) ==
    /\ "heartbeat" \in Ops /\ Alive(n) /\ Registered(n, w)
    /\ workers' = [workers EXCEPT ![n][w] = "live"]
    /\ tasks' = RenewWorkerTaskLeases(tasks, w)
    /\ UNCHANGED <<grant, issued, node, running, queue, disp, exec, call>>

Begin(n, pc) == [IdleCall EXCEPT !.pc = pc, !.node = n]

\* Claim on a store that is no AtomicClaimer: walk a listing of the due tasks.
ClaimList(c, n, w) ==
    /\ "claim" \in Ops /\ ~SharedStore
    /\ Alive(n) /\ call[c].pc = "idle" /\ WorkerHealthy(n, w)
    /\ call' = [call EXCEPT ![c] = [Begin(n, "walk") EXCEPT
                    !.worker = w, !.snap = ListDue(tasks)]]
    /\ UNCHANGED <<tasks, grant, issued, node, workers, running, queue, disp, exec>>

ClaimConsider(c, id) ==
    /\ call[c].pc = "walk" /\ id \in Listed(call[c].snap)
    /\ call' = [call EXCEPT ![c] = Consider(call[c], id)]
    /\ UNCHANGED <<tasks, grant, issued, node, workers, running, queue, disp, exec>>

ClaimFail(c) ==
    /\ call[c].pc = "failUnready"
    /\ FailUnready(call[c])
    /\ call' = [call EXCEPT ![c] = Back(@, "walk")]
    /\ UNCHANGED <<grant, issued, node, workers, running, queue, disp, exec>>

ClaimReserve(c) ==
    LET n == call[c].node  id == call[c].id IN
    /\ call[c].pc = "reserve"
    /\ IF running[n][id] = "free"
       THEN /\ running' = [running EXCEPT ![n][id] = "nil"]
            /\ call' = [call EXCEPT ![c].pc = "claimRead"]
       ELSE /\ call' = [call EXCEPT ![c] = Back(@, "walk")]
            /\ UNCHANGED running
    /\ UNCHANGED <<tasks, grant, issued, node, workers, queue, disp, exec>>

\* Mutant: a claim that lost its candidate forgets to drop the reservation.
ClaimReadLeaky(c) ==
    LET id == call[c].id IN
    /\ call[c].pc = "claimRead"
    /\ call' = IF Claimable(tasks[id])
               THEN [call EXCEPT ![c].pc = "claimWrite", ![c].t = tasks[id]]
               ELSE [call EXCEPT ![c] = Back(@, "walk")]
    /\ UNCHANGED <<tasks, grant, issued, node, workers, running, queue, disp, exec>>

\* commitClaim reads the record again ...
ClaimRead(c) ==
    LET id == call[c].id IN
    /\ call[c].pc = "claimRead"
    /\ call' = IF Claimable(tasks[id])
               THEN [call EXCEPT ![c].pc = "claimWrite", ![c].t = tasks[id]]
               ELSE [call EXCEPT ![c].pc = "unreserve"]
    /\ UNCHANGED <<tasks, grant, issued, node, workers, running, queue, disp, exec>>

\* ... and writes it back if its state is still the one just read.
ClaimWrite(c) ==
    LET id == call[c].id  t == call[c].t IN
    /\ call[c].pc = "claimWrite"
    /\ IF InState(tasks, id, t.status, t.token)
       THEN /\ Issue(id, t, call[c].worker, call[c].worker)
            /\ call' = [call EXCEPT ![c] = IdleCall]
       ELSE /\ call' = [call EXCEPT ![c].pc = "unreserve"]
            /\ UNCHANGED <<tasks, grant, issued>>
    /\ UNCHANGED <<node, workers, running, queue, disp, exec>>

ClaimUnreserve(c) ==
    /\ call[c].pc = "unreserve"
    /\ Unreserved(call[c].node, call[c].id)
    /\ call' = [call EXCEPT ![c] = Back(@, "walk")]
    /\ UNCHANGED <<tasks, grant, issued, node, workers, queue, disp, exec>>

ClaimNone(c) ==
    /\ call[c].pc = "walk" /\ Listed(call[c].snap) = {}
    /\ call' = [call EXCEPT ![c] = IdleCall]
    /\ UNCHANGED <<tasks, grant, issued, node, workers, running, queue, disp, exec>>

\* Claim on PostgreSQL: ClaimDue is one transaction.  It fails the broken
\* candidates it meets before the first ready one; rows that another
\* transaction has locked are skipped.
ClaimDue(n, w) ==
    LET due    == {id \in Ids : Claimable(tasks[id])}
        broken == {id \in due : DepsBroken(tasks, id)}
        fail(F) == [id \in Ids |-> IF id \in F THEN DepFailed(tasks[id]) ELSE tasks[id]]
    IN
    /\ "claim" \in Ops /\ SharedStore
    /\ Alive(n) /\ WorkerHealthy(n, w)
    /\ \E F \in SUBSET broken :
         \/ \E id \in due :
              /\ DepsReady(tasks, id)
              /\ issued < MaxGrants
              /\ issued' = issued + 1
              /\ tasks' = [fail(F) EXCEPT ![id] = Granted(tasks[id], w, issued + 1)]
              /\ grant' = [grant EXCEPT ![issued + 1] =
                             [id |-> id, holder |-> w, end |-> "open"]]
         \/ /\ F # {}
            /\ tasks' = fail(F)
            /\ UNCHANGED <<grant, issued>>
    /\ UNCHANGED <<node, workers, running, queue, disp, exec, call>>

Claim(c) ==
    \/ ClaimFail(c) \/ ClaimReserve(c) \/ ClaimRead(c) \/ ClaimWrite(c)
    \/ ClaimUnreserve(c) \/ ClaimNone(c)
    \/ \E id \in Ids : ClaimConsider(c, id)

-----------------------------------------------------------------------------
(* External workers: renewing and completing.  A worker may send a request *)
(* for any lease it was ever given, late or twice.                         *)

GrantedTo(w) == {k \in 1..issued : grant[k].holder = w}

\* The read and the check shared by RenewTaskLease and CompleteTaskWithResult;
\* a request that fails it changes nothing.
Present(c, n, w, k, pc, ok) ==
    LET id == grant[k].id IN
    /\ Alive(n) /\ call[c].pc = "idle"
    /\ ValidLease(tasks[id], w, k)
    /\ call' = [call EXCEPT ![c] = [Begin(n, pc) EXCEPT
                    !.worker = w, !.token = k, !.ok = ok, !.id = id, !.t = tasks[id]]]
    /\ UNCHANGED <<tasks, grant, issued, node, workers, running, queue, disp, exec>>

RenewTaskLease(c, n, w, k) == "renew" \in Ops /\ Present(c, n, w, k, "renew", FALSE)

RenewWrite(c) ==
    LET p == call[c] IN
    /\ p.pc = "renew"
    /\ tasks' = UpdateIfLease(tasks, p.id, p.token, [p.t EXCEPT !.lease = "live"])
    /\ call' = [call EXCEPT ![c] = IdleCall]
    /\ UNCHANGED <<grant, issued, node, workers, running, queue, disp, exec>>

CompleteTask(c, n, w, k) ==
    "claim" \in Ops /\ \E ok \in BOOLEAN : Present(c, n, w, k, "finish", ok)

CompleteFinish(c) ==
    LET p == call[c] IN
    /\ p.pc = "finish"
    /\ Settle(p.id, p.t.token, Finished(p.id, p.t, p.ok), Verdict(p.id, p.t, p.ok))
    /\ call' = [call EXCEPT ![c] = IF InState(tasks, p.id, "running", p.t.token)
                                  THEN [p EXCEPT !.pc = "release"] ELSE IdleCall]
    /\ UNCHANGED <<issued, node, workers, running, queue, disp, exec>>

CompleteRelease(c) ==
    /\ call[c].pc = "release"
    /\ Unreserved(call[c].node, call[c].id)
    /\ call' = [call EXCEPT ![c] = IdleCall]
    /\ UNCHANGED <<tasks, grant, issued, node, workers, queue, disp, exec>>

-----------------------------------------------------------------------------
(* Clients: cancel, purge, submit.                                         *)

\* Cancel reads the task and stops at a terminal one ...
Cancel(c, n, id) ==
    /\ "cancel" \in Ops /\ Alive(n) /\ call[c].pc = "idle"
    /\ Exists(tasks, id) /\ ~IsTerminal(id, tasks[id])
    /\ call' = [call EXCEPT ![c] = [Begin(n, "cancel") EXCEPT
                                      !.id = id, !.t = tasks[id]]]
    /\ UNCHANGED <<tasks, grant, issued, node, workers, running, queue, disp, exec>>

\* ... cancels the local run and drops the reservation ...
CancelRelease(c) ==
    /\ call[c].pc = "cancel"
    /\ CancelRun(call[c].node, call[c].id)
    /\ Unreserved(call[c].node, call[c].id)
    /\ call' = [call EXCEPT ![c].pc = "cancelWrite"]
    /\ UNCHANGED <<tasks, grant, issued, node, workers, queue, disp>>

\* ... and only then finds out whether the task is still in the state it read.
CancelWrite(c) ==
    LET p == call[c] IN
    /\ p.pc = "cancelWrite"
    /\ IF p.t.status = "running"
       THEN Settle(p.id, p.t.token, Canceled(p.t), "canceled")
       ELSE /\ tasks' = UpdateIfState(tasks, p.id, p.t.status, p.t.token, Canceled(p.t))
            /\ UNCHANGED grant
    /\ call' = [call EXCEPT ![c] = IdleCall]
    /\ UNCHANGED <<issued, node, workers, running, queue, disp, exec>>

Purge(c, n, id) ==
    /\ "purge" \in Ops /\ Alive(n) /\ call[c].pc = "idle"
    /\ Exists(tasks, id) /\ tasks[id].status # "running"
    /\ call' = [call EXCEPT ![c] = [Begin(n, "purge") EXCEPT !.id = id]]
    /\ UNCHANGED <<tasks, grant, issued, node, workers, running, queue, disp, exec>>

\* The delete is unconditional.
PurgeDelete(c) ==
    LET id == call[c].id IN
    /\ call[c].pc = "purge"
    /\ tasks' = Delete(tasks, id)
    /\ grant' = IF tasks[id].status = "running"
                THEN [grant EXCEPT ![tasks[id].token].end = "deleted"] ELSE grant
    /\ call' = [call EXCEPT ![c] = IdleCall]
    /\ UNCHANGED <<issued, node, workers, running, queue, disp, exec>>

\* Submit: the idempotency key, then backpressure, then the dependencies, then
\* the record, each read or written on its own.
Submit(c, n, id) ==
    /\ "submit" \in Ops /\ Alive(n) /\ call[c].pc = "idle"
    /\ ~KeyTaken(tasks, id)
    /\ call' = [call EXCEPT ![c] = [Begin(n, "submitCount") EXCEPT !.id = id]]
    /\ UNCHANGED <<tasks, grant, issued, node, workers, running, queue, disp, exec>>

\* Mutant: one too many.
SubmitCountOffByOne(c) ==
    /\ call[c].pc = "submitCount"
    /\ call' = IF MaxPending > 0 /\ CountInFlight(tasks) > MaxPending
               THEN [call EXCEPT ![c] = IdleCall]
               ELSE [call EXCEPT ![c].pc = "submitDeps"]
    /\ UNCHANGED <<tasks, grant, issued, node, workers, running, queue, disp, exec>>

\* A limit of zero is no limit.
SubmitCount(c) ==
    /\ call[c].pc = "submitCount"
    /\ call' = IF MaxPending > 0 /\ CountInFlight(tasks) >= MaxPending
               THEN [call EXCEPT ![c] = IdleCall]
               ELSE [call EXCEPT ![c].pc = "submitDeps"]
    /\ UNCHANGED <<tasks, grant, issued, node, workers, running, queue, disp, exec>>

SubmitDeps(c) ==
    LET id == call[c].id  deps == DependsOn[id] IN
    /\ call[c].pc = "submitDeps"
    /\ call' = IF \A i \in DOMAIN deps : /\ deps[i] # id /\ Exists(tasks, deps[i])
                                        /\ ~Reaches(tasks, deps[i], id)
               THEN [call EXCEPT ![c].pc = "create"]
               ELSE [call EXCEPT ![c] = IdleCall]
    /\ UNCHANGED <<tasks, grant, issued, node, workers, running, queue, disp, exec>>

SubmitCreate(c) ==
    /\ call[c].pc = "create"
    /\ tasks' = Create(tasks, call[c].id, NewTask)
    /\ call' = [call EXCEPT ![c] = IdleCall]
    /\ UNCHANGED <<grant, issued, node, workers, running, queue, disp, exec>>

Serve(c) ==
    \/ Claim(c) \/ RenewWrite(c) \/ CompleteFinish(c) \/ CompleteRelease(c)
    \/ CancelRelease(c) \/ CancelWrite(c) \/ PurgeDelete(c)
    \/ SubmitCount(c) \/ SubmitDeps(c) \/ SubmitCreate(c)

Request(c, n) ==
    \/ \E w \in Workers :
         \/ ClaimList(c, n, w)
         \/ \E k \in GrantedTo(w) :
              RenewTaskLease(c, n, w, k) \/ CompleteTask(c, n, w, k)
    \/ \E id \in Ids : Cancel(c, n, id) \/ Purge(c, n, id) \/ Submit(c, n, id)

-----------------------------------------------------------------------------
(* The passage of time.                                                    *)

BecomesDue(id) ==
    /\ tasks[id].status \in {"pending", "retrying"} /\ ~tasks[id].due
    /\ tasks' = [tasks EXCEPT ![id].due = TRUE]
    /\ UNCHANGED <<grant, issued, node, workers, running, queue, disp, exec, call>>

LeaseLapses(id) ==
    /\ tasks[id].status = "running" /\ tasks[id].lease = "live"
    /\ tasks' = [tasks EXCEPT ![id].lease = "lapsed"]
    /\ UNCHANGED <<grant, issued, node, workers, running, queue, disp, exec, call>>

WorkerLapses(n, w) ==
    /\ "late" \in Ops /\ workers[n][w] = "live"
    /\ workers' = [workers EXCEPT ![n][w] = "lapsed"]
    /\ UNCHANGED <<tasks, grant, issued, node, running, queue, disp, exec, call>>

-----------------------------------------------------------------------------
Next ==
    \/ \E n \in Nodes :
         \/ Dispatch(n) \/ LocalHeartbeat(n) \/ StartStop(n)
         \/ \E s \in Slots : Execute(n, s)
         \/ \E c \in Callers : Request(c, n)
         \/ \E w \in Workers : RegisterWorker(n, w) \/ Heartbeat(n, w) \/ ClaimDue(n, w)
         \/ \E w \in Nodes \cup Workers : WorkerLapses(n, w)
    \/ \E c \in Callers : Serve(c)
    \/ \E id \in Ids : BecomesDue(id) \/ LeaseLapses(id)

Spec == Init /\ [][Next]_vars

=============================================================================
