# JobRaft in TLA+

A model of JobRaft's task scheduler, of its file store and worker client, and of its
leader election; the TLC runs that check it on small instances; and TLAPS proofs of its
central invariants for instances of every size.

## The system

JobRaft runs tasks at least once. A task record lives in a *store* and moves through
`pending`, `running`, `retrying`, `success`, `failed` and `canceled`. Running a task
means holding a *lease* on it: a worker id, an expiry time and a *lease token*. A
completion, cancellation, expiry, rollback or requeue compares the stored status and
token before it ends a lease; `recoverRunning` and `Delete` write unconditionally.

| part | source | modelled in |
|---|---|---|
| task record | `internal/task/task.go` | `Task` |
| task ids | `internal/task/id.go` | not modelled: a random generator; ids are model values |
| store contract, MemoryStore | `internal/store/store.go` | `Store` |
| FileStore | `internal/store/file.go`, `internal/fileutil` | `Store`, `FileStore`, `FileReplace` |
| PostgresStore | `internal/store/postgres.go` | `Store`, `Scheduler!ClaimDue`, in part |
| dispatch loop, lease expiry | `internal/scheduler/scheduler.go` | `Scheduler`: `Dispatch`, `LocalHeartbeat` |
| local worker goroutines | same | `Scheduler`: `Execute` |
| external workers | same | `Scheduler`: `RegisterWorker`, `Heartbeat`, `Claim`, `ClaimDue`, `RenewTaskLease`, `CompleteTask` |
| submit, cancel, purge | same | `Scheduler`: `Submit`, `Cancel`, `Purge` |
| start, stop, recovery | same | `Scheduler`: `StartStop` |
| metrics | same | the recorded end of each lease; the latency histogram is left out |
| candidate order | `bestDue`, `store.Due` | listings are walked in any order |
| leader gate | `SetLeaderGate` | a node of `Scheduler` may refrain from ticking or claiming; what the gate says is `Acting` in `ClusterProperties` |
| election | `internal/cluster/election.go` | `Registry`, `FileRegistry` |
| file registry | `internal/cluster/file_registry.go`, `internal/fileutil` | `FileRegistry`, `FileReplace` |
| consensus model (tests only) | `internal/cluster/consensus.go` | not modelled |
| worker client | `pkg/workerclient` | `WorkerClient` |
| HTTP API | `internal/api` | the handlers behind the worker client and `GET /cluster`: `WorkerClient`, `FileRegistry`; the rest is not modelled |
| server process | `cmd/jobraft` | its start, stop and crash are in `Scheduler`, `WorkerClient` and `FileRegistry`; configuration and HTTP draining are not |
| benchmark, demo worker | `cmd/jobraft-bench`, `examples` | not modelled: clients of the API |

`PROJECT.json` lists the same parts with their status, and the hazards of the code at
the lines where they bite.

## Modules

- `Task`: the record and the pure changes the scheduler makes to a copy of it
  (`Granted`, `Finished`, `Requeued`, `RolledBack`, ...).
- `Store`: each store method as an atomic operator on the map from ids to records
  (`UpdateIfState`, `Create`, `ListDue`, ...), and the dependency checks.
- `Scheduler`: the state machine. The loop goroutine, the worker goroutines and the
  goroutines serving API calls interleave at every store call and every critical
  section of `Scheduler.mu`; between two steps a goroutine holds the copies it read,
  as in the code. There is one action for each such step of a function, named after
  it (`Cancel`, `CancelRelease`, `CancelWrite`).
- `SchedulerProperties`: what is claimed, and the fairness.
- `TaskLifecycle`: an abstract specification of a task as a client sees it.
- `FileReplace`: `fileutil.Replace` as a function from a directory and a place in the
  code to the set of outcomes of the next system call.
- `FileStore`: the task map in memory, the document, and the steps of `saveLocked`.
- `WorkerClient`: composes `FileStore` with `Client.Run` and `runHandler`, the HTTP
  handlers they call, and a network that loses and delays. `WorkerProperties` says what
  is claimed of it.
- `Registry`: `Renew`, `Leader` and `List` as operators on the map of nodes.
- `FileRegistry`: processes that apply them to a shared file under a lock file, with the
  Elector of each. `ClusterProperties` says what is claimed of it.
- `MCScheduler`, `MCWorker`, `MCCluster`: definitions for the TLC instances.
- Proofs. `OperatorLemmas`: what the operators of `Task`, `Store` and `FileReplace` do.
  `SchedulerProofs`: the inductive invariant of `Scheduler` and fencing. `StepProofs`: what
  one step can do to a record and to the goroutines of a node, and stopping.
  `ReservationProofs` and `LifecycleProofs` use it; `CountingProofs` builds on
  `LifecycleProofs` and on the theorems about finite sets. `ClusterProofs`: the registry.
  `WorkerProofs`: the invariant of `WorkerClient` with the types, files and leases; then
  reservations, requests and verdicts.

State of `Scheduler`: `tasks` is the store; `node`, `workers`, `running`, `queue` are the fields of a
`Scheduler` (`running` is "free" for no entry, "nil" for a reservation, or the goroutine
whose cancel function is stored); `disp`, `exec`, `call` are the locals of the goroutines.
`grant` and `issued` are history: entry `k` says whom token `k` was given to and how
that lease ended. The way it ended is the metric the settling write increments.

State of `WorkerClient`: `mem`, `dir` and `save` are the FileStore (the map, the files, and
where the goroutine holding `FileStore.mu` is); `srv`, `reg`, `reserved` are the server
process, `workersByID` and `Scheduler.running`; `serving` is the request whose store call
is in progress; `client`, `req` and `late` are the worker's goroutine, its request and a
completion it no longer waits for. `created`, `grant`, `issued`, `lost` are history.

State of `FileRegistry`: `dir` and `lock` are files; `pc`, `copy`, `ret`, `fd` are the
locals of an operation, `cached` is the role in the Elector. `aged`, `overlapped`, `lost`
are history: a lock has been taken for stale, two processes were inside at once, a
registry was read while its document was moved away.

### What is abstracted, and why it is harmless

- *Time.* `RunAt` and `LeaseUntil` are the answers to the questions the code asks
  (`due`, `lease`). `BecomesDue`, `LeaseLapses` and `WorkerLapses` may happen at any
  moment, so clock speed, TTLs and delays take every relative value. A handler timeout
  is a handler that returns an error.
- *Lease tokens* are consecutive numbers. In the code they are the nanosecond clock
  with the task id, or random; that they are unique is assumed.
- *Listings* are copies; their order is any order. Several dependency reads are one:
  a dependency that has succeeded stays so unless an operator purges it.
- *Heartbeat* writes the registry and renews the leases in one step. With FileStore
  the renewal is a loop of `UpdateIfLease`; each of those equals a heartbeat at that
  later moment.
- *Local workers* of one process share one label, the process's name; `isLocalWorker`
  and the local heartbeat treat them alike.
- *Leader gate*: returning early is not taking a step.
- A second `Start` in one process may leave goroutines with a cancelled context; what
  they can do is a part of what a fresh goroutine can.
- The dependencies and the idempotency key of an id are constants.
- *HTTP handlers* in `WorkerClient` read and make their guarded write in one step, up to
  the save; the races in between are what `Scheduler` is about. The saves of a heartbeat
  that renews several leases, and of a recovery of several tasks, are one save.
- *Late requests* are followed up for completions. A late claim is a claim whose answer
  is lost; a late heartbeat or renewal puts off a lapse, which may come at any time.
- *Left-over files* that are truncated or removed before anybody reads them are
  forgotten at once (`Tidy`).
- *Rename.* `Overwrites` says whether a rename replaces an existing file. Where it does
  not, every save after the first takes the fallback of `Replace`; where it does, the
  fallback is taken after a fault only. `mc_worker` checks the former, which goes through
  more intermediate states on every save; `mc_cluster` the latter; the proofs cover both.
- *Leases of nodes* are counted in ticks. With `TTL = 1` a tick is a lease time without a
  renewal, and a node that renews in time sees no tick.
- *Node ids* are numbers in the order of the strings.

## Runs

The first ten runs use `MCScheduler`. Deadlock is not checked: `MaxGrants`, the bound on the
number of leases issued, lets every behaviour end. Two leases are what it
takes for a stale holder of an old lease to meet the holder of a new one. `Ops` names
the optional operations of an instance: each run enables those its question is about,
and what a run leaves out it says nothing about.

| run | instance | shows |
|---|---|---|
| `mc_core` | one process, one slot, one external worker, one caller, `b` depends on `a`, both with a handler, 2 leases | `TypeOK`, `LeaseIsFenced`, `DependencyGate`, `NoLeakedReservation`, `SettledOnce`, refinement of `TaskLifecycle` |
| `mc_shared` | two processes on PostgreSQL, one slot each, one external worker that claims but never completes, one attempt per task, `b` depends on `a` and only `a` has a handler, 2 leases | `LeaseIsFenced`, `DependencyGate`, `SettledOnce`, `FinalIsFinal` |
| `mc_stop` | two processes in succession, no external worker, two tasks (one periodic), queue of one, stops and crashes, 3 leases | `StopHandsBack`, `NoLeakedReservation`, `RunCountExact`, `RetryBudget`, `FinalIsFinal` |
| `mc_restart` | stop and second start, external worker that may lapse, purge, 2 leases | `LeaseIsFenced`, `SettledOnce` |
| `mc_submit` | two callers, four tasks, two sharing a key, limit 1 | `BackpressureOvershoot`, `OneRecordPerKey` |
| `mc_live` | one process, one slot, one task, one external worker, cancels, 2 leases | `EveryLeaseEnds`, `ReadyTaskStarts` |
| `v_reap` | external worker that renews | `ReapsOnlyExpired` is violated |
| `v_purge` | one local task, purge | `PurgeSparesRunning` is violated |
| `v_stop` | local run labelled with an external worker | `StopRequeuesLocalRuns` is violated |
| `v_budget` | claims racing with dispatch, budget 3, 4 leases | `RetryBudget` is violated |
| `mc_worker` | `MCWorker`: one worker client, one task with two attempts, 2 leases, 2 failing system calls, 1 server crash, rename fallback | `TypeOK`, `AckedIsDurable`, `AlwaysLoadable`, `VerdictIsTheHandlers`, `ReservedIsRunning`, `OvertakenStops`, `OrphanIsReaped` |
| `mc_cluster` | `MCCluster`: two processes, one failing call or overlap, any number of starts, crashes, stale locks and expiries | `TypeOK`, `OneLeaderPerDocument`, `ExclusiveWhileFresh`, `TornOnlyByOverlap`, `LeasesOnlyAge`, `TakesOver`, `SettlesOnOne` |

Node symmetry is used where nodes are interchangeable (`mc_shared`, `mc_stop`) and
caller symmetry in `mc_submit`; no run with a liveness property uses symmetry.

`DependencyGate` is asked twice. In `mc_core` the dependent task is started by the dispatch
loop and by `Claim`, both of which check the dependencies some steps before they write; in
between, the reaper may hold an expired copy of a dependency that has succeeded since. In
`mc_shared` only `ClaimDue` starts it, which checks and writes in one transaction, and what
remains is that the reaper of either process, with such an old copy, takes the dependency back
before or while the dependent task runs.

Limits of these instances. On the shared store, completions, renewals and cancels by
API callers make the state space several million states larger and are not in
`mc_shared`; the proofs of its four properties cover them. `FinalIsFinal`
is not claimed for a second `Start` in one process, where `recoverRunning` may write
back a task that finished after it was listed. In `mc_live` the bound ends the claim:
both properties say nothing once `MaxGrants` leases are issued, so the run shows that
the first lease ends and that the first and the second hand-out happen.

`mc_worker`. One worker under one id is what the client's races need: a second lease goes
to the same worker after a restart, beside what is left of its first life. Two faults let
a save fail and its repair fail too. `AckedIsDurable` is a claim about two faults: three
can defeat the rename, its fallback and the restoring rename in different saves and leave
an acknowledged record nowhere. One crash is enough for a restart on whatever is on disk;
after it the instance may still save, fail and lose requests. The bound `MaxGrants` ends
the hand-out of tasks, not the other operations.

`mc_cluster`. A fault is a system call that fails, or the first overlap of two processes
behind a stolen lock. After an overlap a lock grows old only when it was left behind: what
more overlaps do to the files is left out of the run, while the proofs claim nothing of
the files after the first one, `OneLeaderPerDocument` excepted. Crashes, restarts, ticks
and ageing are unbounded. The liveness properties are not affected by the bounds: both
hold of behaviours whose faults and crashes have come to an end.

What the two runs show to be real, and the properties state as their exceptions:

- A crash between the renames of `fileutil.Replace` leaves the document under its backup
  name. `NewFile` and `FileRegistry.read` take the missing file for an empty one
  (`lost`).
- When the save of a claim fails, the record in memory stays running under a token that
  nobody was told; heartbeats of the same worker id renew it for ever
  (`OrphanIsReaped`). When the save of a completion fails, the reservation stays
  (`ReservedIsRunning` is claimed while no call has failed).
- An error without a text is recorded as a success (`VerdictIsTheHandlers`).
- After a lock has been taken for stale two processes can be inside at once, also behind
  fresh locks: the second thief removes the lock of the first (`ExclusiveWhileFresh`). Two
  writers can leave a registry that no renewal can read (`TakesOver`); nothing repairs it.
- A cached role does not expire: two nodes act at once from the moment a new leader is
  elected until the next successful renewal of the old one (`SettlesOnOne` is about what
  follows when renewals succeed).

### Where code and comments disagree

1. *Reaping* (`v_reap`). The comment in `reapExpired` says the guarded write "counts
   only a real expiry". The guard compares the token, which a renewal keeps: a lease
   renewed between the listing and the write is taken away all the same.
2. *Purge* (`v_purge`). It "refuses to touch a task that may still be executing", but
   reads the status and deletes in two steps; a task dispatched in between is deleted.
3. *Stop* (`v_stop`). `cmd/jobraft/README.md` promises that tasks running on local
   workers are requeued. `pickWorker` may have put an external worker's id on a local
   run, and `requeueRunningOnStop` then passes it over.
4. *Retry budget* (`v_budget`). The CAS guard of `dispatch` is (status, token), and both
   are the same again after a claim came, failed and went back to `retrying` with an
   empty token. The listed copy then overwrites the attempt that was counted. With only
   the dispatcher handing out tasks the budget holds (`mc_stop`).
5. *Limit on pending tasks* (`mc_submit`). `src/README.md:88` says that a submit above the
   limit is answered with 429. `Submit` counts the tasks in flight and creates the record in
   two store calls, so that submits that count at the same time all pass: with a limit of
   one, two callers get two tasks in. `BackpressureOvershoot` states what does hold, at most
   one task too many for every other submit under way.

For the same reason `RunCountExact` is checked only where nobody cancels or claims: a
stale copy written by `Cancel` or `dispatch` wipes the count of a run in between.

### Fairness

`FairSpec` assumes weak fairness of the dispatch loop, of each worker goroutine and of
each API call in progress (the Go scheduler runs every goroutine), of a process starting, and of time (`BecomesDue`,
`LeaseLapses`). Fairness of `ExecReturn` is an assumption about handlers, not something
the code enforces: `execute` calls the handler synchronously and sets a deadline only if
the task has a timeout, so a handler that ignores its context never returns, and the
local heartbeat keeps its lease alive. Clients and external workers are under no obligation: an external
worker may claim and never be heard of again. External heartbeats are absent from
`mc_live`; a worker that heartbeats for ever without completing keeps its lease for
ever by design.

`mc_worker` assumes that a save goes on, that the server handles a request that is
waiting again and again (strong fairness, because another request may hold the store in
between), that the renewal timer of `runHandler` fires and its answers are dealt with, that
leases lapse and that `reapExpired`, which runs on every tick, meets the store idle at some
time. Neither handlers that return, nor workers or servers that come back, are assumed.

`mc_cluster` assumes that a process goes on inside, tries the lock again, and that a lock
nobody removes grows old. Strong fairness of `Read(p, "renew")` says that the Elector is
not crowded out by `GET /cluster` for ever. That leases lapse is a premise of `TakesOver`
only; `SettlesOnOne` supposes that every node gets the lock again and again and renews in
time, which `lock` with its fifty attempts does not guarantee.

## Proofs

`SchedulerProofs` proves, for every value of the constants allowed by `TaskAssumption`
and `SchedulerAssumption` (any tasks, dependencies, budgets, nodes, workers, goroutines,
queue capacity, kind of store, set of enabled operations, bound; `OperatorLemmas` brings in
`FileReplaceAssumption` as well, which these theorems do not use):

- `TypeCorrect`: `Spec => []TypeOK`;
- `Fencing`: `Spec => []LeaseIsFenced`;
- `SettledExactlyOnce`: `Spec => SettledOnce`.

`StepProofs`, `ReservationProofs`, `LifecycleProofs` and `CountingProofs` prove more of the
scheduler, under the same assumptions and what the last column says:

| theorem | proves | for instances |
|---|---|---|
| `StopRequeues` | `Spec => []StopHandsBack` | all |
| `NoReservationLeaks` | `Spec => []NoLeakedReservation` | without purge and restart |
| `FinalForever` | `Spec => FinalIsFinal` | without restart |
| `KeyAcceptedOnce` | `Spec => []OneRecordPerKey` | where tasks are submitted |
| `DependenciesFirst` | `Spec => []DependencyGate` | without purge and restart |
| `LifecycleRefined` | `Spec => FollowsLifecycle` | without purge and restart |
| `BoundedOvershoot` | `Spec => []BackpressureOvershoot` | where tasks are submitted, finitely many tasks and callers, without restart |
| `RunsCounted` | `Spec => []RunCountExact` | one process at a time, without claim, renew, cancel, purge and restart (`Solo`) |
| `BudgetKept` | `Spec => []RetryBudget` | as `RunsCounted` |

"Restart" is a second `Start` of one `Scheduler`, which the server never makes; a process
that is started again is another node. The conditions are what the code needs, not what the
proof does. `recoverRunning` and `Delete` write without comparing: a restart may bring a
finished task back, a purge may take a dependency away from a task that is running, or the
lease from an external worker whose reservation then stays. Where `Init` has the tasks in
the store already (`"submit" \notin Ops`), nobody has checked their keys or their number.
Under `Solo` only the dispatcher takes and writes tasks that wait. A claim, or a dispatcher
of another process, may have a listed task run and wait again with the token it had, and
`Cancel` writes a copy of a waiting task, so that counters are lost in both cases. Renewals
are excluded along with the claims that they follow. `BudgetKept` rests on the same
invariant and has the same condition; that it needs all of it is not claimed.

`ClusterProofs` proves of the file registry, for any nodes, lease time, number of faults
and either kind of rename (`RegistryAssumption`, `FileReplaceAssumption`,
`FileRegistryAssumption`):

- `RegistryTypes`: `Spec => []TypeOK`;
- `OneLeaderAlways`: `Spec => []OneLeaderPerDocument`;
- `MutualExclusion`: `Spec => []ExclusiveWhileFresh`;
- `NeverTornAlone`: `Spec => []TornOnlyByOverlap`;
- `LeasesAreKept`: `Spec => LeasesOnlyAge`.

`WorkerProofs` proves of the worker clients, the handlers and the file store, for any
tasks, workers, leases, faults, crashes and either kind of rename (`TaskAssumption`,
`FileReplaceAssumption`, `FileStoreAssumption`, `WorkerAssumption`; the last two say that
the marks for no file, a torn file and no worker are not values of another kind):

- `WorkerTypeCorrect`: `Spec => []TypeOK`;
- `Loads`: `Spec => []AlwaysLoadable`;
- `HonestVerdicts`: `Spec => []VerdictIsTheHandlers`;
- `NoStaleReservation`: `Spec => []ReservedIsRunning`.

The theorems about the scheduler rest on `Invariance`, `Spec => []IInv`. `LeaseIsFenced` alone is not
inductive: a goroutine that holds a stale copy is harmless only because of what it knows
about it. `IInv` adds one part per variable: a candidate of `dispatch` or `Claim` was
waiting when it was read, so writing it over a record in that same state ends no lease;
a renewal's copy was running under the presented token, so writing it back keeps that
lease; every token in a queue, a goroutine or a record was issued; a rolled-back copy
has counted its attempt, so that subtracting one stays in `Nat`.

The proof has one lemma per group of actions (`DispatchStep`, `ExecuteStep`,
`StartStopStep`, `ClaimStep`, `ClaimDueStep`, `ServeStep`, `RequestStep`, `TimeStep`,
`WorkerStep`), one step per action in it, and four lemmas that say how a store write
affects fencing: it leaves every lease alone (`FencedKeep`), ends one by CAS
(`FencedSettle`), starts one (`FencedIssue`), or overwrites whatever is there
(`FencedOverwrite`, for `recoverRunning` and `Delete`).

The other theorems need to know what one step does to one record, not which action
took it. `EffectNext` says so once: a record stays, is handed out by somebody about
to commit it, loses its lease, fails for its dependencies, is withdrawn, submitted, purged
or recovered (`Effect`). `FinalForever` and `KeyAcceptedOnce` follow from that alone.

- *Dependencies and refinement.* `GateInv` says what a goroutine remembers (`Trusts`):
  from the moment `dispatch` or `Claim` has found the dependencies ready, or broken, until
  it writes, they still are, because success and failure last. `LastExists` gives the
  refinement mapping of `TaskLifecycle` its last token.
- *Stopping.* `StopInv` ties a node's state to where its loop is (`Phases`): while
  `requeueRunningOnStop` walks its listing nothing new comes to run under the node's name
  (`NamesKept`), and what still does is in the part of the listing that is left
  (`RequeueCovers`).
- *Reservations.* `ResInv`. An entry of `running` is covered by the loop, the queue, a
  worker goroutine or an API call of that node, or the task is lent to an external worker
  (`Accounted`). The difficulty is the end of a lent lease: whoever ends it has to be a
  goroutine of the node that made the entry, and has to delete it before or after. With
  one process that follows from there being one live process (`OneAlive`, `OnlyAlive`);
  `DroppedFirst` says that expiry and cancellation have freed the entry of a lease they are
  about to end, `CopiesIssued` and `TokenFits` that the copies they hold are of leases that
  were given out, so that a lease given out since is not mistaken for them, `LentNamed` that
  a stopping node requeues none of the lent ones.
- *Submission.* `Room` counts the tasks in flight and the submits that have passed
  the limit but not yet created their task: their sum exceeds the limit by less than the
  number of callers.
- *Counting.* `runs` and `attempts` are written back with a copy of the record, and the CAS
  compares the status and the token, not the counters. `CountInv` says which copies are
  good: one that was made of a running task counts what the record counts until that lease
  ends (`Fresh`), and a candidate of the dispatcher still waits with the counters it was
  read with (`Current`), because under `Solo` nobody else takes it. `TallyNext` then says
  what a step does to the counters of a task together with the ends of its leases
  (`Tally`), and `TalliedStep` that this keeps `Tallied`: the runs are the leases that
  were reported on, and the failed ones are fewer than the attempts while the task runs and
  fewer than the budget while it may run again. `v_budget` shows where `Current` fails when
  an external worker claims.

The four about the registry rest on `RegistryInvariance`, whose invariant has four parts.
`Good` (types and roles) is inductive by what `Renew`, `Leader`, `List` and time do to one
registry, and by `Replace` only moving files. `Exclusion` ties the lock file to who is
inside while no lock has grown old. `Alone` says where half-written contents can be while
nobody has overlapped: only in the temporary file, and not while it is renamed. `Keeping`
says that what a process has computed, written or is about to rename covers every lease of
the document, wherever `Replace` has put that; a step of `Replace` then either leaves the
document as it is meant or puts one in its place that covers it (`ReplaceKeeps`).
`OperatorLemmas` has the lemmas about `Replace` that do not depend on what the files hold.

The four about the worker rest on `WorkerInvariance`. A verdict is decided from a request
that may have been under way for any time, while its sender died, came back and claimed
again, so that the invariant follows a result from the handler to the record. `Conduct`
ties each client's request to the place in its code that waits for it and to the lease it
works under; `Truthful` says that what a client knows, and a completion it has given up on
says, of an open lease is what the handler returned; `Belated` and `Separate` say that
nobody else, and not the same worker in its next life, speaks of that lease; `Leased` says
that a running record is under an open lease of its own, so that an accepted completion
judges a lease for the first time. `Disk` keeps half-written documents in the temporary
file; `Smooth` and `Reserving` follow a save, and a reservation, through runs without
failing calls. There is one lemma per part (`DiskStep`, `LeaseStep`, `ReserveStep`,
`ConductStep`, `BelatedStep`, `SeparateStep`, `TruthfulStep`, `VerdictStep`, ...), over
summaries of what a client (`Conversing`, `Leaving`), a handler (`Handling`) and a
returning store call (`Returning`) may do.

Only model-checked:

- the liveness properties `EveryLeaseEnds`, `ReadyTaskStarts`, `OvertakenStops`,
  `OrphanIsReaped`, `TakesOver`, `SettlesOnOne`: TLAPS does not prove liveness under
  fairness;
- `AckedIsDurable`: it is false for three faults or more, and a proof for two would
  enumerate where each of the two has struck.

## Not modelled

- *Consensus model*: used by its own tests only. One mutex covers a whole group, so that
  nothing interleaves; the index of an entry is the leader's own count, and a group whose
  members disagree after a failed quorum is a question to the author first.
- *PostgreSQL*: `LIMIT 64` in `ClaimDue`, a commit whose outcome is unknown, and migrations
  depend on a database that is not part of the repository. A worker that lapses between
  the health check and the transaction changes nothing in the store.
- *Candidate order*: no property depends on it, and any order covers the code's.
- *Dependency cycles* made by purging and submitting again: dependencies are constants.
- *Leader gate set late*: `main` starts the scheduler before it sets the gate. Nothing that
  is claimed of `Scheduler` depends on the gate.
- *Ids, latency histogram, authentication, listing, admin page, benchmark, demo worker*: no
  state that the system depends on.
