--------------------------- MODULE WorkerProperties -------------------------
(***************************************************************************)
(* What WorkerClient is expected to guarantee, and the fairness under      *)
(* which it makes progress.                                                *)
(***************************************************************************)
EXTENDS WorkerClient

\* What survives of the store if the server dies now: its document, or, while
\* Replace has moved it away, the backup.
OnDisk == IF Misplaced(dir) THEN dir["bak"] ELSE Load(dir)

\* What the server has said, it remembers: a task whose creation was answered
\* with 201 and a completion answered with 204 are on disk, in spite of failing
\* saves and of deaths between any two system calls.  The one exception is a
\* start of the server while the document is misplaced (NewFile then takes the
\* missing document for an empty store; replace.go:13 moved it away).
AckedIsDurable ==
    \/ lost
    \/ /\ \A id \in created : Exists(OnDisk, id)
       /\ \A k \in Tokens : grant[k].acked =>
              LET t == OnDisk[grant[k].id]
              IN  /\ ~(t.status = "running" /\ t.token = k)
                  /\ t.runs > 0
                  /\ grant[k].end = "succeeded" => t.status = "success"

\* Writing the temporary file first keeps half-written documents out of sight:
\* NewFile can always load what is there (file.go:165, and the README of
\* internal/fileutil).
AlwaysLoadable == Loadable(dir)

\* The verdict the scheduler records for a lease is the one that the handler
\* returned under this lease: nothing is acknowledged for a handler that was
\* cancelled because its renewal failed (client.go:137), none is made up by a
\* late, lost or repeated request.  The exception is an error without a text: it
\* arrives as a success (client.go:89, scheduler.go:489).
VerdictIsTheHandlers ==
    \A k \in Tokens :
        /\ grant[k].end = "succeeded" => grant[k].ran \in {"ok", "mute"}
        /\ grant[k].end \in {"retried", "failed"} => grant[k].ran = "err"

\* While every save succeeds, a reservation belongs to a task that is running or
\* being written, so that a waiting task can be claimed.  (When the save of a
\* completion fails, CompleteTaskWithResult returns before it drops the
\* reservation, scheduler.go:497.)
ReservedIsRunning ==
    (faults = 0 /\ save = "idle") => \A id \in reserved : mem[id].status = "running"

-----------------------------------------------------------------------------
InForce(k) == \E id \in Ids : mem[id].status = "running" /\ mem[id].token = k

Holds(w, k) == \/ client[w].token = k /\ client[w].pc \in {"handler", "renew", "complete"}
               \/ req[w].kind = "claim" /\ req[w].token = k
               \/ serving.kind = "claim" /\ serving.from = w /\ serving.token = k

\* w runs a handler although its lease has been taken away.
Overtaken(w) == /\ srv = "up" /\ client[w].pc \in {"handler", "renew"}
                /\ ~InForce(client[w].token)

\* w is on record as running a task that it does not know of.
Orphaned(w) ==
    \E id \in Ids : /\ mem[id].status = "running" /\ mem[id].worker = w
                    /\ ~Holds(w, mem[id].token)

Fairness ==
    /\ WF_vars(Save)
    /\ \A w \in Workers : /\ SF_vars(Handle(w))
                          /\ WF_vars(Renewed(w) /\ Client(w))
                          /\ WF_vars(RenewRefused(w) /\ Client(w))
                          /\ WF_vars(RenewTick(w) /\ Client(w))
    /\ \A id \in Ids : WF_vars(LeaseLapses(id)) /\ SF_vars(Reap(id) /\ Other(id))

FairSpec == Spec /\ Fairness

\* A worker whose lease is gone stops working on the task: a renewal tells it,
\* and it cancels the handler (client.go:167).
OvertakenStops == \A w \in Workers : Overtaken(w) ~> ~Overtaken(w)

\* A lease that its worker does not know of (the answer to the claim was lost,
\* the worker died, or the save failed after the record had changed) is taken
\* back, unless heartbeats under the same worker id keep coming and renew it
\* for ever (scheduler.go:126).
OrphanIsReaped ==
    \A w \in Workers :
        \/ []<><<Heartbeat(w)>>_vars
        \/ Orphaned(w) ~> ~Orphaned(w)

=============================================================================
