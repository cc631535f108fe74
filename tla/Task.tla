-------------------------------- MODULE Task --------------------------------
(***************************************************************************)
(* The task record (internal/task/task.go) and the pure changes that the   *)
(* scheduler makes to a copy of it before writing the copy back.           *)
(*                                                                         *)
(* Time is abstracted to what the code asks of it.  RunAt becomes due, the *)
(* answer to "has RunAt passed?", and LeaseUntil becomes lease, the answer *)
(* to "is there a lease and is it still in the future?".  A lease token is *)
(* a natural number, 0 for the empty string.  Name, payload, priority,     *)
(* error text and timestamps are left out.                                 *)
(***************************************************************************)
EXTENDS Naturals, Sequences

CONSTANTS Ids,          \* task ids
          DependsOn,    \* DependsOn[i]: the sequence of ids that task i waits for
          Periodic,     \* the ids whose Schedule is positive
          MaxAttempts,  \* MaxAttempts[i]: Retry.MaxAttempts of task i
          Key,          \* Key[i]: IdempotencyKey of task i, 0 for the empty one
          Nodes,        \* scheduler processes; n also names n's local workers
          Workers,      \* external worker ids
          NoWorker,     \* the empty worker id
          MaxGrants     \* bound: how many lease tokens a behaviour issues

ASSUME TaskAssumption ==
    /\ DependsOn \in [Ids -> Seq(Ids)]
    /\ Periodic \subseteq Ids
    /\ MaxAttempts \in [Ids -> Nat \ {0}]
    /\ Key \in [Ids -> Nat]
    /\ MaxGrants \in Nat

Tokens == 1..MaxGrants
Labels == Nodes \cup Workers \cup {NoWorker}

Statuses == {"pending", "running", "success", "failed", "retrying", "canceled"}

\* "absent" marks an id without a record; every other status is the code's.
Task == [status   : Statuses \cup {"absent"},
         attempts : Nat,
         runs     : Nat,
         due      : BOOLEAN,
         worker   : Labels,
         lease    : {"none", "live", "lapsed"},
         token    : 0..MaxGrants]

NoTask == [status |-> "absent", attempts |-> 0, runs |-> 0, due |-> FALSE,
           worker |-> NoWorker, lease |-> "none", token |-> 0]

\* Submit's defaults for a new record.
NewTask == [NoTask EXCEPT !.status = "pending"]

-----------------------------------------------------------------------------
(* Questions about a record.                                               *)

IsTerminal(id, t) ==
    \/ t.status \in {"success", "canceled"}
    \/ t.status = "failed" /\ t.attempts >= MaxAttempts[id]

IsInFlight(t) == t.status \in {"pending", "retrying", "running"}

Claimable(t) == t.status \in {"pending", "retrying"} /\ t.due

\* The lease of token k, presented by worker w, is good right now.
ValidLease(t, w, k) ==
    t.status = "running" /\ t.worker = w /\ t.token = k /\ t.lease = "live"

-----------------------------------------------------------------------------
(* Changes to a copy.                                                      *)

Unleased(t) == [t EXCEPT !.worker = NoWorker, !.lease = "none", !.token = 0]

\* Mutant: the attempt is not counted.
GrantedUncounted(t, w, k) ==
    [t EXCEPT !.status = "running", !.worker = w, !.lease = "live", !.token = k]

\* dispatch, commitClaim and ClaimDue: hand the task to w under token k.
Granted(t, w, k) ==
    [t EXCEPT !.status = "running", !.attempts = @ + 1,
              !.worker = w, !.lease = "live", !.token = k]

\* dispatch when the queue is full: worker, lease and token stay behind.
RolledBack(t) == [t EXCEPT !.status = "pending", !.attempts = @ - 1]

\* Mutant: the interrupted run is counted as one.
RequeuedCounted(t) ==
    [Unleased(t) EXCEPT !.status = "retrying", !.due = TRUE, !.runs = @ + 1]

\* reapExpired, requeueRunningOnStop and recoverRunning.
Requeued(t) == [Unleased(t) EXCEPT !.status = "retrying", !.due = TRUE]

\* Mutant: one retry too many.
VerdictLenient(id, t, ok) ==
    IF ok THEN "succeeded"
    ELSE IF t.attempts <= MaxAttempts[id] THEN "retried" ELSE "failed"

\* What finish counts: the metric is named after the verdict.
Verdict(id, t, ok) ==
    IF ok THEN "succeeded"
    ELSE IF t.attempts < MaxAttempts[id] THEN "retried" ELSE "failed"

\* finish: a periodic task starts over, a failed one retries within its budget.
Finished(id, t, ok) ==
    LET u == [Unleased(t) EXCEPT !.runs = @ + 1]
        v == Verdict(id, t, ok)
    IN  CASE v = "succeeded" /\ id \in Periodic ->
                 [u EXCEPT !.status = "pending", !.due = FALSE, !.attempts = 0]
          [] v = "succeeded" /\ id \notin Periodic -> [u EXCEPT !.status = "success"]
          [] v = "retried" -> [u EXCEPT !.status = "retrying", !.due = FALSE]
          [] v = "failed"  -> [u EXCEPT !.status = "failed"]

\* Cancel and failUnreadyTask keep worker, lease and token as they were read.
Canceled(t)  == [t EXCEPT !.status = "canceled"]
DepFailed(t) == [t EXCEPT !.status = "failed"]

=============================================================================
