----------------------------- MODULE StepProofs ----------------------------
(***************************************************************************)
(* What one step of Scheduler can do, for every set of tasks, nodes,       *)
(* workers and callers: to a record (Effect), to the goroutines of a node  *)
(* (LocalMoves), to what runs under a node's name (NamesKept) and to the   *)
(* live processes (AliveStep).  The theorem is that a stopped node leaves  *)
(* nothing running under its name.                                         *)
(***************************************************************************)
EXTENDS SchedulerProofs

(* What one step does to one record, whatever goroutine takes it.          *)

\* The goroutines that are about to hand out or to fail a task, or the condition
\* under which ClaimDue does so in one transaction; the goroutine that creates one.
Committing(id) ==
    \/ \E n \in Nodes : disp[n].pc = "commit" /\ disp[n].id = id
    \/ \E c \in Callers : call[c].pc = "claimWrite" /\ call[c].id = id
    \/ DepsReady(tasks, id)
Failing(id) ==
    \/ \E n \in Nodes : disp[n].pc = "failUnready" /\ disp[n].id = id
    \/ \E c \in Callers : call[c].pc = "failUnready" /\ call[c].id = id
    \/ DepsBroken(tasks, id)
Creating(id) ==
    \E c \in Callers : call[c].pc = "create" /\ call[c].id = id /\ call'[c].pc = "idle"

\* The record is handed out under the token that is issued in this step.
HandedOut(id) ==
    /\ tasks[id].status \in Waiting /\ tasks'[id].status = "running"
    /\ issued' = issued + 1 /\ tasks'[id].token = issued' /\ grant'[issued'].id = id
    /\ Committing(id)

Stays(id) ==
    /\ tasks'[id].status = tasks[id].status
    /\ tasks[id].status = "running" => tasks'[id].token = tasks[id].token

Ended(id) ==
    /\ tasks[id].status = "running"
    /\ tasks'[id].status \in Waiting \cup {"success", "failed", "canceled"}

Starved(id) ==
    tasks[id].status \in Waiting /\ tasks'[id].status = "failed" /\ Failing(id)

Withdrawn(id) ==
    tasks[id].status \in Waiting \cup {"failed"} /\ tasks'[id].status = "canceled"

Submitted(id) ==
    /\ ~Exists(tasks, id) /\ ~KeyTaken(tasks, id) /\ Creating(id)
    /\ tasks'[id].status = "pending"
    /\ \A j \in Ids \ {id} : tasks'[j] = tasks[j]

Purged(id) == "purge" \in Ops /\ tasks'[id].status = "absent"

Recovered(id) ==
    "restart" \in Ops /\ Exists(tasks, id) /\ tasks'[id].status = "retrying"

\* No token is issued for id.
NotHandedOut(id) ==
    \/ issued' = issued
    \/ issued' = issued + 1 /\ grant'[issued'].id # id

Effect(id) ==
    \/ HandedOut(id)
    \/ /\ NotHandedOut(id)
       /\ \/ Stays(id) \/ Ended(id) \/ Starved(id) \/ Withdrawn(id)
          \/ Submitted(id) \/ Purged(id) \/ Recovered(id)

\* Nothing but the end of a lease that was issued ever changes.
History ==
    \A k \in 1..issued : grant'[k].id = grant[k].id /\ grant'[k].holder = grant[k].holder

Effects == History /\ \A id \in Ids : Effect(id)

-----------------------------------------------------------------------------
(* The writes.                                                             *)

\* A step that leaves statuses and tokens alone.
LEMMA EffectNone ==
    ASSUME UNCHANGED <<grant, issued>>, \A id \in Ids : Stays(id)
    PROVE  Effects
  BY Zenon DEF Effects, Effect, NotHandedOut, History

\* A step that does not touch the store.
LEMMA EffectUnchanged ==
    ASSUME UNCHANGED <<tasks, grant, issued>>
    PROVE  Effects
  BY EffectNone DEF Stays

\* The end of a lease.
LEMMA EffectSettle ==
    ASSUME StoreOK, GrantOK, LeaseIsFenced, UNCHANGED issued,
           NEW i \in Ids, NEW token, NEW t, NEW end,
           t.status \in Waiting \cup {"success", "failed", "canceled"},
           Settle(i, token, t, end)
    PROVE  Effects
<1>1. CASE InState(tasks, i, "running", token)
  <2>1. /\ tasks' = [tasks EXCEPT ![i] = t]
        /\ grant' = [grant EXCEPT ![token].end = end]
        /\ tasks[i].status = "running" /\ tasks[i].token = token
    BY <1>1 DEF Settle, UpdateIfState, InState
  <2>2. token \in Tokens
    BY <2>1, TaskAssumption DEF LeaseIsFenced, GrantOK, Tokens
  <2>3. \A k \in Tokens : grant'[k].id = grant[k].id /\ grant'[k].holder = grant[k].holder
    BY <2>1, <2>2 DEF GrantOK
  <2>4. History
    BY <2>3, TaskAssumption DEF GrantOK, Tokens, History
  <2>5. ASSUME NEW id \in Ids PROVE Effect(id)
    <3>1. Stays(id) \/ Ended(id)
      BY <2>1 DEF Stays, Ended, StoreOK
    <3> QED BY Zenon, <3>1 DEF Effect, NotHandedOut
  <2> QED BY <2>4, <2>5 DEF Effects
<1>2. CASE ~InState(tasks, i, "running", token)
  BY <1>2, EffectUnchanged DEF Settle, UpdateIfState
<1> QED BY <1>1, <1>2

\* A new lease.
LEMMA EffectIssue ==
    ASSUME StoreOK, GrantOK, NEW i \in Ids, NEW t \in Task, NEW w, NEW holder,
           tasks[i].status \in Waiting, Committing(i), Issue(i, t, w, holder)
    PROVE  Effects
<1> DEFINE k == issued + 1
           u == Granted(t, w, k)
<1>1. k \in Tokens /\ issued \in Nat
  BY TaskAssumption DEF Issue, GrantOK, Tokens
<1>2. u.status = "running" /\ u.token = k
  BY DEF Granted, Task
<1>3. /\ tasks' = [tasks EXCEPT ![i] = u]
      /\ grant' = [grant EXCEPT ![k] = [id |-> i, holder |-> holder, end |-> "open"]]
      /\ issued' = k
  BY DEF Issue
<1> HIDE DEF u
<1>4. History
  BY <1>1, <1>3, TaskAssumption DEF GrantOK, Tokens, History
<1>5. grant'[k].id = i
  BY <1>1, <1>3 DEF GrantOK
<1>6. ASSUME NEW id \in Ids PROVE Effect(id)
  <2>1. CASE id = i
    BY <2>1, <1>1, <1>2, <1>3, <1>5 DEF Effect, HandedOut, StoreOK
  <2>2. CASE id # i
    BY <2>2, <1>1, <1>3, <1>5 DEF Effect, NotHandedOut, Stays, StoreOK
  <2> QED BY <2>1, <2>2
<1> QED BY <1>4, <1>6 DEF Effects

\* A write guarded by a status that is not running.
LEMMA EffectWaiting ==
    ASSUME StoreOK, UNCHANGED <<grant, issued>>, NEW i \in Ids, NEW p, NEW t,
           tasks' = UpdateIfState(tasks, i, p.status, p.token, t),
           \/ p.status \in Waiting /\ t.status = "failed" /\ Failing(i)
           \/ p.status \in Waiting \cup {"failed"} /\ t.status = "canceled"
    PROVE  Effects
<1>1. ASSUME NEW id \in Ids PROVE Effect(id)
  <2>1. Stays(id) \/ Starved(id) \/ Withdrawn(id)
    BY DEF Stays, Starved, Withdrawn, UpdateIfState, InState, StoreOK
  <2> QED BY Zenon, <2>1 DEF Effect, NotHandedOut
<1> QED BY <1>1 DEF Effects, History

\* An unconditional write of a record that is not running.
LEMMA EffectOverwrite ==
    ASSUME StoreOK, GrantOK, LeaseIsFenced, UNCHANGED issued, NEW i \in Ids, NEW t, NEW end,
           tasks' = [tasks EXCEPT ![i] = t] \/ UNCHANGED tasks,
           grant' \in {grant, [grant EXCEPT ![tasks[i].token].end = end]},
           \/ "purge" \in Ops /\ t.status = "absent"
           \/ "restart" \in Ops /\ Exists(tasks, i) /\ t.status = "retrying"
    PROVE  Effects
<1>1. \A k \in Tokens : grant'[k].id = grant[k].id /\ grant'[k].holder = grant[k].holder
  BY DEF GrantOK
<1>2. History
  BY <1>1, TaskAssumption DEF GrantOK, Tokens, History
<1>3. ASSUME NEW id \in Ids PROVE Effect(id)
  <2>1. Stays(id) \/ Purged(id) \/ Recovered(id)
    BY DEF Stays, Purged, Recovered, StoreOK
  <2> QED BY Zenon, <2>1 DEF Effect, NotHandedOut
<1> QED BY <1>2, <1>3 DEF Effects

-----------------------------------------------------------------------------
(* The steps.                                                              *)

\* A heartbeat renews leases and nothing else.
LEMMA EffectRenewal ==
    ASSUME StoreOK, UNCHANGED <<grant, issued>>, NEW w,
           tasks' = RenewWorkerTaskLeases(tasks, w)
    PROVE  Effects
<1>1. ASSUME NEW id \in Ids PROVE Stays(id)
  BY DEF Stays, RenewWorkerTaskLeases, StoreOK, Task
<1> QED BY <1>1, EffectNone

\* dispatch: the lapsed leases it ends, the tasks it fails and hands out.
LEMMA EffectDispatch ==
    ASSUME IInv, NEW n \in Nodes, Dispatch(n)
    PROVE  Effects
<1> DEFINE i == disp[n].id
           t == disp[n].t
<1>0. /\ disp[n] \in LoopState /\ LoopKnows(disp[n], issued)
      /\ StoreOK /\ GrantOK /\ LeaseIsFenced
  BY DEF IInv, LoopOK
<1>1. CASE ReapWrite(n)
  <2>1. i \in Ids /\ t \in Task
    BY <1>0, <1>1 DEF ReapWrite, LoopKnows, LoopState
  <2>2. Requeued(t).status = "retrying"
    BY Zenon, <2>1, RecordTypes
  <2> QED BY <1>0, <1>1, <2>1, <2>2, EffectSettle DEF ReapWrite, Waiting
<1>2. CASE DispatchFail(n)
  <2>1. i \in Ids /\ t \in Task /\ t.status \in Waiting /\ Failing(i)
    BY <1>0, <1>2 DEF DispatchFail, LoopKnows, LoopState, Failing
  <2>2. DepFailed(t).status = "failed"
    BY Zenon, <2>1, RecordTypes
  <2>3. tasks' = UpdateIfState(tasks, i, t.status, t.token, DepFailed(t))
        /\ UNCHANGED <<grant, issued>>
    BY <1>2 DEF DispatchFail, FailUnready
  <2> QED BY <1>0, <2>1, <2>2, <2>3, EffectWaiting
<1>3. CASE DispatchCommit(n)
  <2>1. i \in Ids /\ t \in Task /\ t.status \in Waiting /\ Committing(i)
    BY <1>0, <1>3 DEF DispatchCommit, LoopKnows, LoopState, Committing
  <2>2. \/ tasks[i].status = t.status /\ \E w : Issue(i, t, w, n)
        \/ UNCHANGED <<tasks, grant, issued>>
    BY <1>3 DEF DispatchCommit, InState
  <2> HIDE DEF i, t
  <2> QED BY SMTT(30), <1>0, <2>1, <2>2, EffectIssue, EffectUnchanged
<1>4. CASE DispatchRollback(n)
  <2>1. i \in Ids /\ t \in Task /\ t.attempts > 0
    BY <1>0, <1>4 DEF DispatchRollback, LoopKnows, LoopState
  <2>2. RolledBack(t).status = "pending"
    BY Zenon, <2>1, RecordTypes
  <2> QED BY <1>0, <1>4, <2>1, <2>2, EffectSettle DEF DispatchRollback, Waiting
<1>5. CASE UNCHANGED <<tasks, grant, issued>>
  BY <1>5, EffectUnchanged
<1> QED BY Zenon, <1>1, <1>2, <1>3, <1>4, <1>5
        DEF Dispatch, Tick, DispatchList, DispatchReserve, DispatchEnqueue,
            DispatchUnreserve, DispatchDone, ReapRelease, DispatchConsider

\* execute: finish ends the lease.
LEMMA EffectExecute ==
    ASSUME IInv, NEW n \in Nodes, NEW s \in Slots, Execute(n, s)
    PROVE  Effects
<1>0. /\ exec[n][s] \in SlotState /\ SlotKnows(exec[n][s], issued)
      /\ StoreOK /\ GrantOK /\ LeaseIsFenced
  BY DEF IInv, SlotOK
<1>1. CASE ExecFinish(n, s)
  <2> DEFINE x == exec[n][s]
             i == grant[x.token].id
             t == x.t
             ok == x.ok
  <2>1. t \in Task /\ ok \in BOOLEAN /\ i \in Ids
    BY <1>0, <1>1 DEF ExecFinish, SlotKnows, SlotState, GrantOK
  <2>2. Settle(i, t.token, Finished(i, t, ok), Verdict(i, t, ok)) /\ UNCHANGED issued
    BY <1>1 DEF ExecFinish
  <2> HIDE DEF i, t, ok
  <2>3. Finished(i, t, ok).status \in Waiting \cup {"success", "failed", "canceled"}
    BY <2>1, FinishedType DEF Waiting
  <2> QED BY ZenonT(60), <1>0, <2>1, <2>2, <2>3, EffectSettle
<1>2. CASE UNCHANGED <<tasks, grant, issued>>
  BY Zenon, <1>2, EffectUnchanged
<1> QED BY Zenon, <1>1, <1>2
        DEF Execute, Take, ExecCheck, ExecBegin, ExecReturn, ExecRelease

\* Start, Stop and Start again: the leases that are recovered or handed back.
LEMMA EffectStartStop ==
    ASSUME IInv, NEW n \in Nodes, StartStop(n)
    PROVE  Effects
<1>0. /\ disp[n] \in LoopState /\ LoopKnows(disp[n], issued)
      /\ StoreOK /\ GrantOK /\ LeaseIsFenced
      /\ \A id \in Ids : tasks[id] \in Task /\ disp[n].snap[id] \in Task
  BY DEF IInv, LoopOK, LoopState, Snapshots, StoreOK
<1>1. CASE Start(n)
  <2>1. CASE SharedStore
    BY <1>1, <2>1, EffectUnchanged DEF Start
  <2>2. CASE ~SharedStore
    <3>1. UNCHANGED issued /\ tasks' = [id \in Ids |-> IF tasks[id].status = "running"
                                      THEN Requeued(tasks[id]) ELSE tasks[id]]
      BY <1>1, <2>2 DEF Start
    <3>2. grant' = [k \in Tokens |-> IF grant[k].end = "open"
                          THEN [grant[k] EXCEPT !.end = "recovered"] ELSE grant[k]]
      BY <1>1, <2>2 DEF Start
    <3>3. \A k \in Tokens :
            grant'[k].id = grant[k].id /\ grant'[k].holder = grant[k].holder
      BY <3>2, <1>0 DEF GrantOK
    <3>4. History
      BY <3>3, <1>0, TaskAssumption DEF GrantOK, Tokens, History
    <3>5. ASSUME NEW id \in Ids PROVE Effect(id)
      <4>1. Requeued(tasks[id]).status = "retrying"
        BY Zenon, <1>0, RecordTypes
      <4>2. Stays(id) \/ Ended(id)
        BY <3>1, <4>1 DEF Stays, Ended, Waiting
      <4> QED BY Zenon, <3>1, <4>2 DEF Effect, NotHandedOut
    <3> QED BY <3>4, <3>5 DEF Effects
  <2> QED BY <2>1, <2>2
<1>2. ASSUME NEW id \in Ids, RequeueWrite(n, id) PROVE Effects
  <2> DEFINE t == disp[n].snap[id]
  <2>1. Requeued(t).status = "retrying"
    BY Zenon, <1>0, RecordTypes
  <2> QED BY <1>0, <1>2, <2>1, EffectSettle DEF RequeueWrite, Waiting
<1>3. ASSUME NEW id \in Ids, RecoverWrite(n, id) PROVE Effects
  <2> DEFINE t == Requeued(disp[n].snap[id])
  <2>1. t.status = "retrying"
    BY Zenon, <1>0, RecordTypes
  <2>2. "restart" \in Ops
    BY <1>0, <1>3 DEF RecoverWrite, LoopKnows
  <2>3. /\ UNCHANGED issued
        /\ tasks' = IF Exists(tasks, id) THEN [tasks EXCEPT ![id] = t] ELSE tasks
        /\ grant' = IF tasks[id].status = "running"
                    THEN [grant EXCEPT ![tasks[id].token].end = "recovered"] ELSE grant
    BY <1>3 DEF RecoverWrite, Update
  <2> HIDE DEF t
  <2>4. CASE Exists(tasks, id)
    BY Zenon, <1>0, <2>1, <2>2, <2>3, <2>4, EffectOverwrite
  <2>5. CASE ~Exists(tasks, id)
    BY <2>3, <2>5, EffectUnchanged DEF Exists
  <2> QED BY <2>4, <2>5
<1>4. CASE UNCHANGED <<tasks, grant, issued>>
  BY <1>4, EffectUnchanged
<1> QED BY <1>1, <1>2, <1>3, <1>4
        DEF StartStop, Stop, RequeueList, Stopped, Restart, Restarted, Crash

\* ClaimDue, one transaction: the broken candidates and the ready one.
LEMMA EffectClaimDue ==
    ASSUME IInv, NEW n \in Nodes, NEW w \in Workers, ClaimDue(n, w)
    PROVE  Effects
<1> DEFINE due == {id \in Ids : Claimable(tasks[id])}
           broken == {id \in due : DepsBroken(tasks, id)}
           fail(F) == [id \in Ids |-> IF id \in F THEN DepFailed(tasks[id]) ELSE tasks[id]]
<1>0. /\ StoreOK /\ GrantOK /\ issued \in Nat
      /\ \A id \in Ids : tasks[id] \in Task /\ DepFailed(tasks[id]).status = "failed"
  <2>1. \A id \in Ids : tasks[id] \in Task
    BY DEF IInv, StoreOK
  <2>2. \A id \in Ids : DepFailed(tasks[id]).status = "failed"
    BY Zenon, <2>1, RecordTypes
  <2> QED BY <2>1, <2>2, TaskAssumption DEF IInv, GrantOK
<1>1. PICK F \in SUBSET broken :
        \/ \E id \in due :
             /\ DepsReady(tasks, id)
             /\ issued < MaxGrants
             /\ issued' = issued + 1
             /\ tasks' = [fail(F) EXCEPT ![id] = Granted(tasks[id], w, issued + 1)]
             /\ grant' = [grant EXCEPT ![issued + 1] =
                            [id |-> id, holder |-> w, end |-> "open"]]
        \/ tasks' = fail(F) /\ UNCHANGED <<grant, issued>>
  BY Zenon DEF ClaimDue
<1>2. \A id \in F : id \in Ids /\ tasks[id].status \in Waiting /\ Failing(id)
  BY DEF Claimable, Waiting, Failing
<1>3. \A id \in due : id \in Ids /\ tasks[id].status \in Waiting
  BY DEF Claimable, Waiting
<1>4. ASSUME NEW id \in Ids, tasks'[id] = fail(F)[id] PROVE Stays(id) \/ Starved(id)
  BY <1>0, <1>2, <1>4 DEF Stays, Starved
<1> HIDE DEF due, broken, fail
<1>5. ASSUME NEW i \in due,
             /\ DepsReady(tasks, i)
             /\ issued < MaxGrants
             /\ issued' = issued + 1
             /\ tasks' = [fail(F) EXCEPT ![i] = Granted(tasks[i], w, issued + 1)]
             /\ grant' = [grant EXCEPT ![issued + 1] =
                            [id |-> i, holder |-> w, end |-> "open"]]
      PROVE  Effects
  <2>1. issued + 1 \in Tokens /\ i \in Ids
    BY <1>0, <1>3, <1>5, TaskAssumption DEF Tokens
  <2>2. Granted(tasks[i], w, issued + 1).status = "running"
        /\ Granted(tasks[i], w, issued + 1).token = issued + 1
    BY <1>0, <2>1 DEF Granted, Task
  <2>3. grant'[issued'].id = i /\ History
    BY <1>0, <1>5, <2>1, TaskAssumption DEF GrantOK, Tokens, History
  <2>4. /\ tasks'[i] = Granted(tasks[i], w, issued + 1)
        /\ \A j \in Ids : j # i => tasks'[j] = fail(F)[j]
    BY <1>5, <2>1 DEF fail
  <2>5. ASSUME NEW id \in Ids PROVE Effect(id)
    <3>1. CASE id = i
      <4>1. HandedOut(id)
        BY <1>3, <1>5, <2>2, <2>3, <2>4, <3>1 DEF HandedOut, Committing
      <4> QED BY Zenon, <4>1 DEF Effect
    <3>2. CASE id # i
      <4>1. Stays(id) \/ Starved(id)
        BY <1>4, <2>4, <3>2
      <4> QED BY Zenon, <1>5, <2>3, <3>2, <4>1 DEF Effect, NotHandedOut
    <3> QED BY <3>1, <3>2
  <2> QED BY <2>3, <2>5 DEF Effects
<1>6. CASE tasks' = fail(F) /\ UNCHANGED <<grant, issued>>
  <2>1. ASSUME NEW id \in Ids PROVE Effect(id)
    <3>1. Stays(id) \/ Starved(id)
      BY <1>4, <1>6
    <3> QED BY Zenon, <1>6, <3>1 DEF Effect, NotHandedOut
  <2> QED BY <1>6, <2>1 DEF Effects, History
<1> QED BY Zenon, <1>1, <1>5, <1>6

\* The calls of the API in progress.
LEMMA EffectServe ==
    ASSUME IInv, NEW c \in Callers, Serve(c)
    PROVE  Effects
<1> DEFINE p == call[c]
           i == p.id
           t == p.t
<1>0. /\ p \in CallState /\ CallKnows(p) /\ t \in Task
      /\ StoreOK /\ GrantOK /\ LeaseIsFenced
  BY DEF IInv, CallOK, CallState
<1>1. CASE ClaimFail(c)
  <2>1. i \in Ids /\ t.status \in Waiting /\ Failing(i)
    BY <1>0, <1>1 DEF ClaimFail, CallKnows, Failing
  <2>2. DepFailed(t).status = "failed"
    BY Zenon, <1>0, RecordTypes
  <2>3. tasks' = UpdateIfState(tasks, i, t.status, t.token, DepFailed(t))
        /\ UNCHANGED <<grant, issued>>
    BY <1>1 DEF ClaimFail, FailUnready
  <2> QED BY <1>0, <2>1, <2>2, <2>3, EffectWaiting
<1>2. CASE ClaimWrite(c)
  <2>1. i \in Ids /\ t.status \in Waiting /\ Committing(i)
    BY <1>0, <1>2 DEF ClaimWrite, CallKnows, Committing
  <2>2. \/ tasks[i].status = t.status /\ \E w : Issue(i, t, w, w)
        \/ UNCHANGED <<tasks, grant, issued>>
    BY <1>2 DEF ClaimWrite, InState
  <2> HIDE DEF i, t
  <2> QED BY <1>0, <2>1, <2>2, EffectIssue, EffectUnchanged
<1>3. CASE RenewWrite(c)
  <2> DEFINE u == [t EXCEPT !.lease = "live"]
  <2>1. u.status = "running" /\ u.token = p.token
    BY <1>0, <1>3 DEF RenewWrite, CallKnows, Task
  <2>2. tasks' = UpdateIfState(tasks, i, "running", p.token, u) /\ UNCHANGED <<grant, issued>>
    BY <1>3 DEF RenewWrite, UpdateIfLease
  <2> HIDE DEF p, u
  <2>3. ASSUME NEW id \in Ids PROVE Stays(id)
    BY <1>0, <2>1, <2>2 DEF Stays, UpdateIfState, InState, StoreOK
  <2> QED BY <2>2, <2>3, EffectNone
<1>4. CASE CompleteFinish(c)
  <2> DEFINE ok == p.ok
  <2>1. i \in Ids /\ ok \in BOOLEAN
    BY <1>0, <1>4 DEF CompleteFinish, CallState, CallKnows
  <2>2. Settle(i, t.token, Finished(i, t, ok), Verdict(i, t, ok)) /\ UNCHANGED issued
    BY <1>4 DEF CompleteFinish
  <2> HIDE DEF i, t, ok
  <2>3. Finished(i, t, ok).status \in Waiting \cup {"success", "failed", "canceled"}
    BY <1>0, <2>1, FinishedType DEF Waiting
  <2> QED BY <1>0, <2>1, <2>2, <2>3, EffectSettle
<1>5. CASE CancelWrite(c)
  <2>1. i \in Ids /\ t.status \in Waiting \cup {"running", "failed"}
    BY <1>0, <1>5 DEF CancelWrite, CallKnows
  <2>2. Canceled(t).status = "canceled"
    BY Zenon, <1>0, RecordTypes
  <2>3. CASE t.status = "running"
    <3>1. Settle(i, t.token, Canceled(t), "canceled") /\ UNCHANGED issued
      BY Zenon, <1>5, <2>3 DEF CancelWrite
    <3> QED BY Zenon, <1>0, <2>1, <2>2, <3>1, EffectSettle
  <2>4. CASE t.status # "running"
    <3>1. /\ tasks' = UpdateIfState(tasks, i, t.status, t.token, Canceled(t))
          /\ UNCHANGED <<grant, issued>>
      BY <1>5, <2>4 DEF CancelWrite
    <3> QED BY SMTT(30), <1>0, <2>1, <2>2, <2>4, <3>1, EffectWaiting
  <2> QED BY SMTT(30), <2>3, <2>4
<1>6. CASE PurgeDelete(c)
  <2>1. i \in Ids /\ "purge" \in Ops /\ NoTask.status = "absent"
    BY SMTT(30), <1>0, <1>6 DEF PurgeDelete, CallKnows, NoTask
  <2>2. /\ tasks' = [tasks EXCEPT ![i] = NoTask] /\ UNCHANGED issued
        /\ grant' \in {grant, [grant EXCEPT ![tasks[i].token].end = "deleted"]}
    BY <1>6 DEF PurgeDelete, Delete
  <2> HIDE DEF i
  <2> QED BY Zenon, <1>0, <2>1, <2>2, EffectOverwrite
<1>7. CASE SubmitCreate(c)
  <2>1. i \in Ids /\ Creating(i)
    BY <1>0, <1>7 DEF SubmitCreate, CallKnows, Creating, IdleCall, IInv, CallOK
  <2>2. NewTask.status = "pending"
    BY DEF NewTask, NoTask
  <2>3. tasks' = Create(tasks, i, NewTask) /\ UNCHANGED <<grant, issued>>
    BY <1>7 DEF SubmitCreate
  <2> HIDE DEF i
  <2>4. ASSUME NEW id \in Ids PROVE Effect(id)
    <3>1. Stays(id) \/ Submitted(id)
      BY <1>0, <2>1, <2>2, <2>3 DEF Stays, Submitted, Create, StoreOK
    <3> QED BY Zenon, <2>3, <3>1 DEF Effect, NotHandedOut
  <2> QED BY SMTT(30), <2>3, <2>4 DEF Effects, History
<1>8. CASE UNCHANGED <<tasks, grant, issued>>
  BY <1>8, EffectUnchanged
<1> QED BY Zenon, <1>1, <1>2, <1>3, <1>4, <1>5, <1>6, <1>7, <1>8
        DEF Serve, Claim, ClaimConsider, ClaimReserve, ClaimRead, ClaimUnreserve, ClaimNone,
            CompleteRelease, CancelRelease, SubmitCount, SubmitDeps

\* Every step of the scheduler, whoever takes it.
LEMMA EffectNext ==
    ASSUME IInv, [Next]_vars
    PROVE  Effects
<1>1. CASE UNCHANGED vars
  BY <1>1, EffectUnchanged DEF vars
<1>2. ASSUME NEW n \in Nodes, Dispatch(n) PROVE Effects
  BY <1>2, EffectDispatch
<1>3. ASSUME NEW n \in Nodes, NEW w, LocalHeartbeat(n) \/ Heartbeat(n, w) PROVE Effects
  BY <1>3, EffectRenewal DEF LocalHeartbeat, Heartbeat, IInv
<1>4. ASSUME NEW n \in Nodes, StartStop(n) PROVE Effects
  BY <1>4, EffectStartStop
<1>5. ASSUME NEW n \in Nodes, NEW s \in Slots, Execute(n, s) PROVE Effects
  BY <1>5, EffectExecute
<1>6. ASSUME NEW n \in Nodes, NEW c \in Callers, Request(c, n) PROVE Effects
  BY Zenon, <1>6, EffectUnchanged DEF Request, ClaimList, RenewTaskLease, CompleteTask, Present,
     Cancel, Purge, Submit
<1>7. ASSUME NEW n \in Nodes, NEW w, RegisterWorker(n, w) \/ WorkerLapses(n, w)
      PROVE  Effects
  BY <1>7, EffectUnchanged DEF RegisterWorker, WorkerLapses
<1>8. ASSUME NEW n \in Nodes, NEW w \in Workers, ClaimDue(n, w) PROVE Effects
  BY <1>8, EffectClaimDue
<1>9. ASSUME NEW c \in Callers, Serve(c) PROVE Effects
  BY <1>9, EffectServe
<1>10. ASSUME NEW i \in Ids, BecomesDue(i) \/ LeaseLapses(i) PROVE Effects
  <2>1. ASSUME NEW id \in Ids PROVE Stays(id)
    BY <1>10 DEF BecomesDue, LeaseLapses, Stays, IInv, StoreOK, Task
  <2> QED BY <1>10, <2>1, EffectNone DEF BecomesDue, LeaseLapses
<1> QED BY Zenon, <1>1, <1>2, <1>3, <1>4, <1>5, <1>6, <1>7, <1>8, <1>9, <1>10 DEF Next

\* A task that is running under a token of before the step was running under it.
LEMMA StillRunning ==
    ASSUME Effects, issued \in Nat, NEW id \in Ids,
           tasks'[id].status = "running", tasks'[id].token \in 1..issued
    PROVE  Stays(id) /\ tasks[id].status = "running"
<1>1. ~HandedOut(id)
  BY DEF HandedOut
<1> QED BY <1>1 DEF Effects, Effect, Stays, Ended, Starved, Withdrawn, Submitted, Purged,
        Recovered, Waiting

\* A running task stays so until its lease ends.
LEMMA LeaseMoves ==
    ASSUME Effects, "purge" \notin Ops, "restart" \notin Ops,
           NEW id \in Ids, tasks[id].status = "running"
    PROVE  Stays(id) \/ Ended(id)
  BY DEF Effects, Effect, HandedOut, Starved, Withdrawn, Submitted, Exists, Purged, Recovered,
     Waiting

-----------------------------------------------------------------------------
(* What one step does to the goroutines of a node.                         *)

\* What belongs to the other nodes is left alone.
Elsewhere(n) ==
    \A m \in Nodes : m # n => UNCHANGED <<running[m], queue[m], disp[m], exec[m]>>

\* Every step is taken by a goroutine of one process, by a process that starts or
\* ends, or leaves goroutines and reservations alone.
LEMMA LocalMoves ==
    ASSUME IInv, [Next]_vars
    PROVE  \/ UNCHANGED <<node, running, queue, disp, exec, call>>
           \/ \E n \in Nodes : /\ Dispatch(n) \/ \E s \in Slots : Execute(n, s)
                               /\ Elsewhere(n) /\ UNCHANGED <<node, call>>
           \/ \E n \in Nodes : /\ StartStop(n) /\ Elsewhere(n)
                               /\ \A m \in Nodes : m # n => node'[m] = node[m]
                               /\ \A c \in Callers : call'[c] \in {call[c], IdleCall}
           \/ \E c \in Callers :
                /\ \A e \in Callers : e # c => call'[e] = call[e]
                /\ \/ /\ Serve(c) /\ UNCHANGED <<node, queue, disp>>
                      /\ Elsewhere(call[c].node)
                   \/ /\ \E n \in Nodes : Request(c, n)
                      /\ UNCHANGED <<node, running, queue, disp, exec>>
<1>0. /\ disp \in [Nodes -> LoopState] /\ call \in [Callers -> CallState]
      /\ running \in [Nodes -> [Ids -> {"free", "nil"} \cup Slots]]
      /\ queue \in [Nodes -> Seq(Tokens)] /\ exec \in [Nodes -> [Slots -> SlotState]]
      /\ node \in [Nodes -> {"new", "up", "stopping", "stopped", "restarting", "dead"}]
  BY Zenon DEF IInv, LoopOK, CallOK, NodeOK, QueueOK, SlotOK
<1>1. ASSUME NEW n \in Nodes, Dispatch(n) PROVE Elsewhere(n) /\ UNCHANGED <<node, call>>
  <2>1. UNCHANGED <<node, call>>
    BY Zenon, <1>1 DEF Dispatch, Tick, ReapWrite, DispatchList, DispatchFail, DispatchReserve,
       DispatchCommit, DispatchEnqueue, DispatchRollback, DispatchUnreserve, DispatchDone,
       ReapRelease, DispatchConsider
  <2>2. \A m \in Nodes : m # n => disp'[m] = disp[m]
    BY Zenon, <1>0, <1>1 DEF Dispatch, Tick, ReapWrite, DispatchList, DispatchFail, DispatchReserve,
       DispatchCommit, DispatchEnqueue, DispatchRollback, DispatchUnreserve, DispatchDone,
       ReapRelease, DispatchConsider
  <2>3. \A m \in Nodes : m # n => running'[m] = running[m] /\ queue'[m] = queue[m]
    BY Zenon, <1>0, <1>1 DEF Dispatch, Tick, ReapWrite, DispatchList, DispatchFail, DispatchReserve,
       DispatchCommit, DispatchEnqueue, DispatchRollback, DispatchUnreserve, DispatchDone,
       ReapRelease, DispatchConsider, Unreserved
  <2>4. \A m \in Nodes : m # n => exec'[m] = exec[m]
    BY Zenon, <1>0, <1>1 DEF Dispatch, Tick, ReapWrite, DispatchList, DispatchFail, DispatchReserve,
       DispatchCommit, DispatchEnqueue, DispatchRollback, DispatchUnreserve, DispatchDone,
       ReapRelease, DispatchConsider, CancelRun
  <2> QED BY SMTT(30), <2>1, <2>2, <2>3, <2>4 DEF Elsewhere
<1>2. ASSUME NEW n \in Nodes, NEW s \in Slots, Execute(n, s)
      PROVE  Elsewhere(n) /\ UNCHANGED <<node, call>>
  <2>1. UNCHANGED <<node, call, disp>>
    BY Zenon, <1>2 DEF Execute, Take, ExecCheck, ExecBegin, ExecReturn, ExecFinish, ExecRelease
  <2>2. \A m \in Nodes : m # n => running'[m] = running[m] /\ queue'[m] = queue[m]
    BY Zenon, <1>0, <1>2 DEF Execute, Take, ExecCheck, ExecBegin, ExecReturn, ExecFinish, ExecRelease,
       Unreserved
  <2>3. \A m \in Nodes : m # n => exec'[m] = exec[m]
    BY Zenon, <1>0, <1>2 DEF Execute, Take, ExecCheck, ExecBegin, ExecReturn, ExecFinish, ExecRelease
  <2> QED BY <2>1, <2>2, <2>3 DEF Elsewhere
<1>3. ASSUME NEW n \in Nodes, StartStop(n)
      PROVE  /\ Elsewhere(n) /\ \A m \in Nodes : m # n => node'[m] = node[m]
             /\ \A c \in Callers : call'[c] \in {call[c], IdleCall}
  BY Zenon, <1>0, <1>3 DEF StartStop, Start, Stop, RequeueList, Stopped, Restart, Restarted, Crash,
     RequeueWrite, RecoverWrite, Elsewhere
<1>4. ASSUME NEW c \in Callers, NEW n \in Nodes, Request(c, n)
      PROVE  /\ UNCHANGED <<node, running, queue, disp, exec>>
             /\ \A e \in Callers : e # c => call'[e] = call[e]
  BY Zenon, <1>0, <1>4 DEF Request, ClaimList, RenewTaskLease, CompleteTask, Present, Cancel, Purge,
     Submit
<1>5. ASSUME NEW c \in Callers, Serve(c)
      PROVE  /\ UNCHANGED <<node, queue, disp>> /\ Elsewhere(call[c].node)
             /\ \A e \in Callers : e # c => call'[e] = call[e]
  <2>1. UNCHANGED <<node, queue, disp>>
    BY Zenon, <1>5 DEF Serve, Claim, ClaimFail, ClaimReserve, ClaimRead, ClaimWrite,
       ClaimUnreserve, ClaimNone, ClaimConsider, RenewWrite, CompleteFinish, CompleteRelease,
       CancelRelease, CancelWrite, PurgeDelete, SubmitCount, SubmitDeps, SubmitCreate
  <2>2. \A e \in Callers : e # c => call'[e] = call[e]
    BY Zenon, <1>0, <1>5 DEF Serve, Claim, ClaimFail, ClaimReserve, ClaimRead, ClaimWrite,
       ClaimUnreserve, ClaimNone, ClaimConsider, RenewWrite, CompleteFinish, CompleteRelease,
       CancelRelease, CancelWrite, PurgeDelete, SubmitCount, SubmitDeps, SubmitCreate
  <2>3. \A m \in Nodes : m # call[c].node => running'[m] = running[m] /\ exec'[m] = exec[m]
    <3>1. CASE UNCHANGED <<running, exec>>
      BY <3>1
    <3>2. CASE ClaimReserve(c) \/ ClaimUnreserve(c) \/ CompleteRelease(c)
      BY ZenonT(60), <1>0, <3>2 DEF ClaimReserve, ClaimUnreserve, CompleteRelease, Unreserved
    <3>3. CASE CancelRelease(c)
      BY Zenon, <1>0, <3>3 DEF CancelRelease, CancelRun, Unreserved
    <3> QED BY Zenon, <1>5, <3>1, <3>2, <3>3 DEF Serve, Claim, ClaimFail, ClaimRead, ClaimWrite,
            ClaimNone, ClaimConsider, RenewWrite, CompleteFinish, CancelWrite, PurgeDelete,
            SubmitCount, SubmitDeps, SubmitCreate
  <2> QED BY <2>1, <2>2, <2>3 DEF Elsewhere
<1>6. ASSUME NEW n \in Nodes, NEW w,
             \/ LocalHeartbeat(n) \/ RegisterWorker(n, w) \/ Heartbeat(n, w)
             \/ ClaimDue(n, w) \/ WorkerLapses(n, w)
      PROVE  UNCHANGED <<node, running, queue, disp, exec, call>>
  BY <1>6 DEF LocalHeartbeat, RegisterWorker, Heartbeat, ClaimDue, WorkerLapses
<1>7. ASSUME NEW id \in Ids, BecomesDue(id) \/ LeaseLapses(id)
      PROVE  UNCHANGED <<node, running, queue, disp, exec, call>>
  BY Zenon, <1>7 DEF BecomesDue, LeaseLapses
<1>8. CASE UNCHANGED vars
  BY ZenonT(60), <1>8 DEF vars
<1> QED BY Zenon, <1>1, <1>2, <1>3, <1>4, <1>5, <1>6, <1>7, <1>8 DEF Next

\* Who moves the dispatchers, and who moves the calls.
LEMMA Movers ==
    ASSUME IInv, [Next]_vars
    PROVE  /\ \/ \E n \in Nodes : /\ Dispatch(n) \/ StartStop(n)
                                  /\ \A m \in Nodes : m # n => disp'[m] = disp[m]
              \/ UNCHANGED disp
           /\ \/ \E c \in Callers : /\ Serve(c) \/ \E n \in Nodes : Request(c, n)
                                    /\ \A e \in Callers : e # c => call'[e] = call[e]
              \/ \A c \in Callers : call'[c] \in {call[c], IdleCall}
<1>1. ASSUME NEW n \in Nodes, NEW s \in Slots, Execute(n, s) PROVE UNCHANGED disp
  BY Zenon, <1>1 DEF Execute, Take, ExecCheck, ExecBegin, ExecReturn, ExecFinish, ExecRelease
<1> QED BY <1>1, LocalMoves DEF Elsewhere

-----------------------------------------------------------------------------
(* Shutdown: what a stopped node leaves behind.                           *)

\* A node's dispatcher is busy only while the node is in the right phase.
Phases ==
    \A n \in Nodes :
        /\ disp[n].pc \notin {"idle", "requeue", "recover"} => node[n] \in {"up", "stopping"}
        /\ disp[n].pc = "requeue" => node[n] = "stopping"
        /\ disp[n].pc = "recover" => node[n] = "restarting"

\* A node knows no local worker of another node.
OwnWorkers == \A n, m \in Nodes : n # m => workers[n][m] = "absent"

Held(id, n) == tasks[id].status = "running" /\ tasks[id].worker = n

\* What a requeueing node still has to write covers all it holds.
RequeueCovers ==
    \A n \in Nodes, id \in Ids : disp[n].pc = "requeue" /\ Held(id, n) =>
        /\ id \in Listed(disp[n].snap)
        /\ disp[n].snap[id].token = tasks[id].token

StopInv == Phases /\ OwnWorkers /\ RequeueCovers /\ StopHandsBack

\* A task comes to run under a node's name only by that node's dispatcher.
NamesKept ==
    \A id \in Ids, n \in Nodes : Held(id, n)' =>
        \/ Held(id, n) /\ tasks'[id].token = tasks[id].token
        \/ disp[n].pc = "commit" /\ grant'[tasks'[id].token].holder = n

\* A write that starts no run under a node's name.
LEMMA NamesWrite ==
    ASSUME \A id \in Ids : tasks'[id].status = "running" =>
             \/ tasks'[id].worker \notin Nodes
             \/ /\ tasks[id].status = "running" /\ tasks'[id].worker = tasks[id].worker
                /\ tasks'[id].token = tasks[id].token
    PROVE  NamesKept
  BY DEF NamesKept, Held

\* A guarded write of a record that does not run.
LEMMA NamesGuarded ==
    ASSUME StoreOK, NEW i \in Ids, NEW status, NEW token, NEW t, t.status # "running",
           tasks' = UpdateIfState(tasks, i, status, token, t)
    PROVE  NamesKept
<1>1. \A id \in Ids : tasks'[id] = tasks[id] \/ tasks'[id].status # "running"
  BY DEF UpdateIfState, StoreOK
<1> QED BY <1>1, NamesWrite

\* A renewal of all leases of a worker.
LEMMA NamesRenewal ==
    ASSUME StoreOK, NEW w, tasks' = RenewWorkerTaskLeases(tasks, w)
    PROVE  NamesKept
<1>1. ASSUME NEW id \in Ids
      PROVE  /\ tasks'[id].status = tasks[id].status
             /\ tasks'[id].worker = tasks[id].worker
             /\ tasks'[id].token = tasks[id].token
  <2>1. tasks[id] \in Task
    BY DEF StoreOK
  <2> QED BY <2>1 DEF RenewWorkerTaskLeases, Task
<1> QED BY <1>1, NamesWrite

\* The dispatcher's steps.
LEMMA NamesDispatch ==
    ASSUME IInv, OwnWorkers, NEW n \in Nodes, Dispatch(n)
    PROVE  NamesKept
<1>0. StoreOK /\ NodeOK /\ disp[n] \in LoopState /\ LoopKnows(disp[n], issued)
  BY DEF IInv, LoopOK
<1>1. CASE ReapWrite(n)
  <2>1. disp[n].id \in Ids /\ Requeued(disp[n].t).status # "running"
    BY Zenon, <1>0, <1>1, RecordTypes DEF ReapWrite, LoopKnows, LoopState
  <2> QED BY <1>0, <1>1, <2>1, NamesGuarded DEF ReapWrite, Settle
<1>2. CASE DispatchFail(n)
  <2>1. disp[n].id \in Ids /\ DepFailed(disp[n].t).status # "running"
    BY Zenon, <1>0, <1>2 DEF DispatchFail, LoopKnows, LoopState, DepFailed, Task
  <2> QED BY <1>0, <1>2, <2>1, NamesGuarded DEF DispatchFail, FailUnready
<1>3. CASE DispatchRollback(n)
  <2>1. disp[n].id \in Ids /\ RolledBack(disp[n].t).status # "running"
    BY <1>0, <1>3 DEF DispatchRollback, LoopKnows, LoopState, RolledBack, Task
  <2> QED BY <1>0, <1>3, <2>1, NamesGuarded DEF DispatchRollback, Settle
<1>4. CASE DispatchCommit(n)
  <2>1. CASE UNCHANGED tasks
    BY Zenon, <2>1, NamesWrite
  <2>2. ASSUME NEW w \in PickWorker(n), Issue(disp[n].id, disp[n].t, w, n)
        PROVE  NamesKept
    <3>1. disp[n].pc = "commit"
      BY <1>4 DEF DispatchCommit
    <3>2. w \in Nodes => w = n
      BY <2>2, SchedulerAssumption DEF PickWorker, OwnWorkers
    <3>3. \A id \in Ids : \/ tasks'[id] = tasks[id]
                          \/ tasks'[id].worker = w /\ tasks'[id].token = issued + 1
      BY Zenon, <1>0, <2>2 DEF Issue, Granted, StoreOK, LoopState, Task
    <3>4. grant'[issued + 1].holder = n
      <4>1. issued + 1 \in Tokens /\ DOMAIN grant = Tokens
        BY <2>2, TaskAssumption DEF Issue, IInv, GrantOK, Tokens
      <4> QED BY Zenon, <2>2, <4>1 DEF Issue
    <3> QED BY <3>1, <3>2, <3>3, <3>4 DEF NamesKept, Held
  <2> QED BY <1>4, <2>1, <2>2 DEF DispatchCommit
<1>5. CASE UNCHANGED tasks
  BY <1>5, NamesWrite
<1> QED BY Zenon, <1>1, <1>2, <1>3, <1>4, <1>5 DEF Dispatch, Tick, DispatchList, DispatchReserve,
        DispatchEnqueue, DispatchUnreserve, DispatchDone, ReapRelease, DispatchConsider

\* Starting and stopping.
LEMMA NamesStartStop ==
    ASSUME IInv, NEW n \in Nodes, StartStop(n)
    PROVE  NamesKept
<1>0. StoreOK /\ disp[n] \in LoopState
  BY DEF IInv, LoopOK
<1>1. CASE Start(n)
  <2>1. ASSUME NEW id \in Ids PROVE tasks'[id] = tasks[id] \/ tasks'[id].status # "running"
    <3>1. Requeued(tasks[id]).status # "running"
      BY Zenon, <1>0, RecordTypes DEF StoreOK
    <3> QED BY <1>0, <1>1, <3>1 DEF Start, StoreOK
  <2> QED BY <2>1, NamesWrite
<1>2. ASSUME NEW id \in Ids, RequeueWrite(n, id) PROVE NamesKept
  <2>1. Requeued(disp[n].snap[id]).status # "running"
    BY Zenon, <1>0, RecordTypes DEF LoopState, Snapshots
  <2> QED BY <1>0, <1>2, <2>1, NamesGuarded DEF RequeueWrite, Settle
<1>3. ASSUME NEW id \in Ids, RecoverWrite(n, id) PROVE NamesKept
  <2>1. Requeued(disp[n].snap[id]).status # "running"
    BY Zenon, <1>0, RecordTypes DEF LoopState, Snapshots
  <2>2. \A i \in Ids : tasks'[i] = tasks[i] \/ tasks'[i].status # "running"
    BY Zenon, <1>0, <1>3, <2>1 DEF RecoverWrite, Update, StoreOK
  <2> QED BY Zenon, <2>2, NamesWrite
<1>4. CASE UNCHANGED tasks
  BY ZenonT(60), <1>4, NamesWrite
<1> QED BY Zenon, <1>1, <1>2, <1>3, <1>4 DEF StartStop, Stop, RequeueList, Stopped, Restart,
        Restarted, Crash

\* What the API goroutines write.
LEMMA NamesServe ==
    ASSUME IInv, NEW c \in Callers, Serve(c)
    PROVE  NamesKept
<1>0. StoreOK /\ call[c] \in CallState /\ CallKnows(call[c])
  BY DEF IInv, CallOK
<1>1. CASE ClaimFail(c)
  <2>1. call[c].id \in Ids /\ DepFailed(call[c].t).status # "running"
    BY Zenon, <1>0, <1>1, RecordTypes DEF ClaimFail, CallKnows, CallState
  <2> QED BY <1>0, <1>1, <2>1, NamesGuarded DEF ClaimFail, FailUnready
<1>2. CASE ClaimWrite(c)
  <2>1. call[c].worker \notin Nodes /\ call[c].id \in Ids
    BY <1>0, <1>2, SchedulerAssumption DEF ClaimWrite, CallKnows
  <2>2. Granted(call[c].t, call[c].worker, issued + 1).worker = call[c].worker
    BY <1>0 DEF Granted, CallState, Task
  <2>3. \/ UNCHANGED tasks
        \/ tasks' = [tasks EXCEPT ![call[c].id] =
                        Granted(call[c].t, call[c].worker, issued + 1)]
    BY <1>2 DEF ClaimWrite, Issue
  <2>4. \A id \in Ids : tasks'[id] = tasks[id] \/ tasks'[id].worker = call[c].worker
    BY Zenon, <1>0, <2>2, <2>3 DEF StoreOK
  <2> QED BY <2>1, <2>4, NamesWrite
<1>3. CASE RenewWrite(c)
  <2>1. call[c].t.worker \notin Nodes /\ call[c].id \in Ids
    BY SMTT(30), <1>0, <1>3, SchedulerAssumption DEF RenewWrite, CallKnows
  <2>2. \A id \in Ids : tasks'[id] = tasks[id] \/ tasks'[id].worker = call[c].t.worker
    BY <1>0, <1>3 DEF RenewWrite, UpdateIfLease, UpdateIfState, StoreOK, CallState, Task
  <2> QED BY Zenon, <2>1, <2>2, NamesWrite
<1>4. CASE CompleteFinish(c)
  <2> DEFINE t == Finished(call[c].id, call[c].t, call[c].ok)
  <2>1. call[c].id \in Ids /\ t.status # "running"
    BY SMTT(30), <1>0, <1>4, FinishedType DEF CompleteFinish, CallKnows, CallState
  <2>2. tasks' = UpdateIfState(tasks, call[c].id, "running", call[c].t.token, t)
    BY <1>4 DEF CompleteFinish, Settle
  <2> HIDE DEF t
  <2> QED BY Zenon, <1>0, <2>1, <2>2, NamesGuarded
<1>5. CASE CancelWrite(c)
  <2> DEFINE t == Canceled(call[c].t)
  <2>1. call[c].id \in Ids /\ t.status # "running"
    BY Zenon, <1>0, <1>5, RecordTypes DEF CancelWrite, CallKnows, CallState
  <2>2. tasks' = UpdateIfState(tasks, call[c].id, call[c].t.status, call[c].t.token, t)
    BY <1>5 DEF CancelWrite, Settle
  <2> HIDE DEF t
  <2> QED BY <1>0, <2>1, <2>2, NamesGuarded
<1>6. CASE PurgeDelete(c)
  <2>1. \A id \in Ids : tasks'[id] = tasks[id] \/ tasks'[id].status # "running"
    BY Zenon, <1>0, <1>6 DEF PurgeDelete, Delete, NoTask, StoreOK
  <2> QED BY Zenon, <2>1, NamesWrite
<1>7. CASE SubmitCreate(c)
  <2>1. \A id \in Ids : tasks'[id] = tasks[id] \/ tasks'[id].status # "running"
    BY Zenon, <1>0, <1>7 DEF SubmitCreate, Create, NewTask, NoTask, StoreOK
  <2> QED BY <2>1, NamesWrite
<1>8. CASE UNCHANGED tasks
  BY Zenon, <1>8, NamesWrite
<1> QED BY Zenon, <1>1, <1>2, <1>3, <1>4, <1>5, <1>6, <1>7, <1>8 DEF Serve, Claim, ClaimReserve,
        ClaimRead, ClaimUnreserve, ClaimNone, ClaimConsider, CompleteRelease, CancelRelease,
        SubmitCount, SubmitDeps

\* All steps.
LEMMA NamesNext ==
    ASSUME IInv, OwnWorkers, [Next]_vars
    PROVE  NamesKept
<1>0. StoreOK /\ Nodes \cap Workers = {}
  BY SchedulerAssumption DEF IInv
<1>1. ASSUME NEW n \in Nodes, NEW w \in Workers, ClaimDue(n, w) PROVE NamesKept
  <2>1. ASSUME NEW F \in SUBSET Ids, NEW st,
               st = [id \in Ids |-> IF id \in F THEN DepFailed(tasks[id]) ELSE tasks[id]],
               \/ tasks' = st
               \/ \E id \in Ids : tasks' = [st EXCEPT ![id] = Granted(tasks[id], w, issued + 1)]
        PROVE  NamesKept
    <3>1. \A id \in Ids : st[id] = tasks[id] \/ st[id].status = "failed"
      BY Zenon, <1>0, <2>1, RecordTypes DEF StoreOK
    <3>2. \A id \in Ids : tasks[id] \in Task /\ Granted(tasks[id], w, issued + 1).worker = w
      BY <1>0 DEF StoreOK, Granted, Task
    <3>3. \A id \in Ids : tasks'[id] = st[id] \/ tasks'[id].worker = w
      BY <2>1, <3>2
    <3> QED BY Zenon, <1>0, <3>1, <3>3, NamesWrite
  <2> DEFINE fail(F) ==
               [id \in Ids |-> IF id \in F THEN DepFailed(tasks[id]) ELSE tasks[id]]
  <2>2. PICK F \in SUBSET Ids :
               \/ tasks' = fail(F)
               \/ \E id \in Ids :
                    tasks' = [fail(F) EXCEPT ![id] = Granted(tasks[id], w, issued + 1)]
    BY Zenon, <1>1 DEF ClaimDue
  <2> QED BY Zenon, <2>1, <2>2
<1>2. ASSUME NEW id \in Ids, BecomesDue(id) \/ LeaseLapses(id) PROVE NamesKept
  <2>1. tasks \in [Ids -> Task] /\ tasks[id] \in Task
    BY <1>0 DEF StoreOK
  <2>2. ASSUME NEW i \in Ids
        PROVE  /\ tasks'[i].status = tasks[i].status /\ tasks'[i].worker = tasks[i].worker
               /\ tasks'[i].token = tasks[i].token
    BY <1>2, <2>1 DEF BecomesDue, LeaseLapses, Task
  <2> QED BY <2>2, NamesWrite
<1>3. ASSUME NEW n \in Nodes, NEW s \in Slots, Execute(n, s) PROVE NamesKept
  <2>1. CASE ExecFinish(n, s)
    <3> DEFINE x == exec[n][s]
               i == grant[x.token].id
               t == Finished(i, x.t, x.ok)
    <3>1. x \in SlotState /\ x.token \in 1..issued /\ i \in Ids
      BY <2>1 DEF ExecFinish, IInv, SlotOK, SlotKnows, SlotState, GrantOK
    <3>2. t.status # "running"
      BY ZenonT(60), <3>1, FinishedType DEF SlotState
    <3>3. tasks' = UpdateIfState(tasks, i, "running", x.t.token, t)
      BY Zenon, <2>1 DEF ExecFinish, Settle
    <3> HIDE DEF t, i
    <3> QED BY ZenonT(60), <1>0, <3>1, <3>2, <3>3, NamesGuarded
  <2>2. CASE UNCHANGED tasks
    BY <2>2, NamesWrite
  <2> QED BY Zenon, <1>3, <2>1, <2>2 DEF Execute, Take, ExecCheck, ExecBegin, ExecReturn, ExecRelease
<1>4. ASSUME NEW n \in Nodes, NEW w, LocalHeartbeat(n) \/ Heartbeat(n, w) PROVE NamesKept
  BY <1>0, <1>4, NamesRenewal DEF LocalHeartbeat, Heartbeat
<1>5. ASSUME NEW n \in Nodes, NEW c \in Callers, Request(c, n) PROVE NamesKept
  BY Zenon, <1>5, NamesWrite DEF Request, ClaimList, RenewTaskLease, CompleteTask, Present, Cancel,
     Purge, Submit
<1>6. ASSUME NEW n \in Nodes, NEW w, RegisterWorker(n, w) \/ WorkerLapses(n, w) PROVE NamesKept
  BY <1>6, NamesWrite DEF RegisterWorker, WorkerLapses
<1>7. CASE UNCHANGED vars
  BY <1>7, NamesWrite DEF vars
<1>8. ASSUME NEW n \in Nodes, Dispatch(n) \/ StartStop(n) PROVE NamesKept
  BY Zenon, <1>8, NamesDispatch, NamesStartStop
<1>9. ASSUME NEW c \in Callers, Serve(c) PROVE NamesKept
  BY Zenon, <1>9, NamesServe
<1> QED BY Zenon, <1>1, <1>2, <1>3, <1>4, <1>5, <1>6, <1>7, <1>8, <1>9 DEF Next

\* Who changes the phase of a node, its dispatcher and its list of workers.
LEMMA PhaseMoves ==
    ASSUME IInv, [Next]_vars, NEW n \in Nodes
    PROVE  /\ \/ UNCHANGED <<node[n], disp[n]>>
              \/ UNCHANGED node[n] /\ Dispatch(n)
              \/ StartStop(n)
           /\ \A m \in Nodes : n # m /\ workers[n][m] = "absent" => workers'[n][m] = "absent"
<1>0. /\ workers \in [Nodes -> [Nodes \cup Workers -> {"absent", "live", "lapsed"}]]
      /\ Nodes \cap Workers = {}
  BY ZenonT(60), SchedulerAssumption DEF IInv, NodeOK
<1>1. \/ UNCHANGED <<node[n], disp[n]>>
      \/ UNCHANGED node[n] /\ Dispatch(n)
      \/ StartStop(n)
  <2>1. ASSUME NEW k \in Nodes, NEW s \in Slots, Execute(k, s) PROVE UNCHANGED disp
    BY ZenonT(60), <2>1 DEF Execute, Take, ExecCheck, ExecBegin, ExecReturn, ExecFinish, ExecRelease
  <2> QED BY <2>1, LocalMoves DEF Elsewhere
<1>2. \/ UNCHANGED workers
      \/ \E k \in Nodes : workers' = [workers EXCEPT ![k][k] = "live"]
      \/ \E k \in Nodes, w \in Workers : workers' = [workers EXCEPT ![k][w] = "live"]
      \/ \E k \in Nodes, w \in Nodes \cup Workers :
            workers[k][w] = "live" /\ workers' = [workers EXCEPT ![k][w] = "lapsed"]
  <2>1. ASSUME NEW k \in Nodes, Dispatch(k) PROVE UNCHANGED workers
    BY Zenon, <2>1 DEF Dispatch, Tick, ReapWrite, DispatchList, DispatchFail, DispatchReserve,
       DispatchCommit, DispatchEnqueue, DispatchRollback, DispatchUnreserve, DispatchDone,
       ReapRelease, DispatchConsider
  <2>2. ASSUME NEW k \in Nodes, StartStop(k)
        PROVE  UNCHANGED workers \/ workers' = [workers EXCEPT ![k][k] = "live"]
    BY Zenon, <2>2 DEF StartStop, Start, Stop, RequeueList, Stopped, Restart, Restarted, Crash,
       RequeueWrite, RecoverWrite
  <2>3. ASSUME NEW k \in Nodes, NEW s \in Slots, Execute(k, s) PROVE UNCHANGED workers
    BY Zenon, <2>3 DEF Execute, Take, ExecCheck, ExecBegin, ExecReturn, ExecFinish, ExecRelease
  <2>4. ASSUME NEW c \in Callers, NEW k \in Nodes, Request(c, k) PROVE UNCHANGED workers
    BY Zenon, <2>4 DEF Request, ClaimList, RenewTaskLease, CompleteTask, Present, Cancel, Purge,
       Submit
  <2>5. ASSUME NEW c \in Callers, Serve(c) PROVE UNCHANGED workers
    BY Zenon, <2>5 DEF Serve, Claim, ClaimFail, ClaimReserve, ClaimRead, ClaimWrite,
       ClaimUnreserve, ClaimNone, ClaimConsider, RenewWrite, CompleteFinish, CompleteRelease,
       CancelRelease, CancelWrite, PurgeDelete, SubmitCount, SubmitDeps, SubmitCreate
  <2>6. ASSUME NEW id \in Ids, BecomesDue(id) \/ LeaseLapses(id) PROVE UNCHANGED workers
    BY <2>6 DEF BecomesDue, LeaseLapses
  <2>7. CASE UNCHANGED vars
    BY <2>7 DEF vars
  <2> QED BY SMTT(30), <2>1, <2>2, <2>3, <2>4, <2>5, <2>6, <2>7
          DEF Next, LocalHeartbeat, RegisterWorker, Heartbeat, ClaimDue, WorkerLapses
<1> QED BY <1>0, <1>1, <1>2

\* StopInv is preserved, whatever operations there are.
LEMMA StopStep ==
    ASSUME IInv, StopInv, [Next]_vars
    PROVE  StopInv'
<1>0. NamesKept
  BY NamesNext DEF StopInv
<1>1. OwnWorkers'
  BY Zenon, PhaseMoves DEF StopInv, OwnWorkers
<1> SUFFICES ASSUME NEW n \in Nodes
             PROVE  /\ disp'[n].pc \notin {"idle", "requeue", "recover"} =>
                         node'[n] \in {"up", "stopping"}
                    /\ disp'[n].pc = "requeue" => node'[n] = "stopping"
                    /\ disp'[n].pc = "recover" => node'[n] = "restarting"
                    /\ \A id \in Ids : Held(id, n)' =>
                         /\ node'[n] # "stopped"
                         /\ disp'[n].pc = "requeue" =>
                              /\ disp'[n].snap[id].status # "absent"
                              /\ disp'[n].snap[id].token = tasks'[id].token
  BY Zenon, <1>1 DEF StopInv, Phases, RequeueCovers, StopHandsBack, Listed, Held
<1>2. /\ disp \in [Nodes -> LoopState]
      /\ node \in [Nodes -> {"new", "up", "stopping", "stopped", "restarting", "dead"}]
      /\ disp[n] \in LoopState
  BY DEF IInv, LoopOK, NodeOK
<1>3. /\ disp[n].pc \notin {"idle", "requeue", "recover"} => node[n] \in {"up", "stopping"}
      /\ disp[n].pc = "requeue" => node[n] = "stopping"
      /\ disp[n].pc = "recover" => node[n] = "restarting"
  BY Zenon DEF StopInv, Phases
<1>4. ASSUME NEW id \in Ids, Held(id, n)'
      PROVE  \/ disp[n].pc = "commit"
             \/ /\ Held(id, n) /\ tasks'[id].token = tasks[id].token
                /\ node[n] # "stopped"
                /\ disp[n].pc = "requeue" => /\ disp[n].snap[id].status # "absent"
                                             /\ disp[n].snap[id].token = tasks'[id].token
  BY Zenon, <1>0, <1>4 DEF NamesKept, StopInv, StopHandsBack, RequeueCovers, Held, Listed
<1>5. CASE UNCHANGED <<node[n], disp[n]>>
  BY ZenonT(60), <1>3, <1>4, <1>5
<1>6. CASE UNCHANGED node[n] /\ Dispatch(n)
  <2>1. disp'[n].pc \notin {"requeue", "recover"} /\ node[n] \in {"up", "stopping"}
    <3>1. CASE \E id \in Ids : ReapRelease(n, id)
      BY <1>2, <1>3, <3>1 DEF ReapRelease
    <3>2. CASE \E id \in Ids : DispatchConsider(n, id)
      BY <1>2, <1>3, <3>2 DEF DispatchConsider, Consider, LoopState
    <3>0. \A pc : Back(disp[n], pc).pc = pc
      BY Zenon, <1>2 DEF Back, LoopState
    <3>3. CASE ReapWrite(n) \/ DispatchFail(n) \/ DispatchUnreserve(n)
      BY <1>2, <1>3, <3>0, <3>3 DEF ReapWrite, DispatchFail, DispatchUnreserve
    <3>4. CASE DispatchReserve(n)
      <4>1. /\ disp[n].pc = "reserve"
            /\ \/ disp' = [disp EXCEPT ![n].pc = "commit"]
               \/ disp' = [disp EXCEPT ![n] = Back(disp[n], "walk")]
        BY <3>4 DEF DispatchReserve
      <4>2. disp'[n].pc \in {"commit", "walk"}
        BY <1>2, <3>0, <4>1 DEF LoopState
      <4> QED BY <1>3, <4>1, <4>2
    <3>7. CASE DispatchEnqueue(n)
      <4>1. /\ disp[n].pc = "enqueue"
            /\ \/ disp' = [disp EXCEPT ![n].pc = "rollback"]
               \/ disp' = [disp EXCEPT ![n] = Back(disp[n], "walk")]
        BY <3>7 DEF DispatchEnqueue
      <4>2. disp'[n].pc \in {"rollback", "walk"}
        BY <1>2, <3>0, <4>1 DEF LoopState
      <4> QED BY <1>3, <4>1, <4>2
    <3>5. CASE DispatchCommit(n)
      BY <1>2, <1>3, <3>5 DEF DispatchCommit, LoopState
    <3>6. CASE Tick(n) \/ DispatchList(n) \/ DispatchRollback(n) \/ DispatchDone(n)
      BY <1>2, <1>3, <3>6 DEF Tick, Looping, DispatchList, DispatchRollback, DispatchDone,
         IdleLoop, LoopState
    <3> QED BY Zenon, <1>6, <3>1, <3>2, <3>3, <3>4, <3>5, <3>6, <3>7 DEF Dispatch
  <2> QED BY <1>4, <1>6, <2>1
<1>7. CASE StartStop(n)
  <2>1. CASE Start(n) \/ Stop(n)
    BY Zenon, <1>2, <1>3, <1>4, <2>1 DEF Start, Stop
  <2>2. CASE RequeueList(n)
    <3>1. /\ disp'[n].pc = "requeue" /\ UNCHANGED <<tasks, node>> /\ node[n] = "stopping"
          /\ \A id \in Ids : Held(id, n) => disp'[n].snap[id] = tasks[id]
      BY <1>2, <2>2 DEF RequeueList, Listing, Held
    <3> QED BY <3>1 DEF Held
  <2>3. CASE Stopped(n)
    BY Zenon, <1>2, <1>3, <1>4, <2>3 DEF Stopped, IdleLoop, Listed
  <2>4. CASE Restart(n) \/ Restarted(n) \/ Crash(n)
    <3>1. \/ disp'[n].pc = "recover" /\ node'[n] = "restarting"
          \/ disp'[n].pc = "idle" /\ node'[n] \in {"up", "dead"}
      <4>1. Restart(n) => disp'[n].pc = "recover" /\ node'[n] = "restarting"
        BY <1>2 DEF Restart
      <4>2. Restarted(n) => disp'[n].pc = "idle" /\ node'[n] = "up"
        BY <1>2 DEF Restarted, IdleLoop
      <4>3. Crash(n) => disp'[n].pc = "idle" /\ node'[n] = "dead"
        BY <1>2 DEF Crash, IdleLoop
      <4> QED BY Zenon, <2>4, <4>1, <4>2, <4>3
    <3> QED BY <3>1
  <2>5. ASSUME NEW i \in Ids, RequeueWrite(n, i) PROVE disp'[n].pc = "requeue" /\
               \A id \in Ids : Held(id, n)' => disp'[n].snap[id] = disp[n].snap[id]
    <3>1. /\ disp'[n].pc = "requeue"
          /\ \A id \in Ids : id # i => disp'[n].snap[id] = disp[n].snap[id]
      BY <1>2, <2>5 DEF RequeueWrite, Without, LoopState, Snapshots
    <3>2. ~Held(i, n)'
      <4>1. Requeued(disp[n].snap[i]).status # "running"
        BY Zenon, <1>2, RecordTypes DEF LoopState, Snapshots
      <4> QED BY Zenon, <1>4, <2>5, <4>1 DEF RequeueWrite, Settle, UpdateIfState, InState, Held,
              IInv, StoreOK
    <3> QED BY <3>1, <3>2
  <2>6. ASSUME NEW i \in Ids, RecoverWrite(n, i) PROVE disp'[n].pc = "recover" /\ UNCHANGED node
    BY <1>2, <2>6 DEF RecoverWrite
  <2>7. ASSUME NEW i \in Ids, RequeueWrite(n, i) PROVE UNCHANGED node /\ disp[n].pc = "requeue"
    BY <2>7 DEF RequeueWrite
  <2>8. ASSUME NEW i \in Ids, RecoverWrite(n, i) PROVE disp[n].pc = "recover"
    BY <2>8 DEF RecoverWrite
  <2> QED BY Zenon, <1>3, <1>4, <1>7, <2>1, <2>2, <2>3, <2>4, <2>5, <2>6, <2>7, <2>8 DEF StartStop
<1> QED BY Zenon, <1>5, <1>6, <1>7, PhaseMoves

\* Once Stop has returned, no task is running under the name of the node: the
\* dispatcher has stopped handing tasks out before requeueRunningOnStop lists them.
THEOREM StopRequeues == Spec => []StopHandsBack
<1>1. Init => StopInv
  BY DEF Init, StopInv, Phases, OwnWorkers, RequeueCovers, StopHandsBack, IdleLoop
<1>2. IInv /\ StopInv /\ [Next]_vars => StopInv'
  BY StopStep
<1>3. StopInv => StopHandsBack
  BY DEF StopInv
<1> QED BY <1>1, <1>2, <1>3, Invariance, PTL DEF Spec

-----------------------------------------------------------------------------
(* Live processes.                                                        *)

\* A store that is not shared has one process at a time.
OneAlive == SharedStore \/ \A n, m \in Nodes : Alive(n) /\ Alive(m) => n = m

\* Only a live process has goroutines and reservations.
OnlyAlive ==
    /\ \A n \in Nodes : ~Alive(n) =>
         /\ disp[n].pc = "idle"
         /\ \A s \in Slots : exec[n][s].pc = "idle"
         /\ \A id \in Ids : running[n][id] = "free"
    /\ \A c \in Callers : call[c].pc # "idle" => Alive(call[c].node)

\* Where a call that is going on was made.
LEMMA CallStays ==
    ASSUME IInv, OnlyAlive, NEW c \in Callers,
           Serve(c) \/ \E n \in Nodes : Request(c, n), call'[c].pc # "idle"
    PROVE  Alive(call'[c].node)
<1>0. call \in [Callers -> CallState] /\ (call[c].pc # "idle" => Alive(call[c].node))
  BY ZenonT(60) DEF IInv, CallOK, OnlyAlive
<1>1. ASSUME NEW n \in Nodes, Request(c, n) PROVE Alive(call'[c].node)
  <2>1. ASSUME NEW w \in Workers, ClaimList(c, n, w) PROVE Alive(n) /\ call'[c].node = n
    BY <1>0, <2>1 DEF ClaimList, Begin, IdleCall
  <2>2. ASSUME NEW w \in Workers, NEW k \in GrantedTo(w),
               RenewTaskLease(c, n, w, k) \/ CompleteTask(c, n, w, k)
        PROVE  Alive(n) /\ call'[c].node = n
    BY Zenon, <1>0, <2>2 DEF RenewTaskLease, CompleteTask, Present, Begin, IdleCall
  <2>3. ASSUME NEW id \in Ids, Cancel(c, n, id) \/ Purge(c, n, id) \/ Submit(c, n, id)
        PROVE  Alive(n) /\ call'[c].node = n
    BY Zenon, <1>0, <2>3 DEF Cancel, Purge, Submit, Begin, IdleCall
  <2> QED BY SMTT(30), <1>1, <2>1, <2>2, <2>3 DEF Request
<1>2. CASE Serve(c)
  <2>1. call[c].pc # "idle"
    BY Zenon, <1>2 DEF Serve, Claim, ClaimFail, ClaimReserve, ClaimRead, ClaimWrite,
       ClaimUnreserve, ClaimNone, ClaimConsider, RenewWrite, CompleteFinish, CompleteRelease,
       CancelRelease, CancelWrite, PurgeDelete, SubmitCount, SubmitDeps, SubmitCreate
  <2>2. ASSUME NEW id \in Ids, ClaimConsider(c, id) PROVE call'[c].node = call[c].node
    BY <1>0, <2>2 DEF ClaimConsider, Consider, CallState
  <2>3. CASE ClaimFail(c) \/ ClaimUnreserve(c)
    BY Zenon, <1>0, <2>1, <2>3 DEF ClaimFail, ClaimUnreserve, Back, CallState
  <2>4. CASE ClaimReserve(c)
    BY ZenonT(60), <1>0, <2>1, <2>4 DEF ClaimReserve, Back, CallState
  <2>5. CASE ClaimRead(c) \/ CancelRelease(c)
    BY <1>0, <2>1, <2>5 DEF ClaimRead, CancelRelease, CallState
  <2>6. CASE ClaimWrite(c)
    BY <1>0, <2>1, <2>6 DEF ClaimWrite, IdleCall, CallState
  <2>7. CASE ClaimNone(c) \/ RenewWrite(c) \/ CompleteRelease(c) \/ CancelWrite(c)
             \/ PurgeDelete(c) \/ SubmitCreate(c)
    BY <1>0, <2>7 DEF ClaimNone, RenewWrite, CompleteRelease, CancelWrite, PurgeDelete,
       SubmitCreate, IdleCall
  <2>8. CASE CompleteFinish(c)
    BY Zenon, <1>0, <2>1, <2>8 DEF CompleteFinish, IdleCall, CallState
  <2>9. CASE SubmitCount(c) \/ SubmitDeps(c)
    BY <1>0, <2>1, <2>9 DEF SubmitCount, SubmitDeps, IdleCall, CallState
  <2> QED BY Zenon, <1>0, <1>2, <2>1, <2>2, <2>3, <2>4, <2>5, <2>6, <2>7, <2>8, <2>9 DEF Serve, Claim
<1> QED BY Zenon, <1>1, <1>2

\* Processes that are not running have no goroutines.
LEMMA AliveStep ==
    ASSUME IInv, OneAlive, OnlyAlive, [Next]_vars
    PROVE  OneAlive' /\ OnlyAlive'
<1>0. /\ node \in [Nodes -> {"new", "up", "stopping", "stopped", "restarting", "dead"}]
      /\ disp \in [Nodes -> LoopState] /\ exec \in [Nodes -> [Slots -> SlotState]]
      /\ running \in [Nodes -> [Ids -> {"free", "nil"} \cup Slots]]
      /\ call \in [Callers -> CallState]
  BY Zenon DEF IInv, NodeOK, LoopOK, SlotOK, CallOK
<1>1. CASE UNCHANGED <<node, running, queue, disp, exec, call>>
  BY <1>1 DEF OneAlive, OnlyAlive, Alive
<1>2. ASSUME NEW n \in Nodes, Dispatch(n) \/ \E s \in Slots : Execute(n, s),
             Elsewhere(n), UNCHANGED <<node, call>>
      PROVE  OneAlive' /\ OnlyAlive'
  <2>0. ASSUME Alive(n) PROVE OneAlive' /\ OnlyAlive'
    <3>1. \A m \in Nodes : Alive(m)' <=> Alive(m)
      BY Zenon, <1>2 DEF Alive
    <3>2. OneAlive'
      BY Zenon, <3>1 DEF OneAlive
    <3>3. ASSUME NEW m \in Nodes, ~Alive(m)'
          PROVE  /\ disp'[m].pc = "idle"
                 /\ \A s \in Slots : exec'[m][s].pc = "idle"
                 /\ \A id \in Ids : running'[m][id] = "free"
      <4>1. ~Alive(m) /\ m # n
        BY Zenon, <2>0, <3>1, <3>3
      <4>2. disp'[m] = disp[m] /\ exec'[m] = exec[m] /\ running'[m] = running[m]
        BY Zenon, <1>2, <4>1 DEF Elsewhere
      <4>3. /\ disp[m].pc = "idle"
            /\ \A s \in Slots : exec[m][s].pc = "idle"
            /\ \A id \in Ids : running[m][id] = "free"
        BY Zenon, <4>1 DEF OnlyAlive
      <4> QED BY SMTT(30), <4>2, <4>3
    <3>4. ASSUME NEW c \in Callers, call'[c].pc # "idle" PROVE Alive(call[c].node)'
      BY SMTT(30), <1>2, <3>4 DEF OnlyAlive, Alive
    <3> QED BY Zenon, <3>2, <3>3, <3>4 DEF OnlyAlive
  <2>1. CASE Dispatch(n)
    <3>1. disp[n].pc # "idle" \/ Looping(n)
      BY Zenon, <2>1 DEF Dispatch, Tick, ReapWrite, DispatchList, DispatchFail, DispatchReserve,
         DispatchCommit, DispatchEnqueue, DispatchRollback, DispatchUnreserve, DispatchDone,
         ReapRelease, DispatchConsider
    <3>2. Alive(n)
      BY Zenon, <3>1 DEF OnlyAlive, Looping, Alive
    <3> QED BY Zenon, <2>0, <3>2
  <2>2. ASSUME NEW s \in Slots, Execute(n, s) PROVE OneAlive' /\ OnlyAlive'
    <3>1. Alive(n) \/ exec[n][s].pc # "idle"
      BY Zenon, <2>2 DEF Execute, Take, ExecCheck, ExecBegin, ExecReturn, ExecFinish, ExecRelease
    <3>2. Alive(n)
      BY Zenon, <3>1 DEF OnlyAlive
    <3> QED BY Zenon, <2>0, <3>2
  <2> QED BY Zenon, <1>2, <2>1, <2>2
<1>3. ASSUME NEW n \in Nodes, StartStop(n), Elsewhere(n) PROVE OneAlive' /\ OnlyAlive'
  <2>1. CASE Start(n)
    BY <1>0, <2>1 DEF Start, OneAlive, OnlyAlive, Alive
  <2>2. CASE Crash(n)
    <3>1. /\ node' = [node EXCEPT ![n] = "dead"]
          /\ disp'[n].pc = "idle" /\ \A s \in Slots : exec'[n][s].pc = "idle"
          /\ \A id \in Ids : running'[n][id] = "free"
      BY Zenon, <1>0, <2>2 DEF Crash, IdleLoop, IdleSlot
    <3>2. ASSUME NEW c \in Callers
          PROVE  call'[c].pc = "idle" \/ (call'[c] = call[c] /\ call[c].node # n)
      <4>1. call'[c] = IF call[c].node = n THEN IdleCall ELSE call[c]
        BY Zenon, <2>2 DEF Crash
      <4> QED BY <4>1 DEF IdleCall
    <3>3. \A m \in Nodes : Alive(m)' => Alive(m) /\ m # n
      BY <1>0, <3>1 DEF Alive
    <3>4. \A m \in Nodes : Alive(m) /\ m # n => Alive(m)'
      BY <1>0, <3>1 DEF Alive
    <3>5. OneAlive'
      BY Zenon, <3>3 DEF OneAlive
    <3>6. ASSUME NEW m \in Nodes, ~Alive(m)'
          PROVE  /\ disp'[m].pc = "idle"
                 /\ \A s \in Slots : exec'[m][s].pc = "idle"
                 /\ \A id \in Ids : running'[m][id] = "free"
      BY <1>3, <3>1, <3>4, <3>6 DEF OnlyAlive, Elsewhere
    <3>7. ASSUME NEW c \in Callers, call'[c].pc # "idle" PROVE Alive(call[c].node)'
      <4>1. call'[c] = call[c] /\ call[c].node # n /\ Alive(call[c].node)
        BY Zenon, <3>2, <3>7 DEF OnlyAlive
      <4>2. call[c].node \in Nodes
        BY Zenon, <3>7, <4>1 DEF IInv, CallOK, CallKnows
      <4> QED BY Zenon, <3>4, <4>1, <4>2
    <3> QED BY Zenon, <3>5, <3>6, <3>7 DEF OnlyAlive
  <2>3. ASSUME Alive(n), Alive(n)', \A m \in Nodes : m # n => node'[m] = node[m], UNCHANGED call
        PROVE  OneAlive' /\ OnlyAlive'
    <3>1. \A m \in Nodes : Alive(m)' <=> Alive(m)
      BY Zenon, <2>3 DEF Alive
    <3>2. \A c \in Callers : call[c].pc # "idle" => call[c].node \in Nodes
      BY SMTT(30) DEF IInv, CallOK, CallKnows
    <3>3. OneAlive'
      BY Zenon, <3>1 DEF OneAlive
    <3>4. ASSUME NEW m \in Nodes, ~Alive(m)'
          PROVE  /\ disp'[m].pc = "idle"
                 /\ \A s \in Slots : exec'[m][s].pc = "idle"
                 /\ \A id \in Ids : running'[m][id] = "free"
      <4>1. m # n /\ ~Alive(m)
        BY Zenon, <2>3, <3>1, <3>4
      <4> QED BY <1>3, <4>1 DEF OnlyAlive, Elsewhere
    <3>5. ASSUME NEW c \in Callers, call'[c].pc # "idle" PROVE Alive(call[c].node)'
      <4>1. call'[c] = call[c] /\ call[c].node \in Nodes /\ Alive(call[c].node)
        BY Zenon, <2>3, <3>2, <3>5 DEF OnlyAlive
      <4> QED BY Zenon, <3>1, <4>1
    <3> QED BY Zenon, <3>3, <3>4, <3>5 DEF OnlyAlive
  <2>4. disp[n].pc # "idle" => Alive(n)
    BY DEF OnlyAlive
  <2>5. CASE Stop(n) \/ RequeueList(n)
    BY Zenon, <1>0, <2>3, <2>5 DEF Stop, RequeueList, Alive
  <2>6. CASE Stopped(n) \/ Restart(n) \/ Restarted(n)
    BY <1>0, <2>3, <2>4, <2>6 DEF Stopped, Restart, Restarted, Alive
  <2>7. ASSUME NEW id \in Ids, RequeueWrite(n, id) \/ RecoverWrite(n, id)
        PROVE  OneAlive' /\ OnlyAlive'
    BY Zenon, <1>0, <2>3, <2>4, <2>7 DEF RequeueWrite, RecoverWrite, Alive
  <2> QED BY SMTT(30), <1>3, <2>1, <2>2, <2>5, <2>6, <2>7 DEF StartStop
<1>4. ASSUME NEW c \in Callers, \A e \in Callers : e # c => call'[e] = call[e],
             UNCHANGED node, Serve(c) \/ \E n \in Nodes : Request(c, n), UNCHANGED disp,
             (call[c].pc # "idle" /\ Elsewhere(call[c].node)) \/ UNCHANGED <<running, exec>>
      PROVE  OneAlive' /\ OnlyAlive'
  <2>1. call'[c].pc # "idle" => Alive(call'[c].node)
    BY Zenon, <1>4, CallStays
  <2>2. \A m \in Nodes : Alive(m)' <=> Alive(m)
    BY Zenon, <1>4 DEF Alive
  <2>3. OneAlive'
    BY ZenonT(60), <2>2 DEF OneAlive
  <2>4. ASSUME NEW m \in Nodes, ~Alive(m)'
        PROVE  /\ disp'[m].pc = "idle"
               /\ \A s \in Slots : exec'[m][s].pc = "idle"
               /\ \A id \in Ids : running'[m][id] = "free"
    <3>1. running'[m] = running[m] /\ exec'[m] = exec[m] /\ disp'[m] = disp[m]
      BY <1>4, <2>2, <2>4 DEF OnlyAlive, Elsewhere
    <3> QED BY SMTT(30), <2>2, <2>4, <3>1 DEF OnlyAlive
  <2>5. ASSUME NEW e \in Callers, call'[e].pc # "idle" PROVE Alive(call[e].node)'
    <3>1. Alive(call'[e].node)
      BY Zenon, <1>4, <2>1, <2>5 DEF OnlyAlive
    <3> QED BY Zenon, <1>4, <3>1 DEF Alive
  <2> QED BY Zenon, <2>3, <2>4, <2>5 DEF OnlyAlive
<1>5. ASSUME NEW c \in Callers, Serve(c) PROVE call[c].pc # "idle"
  BY Zenon, <1>5 DEF Serve, Claim, ClaimFail, ClaimReserve, ClaimRead, ClaimWrite,
     ClaimUnreserve, ClaimNone, ClaimConsider, RenewWrite, CompleteFinish, CompleteRelease,
     CancelRelease, CancelWrite, PurgeDelete, SubmitCount, SubmitDeps, SubmitCreate
<1> QED BY Zenon, <1>1, <1>2, <1>3, <1>4, <1>5, LocalMoves

=============================================================================
