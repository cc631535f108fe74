-------------------------- MODULE LifecycleProofs ---------------------------
(***************************************************************************)
(* The life of a task, for every set of tasks, nodes, workers and callers: *)
(* final statuses stay, a key is accepted once, a task runs only after     *)
(* what it depends on (Trusts), and every task follows TaskLifecycle.      *)
(*                                                                         *)
(* The second part is about the counters of a task.  A counter is written  *)
(* back with a copy of the record, so that it is right depends on the      *)
(* copies that the goroutines hold (CountInv): a copy made while the task  *)
(* ran counts what the record counts until the lease ends, a candidate of  *)
(* the dispatcher is current until the dispatcher is done with it.  Tally  *)
(* is what one step may do to the counters and the ended leases together.  *)
(***************************************************************************)
EXTENDS StepProofs

-----------------------------------------------------------------------------
(* Final statuses and idempotency keys.                                    *)

\* A task that has succeeded or was canceled stays so until it is purged, whatever
\* copies of it the goroutines of any number of processes hold.  recoverRunning, run
\* by a second Start in one process, is the one write that is not conditional.
THEOREM FinalForever ==
    ASSUME "restart" \notin Ops
    PROVE  Spec => FinalIsFinal
<1>1. IInv /\ [Next]_vars =>
        [\A id \in Ids : tasks[id].status \in {"success", "canceled"} =>
            tasks'[id].status \in {tasks[id].status, "absent"}]_tasks
  <2> SUFFICES ASSUME IInv, [Next]_vars, NEW id \in Ids,
                      tasks[id].status \in {"success", "canceled"}
               PROVE  tasks'[id].status \in {tasks[id].status, "absent"}
    OBVIOUS
  <2>1. Effect(id)
    BY EffectNext DEF Effects
  <2> QED BY <2>1 DEF Effect, HandedOut, Stays, Ended, Starved, Withdrawn, Submitted,
          Purged, Recovered, Waiting, Exists
<1> QED BY <1>1, Invariance, PTL DEF Spec, FinalIsFinal

\* However many Submits race past FindByIdempotencyKey, and whatever is purged in
\* between, at most one record has a given key: Create decides under the store's
\* mutex or unique index.
THEOREM KeyAcceptedOnce ==
    ASSUME "submit" \in Ops
    PROVE  Spec => []OneRecordPerKey
<1>1. Init => OneRecordPerKey
  BY DEF Init, OneRecordPerKey, Exists, Empty, NoTask
<1>2. IInv /\ OneRecordPerKey /\ [Next]_vars => OneRecordPerKey'
  <2> SUFFICES ASSUME IInv, OneRecordPerKey, [Next]_vars, NEW i \in Ids, NEW j \in Ids,
                      Exists(tasks', i), Exists(tasks', j), Key[i] = Key[j], Key[i] # 0
               PROVE  i = j
    BY DEF OneRecordPerKey
  <2>1. Effect(i) /\ Effect(j)
    BY Zenon, EffectNext DEF Effects
  <2>2. ASSUME NEW id \in Ids, Effect(id), Exists(tasks', id)
        PROVE  Exists(tasks, id) \/ Submitted(id)
    BY <2>2 DEF Effect, HandedOut, Stays, Ended, Starved, Withdrawn, Purged, Recovered,
       Waiting, Exists
  <2>3. CASE Exists(tasks, i) /\ Exists(tasks, j)
    BY Zenon, <2>3 DEF OneRecordPerKey
  <2>4. ASSUME NEW k \in Ids, NEW l \in Ids, Submitted(k), Key[l] = Key[k],
               Key[k] # 0, Exists(tasks', l)
        PROVE  l = k
    BY Zenon, <2>4 DEF Submitted, KeyTaken, Exists
  <2> QED BY Zenon, <2>1, <2>2, <2>3, <2>4
<1> QED BY <1>1, <1>2, Invariance, PTL DEF Spec

-----------------------------------------------------------------------------
(* Dependencies.  Without purge and without a second Start in one process, *)
(* what a goroutine has found out about dependencies stays true.           *)

Doomed(st, id) ==
    \E i \in DOMAIN DependsOn[id] : st[DependsOn[id][i]].status \in {"failed", "canceled"}

DepsExist(st, id) == \A i \in DOMAIN DependsOn[id] : Exists(st, DependsOn[id][i])

\* What the goroutine p, a dispatcher or an API call, relies on.
Trusts(st, p) ==
    /\ p.pc \in {"walk", "failUnready", "reserve", "commit", "enqueue", "rollback",
                 "claimRead", "claimWrite", "unreserve"} =>
         \A id \in Listed(p.snap) : Exists(st, id)
    /\ p.pc \in {"reserve", "commit", "claimRead", "claimWrite"} => DepsReady(st, p.id)
    /\ p.pc = "failUnready" => Doomed(st, p.id)
    /\ p.pc = "create" => DepsExist(st, p.id)

\* A task that was handed out has a latest token.
LastExists ==
    \A id \in Ids : LET ks == {k \in 1..issued : grant[k].id = id}
                    IN  ks # {} => \E k \in ks : \A j \in ks : j <= k

GateInv ==
    /\ \A n \in Nodes : Trusts(tasks, disp[n])
    /\ \A c \in Callers : Trusts(tasks, call[c])
    /\ \A id \in Ids : Exists(tasks, id) => DepsExist(tasks, id)
    /\ DependencyGate
    /\ LastExists

Steady ==
    \A id \in Ids :
      /\ Exists(tasks, id) => Exists(tasks', id)
      /\ tasks[id].status = "success" => tasks'[id].status = "success"
      /\ tasks[id].status \in {"failed", "canceled"} =>
           tasks'[id].status \in {"failed", "canceled"}

\* Tasks neither disappear nor leave success or failure behind.
LEMMA Steadiness ==
    ASSUME "purge" \notin Ops, "restart" \notin Ops, Effects
    PROVE  Steady
<1> SUFFICES ASSUME NEW id \in Ids
             PROVE  /\ Exists(tasks, id) => Exists(tasks', id)
                    /\ tasks[id].status = "success" => tasks'[id].status = "success"
                    /\ tasks[id].status \in {"failed", "canceled"} =>
                         tasks'[id].status \in {"failed", "canceled"}
  BY DEF Steady
<1>1. Effect(id)
  BY Zenon DEF Effects
<1> QED BY <1>1 DEF Effect, HandedOut, Stays, Ended, Starved, Withdrawn, Submitted,
        Purged, Recovered, Waiting, Exists

\* What a goroutine relies on survives the steps of the others.
LEMMA TrustsKept ==
    ASSUME Steady, NEW p, Trusts(tasks, p),
           p.pc \in {"failUnready", "reserve", "commit", "claimRead", "claimWrite", "create"}
             => p.id \in Ids
    PROVE  Trusts(tasks', p)
<1>1. ASSUME NEW id \in Ids
      PROVE  /\ DepsReady(tasks, id) => DepsReady(tasks', id)
             /\ Doomed(tasks, id) => Doomed(tasks', id)
             /\ DepsExist(tasks, id) => DepsExist(tasks', id)
  <2>1. \A i \in DOMAIN DependsOn[id] : DependsOn[id][i] \in Ids
    BY TaskAssumption
  <2> QED BY Zenon, <2>1 DEF Steady, DepsReady, Doomed, DepsExist
<1>2. \A id \in Listed(p.snap) : Exists(tasks, id) => Exists(tasks', id)
  BY Zenon DEF Steady, Listed
<1> QED BY Zenon, <1>1, <1>2 DEF Trusts

\* A listing of due tasks lists tasks that exist.
LEMMA TrustsListing == \A id \in Listed(ListDue(tasks)) : Exists(tasks, id)
  BY DEF Listed, ListDue, Listing, Exists, NoTask

\* Looking at a candidate settles whether its dependencies have all succeeded or one
\* of them never will.
LEMMA TrustsConsider ==
    ASSUME NEW p, p \in LoopState \cup CallState, NEW id \in Ids,
           p.pc = "walk", id \in Listed(p.snap), Trusts(tasks, p),
           \A j \in Ids : Exists(tasks, j) => DepsExist(tasks, j)
    PROVE  Trusts(tasks, Consider(p, id))
<1> DEFINE snap == Without(p.snap, id)
           t == p.snap[id]
<1>1. Listed(snap) \subseteq Listed(p.snap)
  BY DEF Listed, Without, NoTask, LoopState, CallState, Snapshots
<1>2. \A j \in Listed(snap) : Exists(tasks, j)
  BY Zenon, <1>1 DEF Trusts
<1>3. DepsExist(tasks, id)
  BY Zenon DEF Trusts
<1>4. ASSUME DepsBroken(tasks, id) PROVE Doomed(tasks, id)
  BY <1>3, <1>4 DEF DepsBroken, Doomed, DepsExist, Exists
<1> HIDE DEF snap, t
<1>5. CASE DepsBroken(tasks, id)
  <2>1. Consider(p, id) =
          [p EXCEPT !.snap = snap, !.id = id, !.t = t, !.pc = "failUnready"]
    BY <1>5 DEF Consider, snap, t
  <2> QED BY Zenon, <1>2, <1>4, <1>5, <2>1 DEF Trusts, LoopState, CallState
<1>6. CASE ~DepsBroken(tasks, id) /\ DepsReady(tasks, id)
  <2>1. Consider(p, id) = [p EXCEPT !.snap = snap, !.id = id, !.t = t, !.pc = "reserve"]
    BY <1>6 DEF Consider, snap, t
  <2> QED BY Zenon, <1>2, <1>6, <2>1 DEF Trusts, LoopState, CallState
<1>7. CASE ~DepsBroken(tasks, id) /\ ~DepsReady(tasks, id)
  <2>1. Consider(p, id) = [p EXCEPT !.snap = snap]
    BY Zenon, <1>7 DEF Consider, snap
  <2> QED BY Zenon, <1>2, <2>1 DEF Trusts, LoopState, CallState
<1> QED BY Zenon, <1>5, <1>6, <1>7

\* A goroutine p that moves on to q with the listing, or the candidate, it had.
LEMMA TrustsMove ==
    ASSUME NEW p, NEW q, Trusts(tasks, p),
           \/ q.pc \notin {"walk", "failUnready", "reserve", "commit", "enqueue", "rollback",
                           "claimRead", "claimWrite", "unreserve", "create"}
           \/ /\ p.pc \in {"failUnready", "reserve", "commit", "enqueue", "rollback",
                           "claimRead", "claimWrite", "unreserve"}
              /\ q.pc \in {"walk", "enqueue", "rollback", "unreserve"} /\ q.snap = p.snap
           \/ /\ p.pc \in {"reserve", "claimRead"} /\ q.pc \in {"commit", "claimRead", "claimWrite"}
              /\ q.snap = p.snap /\ q.id = p.id
    PROVE  Trusts(tasks, q)
  BY Zenon DEF Trusts

\* The dispatcher relies on nothing it has not seen.
LEMMA TrustsDispatch ==
    ASSUME IInv, GateInv, NEW n \in Nodes, Dispatch(n)
    PROVE  Trusts(tasks, disp'[n])
<1> DEFINE d == disp[n]
<1>0. /\ disp \in [Nodes -> LoopState] /\ d \in LoopState /\ Trusts(tasks, d)
      /\ \A id \in Ids : Exists(tasks, id) => DepsExist(tasks, id)
  BY DEF IInv, LoopOK, GateInv
<1>1. CASE DispatchList(n)
  BY Zenon, <1>0, <1>1, TrustsListing DEF DispatchList, Trusts, LoopState
<1>2. ASSUME NEW id \in Ids, DispatchConsider(n, id) PROVE Trusts(tasks, disp'[n])
  BY Zenon, <1>0, <1>2, TrustsConsider DEF DispatchConsider
<1>3. CASE DispatchReserve(n)
  <2>1. disp'[n] \in {[d EXCEPT !.pc = "commit"], Back(d, "walk")} /\ d.pc = "reserve"
    BY <1>0, <1>3 DEF DispatchReserve
  <2> HIDE DEF d
  <2> QED BY Zenon, <1>0, <2>1, TrustsMove DEF Back, LoopState
<1>4. CASE DispatchCommit(n)
  <2>1. /\ d.pc = "commit"
        /\ \/ disp'[n] = [d EXCEPT !.pc = "unreserve"]
           \/ \E t : disp'[n] = [d EXCEPT !.pc = "enqueue", !.t = t]
    BY Zenon, <1>0, <1>4 DEF DispatchCommit
  <2> HIDE DEF d
  <2> QED BY Zenon, <1>0, <2>1, TrustsMove DEF LoopState
<1>5. CASE DispatchEnqueue(n)
  <2>1. disp'[n] \in {[d EXCEPT !.pc = "rollback"], Back(d, "walk")} /\ d.pc = "enqueue"
    BY <1>0, <1>5 DEF DispatchEnqueue
  <2> HIDE DEF d
  <2> QED BY Zenon, <1>0, <2>1, TrustsMove DEF Back, LoopState
<1>6. CASE DispatchFail(n) \/ DispatchRollback(n) \/ DispatchUnreserve(n)
  <2>1. /\ disp'[n] \in {[d EXCEPT !.pc = "unreserve"], Back(d, "walk")}
        /\ d.pc \in {"failUnready", "rollback", "unreserve"}
    BY Zenon, <1>0, <1>6 DEF DispatchFail, DispatchRollback, DispatchUnreserve
  <2> HIDE DEF d
  <2> QED BY Zenon, <1>0, <2>1, TrustsMove DEF Back, LoopState
<1>7. CASE Tick(n) \/ ReapWrite(n) \/ DispatchDone(n) \/ \E id \in Ids : ReapRelease(n, id)
  <2>1. disp'[n].pc \in {"idle", "reap", "reapWrite"}
    <3>1. CASE Tick(n)
      BY <1>0, <3>1 DEF Tick, LoopState
    <3>2. CASE ReapWrite(n)
      BY Zenon, <1>0, <3>2 DEF ReapWrite, Back, LoopState
    <3>3. CASE DispatchDone(n)
      BY SMTT(30), <1>0, <3>3 DEF DispatchDone, IdleLoop
    <3>4. ASSUME NEW id \in Ids, ReapRelease(n, id) PROVE disp'[n].pc = "reapWrite"
      BY Zenon, <1>0, <3>4 DEF ReapRelease, LoopState
    <3> QED BY SMTT(30), <1>7, <3>1, <3>2, <3>3, <3>4
  <2> QED BY Zenon, <1>0, <2>1, TrustsMove
<1> QED BY SMTT(30), <1>1, <1>2, <1>3, <1>4, <1>5, <1>6, <1>7 DEF Dispatch

\* Start and Stop leave the dispatcher with no candidates.
LEMMA TrustsStartStop ==
    ASSUME IInv, GateInv, NEW n \in Nodes, StartStop(n)
    PROVE  Trusts(tasks, disp'[n])
<1>0. disp \in [Nodes -> LoopState] /\ Trusts(tasks, disp[n])
  BY Zenon DEF IInv, LoopOK, GateInv
<1>1. disp'[n].pc \in {"idle", "requeue", "recover"} \/ disp'[n] = disp[n]
  <2>1. CASE Start(n) \/ Stop(n) \/ Stopped(n) \/ Restarted(n) \/ Crash(n)
    BY <1>0, <2>1 DEF Start, Stop, Stopped, Restarted, Crash, IdleLoop
  <2>2. CASE RequeueList(n)
    BY <1>0, <2>2 DEF RequeueList, LoopState
  <2>3. CASE Restart(n)
    BY <1>0, <2>3 DEF Restart, LoopState
  <2>4. ASSUME NEW id \in Ids, RequeueWrite(n, id) \/ RecoverWrite(n, id)
        PROVE  disp'[n].pc \in {"requeue", "recover"}
    BY Zenon, <1>0, <2>4 DEF RequeueWrite, RecoverWrite, LoopState
  <2> QED BY SMTT(30), <2>1, <2>2, <2>3, <2>4 DEF StartStop
<1> QED BY <1>0, <1>1, TrustsMove

\* Nor do the calls of the API.
LEMMA TrustsServe ==
    ASSUME IInv, GateInv, NEW c \in Callers, Serve(c)
    PROVE  Trusts(tasks, call'[c])
<1> DEFINE p == call[c]
<1>0. /\ call \in [Callers -> CallState] /\ p \in CallState /\ Trusts(tasks, p)
      /\ \A id \in Ids : Exists(tasks, id) => DepsExist(tasks, id)
  BY Zenon DEF IInv, CallOK, GateInv
<1>1. ASSUME NEW id \in Ids, ClaimConsider(c, id) PROVE Trusts(tasks, call'[c])
  BY <1>0, <1>1, TrustsConsider DEF ClaimConsider
<1>2. CASE ClaimReserve(c)
  <2>1. call'[c] \in {[p EXCEPT !.pc = "claimRead"], Back(p, "walk")} /\ p.pc = "reserve"
    BY <1>0, <1>2 DEF ClaimReserve
  <2> HIDE DEF p
  <2> QED BY Zenon, <1>0, <2>1, TrustsMove DEF Back, CallState
<1>3. CASE ClaimRead(c)
  <2>1. /\ p.pc = "claimRead"
        /\ \/ call'[c] = [p EXCEPT !.pc = "unreserve"]
           \/ \E t : call'[c] = [p EXCEPT !.pc = "claimWrite", !.t = t]
    BY Zenon, <1>0, <1>3 DEF ClaimRead
  <2> HIDE DEF p
  <2> QED BY Zenon, <1>0, <2>1, TrustsMove DEF CallState
<1>4. CASE ClaimWrite(c) \/ ClaimFail(c) \/ ClaimUnreserve(c)
  <2>1. /\ p.pc \in {"claimWrite", "failUnready", "unreserve"}
        /\ call'[c] \in {[p EXCEPT !.pc = "unreserve"], Back(p, "walk"), IdleCall}
    BY <1>0, <1>4 DEF ClaimWrite, ClaimFail, ClaimUnreserve
  <2> HIDE DEF p
  <2>2. CASE call'[c] = [p EXCEPT !.pc = "unreserve"]
    BY Zenon, <1>0, <2>1, <2>2, TrustsMove DEF CallState
  <2>3. CASE call'[c] = Back(p, "walk")
    BY Zenon, <1>0, <2>1, <2>3, TrustsMove DEF Back, CallState
  <2>4. CASE call'[c] = IdleCall
    BY <1>0, <2>4, TrustsMove DEF IdleCall
  <2> QED BY SMTT(30), <2>1, <2>2, <2>3, <2>4
<1>5. CASE SubmitDeps(c)
  <2>1. \/ call'[c] = IdleCall
        \/ call'[c] = [p EXCEPT !.pc = "create"] /\ DepsExist(tasks, p.id)
    BY Zenon, <1>0, <1>5 DEF SubmitDeps, DepsExist
  <2> HIDE DEF p
  <2> QED BY <1>0, <2>1, TrustsMove DEF IdleCall, CallState, Trusts
<1>6. CASE ClaimNone(c) \/ RenewWrite(c) \/ CompleteRelease(c) \/ CancelWrite(c)
           \/ PurgeDelete(c) \/ SubmitCreate(c)
  <2>1. call'[c] = IdleCall
    BY Zenon, <1>0, <1>6 DEF ClaimNone, RenewWrite, CompleteRelease, CancelWrite, PurgeDelete,
       SubmitCreate
  <2> QED BY <1>0, <2>1, TrustsMove DEF IdleCall
<1>7. CASE CompleteFinish(c) \/ CancelRelease(c) \/ SubmitCount(c)
  <2>1. call'[c].pc \in {"idle", "release", "cancelWrite", "submitDeps"}
    BY <1>0, <1>7 DEF CompleteFinish, CancelRelease, SubmitCount, IdleCall, CallState
  <2> QED BY <1>0, <2>1, TrustsMove
<1> QED BY Zenon, <1>1, <1>2, <1>3, <1>4, <1>5, <1>6, <1>7 DEF Serve, Claim

\* A call begins with a listing or with nothing to rely on.
LEMMA TrustsRequest ==
    ASSUME IInv, GateInv, NEW c \in Callers, NEW n \in Nodes, Request(c, n)
    PROVE  Trusts(tasks, call'[c])
<1>0. call \in [Callers -> CallState] /\ Trusts(tasks, call[c])
  BY DEF IInv, CallOK, GateInv
<1>1. ASSUME NEW w \in Workers, ClaimList(c, n, w) PROVE Trusts(tasks, call'[c])
  BY Zenon, <1>0, <1>1, TrustsListing DEF ClaimList, Begin, IdleCall, Trusts
<1>2. CASE call'[c].pc \in {"renew", "finish", "cancel", "purge", "submitCount"}
  BY <1>0, <1>2, TrustsMove
<1>3. ASSUME NEW w \in Workers, NEW k \in GrantedTo(w),
             RenewTaskLease(c, n, w, k) \/ CompleteTask(c, n, w, k)
      PROVE  call'[c].pc \in {"renew", "finish"}
  BY ZenonT(60), <1>0, <1>3 DEF RenewTaskLease, CompleteTask, Present, Begin, IdleCall
<1>4. ASSUME NEW id \in Ids, Cancel(c, n, id) \/ Purge(c, n, id) \/ Submit(c, n, id)
      PROVE  call'[c].pc \in {"cancel", "purge", "submitCount"}
  BY ZenonT(60), <1>0, <1>4 DEF Cancel, Purge, Submit, Begin, IdleCall
<1> QED BY Zenon, <1>1, <1>2, <1>3, <1>4 DEF Request

\* A token is issued for at most one task and is the latest.
LEMMA LastExistsStep ==
    ASSUME IInv, LastExists, Effects
    PROVE  LastExists'
<1> SUFFICES ASSUME NEW id \in Ids, NEW l \in 1..issued', grant'[l].id = id
             PROVE  \E k \in 1..issued' : /\ grant'[k].id = id
                                          /\ \A j \in 1..issued' : grant'[j].id = id => j <= k
  BY DEF LastExists
<1>0. issued \in Nat /\ Effect(id) /\ History
  BY TaskAssumption DEF IInv, GrantOK, Effects
<1>1. CASE HandedOut(id)
  BY <1>0, <1>1 DEF HandedOut
<1>2. CASE NotHandedOut(id)
  <2>1. \A j \in 1..issued' : grant'[j].id = id <=> j \in 1..issued /\ grant[j].id = id
    BY <1>0, <1>2 DEF NotHandedOut, History
  <2>2. \E k \in 1..issued : /\ grant[k].id = id
                             /\ \A j \in 1..issued : grant[j].id = id => j <= k
    BY <2>1 DEF LastExists
  <2>3. 1..issued \subseteq 1..issued'
    BY <1>0, <1>2 DEF NotHandedOut
  <2> QED BY Zenon, <2>1, <2>2, <2>3
<1> QED BY <1>0, <1>1, <1>2 DEF Effect

\* A task is handed out only when it is ready, and failed only when it is doomed.
LEMMA GateOpens ==
    ASSUME IInv, GateInv, NEW id \in Ids
    PROVE  /\ Committing(id) => DepsReady(tasks, id)
           /\ Exists(tasks, id) /\ Failing(id) => Doomed(tasks, id)
<1>1. Committing(id) => DepsReady(tasks, id)
  BY Zenon DEF GateInv, Trusts, Committing
<1>2. ASSUME Exists(tasks, id), DepsBroken(tasks, id) PROVE Doomed(tasks, id)
  BY Zenon, <1>2 DEF GateInv, DepsExist, DepsBroken, Doomed, Exists
<1> QED BY Zenon, <1>1, <1>2 DEF GateInv, Trusts, Failing

\* GateInv is preserved.
LEMMA GateStep ==
    ASSUME "purge" \notin Ops, "restart" \notin Ops, IInv, GateInv, [Next]_vars
    PROVE  GateInv'
<1>1. Effects /\ IInv' /\ Steady
  BY Zenon, EffectNext, NextIInv, Steadiness
<1>2. ASSUME NEW m \in Nodes PROVE Trusts(tasks', disp'[m])
  <2>1. Trusts(tasks, disp'[m])
    BY Movers, TrustsDispatch, TrustsStartStop DEF GateInv
  <2>2. LoopKnows(disp'[m], issued') /\ disp'[m] \in LoopState
    BY Zenon, <1>1 DEF IInv, LoopOK
  <2>3. disp'[m].pc \in {"failUnready", "reserve", "commit", "claimRead", "claimWrite", "create"}
             => disp'[m].id \in Ids
    BY Zenon, <2>2 DEF LoopKnows, LoopState, LoopPcs
  <2> QED BY Zenon, <1>1, <2>1, <2>3, TrustsKept
<1>3. ASSUME NEW c \in Callers PROVE Trusts(tasks', call'[c])
  <2>1. Trusts(tasks, call'[c])
    <3>1. Trusts(tasks, IdleCall)
      BY DEF Trusts, IdleCall
    <3> QED BY Zenon, <3>1, Movers, TrustsServe, TrustsRequest DEF GateInv
  <2>2. CallKnows(call'[c])
    BY <1>1 DEF IInv, CallOK
  <2> QED BY Zenon, <1>1, <2>1, <2>2, TrustsKept DEF CallKnows
<1>4. ASSUME NEW id \in Ids
      PROVE  /\ DepsReady(tasks, id) => DepsReady(tasks', id)
             /\ DepsExist(tasks, id) => DepsExist(tasks', id)
  <2>1. \A i \in DOMAIN DependsOn[id] : DependsOn[id][i] \in Ids
    BY TaskAssumption
  <2> QED BY <1>1, <2>1 DEF Steady, DepsReady, DepsExist
<1>5. ASSUME NEW id \in Ids, Exists(tasks', id) PROVE DepsExist(tasks', id)
  <2>1. Exists(tasks, id) \/ Creating(id)
    <3>1. Effect(id)
      BY Zenon, <1>1 DEF Effects
    <3> QED BY Zenon, <1>5, <3>1 DEF Effect, HandedOut, Stays, Ended, Starved, Withdrawn, Submitted,
            Purged, Recovered, Waiting, Exists
  <2>2. Creating(id) => DepsExist(tasks, id)
    BY Zenon DEF GateInv, Trusts, Creating
  <2> QED BY Zenon, <1>4, <2>1, <2>2 DEF GateInv
<1>6. ASSUME NEW id \in Ids, tasks'[id].status = "running" PROVE DepsReady(tasks', id)
  <2>1. tasks[id].status = "running" \/ Committing(id)
    <3>1. Effect(id)
      BY <1>1 DEF Effects
    <3> QED BY Zenon, <1>6, <3>1 DEF Effect, HandedOut, Stays, Ended, Starved, Withdrawn, Submitted,
            Purged, Recovered, Waiting
  <2>2. tasks[id].status = "running" => DepsReady(tasks, id)
    BY Zenon DEF GateInv, DependencyGate, DepsReady
  <2> QED BY Zenon, <1>4, <2>1, <2>2, GateOpens
<1>7. DependencyGate'
  BY <1>6 DEF DependencyGate, DepsReady
<1>8. LastExists'
  BY Zenon, <1>1, LastExistsStep DEF GateInv
<1> QED BY Zenon, <1>2, <1>3, <1>5, <1>7, <1>8 DEF GateInv

\* GateInv holds at first.
LEMMA GateInit == Init => GateInv
<1> SUFFICES ASSUME Init PROVE GateInv
  OBVIOUS
<1>1. Trusts(tasks, IdleLoop) /\ Trusts(tasks, IdleCall)
  BY DEF Trusts, IdleLoop, IdleCall
<1>2. \/ \A id \in Ids : tasks[id].status = "absent"
      \/ \A id \in Ids : tasks[id].status = "pending"
  BY DEF Init, Empty, NewTask, NoTask
<1>3. ASSUME NEW id \in Ids, Exists(tasks, id) PROVE DepsExist(tasks, id)
  <2>1. \A i \in DOMAIN DependsOn[id] : DependsOn[id][i] \in Ids
    BY TaskAssumption
  <2> QED BY <1>2, <1>3, <2>1 DEF Exists, DepsExist
<1>4. DependencyGate
  BY <1>2 DEF DependencyGate
<1>5. LastExists
  BY DEF Init, LastExists
<1> QED BY Zenon, <1>1, <1>3, <1>4, <1>5 DEF Init, GateInv

\* GateInv always holds where nothing is purged and no process starts twice.
LEMMA GateAlways ==
    ASSUME "purge" \notin Ops, "restart" \notin Ops
    PROVE  Spec => [](IInv /\ GateInv)
<1>1. Init => IInv /\ GateInv
  BY InitIInv, GateInit
<1>2. IInv /\ GateInv /\ [Next]_vars => IInv' /\ GateInv'
  BY NextIInv, GateStep
<1> QED BY <1>1, <1>2, PTL DEF Spec

\* A task never runs before what it depends on has succeeded, though dispatch and
\* Claim check the dependencies several steps before they write: success is final.
THEOREM DependenciesFirst ==
    ASSUME "purge" \notin Ops, "restart" \notin Ops
    PROVE  Spec => []DependencyGate
<1>1. GateInv => DependencyGate
  BY DEF GateInv
<1> QED BY <1>1, GateAlways, PTL

-----------------------------------------------------------------------------
(* The refinement.                                                         *)

Greatest(S) == IF S = {} THEN 0 ELSE CHOOSE k \in S : \A j \in S : j <= k
TokensOf(g, n, id) == {k \in 1..n : g[k].id = id}

\* The greatest member of a set of positive numbers that has one.
LEMMA GreatestIs ==
    ASSUME NEW n \in Nat, NEW S \in SUBSET (1..n),
           S # {} => \E k \in S : \A j \in S : j <= k
    PROVE  /\ Greatest(S) \in 0..n
           /\ \A j \in S : j <= Greatest(S)
<1>1. CASE S = {}
  BY <1>1 DEF Greatest
<1>2. CASE S # {}
  <2> DEFINE m == CHOOSE k \in S : \A j \in S : j <= k
  <2>1. m \in S /\ \A j \in S : j <= m
    <3>1. \E k : k \in S /\ \A j \in S : j <= k
      BY <1>2
    <3> QED BY <3>1, Zenon
  <2>2. Greatest(S) = m
    BY <1>2, Zenon DEF Greatest
  <2> HIDE DEF m
  <2> QED BY <2>1, <2>2
<1> QED BY <1>1, <1>2

\* LastToken in these terms, before and after a step.
LEMMA LastTokenIs ==
    ASSUME NEW id \in Ids
    PROVE  /\ LastToken(id) = Greatest(TokensOf(grant, issued, id))
           /\ LastToken(id)' = Greatest(TokensOf(grant', issued', id))
  BY Zenon DEF LastToken, Greatest, TokensOf

\* Initially the mapped variables are those of TaskLifecycle.
LEMMA LifecycleInit == Init => Abstract!Init
<1> SUFFICES ASSUME Init PROVE Abstract!Init
  OBVIOUS
<1>1. \A id \in Ids : tasks[id].status \in {"absent", "pending"}
  BY Zenon DEF Init, Empty, NewTask, NoTask
<1>2. ASSUME NEW id \in Ids PROVE LastToken(id) = 0
  <2>1. TokensOf(grant, issued, id) = {}
    BY DEF Init, TokensOf
  <2> QED BY Zenon, <2>1, LastTokenIs DEF Greatest
<1> QED BY <1>1, <1>2 DEF Abstract!Init

\* A step that hands id out makes its token the latest of all, any other step keeps
\* the latest token of id.
LEMMA LastTokenStep ==
    ASSUME issued \in Nat, History, LastExists, LastExists', NEW id \in Ids
    PROVE  /\ NotHandedOut(id) => LastToken(id)' = LastToken(id)
           /\ HandedOut(id) => /\ LastToken(id)' = issued'
                              /\ \A i \in Ids : LastToken(id)' > LastToken(i)
<1>1. ASSUME NotHandedOut(id) PROVE LastToken(id)' = LastToken(id)
  <2>1. TokensOf(grant', issued', id) = TokensOf(grant, issued, id)
    BY <1>1 DEF NotHandedOut, History, TokensOf
  <2> QED BY <2>1, LastTokenIs
<1>2. ASSUME HandedOut(id)
      PROVE  LastToken(id)' = issued' /\ \A i \in Ids : LastToken(id)' > LastToken(i)
  <2>1. ASSUME NEW i \in Ids PROVE LastToken(i) \in 0..issued
    <3> DEFINE S == TokensOf(grant, issued, i)
    <3>1. S \in SUBSET (1..issued) /\ (S # {} => \E k \in S : \A j \in S : j <= k)
      BY DEF LastExists, TokensOf
    <3> HIDE DEF S
    <3>2. Greatest(S) \in 0..issued
      BY Zenon, <3>1, GreatestIs
    <3> QED BY Zenon, <3>2, LastTokenIs DEF S
  <2>2. LastToken(id)' \in 0..issued' /\ issued' <= LastToken(id)'
    <3> DEFINE S == TokensOf(grant', issued', id)
    <3>1. issued' \in Nat /\ issued' = issued + 1 /\ issued' \in S
      BY <1>2 DEF HandedOut, TokensOf
    <3>2. S \in SUBSET (1..issued') /\ (S # {} => \E k \in S : \A j \in S : j <= k)
      BY DEF LastExists, TokensOf
    <3> HIDE DEF S
    <3>3. Greatest(S) \in 0..issued' /\ issued' <= Greatest(S)
      BY Zenon, <3>1, <3>2, GreatestIs
    <3> QED BY Zenon, <3>3, LastTokenIs DEF S
  <2>3. issued' = issued + 1
    BY <1>2 DEF HandedOut
  <2> QED BY <2>1, <2>2, <2>3
<1> QED BY Zenon, <1>1, <1>2

\* A step does to each task what one of the steps of TaskLifecycle does.
LEMMA LifecycleStep ==
    ASSUME IInv, GateInv, "purge" \notin Ops, "restart" \notin Ops, [Next]_vars
    PROVE  Abstract!Next
<1>0. Effects /\ IInv' /\ GateInv'
  BY Zenon, EffectNext, NextIInv, GateStep
<1>1. LastExists /\ LastExists' /\ issued \in Nat
  BY <1>0, TaskAssumption DEF GateInv, IInv, GrantOK
<1> SUFFICES ASSUME NEW id \in Ids
             PROVE  \/ Abstract!Submit(id) \/ Abstract!Grant(id) \/ Abstract!Settle(id)
                    \/ Abstract!Starve(id) \/ Abstract!Withdraw(id) \/ Abstract!Rest(id)
  BY DEF Abstract!Next
<1>2. \A d \in Ids : \A i \in DOMAIN DependsOn[d] : DependsOn[d][i] \in Ids
  BY TaskAssumption
<1>3. Abstract!Ready(id) <=> \A i \in DOMAIN DependsOn[id] :
                                tasks[DependsOn[id][i]].status = "success"
  BY Zenon, <1>2 DEF Abstract!Ready
<1>4. CASE HandedOut(id)
  <2>1. Abstract!Ready(id)
    BY Zenon, <1>3, <1>4, GateOpens DEF HandedOut, DepsReady
  <2>2. LastToken(id)' = issued' /\ \A i \in Ids : LastToken(id)' > LastToken(i)
    BY Zenon, <1>0, <1>1, <1>4, LastTokenStep DEF Effects
  <2> QED BY Zenon, <1>4, <2>1, <2>2 DEF HandedOut, Abstract!Grant, Abstract!Waiting, Waiting
<1>5. CASE ~HandedOut(id)
  <2>1. NotHandedOut(id) /\ LastToken(id)' = LastToken(id)
    BY Zenon, <1>0, <1>1, <1>5, LastTokenStep DEF Effects, Effect
  <2>2. Stays(id) \/ Ended(id) \/ Starved(id) \/ Withdrawn(id) \/ Submitted(id)
    BY Zenon, <1>0, <1>5 DEF Effects, Effect, Purged, Recovered
  <2>3. CASE Stays(id)
    BY Zenon, <2>1, <2>3 DEF Stays, Abstract!Rest, Abstract!SameLease
  <2>4. CASE Ended(id)
    BY Zenon, <2>1, <2>4 DEF Ended, Abstract!Settle, Abstract!Waiting, Waiting
  <2>5. CASE Starved(id)
    <3>1. ~Abstract!Ready(id)
      BY Zenon, <1>3, <2>5, GateOpens DEF Starved, Waiting, Exists, Doomed
    <3> QED BY Zenon, <2>1, <2>5, <3>1 DEF Starved, Abstract!Starve, Abstract!SameLease,
                                   Abstract!Waiting, Waiting
  <2>6. CASE Withdrawn(id)
    BY Zenon, <2>1, <2>6 DEF Withdrawn, Abstract!Withdraw, Abstract!SameLease, Abstract!Waiting, Waiting
  <2>7. CASE Submitted(id)
    BY Zenon, <2>1, <2>7 DEF Submitted, Exists, Abstract!Submit, Abstract!SameLease
  <2> QED BY Zenon, <2>2, <2>3, <2>4, <2>5, <2>6, <2>7
<1> QED BY <1>4, <1>5

\* Whatever races take place between listings, claims, completions, reaps and
\* cancellations, Scheduler implements TaskLifecycle.
THEOREM LifecycleRefined ==
    ASSUME "purge" \notin Ops, "restart" \notin Ops
    PROVE  Spec => FollowsLifecycle
<1>1. IInv /\ GateInv /\ [Next]_vars => Abstract!Next
  BY LifecycleStep
<1>2. Spec => Init /\ [][Next]_vars
  BY PTL DEF Spec
<1> QED BY <1>1, <1>2, LifecycleInit, GateAlways, PTL DEF FollowsLifecycle, Abstract!Spec

-----------------------------------------------------------------------------
(* Copies of counters.                                                     *)

\* The ends of a lease that finish reports, and those that count against the budget.
Reports == {"succeeded", "retried", "failed"}
Losses == {"retried", "failed"}

\* Two records count the same runs and attempts.
Same(t, u) == t.runs = u.runs /\ t.attempts = u.attempts

\* A copy that was made while the task ran counts what the record counts for as long
\* as it runs under the same token; a candidate of the dispatcher is still waiting.
Fresh(st, top, id, t) ==
    /\ t.token <= top
    /\ InState(st, id, "running", t.token) => Same(st[id], t)
Current(st, id, t) == st[id].status \in Waiting /\ Same(st[id], t)

LoopCounts(st, top, d) ==
    /\ d.pc \in {"reap", "reapWrite", "requeue"} =>
         \A id \in Listed(d.snap) : Fresh(st, top, id, d.snap[id])
    /\ d.pc \in {"walk", "failUnready", "reserve", "commit", "enqueue", "rollback",
                 "unreserve"} =>
         \A id \in Listed(d.snap) : Current(st, id, d.snap[id])
    /\ d.pc \in {"reapWrite", "enqueue", "rollback"} => Fresh(st, top, d.id, d.t)
    /\ d.pc \in {"failUnready", "reserve", "commit"} =>
         Current(st, d.id, d.t) /\ d.id \notin Listed(d.snap)

SlotCounts(st, top, gr, x) == x.pc = "finish" => Fresh(st, top, gr[x.token].id, x.t)

\* Nothing but submits is served.
OnlySubmits == \A c \in Callers :
    call[c].pc \in {"idle", "submitCount", "submitDeps", "create"}

CountInv ==
    /\ OneAlive /\ OnlyAlive /\ OnlySubmits
    /\ \A n \in Nodes : LoopCounts(tasks, issued, disp[n])
    /\ \A n \in Nodes, s \in Slots : SlotCounts(tasks, issued, grant, exec[n][s])

\* What the reports of the leases of a task say about its record.
Budgeted(id) ==
    LET r == Cardinality(EndedBy(id, Losses))
        t == tasks[id]
    IN  /\ r <= MaxAttempts[id]
        /\ t.status \in Waiting => r <= t.attempts /\ r < MaxAttempts[id]
        /\ t.status = "running" => r < t.attempts /\ r < MaxAttempts[id]
Tallied(id) ==
    /\ tasks[id].status = "absent" => EndedBy(id, Reports) = {}
    /\ Exists(tasks, id) => tasks[id].runs = Cardinality(EndedBy(id, Reports))
    /\ id \notin Periodic => Budgeted(id)

-----------------------------------------------------------------------------
(* What one step does to the counters of a record.                         *)

\* The ends of the leases of a task, but that of k, stay.
EndsKept(id, k) ==
    \A j \in 1..issued : grant[j].id = id /\ j # k => grant'[j].end = grant[j].end

Quiet(id) ==
    /\ Stays(id) /\ Same(tasks'[id], tasks[id]) /\ EndsKept(id, 0) /\ NotHandedOut(id)

Dispatched(id) ==
    /\ tasks[id].status \in Waiting /\ tasks'[id].status = "running"
    /\ tasks'[id].runs = tasks[id].runs /\ tasks'[id].attempts = tasks[id].attempts + 1
    /\ issued' = issued + 1 /\ tasks'[id].token = issued' /\ grant'[issued'].end = "open"
    /\ EndsKept(id, 0)
    /\ \E n \in Nodes : disp[n].pc = "commit" /\ disp[n].id = id /\ disp'[n].pc = "enqueue"

\* A lease may end with end when t is written.
GivenUp(id, t, end) ==
    /\ end \notin Reports \cup {"open"} /\ t.status \in Waiting
    /\ t.runs = tasks[id].runs
    /\ t.attempts \in {tasks[id].attempts, tasks[id].attempts - 1}
Reported(id, t, end) ==
    /\ t.runs = tasks[id].runs + 1
    /\ \E ok \in BOOLEAN : end = Verdict(id, tasks[id], ok)
    /\ end = "succeeded" => t.status = IF id \in Periodic THEN "pending" ELSE "success"
    /\ end = "retried" => t.status = "retrying" /\ t.attempts = tasks[id].attempts
    /\ end = "failed" => t.status = "failed"
Settled(id) ==
    LET k == tasks[id].token IN
    /\ tasks[id].status = "running" /\ NotHandedOut(id) /\ EndsKept(id, k)
    /\ \/ GivenUp(id, tasks'[id], grant'[k].end)
       \/ Reported(id, tasks'[id], grant'[k].end)

Failed(id) ==
    /\ tasks[id].status \in Waiting /\ tasks'[id].status = "failed"
    /\ Same(tasks'[id], tasks[id]) /\ EndsKept(id, 0) /\ NotHandedOut(id)
    /\ \E n \in Nodes : disp[n].pc = "failUnready" /\ disp[n].id = id /\ disp'[n].pc = "walk"

Entered(id) ==
    /\ tasks[id].status = "absent" /\ tasks'[id].status = "pending"
    /\ tasks'[id].runs = 0 /\ tasks'[id].attempts = 0
    /\ EndsKept(id, 0) /\ NotHandedOut(id)

Tally(id) ==
    Quiet(id) \/ Dispatched(id) \/ Settled(id) \/ Failed(id) \/ Entered(id)
Tallies == \A id \in Ids : Tally(id)

\* One process at a time owns the store, and nobody but its dispatcher writes copies
\* of waiting tasks.
Solo == ~SharedStore /\ Ops \cap {"claim", "renew", "cancel", "purge", "restart"} = {}

-----------------------------------------------------------------------------
(* Every step counts right.                                                *)

\* Neither the counters nor the leases change.
LEMMA TallyNone ==
    ASSUME UNCHANGED <<grant, issued>>,
           \A id \in Ids : Stays(id) /\ Same(tasks'[id], tasks[id])
    PROVE  Tallies
  BY Zenon DEF Tallies, Tally, Quiet, EndsKept, NotHandedOut

\* The store is not touched.
LEMMA TallyUnchanged ==
    ASSUME UNCHANGED <<tasks, grant, issued>>
    PROVE  Tallies
  BY TallyNone DEF Stays, Same

\* The end of a lease.
LEMMA TallySettle ==
    ASSUME StoreOK, GrantOK, LeaseIsFenced, UNCHANGED issued,
           NEW i \in Ids, NEW token, NEW t, NEW end, Settle(i, token, t, end),
           InState(tasks, i, "running", token) => GivenUp(i, t, end) \/ Reported(i, t, end)
    PROVE  Tallies
<1>1. CASE InState(tasks, i, "running", token)
  <2>1. /\ tasks' = [tasks EXCEPT ![i] = t]
        /\ grant' = [grant EXCEPT ![token].end = end]
        /\ tasks[i].status = "running" /\ tasks[i].token = token
    BY <1>1 DEF Settle, UpdateIfState, InState
  <2>2. token \in Tokens /\ grant[token].id = i
    BY <2>1, TaskAssumption DEF LeaseIsFenced, GrantOK, Tokens
  <2>3. /\ grant'[token].end = end
        /\ \A k \in Tokens : k # token => grant'[k] = grant[k]
    BY Zenon, <2>1, <2>2 DEF GrantOK
  <2>4. \A k \in 1..issued : k \in Tokens
    BY TaskAssumption DEF GrantOK, Tokens
  <2>5. tasks'[i] = t /\ \A id \in Ids : id # i => tasks'[id] = tasks[id]
    BY Zenon, <2>1 DEF StoreOK
  <2>6. Settled(i)
    BY ZenonT(60), <1>1, <2>1, <2>3, <2>4, <2>5 DEF Settled, NotHandedOut, EndsKept
  <2>7. ASSUME NEW id \in Ids, id # i PROVE Quiet(id)
    BY SMTT(30), <2>2, <2>3, <2>4, <2>5, <2>7 DEF Quiet, Stays, Same, EndsKept, NotHandedOut
  <2> QED BY <2>6, <2>7 DEF Tallies, Tally
<1>2. CASE ~InState(tasks, i, "running", token)
  BY <1>2, TallyUnchanged DEF Settle, UpdateIfState
<1> QED BY <1>1, <1>2

\* A copy that is fresh can be requeued and, with the attempt it counts, rolled back.
LEMMA RequeuedGivesUp ==
    ASSUME NEW i, NEW t \in Task, Same(tasks[i], t), NEW end,
           end \notin Reports \cup {"open"}
    PROVE  /\ GivenUp(i, Requeued(t), end)
           /\ GivenUp(i, RolledBack(t), end)
  BY Zenon DEF GivenUp, Requeued, RolledBack, Unleased, Task, Same, Waiting

\* finish counts the run and decides as Verdict does.
LEMMA FinishedReports ==
    ASSUME NEW i \in Ids, NEW t \in Task, Same(tasks[i], t), NEW ok \in BOOLEAN
    PROVE  Reported(i, Finished(i, t, ok), Verdict(i, t, ok))
<1>1. Verdict(i, t, ok) = Verdict(i, tasks[i], ok)
  BY Zenon DEF Verdict, Same
<1>2. Verdict(i, t, ok) \in Reports
  BY DEF Verdict, Reports
<1>3. /\ Finished(i, t, ok).runs = t.runs + 1
      /\ Verdict(i, t, ok) = "succeeded" =>
           Finished(i, t, ok).status = IF i \in Periodic THEN "pending" ELSE "success"
      /\ Verdict(i, t, ok) = "retried" => /\ Finished(i, t, ok).status = "retrying"
                                          /\ Finished(i, t, ok).attempts = t.attempts
      /\ Verdict(i, t, ok) = "failed" => Finished(i, t, ok).status = "failed"
  BY <1>2 DEF Finished, Unleased, Task, Reports
<1> QED BY Zenon, <1>1, <1>3 DEF Reported, Same

\* dispatch.
LEMMA TallyDispatch ==
    ASSUME IInv, NEW n \in Nodes, LoopCounts(tasks, issued, disp[n]), Dispatch(n)
    PROVE  Tallies
<1> DEFINE i == disp[n].id
           t == disp[n].t
<1>0. /\ disp[n] \in LoopState /\ LoopKnows(disp[n], issued)
      /\ StoreOK /\ GrantOK /\ LeaseIsFenced
  BY DEF IInv, LoopOK
<1>1. CASE ReapWrite(n)
  <2>1. i \in Ids /\ t \in Task /\ Fresh(tasks, issued, i, t)
    BY Zenon, <1>0, <1>1 DEF ReapWrite, LoopKnows, LoopState, LoopCounts
  <2>2. Settle(i, t.token, Requeued(t), "expired") /\ UNCHANGED issued
    BY <1>1 DEF ReapWrite
  <2> HIDE DEF i, t
  <2>3. InState(tasks, i, "running", t.token) => GivenUp(i, Requeued(t), "expired")
    BY Zenon, <2>1, RequeuedGivesUp DEF Fresh, Reports
  <2> QED BY SMTT(30), <1>0, <2>1, <2>2, <2>3, TallySettle
<1>2. CASE DispatchRollback(n)
  <2>1. i \in Ids /\ t \in Task /\ Fresh(tasks, issued, i, t)
    BY Zenon, <1>0, <1>2 DEF DispatchRollback, LoopKnows, LoopState, LoopCounts
  <2>2. Settle(i, t.token, RolledBack(t), "rolledback") /\ UNCHANGED issued
    BY <1>2 DEF DispatchRollback
  <2> HIDE DEF i, t
  <2>3. InState(tasks, i, "running", t.token) => GivenUp(i, RolledBack(t), "rolledback")
    BY Zenon, <2>1, RequeuedGivesUp DEF Fresh, Reports
  <2> QED BY SMTT(30), <1>0, <2>1, <2>2, <2>3, TallySettle
<1>3. CASE DispatchFail(n)
  <2>1. i \in Ids /\ t \in Task /\ Current(tasks, i, t) /\ t.status \in Waiting
    BY Zenon, <1>0, <1>3 DEF DispatchFail, LoopKnows, LoopState, LoopCounts
  <2>2. /\ disp[n].pc = "failUnready" /\ disp'[n].pc = "walk" /\ UNCHANGED <<grant, issued>>
        /\ tasks' = UpdateIfState(tasks, i, t.status, t.token, DepFailed(t))
    BY <1>0, <1>3 DEF DispatchFail, FailUnready, Back, LoopState, IInv, LoopOK
  <2>3. DepFailed(t).status = "failed" /\ Same(DepFailed(t), t)
    BY Zenon, <2>1 DEF DepFailed, Same, Task
  <2> HIDE DEF t
  <2>4. tasks'[i] = tasks[i] \/ tasks'[i] = DepFailed(t)
    BY Zenon, <1>0, <2>1, <2>2 DEF UpdateIfState, StoreOK
  <2>5. Quiet(i) \/ Failed(i)
    BY Zenon, <2>1, <2>2, <2>3, <2>4
       DEF Quiet, Failed, Stays, Same, Current, EndsKept, NotHandedOut, Waiting
  <2>6. ASSUME NEW id \in Ids, id # i PROVE Quiet(id)
    <3>1. tasks'[id] = tasks[id]
      BY <1>0, <2>2, <2>6 DEF UpdateIfState, StoreOK
    <3> QED BY Zenon, <2>2, <3>1 DEF Quiet, Stays, Same, EndsKept, NotHandedOut
  <2> QED BY Zenon, <2>5, <2>6 DEF Tallies, Tally
<1>4. CASE DispatchCommit(n)
  <2>1. i \in Ids /\ t \in Task /\ Current(tasks, i, t)
    BY <1>0, <1>4 DEF DispatchCommit, LoopKnows, LoopState, LoopCounts
  <2>2. CASE ~InState(tasks, i, t.status, t.token)
    BY SMTT(30), <1>4, <2>2, TallyUnchanged DEF DispatchCommit
  <2>3. CASE InState(tasks, i, t.status, t.token)
    <3>1. PICK w : Issue(i, t, w, n)
      BY Zenon, <1>4, <2>3 DEF DispatchCommit
    <3>2. disp[n].pc = "commit" /\ disp'[n].pc = "enqueue"
      BY ZenonT(60), <1>0, <1>4, <2>3 DEF DispatchCommit, LoopState, IInv, LoopOK
    <3> DEFINE k == issued + 1
               u == Granted(t, w, k)
    <3>3. k \in Tokens /\ issued \in Nat
      BY <1>0, <3>1, TaskAssumption DEF Issue, GrantOK, Tokens
    <3>4. /\ u.status = "running" /\ u.token = k
          /\ u.runs = t.runs /\ u.attempts = t.attempts + 1
      BY Zenon, <2>1 DEF Granted, Task
    <3>5. /\ tasks' = [tasks EXCEPT ![i] = u]
          /\ grant' = [grant EXCEPT ![k] = [id |-> i, holder |-> n, end |-> "open"]]
          /\ issued' = k
      BY Zenon, <3>1 DEF Issue
    <3> HIDE DEF u
    <3>6. tasks'[i] = u /\ \A id \in Ids : id # i => tasks'[id] = tasks[id]
      BY ZenonT(60), <1>0, <2>1, <3>5 DEF StoreOK
    <3>7. /\ grant'[k].end = "open" /\ grant'[k].id = i
          /\ \A j \in 1..issued : grant'[j] = grant[j]
      BY SMTT(30), <1>0, <3>3, <3>5, TaskAssumption DEF GrantOK, Tokens
    <3>8. Dispatched(i)
      BY Zenon, <2>1, <3>2, <3>4, <3>5, <3>6, <3>7 DEF Dispatched, Current, Same, EndsKept
    <3>9. ASSUME NEW id \in Ids, id # i PROVE Quiet(id)
      BY SMTT(30), <3>5, <3>6, <3>7, <3>9 DEF Quiet, Stays, Same, EndsKept, NotHandedOut
    <3> QED BY Zenon, <3>8, <3>9 DEF Tallies, Tally
  <2> QED BY Zenon, <2>2, <2>3
<1>5. CASE UNCHANGED <<tasks, grant, issued>>
  BY <1>5, TallyUnchanged
<1> QED BY Zenon, <1>1, <1>2, <1>3, <1>4, <1>5
        DEF Dispatch, Tick, DispatchList, DispatchReserve, DispatchEnqueue,
            DispatchUnreserve, DispatchDone, ReapRelease, DispatchConsider

\* execute.
LEMMA TallyExecute ==
    ASSUME IInv, NEW n \in Nodes, NEW s \in Slots,
           SlotCounts(tasks, issued, grant, exec[n][s]), Execute(n, s)
    PROVE  Tallies
<1>0. /\ exec[n][s] \in SlotState /\ SlotKnows(exec[n][s], issued)
      /\ StoreOK /\ GrantOK /\ LeaseIsFenced
  BY Zenon DEF IInv, SlotOK
<1>1. CASE ExecFinish(n, s)
  <2> DEFINE x == exec[n][s]
             i == grant[x.token].id
             t == x.t
             ok == x.ok
  <2>0. Fresh(tasks, issued, i, t)
    BY ZenonT(60), <1>1 DEF ExecFinish, SlotCounts
  <2>1. t \in Task /\ ok \in BOOLEAN /\ i \in Ids
    BY <1>0, <1>1 DEF ExecFinish, SlotKnows, SlotState, GrantOK
  <2>2. Settle(i, t.token, Finished(i, t, ok), Verdict(i, t, ok)) /\ UNCHANGED issued
    BY Zenon, <1>1 DEF ExecFinish
  <2> HIDE DEF i, t, ok
  <2>3. InState(tasks, i, "running", t.token) =>
          Reported(i, Finished(i, t, ok), Verdict(i, t, ok))
    BY Zenon, <2>0, <2>1, FinishedReports DEF Fresh
  <2> QED BY Zenon, <1>0, <2>1, <2>2, <2>3, TallySettle
<1>2. CASE UNCHANGED <<tasks, grant, issued>>
  BY Zenon, <1>2, TallyUnchanged
<1> QED BY Zenon, <1>1, <1>2
        DEF Execute, Take, ExecCheck, ExecBegin, ExecReturn, ExecRelease

\* Start makes every running task retryable, Stop those of its own workers.
LEMMA TallyStartStop ==
    ASSUME IInv, Solo, NEW n \in Nodes, LoopCounts(tasks, issued, disp[n]), StartStop(n)
    PROVE  Tallies
<1>0. /\ disp[n] \in LoopState /\ LoopKnows(disp[n], issued)
      /\ StoreOK /\ GrantOK /\ LeaseIsFenced /\ ~SharedStore /\ "restart" \notin Ops
      /\ \A id \in Ids : tasks[id] \in Task /\ disp[n].snap[id] \in Task
  BY DEF IInv, LoopOK, LoopState, Snapshots, StoreOK, Solo
<1>1. CASE Start(n)
  <2>1. UNCHANGED issued /\ tasks' = [id \in Ids |-> IF tasks[id].status = "running"
                                      THEN Requeued(tasks[id]) ELSE tasks[id]]
    BY <1>0, <1>1 DEF Start
  <2>2. grant' = [k \in Tokens |-> IF grant[k].end = "open"
                      THEN [grant[k] EXCEPT !.end = "recovered"] ELSE grant[k]]
    BY <1>0, <1>1 DEF Start
  <2>3. \A k \in 1..issued : /\ grant[k].end = "open" => grant'[k].end = "recovered"
                             /\ grant[k].end # "open" => grant'[k].end = grant[k].end
    BY <1>0, <2>2, TaskAssumption DEF GrantOK, Tokens
  <2>4. ASSUME NEW id \in Ids, tasks[id].status = "running" PROVE Settled(id)
    <3>1. /\ tasks[id].token \in 1..issued /\ grant[tasks[id].token].end = "open"
          /\ \A j \in 1..issued : grant[j].id = id /\ grant[j].end = "open"
                                    => j = tasks[id].token
      BY <1>0, <2>4 DEF LeaseIsFenced
    <3>2. GivenUp(id, tasks'[id], "recovered")
      <4>1. Same(tasks[id], tasks[id]) /\ tasks'[id] = Requeued(tasks[id])
        BY <2>1, <2>4 DEF Same
      <4>2. "recovered" \notin Reports \cup {"open"}
        BY Zenon DEF Reports
      <4> QED BY Zenon, <1>0, <4>1, <4>2, RequeuedGivesUp
    <3> QED BY ZenonT(60), <2>1, <2>3, <2>4, <3>1, <3>2 DEF Settled, NotHandedOut, EndsKept
  <2>5. ASSUME NEW id \in Ids, tasks[id].status # "running" PROVE Quiet(id)
    <3>1. tasks'[id] = tasks[id]
      BY Zenon, <2>1, <2>5
    <3>2. \A j \in 1..issued : grant[j].id = id => grant[j].end # "open"
      BY <1>0, <2>5 DEF LeaseIsFenced
    <3> QED BY SMTT(30), <2>1, <2>3, <3>1, <3>2 DEF Quiet, Stays, Same, EndsKept, NotHandedOut
  <2> QED BY Zenon, <2>4, <2>5 DEF Tallies, Tally
<1>2. ASSUME NEW id \in Ids, RequeueWrite(n, id) PROVE Tallies
  <2> DEFINE t == disp[n].snap[id]
  <2>1. t \in Task /\ Fresh(tasks, issued, id, t)
    BY <1>0, <1>2 DEF RequeueWrite, LoopCounts
  <2>2. Settle(id, t.token, Requeued(t), "requeued") /\ UNCHANGED issued
    BY <1>2 DEF RequeueWrite
  <2> HIDE DEF t
  <2>3. InState(tasks, id, "running", t.token) => GivenUp(id, Requeued(t), "requeued")
    BY Zenon, <2>1, RequeuedGivesUp DEF Fresh, Reports
  <2> QED BY Zenon, <1>0, <2>1, <2>2, <2>3, TallySettle
<1>3. ASSUME NEW id \in Ids, RecoverWrite(n, id) PROVE FALSE
  BY Zenon, <1>0, <1>3 DEF RecoverWrite, LoopKnows
<1>4. CASE UNCHANGED <<tasks, grant, issued>>
  BY Zenon, <1>4, TallyUnchanged
<1> QED BY SMTT(30), <1>1, <1>2, <1>3, <1>4
        DEF StartStop, Stop, RequeueList, Stopped, Restart, Restarted, Crash

\* Submits.
LEMMA TallyServe ==
    ASSUME IInv, OnlySubmits, NEW c \in Callers, Serve(c)
    PROVE  Tallies
<1>0. /\ call[c].pc \in {"idle", "submitCount", "submitDeps", "create"}
      /\ StoreOK /\ call[c] \in CallState /\ CallKnows(call[c])
  BY DEF OnlySubmits, IInv, CallOK
<1>1. SubmitCount(c) \/ SubmitDeps(c) \/ SubmitCreate(c)
  BY Zenon, <1>0 DEF Serve, Claim, ClaimFail, ClaimReserve, ClaimRead, ClaimWrite, ClaimUnreserve,
     ClaimNone, ClaimConsider, RenewWrite, CompleteFinish, CompleteRelease, CancelRelease,
     CancelWrite, PurgeDelete
<1>2. CASE SubmitCreate(c)
  <2>1. call[c].id \in Ids /\ UNCHANGED <<grant, issued>>
        /\ tasks' = Create(tasks, call[c].id, NewTask)
    BY Zenon, <1>0, <1>2 DEF SubmitCreate, CallKnows
  <2>2. ASSUME NEW id \in Ids, tasks'[id] # tasks[id] PROVE Entered(id)
    <3>1. tasks[id].status = "absent" /\ tasks'[id] = NewTask
      BY Zenon, <1>0, <2>1, <2>2 DEF Create, Exists, StoreOK
    <3> QED BY Zenon, <2>1, <3>1 DEF Entered, NewTask, NoTask, EndsKept, NotHandedOut
  <2>3. ASSUME NEW id \in Ids, tasks'[id] = tasks[id] PROVE Quiet(id)
    BY Zenon, <2>1, <2>3 DEF Quiet, Stays, Same, EndsKept, NotHandedOut
  <2> QED BY Zenon, <2>2, <2>3 DEF Tallies, Tally
<1> QED BY Zenon, <1>1, <1>2, TallyUnchanged DEF SubmitCount, SubmitDeps

\* Every step counts right.
LEMMA TallyNext ==
    ASSUME IInv, Solo, CountInv, [Next]_vars
    PROVE  Tallies
<1>0. StoreOK
  BY DEF IInv
<1>1. CASE UNCHANGED vars
  BY Zenon, <1>1, TallyUnchanged DEF vars
<1>2. ASSUME NEW n \in Nodes, Dispatch(n) PROVE Tallies
  BY Zenon, <1>2, TallyDispatch DEF CountInv
<1>3. ASSUME NEW n \in Nodes, NEW w, LocalHeartbeat(n) \/ Heartbeat(n, w) PROVE Tallies
  <2>1. ASSUME NEW v, tasks' = RenewWorkerTaskLeases(tasks, v), NEW id \in Ids
        PROVE  Stays(id) /\ Same(tasks'[id], tasks[id])
    BY Zenon, <1>0, <2>1 DEF Stays, Same, RenewWorkerTaskLeases, StoreOK, Task
  <2> QED BY SMTT(30), <1>3, <2>1, TallyNone DEF LocalHeartbeat, Heartbeat
<1>4. ASSUME NEW n \in Nodes, StartStop(n) PROVE Tallies
  BY Zenon, <1>4, TallyStartStop DEF CountInv
<1>5. ASSUME NEW n \in Nodes, NEW s \in Slots, Execute(n, s) PROVE Tallies
  BY <1>5, TallyExecute DEF CountInv
<1>6. ASSUME NEW n \in Nodes, NEW c \in Callers, Request(c, n) PROVE Tallies
  BY Zenon, <1>6, TallyUnchanged DEF Request, ClaimList, RenewTaskLease, CompleteTask, Present,
     Cancel, Purge, Submit
<1>7. ASSUME NEW n \in Nodes, NEW w, RegisterWorker(n, w) \/ WorkerLapses(n, w)
      PROVE  Tallies
  BY Zenon, <1>7, TallyUnchanged DEF RegisterWorker, WorkerLapses
<1>8. ASSUME NEW n \in Nodes, NEW w \in Workers, ClaimDue(n, w) PROVE FALSE
  BY Zenon, <1>8 DEF ClaimDue, Solo
<1>9. ASSUME NEW c \in Callers, Serve(c) PROVE Tallies
  BY Zenon, <1>9, TallyServe DEF CountInv
<1>10. ASSUME NEW i \in Ids, BecomesDue(i) \/ LeaseLapses(i) PROVE Tallies
  <2>1. ASSUME NEW id \in Ids PROVE Stays(id) /\ Same(tasks'[id], tasks[id])
    BY <1>0, <1>10 DEF BecomesDue, LeaseLapses, Stays, Same, StoreOK, Task
  <2> QED BY Zenon, <1>10, <2>1, TallyNone DEF BecomesDue, LeaseLapses
<1> QED BY Zenon, <1>1, <1>2, <1>3, <1>4, <1>5, <1>6, <1>7, <1>8, <1>9, <1>10 DEF Next

-----------------------------------------------------------------------------
(* The copies stay good.                                                   *)

\* Taking an id out of a listing leaves the others.
LEMMA WithoutIs ==
    ASSUME NEW snap \in Snapshots, NEW id \in Ids
    PROVE  /\ Listed(Without(snap, id)) = Listed(snap) \ {id}
           /\ \A j \in Listed(snap) \ {id} : Without(snap, id)[j] = snap[j]
  BY Zenon DEF Listed, Without, Snapshots, NoTask

\* Listings of running tasks are fresh.
LEMMA FreshListing ==
    ASSUME IInv, NEW S \in SUBSET {id \in Ids : tasks[id].status = "running"},
           NEW id \in Listed(Listing(tasks, S))
    PROVE  Fresh(tasks, issued, id, Listing(tasks, S)[id])
<1>1. id \in S /\ id \in Ids /\ Listing(tasks, S)[id] = tasks[id]
  BY Zenon DEF Listed, Listing, NoTask
<1>2. tasks[id].status = "running" /\ tasks[id].token <= issued
  <2>1. tasks[id].status = "running" /\ tasks[id].token \in 1..issued
    BY Zenon, <1>1 DEF IInv, LeaseIsFenced
  <2>2. issued \in Nat
    BY TaskAssumption DEF IInv, GrantOK
  <2> QED BY <2>1, <2>2
<1> QED BY Zenon, <1>1, <1>2 DEF Fresh, Same

\* A copy of a running record stays fresh: its counters change with its lease only.
LEMMA FreshKept ==
    ASSUME IInv, Tallies, NEW id \in Ids, NEW t \in Task, Fresh(tasks, issued, id, t)
    PROVE  Fresh(tasks', issued', id, t)
<1>0. issued \in Nat /\ t.token \in Nat /\ t.token <= issued
  BY SMTT(30), TaskAssumption DEF IInv, GrantOK, Task, Fresh
<1>1. CASE Quiet(id)
  BY SMTT(30), <1>0, <1>1 DEF Quiet, Stays, NotHandedOut, Fresh, InState, Same
<1>2. CASE Dispatched(id)
  BY SMTT(30), <1>0, <1>2 DEF Dispatched, Fresh, InState
<1>3. CASE Settled(id)
  <2>1. tasks'[id].status # "running"
    BY Zenon, <1>3 DEF Settled, GivenUp, Reported, Verdict, Waiting
  <2> QED BY <1>0, <1>3, <2>1 DEF Settled, NotHandedOut, Fresh, InState
<1>4. CASE Failed(id) \/ Entered(id)
  BY <1>0, <1>4 DEF Failed, Entered, NotHandedOut, Fresh, InState
<1> QED BY Zenon, <1>1, <1>2, <1>3, <1>4 DEF Tallies, Tally

\* A candidate of the dispatcher n stays current until n itself hands it out or fails
\* it: no other dispatcher is alive.
LEMMA CurrentKept ==
    ASSUME Solo, OneAlive, OnlyAlive, Tallies, NEW n \in Nodes, disp[n].pc # "idle",
           NEW id \in Ids, NEW t, Current(tasks, id, t),
           \/ disp[n].id # id
           \/ disp[n].pc = "commit" /\ disp'[n].pc # "enqueue"
           \/ disp[n].pc = "failUnready" /\ disp'[n].pc # "walk"
           \/ disp[n].pc \notin {"commit", "failUnready"}
    PROVE  Current(tasks', id, t)
<1>1. \A m \in Nodes : disp[m].pc # "idle" => m = n
  BY Zenon DEF OneAlive, OnlyAlive, Solo
<1>2. ~Dispatched(id) /\ ~Failed(id)
  BY Zenon, <1>1 DEF Dispatched, Failed
<1>3. ~Settled(id) /\ ~Entered(id)
  BY DEF Settled, Entered, Current, Waiting
<1>4. Quiet(id)
  BY Zenon, <1>2, <1>3 DEF Tallies, Tally
<1> QED BY Zenon, <1>4 DEF Quiet, Stays, Current, Same

\* While a dispatcher does nothing, or tells nothing new, its copies stay good.
LEMMA LoopKept ==
    ASSUME IInv, Solo, CountInv, Tallies, NEW n \in Nodes, disp'[n] = disp[n]
    PROVE  LoopCounts(tasks', issued', disp'[n])
<1> DEFINE d == disp[n]
<1>0. /\ LoopCounts(tasks, issued, d) /\ d \in LoopState /\ LoopKnows(d, issued)
      /\ OneAlive /\ OnlyAlive
  BY Zenon DEF CountInv, IInv, LoopOK
<1>1. d.snap \in Snapshots /\ d.t \in Task /\ \A id \in Listed(d.snap) : d.snap[id] \in Task
  BY Zenon, <1>0 DEF LoopState, Snapshots, Listed
<1>2. \A id \in Ids : d.pc # "idle" /\ Current(tasks, id, d.snap[id])
                        => Current(tasks', id, d.snap[id])
  BY Zenon, <1>0, CurrentKept
<1>3. d.pc # "idle" /\ d.id \in Ids /\ Current(tasks, d.id, d.t) => Current(tasks', d.id, d.t)
  BY Zenon, <1>0, CurrentKept
<1>4. \A id \in Listed(d.snap) : Fresh(tasks, issued, id, d.snap[id])
                                   => Fresh(tasks', issued', id, d.snap[id])
  BY Zenon, <1>1, FreshKept DEF Listed
<1>5. d.id \in Ids /\ Fresh(tasks, issued, d.id, d.t) => Fresh(tasks', issued', d.id, d.t)
  BY ZenonT(60), <1>1, FreshKept
<1> HIDE DEF d
<1>6. LoopCounts(tasks', issued', d)
  BY SMTT(30), <1>0, <1>2, <1>3, <1>4, <1>5 DEF LoopCounts, LoopKnows, Listed
<1> QED BY Zenon, <1>6 DEF d

\* The dispatcher's own steps.
LEMMA LoopDispatch ==
    ASSUME IInv, Solo, CountInv, Tallies, NEW n \in Nodes, Dispatch(n)
    PROVE  LoopCounts(tasks', issued', disp'[n])
<1> DEFINE d == disp[n]
           e == disp'[n]
           snap == d.snap
<1>0. /\ LoopCounts(tasks, issued, d) /\ d \in LoopState /\ LoopKnows(d, issued)
      /\ OneAlive /\ OnlyAlive /\ disp \in [Nodes -> LoopState]
      /\ tasks \in [Ids -> Task] /\ LeaseIsFenced /\ issued \in Nat
  BY TaskAssumption DEF CountInv, IInv, LoopOK, StoreOK, GrantOK
<1>1. /\ snap \in Snapshots /\ d.t \in Task
      /\ \A id \in Listed(snap) : snap[id] \in Task /\ id \in Ids
  BY Zenon, <1>0 DEF LoopState, Snapshots, Listed
<1>2. CASE Tick(n)
  <2>1. e.pc = "reap" /\ e.snap = ListExpired(tasks) /\ UNCHANGED <<tasks, issued>>
    BY Zenon, <1>0, <1>2 DEF Tick, LoopState
  <2>2. \A id \in Listed(ListExpired(tasks)) : Fresh(tasks, issued, id, ListExpired(tasks)[id])
    BY ZenonT(60), FreshListing DEF ListExpired
  <2> QED BY Zenon, <2>1, <2>2 DEF LoopCounts
<1>3. ASSUME NEW id \in Ids, ReapRelease(n, id) PROVE LoopCounts(tasks', issued', e)
  <2>1. /\ d.pc = "reap" /\ id \in Listed(snap) /\ UNCHANGED <<tasks, issued>>
        /\ e.pc = "reapWrite" /\ e.snap = Without(snap, id) /\ e.id = id /\ e.t = snap[id]
    BY Zenon, <1>0, <1>3 DEF ReapRelease, LoopState
  <2>2. \A j \in Listed(snap) : Fresh(tasks, issued, j, snap[j])
    BY Zenon, <1>0, <2>1 DEF LoopCounts
  <2>3. \A j \in Listed(e.snap) : j \in Listed(snap) /\ e.snap[j] = snap[j]
    BY <1>1, <2>1, WithoutIs
  <2> QED BY <2>1, <2>2, <2>3 DEF LoopCounts
<1>4. CASE ReapWrite(n)
  <2>1. d.pc = "reapWrite" /\ e.pc = "reap" /\ e.snap = snap
    BY Zenon, <1>0, <1>4 DEF ReapWrite, Back, LoopState
  <2>2. \A j \in Listed(snap) : Fresh(tasks', issued', j, snap[j])
    BY Zenon, <1>0, <1>1, <2>1, FreshKept DEF LoopCounts
  <2> QED BY Zenon, <2>1, <2>2 DEF LoopCounts
<1>5. CASE DispatchList(n)
  <2>1. e.pc = "walk" /\ e.snap = ListDue(tasks) /\ UNCHANGED <<tasks, issued>>
    BY Zenon, <1>0, <1>5 DEF DispatchList, LoopState
  <2>2. \A id \in Listed(ListDue(tasks)) : Current(tasks, id, ListDue(tasks)[id])
    BY Zenon, <1>0 DEF Listed, ListDue, Listing, NoTask, Current, Same, Claimable, Waiting
  <2> QED BY Zenon, <2>1, <2>2 DEF LoopCounts
<1>6. ASSUME NEW id \in Ids, DispatchConsider(n, id) PROVE LoopCounts(tasks', issued', e)
  <2>1. /\ d.pc = "walk" /\ id \in Listed(snap) /\ UNCHANGED <<tasks, issued>>
        /\ e = Consider(d, id)
    BY <1>0, <1>6 DEF DispatchConsider
  <2>2. /\ e.snap = Without(snap, id)
        /\ \/ e.pc \in {"failUnready", "reserve"} /\ e.id = id /\ e.t = snap[id]
           \/ e.pc = "walk"
    BY Zenon, <1>0, <2>1 DEF Consider, LoopState
  <2>3. \A j \in Listed(snap) : Current(tasks, j, snap[j])
    BY ZenonT(60), <1>0, <2>1 DEF LoopCounts
  <2>4. /\ \A j \in Listed(e.snap) : j \in Listed(snap) /\ e.snap[j] = snap[j]
        /\ id \notin Listed(e.snap)
    BY <1>1, <2>2, WithoutIs
  <2> QED BY Zenon, <2>1, <2>2, <2>3, <2>4 DEF LoopCounts
<1>7. CASE DispatchFail(n) \/ DispatchCommit(n)
  <2>0. d.pc \in {"failUnready", "commit"} /\ e.snap = snap
    <3>1. CASE DispatchFail(n)
      BY <1>0, <3>1 DEF DispatchFail, Back, LoopState
    <3>2. CASE DispatchCommit(n)
      BY ZenonT(60), <1>0, <3>2 DEF DispatchCommit, LoopState
    <3> QED BY Zenon, <1>7, <3>1, <3>2
  <2>1. /\ d.pc \in {"failUnready", "commit"} /\ e.snap = snap /\ d.id \notin Listed(snap)
        /\ \A j \in Listed(snap) : Current(tasks, j, snap[j])
    BY Zenon, <1>0, <2>0 DEF LoopCounts
  <2>2. \A j \in Listed(snap) : Current(tasks', j, snap[j])
    <3> SUFFICES ASSUME NEW j \in Listed(snap) PROVE Current(tasks', j, snap[j])
      OBVIOUS
    <3>1. j \in Ids /\ d.id # j /\ d.pc # "idle"
      BY ZenonT(60), <1>1, <2>1
    <3> QED BY Zenon, <1>0, <2>1, <3>1, CurrentKept
  <2>3. CASE DispatchFail(n)
    <3>1. e.pc = "walk"
      BY Zenon, <1>0, <2>3 DEF DispatchFail, Back, LoopState
    <3> QED BY <2>1, <2>2, <3>1 DEF LoopCounts
  <2>4. CASE DispatchCommit(n)
    <3>1. CASE e.pc = "unreserve"
      BY Zenon, <2>1, <2>2, <3>1 DEF LoopCounts
    <3>2. CASE e.pc # "unreserve"
      <4>1. PICK w : /\ Issue(d.id, d.t, w, n) /\ e.pc = "enqueue" /\ e.id = d.id
                     /\ e.t = Granted(d.t, w, issued + 1)
        BY SMTT(30), <1>0, <2>4, <3>2 DEF DispatchCommit, LoopState
      <4>2. d.id \in Ids /\ tasks'[d.id] = e.t /\ issued' = issued + 1
        BY Zenon, <1>0, <2>1, <4>1 DEF Issue, LoopKnows
      <4>3. e.t.token = issued + 1
        BY ZenonT(60), <1>1, <4>1 DEF Granted, Task
      <4>4. Fresh(tasks', issued', e.id, e.t)
        BY SMTT(30), <1>0, <4>1, <4>2, <4>3 DEF Fresh, Same
      <4> QED BY Zenon, <2>1, <2>2, <4>1, <4>4 DEF LoopCounts
    <3> QED BY Zenon, <3>1, <3>2
  <2> QED BY Zenon, <1>7, <2>3, <2>4
<1>8. CASE DispatchReserve(n) \/ DispatchEnqueue(n) \/ DispatchUnreserve(n)
  <2>1. /\ UNCHANGED <<tasks, issued>> /\ e.snap = snap
        /\ \/ d.pc = "reserve" /\ e.pc = "commit" /\ e.id = d.id /\ e.t = d.t
           \/ d.pc = "enqueue" /\ e.pc = "rollback" /\ e.id = d.id /\ e.t = d.t
           \/ d.pc \in {"reserve", "enqueue", "unreserve"} /\ e.pc = "walk"
    <3>1. CASE DispatchReserve(n)
      BY ZenonT(60), <1>0, <3>1 DEF DispatchReserve, Back, LoopState
    <3>2. CASE DispatchEnqueue(n)
      BY ZenonT(60), <1>0, <3>2 DEF DispatchEnqueue, Back, LoopState
    <3>3. CASE DispatchUnreserve(n)
      BY ZenonT(60), <1>0, <3>3 DEF DispatchUnreserve, Back, LoopState
    <3> QED BY SMTT(30), <1>8, <3>1, <3>2, <3>3
  <2> QED BY ZenonT(60), <1>0, <2>1 DEF LoopCounts
<1>9. CASE DispatchRollback(n)
  <2>1. d.pc = "rollback" /\ e.pc = "unreserve" /\ e.snap = snap
    BY Zenon, <1>0, <1>9 DEF DispatchRollback, LoopState
  <2>2. \A j \in Listed(snap) : Current(tasks', j, snap[j])
    BY Zenon, <1>0, <1>1, <2>1, CurrentKept DEF LoopCounts
  <2> QED BY <2>1, <2>2 DEF LoopCounts
<1>10. CASE DispatchDone(n)
  <2>1. e.pc = "idle"
    BY Zenon, <1>0, <1>10 DEF DispatchDone, IdleLoop
  <2> QED BY Zenon, <2>1 DEF LoopCounts
<1> QED BY SMTT(30), <1>2, <1>3, <1>4, <1>5, <1>6, <1>7, <1>8, <1>9, <1>10 DEF Dispatch

\* Start and Stop.
LEMMA LoopStartStop ==
    ASSUME IInv, Solo, CountInv, Tallies, NEW n \in Nodes, StartStop(n)
    PROVE  LoopCounts(tasks', issued', disp'[n])
<1> DEFINE d == disp[n]
           e == disp'[n]
<1>0. /\ LoopCounts(tasks, issued, d) /\ d \in LoopState /\ LoopKnows(d, issued)
      /\ disp \in [Nodes -> LoopState] /\ "restart" \notin Ops
      /\ tasks \in [Ids -> Task] /\ LeaseIsFenced /\ issued \in Nat
  BY TaskAssumption DEF CountInv, IInv, LoopOK, StoreOK, GrantOK, Solo
<1>1. /\ d.snap \in Snapshots
      /\ \A id \in Listed(d.snap) : d.snap[id] \in Task /\ id \in Ids
  BY Zenon, <1>0 DEF LoopState, Snapshots, Listed
<1>2. CASE Start(n) \/ Stop(n)
  BY Zenon, <1>2, LoopKept DEF Start, Stop
<1>3. CASE RequeueList(n)
  <2> DEFINE S == {id \in Ids : tasks[id].status = "running" /\ tasks[id].worker = n}
             own == Listing(tasks, S)
  <2>1. e.pc = "requeue" /\ e.snap = own /\ UNCHANGED <<tasks, issued>>
    BY Zenon, <1>0, <1>3 DEF RequeueList, LoopState
  <2>2. \A id \in Listed(own) : Fresh(tasks, issued, id, own[id])
    BY Zenon, FreshListing
  <2> HIDE DEF own
  <2> QED BY Zenon, <2>1, <2>2 DEF LoopCounts
<1>4. ASSUME NEW id \in Ids, RequeueWrite(n, id) PROVE LoopCounts(tasks', issued', e)
  <2>1. d.pc = "requeue" /\ e.pc = "requeue" /\ e.snap = Without(d.snap, id)
    BY Zenon, <1>0, <1>4 DEF RequeueWrite, LoopState
  <2>2. \A j \in Listed(d.snap) : Fresh(tasks', issued', j, d.snap[j])
    BY ZenonT(60), <1>0, <1>1, <2>1, FreshKept DEF LoopCounts
  <2>3. \A j \in Listed(e.snap) : j \in Listed(d.snap) /\ e.snap[j] = d.snap[j]
    BY SMTT(30), <1>1, <2>1, WithoutIs
  <2> QED BY Zenon, <2>1, <2>2, <2>3 DEF LoopCounts
<1>5. CASE Stopped(n) \/ Crash(n)
  <2>1. e.pc = "idle"
    BY <1>0, <1>5 DEF Stopped, Crash, IdleLoop
  <2> QED BY SMTT(30), <2>1 DEF LoopCounts
<1>6. ASSUME NEW id, Restart(n) \/ Restarted(n) \/ RecoverWrite(n, id) PROVE FALSE
  BY Zenon, <1>0, <1>6 DEF Restart, Restarted, RecoverWrite, LoopKnows
<1> QED BY SMTT(30), <1>2, <1>3, <1>4, <1>5, <1>6 DEF StartStop

\* The record that a goroutine is about to finish was read when its handler returned.
LEMMA FinishMoves ==
    ASSUME IInv, OnlySubmits, [Next]_vars, NEW m \in Nodes, NEW r \in Slots,
           exec'[m][r].pc = "finish"
    PROVE  /\ exec'[m][r].token = exec[m][r].token /\ exec[m][r].pc # "idle"
           /\ \/ exec[m][r].pc = "finish" /\ exec'[m][r].t = exec[m][r].t
              \/ /\ StillOurs(exec[m][r].token) /\ UNCHANGED <<tasks, grant, issued>>
                 /\ exec'[m][r].t = tasks[grant[exec[m][r].token].id]
<1> DEFINE x == exec[m][r]
           y == exec'[m][r]
           Keeps == y.pc = x.pc /\ y.token = x.token /\ y.t = x.t
<1>0. exec \in [Nodes -> [Slots -> SlotState]] /\ x \in SlotState
  BY DEF IInv, SlotOK
<1>1. ASSUME NEW n \in Nodes, NEW id, CancelRun(n, id) PROVE Keeps
  BY Zenon, <1>0, <1>1 DEF CancelRun, SlotState
<1>2. ASSUME NEW n \in Nodes, Dispatch(n) PROVE Keeps
  <2>1. ASSUME NEW id \in Ids, ReapRelease(n, id) PROVE Keeps
    BY SMTT(30), <1>1, <2>1 DEF ReapRelease
  <2>2. CASE UNCHANGED exec
    BY <2>2
  <2> QED BY Zenon, <1>2, <2>1, <2>2 DEF Dispatch, Tick, ReapWrite, DispatchList, DispatchFail,
          DispatchReserve, DispatchCommit, DispatchEnqueue, DispatchRollback, DispatchUnreserve,
          DispatchDone, DispatchConsider
<1>3. ASSUME NEW n \in Nodes, StartStop(n) PROVE Keeps
  <2>1. CASE Stop(n)
    <3>1. exec'[n] = [s \in Slots |-> [exec[n][s] EXCEPT !.aborted = exec[n][s].pc # "idle"]]
          /\ \A k \in Nodes : k # n => exec'[k] = exec[k]
      BY Zenon, <1>0, <2>1 DEF Stop
    <3> QED BY SMTT(30), <1>0, <3>1 DEF SlotState
  <2>2. CASE Crash(n)
    <3>1. m = n => y.pc = "idle"
      BY Zenon, <1>0, <2>2 DEF Crash, IdleSlot
    <3>2. m # n => y = x
      BY Zenon, <1>0, <2>2 DEF Crash
    <3> QED BY Zenon, <3>1, <3>2
  <2>3. CASE UNCHANGED exec
    BY <2>3
  <2> QED BY Zenon, <1>3, <2>1, <2>2, <2>3 DEF StartStop, Start, RequeueList, Stopped, Restart,
          Restarted, RequeueWrite, RecoverWrite
<1>4. ASSUME NEW n \in Nodes, NEW s \in Slots, Execute(n, s)
      PROVE  \/ Keeps
             \/ /\ x.pc = "handler" /\ y.token = x.token /\ StillOurs(x.token)
                /\ UNCHANGED <<tasks, grant, issued>> /\ y.t = tasks[grant[x.token].id]
  <2>1. n # m \/ s # r => y = x
    <3>1. CASE Take(n, s) \/ ExecRelease(n, s)
      BY SMTT(30), <1>0, <3>1 DEF Take, ExecRelease
    <3>2. CASE ExecCheck(n, s) \/ ExecBegin(n, s) \/ ExecFinish(n, s)
      BY <1>0, <3>2 DEF ExecCheck, ExecBegin, ExecFinish
    <3>3. CASE ExecReturn(n, s)
      <4>0. \/ exec' = [exec EXCEPT ![n][s].pc = "release"]
            \/ \E ok \in BOOLEAN :
                 exec' = [exec EXCEPT ![n][s].pc = "finish", ![n][s].ok = ok,
                                      ![n][s].t = tasks[grant[exec[n][s].token].id]]
        BY Zenon, <3>3 DEF ExecReturn
      <4>1. ASSUME NEW ok, NEW t,
                   exec' = [exec EXCEPT ![n][s].pc = "finish", ![n][s].ok = ok, ![n][s].t = t],
                   n # m \/ s # r
            PROVE  y = x
        BY <1>0, <4>1
      <4>2. ASSUME exec' = [exec EXCEPT ![n][s].pc = "release"], n # m \/ s # r PROVE y = x
        BY <1>0, <4>2
      <4> QED BY Zenon, <4>0, <4>1, <4>2
    <3> QED BY SMTT(30), <1>4, <3>1, <3>2, <3>3 DEF Execute
  <2>2. CASE n = m /\ s = r
    <3>1. CASE Take(m, r)
      <4>1. y.pc = "check"
        BY Zenon, <1>0, <3>1 DEF Take, IdleSlot
      <4> QED BY <4>1
    <3>2. CASE ExecRelease(m, r)
      <4>1. y.pc = "idle"
        BY Zenon, <1>0, <3>2 DEF ExecRelease, IdleSlot
      <4> QED BY Zenon, <4>1
    <3>3. CASE ExecCheck(m, r) \/ ExecBegin(m, r) \/ ExecFinish(m, r)
      <4>1. \E p \in {"begin", "drop", "handler", "release"} :
               exec' = [exec EXCEPT ![m][r].pc = p]
        BY Zenon, <3>3 DEF ExecCheck, ExecBegin, ExecFinish
      <4>2. y.pc # "finish"
        BY <1>0, <4>1 DEF SlotState
      <4> QED BY Zenon, <4>2
    <3>4. CASE ExecReturn(m, r)
      <4>0. /\ x.pc = "handler" /\ UNCHANGED <<tasks, grant, issued>>
            /\ \/ exec' = [exec EXCEPT ![m][r].pc = "release"]
               \/ /\ StillOurs(x.token)
                  /\ \E ok \in BOOLEAN :
                       exec' = [exec EXCEPT ![m][r].pc = "finish", ![m][r].ok = ok,
                                            ![m][r].t = tasks[grant[x.token].id]]
        BY Zenon, <3>4 DEF ExecReturn
      <4>1. ASSUME NEW ok, NEW t,
                   exec' = [exec EXCEPT ![m][r].pc = "finish", ![m][r].ok = ok, ![m][r].t = t]
            PROVE  y.token = x.token /\ y.t = t
        BY Zenon, <1>0, <4>1 DEF SlotState
      <4>2. ASSUME exec' = [exec EXCEPT ![m][r].pc = "release"] PROVE FALSE
        BY <1>0, <4>2 DEF SlotState
      <4>3. PICK ok \in BOOLEAN :
               exec' = [exec EXCEPT ![m][r].pc = "finish", ![m][r].ok = ok,
                                    ![m][r].t = tasks[grant[x.token].id]]
        BY Zenon, <4>0, <4>2
      <4>4. StillOurs(x.token)
        BY Zenon, <4>0, <4>2
      <4>5. y.token = x.token /\ y.t = tasks[grant[x.token].id]
        BY Zenon, <4>1, <4>3
      <4> QED BY Zenon, <4>0, <4>4, <4>5
    <3> QED BY Zenon, <1>4, <2>2, <3>1, <3>2, <3>3, <3>4 DEF Execute
  <2> QED BY ZenonT(60), <2>1, <2>2
<1>5. ASSUME NEW c \in Callers, Serve(c) PROVE Keeps
  <2>1. call[c].pc \in {"idle", "submitCount", "submitDeps", "create"}
    BY DEF OnlySubmits
  <2>2. UNCHANGED exec
    BY Zenon, <1>5, <2>1 DEF Serve, Claim, ClaimFail, ClaimReserve, ClaimRead, ClaimWrite,
       ClaimUnreserve, ClaimNone, ClaimConsider, RenewWrite, CompleteFinish, CompleteRelease,
       CancelRelease, CancelWrite, PurgeDelete, SubmitCount, SubmitDeps, SubmitCreate
  <2> QED BY <2>2
<1>6. CASE UNCHANGED exec
  BY Zenon, <1>6
<1> QED BY Zenon, <1>2, <1>3, <1>4, <1>5, <1>6, LocalMoves

\* The copies of the worker goroutines stay good.
LEMMA SlotCountsKept ==
    ASSUME IInv, CountInv, Effects, Tallies, [Next]_vars, NEW n \in Nodes, NEW s \in Slots
    PROVE  SlotCounts(tasks', issued', grant', exec'[n][s])
<1> DEFINE x == exec[n][s]
           i == grant[x.token].id
<1> SUFFICES ASSUME exec'[n][s].pc = "finish"
             PROVE  Fresh(tasks', issued', grant'[exec'[n][s].token].id, exec'[n][s].t)
  BY Zenon DEF SlotCounts
<1>0. OnlySubmits /\ SlotCounts(tasks, issued, grant, x) /\ issued \in Nat
  BY TaskAssumption DEF CountInv, IInv, GrantOK
<1>1. /\ exec'[n][s].token = x.token /\ x.pc # "idle"
      /\ \/ x.pc = "finish" /\ exec'[n][s].t = x.t
         \/ /\ StillOurs(x.token) /\ UNCHANGED <<tasks, grant, issued>>
            /\ exec'[n][s].t = tasks[i]
  BY Zenon, <1>0, FinishMoves
<1>2. x.token \in 1..issued /\ x \in SlotState /\ i \in Ids
  <2>1. x \in SlotState /\ SlotKnows(x, issued)
    BY ZenonT(60) DEF IInv, SlotOK
  <2>2. x.token \in 1..issued
    BY SMTT(30), <1>0, <1>1, <2>1, TaskAssumption DEF SlotKnows, SlotState
  <2> QED BY Zenon, <2>1, <2>2 DEF IInv, GrantOK
<1>3. grant'[x.token].id = i
  BY <1>2 DEF Effects, History
<1>4. CASE x.pc = "finish" /\ exec'[n][s].t = x.t
  <2>1. x.t \in Task /\ Fresh(tasks, issued, i, x.t)
    BY Zenon, <1>0, <1>2, <1>4 DEF SlotState, SlotCounts
  <2>2. Fresh(tasks', issued', i, x.t)
    BY Zenon, <1>2, <2>1, FreshKept
  <2> QED BY Zenon, <1>1, <1>3, <1>4, <2>2
<1>5. CASE /\ StillOurs(x.token) /\ UNCHANGED <<tasks, grant, issued>>
           /\ exec'[n][s].t = tasks[i]
  <2>0. tasks[i].token = x.token
    BY ZenonT(60), <1>5 DEF StillOurs, InState
  <2>1. tasks[i].token <= issued
    BY SMTT(30), <1>0, <1>2, <2>0
  <2> QED BY Zenon, <1>1, <1>3, <1>5, <2>1 DEF Fresh, Same
<1> QED BY Zenon, <1>1, <1>4, <1>5

\* No call but a submit comes in.
LEMMA OnlySubmitsStep ==
    ASSUME IInv, Solo, OnlySubmits, [Next]_vars
    PROVE  OnlySubmits'
<1>0. call \in [Callers -> CallState]
  BY DEF IInv, CallOK
<1>1. ASSUME NEW c \in Callers, NEW n \in Nodes, Request(c, n) PROVE call'[c].pc = "submitCount"
  <2>1. \E id \in Ids : Submit(c, n, id)
    BY Zenon, <1>1 DEF Request, ClaimList, RenewTaskLease, CompleteTask, Cancel, Purge, Solo
  <2> QED BY <1>0, <2>1 DEF Submit, Begin, IdleCall
<1>2. ASSUME NEW c \in Callers, Serve(c)
      PROVE  call'[c].pc \in {"idle", "submitDeps", "create"}
  <2>1. call[c].pc \in {"idle", "submitCount", "submitDeps", "create"}
    BY Zenon DEF OnlySubmits
  <2>2. SubmitCount(c) \/ SubmitDeps(c) \/ SubmitCreate(c)
    BY ZenonT(60), <1>2, <2>1 DEF Serve, Claim, ClaimFail, ClaimReserve, ClaimRead, ClaimWrite,
       ClaimUnreserve, ClaimNone, ClaimConsider, RenewWrite, CompleteFinish, CompleteRelease,
       CancelRelease, CancelWrite, PurgeDelete
  <2> QED BY <1>0, <2>2 DEF SubmitCount, SubmitDeps, SubmitCreate, IdleCall, CallState
<1>3. CASE \A c \in Callers : call'[c] \in {call[c], IdleCall}
  BY <1>3 DEF OnlySubmits, IdleCall
<1> QED BY SMTT(30), <1>1, <1>2, <1>3, Movers DEF OnlySubmits

\* CountInv is inductive, and with it every step counts right.
LEMMA CountStep ==
    ASSUME IInv, Solo, CountInv, [Next]_vars
    PROVE  CountInv' /\ Tallies /\ Effects
<1>1. Tallies /\ Effects
  BY Zenon, TallyNext, EffectNext
<1>2. OneAlive' /\ OnlyAlive'
  BY Zenon, AliveStep DEF CountInv
<1>3. OnlySubmits'
  BY Zenon, OnlySubmitsStep DEF CountInv
<1>4. ASSUME NEW n \in Nodes PROVE LoopCounts(tasks', issued', disp'[n])
  <2>1. Dispatch(n) \/ StartStop(n) \/ disp'[n] = disp[n]
    BY Movers
  <2> QED BY SMTT(30), <1>1, <2>1, LoopKept, LoopDispatch, LoopStartStop
<1>5. ASSUME NEW n \in Nodes, NEW s \in Slots
      PROVE  SlotCounts(tasks', issued', grant', exec'[n][s])
  BY Zenon, <1>1, SlotCountsKept
<1> QED BY Zenon, <1>1, <1>2, <1>3, <1>4, <1>5 DEF CountInv

=============================================================================
