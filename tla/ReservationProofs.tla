------------------------- MODULE ReservationProofs --------------------------
(***************************************************************************)
(* Scheduler.running, for every set of tasks, nodes, workers and callers:  *)
(* no reservation is left behind.                                          *)
(***************************************************************************)
EXTENDS StepProofs

(* Reservations.                                                           *)

AtLoop(n, id) ==
    disp[n].id = id /\ disp[n].pc \in {"commit", "enqueue", "rollback", "unreserve"}
Queued(n, id) == \E i \in DOMAIN queue[n] : grant[queue[n][i]].id = id
Busy(n, id) == \E s \in Slots : exec[n][s].pc # "idle" /\ grant[exec[n][s].token].id = id
InCall(n, id) ==
    \E c \in Callers : /\ call[c].node = n /\ call[c].id = id
                       /\ call[c].pc \in {"claimRead", "claimWrite", "unreserve", "release"}

\* The reservation is free or a goroutine of the node will free it.
Covered(n, id) ==
    running[n][id] = "free" \/ AtLoop(n, id) \/ Queued(n, id) \/ Busy(n, id) \/ InCall(n, id)

Lent(id) == tasks[id].status = "running" /\ grant[tasks[id].token].holder \in Workers

\* A lease that an external worker claimed does not carry a node's name.
LentNamed == \A id \in Ids : Lent(id) => tasks[id].worker \notin Nodes

\* The token that the dispatcher is queueing was issued for its candidate.
TokenFits ==
    \A n \in Nodes : disp[n].pc \in {"enqueue", "rollback"} =>
        grant[disp[n].t.token].id = disp[n].id

Issued(t) == t.token \in 1..issued

\* Copies of running records carry tokens that were issued, and what a stopping
\* node requeues was not lent.
CopiesIssued ==
    /\ \A n \in Nodes :
         /\ disp[n].pc \in {"reap", "reapWrite", "requeue"} =>
              \A id \in Listed(disp[n].snap) : Issued(disp[n].snap[id])
         /\ disp[n].pc = "reapWrite" => Issued(disp[n].t)
         /\ disp[n].pc = "requeue" => \A id \in Listed(disp[n].snap) :
              grant[disp[n].snap[id].token].holder \notin Workers
    /\ \A c \in Callers :
         call[c].pc \in {"cancel", "cancelWrite"} /\ call[c].t.status = "running"
            => Issued(call[c].t)

\* The reservation was dropped before the lease is ended: whatever was reserved
\* since has somebody to free it.
Dropped(id, t) == InState(tasks, id, "running", t.token) => \A n \in Nodes : Covered(n, id)
DroppedFirst ==
    /\ \A n \in Nodes : disp[n].pc = "reapWrite" => Dropped(disp[n].id, disp[n].t)
    /\ \A c \in Callers :
         call[c].pc = "cancelWrite" /\ call[c].t.status = "running"
            => Dropped(call[c].id, call[c].t)

Accounted == \A n \in Nodes, id \in Ids : Covered(n, id) \/ (~SharedStore /\ Lent(id))

ResInv == /\ OneAlive /\ OnlyAlive /\ LentNamed /\ TokenFits /\ CopiesIssued
          /\ DroppedFirst /\ Accounted

-----------------------------------------------------------------------------
(* Who can free a reservation.                                             *)

\* An external worker is given the task in this step.
Passed(id) == ~SharedStore /\ tasks[id].status \in Waiting /\ Lent(id)'

\* A covered reservation stays covered, or is passed on with the lease.
StaysCovered == \A n \in Nodes, id \in Ids : Covered(n, id) => Covered(n, id)' \/ Passed(id)

\* What is queued are tokens that were issued.
LEMMA QueueTokens ==
    ASSUME IInv, NEW n \in Nodes, NEW i \in DOMAIN queue[n]
    PROVE  queue[n][i] \in 1..issued
<1>1. queue[n] \in Seq(Tokens) /\ i \in 1..Len(queue[n]) /\ issued \in 0..MaxGrants
  BY DEF IInv, QueueOK, GrantOK
<1>2. queue[n][i] \in Tokens /\ queue[n][i] <= issued
  BY SMTT(30), <1>1 DEF IInv, QueueOK
<1> QED BY SMTT(30), <1>1, <1>2, TaskAssumption DEF Tokens

\* Queued tokens keep their task.
LEMMA QueuedKept ==
    ASSUME IInv, History, NEW n \in Nodes, NEW id \in Ids, queue'[n] = queue[n], Queued(n, id)
    PROVE  Queued(n, id)'
<1>1. PICK i \in DOMAIN queue[n] : grant[queue[n][i]].id = id
  BY DEF Queued
<1>2. queue[n][i] \in 1..issued
  BY <1>1, QueueTokens
<1> QED BY SMTT(30), <1>1, <1>2 DEF Queued, History

\* A busy worker goroutine keeps its task.
LEMMA BusyKept ==
    ASSUME IInv, History, NEW n \in Nodes, NEW id \in Ids, Busy(n, id),
           \A s \in Slots : exec[n][s].pc # "idle" =>
               exec'[n][s].pc # "idle" /\ exec'[n][s].token = exec[n][s].token
    PROVE  Busy(n, id)'
<1>1. PICK s \in Slots : exec[n][s].pc # "idle" /\ grant[exec[n][s].token].id = id
  BY DEF Busy
<1>2. exec[n][s].token \in 1..issued
  BY <1>1 DEF IInv, SlotOK, SlotKnows, SlotState
<1> QED BY <1>1, <1>2 DEF Busy, History

\* A step of one caller that held no reservation.
LEMMA InCallKept ==
    ASSUME NEW c \in Callers, \A e \in Callers : e # c => call'[e] = call[e],
           call[c].pc \notin {"claimRead", "claimWrite", "unreserve", "release"},
           NEW n \in Nodes, NEW id \in Ids, InCall(n, id)
    PROVE  InCall(n, id)'
  BY DEF InCall

\* The goroutines of a node that takes no part in a step.
LEMMA CoverElsewhere ==
    ASSUME IInv, History, NEW n \in Nodes, NEW id \in Ids, Covered(n, id),
           UNCHANGED <<running[n], queue[n], disp[n], exec[n]>>, InCall(n, id) => InCall(n, id)'
    PROVE  Covered(n, id)'
<1>1. AtLoop(n, id) => AtLoop(n, id)'
  BY DEF AtLoop
<1>2. Queued(n, id) => Queued(n, id)'
  BY QueuedKept
<1>3. Busy(n, id) => Busy(n, id)'
  BY SMTT(30), BusyKept
<1> QED BY <1>1, <1>2, <1>3 DEF Covered

\* CancelRun only raises a flag.
LEMMA CancelRunBusy ==
    ASSUME IInv, NEW n \in Nodes, NEW m \in Nodes, NEW id \in Ids, CancelRun(m, id)
    PROVE  \A s \in Slots : exec'[n][s].pc = exec[n][s].pc /\ exec'[n][s].token = exec[n][s].token
<1>1. exec \in [Nodes -> [Slots -> SlotState]]
  BY DEF IInv, SlotOK
<1> QED BY <1>1 DEF CancelRun, SlotState

\* The dispatcher drops the reservation, passes it on to the queue or keeps it.
LEMMA CoverDispatch ==
    ASSUME IInv, History, TokenFits, NEW n \in Nodes, Dispatch(n), NEW id \in Ids, Covered(n, id)
    PROVE  Covered(n, id)'
<1>0. /\ disp \in [Nodes -> LoopState] /\ disp[n] \in LoopState
      /\ running \in [Nodes -> [Ids -> {"free", "nil"} \cup Slots]]
      /\ queue \in [Nodes -> Seq(Tokens)] /\ LoopKnows(disp[n], issued)
  BY DEF IInv, LoopOK, NodeOK, QueueOK
<1>1. UNCHANGED call /\ (InCall(n, id) => InCall(n, id)')
  BY ZenonT(60) DEF Dispatch, Tick, ReapWrite, DispatchList, DispatchFail, DispatchReserve,
     DispatchCommit, DispatchEnqueue, DispatchRollback, DispatchUnreserve, DispatchDone,
     ReapRelease, DispatchConsider, InCall
<1>2. Busy(n, id) => Busy(n, id)'
  <2>1. CASE UNCHANGED exec
    BY Zenon, <2>1, BusyKept
  <2>2. ASSUME NEW i \in Ids, ReapRelease(n, i) PROVE Busy(n, id) => Busy(n, id)'
    BY <2>2, BusyKept, CancelRunBusy DEF ReapRelease
  <2> QED BY Zenon, <2>1, <2>2 DEF Dispatch, Tick, ReapWrite, DispatchList, DispatchFail,
          DispatchReserve, DispatchCommit, DispatchEnqueue, DispatchRollback,
          DispatchUnreserve, DispatchDone, DispatchConsider
<1>3. CASE DispatchEnqueue(n)
  <2>1. running' = running /\ disp[n].pc = "enqueue"
    BY <1>3 DEF DispatchEnqueue
  <2>2. CASE queue' = [queue EXCEPT ![n] = Append(queue[n], disp[n].t.token)]
    <3>1. ASSUME Queued(n, id) PROVE Queued(n, id)'
      <4>1. PICK i \in DOMAIN queue[n] : grant[queue[n][i]].id = id
        BY <3>1 DEF Queued
      <4>2. queue[n][i] \in 1..issued
        BY <4>1, QueueTokens
      <4>3. i \in DOMAIN queue'[n] /\ queue'[n][i] = queue[n][i]
        BY <1>0, <2>2, <4>1
      <4> QED BY <4>1, <4>2, <4>3 DEF Queued, History
    <3>2. ASSUME AtLoop(n, id) PROVE Queued(n, id)'
      <4>1. disp[n].t.token \in 1..issued /\ grant[disp[n].t.token].id = id
        <5>1. disp[n].t.token \in 0..MaxGrants /\ issued \in 0..MaxGrants
          BY <1>0 DEF LoopState, Task, IInv, GrantOK
        <5>2. disp[n].t.token > 0 /\ disp[n].t.token <= issued
          BY <1>0, <2>1 DEF LoopKnows
        <5>3. grant[disp[n].t.token].id = id
          BY <2>1, <3>2 DEF TokenFits, AtLoop
        <5> QED BY SMTT(30), <5>1, <5>2, <5>3, TaskAssumption
      <4>2. /\ Len(queue[n]) + 1 \in DOMAIN queue'[n]
            /\ queue'[n][Len(queue[n]) + 1] = disp[n].t.token
        BY SMTT(30), <1>0, <2>2
      <4> QED BY <4>1, <4>2 DEF Queued, History
    <3> QED BY SMTT(30), <1>1, <1>2, <2>1, <3>1, <3>2 DEF Covered
  <2>3. CASE UNCHANGED queue /\ disp' = [disp EXCEPT ![n].pc = "rollback"]
    <3>1. AtLoop(n, id) => AtLoop(n, id)'
      BY <1>0, <2>3 DEF AtLoop, LoopState
    <3>2. Queued(n, id) => Queued(n, id)'
      BY SMTT(30), <2>3, QueuedKept
    <3> QED BY SMTT(30), <1>1, <1>2, <2>1, <3>1, <3>2 DEF Covered
  <2> QED BY <1>3, <2>2, <2>3 DEF DispatchEnqueue
<1>4. ~DispatchEnqueue(n) => UNCHANGED queue
  BY Zenon DEF Dispatch, Tick, ReapWrite, DispatchList, DispatchFail, DispatchReserve,
     DispatchCommit, DispatchRollback, DispatchUnreserve, DispatchDone,
     ReapRelease, DispatchConsider
<1>5. UNCHANGED queue => (Queued(n, id) => Queued(n, id)')
  BY QueuedKept
<1>6. CASE DispatchReserve(n)
  <2>1. ~AtLoop(n, id)
    BY <1>6 DEF DispatchReserve, AtLoop
  <2>2. \/ running'[n][id] = running[n][id]
        \/ AtLoop(n, id)'
    BY <1>0, <1>6 DEF DispatchReserve, AtLoop, LoopState, LoopKnows
  <2> QED BY SMTT(30), <1>1, <1>2, <1>5, <1>6, <2>1, <2>2 DEF Covered, DispatchReserve
<1>7. CASE DispatchCommit(n) \/ DispatchRollback(n)
  <2>1. UNCHANGED <<running, queue>>
    BY SMTT(30), <1>7 DEF DispatchCommit, DispatchRollback
  <2>2. disp'[n].id = disp[n].id /\ disp'[n].pc \in {"enqueue", "unreserve"}
    BY <1>0, <1>7 DEF DispatchCommit, DispatchRollback, LoopState
  <2>3. AtLoop(n, id) => AtLoop(n, id)'
    BY <2>2 DEF AtLoop
  <2> QED BY SMTT(30), <1>1, <1>2, <1>5, <2>1, <2>3 DEF Covered
<1>8. CASE DispatchUnreserve(n)
  <2>1. \/ running'[n][id] = "free"
        \/ ~AtLoop(n, id) /\ running'[n][id] = running[n][id]
    BY <1>0, <1>8 DEF DispatchUnreserve, Unreserved, AtLoop
  <2> QED BY SMTT(30), <1>1, <1>2, <1>5, <1>8, <2>1 DEF Covered, DispatchUnreserve
<1>9. ASSUME ~AtLoop(n, id), running'[n][id] \in {running[n][id], "free"}, UNCHANGED queue
      PROVE  Covered(n, id)'
  BY SMTT(30), <1>1, <1>2, <1>5, <1>9 DEF Covered
<1>10. ASSUME NEW i \in Ids, ReapRelease(n, i) PROVE Covered(n, id)'
  <2>1. ~AtLoop(n, id) /\ running'[n][id] \in {running[n][id], "free"} /\ UNCHANGED queue
    BY <1>0, <1>10 DEF ReapRelease, Unreserved, AtLoop
  <2> QED BY <1>9, <2>1
<1>11. ASSUME \/ Tick(n) \/ ReapWrite(n) \/ DispatchList(n) \/ DispatchFail(n) \/ DispatchDone(n)
              \/ \E i \in Ids : DispatchConsider(n, i)
       PROVE  Covered(n, id)'
  <2>1. ~AtLoop(n, id) /\ UNCHANGED <<running, queue>>
    BY <1>11 DEF Tick, ReapWrite, DispatchList, DispatchFail, DispatchDone, DispatchConsider,
       AtLoop
  <2> QED BY <1>9, <2>1
<1> QED BY SMTT(30), <1>3, <1>6, <1>7, <1>8, <1>10, <1>11 DEF Dispatch

\* A worker goroutine takes the reservation over from the queue and drops it last.
LEMMA CoverExecute ==
    ASSUME IInv, History, NEW n \in Nodes, NEW s \in Slots, Execute(n, s),
           NEW id \in Ids, Covered(n, id)
    PROVE  Covered(n, id)'
<1>0. /\ exec \in [Nodes -> [Slots -> SlotState]] /\ exec[n][s] \in SlotState
      /\ running \in [Nodes -> [Ids -> {"free", "nil"} \cup Slots]]
      /\ queue \in [Nodes -> Seq(Tokens)]
  BY DEF IInv, SlotOK, NodeOK, QueueOK
<1>1. UNCHANGED <<call, disp>> /\ (InCall(n, id) => InCall(n, id)') /\ (AtLoop(n, id) => AtLoop(n, id)')
  BY Zenon DEF Execute, Take, ExecCheck, ExecBegin, ExecReturn, ExecFinish, ExecRelease, InCall, AtLoop
<1>2. UNCHANGED queue => (Queued(n, id) => Queued(n, id)')
  BY QueuedKept
<1>3. CASE Take(n, s)
  <2>1. /\ UNCHANGED running /\ queue[n] # <<>> /\ exec[n][s].pc = "idle"
        /\ queue'[n] = Tail(queue[n])
        /\ exec'[n][s].pc = "check" /\ exec'[n][s].token = Head(queue[n])
        /\ \A r \in Slots : r # s => exec'[n][r] = exec[n][r]
    BY <1>0, <1>3 DEF Take, IdleSlot
  <2>2. Busy(n, id) => Busy(n, id)'
    BY <2>1, BusyKept
  <2>3. ASSUME Queued(n, id) PROVE Queued(n, id)' \/ Busy(n, id)'
    <3>1. PICK i \in DOMAIN queue[n] : grant[queue[n][i]].id = id
      BY <2>3 DEF Queued
    <3>2. queue[n][i] \in 1..issued /\ grant'[queue[n][i]].id = id
      BY SMTT(30), <3>1, QueueTokens DEF History
    <3>3. CASE i = 1
      <4>1. Head(queue[n]) = queue[n][i]
        BY <1>0, <2>1, <3>3
      <4> QED BY SMTT(30), <2>1, <3>2, <4>1 DEF Busy
    <3>4. CASE i # 1
      <4>1. i - 1 \in DOMAIN queue'[n] /\ queue'[n][i - 1] = queue[n][i]
        BY SMTT(30), <1>0, <2>1, <3>1, <3>4
      <4> QED BY Zenon, <3>2, <4>1 DEF Queued
    <3> QED BY <3>3, <3>4
  <2> QED BY <1>1, <2>1, <2>2, <2>3 DEF Covered
<1>4. CASE ExecRelease(n, s)
  <2>1. /\ UNCHANGED queue /\ exec[n][s].pc # "idle"
        /\ running' = [running EXCEPT ![n][grant[exec[n][s].token].id] = "free"]
        /\ \A r \in Slots : r # s => exec'[n][r] = exec[n][r]
    BY <1>0, <1>4 DEF ExecRelease, Unreserved
  <2>2. CASE id = grant[exec[n][s].token].id
    BY ZenonT(60), <1>0, <2>1, <2>2 DEF Covered
  <2>3. CASE id # grant[exec[n][s].token].id
    <3>1. running'[n][id] = running[n][id]
      BY ZenonT(60), <1>0, <2>1, <2>3
    <3>2. ASSUME Busy(n, id) PROVE Busy(n, id)'
      <4>1. PICK r \in Slots : exec[n][r].pc # "idle" /\ grant[exec[n][r].token].id = id
        BY <3>2 DEF Busy
      <4>2. exec[n][r].token \in 1..issued
        BY <4>1 DEF IInv, SlotOK, SlotKnows, SlotState
      <4> QED BY SMTT(30), <2>1, <2>3, <4>1, <4>2 DEF Busy, History
    <3> QED BY <1>1, <1>2, <2>1, <3>1, <3>2 DEF Covered
  <2> QED BY SMTT(30), <2>2, <2>3
<1>5. CASE ExecBegin(n, s)
  <2>1. /\ UNCHANGED queue /\ exec[n][s].pc # "idle" /\ exec'[n][s].pc # "idle"
        /\ running' = [running EXCEPT ![n][grant[exec[n][s].token].id] = s]
        /\ \A r \in Slots : /\ exec[n][r].pc # "idle" => exec'[n][r].pc # "idle"
                            /\ exec'[n][r].token = exec[n][r].token
    BY SMTT(30), <1>0, <1>5 DEF ExecBegin, SlotState
  <2>2. Busy(n, id) => Busy(n, id)'
    BY SMTT(30), <2>1, BusyKept
  <2>3. Busy(n, id) \/ running'[n][id] = running[n][id]
    BY <1>0, <2>1 DEF Busy
  <2> QED BY Zenon, <1>1, <1>2, <2>1, <2>2, <2>3 DEF Covered
<1>6. CASE ExecCheck(n, s) \/ ExecReturn(n, s) \/ ExecFinish(n, s)
  <2>1. /\ UNCHANGED <<queue, running>>
        /\ \A r \in Slots : /\ exec[n][r].pc # "idle" => exec'[n][r].pc # "idle"
                            /\ exec'[n][r].token = exec[n][r].token
    <3>1. ExecCheck(n, s) => <2>1!2
      BY <1>0 DEF ExecCheck, SlotState
    <3>2. ASSUME ExecReturn(n, s) PROVE <2>1!2
      <4>1. exec[n][s].pc # "idle"
        BY Zenon, <3>2 DEF ExecReturn
      <4>2. ASSUME NEW ok, NEW t,
                   exec' = [exec EXCEPT ![n][s].pc = "finish", ![n][s].ok = ok, ![n][s].t = t]
            PROVE  <2>1!2
        BY <1>0, <4>1, <4>2 DEF SlotState
      <4>3. ASSUME exec' = [exec EXCEPT ![n][s].pc = "release"] PROVE <2>1!2
        BY SMTT(30), <1>0, <4>1, <4>3 DEF SlotState
      <4> QED BY Zenon, <3>2, <4>2, <4>3 DEF ExecReturn
    <3>3. ExecFinish(n, s) => <2>1!2
      BY <1>0 DEF ExecFinish, SlotState
    <3>4. UNCHANGED <<queue, running>>
      BY Zenon, <1>6 DEF ExecCheck, ExecReturn, ExecFinish
    <3> QED BY SMTT(30), <1>6, <3>1, <3>2, <3>3, <3>4
  <2>2. Busy(n, id) => Busy(n, id)'
    BY <2>1, BusyKept
  <2> QED BY SMTT(30), <1>1, <1>2, <2>1, <2>2 DEF Covered
<1> QED BY SMTT(30), <1>3, <1>4, <1>5, <1>6 DEF Execute

\* A crash takes reservations and goroutines away together.
LEMMA CoverStartStop ==
    ASSUME IInv, History, "restart" \notin Ops, NEW n \in Nodes, StartStop(n), Elsewhere(n),
           NEW m \in Nodes, NEW id \in Ids, Covered(m, id)
    PROVE  Covered(m, id)'
<1>0. /\ disp \in [Nodes -> LoopState] /\ exec \in [Nodes -> [Slots -> SlotState]]
      /\ running \in [Nodes -> [Ids -> {"free", "nil"} \cup Slots]] /\ LoopKnows(disp[n], issued)
  BY DEF IInv, LoopOK, SlotOK, NodeOK
<1>1. CASE Crash(n)
  <2>1. m = n => running'[m][id] = "free"
    BY <1>0, <1>1 DEF Crash
  <2>2. ASSUME m # n, InCall(m, id) PROVE InCall(m, id)'
    <3>1. \A c \in Callers : call[c].node = m => call'[c] = call[c]
      BY SMTT(30), <1>1, <2>2 DEF Crash
    <3> QED BY <2>2, <3>1 DEF InCall
  <2> QED BY SMTT(30), <2>1, <2>2, CoverElsewhere DEF Covered, Elsewhere
<1>2. CASE ~Crash(n)
  <2>1. UNCHANGED <<call, running, queue>>
    BY Zenon, <1>2 DEF StartStop, Start, Stop, RequeueList, Stopped, Restart, Restarted, RequeueWrite,
       RecoverWrite
  <2>2. InCall(m, id) => InCall(m, id)'
    BY <2>1 DEF InCall
  <2>3. AtLoop(m, id) => AtLoop(m, id)'
    <3>1. CASE m # n
      BY <3>1 DEF AtLoop, Elsewhere
    <3>2. CASE Start(n) \/ Stop(n)
      BY <3>2 DEF Start, Stop, AtLoop
    <3>3. CASE disp[n].pc \in {"idle", "requeue", "recover"} /\ m = n
      BY <3>3 DEF AtLoop
    <3> QED BY Zenon, <1>2, <3>1, <3>2, <3>3 DEF StartStop, RequeueList, Stopped, Restart, Restarted,
            RequeueWrite, RecoverWrite
  <2>4. Queued(m, id) => Queued(m, id)'
    BY <2>1, QueuedKept
  <2>5. Busy(m, id) => Busy(m, id)'
    <3>1. CASE Stop(n)
      <4>1. \A s \in Slots : /\ exec[m][s].pc # "idle" => exec'[m][s].pc # "idle"
                            /\ exec'[m][s].token = exec[m][s].token
        BY <1>0, <3>1 DEF Stop, SlotState
      <4> QED BY <4>1, BusyKept
    <3>2. CASE ~Stop(n)
      <4>1. UNCHANGED exec
        BY Zenon, <1>2, <3>2 DEF StartStop, Start, RequeueList, Stopped, Restart, Restarted,
           RequeueWrite, RecoverWrite
      <4> QED BY <4>1, BusyKept
    <3> QED BY <3>1, <3>2
  <2> QED BY SMTT(30), <2>1, <2>2, <2>3, <2>4, <2>5 DEF Covered
<1> QED BY <1>1, <1>2

\* A call drops its reservation, keeps it, or passes it on with the lease.
LEMMA CoverServe ==
    ASSUME IInv, History, NEW c \in Callers, Serve(c), Elsewhere(call[c].node),
           UNCHANGED <<queue, disp>>, \A e \in Callers : e # c => call'[e] = call[e],
           NEW n \in Nodes, NEW id \in Ids, Covered(n, id)
    PROVE  Covered(n, id)' \/ Passed(id)
<1>0. /\ call \in [Callers -> CallState] /\ call[c] \in CallState /\ CallKnows(call[c])
      /\ running \in [Nodes -> [Ids -> {"free", "nil"} \cup Slots]]
  BY DEF IInv, CallOK, NodeOK
<1>1. /\ AtLoop(n, id) => AtLoop(n, id)'
      /\ Queued(n, id) => Queued(n, id)'
  BY QueuedKept DEF AtLoop
<1>2. Busy(n, id) => Busy(n, id)'
  <2>1. CASE UNCHANGED exec
    BY SMTT(30), <2>1, BusyKept
  <2>2. CASE CancelRelease(c)
    <3>1. call[c].node \in Nodes /\ call[c].id \in Ids /\ CancelRun(call[c].node, call[c].id)
      BY SMTT(30), <1>0, <2>2 DEF CancelRelease, CallKnows
    <3> QED BY SMTT(30), <3>1, BusyKept, CancelRunBusy
  <2> QED BY ZenonT(60), <2>1, <2>2 DEF Serve, Claim, ClaimFail, ClaimReserve, ClaimRead, ClaimWrite,
          ClaimUnreserve, ClaimNone, ClaimConsider, RenewWrite, CompleteFinish, CompleteRelease,
          CancelWrite, PurgeDelete, SubmitCount, SubmitDeps, SubmitCreate
<1>3. CASE ClaimReserve(c)
  <2>1. InCall(n, id) => InCall(n, id)'
    BY <1>3, InCallKept DEF ClaimReserve
  <2>2. running'[n][id] = running[n][id] \/ InCall(n, id)'
    BY <1>0, <1>3 DEF ClaimReserve, InCall, CallKnows, CallState
  <2> QED BY SMTT(30), <1>1, <1>2, <2>1, <2>2 DEF Covered
<1>4. CASE ClaimUnreserve(c) \/ CompleteRelease(c)
  <2>1. running' = [running EXCEPT ![call[c].node][call[c].id] = "free"]
    BY <1>4 DEF ClaimUnreserve, CompleteRelease, Unreserved
  <2>2. CASE call[c].node = n /\ call[c].id = id
    BY Zenon, <1>0, <2>1, <2>2 DEF Covered
  <2>3. CASE ~(call[c].node = n /\ call[c].id = id)
    <3>1. InCall(n, id) => InCall(n, id)'
      BY <2>3 DEF InCall
    <3>2. running'[n][id] = running[n][id]
      BY SMTT(30), <1>0, <2>1, <2>3
    <3> QED BY SMTT(30), <1>1, <1>2, <3>1, <3>2 DEF Covered
  <2> QED BY Zenon, <2>2, <2>3
<1>5. CASE CancelRelease(c)
  <2>1. InCall(n, id) => InCall(n, id)'
    BY <1>5, InCallKept DEF CancelRelease
  <2>2. running'[n][id] \in {"free", running[n][id]}
    BY <1>0, <1>5 DEF CancelRelease, Unreserved
  <2> QED BY SMTT(30), <1>1, <1>2, <2>1, <2>2 DEF Covered
<1>6. CASE ClaimRead(c)
  <2>1. InCall(n, id) => InCall(n, id)'
    <3>1. /\ call'[c].node = call[c].node /\ call'[c].id = call[c].id
          /\ call'[c].pc \in {"claimWrite", "unreserve"}
      BY SMTT(30), <1>0, <1>6 DEF ClaimRead, CallState
    <3> QED BY <3>1 DEF InCall
  <2> QED BY Zenon, <1>1, <1>2, <1>6, <2>1 DEF Covered, ClaimRead
<1>7. CASE ClaimWrite(c)
  <2>1. UNCHANGED running
    BY Zenon, <1>7 DEF ClaimWrite
  <2>2. CASE ~InState(tasks, call[c].id, call[c].t.status, call[c].t.token)
    <3>1. /\ call'[c].node = call[c].node /\ call'[c].id = call[c].id
          /\ call'[c].pc = "unreserve"
      BY SMTT(30), <1>0, <1>7, <2>2 DEF ClaimWrite, CallState
    <3>2. InCall(n, id) => InCall(n, id)'
      BY SMTT(30), <3>1 DEF InCall
    <3> QED BY SMTT(30), <1>1, <1>2, <2>1, <3>2 DEF Covered
  <2>3. CASE InState(tasks, call[c].id, call[c].t.status, call[c].t.token)
    <3>1. Issue(call[c].id, call[c].t, call[c].worker, call[c].worker)
      BY <1>7, <2>3 DEF ClaimWrite
    <3>2. call[c].id # id => (InCall(n, id) => InCall(n, id)')
      BY DEF InCall
    <3>3. ASSUME call[c].id = id PROVE Passed(id)
      <4>1. /\ tasks[id].status \in Waiting /\ ~SharedStore
            /\ call[c].worker \in Workers /\ call[c].t \in Task
        BY SMTT(30), <1>0, <1>7, <2>3, <3>3 DEF InState, ClaimWrite, CallKnows, CallState
      <4>2. tasks'[id] = Granted(call[c].t, call[c].worker, issued + 1)
        BY <3>1, <3>3 DEF Issue, IInv, StoreOK
      <4>3. tasks'[id].status = "running" /\ tasks'[id].token = issued + 1
        BY <4>1, <4>2 DEF Granted, Task
      <4>4. grant'[issued + 1].holder = call[c].worker
        <5>1. issued + 1 \in Tokens /\ DOMAIN grant = Tokens
          BY <3>1, TaskAssumption DEF Issue, IInv, GrantOK, Tokens
        <5> QED BY ZenonT(60), <3>1, <5>1 DEF Issue
      <4> QED BY SMTT(30), <4>1, <4>3, <4>4 DEF Passed, Lent
    <3> QED BY SMTT(30), <1>1, <1>2, <2>1, <3>2, <3>3 DEF Covered
  <2> QED BY <2>2, <2>3
<1>8. ASSUME \/ ClaimFail(c) \/ ClaimNone(c) \/ RenewWrite(c) \/ CompleteFinish(c) \/ CancelWrite(c)
             \/ PurgeDelete(c) \/ SubmitCount(c) \/ SubmitDeps(c) \/ SubmitCreate(c)
             \/ \E i \in Ids : ClaimConsider(c, i)
      PROVE  Covered(n, id)'
  <2>1. /\ UNCHANGED running
        /\ call[c].pc \notin {"claimRead", "claimWrite", "unreserve", "release"}
    BY Zenon, <1>8 DEF ClaimFail, ClaimNone, RenewWrite, CompleteFinish, CancelWrite, PurgeDelete,
       SubmitCount, SubmitDeps, SubmitCreate, ClaimConsider
  <2>2. InCall(n, id) => InCall(n, id)'
    BY <2>1, InCallKept
  <2> QED BY Zenon, <1>1, <1>2, <2>1, <2>2 DEF Covered
<1> QED BY Zenon, <1>3, <1>4, <1>5, <1>6, <1>7, <1>8 DEF Serve, Claim

\* All steps.
LEMMA CoverNext ==
    ASSUME IInv, TokenFits, "restart" \notin Ops, [Next]_vars
    PROVE  StaysCovered
<1>0. History
  BY EffectNext DEF Effects
<1> SUFFICES ASSUME NEW m \in Nodes, NEW id \in Ids, Covered(m, id)
             PROVE  Covered(m, id)' \/ Passed(id)
  BY DEF StaysCovered
<1>1. UNCHANGED call => (InCall(m, id) => InCall(m, id)')
  BY Zenon DEF InCall
<1>2. CASE UNCHANGED <<node, running, queue, disp, exec, call>>
  BY SMTT(30), <1>0, <1>1, <1>2, CoverElsewhere
<1>3. ASSUME NEW n \in Nodes, Dispatch(n) \/ \E s \in Slots : Execute(n, s),
             Elsewhere(n), UNCHANGED call
      PROVE  Covered(m, id)'
  <2>1. CASE m = n
    BY SMTT(30), <1>0, <1>3, <2>1, CoverDispatch, CoverExecute
  <2>2. CASE m # n
    BY SMTT(30), <1>0, <1>1, <1>3, <2>2, CoverElsewhere DEF Elsewhere
  <2> QED BY <2>1, <2>2
<1>4. ASSUME NEW n \in Nodes, StartStop(n), Elsewhere(n) PROVE Covered(m, id)'
  BY SMTT(30), <1>0, <1>4, CoverStartStop
<1>5. ASSUME NEW c \in Callers, \A e \in Callers : e # c => call'[e] = call[e],
             Serve(c), UNCHANGED <<node, queue, disp>>, Elsewhere(call[c].node)
      PROVE  Covered(m, id)' \/ Passed(id)
  BY SMTT(30), <1>0, <1>5, CoverServe
<1>6. ASSUME NEW c \in Callers, \A e \in Callers : e # c => call'[e] = call[e],
             NEW n \in Nodes, Request(c, n), UNCHANGED <<node, running, queue, disp, exec>>
      PROVE  Covered(m, id)'
  <2>1. call[c].pc = "idle"
    BY Zenon, <1>6 DEF Request, ClaimList, RenewTaskLease, CompleteTask, Present, Cancel, Purge, Submit
  <2>2. InCall(m, id) => InCall(m, id)'
    BY SMTT(30), <1>6, <2>1, InCallKept
  <2> QED BY <1>0, <1>6, <2>2, CoverElsewhere
<1> QED BY Zenon, <1>2, <1>3, <1>4, <1>5, <1>6, LocalMoves

-----------------------------------------------------------------------------
(* Who ends a lease.                                                       *)

\* A lease is ended by one of seven writes, each of which had the record in its hands.
LEMMA Enders ==
    ASSUME IInv, "purge" \notin Ops, "restart" \notin Ops, [Next]_vars,
           NEW id \in Ids, Ended(id)
    PROVE  \/ \E n \in Nodes : \/ /\ ReapWrite(n) /\ disp[n].id = id
                                  /\ InState(tasks, id, "running", disp[n].t.token)
                               \/ DispatchRollback(n) /\ disp[n].id = id
                               \/ /\ RequeueWrite(n, id)
                                  /\ InState(tasks, id, "running", disp[n].snap[id].token)
                               \/ Start(n)
                               \/ \E s \in Slots : ExecFinish(n, s) /\ grant[exec[n][s].token].id = id
           \/ \E c \in Callers : \/ /\ CompleteFinish(c) /\ call[c].id = id
                                    /\ InState(tasks, id, "running", call[c].t.token)
                                 \/ /\ CancelWrite(c) /\ call[c].id = id
                                    /\ call[c].t.status = "running"
                                    /\ InState(tasks, id, "running", call[c].t.token)
<1>0. tasks \in [Ids -> Task] /\ tasks[id].status = "running" /\ tasks'[id].status # "running"
  BY DEF IInv, StoreOK, Ended, Waiting
<1>1. \A i, token, t, end :
        Settle(i, token, t, end) => i = id /\ InState(tasks, id, "running", token)
  BY <1>0 DEF Settle, UpdateIfState, InState
<1>2. \A i, t, w, h : Issue(i, t, w, h) /\ t \in Task => FALSE
  BY <1>0 DEF Issue, Granted, Task
<1>3. \A i, token, t, status :
        tasks' = UpdateIfState(tasks, i, status, token, t) => i = id /\ status = "running"
  BY <1>0 DEF UpdateIfState, InState
<1>4. \A w : tasks' # RenewWorkerTaskLeases(tasks, w)
  BY SMTT(30), <1>0 DEF RenewWorkerTaskLeases, Task
<1> DEFINE Writer ==
      \/ \E n \in Nodes : \/ /\ ReapWrite(n) /\ disp[n].id = id
                             /\ InState(tasks, id, "running", disp[n].t.token)
                          \/ DispatchRollback(n) /\ disp[n].id = id
                          \/ /\ RequeueWrite(n, id)
                             /\ InState(tasks, id, "running", disp[n].snap[id].token)
                          \/ Start(n)
                          \/ \E s \in Slots : ExecFinish(n, s) /\ grant[exec[n][s].token].id = id
      \/ \E c \in Callers : \/ /\ CompleteFinish(c) /\ call[c].id = id
                               /\ InState(tasks, id, "running", call[c].t.token)
                            \/ /\ CancelWrite(c) /\ call[c].id = id
                               /\ call[c].t.status = "running"
                               /\ InState(tasks, id, "running", call[c].t.token)
<1>5. UNCHANGED tasks => Writer
  BY <1>0
<1> HIDE DEF Writer
<1>6. ASSUME NEW n \in Nodes, Dispatch(n) PROVE Writer
  <2>0. disp[n] \in LoopState /\ LoopKnows(disp[n], issued)
    BY Zenon DEF IInv, LoopOK
  <2>1. ReapWrite(n) => disp[n].id = id /\ InState(tasks, id, "running", disp[n].t.token)
    BY <1>1 DEF ReapWrite
  <2>4. DispatchRollback(n) => disp[n].id = id
    BY Zenon, <1>1 DEF DispatchRollback
  <2>2. ~DispatchFail(n)
    BY <1>3, <2>0 DEF DispatchFail, FailUnready, LoopKnows, Waiting
  <2>3. DispatchCommit(n) => UNCHANGED tasks
    BY Zenon, <1>2, <2>0 DEF DispatchCommit, LoopState
  <2>5. ReapWrite(n) \/ DispatchRollback(n) => Writer
    BY Zenon, <2>1, <2>4 DEF Writer
  <2> QED BY Zenon, <1>5, <1>6, <2>2, <2>3, <2>5 DEF Dispatch, Tick, DispatchList, DispatchReserve,
          DispatchEnqueue, DispatchUnreserve, DispatchDone, ReapRelease, DispatchConsider
<1>7. ASSUME NEW n \in Nodes, StartStop(n) PROVE Writer
  <2>1. ASSUME NEW i \in Ids, RequeueWrite(n, i)
        PROVE  i = id /\ InState(tasks, id, "running", disp[n].snap[id].token)
    BY <1>1, <2>1 DEF RequeueWrite
  <2>2. ASSUME NEW i \in Ids PROVE ~RecoverWrite(n, i)
    BY SMTT(30) DEF RecoverWrite, IInv, LoopOK, LoopKnows
  <2>3. Start(n) \/ (\E i \in Ids : RequeueWrite(n, i)) => Writer
    BY <2>1 DEF Writer
  <2> QED BY Zenon, <1>5, <1>7, <2>2, <2>3 DEF StartStop, Stop, RequeueList, Stopped, Restart,
          Restarted, Crash
<1>8. ASSUME NEW n \in Nodes, NEW s \in Slots, Execute(n, s) PROVE Writer
  <2>1. ExecFinish(n, s) => grant[exec[n][s].token].id = id
    BY SMTT(30), <1>1 DEF ExecFinish
  <2>2. ExecFinish(n, s) => Writer
    BY <2>1 DEF Writer
  <2> QED BY ZenonT(60), <1>5, <1>8, <2>2 DEF Execute, Take, ExecCheck, ExecBegin, ExecReturn,
          ExecRelease
<1>9. ASSUME NEW c \in Callers, Serve(c) PROVE Writer
  <2>0. call[c] \in CallState /\ CallKnows(call[c])
    BY DEF IInv, CallOK
  <2>1. CompleteFinish(c) => /\ call[c].id = id
                             /\ InState(tasks, id, "running", call[c].t.token)
    BY <1>1 DEF CompleteFinish
  <2>2. CancelWrite(c) => /\ call[c].id = id /\ call[c].t.status = "running"
                          /\ InState(tasks, id, "running", call[c].t.token)
    <3>1. CancelWrite(c) => call[c].t.status = "running"
      BY SMTT(30), <1>3 DEF CancelWrite
    <3> QED BY Zenon, <1>1, <3>1 DEF CancelWrite
  <2>3. ~ClaimFail(c)
    BY <1>3, <2>0 DEF ClaimFail, FailUnready, CallKnows, Waiting
  <2>4. ClaimWrite(c) => UNCHANGED tasks
    BY <1>2, <2>0 DEF ClaimWrite, CallState
  <2>5. ~RenewWrite(c)
    <3>1. RenewWrite(c) => tasks'[id].status = tasks[id].status
      BY <1>0, <2>0 DEF RenewWrite, UpdateIfLease, UpdateIfState, CallKnows, CallState, Task
    <3> QED BY SMTT(30), <1>0, <3>1
  <2>6. ~PurgeDelete(c)
    BY Zenon, <2>0 DEF PurgeDelete, CallKnows
  <2>7. SubmitCreate(c) => UNCHANGED tasks
    BY <1>0 DEF SubmitCreate, Create, Exists
  <2>8. CompleteFinish(c) \/ CancelWrite(c) => Writer
    BY Zenon, <2>1, <2>2 DEF Writer
  <2> QED BY Zenon, <1>5, <1>9, <2>3, <2>4, <2>5, <2>6, <2>7, <2>8 DEF Serve, Claim, ClaimReserve,
          ClaimRead, ClaimUnreserve, ClaimNone, ClaimConsider, CompleteRelease,
          CancelRelease, SubmitCount, SubmitDeps
<1>10. ASSUME NEW c \in Callers, NEW n \in Nodes, Request(c, n) PROVE Writer
  BY Zenon, <1>5, <1>10 DEF Request, ClaimList, RenewTaskLease, CompleteTask, Present, Cancel, Purge,
     Submit
<1>11. ASSUME NEW n \in Nodes, NEW w \in Workers, ClaimDue(n, w) PROVE FALSE
  <2>1. PICK F \in SUBSET {i \in {j \in Ids : Claimable(tasks[j])} : DepsBroken(tasks, i)} :
          \/ \E i \in {j \in Ids : Claimable(tasks[j])} :
               tasks' = [[j \in Ids |-> IF j \in F THEN DepFailed(tasks[j]) ELSE tasks[j]]
                           EXCEPT ![i] = Granted(tasks[i], w, issued + 1)]
          \/ tasks' = [j \in Ids |-> IF j \in F THEN DepFailed(tasks[j]) ELSE tasks[j]]
    BY Zenon, <1>11 DEF ClaimDue
  <2>2. id \notin F /\ ~Claimable(tasks[id])
    BY <1>0, <2>1 DEF Claimable
  <2>3. ASSUME tasks' = [j \in Ids |-> IF j \in F THEN DepFailed(tasks[j]) ELSE tasks[j]]
        PROVE  FALSE
    BY SMTT(30), <1>0, <2>2, <2>3
  <2>4. ASSUME NEW i \in Ids, Claimable(tasks[i]),
               tasks' = [[j \in Ids |-> IF j \in F THEN DepFailed(tasks[j]) ELSE tasks[j]]
                           EXCEPT ![i] = Granted(tasks[i], w, issued + 1)]
        PROVE  FALSE
    BY SMTT(30), <1>0, <2>2, <2>4
  <2> QED BY <2>1, <2>3, <2>4
<1>12. ASSUME NEW n \in Nodes, NEW w,
              LocalHeartbeat(n) \/ RegisterWorker(n, w) \/ Heartbeat(n, w) \/ WorkerLapses(n, w)
       PROVE  Writer
  BY <1>4, <1>5, <1>12 DEF LocalHeartbeat, RegisterWorker, Heartbeat, WorkerLapses
<1>13. ASSUME NEW i \in Ids, BecomesDue(i) \/ LeaseLapses(i) PROVE FALSE
  BY <1>0, <1>13 DEF BecomesDue, LeaseLapses, Task
<1>14. ASSUME UNCHANGED vars PROVE Writer
  BY SMTT(30), <1>5, <1>14 DEF vars
<1>15. Writer
  BY SMTT(30), <1>6, <1>7, <1>8, <1>9, <1>10, <1>11, <1>12, <1>13, <1>14 DEF Next
<1> QED BY <1>15 DEF Writer

\* With a store that is not shared, the processes that are not running hold nothing.
LEMMA OthersFree ==
    ASSUME ~SharedStore, OneAlive, OnlyAlive, NEW n \in Nodes, Alive(n),
           NEW m \in Nodes, m # n, NEW id \in Ids
    PROVE  Covered(m, id)
  BY DEF OneAlive, OnlyAlive, Covered

\* When an external worker's lease ends, somebody frees the reservations.
LEMMA LentStep ==
    ASSUME IInv, ResInv, "purge" \notin Ops, "restart" \notin Ops, [Next]_vars,
           ~SharedStore, NEW id \in Ids, Lent(id), ~Lent(id)', NEW m \in Nodes
    PROVE  Covered(m, id)'
<1>0. Effects /\ StaysCovered
  BY SMTT(30), EffectNext, CoverNext DEF ResInv
<1>1. /\ tasks[id].status = "running" /\ tasks[id].token \in 1..issued
      /\ grant[tasks[id].token].holder \in Workers
  BY SMTT(30) DEF Lent, IInv, LeaseIsFenced
<1>2. ~Stays(id)
  BY SMTT(30), <1>0, <1>1 DEF Stays, Effects, History, Lent
<1>3. Ended(id)
  BY SMTT(30), <1>0, <1>1, <1>2, LeaseMoves
<1>4. Covered(m, id) => Covered(m, id)'
  BY <1>0, <1>1 DEF StaysCovered, Passed, Waiting
<1>5. \A n \in Nodes : Alive(n) /\ Covered(n, id) => Covered(m, id)
  BY Zenon, OthersFree DEF ResInv
<1>6. ASSUME NEW n \in Nodes, ReapWrite(n), disp[n].id = id,
             InState(tasks, id, "running", disp[n].t.token)
      PROVE  Covered(m, id)
  BY SMTT(30), <1>6 DEF ReapWrite, ResInv, DroppedFirst, Dropped
<1>7. ASSUME NEW n \in Nodes, DispatchRollback(n), disp[n].id = id PROVE Covered(m, id)
  <2>1. AtLoop(n, id) /\ Alive(n)
    BY SMTT(30), <1>7 DEF DispatchRollback, AtLoop, ResInv, OnlyAlive
  <2> QED BY <1>5, <2>1 DEF Covered
<1>8. ASSUME NEW n \in Nodes, RequeueWrite(n, id),
             InState(tasks, id, "running", disp[n].snap[id].token)
      PROVE  FALSE
  BY <1>1, <1>8 DEF RequeueWrite, ResInv, CopiesIssued, InState
<1>9. ASSUME NEW n \in Nodes, Start(n) PROVE Covered(m, id)
  BY <1>9 DEF Start, ResInv, OnlyAlive, Covered
<1>10. ASSUME NEW n \in Nodes, NEW s \in Slots, ExecFinish(n, s), grant[exec[n][s].token].id = id
       PROVE  Covered(m, id)
  <2>1. Busy(n, id) /\ Alive(n)
    BY ZenonT(60), <1>10 DEF ExecFinish, Busy, ResInv, OnlyAlive
  <2> QED BY Zenon, <1>5, <2>1 DEF Covered
<1>11. ASSUME NEW c \in Callers, CancelWrite(c), call[c].id = id, call[c].t.status = "running",
              InState(tasks, id, "running", call[c].t.token)
       PROVE  Covered(m, id)
  BY <1>11 DEF CancelWrite, ResInv, DroppedFirst, Dropped
<1>12. ASSUME NEW c \in Callers, CompleteFinish(c), call[c].id = id,
              InState(tasks, id, "running", call[c].t.token)
       PROVE  Covered(m, id)'
  <2>1. call[c] \in CallState /\ call[c].node \in Nodes /\ Alive(call[c].node)
    BY <1>12 DEF CompleteFinish, ResInv, OnlyAlive, IInv, CallOK, CallKnows
  <2>2. call'[c] = [call[c] EXCEPT !.pc = "release"]
    BY <1>12 DEF CompleteFinish, IInv, CallOK
  <2>3. call'[c].pc = "release" /\ call'[c].id = id /\ call'[c].node = call[c].node
    BY SMTT(30), <1>12, <2>1, <2>2 DEF CallState
  <2>4. CASE m = call[c].node
    <3>1. InCall(m, id)'
      BY <2>3, <2>4 DEF InCall
    <3> QED BY <3>1 DEF Covered
  <2>5. CASE m # call[c].node
    BY SMTT(30), <1>4, <2>1, <2>5, OthersFree DEF ResInv
  <2> QED BY SMTT(30), <2>4, <2>5
<1> QED BY Zenon, <1>3, <1>4, <1>6, <1>7, <1>8, <1>9, <1>10, <1>11, <1>12, Enders

-----------------------------------------------------------------------------
(* What the copies of records are worth that goroutines hold.              *)

\* A task that an external worker holds does not come to carry a node's name.
LEMMA LentNamedStep ==
    ASSUME IInv, StopInv, LentNamed, [Next]_vars
    PROVE  LentNamed'
<1>0. NamesKept /\ History
  BY SMTT(30), NamesNext, EffectNext DEF StopInv, Effects
<1> SUFFICES ASSUME NEW id \in Ids, Lent(id)', NEW n \in Nodes, tasks'[id].worker = n
             PROVE  FALSE
  BY DEF LentNamed
<1>1. tasks'[id].status = "running" /\ grant'[tasks'[id].token].holder \in Workers
  BY Zenon DEF Lent
<1>2. \/ Held(id, n) /\ tasks'[id].token = tasks[id].token
      \/ grant'[tasks'[id].token].holder = n
  BY <1>0, <1>1 DEF NamesKept, Held
<1>3. Held(id, n) => tasks[id].token \in 1..issued
  BY Zenon DEF Held, IInv, LeaseIsFenced
<1>4. CASE Held(id, n) /\ tasks'[id].token = tasks[id].token
  BY ZenonT(60), <1>0, <1>1, <1>3, <1>4 DEF History, Held, Lent, LentNamed
<1> QED BY SMTT(30), <1>1, <1>2, <1>4, SchedulerAssumption

\* The dispatcher queues the token that was issued for its candidate.
LEMMA TokenFitsStep ==
    ASSUME IInv, TokenFits, [Next]_vars
    PROVE  TokenFits'
<1>0. History /\ TaskAssumption
  BY SMTT(30), EffectNext, TaskAssumption DEF Effects
<1> SUFFICES ASSUME NEW n \in Nodes, disp'[n].pc \in {"enqueue", "rollback"}
             PROVE  grant'[disp'[n].t.token].id = disp'[n].id
  BY DEF TokenFits
<1>1. /\ disp \in [Nodes -> LoopState] /\ disp[n] \in LoopState /\ LoopKnows(disp[n], issued)
      /\ issued \in 0..MaxGrants
  BY DEF IInv, LoopOK, GrantOK
<1>2. ASSUME disp[n].pc \in {"enqueue", "rollback"}
      PROVE  grant'[disp[n].t.token].id = disp[n].id
  <2>1. disp[n].t.token \in 0..MaxGrants /\ disp[n].t.token > 0 /\ disp[n].t.token <= issued
    BY <1>1, <1>2 DEF LoopState, Task, LoopKnows
  <2>2. disp[n].t.token \in 1..issued
    BY SMTT(30), <1>0, <1>1, <2>1 DEF TaskAssumption
  <2> QED BY Zenon, <1>0, <1>2, <2>2 DEF History, TokenFits
<1>3. CASE disp'[n] = disp[n]
  BY <1>2, <1>3
<1>4. CASE Dispatch(n)
  <2>1. CASE DispatchCommit(n)
    <3>1. PICK w \in PickWorker(n) : /\ Issue(disp[n].id, disp[n].t, w, n)
                                     /\ disp' = [disp EXCEPT ![n].pc = "enqueue",
                                                   ![n].t = Granted(disp[n].t, w, issued + 1)]
      BY <1>1, <2>1 DEF DispatchCommit, LoopState
    <3>2. disp'[n].id = disp[n].id /\ disp'[n].t = Granted(disp[n].t, w, issued + 1)
      BY <1>1, <3>1 DEF LoopState
    <3>3. disp'[n].t.token = issued + 1
      BY <1>1, <3>2 DEF Granted, LoopState, Task
    <3>4. issued + 1 \in Tokens /\ DOMAIN grant = Tokens
      BY <1>0, <3>1 DEF Issue, IInv, GrantOK, Tokens, TaskAssumption
    <3> QED BY SMTT(30), <3>1, <3>2, <3>3, <3>4 DEF Issue
  <2>2. CASE DispatchEnqueue(n)
    <3>1. disp'[n].pc = "rollback" /\ disp'[n].id = disp[n].id /\ disp'[n].t = disp[n].t
      <4>1. CASE disp' = [disp EXCEPT ![n] = Back(@, "walk")]
        <5>1. disp'[n].pc = "walk"
          BY <1>1, <4>1 DEF Back, LoopState
        <5> QED BY <5>1
      <4>2. CASE disp' = [disp EXCEPT ![n].pc = "rollback"]
        BY <1>1, <4>2 DEF LoopState
      <4> QED BY Zenon, <2>2, <4>1, <4>2 DEF DispatchEnqueue
    <3> QED BY Zenon, <1>2, <2>2, <3>1 DEF DispatchEnqueue
  <2>3. CASE Tick(n) \/ DispatchList(n) \/ DispatchRollback(n) \/ DispatchDone(n)
    BY <1>1, <2>3 DEF Tick, DispatchList, DispatchRollback, DispatchDone, IdleLoop, LoopState
  <2>4. CASE ReapWrite(n) \/ DispatchFail(n) \/ DispatchUnreserve(n)
    <3>1. disp'[n].pc \in {"reap", "walk"}
      BY ZenonT(60), <1>1, <2>4 DEF ReapWrite, DispatchFail, DispatchUnreserve, Back, LoopState
    <3> QED BY <3>1
  <2>5. CASE DispatchReserve(n)
    <3>1. disp'[n].pc \in {"commit", "walk"}
      BY ZenonT(60), <1>1, <2>5 DEF DispatchReserve, Back, LoopState
    <3> QED BY <3>1
  <2>6. ASSUME NEW id \in Ids, ReapRelease(n, id) PROVE FALSE
    BY <1>1, <2>6 DEF ReapRelease, LoopState
  <2>7. ASSUME NEW id \in Ids, DispatchConsider(n, id) PROVE FALSE
    <3>1. disp'[n] = Consider(disp[n], id) /\ disp[n].pc = "walk"
      BY <1>1, <2>7 DEF DispatchConsider
    <3>2. Consider(disp[n], id).pc \in {"failUnready", "reserve", "walk"}
      BY ZenonT(60), <1>1, <3>1 DEF Consider, LoopState
    <3> QED BY <3>1, <3>2
  <2> QED BY Zenon, <1>4, <2>1, <2>2, <2>3, <2>4, <2>5, <2>6, <2>7 DEF Dispatch
<1>5. CASE StartStop(n)
  <2>1. CASE Start(n) \/ Stop(n)
    BY <1>3, <2>1 DEF Start, Stop
  <2>2. CASE RequeueList(n) \/ Restart(n)
    BY SMTT(30), <1>1, <2>2 DEF RequeueList, Restart, LoopState
  <2>3. CASE Stopped(n) \/ Restarted(n) \/ Crash(n)
    BY <1>1, <2>3 DEF Stopped, Restarted, Crash, IdleLoop
  <2>4. ASSUME NEW id \in Ids, RequeueWrite(n, id) \/ RecoverWrite(n, id) PROVE FALSE
    BY <1>1, <2>4 DEF RequeueWrite, RecoverWrite, LoopState
  <2> QED BY SMTT(30), <1>5, <2>1, <2>2, <2>3, <2>4 DEF StartStop
<1> QED BY <1>3, <1>4, <1>5, PhaseMoves

\* How a dispatcher comes to hold copies of running records.
LEMMA LoopCopies ==
    ASSUME IInv, [Next]_vars, NEW n \in Nodes,
           disp'[n].pc \in {"reap", "reapWrite", "requeue"}
    PROVE  \/ disp'[n] = disp[n]
           \/ /\ Tick(n) /\ disp'[n].pc = "reap" /\ disp'[n].snap = ListExpired(tasks)
              /\ UNCHANGED <<tasks, grant, issued>>
           \/ \E id \in Listed(disp[n].snap) :
                /\ ReapRelease(n, id) /\ disp[n].pc = "reap" /\ disp'[n].pc = "reapWrite"
                /\ disp'[n].id = id /\ disp'[n].t = disp[n].snap[id]
                /\ disp'[n].snap = Without(disp[n].snap, id)
                /\ UNCHANGED <<tasks, grant, issued>>
           \/ /\ disp[n].pc = "reapWrite" /\ disp'[n].pc = "reap"
              /\ disp'[n].snap = disp[n].snap
           \/ /\ RequeueList(n) /\ disp'[n].pc = "requeue"
              /\ disp'[n].snap = Listing(tasks, {id \in Ids : /\ tasks[id].status = "running"
                                                              /\ tasks[id].worker = n})
              /\ UNCHANGED <<tasks, grant, issued>>
           \/ \E id \in Ids : /\ disp[n].pc = "requeue" /\ disp'[n].pc = "requeue"
                              /\ disp'[n].snap = Without(disp[n].snap, id)
<1>1. /\ disp \in [Nodes -> LoopState] /\ disp[n] \in LoopState
  BY DEF IInv, LoopOK
<1>2. CASE Dispatch(n)
  <2>1. CASE Tick(n)
    <3>1. disp'[n].pc = "reap" /\ disp'[n].snap = ListExpired(tasks)
      BY <1>1, <2>1 DEF Tick, LoopState
    <3>2. UNCHANGED <<tasks, grant, issued>>
      BY <2>1 DEF Tick
    <3> QED BY Zenon, <2>1, <3>1, <3>2
  <2>2. ASSUME NEW id \in Ids, ReapRelease(n, id)
        PROVE  /\ id \in Listed(disp[n].snap) /\ disp[n].pc = "reap"
               /\ disp'[n].pc = "reapWrite" /\ disp'[n].id = id
               /\ disp'[n].t = disp[n].snap[id] /\ disp'[n].snap = Without(disp[n].snap, id)
               /\ UNCHANGED <<tasks, grant, issued>>
    BY ZenonT(60), <1>1, <2>2 DEF ReapRelease, LoopState
  <2>3. CASE ReapWrite(n)
    <3>1. disp[n].pc = "reapWrite" /\ disp'[n] = Back(disp[n], "reap")
      BY <1>1, <2>3 DEF ReapWrite
    <3>2. disp'[n].pc = "reap" /\ disp'[n].snap = disp[n].snap
      BY <1>1, <3>1 DEF Back, LoopState
    <3> QED BY <3>1, <3>2
  <2>4. CASE DispatchList(n) \/ DispatchRollback(n) \/ DispatchDone(n) \/ DispatchCommit(n)
    <3>1. disp'[n].pc \in {"walk", "unreserve", "idle", "enqueue"}
      BY SMTT(30), <1>1, <2>4 DEF DispatchList, DispatchRollback, DispatchDone, DispatchCommit, IdleLoop,
         LoopState
    <3> QED BY Zenon, <3>1
  <2>5. CASE DispatchFail(n) \/ DispatchUnreserve(n)
    <3>1. disp'[n].pc = "walk"
      BY ZenonT(60), <1>1, <2>5 DEF DispatchFail, DispatchUnreserve, Back, LoopState
    <3> QED BY <3>1
  <2>6. CASE DispatchReserve(n) \/ DispatchEnqueue(n)
    <3>1. disp'[n].pc \in {"commit", "walk", "rollback"}
      BY ZenonT(60), <1>1, <2>6 DEF DispatchReserve, DispatchEnqueue, Back, LoopState
    <3> QED BY <3>1
  <2>7. ASSUME NEW id \in Ids PROVE ~DispatchConsider(n, id)
    <3>1. DispatchConsider(n, id) => disp'[n] = Consider(disp[n], id) /\ disp[n].pc = "walk"
      BY <1>1 DEF DispatchConsider
    <3>2. disp[n].pc = "walk" =>
            Consider(disp[n], id).pc \in {"failUnready", "reserve", "walk"}
      BY <1>1 DEF Consider, LoopState
    <3> QED BY Zenon, <3>1, <3>2
  <2> QED BY Zenon, <1>2, <2>1, <2>2, <2>3, <2>4, <2>5, <2>6, <2>7 DEF Dispatch
<1>3. CASE StartStop(n)
  <2>1. CASE Start(n) \/ Stop(n)
    BY <2>1 DEF Start, Stop
  <2>2. CASE RequeueList(n)
    <3>1. /\ disp'[n].pc = "requeue"
          /\ disp'[n].snap = Listing(tasks, {id \in Ids : /\ tasks[id].status = "running"
                                                          /\ tasks[id].worker = n})
      BY <1>1, <2>2 DEF RequeueList, LoopState
    <3>2. UNCHANGED <<tasks, grant, issued>>
      BY Zenon, <2>2 DEF RequeueList
    <3> QED BY Zenon, <2>2, <3>1, <3>2
  <2>3. CASE Stopped(n) \/ Restarted(n) \/ Crash(n) \/ Restart(n)
    BY <1>1, <2>3 DEF Stopped, Restarted, Crash, Restart, IdleLoop, LoopState
  <2>4. ASSUME NEW id \in Ids, RequeueWrite(n, id)
        PROVE  /\ disp[n].pc = "requeue" /\ disp'[n].pc = "requeue"
               /\ disp'[n].snap = Without(disp[n].snap, id)
    BY Zenon, <1>1, <2>4 DEF RequeueWrite, LoopState
  <2>5. ASSUME NEW id \in Ids, RecoverWrite(n, id) PROVE FALSE
    BY Zenon, <1>1, <2>5 DEF RecoverWrite, LoopState
  <2> QED BY Zenon, <1>3, <2>1, <2>2, <2>3, <2>4, <2>5 DEF StartStop
<1> QED BY Zenon, <1>2, <1>3, PhaseMoves

\* How a call of Cancel comes to hold its copy.
LEMMA CancelCopies ==
    ASSUME IInv, [Next]_vars, NEW c \in Callers, call'[c].pc \in {"cancel", "cancelWrite"}
    PROVE  \/ call'[c] = call[c]
           \/ /\ CancelRelease(c) /\ call[c].pc = "cancel"
              /\ call'[c].id = call[c].id /\ call'[c].t = call[c].t
              /\ UNCHANGED <<tasks, grant, issued>>
           \/ /\ call'[c].pc = "cancel" /\ call'[c].id \in Ids
              /\ call'[c].t = tasks[call'[c].id] /\ UNCHANGED <<tasks, grant, issued>>
<1>0. call \in [Callers -> CallState]
  BY DEF IInv, CallOK
<1>1. ASSUME NEW n \in Nodes, Request(c, n)
      PROVE  /\ call'[c].pc = "cancel" /\ call'[c].id \in Ids
             /\ call'[c].t = tasks[call'[c].id] /\ UNCHANGED <<tasks, grant, issued>>
  <2>1. ASSUME NEW w \in Workers, ClaimList(c, n, w) PROVE call'[c].pc = "walk"
    BY <1>0, <2>1 DEF ClaimList, Begin, IdleCall
  <2>2. ASSUME NEW w \in Workers, NEW k \in GrantedTo(w),
               RenewTaskLease(c, n, w, k) \/ CompleteTask(c, n, w, k)
        PROVE  call'[c].pc \in {"renew", "finish"}
    BY ZenonT(60), <1>0, <2>2 DEF RenewTaskLease, CompleteTask, Present, Begin, IdleCall
  <2>3. ASSUME NEW id \in Ids, Purge(c, n, id) \/ Submit(c, n, id)
        PROVE  call'[c].pc \in {"purge", "submitCount"}
    BY Zenon, <1>0, <2>3 DEF Purge, Submit, Begin, IdleCall
  <2>4. ASSUME NEW id \in Ids, Cancel(c, n, id)
        PROVE  /\ call'[c].pc = "cancel" /\ call'[c].id = id
               /\ call'[c].t = tasks[id] /\ UNCHANGED <<tasks, grant, issued>>
    BY <1>0, <2>4 DEF Cancel, Begin, IdleCall
  <2> QED BY Zenon, <1>1, <2>1, <2>2, <2>3, <2>4 DEF Request
<1>2. CASE Serve(c)
  <2>1. CASE ClaimFail(c) \/ ClaimUnreserve(c)
    BY Zenon, <1>0, <2>1 DEF ClaimFail, ClaimUnreserve, Back, CallState
  <2>2. CASE ClaimReserve(c)
    <3>1. call'[c].pc \in {"claimRead", "walk"}
      BY ZenonT(60), <1>0, <2>2 DEF ClaimReserve, Back, CallState
    <3> QED BY <3>1
  <2>3. CASE ClaimRead(c)
    BY <1>0, <2>3 DEF ClaimRead, CallState
  <2>4. CASE ClaimWrite(c)
    BY <1>0, <2>4 DEF ClaimWrite, IdleCall, CallState
  <2>5. ASSUME NEW id \in Ids, ClaimConsider(c, id) PROVE FALSE
    BY ZenonT(60), <1>0, <2>5 DEF ClaimConsider, Consider, CallState
  <2>6. CASE \/ ClaimNone(c) \/ RenewWrite(c) \/ CompleteFinish(c) \/ CompleteRelease(c)
             \/ CancelWrite(c) \/ PurgeDelete(c) \/ SubmitCreate(c)
    BY SMTT(30), <1>0, <2>6 DEF ClaimNone, RenewWrite, CompleteFinish, CompleteRelease, CancelWrite,
       PurgeDelete, SubmitCreate, IdleCall, CallState
  <2>7. CASE SubmitCount(c) \/ SubmitDeps(c)
    BY <1>0, <2>7 DEF SubmitCount, SubmitDeps, IdleCall, CallState
  <2>8. CASE CancelRelease(c)
    <3>1. call[c].pc = "cancel" /\ call'[c].id = call[c].id /\ call'[c].t = call[c].t
      BY Zenon, <1>0, <2>8 DEF CancelRelease, CallState
    <3>2. UNCHANGED <<tasks, grant, issued>>
      BY SMTT(30), <2>8 DEF CancelRelease
    <3> QED BY Zenon, <2>8, <3>1, <3>2
  <2> QED BY Zenon, <1>2, <2>1, <2>2, <2>3, <2>4, <2>5, <2>6, <2>7, <2>8 DEF Serve, Claim
<1>3. call'[c] # IdleCall
  BY DEF IdleCall
<1> QED BY Zenon, <1>1, <1>2, <1>3, Movers

\* Copies of running records keep the tokens they were read with.
LEMMA CopiesStep ==
    ASSUME IInv, LentNamed, CopiesIssued, [Next]_vars
    PROVE  CopiesIssued'
<1>0. Effects /\ issued \in Nat /\ StoreOK
  BY SMTT(30), EffectNext, TaskAssumption DEF IInv, GrantOK
<1>1. ASSUME NEW id \in Ids PROVE 1..issued \subseteq 1..issued'
  BY <1>0 DEF Effects, Effect, HandedOut, NotHandedOut
<1>2. \A k \in 1..issued : grant'[k].holder = grant[k].holder
  BY Zenon, <1>0 DEF Effects, History
<1>3. ASSUME NEW id \in Ids, tasks[id].status = "running" PROVE tasks[id].token \in 1..issued
  BY <1>3 DEF IInv, LeaseIsFenced
<1>4. ASSUME NEW n \in Nodes
      PROVE  /\ disp'[n].pc \in {"reap", "reapWrite", "requeue"} =>
                  \A id \in Listed(disp'[n].snap) : disp'[n].snap[id].token \in 1..issued'
             /\ disp'[n].pc = "reapWrite" => disp'[n].t.token \in 1..issued'
             /\ disp'[n].pc = "requeue" => \A id \in Listed(disp'[n].snap) :
                  grant'[disp'[n].snap[id].token].holder \notin Workers
  <2> SUFFICES ASSUME disp'[n].pc \in {"reap", "reapWrite", "requeue"}
               PROVE  /\ \A id \in Listed(disp'[n].snap) :
                           disp'[n].snap[id].token \in 1..issued'
                      /\ disp'[n].pc = "reapWrite" => disp'[n].t.token \in 1..issued'
                      /\ disp'[n].pc = "requeue" => \A id \in Listed(disp'[n].snap) :
                           grant'[disp'[n].snap[id].token].holder \notin Workers
    OBVIOUS
  <2>0. disp[n].snap \in Snapshots /\ (disp[n].pc = "reapWrite" => disp[n].id \in Ids)
    BY Zenon DEF IInv, LoopOK, LoopState, LoopKnows
  <2>1. /\ disp[n].pc \in {"reap", "reapWrite", "requeue"} =>
             \A id \in Listed(disp[n].snap) : disp[n].snap[id].token \in 1..issued
        /\ disp[n].pc = "reapWrite" => disp[n].t.token \in 1..issued
        /\ disp[n].pc = "requeue" => \A id \in Listed(disp[n].snap) :
             grant[disp[n].snap[id].token].holder \notin Workers
    BY Zenon DEF CopiesIssued, Issued
  <2>2. CASE disp'[n] = disp[n]
    BY Zenon, <1>1, <1>2, <2>0, <2>1, <2>2 DEF Listed
  <2>3. CASE disp'[n].pc = "reap" /\ disp'[n].snap = ListExpired(tasks)
    <3>1. ASSUME NEW id \in Listed(ListExpired(tasks))
          PROVE  /\ id \in Ids /\ tasks[id].status = "running"
                 /\ ListExpired(tasks)[id] = tasks[id]
      BY Zenon, <3>1 DEF Listed, ListExpired, Listing, NoTask
    <3> QED BY Zenon, <1>1, <1>3, <2>3, <3>1
  <2>4. ASSUME NEW id \in Listed(disp[n].snap), disp[n].pc = "reap", disp'[n].pc = "reapWrite",
               disp'[n].t = disp[n].snap[id], disp'[n].snap = Without(disp[n].snap, id)
        PROVE  /\ \A i \in Listed(disp'[n].snap) : disp'[n].snap[i].token \in 1..issued'
               /\ disp'[n].t.token \in 1..issued'
    <3>1. \A i \in Listed(disp'[n].snap) :
             i \in Listed(disp[n].snap) /\ disp'[n].snap[i] = disp[n].snap[i]
      BY <2>0, <2>4 DEF Listed, Without, NoTask, Snapshots
    <3> QED BY ZenonT(60), <1>1, <2>1, <2>4, <3>1 DEF Listed
  <2>5. CASE disp[n].pc = "reapWrite" /\ disp'[n].pc = "reap" /\ disp'[n].snap = disp[n].snap
    BY Zenon, <1>1, <2>0, <2>1, <2>5
  <2>6. CASE /\ disp'[n].pc = "requeue" /\ UNCHANGED <<tasks, grant, issued>>
             /\ disp'[n].snap = Listing(tasks, {id \in Ids : /\ tasks[id].status = "running"
                                                             /\ tasks[id].worker = n})
    <3>1. ASSUME NEW id \in Listed(disp'[n].snap)
          PROVE  /\ id \in Ids /\ tasks[id].status = "running" /\ tasks[id].worker = n
                 /\ disp'[n].snap[id] = tasks[id]
      BY <2>6, <3>1 DEF Listed, Listing, NoTask
    <3>2. \A id \in Listed(disp'[n].snap) : grant[tasks[id].token].holder \notin Workers
      BY ZenonT(60), <3>1 DEF LentNamed, Lent
    <3> QED BY ZenonT(60), <1>3, <2>6, <3>1, <3>2
  <2>7. ASSUME NEW id \in Ids, disp[n].pc = "requeue", disp'[n].pc = "requeue",
               disp'[n].snap = Without(disp[n].snap, id)
        PROVE  \A i \in Listed(disp'[n].snap) :
                 /\ disp'[n].snap[i].token \in 1..issued'
                 /\ grant'[disp'[n].snap[i].token].holder \notin Workers
    <3>1. \A i \in Listed(disp'[n].snap) :
             i \in Listed(disp[n].snap) /\ disp'[n].snap[i] = disp[n].snap[i]
      BY <2>0, <2>7 DEF Listed, Without, NoTask, Snapshots
    <3> QED BY ZenonT(60), <1>1, <1>2, <2>1, <2>7, <3>1
  <2> QED BY Zenon, <2>2, <2>3, <2>4, <2>5, <2>6, <2>7, LoopCopies
<1>5. ASSUME NEW c \in Callers, call'[c].pc \in {"cancel", "cancelWrite"},
             call'[c].t.status = "running"
      PROVE  call'[c].t.token \in 1..issued'
  <2>0. call[c].pc \in {"cancel", "cancelWrite"} => call[c].id \in Ids
    BY Zenon DEF IInv, CallOK, CallKnows
  <2>1. /\ call[c].pc \in {"cancel", "cancelWrite"} /\ call[c].t.status = "running"
             => call[c].t.token \in 1..issued
    BY Zenon DEF CopiesIssued, Issued
  <2>2. CASE call[c].pc \in {"cancel", "cancelWrite"} /\ call'[c].t = call[c].t
    BY SMTT(30), <1>1, <1>5, <2>0, <2>1, <2>2
  <2>3. CASE /\ call'[c].id \in Ids /\ call'[c].t = tasks[call'[c].id]
             /\ UNCHANGED <<tasks, grant, issued>>
    BY SMTT(30), <1>3, <1>5, <2>3
  <2> QED BY Zenon, <1>5, <2>2, <2>3, CancelCopies
<1> QED BY Zenon, <1>4, <1>5 DEF CopiesIssued, Issued

-----------------------------------------------------------------------------
(* Reservations that are dropped before a lease is ended.                  *)

\* Nothing uncovers the reservations of a task whose lease is about to be ended.
LEMMA DroppedKept ==
    ASSUME Effects, StaysCovered, issued \in Nat, NEW id \in Ids, NEW k \in 1..issued,
           InState(tasks, id, "running", k) => \A n \in Nodes : Covered(n, id),
           tasks'[id].status = "running", tasks'[id].token = k
    PROVE  \A n \in Nodes : Covered(n, id)'
<1>1. Stays(id) /\ tasks[id].status = "running"
  BY StillRunning
<1>2. InState(tasks, id, "running", k)
  BY SMTT(30), <1>1 DEF Stays, InState
<1> QED BY SMTT(30), <1>1, <1>2 DEF StaysCovered, Passed, Waiting

\* Dropping the reservation on the node where the task may run leaves none uncovered.
LEMMA DroppedNow ==
    ASSUME IInv, ResInv, StaysCovered, NEW n \in Nodes, Alive(n), NEW id \in Ids,
           tasks[id].status = "running", running'[n][id] = "free"
    PROVE  \A m \in Nodes : Covered(m, id)'
<1>1. ASSUME NEW m \in Nodes, m # n PROVE Covered(m, id)
  BY <1>1, OthersFree DEF ResInv, Accounted
<1>2. ASSUME NEW m \in Nodes, m # n PROVE Covered(m, id)'
  BY Zenon, <1>1, <1>2 DEF StaysCovered, Passed, Waiting
<1> QED BY SMTT(30), <1>2 DEF Covered

\* The reservation is dropped before the lease is ended, by the reaper and by Cancel.
LEMMA DroppedStep ==
    ASSUME IInv, ResInv, "restart" \notin Ops, [Next]_vars
    PROVE  DroppedFirst'
<1>0. Effects /\ StaysCovered /\ issued \in Nat /\ StoreOK
  BY SMTT(30), EffectNext, CoverNext, TaskAssumption DEF ResInv, IInv, GrantOK
<1>1. ASSUME NEW id \in Ids, NEW t, t.token \in 1..issued, Dropped(id, t),
             tasks'[id].status = "running", tasks'[id].token = t.token
      PROVE  \A m \in Nodes : Covered(m, id)'
  BY Zenon, <1>0, <1>1, DroppedKept DEF Dropped
<1>2. ASSUME NEW n \in Nodes, disp'[n].pc = "reapWrite",
             tasks'[disp'[n].id].status = "running",
             tasks'[disp'[n].id].token = disp'[n].t.token
      PROVE  \A m \in Nodes : Covered(m, disp[n].id)'
  <2>1. CASE disp'[n] = disp[n]
    <3>1. disp[n].id \in Ids /\ disp[n].t.token \in 1..issued /\ Dropped(disp[n].id, disp[n].t)
      <4>1. disp[n].pc = "reapWrite"
        BY <1>2, <2>1
      <4>2. disp[n].id \in Ids
        BY ZenonT(60), <4>1 DEF IInv, LoopOK, LoopKnows
      <4>3. disp[n].t.token \in 1..issued
        BY <4>1 DEF ResInv, CopiesIssued, Issued
      <4>4. Dropped(disp[n].id, disp[n].t)
        BY <4>1 DEF ResInv, DroppedFirst
      <4> QED BY SMTT(30), <4>2, <4>3, <4>4
    <3>2. PICK id \in Ids : id = disp[n].id
      BY <3>1
    <3>3. tasks'[id].status = "running" /\ tasks'[id].token = disp[n].t.token
      BY ZenonT(60), <1>2, <2>1, <3>2
    <3>4. \A m \in Nodes : Covered(m, id)'
      BY SMTT(30), <1>1, <3>1, <3>2, <3>3
    <3> QED BY SMTT(30), <2>1, <3>2, <3>4
  <2>2. ASSUME NEW id \in Listed(disp[n].snap), ReapRelease(n, id), disp[n].pc = "reap",
               disp'[n].id = id, UNCHANGED <<tasks, grant, issued>>
        PROVE  \A m \in Nodes : Covered(m, disp[n].id)'
    <3>1. id \in Ids /\ tasks[id].status = "running" /\ Alive(n)
      BY Zenon, <1>2, <2>2 DEF Listed, ResInv, OnlyAlive
    <3>2. running'[n][id] = "free"
      BY <2>2, <3>1 DEF ReapRelease, Unreserved, IInv, NodeOK
    <3>3. \A m \in Nodes : Covered(m, id)'
      BY ZenonT(60), <1>0, <3>1, <3>2, DroppedNow
    <3> QED BY <2>2, <3>3
  <2> QED BY Zenon, <1>2, <2>1, <2>2, LoopCopies
<1>3. ASSUME NEW c \in Callers, call'[c].pc = "cancelWrite", call'[c].t.status = "running",
             tasks'[call'[c].id].status = "running",
             tasks'[call'[c].id].token = call'[c].t.token
      PROVE  \A m \in Nodes : Covered(m, call[c].id)'
  <2>1. CASE call'[c] = call[c]
    <3>1. call[c].id \in Ids /\ call[c].t.token \in 1..issued /\ Dropped(call[c].id, call[c].t)
      <4>1. call[c].pc = "cancelWrite" /\ call[c].t.status = "running"
        BY Zenon, <1>3, <2>1
      <4>2. call[c].id \in Ids
        BY Zenon, <4>1 DEF IInv, CallOK, CallKnows
      <4>3. call[c].t.token \in 1..issued
        BY Zenon, <4>1 DEF ResInv, CopiesIssued, Issued
      <4>4. Dropped(call[c].id, call[c].t)
        BY Zenon, <4>1 DEF ResInv, DroppedFirst
      <4> QED BY <4>2, <4>3, <4>4
    <3>2. PICK id \in Ids : id = call[c].id
      BY <3>1
    <3>3. tasks'[id].status = "running" /\ tasks'[id].token = call[c].t.token
      BY Zenon, <1>3, <2>1, <3>2
    <3>4. \A m \in Nodes : Covered(m, id)'
      BY ZenonT(60), <1>1, <3>1, <3>2, <3>3
    <3> QED BY SMTT(30), <2>1, <3>2, <3>4
  <2>2. CASE /\ CancelRelease(c) /\ call[c].pc = "cancel"
             /\ call'[c].id = call[c].id /\ UNCHANGED <<tasks, grant, issued>>
    <3>1. /\ call[c].id \in Ids /\ call[c].node \in Nodes /\ Alive(call[c].node)
          /\ tasks[call[c].id].status = "running"
      BY Zenon, <1>3, <2>2 DEF ResInv, OnlyAlive, IInv, CallOK, CallKnows
    <3>2. running'[call[c].node][call[c].id] = "free"
      BY SMTT(30), <2>2, <3>1 DEF CancelRelease, Unreserved, IInv, NodeOK
    <3>3. PICK n \in Nodes : n = call[c].node
      BY <3>1
    <3>4. PICK id \in Ids : id = call[c].id
      BY Zenon, <3>1
    <3>5. \A m \in Nodes : Covered(m, id)'
      BY Zenon, <1>0, <3>1, <3>2, <3>3, <3>4, DroppedNow
    <3> QED BY SMTT(30), <2>2, <3>4, <3>5
  <2> QED BY SMTT(30), <1>3, <2>1, <2>2, CancelCopies
<1> QED BY SMTT(30), <1>2, <1>3 DEF DroppedFirst, Dropped, InState

-----------------------------------------------------------------------------
(* The theorem.                                                            *)

\* ResInv is preserved where no record is purged and no process restarts its scheduler.
LEMMA ResStep ==
    ASSUME IInv, StopInv, ResInv, "purge" \notin Ops, "restart" \notin Ops, [Next]_vars
    PROVE  ResInv'
<1>1. OneAlive' /\ OnlyAlive'
  BY AliveStep DEF ResInv
<1>2. LentNamed' /\ TokenFits' /\ CopiesIssued'
  BY SMTT(30), LentNamedStep, TokenFitsStep, CopiesStep DEF ResInv
<1>3. DroppedFirst'
  BY DroppedStep
<1>4. StaysCovered
  BY CoverNext DEF ResInv
<1>5. ASSUME NEW n \in Nodes, NEW id \in Ids
      PROVE  Covered(n, id)' \/ (~SharedStore /\ Lent(id)')
  BY <1>4, LentStep DEF ResInv, Accounted, StaysCovered, Passed
<1> QED BY Zenon, <1>1, <1>2, <1>3, <1>5 DEF ResInv, Accounted

\* No reservation is left behind, for every set of nodes, workers and callers, with a
\* shared store or without, through crashes, stops, cancellations and expired leases.
\* Purge and Start after Stop are the exceptions that the code has: both write without
\* looking at the lease, and the reservation of the external worker whose lease they
\* take away stays.
THEOREM NoReservationLeaks ==
    ASSUME "purge" \notin Ops, "restart" \notin Ops
    PROVE  Spec => []NoLeakedReservation
<1>1. Init => StopInv
  BY DEF Init, StopInv, Phases, OwnWorkers, RequeueCovers, StopHandsBack, IdleLoop
<1>2. Init => ResInv
  <2> SUFFICES ASSUME Init PROVE ResInv
    OBVIOUS
  <2>1. \A n \in Nodes : ~Alive(n) /\ disp[n] = IdleLoop /\ running[n] = [id \in Ids |-> "free"]
    BY DEF Init, Alive
  <2>2. \A id \in Ids : tasks[id].status # "running"
    BY Zenon DEF Init, Empty, NewTask, NoTask
  <2>3. \A c \in Callers : call[c].pc = "idle"
    BY Zenon DEF Init, IdleCall
  <2>4. \A n \in Nodes : \A s \in Slots : exec[n][s].pc = "idle"
    BY Zenon DEF Init, IdleSlot
  <2>5. OneAlive /\ OnlyAlive
    BY SMTT(30), <2>1, <2>3, <2>4 DEF OneAlive, OnlyAlive, IdleLoop
  <2>6. LentNamed /\ TokenFits
    BY SMTT(30), <2>1, <2>2 DEF LentNamed, Lent, TokenFits, IdleLoop
  <2>7. CopiesIssued
    BY SMTT(30), <2>1, <2>3 DEF CopiesIssued, IdleLoop
  <2>8. DroppedFirst
    BY <2>1, <2>3 DEF DroppedFirst, IdleLoop
  <2>9. Accounted
    BY Zenon, <2>1 DEF Accounted, Covered
  <2> QED BY SMTT(30), <2>5, <2>6, <2>7, <2>8, <2>9 DEF ResInv
<1>3. IInv /\ StopInv /\ [Next]_vars => StopInv'
  BY StopStep
<1>4. IInv /\ StopInv /\ ResInv /\ [Next]_vars => ResInv'
  BY Zenon, ResStep
<1>5. ResInv => NoLeakedReservation
  BY Zenon DEF ResInv, Accounted, Covered, AtLoop, Queued, Busy, InCall, Lent, NoLeakedReservation,
     Answers
<1> QED BY <1>1, <1>2, <1>3, <1>4, <1>5, Invariance, PTL DEF Spec

=============================================================================
