-------------------------- MODULE SchedulerProofs ---------------------------
(***************************************************************************)
(* Proofs about Scheduler for every set of tasks, nodes, workers and       *)
(* callers, every mix of operations and either kind of store.              *)
(*                                                                         *)
(* IInv is the inductive invariant.  LeaseIsFenced alone is not inductive: *)
(* a goroutine that holds a stale copy of a record is harmless only        *)
(* because of what it knows about the copy (the dispatcher's and a claim's *)
(* candidate was waiting when it was read, a renewal's copy was running    *)
(* under the presented token) and because every token in circulation was   *)
(* issued.  The parts of IInv other than LeaseIsFenced say just that, one  *)
(* part for each variable.                                                 *)
(***************************************************************************)
EXTENDS SchedulerProperties, OperatorLemmas, Integers

Waiting == {"pending", "retrying"}

\* Every candidate left in a listing was waiting.
AllWaiting(snap) == \A id \in Ids : snap[id].status \in Waiting \cup {"absent"}

StoreOK == tasks \in [Ids -> Task]

GrantOK ==
    /\ issued \in 0..MaxGrants
    /\ grant \in [Tokens -> [id : Ids \cup {NoId}, holder : Labels, end : Ends]]
    /\ \A k \in 1..issued : grant[k].id \in Ids

NodeOK ==
    /\ node \in [Nodes -> {"new", "up", "stopping", "stopped", "restarting", "dead"}]
    /\ workers \in [Nodes -> [Nodes \cup Workers -> {"absent", "live", "lapsed"}]]
    /\ running \in [Nodes -> [Ids -> {"free", "nil"} \cup Slots]]

QueueOK ==
    /\ queue \in [Nodes -> Seq(Tokens)]
    /\ \A n \in Nodes : \A i \in 1..Len(queue[n]) : queue[n][i] <= issued

LoopState == [pc : LoopPcs, snap : Snapshots, id : Ids \cup {NoId}, t : Task]

\* What the dispatcher knows about the copies it holds, when tokens up to top
\* have been issued.
LoopKnows(d, top) ==
    /\ d.pc \in {"reapWrite", "failUnready", "reserve", "commit", "enqueue",
                 "rollback", "unreserve"} => d.id \in Ids
    /\ d.pc \in {"walk", "failUnready", "reserve", "commit", "enqueue", "rollback",
                 "unreserve"} => AllWaiting(d.snap)
    /\ d.pc \in {"failUnready", "reserve", "commit"} => d.t.status \in Waiting
    /\ d.pc \in {"enqueue", "rollback"} => d.t.attempts > 0 /\ d.t.token > 0
    /\ d.pc \in {"enqueue", "rollback"} => d.t.token <= top
    /\ d.pc = "recover" => "restart" \in Ops

LoopOK == disp \in [Nodes -> LoopState] /\ \A n \in Nodes : LoopKnows(disp[n], issued)

SlotState == [pc : SlotPcs, token : 0..MaxGrants, t : Task, ok : BOOLEAN,
              aborted : BOOLEAN]

\* A busy worker goroutine was handed a token that was issued.
SlotKnows(x, top) == x.pc # "idle" => x.token > 0 /\ x.token <= top

SlotOK ==
    /\ exec \in [Nodes -> [Slots -> SlotState]]
    /\ \A n \in Nodes, s \in Slots : SlotKnows(exec[n][s], issued)

CallState == [pc : CallPcs, node : Labels, worker : Labels, token : 0..MaxGrants,
              ok : BOOLEAN, snap : Snapshots, id : Ids \cup {NoId}, t : Task]

\* What an API goroutine knows about the copies it holds.
CallKnows(p) ==
    /\ p.pc # "idle" => p.node \in Nodes
    /\ p.pc \notin {"idle", "walk"} => p.id \in Ids
    /\ p.pc \in {"walk", "failUnready", "reserve", "claimRead", "claimWrite",
                 "unreserve"} =>
         AllWaiting(p.snap) /\ p.worker \in Workers /\ "claim" \in Ops /\ ~SharedStore
    /\ p.pc \in {"failUnready", "reserve", "claimWrite"} => p.t.status \in Waiting
    /\ p.pc = "renew" => /\ p.t.status = "running" /\ p.t.token = p.token
                         /\ p.t.worker \in Workers
    /\ p.pc \in {"cancel", "cancelWrite"} =>
         p.t.status \in Waiting \cup {"running", "failed"} /\ "cancel" \in Ops
    /\ p.pc \in {"finish", "release"} => "claim" \in Ops
    /\ p.pc = "purge" => "purge" \in Ops

CallOK == call \in [Callers -> CallState] /\ \A c \in Callers : CallKnows(call[c])

IInv == /\ StoreOK /\ GrantOK /\ NodeOK /\ QueueOK
        /\ LoopOK /\ SlotOK /\ CallOK /\ LeaseIsFenced

\* What every step has to establish: IInv again, and that no lease that has ended
\* is touched.
Once == \A k \in 1..issued : grant[k].end # "open" => grant'[k] = grant[k]

-----------------------------------------------------------------------------
(* Listings.                                                               *)

\* ListDue returns waiting tasks, and taking one out of a listing leaves the
\* others as they were.
LEMMA WaitingListings ==
    /\ tasks \in [Ids -> Task] => AllWaiting(ListDue(tasks))
    /\ AllWaiting(Empty)
    /\ \A snap \in Snapshots, id \in Ids :
         AllWaiting(snap) => AllWaiting(Without(snap, id))
<1>1. tasks \in [Ids -> Task] => AllWaiting(ListDue(tasks))
  BY DEF AllWaiting, ListDue, Listing, Claimable, NoTask, Waiting
<1>2. AllWaiting(Empty)
  BY DEF AllWaiting, Empty, NoTask
<1>3. ASSUME NEW snap \in Snapshots, NEW id \in Ids, AllWaiting(snap)
      PROVE  AllWaiting(Without(snap, id))
  BY Zenon, <1>3 DEF AllWaiting, Without, NoTask, Snapshots
<1> QED BY <1>1, <1>2, <1>3

-----------------------------------------------------------------------------
(* What the four kinds of writes do to the leases.                         *)

\* A write that starts and ends no lease.
LEMMA FencedKeep ==
    ASSUME LeaseIsFenced, GrantOK, UNCHANGED <<grant, issued>>,
           \A id \in Ids :
             /\ tasks'[id].status = "running" <=> tasks[id].status = "running"
             /\ tasks[id].status = "running" => tasks'[id].token = tasks[id].token
    PROVE  LeaseIsFenced' /\ GrantOK' /\ Once
<1>1. LeaseIsFenced'
  BY DEF LeaseIsFenced, GrantOK
<1> QED BY <1>1 DEF GrantOK, Once

\* A guarded write of a record that is not running.
LEMMA FencedSettle ==
    ASSUME LeaseIsFenced, GrantOK, StoreOK, UNCHANGED issued,
           NEW id \in Ids, NEW token, NEW t \in Task, NEW end \in Ends \ {"open"},
           t.status # "running", Settle(id, token, t, end)
    PROVE  LeaseIsFenced' /\ GrantOK' /\ StoreOK' /\ Once
<1>0. StoreOK'
  BY StoreTypes DEF StoreOK, Settle
<1>1. CASE InState(tasks, id, "running", token)
  <2>1. /\ tasks' = [tasks EXCEPT ![id] = t]
        /\ grant' = [grant EXCEPT ![token].end = end]
        /\ tasks[id].status = "running" /\ tasks[id].token = token
    BY <1>1 DEF Settle, UpdateIfState, InState
  <2>2. token \in 1..issued /\ grant[token].id = id /\ grant[token].end = "open"
    BY <2>1 DEF LeaseIsFenced
  <2>3. token \in Tokens
    BY <2>2, TaskAssumption DEF GrantOK, Tokens
  <2>4. /\ grant' \in [Tokens -> [id : Ids \cup {NoId}, holder : Labels, end : Ends]]
        /\ grant'[token].id = id /\ grant'[token].end # "open"
        /\ \A k \in 1..issued : k # token => grant'[k] = grant[k]
    BY <2>1, <2>2, <2>3 DEF GrantOK, Tokens
  <2>5. GrantOK'
    BY <2>2, <2>4 DEF GrantOK
  <2>6. /\ tasks'[id].status # "running"
        /\ \A j \in Ids : j # id => tasks'[j] = tasks[j]
    BY <2>1 DEF StoreOK
  <2>7. ASSUME NEW k \in 1..issued, grant'[k].end = "open"
        PROVE  tasks'[grant'[k].id].status = "running" /\ tasks'[grant'[k].id].token = k
    <3>1. k # token /\ grant'[k] = grant[k]
      BY <2>4, <2>7
    <3>2. tasks[grant[k].id].status = "running" /\ tasks[grant[k].id].token = k
      BY <2>7, <3>1 DEF LeaseIsFenced
    <3>3. grant[k].id \in Ids /\ grant[k].id # id
      BY <3>1, <3>2, <2>1 DEF GrantOK
    <3> QED BY <3>1, <3>2, <3>3, <2>6
  <2>8. ASSUME NEW j \in Ids, tasks'[j].status = "running"
        PROVE  /\ tasks'[j].token \in 1..issued
               /\ grant'[tasks'[j].token].id = j
               /\ grant'[tasks'[j].token].end = "open"
    <3>1. j # id /\ tasks'[j] = tasks[j]
      BY <2>6, <2>8
    <3>2. /\ tasks[j].token \in 1..issued
          /\ grant[tasks[j].token].id = j
          /\ grant[tasks[j].token].end = "open"
      BY <2>8, <3>1 DEF LeaseIsFenced
    <3>3. tasks[j].token # token
      BY <3>1, <3>2, <2>2
    <3> QED BY <3>1, <3>2, <3>3, <2>4
  <2>9. LeaseIsFenced'
    BY <2>7, <2>8 DEF LeaseIsFenced
  <2> QED BY <1>0, <2>2, <2>4, <2>5, <2>9 DEF Once
<1>2. CASE ~InState(tasks, id, "running", token)
  <2>1. UNCHANGED <<tasks, grant>>
    BY <1>2 DEF Settle, UpdateIfState
  <2> QED BY <1>0, <2>1, FencedKeep
<1> QED BY <1>1, <1>2

\* A claim of a task that is not running.
LEMMA FencedIssue ==
    ASSUME LeaseIsFenced, GrantOK, StoreOK,
           NEW id \in Ids, NEW t \in Task, NEW w \in Labels, NEW holder \in Labels,
           tasks[id].status # "running", Issue(id, t, w, holder)
    PROVE  LeaseIsFenced' /\ GrantOK' /\ StoreOK' /\ Once /\ issued' = issued + 1
<1> DEFINE k == issued + 1
           u == Granted(t, w, k)
<1>1. k \in Tokens /\ k \in 0..MaxGrants /\ issued \in Nat
  BY TaskAssumption DEF Issue, GrantOK, Tokens
<1>2. u \in Task /\ u.status = "running" /\ u.token = k
  BY <1>1, GrantedType
<1>3. /\ tasks' = [tasks EXCEPT ![id] = u]
      /\ grant' = [grant EXCEPT ![k] = [id |-> id, holder |-> holder, end |-> "open"]]
      /\ issued' = k
  BY DEF Issue
<1> HIDE DEF u
<1>4. /\ StoreOK' /\ tasks'[id] = u
      /\ \A j \in Ids : j # id => tasks'[j] = tasks[j]
  BY <1>2, <1>3 DEF StoreOK
<1>5. /\ grant' \in [Tokens -> [id : Ids \cup {NoId}, holder : Labels, end : Ends]]
      /\ grant'[k].id = id /\ grant'[k].end = "open"
      /\ \A j \in 1..issued : grant'[j] = grant[j]
  BY <1>1, <1>3 DEF GrantOK, Tokens, Ends
<1>6. \A j \in 1..issued' : j = k \/ j \in 1..issued
  BY <1>1, <1>3
<1>7. GrantOK'
  BY <1>1, <1>3, <1>5, <1>6 DEF GrantOK, Tokens
<1>8. ASSUME NEW j \in 1..issued, grant'[j].end = "open"
      PROVE  tasks'[grant'[j].id].status = "running" /\ tasks'[grant'[j].id].token = j
  <2>1. grant[j].id \in Ids /\ tasks[grant[j].id].status = "running"
        /\ tasks[grant[j].id].token = j
    BY <1>5, <1>8 DEF LeaseIsFenced, GrantOK
  <2> QED BY SMTT(30), <2>1, <1>4, <1>5
<1>9. ASSUME NEW i \in Ids, tasks'[i].status = "running"
      PROVE  /\ tasks'[i].token \in 1..issued'
             /\ grant'[tasks'[i].token].id = i
             /\ grant'[tasks'[i].token].end = "open"
  <2>1. CASE i = id
    BY SMTT(30), <2>1, <1>1, <1>2, <1>3, <1>4, <1>5
  <2>2. CASE i # id
    <3>1. /\ tasks[i].token \in 1..issued
          /\ grant[tasks[i].token].id = i
          /\ grant[tasks[i].token].end = "open"
      BY <2>2, <1>4, <1>9 DEF LeaseIsFenced
    <3> QED BY <2>2, <3>1, <1>1, <1>3, <1>4, <1>5
  <2> QED BY <2>1, <2>2
<1>10. LeaseIsFenced'
  <2> HIDE DEF k
  <2>1. ASSUME NEW j \in 1..issued', grant'[j].end = "open"
        PROVE  tasks'[grant'[j].id].status = "running" /\ tasks'[grant'[j].id].token = j
    <3>1. CASE j = k
      BY Zenon, <3>1, <1>2, <1>4, <1>5
    <3>2. CASE j \in 1..issued
      BY Zenon, <3>2, <2>1, <1>8
    <3> QED BY Zenon, <3>1, <3>2, <1>6
  <2> QED BY Zenon, <2>1, <1>9 DEF LeaseIsFenced
<1> QED BY <1>3, <1>4, <1>5, <1>7, <1>10 DEF Once

-----------------------------------------------------------------------------
(* Frames: what a step leaves alone, and one goroutine moving on.          *)

\* The parts of IInv whose variables do not change survive a step, even one that
\* issues a token.
LEMMA Frame ==
    ASSUME GrantOK, issued' = issued \/ issued' = issued + 1
    PROVE  /\ NodeOK /\ UNCHANGED <<node, workers, running>> => NodeOK'
           /\ QueueOK /\ UNCHANGED queue => QueueOK'
           /\ LoopOK /\ UNCHANGED disp => LoopOK'
           /\ SlotOK /\ UNCHANGED exec => SlotOK'
           /\ CallOK /\ UNCHANGED call => CallOK'
<1>1. issued \in Nat /\ \A k \in Int : k <= issued => k <= issued'
  BY TaskAssumption DEF GrantOK
<1>2. NodeOK /\ UNCHANGED <<node, workers, running>> => NodeOK'
  BY Zenon DEF NodeOK
<1>3. ASSUME QueueOK, UNCHANGED queue PROVE QueueOK'
  <2>1. ASSUME NEW n \in Nodes, NEW i \in 1..Len(queue[n]) PROVE queue[n][i] <= issued'
    <3>1. queue[n] \in Seq(Tokens)
      BY <1>3 DEF QueueOK
    <3>2. queue[n][i] \in Tokens
      BY <3>1
    <3>3. queue[n][i] \in Int
      BY <3>2, TaskAssumption DEF Tokens
    <3> QED BY <3>3, <1>1, <1>3 DEF QueueOK
  <2> QED BY <2>1, <1>3 DEF QueueOK
<1>4. ASSUME LoopOK, UNCHANGED disp PROVE LoopOK'
  <2>1. ASSUME NEW n \in Nodes PROVE LoopKnows(disp[n], issued')
    <3>1. disp[n].t.token \in Int
      BY <1>4, TaskAssumption DEF LoopOK, LoopState, Task
    <3> QED BY <3>1, <1>1, <1>4 DEF LoopOK, LoopKnows
  <2> QED BY <2>1, <1>4 DEF LoopOK
<1>5. ASSUME SlotOK, UNCHANGED exec PROVE SlotOK'
  <2>1. ASSUME NEW n \in Nodes, NEW s \in Slots PROVE SlotKnows(exec[n][s], issued')
    <3>1. exec[n][s].token \in Int
      BY <1>5, TaskAssumption DEF SlotOK, SlotState
    <3> QED BY <3>1, <1>1, <1>5 DEF SlotOK, SlotKnows
  <2> QED BY <2>1, <1>5 DEF SlotOK
<1>6. CallOK /\ UNCHANGED call => CallOK'
  BY DEF CallOK
<1> QED BY <1>2, <1>3, <1>4, <1>5, <1>6

\* The dispatcher of n moves on to d.
LEMMA LoopMoves ==
    ASSUME GrantOK, LoopOK, issued' = issued \/ issued' = issued + 1,
           NEW n \in Nodes, NEW d \in LoopState, LoopKnows(d, issued'),
           disp' = [disp EXCEPT ![n] = d]
    PROVE  LoopOK'
<1>1. ASSUME NEW m \in Nodes PROVE LoopKnows(disp'[m], issued')
  <2>1. CASE m = n
    BY <2>1 DEF LoopOK
  <2>2. CASE m # n
    <3>1. disp[m].t.token \in Int /\ disp'[m] = disp[m]
      BY <2>2, TaskAssumption DEF LoopOK, LoopState, Task
    <3> QED BY <3>1 DEF LoopOK, LoopKnows, GrantOK
  <2> QED BY <2>1, <2>2
<1> QED BY <1>1 DEF LoopOK

\* The goroutine in slot s of n moves on to x.
LEMMA SlotMoves ==
    ASSUME SlotOK, UNCHANGED issued, NEW n \in Nodes, NEW s \in Slots,
           NEW x \in SlotState, SlotKnows(x, issued),
           exec' = [exec EXCEPT ![n][s] = x]
    PROVE  SlotOK'
<1>1. exec' \in [Nodes -> [Slots -> SlotState]]
  BY DEF SlotOK
<1>2. ASSUME NEW m \in Nodes, NEW r \in Slots PROVE SlotKnows(exec'[m][r], issued')
  BY DEF SlotOK
<1> QED BY <1>1, <1>2 DEF SlotOK

\* API goroutine c moves on to p.
LEMMA CallMoves ==
    ASSUME CallOK, NEW c \in Callers, NEW p \in CallState, CallKnows(p),
           call' = [call EXCEPT ![c] = p]
    PROVE  CallOK'
  BY DEF CallOK

\* Idle goroutines.
LEMMA IdleStates ==
    /\ IdleLoop \in LoopState /\ \A top : LoopKnows(IdleLoop, top)
    /\ IdleSlot \in SlotState /\ \A top : SlotKnows(IdleSlot, top)
    /\ IdleCall \in CallState /\ CallKnows(IdleCall)
<1>1. /\ NoTask \in Task /\ Empty \in Snapshots
      /\ NoWorker \in Labels /\ 0 \in 0..MaxGrants
  <2>1. NoWorker \in Labels /\ 0 \in 0..MaxGrants
    BY TaskAssumption DEF Labels
  <2>2. NoTask \in Task
    BY <2>1 DEF NoTask, Task
  <2> QED BY <2>1, <2>2 DEF Empty, Snapshots
<1>2. IdleLoop \in LoopState /\ \A top : LoopKnows(IdleLoop, top)
  BY <1>1 DEF IdleLoop, LoopState, LoopPcs, LoopKnows
<1>3. IdleSlot \in SlotState /\ \A top : SlotKnows(IdleSlot, top)
  BY <1>1 DEF IdleSlot, SlotState, SlotPcs, SlotKnows
<1>4. IdleCall \in CallState /\ CallKnows(IdleCall)
  BY <1>1 DEF IdleCall, CallState, CallPcs, CallKnows
<1> QED BY <1>2, <1>3, <1>4

\* An entry of running changes.
LEMMA RunningMoves ==
    ASSUME NodeOK, UNCHANGED <<node, workers>>, NEW n \in Nodes, NEW id,
           NEW v \in {"free", "nil"} \cup Slots, running' = [running EXCEPT ![n][id] = v]
    PROVE  NodeOK'
  BY Zenon DEF NodeOK

\* Calling the cancel function of a run aborts it and nothing else.
LEMMA CancelRunKeeps ==
    ASSUME SlotOK, UNCHANGED issued, NEW n \in Nodes, NEW id, CancelRun(n, id)
    PROVE  SlotOK'
<1>1. CASE running[n][id] \in Slots
  <2> DEFINE s == running[n][id]
             x == [exec[n][s] EXCEPT !.aborted = TRUE]
  <2>1. exec' = [exec EXCEPT ![n][s] = x]
    BY <1>1 DEF CancelRun
  <2>2. s \in Slots
    BY <1>1
  <2> HIDE DEF s
  <2>3. exec[n][s] \in SlotState /\ SlotKnows(exec[n][s], issued)
    BY <2>2 DEF SlotOK
  <2>4. x \in SlotState /\ SlotKnows(x, issued)
    BY Zenon, <2>3 DEF SlotState, SlotKnows
  <2> QED BY Zenon, <2>1, <2>2, <2>4, SlotMoves
<1>2. CASE running[n][id] \notin Slots
  BY <1>2 DEF CancelRun, SlotOK
<1> QED BY <1>1, <1>2

\* Looking at a candidate of a listing of waiting tasks, in dispatch and in Claim.
LEMMA ConsiderKnows ==
    ASSUME NEW p, NEW id \in Ids, p.pc = "walk", AllWaiting(p.snap),
           p.snap \in Snapshots, id \in Listed(p.snap)
    PROVE  /\ p \in LoopState =>
                Consider(p, id) \in LoopState /\ \A top : LoopKnows(Consider(p, id), top)
           /\ p \in CallState /\ CallKnows(p) =>
                Consider(p, id) \in CallState /\ CallKnows(Consider(p, id))
<1> DEFINE snap == Without(p.snap, id)
           t == p.snap[id]
<1>1. snap \in Snapshots /\ AllWaiting(snap)
  BY StoreTypes, WaitingListings DEF Snapshots
<1>2. t \in Task /\ t.status \in Waiting
  BY DEF Snapshots, AllWaiting, Listed
<1> HIDE DEF snap, t
<1>3. Consider(p, id) \in
        {[p EXCEPT !.snap = snap, !.id = id, !.t = t, !.pc = "failUnready"],
         [p EXCEPT !.snap = snap, !.id = id, !.t = t, !.pc = "reserve"],
         [p EXCEPT !.snap = snap]}
  BY DEF Consider, snap, t
<1>4. ASSUME p \in LoopState
      PROVE  Consider(p, id) \in LoopState /\ \A top : LoopKnows(Consider(p, id), top)
  BY Zenon, <1>1, <1>2, <1>3, <1>4 DEF LoopState, LoopKnows, LoopPcs
<1>5. ASSUME p \in CallState, CallKnows(p)
      PROVE  Consider(p, id) \in CallState /\ CallKnows(Consider(p, id))
  BY ZenonT(60), <1>1, <1>2, <1>3, <1>5 DEF CallState, CallKnows, CallPcs
<1> QED BY <1>4, <1>5

\* failUnreadyTask, in dispatch and in Claim: a copy of a waiting task can only
\* overwrite a waiting task, so that no lease is touched.
LEMMA FailUnreadyKeeps ==
    ASSUME StoreOK, GrantOK, LeaseIsFenced, UNCHANGED <<grant, issued>>,
           NEW p, p.t \in Task, p.t.status \in Waiting, FailUnready(p)
    PROVE  StoreOK' /\ LeaseIsFenced' /\ GrantOK' /\ Once
<1>1. DepFailed(p.t) \in Task /\ DepFailed(p.t).status # "running"
  BY Zenon, RecordTypes
<1>2. StoreOK'
  BY <1>1, StoreTypes DEF StoreOK, FailUnready
<1>3. ASSUME NEW id \in Ids
      PROVE  /\ tasks'[id].status = "running" <=> tasks[id].status = "running"
             /\ tasks[id].status = "running" => tasks'[id].token = tasks[id].token
  BY <1>1 DEF FailUnready, UpdateIfState, InState, StoreOK, Waiting
<1> QED BY <1>2, <1>3, FencedKeep

-----------------------------------------------------------------------------
(* The dispatcher.                                                         *)

\* The steps of the goroutine that runs dispatch.
LEMMA DispatchStep ==
    ASSUME IInv, NEW n \in Nodes, Dispatch(n)
    PROVE  IInv' /\ Once
<1>0. disp[n] \in LoopState /\ LoopKnows(disp[n], issued)
  BY DEF IInv, LoopOK
<1>1. CASE Tick(n)
  <2> DEFINE d == [disp[n] EXCEPT !.pc = "reap", !.snap = ListExpired(tasks)]
  <2>1. disp' = [disp EXCEPT ![n] = d]
    BY Zenon, <1>1 DEF Tick
  <2>2. d \in LoopState /\ LoopKnows(d, issued')
    <3>1. ListExpired(tasks) \in Snapshots
      BY StoreTypes DEF ListExpired, IInv, StoreOK
    <3> QED BY Zenon, <1>0, <3>1 DEF LoopState, LoopKnows, LoopPcs
  <2> QED BY Zenon, <1>1, <2>1, <2>2, LoopMoves, Frame, FencedKeep DEF Tick, IInv, StoreOK
<1>2. ASSUME NEW id \in Ids, ReapRelease(n, id) PROVE IInv' /\ Once
  <2> DEFINE d == [disp[n] EXCEPT !.pc = "reapWrite", !.id = id,
                                  !.t = disp[n].snap[id], !.snap = Without(@, id)]
  <2>1. disp' = [disp EXCEPT ![n] = d]
    BY Zenon, <1>2 DEF ReapRelease
  <2>2. d \in LoopState /\ LoopKnows(d, issued')
    <3>1. disp[n].snap[id] \in Task /\ Without(disp[n].snap, id) \in Snapshots
      BY <1>0, StoreTypes DEF LoopState, Snapshots
    <3> QED BY Zenon, <1>0, <3>1 DEF LoopState, LoopKnows, LoopPcs
  <2>3. NodeOK'
    BY Zenon, <1>2, RunningMoves DEF ReapRelease, Unreserved, IInv
  <2>4. SlotOK'
    BY <1>2, CancelRunKeeps DEF ReapRelease, IInv
  <2> QED BY Zenon, <1>2, <2>1, <2>2, <2>3, <2>4, LoopMoves, Frame, FencedKeep
          DEF ReapRelease, IInv, StoreOK
<1>3. CASE ReapWrite(n)
  <2> DEFINE d == Back(disp[n], "reap")
             t == Requeued(disp[n].t)
  <2>1. disp' = [disp EXCEPT ![n] = d]
    BY <1>3 DEF ReapWrite
  <2>2. d \in LoopState /\ LoopKnows(d, issued')
    BY Zenon, <1>0, StoreTypes DEF Back, LoopState, LoopKnows, LoopPcs, IInv, StoreOK
  <2>3. disp[n].id \in Ids /\ t \in Task /\ t.status # "running"
    BY Zenon, <1>0, <1>3, RecordTypes DEF ReapWrite, LoopKnows, LoopState
  <2>4. LeaseIsFenced' /\ GrantOK' /\ StoreOK' /\ Once
    BY <1>3, <2>3, FencedSettle DEF ReapWrite, IInv, Ends
  <2> QED BY Zenon, <1>3, <2>1, <2>2, <2>4, LoopMoves, Frame DEF ReapWrite, IInv
<1>4. CASE DispatchList(n)
  <2> DEFINE d == [disp[n] EXCEPT !.pc = "walk", !.snap = ListDue(tasks)]
  <2>1. disp' = [disp EXCEPT ![n] = d]
    BY Zenon, <1>4 DEF DispatchList
  <2>2. d \in LoopState /\ LoopKnows(d, issued')
    <3>1. ListDue(tasks) \in Snapshots /\ AllWaiting(ListDue(tasks))
      BY StoreTypes, WaitingListings DEF ListDue, IInv, StoreOK
    <3> QED BY Zenon, <1>0, <3>1 DEF LoopState, LoopKnows, LoopPcs
  <2> QED BY Zenon, <1>4, <2>1, <2>2, LoopMoves, Frame, FencedKeep
             DEF DispatchList, IInv, StoreOK
<1>5. ASSUME NEW id \in Ids, DispatchConsider(n, id) PROVE IInv' /\ Once
  <2> DEFINE d == Consider(disp[n], id)
  <2>1. disp' = [disp EXCEPT ![n] = d]
    BY SMTT(30), <1>5 DEF DispatchConsider
  <2>2. d \in LoopState /\ LoopKnows(d, issued')
    BY <1>0, <1>5, ConsiderKnows DEF DispatchConsider, LoopKnows, LoopState
  <2> QED BY Zenon, <1>5, <2>1, <2>2, LoopMoves, Frame, FencedKeep
          DEF DispatchConsider, IInv, StoreOK
<1>6. CASE DispatchFail(n)
  <2> DEFINE d == Back(disp[n], "walk")
  <2>1. disp' = [disp EXCEPT ![n] = d]
    BY <1>6 DEF DispatchFail
  <2>2. d \in LoopState /\ LoopKnows(d, issued')
    BY Zenon, <1>0, <1>6, StoreTypes
       DEF DispatchFail, Back, LoopState, LoopKnows, LoopPcs, IInv, StoreOK
  <2>3. StoreOK' /\ LeaseIsFenced' /\ GrantOK' /\ Once
    BY <1>0, <1>6, FailUnreadyKeeps DEF DispatchFail, LoopState, LoopKnows, IInv
  <2> QED BY Zenon, <1>6, <2>1, <2>2, <2>3, LoopMoves, Frame DEF DispatchFail, IInv
<1>7. CASE DispatchReserve(n)
  <2>1. NodeOK'
    BY Zenon, <1>7, RunningMoves, Frame DEF DispatchReserve, IInv
  <2>2. LoopOK'
    <3>1. CASE disp' = [disp EXCEPT ![n].pc = "commit"]
      <4> DEFINE d == [disp[n] EXCEPT !.pc = "commit"]
      <4>1. disp' = [disp EXCEPT ![n] = d]
        BY <3>1
      <4>2. d \in LoopState /\ LoopKnows(d, issued')
        BY <1>0, <1>7 DEF DispatchReserve, LoopState, LoopKnows, LoopPcs
      <4> QED BY Zenon, <1>7, <4>1, <4>2, LoopMoves DEF DispatchReserve, IInv
    <3>2. CASE disp' = [disp EXCEPT ![n] = Back(@, "walk")]
      <4> DEFINE d == Back(disp[n], "walk")
      <4>1. disp' = [disp EXCEPT ![n] = d]
        BY <3>2
      <4>2. d \in LoopState /\ LoopKnows(d, issued')
        BY Zenon, <1>0, <1>7, StoreTypes
           DEF DispatchReserve, Back, LoopState, LoopKnows, LoopPcs, IInv, StoreOK
      <4> QED BY Zenon, <1>7, <4>1, <4>2, LoopMoves DEF DispatchReserve, IInv
    <3> QED BY <1>7, <3>1, <3>2 DEF DispatchReserve
  <2> QED BY <1>7, <2>1, <2>2, Frame, FencedKeep DEF DispatchReserve, IInv, StoreOK
<1>8. CASE DispatchCommit(n)
  <2> DEFINE id == disp[n].id
             t == disp[n].t
  <2>0. id \in Ids /\ t \in Task /\ t.status \in Waiting /\ AllWaiting(disp[n].snap)
    BY <1>0, <1>8 DEF DispatchCommit, LoopKnows, LoopState
  <2>1. CASE InState(tasks, id, t.status, t.token)
    <3>1. PICK w \in PickWorker(n) :
            /\ Issue(id, t, w, n)
            /\ disp' = [disp EXCEPT ![n].pc = "enqueue", ![n].t = Granted(t, w, issued + 1)]
      BY <1>8, <2>1 DEF DispatchCommit
    <3>2. w \in Labels /\ n \in Labels
      BY SMTT(30) DEF PickWorker, Labels
    <3>3. tasks[id].status # "running"
      BY <2>0, <2>1 DEF InState, Waiting
    <3>4. LeaseIsFenced' /\ GrantOK' /\ StoreOK' /\ Once /\ issued' = issued + 1
      BY <2>0, <3>1, <3>2, <3>3, FencedIssue DEF IInv
    <3> DEFINE u == Granted(t, w, issued + 1)
               d == [disp[n] EXCEPT !.pc = "enqueue", !.t = u]
    <3>5. issued + 1 \in 0..MaxGrants /\ issued \in Nat
      BY <3>4, TaskAssumption DEF GrantOK, IInv
    <3>6. u \in Task /\ u.attempts > 0 /\ u.token = issued + 1
      BY <2>0, <3>2, <3>5, GrantedType
    <3>7. disp' = [disp EXCEPT ![n] = d]
      BY Zenon, <3>1
    <3> HIDE DEF u
    <3>8. d \in LoopState /\ LoopKnows(d, issued')
      <4>1. u.token > 0 /\ u.token <= issued'
        BY <3>4, <3>5, <3>6
      <4>2. d \in LoopState
        BY Zenon, <1>0, <3>6 DEF LoopState, LoopPcs
      <4>3. d.pc = "enqueue" /\ d.t = u /\ d.id = id /\ d.snap = disp[n].snap
        BY <1>0 DEF LoopState
      <4> QED BY <2>0, <3>6, <4>1, <4>2, <4>3 DEF LoopKnows
    <3> HIDE DEF d
    <3> QED BY Zenon, <1>8, <3>4, <3>7, <3>8, LoopMoves, Frame DEF DispatchCommit, IInv
  <2>2. CASE ~InState(tasks, id, t.status, t.token)
    <3> DEFINE d == [disp[n] EXCEPT !.pc = "unreserve"]
    <3>1. disp' = [disp EXCEPT ![n] = d] /\ UNCHANGED <<tasks, grant, issued>>
      BY <1>8, <2>2 DEF DispatchCommit
    <3>2. d \in LoopState /\ LoopKnows(d, issued')
      BY <1>0, <2>0 DEF LoopState, LoopKnows, LoopPcs
    <3> QED BY Zenon, <1>8, <3>1, <3>2, LoopMoves, Frame, FencedKeep
            DEF DispatchCommit, IInv, StoreOK
  <2> QED BY <2>1, <2>2
<1>9. CASE DispatchEnqueue(n)
  <2> DEFINE k == disp[n].t.token
  <2>0. k \in Tokens /\ k <= issued /\ AllWaiting(disp[n].snap) /\ disp[n].id \in Ids
    BY <1>0, <1>9, TaskAssumption DEF DispatchEnqueue, LoopKnows, LoopState, Task, Tokens
  <2> HIDE DEF k
  <2>1. CASE queue' = [queue EXCEPT ![n] = Append(@, k)]
             /\ disp' = [disp EXCEPT ![n] = Back(@, "walk")]
    <3> DEFINE d == Back(disp[n], "walk")
    <3>1. disp' = [disp EXCEPT ![n] = d]
      BY <2>1
    <3>2. d \in LoopState /\ LoopKnows(d, issued')
      BY Zenon, <1>0, <2>0, StoreTypes
         DEF Back, LoopState, LoopKnows, LoopPcs, IInv, StoreOK
    <3>3. QueueOK'
      <4>1. queue' \in [Nodes -> Seq(Tokens)]
        BY <2>0, <2>1 DEF IInv, QueueOK
      <4>2. ASSUME NEW m \in Nodes, NEW i \in 1..Len(queue'[m])
            PROVE  queue'[m][i] <= issued'
        <5>1. CASE m # n
          BY <5>1, <4>2, <2>1, <1>9 DEF IInv, QueueOK, DispatchEnqueue
        <5>2. CASE m = n
          <6>1. queue[n] \in Seq(Tokens) /\ queue'[m] = Append(queue[n], k)
            BY <2>1, <5>2 DEF IInv, QueueOK
          <6>2. CASE i <= Len(queue[n])
            BY <6>1, <6>2, <5>2, <1>9 DEF IInv, QueueOK, DispatchEnqueue
          <6>3. CASE i = Len(queue[n]) + 1
            BY <6>1, <6>3, <2>0, <1>9 DEF DispatchEnqueue
          <6> QED BY <6>1, <6>2, <6>3
        <5> QED BY <5>1, <5>2
      <4> QED BY <4>1, <4>2 DEF QueueOK
    <3> QED BY Zenon, <1>9, <3>1, <3>2, <3>3, LoopMoves, Frame, FencedKeep
            DEF DispatchEnqueue, IInv, StoreOK
  <2>2. CASE UNCHANGED queue /\ disp' = [disp EXCEPT ![n].pc = "rollback"]
    <3> DEFINE d == [disp[n] EXCEPT !.pc = "rollback"]
    <3>1. disp' = [disp EXCEPT ![n] = d]
      BY <2>2
    <3>2. d \in LoopState /\ LoopKnows(d, issued')
      BY <1>0, <1>9 DEF DispatchEnqueue, LoopState, LoopKnows, LoopPcs
    <3> QED BY Zenon, <1>9, <2>2, <3>1, <3>2, LoopMoves, Frame, FencedKeep
            DEF DispatchEnqueue, IInv, StoreOK
  <2> QED BY <1>9, <2>1, <2>2 DEF DispatchEnqueue, k
<1>10. CASE DispatchRollback(n)
  <2> DEFINE d == [disp[n] EXCEPT !.pc = "unreserve"]
             t == RolledBack(disp[n].t)
  <2>1. disp' = [disp EXCEPT ![n] = d]
    BY <1>10 DEF DispatchRollback
  <2>2. d \in LoopState /\ LoopKnows(d, issued')
    BY <1>0, <1>10 DEF DispatchRollback, LoopState, LoopKnows, LoopPcs
  <2>3. disp[n].id \in Ids /\ t \in Task /\ t.status # "running"
    BY Zenon, <1>0, <1>10, RecordTypes DEF DispatchRollback, LoopKnows, LoopState
  <2>4. LeaseIsFenced' /\ GrantOK' /\ StoreOK' /\ Once
    BY <1>10, <2>3, FencedSettle DEF DispatchRollback, IInv, Ends
  <2> QED BY Zenon, <1>10, <2>1, <2>2, <2>4, LoopMoves, Frame DEF DispatchRollback, IInv
<1>11. CASE DispatchUnreserve(n)
  <2> DEFINE d == Back(disp[n], "walk")
  <2>1. disp' = [disp EXCEPT ![n] = d]
    BY <1>11 DEF DispatchUnreserve
  <2>2. d \in LoopState /\ LoopKnows(d, issued')
    BY Zenon, <1>0, <1>11, StoreTypes
       DEF DispatchUnreserve, Back, LoopState, LoopKnows, LoopPcs, IInv, StoreOK
  <2>3. NodeOK'
    BY Zenon, <1>11, RunningMoves DEF DispatchUnreserve, Unreserved, IInv
  <2> QED BY Zenon, <1>11, <2>1, <2>2, <2>3, LoopMoves, Frame, FencedKeep
          DEF DispatchUnreserve, IInv, StoreOK
<1>12. CASE DispatchDone(n)
  BY Zenon, <1>12, IdleStates, LoopMoves, Frame, FencedKeep
     DEF DispatchDone, IInv, StoreOK
<1> QED BY SMTT(30), <1>1, <1>2, <1>3, <1>4, <1>5, <1>6, <1>7, <1>8, <1>9, <1>10, <1>11, <1>12
        DEF Dispatch

\* Heartbeats renew leases and end none.
LEMMA RenewKeeps ==
    ASSUME StoreOK, GrantOK, LeaseIsFenced, UNCHANGED <<grant, issued>>, NEW w,
           tasks' = RenewWorkerTaskLeases(tasks, w)
    PROVE  StoreOK' /\ LeaseIsFenced' /\ GrantOK' /\ Once
<1>1. ASSUME NEW id \in Ids
      PROVE  /\ tasks'[id] \in Task /\ tasks'[id].status = tasks[id].status
             /\ tasks'[id].token = tasks[id].token
  <2>1. tasks[id] \in Task
    BY DEF StoreOK
  <2>2. /\ [tasks[id] EXCEPT !.lease = "live"] \in Task
        /\ [tasks[id] EXCEPT !.lease = "live"].status = tasks[id].status
        /\ [tasks[id] EXCEPT !.lease = "live"].token = tasks[id].token
    BY <2>1 DEF Task
  <2>3. tasks'[id] \in {tasks[id], [tasks[id] EXCEPT !.lease = "live"]}
    BY DEF RenewWorkerTaskLeases
  <2> QED BY Zenon, <2>1, <2>2, <2>3
<1>2. StoreOK'
  BY <1>1 DEF StoreOK, RenewWorkerTaskLeases
<1> QED BY <1>1, <1>2, FencedKeep

\* A worker's entry in a registry changes.
LEMMA WorkersMove ==
    ASSUME NodeOK, UNCHANGED <<node, running>>, NEW n \in Nodes, NEW w,
           NEW v \in {"absent", "live", "lapsed"},
           workers' = [workers EXCEPT ![n][w] = v]
    PROVE  NodeOK'
  BY Zenon DEF NodeOK

\* The heartbeat ticker of the dispatching goroutine.
LEMMA LocalHeartbeatStep ==
    ASSUME IInv, NEW n \in Nodes, LocalHeartbeat(n)
    PROVE  IInv' /\ Once
<1>1. NodeOK'
  BY Zenon, WorkersMove DEF LocalHeartbeat, IInv
<1> QED BY <1>1, RenewKeeps, Frame DEF LocalHeartbeat, IInv

-----------------------------------------------------------------------------
(* The worker goroutines.                                                  *)

\* The steps of the goroutine in slot s.
LEMMA ExecuteStep ==
    ASSUME IInv, NEW n \in Nodes, NEW s \in Slots, Execute(n, s)
    PROVE  IInv' /\ Once
<1>0. exec[n][s] \in SlotState /\ SlotKnows(exec[n][s], issued)
  BY Zenon DEF IInv, SlotOK
<1> DEFINE k == exec[n][s].token
<1>a. exec[n][s].pc # "idle" => k \in 1..issued /\ grant[k].id \in Ids
  <2>1. exec[n][s].pc # "idle" => k \in 1..issued
    BY <1>0, TaskAssumption DEF SlotKnows, SlotState, IInv, GrantOK
  <2> QED BY <2>1 DEF IInv, GrantOK
<1>1. CASE Take(n, s)
  <2> DEFINE h == Head(queue[n])
             x == [IdleSlot EXCEPT !.pc = "check", !.token = h, !.aborted = node[n] # "up"]
  <2>1. /\ queue[n] \in Seq(Tokens) /\ queue[n] # <<>>
        /\ \A i \in 1..Len(queue[n]) : queue[n][i] <= issued
    BY <1>1 DEF Take, IInv, QueueOK
  <2>2. /\ h \in Tokens /\ h <= issued /\ Tail(queue[n]) \in Seq(Tokens)
        /\ \A i \in 1..Len(Tail(queue[n])) : Tail(queue[n])[i] <= issued
    BY <2>1
  <2>3. exec' = [exec EXCEPT ![n][s] = x]
    BY <1>1 DEF Take
  <2> HIDE DEF h
  <2>4. x \in SlotState /\ SlotKnows(x, issued)
    <3>1. h \in 0..MaxGrants /\ h > 0
      BY <2>2, TaskAssumption DEF Tokens
    <3> DEFINE a == (node[n] # "up")
    <3>2. a \in BOOLEAN
      OBVIOUS
    <3> HIDE DEF a
    <3>3. [IdleSlot EXCEPT !.pc = "check", !.token = h, !.aborted = a] \in SlotState
      BY Zenon, <3>1, <3>2, IdleStates DEF SlotState, SlotPcs
    <3>4. x = [IdleSlot EXCEPT !.pc = "check", !.token = h, !.aborted = a]
      BY DEF a
    <3>5. x.token = h
      BY <3>4, IdleStates DEF SlotState
    <3> QED BY <2>2, <3>1, <3>3, <3>4, <3>5 DEF SlotKnows
  <2> HIDE DEF x
  <2>5. QueueOK'
    <3>1. queue' = [queue EXCEPT ![n] = Tail(queue[n])] /\ UNCHANGED issued
      BY <1>1 DEF Take
    <3> QED BY <2>2, <3>1 DEF QueueOK, IInv
  <2> QED BY ZenonT(60), <1>1, <2>3, <2>4, <2>5, SlotMoves, Frame, FencedKeep
             DEF Take, IInv, StoreOK
<1>2. CASE ExecCheck(n, s)
  <2> DEFINE x == [exec[n][s] EXCEPT !.pc = IF StillOurs(k) THEN "begin" ELSE "drop"]
  <2>1. exec' = [exec EXCEPT ![n][s] = x]
    BY <1>2 DEF ExecCheck
  <2>2. x \in SlotState /\ SlotKnows(x, issued)
    BY <1>0, <1>2 DEF ExecCheck, SlotState, SlotKnows, SlotPcs
  <2> QED BY Zenon, <1>2, <2>1, <2>2, SlotMoves, Frame, FencedKeep
             DEF ExecCheck, IInv, StoreOK
<1>3. CASE ExecBegin(n, s)
  <2> DEFINE x == [exec[n][s] EXCEPT !.pc = "handler"]
  <2>1. exec' = [exec EXCEPT ![n][s] = x]
    BY <1>3 DEF ExecBegin
  <2>2. x \in SlotState /\ SlotKnows(x, issued)
    BY <1>0, <1>3 DEF ExecBegin, SlotState, SlotKnows, SlotPcs
  <2>3. NodeOK'
    BY Zenon, <1>3, RunningMoves DEF ExecBegin, IInv
  <2> QED BY Zenon, <1>3, <2>1, <2>2, <2>3, SlotMoves, Frame, FencedKeep
          DEF ExecBegin, IInv, StoreOK
<1>4. CASE ExecReturn(n, s)
  <2>1. CASE exec' = [exec EXCEPT ![n][s].pc = "release"]
    <3> DEFINE x == [exec[n][s] EXCEPT !.pc = "release"]
    <3>1. exec' = [exec EXCEPT ![n][s] = x]
      BY <2>1
    <3>2. x \in SlotState /\ SlotKnows(x, issued)
      BY Zenon, <1>0, <1>4 DEF ExecReturn, SlotState, SlotKnows, SlotPcs
    <3> QED BY Zenon, <1>4, <3>1, <3>2, SlotMoves, Frame, FencedKeep
               DEF ExecReturn, IInv, StoreOK
  <2>2. ASSUME NEW ok \in BOOLEAN,
               exec' = [exec EXCEPT ![n][s].pc = "finish", ![n][s].ok = ok,
                                    ![n][s].t = tasks[grant[k].id]]
        PROVE  IInv' /\ Once
    <3> DEFINE x == [exec[n][s] EXCEPT !.pc = "finish", !.ok = ok,
                                       !.t = tasks[grant[k].id]]
    <3>1. exec' = [exec EXCEPT ![n][s] = x]
      BY Zenon, <2>2
    <3>2. tasks[grant[k].id] \in Task
      BY Zenon, <1>a, <1>4 DEF ExecReturn, IInv, StoreOK
    <3>3. x \in SlotState /\ SlotKnows(x, issued)
      BY Zenon, <1>0, <1>4, <3>2 DEF ExecReturn, SlotState, SlotKnows, SlotPcs
    <3> QED BY Zenon, <1>4, <3>1, <3>3, SlotMoves, Frame, FencedKeep
               DEF ExecReturn, IInv, StoreOK
  <2> QED BY Zenon, <1>4, <2>1, <2>2 DEF ExecReturn
<1>5. CASE ExecFinish(n, s)
  <2> DEFINE x == [exec[n][s] EXCEPT !.pc = "release"]
             id == grant[k].id
             t == exec[n][s].t
             ok == exec[n][s].ok
  <2>1. exec' = [exec EXCEPT ![n][s] = x]
    BY SMTT(30), <1>5 DEF ExecFinish
  <2>2. x \in SlotState /\ SlotKnows(x, issued)
    BY SMTT(30), <1>0, <1>5 DEF ExecFinish, SlotState, SlotKnows, SlotPcs
  <2>3. id \in Ids /\ t \in Task /\ ok \in BOOLEAN
    BY Zenon, <1>0, <1>a, <1>5 DEF ExecFinish, SlotState
  <2>4. Settle(id, t.token, Finished(id, t, ok), Verdict(id, t, ok)) /\ UNCHANGED issued
    BY <1>5 DEF ExecFinish
  <2> HIDE DEF x, id, t, ok
  <2>5. LeaseIsFenced' /\ GrantOK' /\ StoreOK' /\ Once
    BY <2>3, <2>4, FinishedType, FencedSettle DEF IInv, Ends
  <2> QED BY Zenon, <1>5, <2>1, <2>2, <2>5, SlotMoves, Frame DEF ExecFinish, IInv
<1>6. CASE ExecRelease(n, s)
  <2>1. NodeOK'
    BY Zenon, <1>6, RunningMoves DEF ExecRelease, Unreserved, IInv
  <2> QED BY Zenon, <1>6, <2>1, IdleStates, SlotMoves, Frame, FencedKeep
          DEF ExecRelease, IInv, StoreOK
<1> QED BY <1>1, <1>2, <1>3, <1>4, <1>5, <1>6 DEF Execute

-----------------------------------------------------------------------------
(* Start, Stop and crashes.                                                *)

\* A write, guarded or not, that ends the lease of task id if it has one and
\* leaves the task not running (recoverRunning on a restart, Purge).
LEMMA FencedOverwrite ==
    ASSUME LeaseIsFenced, GrantOK, StoreOK, UNCHANGED issued,
           NEW id \in Ids, NEW t \in Task, NEW end \in Ends \ {"open"},
           t.status # "running",
           tasks' = [tasks EXCEPT ![id] = t],
           tasks[id].status = "running" => grant' = [grant EXCEPT ![tasks[id].token].end = end],
           tasks[id].status # "running" => UNCHANGED grant
    PROVE  LeaseIsFenced' /\ GrantOK' /\ StoreOK' /\ Once
<1>1. CASE tasks[id].status = "running"
  <2>1. Settle(id, tasks[id].token, t, end)
    BY <1>1 DEF Settle, UpdateIfState, InState
  <2> QED BY <2>1, FencedSettle
<1>2. CASE tasks[id].status # "running"
  <2>1. ASSUME NEW j \in Ids
        PROVE  /\ tasks'[j].status = "running" <=> tasks[j].status = "running"
               /\ tasks[j].status = "running" => tasks'[j].token = tasks[j].token
    BY <1>2 DEF StoreOK
  <2>2. UNCHANGED <<grant, issued>> /\ StoreOK'
    BY <1>2 DEF StoreOK
  <2> QED BY <2>1, <2>2, FencedKeep
<1> QED BY <1>1, <1>2

\* The life of a process.
LEMMA StartStopStep ==
    ASSUME IInv, NEW n \in Nodes, StartStop(n)
    PROVE  IInv' /\ Once
<1>0. disp[n] \in LoopState /\ LoopKnows(disp[n], issued)
  BY DEF IInv, LoopOK
<1>1. CASE Start(n)
  <2>1. NodeOK'
    BY Zenon, <1>1 DEF Start, IInv, NodeOK
  <2>2. LeaseIsFenced' /\ GrantOK' /\ StoreOK' /\ Once
    <3>1. CASE SharedStore
      BY <1>1, <3>1, FencedKeep DEF Start, IInv, StoreOK
    <3>2. CASE ~SharedStore
      <4>1. /\ tasks' = [id \in Ids |-> IF tasks[id].status = "running"
                                        THEN Requeued(tasks[id]) ELSE tasks[id]]
            /\ grant' = [k \in Tokens |-> IF grant[k].end = "open"
                             THEN [grant[k] EXCEPT !.end = "recovered"] ELSE grant[k]]
            /\ UNCHANGED issued
        BY <1>1, <3>2 DEF Start
      <4>2. ASSUME NEW id \in Ids
            PROVE  tasks'[id] \in Task /\ tasks'[id].status # "running"
        BY ZenonT(30), <4>1, RecordTypes DEF IInv, StoreOK
      <4>3. ASSUME NEW k \in Tokens
            PROVE  /\ grant'[k] \in [id : Ids \cup {NoId}, holder : Labels, end : Ends]
                   /\ grant'[k].id = grant[k].id /\ grant'[k].end # "open"
                   /\ grant[k].end # "open" => grant'[k] = grant[k]
        BY <4>1 DEF IInv, GrantOK, Ends
      <4>4. 1..issued \subseteq Tokens
        BY TaskAssumption DEF IInv, GrantOK, Tokens
      <4>5. StoreOK' /\ GrantOK' /\ Once
        BY <4>1, <4>2, <4>3, <4>4 DEF StoreOK, GrantOK, Once, IInv
      <4>6. LeaseIsFenced'
        BY Zenon, <4>1, <4>2, <4>3, <4>4 DEF LeaseIsFenced
      <4> QED BY <4>5, <4>6
    <3> QED BY <3>1, <3>2
  <2> QED BY <1>1, <2>1, <2>2, Frame DEF Start, IInv
<1>2. CASE Stop(n)
  <2>1. NodeOK'
    BY Zenon, <1>2 DEF Stop, IInv, NodeOK
  <2>2. SlotOK'
    <3> DEFINE x(s) == [exec[n][s] EXCEPT !.aborted = exec[n][s].pc # "idle"]
    <3>1. exec' = [exec EXCEPT ![n] = [s \in Slots |-> x(s)]] /\ UNCHANGED issued
      BY <1>2 DEF Stop
    <3>2. ASSUME NEW s \in Slots PROVE x(s) \in SlotState /\ SlotKnows(x(s), issued)
      <4>1. exec[n][s] \in SlotState /\ SlotKnows(exec[n][s], issued)
        BY DEF IInv, SlotOK
      <4> DEFINE a == (exec[n][s].pc # "idle")
      <4>2. a \in BOOLEAN
        OBVIOUS
      <4> HIDE DEF a
      <4>3. /\ [exec[n][s] EXCEPT !.aborted = a] \in SlotState
            /\ SlotKnows([exec[n][s] EXCEPT !.aborted = a], issued)
        BY <4>1, <4>2 DEF SlotState, SlotKnows
      <4> QED BY <4>3 DEF a
    <3> HIDE DEF x
    <3> QED BY <3>1, <3>2 DEF SlotOK, IInv
  <2> QED BY <1>2, <2>1, <2>2, Frame, FencedKeep DEF Stop, IInv, StoreOK
<1>3. CASE RequeueList(n)
  <2> DEFINE S == {id \in Ids : tasks[id].status = "running" /\ tasks[id].worker = n}
             d == [disp[n] EXCEPT !.pc = "requeue", !.snap = Listing(tasks, S)]
  <2>1. disp' = [disp EXCEPT ![n] = d]
    BY Zenon, <1>3 DEF RequeueList
  <2>2. d \in LoopState /\ LoopKnows(d, issued')
    <3>1. Listing(tasks, S) \in Snapshots
      BY StoreTypes DEF IInv, StoreOK
    <3> HIDE DEF S
    <3> QED BY Zenon, <1>0, <3>1 DEF LoopState, LoopKnows, LoopPcs
  <2> QED BY <1>3, <2>1, <2>2, LoopMoves, Frame, FencedKeep DEF RequeueList, IInv, StoreOK
<1>4. ASSUME NEW id \in Ids, RequeueWrite(n, id) PROVE IInv' /\ Once
  <2> DEFINE d == [disp[n] EXCEPT !.snap = Without(@, id)]
             t == disp[n].snap[id]
  <2>1. disp' = [disp EXCEPT ![n] = d]
    BY SMTT(30), <1>4 DEF RequeueWrite
  <2>2. t \in Task /\ Without(disp[n].snap, id) \in Snapshots
    BY <1>0, StoreTypes DEF LoopState, Snapshots
  <2>3. d \in LoopState /\ LoopKnows(d, issued')
    BY <1>0, <1>4, <2>2 DEF RequeueWrite, LoopState, LoopKnows, LoopPcs
  <2>4. Settle(id, t.token, Requeued(t), "requeued") /\ UNCHANGED issued
    BY <1>4 DEF RequeueWrite
  <2> HIDE DEF d, t
  <2>5. LeaseIsFenced' /\ GrantOK' /\ StoreOK' /\ Once
    BY Zenon, <2>2, <2>4, RecordTypes, FencedSettle DEF IInv, Ends
  <2> QED BY Zenon, <1>4, <2>1, <2>3, <2>5, LoopMoves, Frame DEF RequeueWrite, IInv
<1>5. CASE Stopped(n)
  <2>1. NodeOK'
    BY Zenon, <1>5 DEF Stopped, IInv, NodeOK
  <2> QED BY Zenon, <1>5, <2>1, IdleStates, LoopMoves, Frame, FencedKeep
             DEF Stopped, IInv, StoreOK
<1>6. CASE Restart(n)
  <2> DEFINE snap == IF SharedStore THEN Empty ELSE ListRunning(tasks)
             d == [disp[n] EXCEPT !.pc = "recover", !.snap = snap]
  <2>1. disp' = [disp EXCEPT ![n] = d]
    BY Zenon, <1>6 DEF Restart
  <2>2. d \in LoopState /\ LoopKnows(d, issued')
    <3>1. snap \in Snapshots
      BY StoreTypes DEF ListRunning, IInv, StoreOK
    <3> HIDE DEF snap
    <3> QED BY Zenon, <1>0, <1>6, <3>1 DEF Restart, LoopState, LoopKnows, LoopPcs
  <2> HIDE DEF d
  <2>3. NodeOK'
    BY Zenon, <1>6 DEF Restart, IInv, NodeOK
  <2> QED BY Zenon, <1>6, <2>1, <2>2, <2>3, LoopMoves, Frame, FencedKeep
             DEF Restart, IInv, StoreOK
<1>7. ASSUME NEW id \in Ids, RecoverWrite(n, id) PROVE IInv' /\ Once
  <2> DEFINE d == [disp[n] EXCEPT !.snap = Without(@, id)]
             t == disp[n].snap[id]
  <2>1. disp' = [disp EXCEPT ![n] = d]
    BY <1>7 DEF RecoverWrite
  <2>2. t \in Task /\ Without(disp[n].snap, id) \in Snapshots
    BY <1>0, StoreTypes DEF LoopState, Snapshots
  <2>3. d \in LoopState /\ LoopKnows(d, issued')
    BY <1>0, <1>7, <2>2 DEF RecoverWrite, LoopState, LoopKnows, LoopPcs
  <2>4. /\ tasks' = Update(tasks, id, Requeued(t)) /\ UNCHANGED issued
        /\ grant' = IF tasks[id].status = "running"
                    THEN [grant EXCEPT ![tasks[id].token].end = "recovered"] ELSE grant
    BY <1>7 DEF RecoverWrite
  <2> HIDE DEF d, t
  <2>5. Requeued(t) \in Task /\ Requeued(t).status # "running"
    BY Zenon, <2>2, RecordTypes
  <2>6. LeaseIsFenced' /\ GrantOK' /\ StoreOK' /\ Once
    <3>1. CASE Exists(tasks, id)
      <4>1. /\ tasks' = [tasks EXCEPT ![id] = Requeued(t)] /\ UNCHANGED issued
            /\ tasks[id].status = "running" =>
                 grant' = [grant EXCEPT ![tasks[id].token].end = "recovered"]
            /\ tasks[id].status # "running" => UNCHANGED grant
        BY <3>1, <2>4 DEF Update
      <4>2. "recovered" \in Ends \ {"open"}
        BY DEF Ends
      <4> QED BY Zenon, <4>1, <4>2, <2>5, FencedOverwrite DEF IInv
    <3>2. CASE ~Exists(tasks, id)
      BY <3>2, <2>4, FencedKeep DEF Update, Exists, IInv, StoreOK
    <3> QED BY <3>1, <3>2
  <2> QED BY Zenon, <1>7, <2>1, <2>3, <2>6, LoopMoves, Frame DEF RecoverWrite, IInv
<1>8. CASE Restarted(n)
  <2>1. NodeOK'
    BY Zenon, <1>8 DEF Restarted, IInv, NodeOK
  <2> QED BY Zenon, <1>8, <2>1, IdleStates, LoopMoves, Frame, FencedKeep
             DEF Restarted, IInv, StoreOK
<1>9. CASE Crash(n)
  <2>1. NodeOK'
    BY Zenon, <1>9 DEF Crash, IInv, NodeOK
  <2>2. QueueOK'
    <3>1. queue' = [queue EXCEPT ![n] = <<>>] /\ UNCHANGED issued
      BY <1>9 DEF Crash
    <3> QED BY <3>1 DEF QueueOK, IInv
  <2>3. SlotOK'
    <3>1. exec' = [exec EXCEPT ![n] = [s \in Slots |-> IdleSlot]] /\ UNCHANGED issued
      BY <1>9 DEF Crash
    <3> QED BY <3>1, IdleStates DEF SlotOK, IInv
  <2>4. CallOK'
    <3>1. call' = [c \in Callers |-> IF call[c].node = n THEN IdleCall ELSE call[c]]
      BY SMTT(30), <1>9 DEF Crash
    <3> QED BY <3>1, IdleStates DEF CallOK, IInv
  <2> QED BY Zenon, <1>9, <2>1, <2>2, <2>3, <2>4, IdleStates, LoopMoves, FencedKeep
          DEF Crash, IInv, StoreOK
<1> QED BY SMTT(30), <1>1, <1>2, <1>3, <1>4, <1>5, <1>6, <1>7, <1>8, <1>9 DEF StartStop

-----------------------------------------------------------------------------
(* Workers and clients.                                                    *)

\* ClaimDue: one transaction fails broken candidates, which are waiting, and
\* starts at most one lease, on a task that is waiting.
LEMMA ClaimDueStep ==
    ASSUME IInv, NEW n \in Nodes, NEW w \in Workers, ClaimDue(n, w)
    PROVE  IInv' /\ Once
<1> DEFINE due == {id \in Ids : Claimable(tasks[id])}
           broken == {id \in due : DepsBroken(tasks, id)}
           fail(F) == [id \in Ids |-> IF id \in F THEN DepFailed(tasks[id]) ELSE tasks[id]]
<1>0. ASSUME NEW F \in SUBSET broken, NEW id \in Ids
      PROVE  /\ fail(F)[id] \in Task
             /\ fail(F)[id].status = "running" <=> tasks[id].status = "running"
             /\ tasks[id].status = "running" => fail(F)[id] = tasks[id]
  <2>1. id \in F => tasks[id].status # "running"
    BY DEF Claimable
  <2>2. tasks[id] \in Task
    BY SMTT(30) DEF IInv, StoreOK
  <2> QED BY Zenon, <2>1, <2>2, RecordTypes
<1>1. ASSUME NEW F \in SUBSET broken, tasks' = fail(F), UNCHANGED <<grant, issued>>
      PROVE  LeaseIsFenced' /\ GrantOK' /\ StoreOK' /\ Once
  <2>1. StoreOK'
    BY Zenon, <1>0, <1>1 DEF StoreOK
  <2> HIDE DEF broken, fail
  <2> QED BY Zenon, <1>0, <1>1, <2>1, FencedKeep DEF IInv
<1>2. ASSUME NEW F \in SUBSET broken, NEW id \in due,
             issued < MaxGrants, issued' = issued + 1,
             tasks' = [fail(F) EXCEPT ![id] = Granted(tasks[id], w, issued + 1)],
             grant' = [grant EXCEPT ![issued + 1] =
                         [id |-> id, holder |-> w, end |-> "open"]]
      PROVE  LeaseIsFenced' /\ GrantOK' /\ StoreOK' /\ Once
  <2> DEFINE k == issued + 1
             u == Granted(tasks[id], w, k)
  <2>1. k \in Tokens /\ k \in 0..MaxGrants /\ issued \in Nat /\ w \in Labels
    BY SMTT(30), <1>2, TaskAssumption DEF IInv, GrantOK, Tokens, Labels
  <2>2. id \in Ids /\ tasks[id] \in Task /\ tasks[id].status # "running"
    BY SMTT(30) DEF IInv, StoreOK, Claimable
  <2>3. u \in Task /\ u.status = "running" /\ u.token = k
    BY <2>1, <2>2, GrantedType
  <2>4. tasks' = [fail(F) EXCEPT ![id] = u]
    BY SMTT(30), <1>2
  <2> HIDE DEF u, broken, due
  <2>5. /\ tasks' \in [Ids -> Task] /\ tasks'[id] = u
        /\ \A j \in Ids : j # id => tasks'[j] = fail(F)[j]
    BY ZenonT(60), <1>0, <2>2, <2>3, <2>4
  <2> HIDE DEF fail
  <2>6. /\ grant' \in [Tokens -> [id : Ids \cup {NoId}, holder : Labels, end : Ends]]
        /\ grant'[k].id = id /\ grant'[k].end = "open"
        /\ \A j \in 1..issued : grant'[j] = grant[j]
    <3>1. grant \in [Tokens -> [id : Ids \cup {NoId}, holder : Labels, end : Ends]]
      BY DEF IInv, GrantOK
    <3>a. issued < MaxGrants
      BY <1>2
    <3>2. 1..issued \subseteq Tokens /\ k \notin 1..issued
      BY <2>1, <3>a, TaskAssumption DEF Tokens
    <3>3. grant' = [grant EXCEPT ![k] = [id |-> id, holder |-> w, end |-> "open"]]
      BY <1>2
    <3> HIDE DEF k
    <3> QED BY <2>1, <2>2, <3>1, <3>2, <3>3 DEF Ends
  <2>7. \A j \in 1..issued' : j = k \/ j \in 1..issued
    BY SMTT(30), <1>2, <2>1
  <2>8. GrantOK'
    BY <1>2, <2>1, <2>2, <2>6, <2>7 DEF IInv, GrantOK, Tokens
  <2>9. ASSUME NEW j \in 1..issued, grant'[j].end = "open"
        PROVE  tasks'[grant'[j].id].status = "running" /\ tasks'[grant'[j].id].token = j
    <3>1. /\ grant[j].id \in Ids /\ tasks[grant[j].id].status = "running"
          /\ tasks[grant[j].id].token = j
      BY SMTT(30), <2>6, <2>9 DEF IInv, LeaseIsFenced, GrantOK
    <3>2. grant[j].id # id /\ fail(F)[grant[j].id] = tasks[grant[j].id]
      BY <3>1, <2>2, <1>0
    <3> QED BY Zenon, <3>1, <3>2, <2>5, <2>6
  <2>10. ASSUME NEW i \in Ids, tasks'[i].status = "running"
         PROVE  /\ tasks'[i].token \in 1..issued'
                /\ grant'[tasks'[i].token].id = i
                /\ grant'[tasks'[i].token].end = "open"
    <3>1. CASE i = id
      <4>1. tasks'[i].token = k /\ k \in 1..issued'
        BY Zenon, <3>1, <1>2, <2>1, <2>3, <2>5, TokensGrow
      <4> QED BY Zenon, <3>1, <4>1, <2>6
    <3>2. CASE i # id
      <4>1. tasks[i].status = "running" /\ tasks'[i] = tasks[i]
        BY SMTT(30), <3>2, <2>5, <2>10, <1>0
      <4>2. /\ tasks[i].token \in 1..issued
            /\ grant[tasks[i].token].id = i
            /\ grant[tasks[i].token].end = "open"
        BY Zenon, <4>1 DEF IInv, LeaseIsFenced
      <4>3. tasks[i].token \in 1..issued'
        BY Zenon, <4>2, <1>2, <2>1, TokensGrow
      <4> QED BY Zenon, <4>1, <4>2, <4>3, <2>6
    <3> QED BY ZenonT(60), <3>1, <3>2
  <2>11. LeaseIsFenced'
    <3> HIDE DEF k
    <3>1. ASSUME NEW j \in 1..issued', grant'[j].end = "open"
          PROVE  tasks'[grant'[j].id].status = "running" /\ tasks'[grant'[j].id].token = j
      <4>1. CASE j = k
        BY Zenon, <4>1, <2>3, <2>5, <2>6
      <4>2. CASE j \in 1..issued
        BY Zenon, <4>2, <3>1, <2>9
      <4> QED BY Zenon, <4>1, <4>2, <2>7
    <3> QED BY Zenon, <3>1, <2>10 DEF LeaseIsFenced
  <2> QED BY SMTT(30), <2>5, <2>6, <2>8, <2>11 DEF StoreOK, Once
<1>3. /\ LeaseIsFenced' /\ GrantOK' /\ StoreOK' /\ Once
      /\ issued' = issued \/ issued' = issued + 1
  BY Zenon, <1>1, <1>2 DEF ClaimDue
<1> QED BY <1>3, Frame DEF ClaimDue, IInv

\* The steps of Claim on a store that is no AtomicClaimer.
LEMMA ClaimStep ==
    ASSUME IInv, NEW c \in Callers, Claim(c)
    PROVE  IInv' /\ Once
<1> DEFINE p == call[c]
<1>0. p \in CallState /\ CallKnows(p)
  BY DEF IInv, CallOK
<1>1. ASSUME NEW id \in Ids, ClaimConsider(c, id) PROVE IInv' /\ Once
  <2> DEFINE q == Consider(p, id)
  <2>1. call' = [call EXCEPT ![c] = q]
    BY <1>1 DEF ClaimConsider
  <2>2. q \in CallState /\ CallKnows(q)
    <3>1. p.pc = "walk" /\ AllWaiting(p.snap) /\ p.snap \in Snapshots /\ id \in Listed(p.snap)
      BY <1>0, <1>1 DEF ClaimConsider, CallKnows, CallState
    <3> HIDE DEF p
    <3> QED BY SMTT(30), <1>0, <3>1, ConsiderKnows
  <2> HIDE DEF q
  <2> QED BY Zenon, <1>1, <2>1, <2>2, CallMoves, Frame, FencedKeep
             DEF ClaimConsider, IInv, StoreOK
<1>2. CASE ClaimFail(c)
  <2> DEFINE q == Back(p, "walk")
  <2>1. call' = [call EXCEPT ![c] = q]
    BY <1>2 DEF ClaimFail
  <2>2. q \in CallState /\ CallKnows(q)
    BY Zenon, <1>0, <1>2, StoreTypes
       DEF ClaimFail, Back, CallState, CallKnows, CallPcs, IInv, StoreOK
  <2>3. StoreOK' /\ LeaseIsFenced' /\ GrantOK' /\ Once
    BY <1>0, <1>2, FailUnreadyKeeps DEF ClaimFail, CallState, CallKnows, IInv
  <2> QED BY Zenon, <1>2, <2>1, <2>2, <2>3, CallMoves, Frame DEF ClaimFail, IInv
<1>3. CASE ClaimReserve(c)
  <2>0. p.node \in Nodes /\ p.pc = "reserve"
    BY <1>0, <1>3 DEF ClaimReserve, CallKnows
  <2>1. NodeOK'
    BY Zenon, <1>3, <2>0, RunningMoves, Frame DEF ClaimReserve, IInv
  <2>2. CallOK'
    <3>1. CASE call' = [call EXCEPT ![c].pc = "claimRead"]
      <4> DEFINE q == [p EXCEPT !.pc = "claimRead"]
      <4>1. call' = [call EXCEPT ![c] = q]
        BY <3>1
      <4>2. q \in CallState /\ CallKnows(q)
        BY <1>0, <2>0 DEF CallState, CallKnows, CallPcs
      <4> QED BY Zenon, <4>1, <4>2, CallMoves DEF IInv
    <3>2. CASE call' = [call EXCEPT ![c] = Back(@, "walk")]
      <4> DEFINE q == Back(p, "walk")
      <4>1. call' = [call EXCEPT ![c] = q]
        BY <3>2
      <4>2. q \in CallState /\ CallKnows(q)
        BY Zenon, <1>0, <2>0, StoreTypes
           DEF Back, CallState, CallKnows, CallPcs, IInv, StoreOK
      <4> QED BY Zenon, <4>1, <4>2, CallMoves DEF IInv
    <3> QED BY <1>3, <3>1, <3>2 DEF ClaimReserve
  <2> QED BY <1>3, <2>1, <2>2, Frame, FencedKeep DEF ClaimReserve, IInv, StoreOK
<1>4. CASE ClaimRead(c)
  <2>0. p.id \in Ids /\ tasks[p.id] \in Task /\ p.pc = "claimRead"
    BY <1>0, <1>4 DEF ClaimRead, CallKnows, IInv, StoreOK
  <2>1. CASE Claimable(tasks[p.id])
    <3> DEFINE q == [p EXCEPT !.pc = "claimWrite", !.t = tasks[p.id]]
    <3>1. call' = [call EXCEPT ![c] = q]
      BY Zenon, <1>4, <2>1 DEF ClaimRead
    <3>2. q \in CallState /\ CallKnows(q)
      BY Zenon, <1>0, <2>0, <2>1 DEF CallState, CallKnows, CallPcs, Claimable, Waiting
    <3> QED BY Zenon, <1>4, <3>1, <3>2, CallMoves, Frame, FencedKeep
               DEF ClaimRead, IInv, StoreOK
  <2>2. CASE ~Claimable(tasks[p.id])
    <3> DEFINE q == [p EXCEPT !.pc = "unreserve"]
    <3>1. call' = [call EXCEPT ![c] = q]
      BY <1>4, <2>2 DEF ClaimRead
    <3>2. q \in CallState /\ CallKnows(q)
      BY <1>0, <2>0 DEF CallState, CallKnows, CallPcs
    <3> QED BY Zenon, <1>4, <3>1, <3>2, CallMoves, Frame, FencedKeep
               DEF ClaimRead, IInv, StoreOK
  <2> QED BY <2>1, <2>2
<1>5. CASE ClaimWrite(c)
  <2> DEFINE id == p.id
             t == p.t
             w == p.worker
  <2>0. /\ id \in Ids /\ t \in Task /\ t.status \in Waiting /\ w \in Labels
        /\ p.pc = "claimWrite"
    BY <1>0, <1>5 DEF ClaimWrite, CallKnows, CallState
  <2>1. CASE InState(tasks, id, t.status, t.token)
    <3>1. Issue(id, t, w, w) /\ call' = [call EXCEPT ![c] = IdleCall]
      BY <1>5, <2>1 DEF ClaimWrite
    <3>2. tasks[id].status # "running"
      BY Zenon, <2>0, <2>1 DEF InState, Waiting
    <3> HIDE DEF id, t, w
    <3>3. LeaseIsFenced' /\ GrantOK' /\ StoreOK' /\ Once /\ issued' = issued + 1
      BY Zenon, <2>0, <3>1, <3>2, FencedIssue DEF IInv
    <3> QED BY Zenon, <1>5, <3>1, <3>3, IdleStates, CallMoves, Frame DEF ClaimWrite, IInv
  <2>2. CASE ~InState(tasks, id, t.status, t.token)
    <3> DEFINE q == [p EXCEPT !.pc = "unreserve"]
    <3>1. call' = [call EXCEPT ![c] = q] /\ UNCHANGED <<tasks, grant, issued>>
      BY <1>5, <2>2 DEF ClaimWrite
    <3>2. q \in CallState /\ CallKnows(q)
      BY <1>0, <2>0 DEF CallState, CallKnows, CallPcs
    <3> QED BY Zenon, <1>5, <3>1, <3>2, CallMoves, Frame, FencedKeep
               DEF ClaimWrite, IInv, StoreOK
  <2> QED BY <2>1, <2>2
<1>6. CASE ClaimUnreserve(c)
  <2> DEFINE q == Back(p, "walk")
  <2>0. p.node \in Nodes /\ p.pc = "unreserve"
    BY <1>0, <1>6 DEF ClaimUnreserve, CallKnows
  <2>1. call' = [call EXCEPT ![c] = q]
    BY <1>6 DEF ClaimUnreserve
  <2>2. q \in CallState /\ CallKnows(q)
    BY Zenon, <1>0, <2>0, StoreTypes
       DEF Back, CallState, CallKnows, CallPcs, IInv, StoreOK
  <2>3. NodeOK'
    BY Zenon, <1>6, <2>0, RunningMoves DEF ClaimUnreserve, Unreserved, IInv
  <2> QED BY ZenonT(60), <1>6, <2>1, <2>2, <2>3, CallMoves, Frame, FencedKeep
          DEF ClaimUnreserve, IInv, StoreOK
<1>7. CASE ClaimNone(c)
  BY Zenon, <1>7, IdleStates, CallMoves, Frame, FencedKeep DEF ClaimNone, IInv, StoreOK
<1> QED BY <1>1, <1>2, <1>3, <1>4, <1>5, <1>6, <1>7 DEF Claim

\* The later steps of an API call.
LEMMA ServeStep ==
    ASSUME IInv, NEW c \in Callers, Serve(c)
    PROVE  IInv' /\ Once
<1> DEFINE p == call[c]
<1>0. p \in CallState /\ CallKnows(p)
  BY DEF IInv, CallOK
<1>1. CASE Claim(c)
  BY <1>1, ClaimStep
<1>2. CASE RenewWrite(c)
  <2> DEFINE u == [p.t EXCEPT !.lease = "live"]
  <2>1. p.t \in Task /\ p.t.status = "running" /\ p.t.token = p.token
    BY <1>0, <1>2 DEF RenewWrite, CallState, CallKnows
  <2>2. u \in Task /\ u.status = "running" /\ u.token = p.token
    BY <2>1 DEF Task
  <2>3. tasks' = UpdateIfState(tasks, p.id, "running", p.token, u)
    BY Zenon, <1>2 DEF RenewWrite, UpdateIfLease
  <2> HIDE DEF u, p
  <2>4. StoreOK'
    BY SMTT(30), <2>2, <2>3, StoreTypes DEF IInv, StoreOK
  <2>5. ASSUME NEW id \in Ids
        PROVE  /\ tasks'[id].status = "running" <=> tasks[id].status = "running"
               /\ tasks[id].status = "running" => tasks'[id].token = tasks[id].token
    BY <2>2, <2>3 DEF UpdateIfState, InState, IInv, StoreOK
  <2> QED BY Zenon, <1>2, <2>4, <2>5, IdleStates, CallMoves, Frame, FencedKeep
             DEF RenewWrite, IInv
<1>3. CASE CompleteFinish(c)
  <2> DEFINE id == p.id
             t == p.t
             ok == p.ok
             q == [p EXCEPT !.pc = "release"]
  <2>1. id \in Ids /\ t \in Task /\ ok \in BOOLEAN /\ p.pc = "finish"
    BY <1>0, <1>3 DEF CompleteFinish, CallState, CallKnows
  <2>2. Settle(id, t.token, Finished(id, t, ok), Verdict(id, t, ok)) /\ UNCHANGED issued
    BY <1>3 DEF CompleteFinish
  <2>3. call' = [call EXCEPT ![c] = q] \/ call' = [call EXCEPT ![c] = IdleCall]
    BY Zenon, <1>3 DEF CompleteFinish
  <2>4. q \in CallState /\ CallKnows(q)
    BY Zenon, <1>0, <2>1 DEF CallState, CallKnows, CallPcs
  <2> HIDE DEF id, t, ok, q
  <2>5. LeaseIsFenced' /\ GrantOK' /\ StoreOK' /\ Once
    BY SMTT(30), <2>1, <2>2, FinishedType, FencedSettle DEF IInv, Ends
  <2>6. CallOK'
    BY <2>3, <2>4, IdleStates, CallMoves DEF IInv
  <2> QED BY <1>3, <2>5, <2>6, Frame DEF CompleteFinish, IInv
<1>4. CASE CompleteRelease(c)
  <2>1. p.node \in Nodes
    BY <1>0, <1>4 DEF CompleteRelease, CallKnows
  <2>2. NodeOK'
    BY Zenon, <1>4, <2>1, RunningMoves DEF CompleteRelease, Unreserved, IInv
  <2> QED BY ZenonT(60), <1>4, <2>2, IdleStates, CallMoves, Frame, FencedKeep
          DEF CompleteRelease, IInv, StoreOK
<1>5. CASE CancelRelease(c)
  <2> DEFINE q == [p EXCEPT !.pc = "cancelWrite"]
  <2>0. p.node \in Nodes /\ p.pc = "cancel"
    BY <1>0, <1>5 DEF CancelRelease, CallKnows
  <2>1. call' = [call EXCEPT ![c] = q]
    BY <1>5 DEF CancelRelease
  <2>2. q \in CallState /\ CallKnows(q)
    BY <1>0, <2>0 DEF CallState, CallKnows, CallPcs
  <2>3. NodeOK'
    BY Zenon, <1>5, <2>0, RunningMoves DEF CancelRelease, Unreserved, IInv
  <2>4. SlotOK'
    BY <1>5, <2>0, CancelRunKeeps DEF CancelRelease, IInv
  <2> QED BY Zenon, <1>5, <2>1, <2>2, <2>3, <2>4, CallMoves, Frame, FencedKeep
          DEF CancelRelease, IInv, StoreOK
<1>6. CASE CancelWrite(c)
  <2> DEFINE id == p.id
             t == p.t
             u == Canceled(t)
  <2>1. id \in Ids /\ t \in Task
    BY <1>0, <1>6 DEF CancelWrite, CallState, CallKnows
  <2>2. u \in Task /\ u.status # "running"
    BY Zenon, <2>1, RecordTypes
  <2>3. LeaseIsFenced' /\ GrantOK' /\ StoreOK' /\ Once
    <3>1. CASE t.status = "running"
      <4>1. Settle(id, t.token, u, "canceled") /\ UNCHANGED issued
        BY Zenon, <1>6, <3>1 DEF CancelWrite
      <4>2. "canceled" \in Ends \ {"open"}
        BY DEF Ends
      <4> HIDE DEF id, t, u
      <4> QED BY <2>1, <2>2, <4>1, <4>2, FencedSettle DEF IInv
    <3>2. CASE t.status # "running"
      <4>1. tasks' = UpdateIfState(tasks, id, t.status, t.token, u) /\ UNCHANGED <<grant, issued>>
        BY Zenon, <1>6, <3>2 DEF CancelWrite
      <4> HIDE DEF id, t, u
      <4>2. StoreOK'
        BY <2>2, <4>1, StoreTypes DEF IInv, StoreOK
      <4>3. ASSUME NEW j \in Ids
            PROVE  /\ tasks'[j].status = "running" <=> tasks[j].status = "running"
                   /\ tasks[j].status = "running" => tasks'[j].token = tasks[j].token
        BY <2>2, <3>2, <4>1 DEF UpdateIfState, InState, IInv, StoreOK
      <4> QED BY SMTT(30), <4>1, <4>2, <4>3, FencedKeep DEF IInv
    <3> QED BY <3>1, <3>2
  <2> QED BY Zenon, <1>6, <2>3, IdleStates, CallMoves, Frame DEF CancelWrite, IInv
<1>7. CASE PurgeDelete(c)
  <2>1. p.id \in Ids /\ NoTask \in Task /\ NoTask.status # "running"
    BY Zenon, <1>0, <1>7, StoreTypes DEF PurgeDelete, CallKnows, IInv, StoreOK, NoTask
  <2>2. /\ tasks' = [tasks EXCEPT ![p.id] = NoTask] /\ UNCHANGED issued
        /\ tasks[p.id].status = "running" =>
             grant' = [grant EXCEPT ![tasks[p.id].token].end = "deleted"]
        /\ tasks[p.id].status # "running" => UNCHANGED grant
    BY Zenon, <1>7 DEF PurgeDelete, Delete
  <2>3. "deleted" \in Ends \ {"open"}
    BY DEF Ends
  <2>4. LeaseIsFenced' /\ GrantOK' /\ StoreOK' /\ Once
    BY Zenon, <2>1, <2>2, <2>3, FencedOverwrite DEF IInv
  <2> QED BY Zenon, <1>7, <2>4, IdleStates, CallMoves, Frame DEF PurgeDelete, IInv
<1>8. CASE SubmitCount(c) \/ SubmitDeps(c)
  <2> DEFINE q(pc) == [p EXCEPT !.pc = pc]
  <2>1. \/ \E pc \in {"submitDeps", "create"} : call' = [call EXCEPT ![c] = q(pc)]
        \/ call' = [call EXCEPT ![c] = IdleCall]
    BY SMTT(30), <1>8 DEF SubmitCount, SubmitDeps
  <2>2. \A pc \in {"submitDeps", "create"} : q(pc) \in CallState /\ CallKnows(q(pc))
    BY <1>0, <1>8 DEF SubmitCount, SubmitDeps, CallState, CallKnows, CallPcs
  <2> HIDE DEF q
  <2>3. CallOK'
    BY <2>1, <2>2, IdleStates, CallMoves DEF IInv
  <2> QED BY <1>8, <2>3, Frame, FencedKeep DEF SubmitCount, SubmitDeps, IInv, StoreOK
<1>9. CASE SubmitCreate(c)
  <2>1. NewTask \in Task /\ NewTask.status = "pending"
    BY StoreTypes DEF NewTask, Task, Statuses, IInv, StoreOK
  <2>2. tasks' = Create(tasks, p.id, NewTask) /\ UNCHANGED <<grant, issued>>
    BY <1>9 DEF SubmitCreate
  <2>3. StoreOK'
    BY <2>1, <2>2, StoreTypes DEF IInv, StoreOK
  <2>4. ASSUME NEW j \in Ids
        PROVE  /\ tasks'[j].status = "running" <=> tasks[j].status = "running"
               /\ tasks[j].status = "running" => tasks'[j].token = tasks[j].token
    BY <2>1, <2>2 DEF Create, Exists, IInv, StoreOK
  <2> QED BY Zenon, <1>9, <2>2, <2>3, <2>4, IdleStates, CallMoves, Frame, FencedKeep
          DEF SubmitCreate, IInv
<1> QED BY SMTT(30), <1>1, <1>2, <1>3, <1>4, <1>5, <1>6, <1>7, <1>8, <1>9 DEF Serve

\* The first step of an API call, which only reads.
LEMMA RequestStep ==
    ASSUME IInv, NEW c \in Callers, NEW n \in Nodes, Request(c, n)
    PROVE  IInv' /\ Once
<1>0. /\ n \in Labels /\ IdleCall \in CallState /\ CallKnows(IdleCall)
      /\ \A id \in Ids : tasks[id] \in Task
      /\ IdleCall.pc = "idle"
  BY IdleStates DEF Labels, IInv, StoreOK, IdleCall
<1>1. ASSUME NEW q, q \in CallState, CallKnows(q), call' = [call EXCEPT ![c] = q],
             UNCHANGED <<tasks, grant, issued, node, workers, running, queue, disp, exec>>
      PROVE  IInv' /\ Once
  BY Zenon, <1>1, CallMoves, Frame, FencedKeep DEF IInv, StoreOK
<1>2. ASSUME NEW w \in Workers, ClaimList(c, n, w) PROVE IInv' /\ Once
  <2> DEFINE q == [Begin(n, "walk") EXCEPT !.worker = w, !.snap = ListDue(tasks)]
  <2>1. ListDue(tasks) \in Snapshots /\ AllWaiting(ListDue(tasks)) /\ w \in Labels
    BY StoreTypes, WaitingListings DEF ListDue, IInv, StoreOK, Labels
  <2>2. q \in CallState /\ CallKnows(q)
    BY Zenon, <1>0, <1>2, <2>1 DEF ClaimList, Begin, CallState, CallKnows, CallPcs
  <2> QED BY Zenon, <1>1, <1>2, <2>2 DEF ClaimList
<1>3. ASSUME NEW w \in Workers, NEW k \in GrantedTo(w), NEW ok \in BOOLEAN,
             NEW pc \in {"renew", "finish"}, Present(c, n, w, k, pc, ok),
             pc = "finish" => "claim" \in Ops
      PROVE  IInv' /\ Once
  <2> DEFINE id == grant[k].id
             t == tasks[id]
             q == [Begin(n, pc) EXCEPT !.worker = w, !.token = k, !.ok = ok,
                                       !.id = id, !.t = t]
  <2>1. k \in 0..MaxGrants /\ id \in Ids /\ w \in Labels
    BY TaskAssumption DEF GrantedTo, IInv, GrantOK, Labels
  <2>2. t \in Task /\ t.status = "running" /\ t.token = k /\ t.worker \in Workers
    BY <1>0, <1>3, <2>1 DEF Present, ValidLease
  <2>3. call' = [call EXCEPT ![c] = q]
    BY <1>3 DEF Present
  <2> HIDE DEF id, t
  <2>4. q \in CallState /\ CallKnows(q)
    BY Zenon, <1>0, <1>3, <2>1, <2>2 DEF Begin, CallState, CallKnows, CallPcs
  <2> HIDE DEF q
  <2> QED BY Zenon, <1>1, <1>3, <2>3, <2>4 DEF Present
<1>4. ASSUME NEW id \in Ids, Cancel(c, n, id) PROVE IInv' /\ Once
  <2> DEFINE q == [Begin(n, "cancel") EXCEPT !.id = id, !.t = tasks[id]]
  <2>1. tasks[id].status \in Waiting \cup {"running", "failed"}
    BY <1>0, <1>4 DEF Cancel, Exists, IsTerminal, Task, Statuses, Waiting
  <2>2. q \in CallState /\ CallKnows(q)
    BY Zenon, <1>0, <1>4, <2>1 DEF Cancel, Begin, CallState, CallKnows, CallPcs
  <2> QED BY Zenon, <1>1, <1>4, <2>2 DEF Cancel
<1>5. ASSUME NEW id \in Ids, Purge(c, n, id) \/ Submit(c, n, id) PROVE IInv' /\ Once
  <2> DEFINE q(pc) == [Begin(n, pc) EXCEPT !.id = id]
  <2>1. ASSUME NEW pc \in {"purge", "submitCount"}, pc = "purge" => "purge" \in Ops
        PROVE  q(pc) \in CallState /\ CallKnows(q(pc))
    BY Zenon, <1>0, <2>1 DEF Begin, CallState, CallKnows, CallPcs
  <2> QED BY <1>1, <1>5, <2>1 DEF Purge, Submit
<1> QED BY Zenon, <1>2, <1>3, <1>4, <1>5 DEF Request, RenewTaskLease, CompleteTask

-----------------------------------------------------------------------------
(* The theorems.                                                           *)

\* Time passing changes neither the status nor the token of a task.
LEMMA TimeStep ==
    ASSUME IInv, NEW id \in Ids, BecomesDue(id) \/ LeaseLapses(id)
    PROVE  IInv' /\ Once
<1>1. PICK u \in Task : /\ tasks' = [tasks EXCEPT ![id] = u]
                        /\ u.status = tasks[id].status /\ u.token = tasks[id].token
  <2>1. tasks[id] \in Task
    BY DEF IInv, StoreOK
  <2>2. CASE BecomesDue(id)
    <3> DEFINE u == [tasks[id] EXCEPT !.due = TRUE]
    <3>1. u \in Task /\ u.status = tasks[id].status /\ u.token = tasks[id].token
      BY Zenon, <2>1 DEF Task
    <3>2. tasks' = [tasks EXCEPT ![id] = u]
      BY <2>2 DEF BecomesDue
    <3> QED BY Zenon, <3>1, <3>2
  <2>3. CASE LeaseLapses(id)
    <3> DEFINE u == [tasks[id] EXCEPT !.lease = "lapsed"]
    <3>1. u \in Task /\ u.status = tasks[id].status /\ u.token = tasks[id].token
      BY <2>1 DEF Task
    <3>2. tasks' = [tasks EXCEPT ![id] = u]
      BY <2>3 DEF LeaseLapses
    <3> QED BY Zenon, <3>1, <3>2
  <2> QED BY <2>2, <2>3
<1>2. /\ StoreOK'
      /\ \A j \in Ids : /\ tasks'[j].status = tasks[j].status
                         /\ tasks'[j].token = tasks[j].token
  BY <1>1 DEF IInv, StoreOK
<1>3. UNCHANGED <<grant, issued, node, workers, running, queue, disp, exec, call>>
  BY DEF BecomesDue, LeaseLapses
<1> QED BY Zenon, <1>2, <1>3, FencedKeep, Frame DEF IInv

\* Registrations, heartbeats and expiries of workers.
LEMMA WorkerStep ==
    ASSUME IInv, NEW n \in Nodes, NEW w,
           RegisterWorker(n, w) \/ Heartbeat(n, w) \/ WorkerLapses(n, w)
    PROVE  IInv' /\ Once
<1>1. CASE RegisterWorker(n, w)
  <2>1. NodeOK'
    BY Zenon, <1>1, WorkersMove DEF RegisterWorker, IInv
  <2> QED BY <1>1, <2>1, Frame, FencedKeep DEF RegisterWorker, IInv, StoreOK
<1>2. CASE Heartbeat(n, w)
  <2>1. NodeOK'
    BY Zenon, <1>2, WorkersMove DEF Heartbeat, IInv
  <2> QED BY <1>2, <2>1, Frame, RenewKeeps DEF Heartbeat, IInv
<1>3. CASE WorkerLapses(n, w)
  <2>1. NodeOK'
    BY Zenon, <1>3, WorkersMove DEF WorkerLapses, IInv
  <2> QED BY <1>3, <2>1, Frame, FencedKeep DEF WorkerLapses, IInv, StoreOK
<1> QED BY SMTT(30), <1>1, <1>2, <1>3

\* Before anything has happened, nothing is leased and everybody is idle.
LEMMA InitIInv == Init => IInv
<1> SUFFICES ASSUME Init PROVE IInv
  OBVIOUS
<1>1. NoTask \in Task /\ NoTask.status = "absent" /\ Empty \in Snapshots
  <2>1. NoWorker \in Labels /\ 0 \in 0..MaxGrants
    BY TaskAssumption DEF Labels
  <2>2. NoTask \in Task
    BY <2>1 DEF NoTask, Task
  <2> QED BY Zenon, <2>2 DEF Empty, Snapshots, NoTask
<1>2. NewTask \in Task /\ NewTask.status = "pending"
  BY <1>1 DEF NewTask, Task, Statuses
<1>3. StoreOK /\ \A id \in Ids : tasks[id].status # "running"
  BY SMTT(30), <1>1, <1>2 DEF Init, StoreOK, Empty
<1>4. GrantOK /\ issued = 0
  BY TaskAssumption DEF Init, GrantOK, NoGrant, Ends, Labels
<1>5. NodeOK
  BY DEF Init, NodeOK
<1>6. QueueOK
  BY DEF Init, QueueOK
<1>7. LoopOK /\ SlotOK /\ CallOK
  BY IdleStates DEF Init, LoopOK, SlotOK, CallOK
<1>8. LeaseIsFenced
  BY <1>3, <1>4 DEF LeaseIsFenced
<1> QED BY <1>3, <1>4, <1>5, <1>6, <1>7, <1>8 DEF IInv

\* Every step keeps IInv and leaves the leases that have ended alone.
LEMMA NextIInv == IInv /\ [Next]_vars => IInv' /\ (Once \/ UNCHANGED grant)
<1> SUFFICES ASSUME IInv, [Next]_vars PROVE IInv' /\ (Once \/ UNCHANGED grant)
  OBVIOUS
<1>1. CASE UNCHANGED vars
  BY Zenon, <1>1, Frame, FencedKeep DEF vars, IInv, StoreOK
<1>2. CASE Next
  <2>1. ASSUME NEW n \in Nodes, Dispatch(n) \/ LocalHeartbeat(n) \/ StartStop(n)
        PROVE  IInv' /\ Once
    BY <2>1, DispatchStep, LocalHeartbeatStep, StartStopStep
  <2>2. ASSUME NEW n \in Nodes, NEW s \in Slots, Execute(n, s) PROVE IInv' /\ Once
    BY <2>2, ExecuteStep
  <2>3. ASSUME NEW n \in Nodes, NEW c \in Callers, Request(c, n) PROVE IInv' /\ Once
    BY <2>3, RequestStep
  <2>4. ASSUME NEW n \in Nodes, NEW w \in Workers,
               RegisterWorker(n, w) \/ Heartbeat(n, w) \/ ClaimDue(n, w)
        PROVE  IInv' /\ Once
    BY <2>4, WorkerStep, ClaimDueStep
  <2>5. ASSUME NEW n \in Nodes, NEW w \in Nodes \cup Workers, WorkerLapses(n, w)
        PROVE  IInv' /\ Once
    BY <2>5, WorkerStep
  <2>6. ASSUME NEW c \in Callers, Serve(c) PROVE IInv' /\ Once
    BY <2>6, ServeStep
  <2>7. ASSUME NEW id \in Ids, BecomesDue(id) \/ LeaseLapses(id) PROVE IInv' /\ Once
    BY <2>7, TimeStep
  <2> QED BY SMTT(30), <1>2, <2>1, <2>2, <2>3, <2>4, <2>5, <2>6, <2>7 DEF Next
<1> QED BY <1>1, <1>2

\* IInv always holds.
THEOREM Invariance == Spec => []IInv
  BY InitIInv, NextIInv, PTL DEF Spec

\* Every variable of the scheduler keeps its type.
THEOREM TypeCorrect == Spec => []TypeOK
<1>1. IInv => TypeOK
  BY Zenon DEF IInv, TypeOK, StoreOK, GrantOK, NodeOK, QueueOK, LoopOK, LoopState, SlotOK,
         SlotState, CallOK, CallState
<1> QED BY <1>1, Invariance, PTL

\* Fencing, for every number of tasks, processes, workers and concurrent calls: a
\* lease is open exactly while the stored record is running under its token.
THEOREM Fencing == Spec => []LeaseIsFenced
<1>1. IInv => LeaseIsFenced
  BY DEF IInv
<1> QED BY <1>1, Invariance, PTL

\* Of all the completions, cancellations, reaps, rollbacks and requeues that race
\* for one lease, exactly one takes effect.
THEOREM SettledExactlyOnce == Spec => SettledOnce
<1>1. IInv /\ [Next]_vars =>
        [\A k \in 1..issued : grant[k].end # "open" => grant'[k] = grant[k]]_grant
  BY NextIInv DEF Once
<1> QED BY <1>1, Invariance, PTL DEF Spec, SettledOnce

=============================================================================
