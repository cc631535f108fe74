--------------------------- MODULE CountingProofs ---------------------------
(***************************************************************************)
(* What Scheduler counts, for every set of tasks, nodes, workers and       *)
(* callers: the tasks in flight against the limit, and the runs and the    *)
(* attempts of a task against the leases that were reported on.  The       *)
(* arguments are about cardinalities of finite sets; what one step does is *)
(* taken from Effect (StepProofs) and from Tally (LifecycleProofs).        *)
(***************************************************************************)
EXTENDS LifecycleProofs, FiniteSetTheorems

(* The limit on pending tasks.                                             *)

\* The tasks that count against the limit, and the submits that were let through.
InFlight == {id \in Ids : IsInFlight(tasks[id])}
Admitted == {c \in Callers : call[c].pc \in {"submitDeps", "create"}}
Room == MaxPending > 0 =>
    Cardinality(InFlight) + Cardinality(Admitted) + 1 <= MaxPending + Cardinality(Callers)

\* A submit is admitted by SubmitCount alone, which does not touch the store.
LEMMA AdmittedMoves ==
    ASSUME IInv, [Next]_vars
    PROVE  \/ Admitted' \subseteq Admitted
           \/ UNCHANGED tasks /\ ~(MaxPending > 0 /\ CountInFlight(tasks) >= MaxPending)
<1>0. call \in [Callers -> CallState]
  BY DEF IInv, CallOK
<1>1. ASSUME NEW c \in Callers, SubmitCount(c)
      PROVE  \/ call'[c].pc = "idle"
             \/ UNCHANGED tasks /\ ~(MaxPending > 0 /\ CountInFlight(tasks) >= MaxPending)
  BY SMTT(30), <1>0, <1>1 DEF SubmitCount, IdleCall
<1>2. ASSUME NEW c \in Callers, SubmitDeps(c) PROVE call[c].pc = "submitDeps"
  BY <1>2 DEF SubmitDeps
<1>3. ASSUME NEW c \in Callers, Claim(c) PROVE call'[c].pc \notin {"submitDeps", "create"}
  <2>1. CASE ClaimFail(c) \/ ClaimUnreserve(c)
    BY ZenonT(60), <1>0, <2>1 DEF ClaimFail, ClaimUnreserve, Back, CallState
  <2>2. CASE ClaimReserve(c)
    BY ZenonT(60), <1>0, <2>2 DEF ClaimReserve, Back, CallState
  <2>3. CASE ClaimRead(c)
    BY SMTT(30), <1>0, <2>3 DEF ClaimRead, CallState
  <2>4. CASE ClaimWrite(c)
    BY SMTT(30), <1>0, <2>4 DEF ClaimWrite, IdleCall, CallState
  <2>5. CASE ClaimNone(c)
    BY SMTT(30), <1>0, <2>5 DEF ClaimNone, IdleCall
  <2>6. ASSUME NEW id \in Ids, ClaimConsider(c, id)
        PROVE  call'[c].pc \notin {"submitDeps", "create"}
    BY SMTT(30), <1>0, <2>6 DEF ClaimConsider, Consider, CallState
  <2> QED BY SMTT(30), <1>3, <2>1, <2>2, <2>3, <2>4, <2>5, <2>6 DEF Claim
<1>4. ASSUME NEW c \in Callers,
             \/ RenewWrite(c) \/ CompleteFinish(c) \/ CompleteRelease(c) \/ CancelRelease(c)
             \/ CancelWrite(c) \/ PurgeDelete(c) \/ SubmitCreate(c)
      PROVE  call'[c].pc \notin {"submitDeps", "create"}
  BY SMTT(30), <1>0, <1>4 DEF RenewWrite, CompleteFinish, CompleteRelease, CancelRelease, CancelWrite,
     PurgeDelete, SubmitCreate, IdleCall, CallState
<1>5. ASSUME NEW c \in Callers, NEW n \in Nodes, Request(c, n)
      PROVE  call'[c].pc \notin {"submitDeps", "create"}
  <2>1. ASSUME NEW w \in Workers, ClaimList(c, n, w)
        PROVE  call'[c].pc = "walk"
    BY SMTT(30), <1>0, <2>1 DEF ClaimList, Begin, IdleCall
  <2>2. ASSUME NEW w \in Workers, NEW k \in GrantedTo(w),
               RenewTaskLease(c, n, w, k) \/ CompleteTask(c, n, w, k)
        PROVE  call'[c].pc \in {"renew", "finish"}
    BY ZenonT(60), <1>0, <2>2 DEF RenewTaskLease, CompleteTask, Present, Begin, IdleCall
  <2>3. ASSUME NEW id \in Ids, Cancel(c, n, id) \/ Purge(c, n, id) \/ Submit(c, n, id)
        PROVE  call'[c].pc \in {"cancel", "purge", "submitCount"}
    BY ZenonT(60), <1>0, <2>3 DEF Cancel, Purge, Submit, Begin, IdleCall
  <2> QED BY SMTT(30), <1>5, <2>1, <2>2, <2>3 DEF Request
<1>6. ASSUME NEW c \in Callers, Serve(c) \/ \E n \in Nodes : Request(c, n)
      PROVE  \/ call'[c].pc \in {"submitDeps", "create"} => call[c].pc \in {"submitDeps", "create"}
             \/ UNCHANGED tasks /\ ~(MaxPending > 0 /\ CountInFlight(tasks) >= MaxPending)
  BY SMTT(30), <1>1, <1>2, <1>3, <1>4, <1>5, <1>6 DEF Serve
<1>7. CASE \A c \in Callers : call'[c] \in {call[c], IdleCall}
  BY SMTT(30), <1>7 DEF Admitted, IdleCall
<1>8. ASSUME NEW c \in Callers, Serve(c) \/ \E n \in Nodes : Request(c, n),
             \A e \in Callers : e # c => call'[e] = call[e]
      PROVE  \/ Admitted' \subseteq Admitted
             \/ UNCHANGED tasks /\ ~(MaxPending > 0 /\ CountInFlight(tasks) >= MaxPending)
  BY SMTT(30), <1>6, <1>8 DEF Admitted
<1> QED BY SMTT(30), <1>7, <1>8, Movers

\* The sum of tasks in flight and admitted submits grows only below the limit.
LEMMA RoomStep ==
    ASSUME IsFiniteSet(Ids), IsFiniteSet(Callers), "restart" \notin Ops,
           IInv, Room, [Next]_vars
    PROVE  Room'
<1>0. Effects /\ MaxPending \in Nat
  BY SMTT(30), EffectNext, SchedulerAssumption
<1>1. /\ IsFiniteSet(InFlight) /\ IsFiniteSet(InFlight')
      /\ IsFiniteSet(Admitted) /\ IsFiniteSet(Admitted')
  BY FS_Subset DEF InFlight, Admitted
<1>2. /\ Cardinality(InFlight) \in Nat /\ Cardinality(InFlight') \in Nat
      /\ Cardinality(Admitted) \in Nat /\ Cardinality(Admitted') \in Nat
      /\ Cardinality(Callers) \in Nat
  BY SMTT(30), <1>1, FS_CardinalityType
<1> SUFFICES ASSUME MaxPending > 0
             PROVE  Cardinality(InFlight') + Cardinality(Admitted') + 1
                      <= MaxPending + Cardinality(Callers)
  BY DEF Room
<1>3. CASE UNCHANGED tasks /\ ~(MaxPending > 0 /\ CountInFlight(tasks) >= MaxPending)
  <2>1. InFlight' = InFlight /\ Cardinality(InFlight) = CountInFlight(tasks)
    BY <1>3 DEF InFlight, CountInFlight
  <2>2. Cardinality(Admitted') <= Cardinality(Callers)
    BY FS_Subset DEF Admitted
  <2> QED BY SMTT(30), <1>0, <1>2, <1>3, <2>1, <2>2
<1>4. CASE Admitted' \subseteq Admitted /\ ~\E id \in Ids : Submitted(id)
  <2>1. InFlight' \subseteq InFlight
    BY SMTT(30), <1>0, <1>4 DEF Effects, Effect, HandedOut, Stays, Ended, Starved, Withdrawn, Purged,
       Recovered, InFlight, IsInFlight, Waiting
  <2>2. Cardinality(InFlight') <= Cardinality(InFlight)
    BY SMTT(30), <1>1, <2>1, FS_Subset
  <2>3. Cardinality(Admitted') <= Cardinality(Admitted)
    BY SMTT(30), <1>1, <1>4, FS_Subset
  <2> QED BY SMTT(30), <1>0, <1>2, <2>2, <2>3 DEF Room
<1>5. ASSUME NEW id \in Ids, Submitted(id), Admitted' \subseteq Admitted
      PROVE  Cardinality(InFlight') + Cardinality(Admitted') + 1
               <= MaxPending + Cardinality(Callers)
  <2>1. InFlight' \subseteq InFlight \cup {id}
    BY <1>5 DEF Submitted, InFlight
  <2>2. PICK c \in Callers : call[c].pc = "create" /\ call'[c].pc = "idle"
    BY <1>5 DEF Submitted, Creating
  <2>3. c \in Admitted /\ Admitted' \subseteq Admitted \ {c}
    BY Zenon, <1>5, <2>2 DEF Admitted
  <2>4. /\ IsFiniteSet(InFlight \cup {id})
        /\ Cardinality(InFlight \cup {id}) = Cardinality(InFlight) + 1
    <3>1. id \notin InFlight
      BY <1>5 DEF Submitted, Exists, InFlight, IsInFlight
    <3> QED BY Zenon, <1>1, <3>1, FS_AddElement
  <2>5. /\ IsFiniteSet(Admitted \ {c})
        /\ Cardinality(Admitted \ {c}) = Cardinality(Admitted) - 1
    BY Zenon, <1>1, <2>3, FS_RemoveElement
  <2>6. Cardinality(InFlight') <= Cardinality(InFlight \cup {id})
    BY SMTT(30), <2>1, <2>4, FS_Subset
  <2>7. Cardinality(Admitted') <= Cardinality(Admitted \ {c})
    BY SMTT(30), <2>3, <2>5, FS_Subset
  <2> QED BY SMTT(30), <1>0, <1>2, <2>4, <2>5, <2>6, <2>7 DEF Room
<1>6. UNCHANGED tasks => ~\E id \in Ids : Submitted(id)
  BY DEF Submitted, Exists
<1> QED BY SMTT(30), <1>3, <1>4, <1>5, <1>6, AdmittedMoves

\* Concurrent submits overshoot the limit by at most one task for every other submit
\* in flight, for any number of API goroutines: a submit that passed the count stands
\* for one task that may still come.
THEOREM BoundedOvershoot ==
    ASSUME IsFiniteSet(Ids), IsFiniteSet(Callers), "submit" \in Ops, "restart" \notin Ops
    PROVE  Spec => []BackpressureOvershoot
<1>1. Init => Room
  <2> SUFFICES ASSUME Init PROVE Room
    OBVIOUS
  <2>1. InFlight = {} /\ Admitted = {}
    BY DEF Init, InFlight, IsInFlight, Empty, NoTask, Admitted, IdleCall
  <2>2. Cardinality(InFlight) = 0 /\ Cardinality(Admitted) = 0 /\ Cardinality(Callers) \in Nat
    BY SMTT(30), <2>1, FS_EmptySet, FS_CardinalityType
  <2> QED BY SMTT(30), <2>2, SchedulerAssumption DEF Room
<1>2. IInv /\ Room /\ [Next]_vars => Room'
  BY RoomStep
<1>3. Room => BackpressureOvershoot
  <2>1. IsFiniteSet(Admitted) /\ IsFiniteSet(InFlight) /\ CountInFlight(tasks) = Cardinality(InFlight)
    BY FS_Subset DEF InFlight, Admitted, CountInFlight
  <2>2. /\ Cardinality(Admitted) \in Nat /\ Cardinality(InFlight) \in Nat
        /\ Cardinality(Callers) \in Nat
    BY ZenonT(60), <2>1, FS_CardinalityType
  <2> QED BY SMTT(30), <2>1, <2>2, SchedulerAssumption DEF Room, BackpressureOvershoot
<1> QED BY <1>1, <1>2, <1>3, Invariance, PTL DEF Spec

-----------------------------------------------------------------------------
(* Runs and attempts.                                                      *)

\* The leases that ended in one of the ways E, after a step in which only the lease k
\* of the task, if any, ends.
LEMMA EndedMoves ==
    ASSUME IInv, History, NEW id \in Ids, NEW k, NEW E, "open" \notin E, EndsKept(id, k),
           NotHandedOut(id) \/ (issued' = issued + 1 /\ grant'[issued'].end = "open"),
           k = 0 \/ (tasks[id].status = "running" /\ k = tasks[id].token)
    PROVE  /\ k \notin EndedBy(id, E) /\ IsFiniteSet(EndedBy(id, E))
           /\ k # 0 /\ grant'[k].end \in E => EndedBy(id, E)' = EndedBy(id, E) \cup {k}
           /\ k = 0 \/ grant'[k].end \notin E => EndedBy(id, E)' = EndedBy(id, E)
<1>0. issued \in Nat
  BY SMTT(30), TaskAssumption DEF IInv, GrantOK
<1>1. k # 0 => k \in 1..issued /\ grant[k].id = id /\ grant[k].end = "open"
  BY DEF IInv, LeaseIsFenced
<1>2. k \notin EndedBy(id, E)
  BY SMTT(30), <1>0, <1>1 DEF EndedBy
<1>3. IsFiniteSet(EndedBy(id, E))
  <2>1. IsFiniteSet(1..issued)
    BY SMTT(30), <1>0, FS_Interval
  <2> QED BY ZenonT(60), <2>1, FS_Subset DEF EndedBy
<1>4. \A j \in 1..issued' : /\ j \in 1..issued => grant'[j].id = grant[j].id
                            /\ j \notin 1..issued => grant'[j].id # id \/ grant'[j].end \notin E
  BY SMTT(30), <1>0 DEF History, NotHandedOut
<1>5. \A j \in 1..issued : j \in 1..issued'
  BY SMTT(30), <1>0 DEF NotHandedOut
<1>6. ASSUME NEW j, j # k PROVE j \in EndedBy(id, E)' <=> j \in EndedBy(id, E)
  BY SMTT(30), <1>4, <1>5, <1>6 DEF EndedBy, EndsKept
<1>7. k \in EndedBy(id, E)' <=> k # 0 /\ grant'[k].end \in E
  BY SMTT(30), <1>0, <1>1, <1>4, <1>5 DEF EndedBy
<1> QED BY SMTT(30), <1>2, <1>3, <1>6, <1>7

\* The reports of a task and its counters go together.
LEMMA TalliedStep ==
    ASSUME IInv, Effects, NEW id \in Ids, Tally(id), Tallied(id)
    PROVE  Tallied(id)'
<1> DEFINE R == Cardinality(EndedBy(id, Reports))
           L == Cardinality(EndedBy(id, Losses))
           t == tasks[id]
           u == tasks'[id]
<1>0. /\ t.runs \in Nat /\ t.attempts \in Nat /\ MaxAttempts[id] \in Nat \ {0}
      /\ t.status \in Statuses \cup {"absent"} /\ issued \in Nat
      /\ "open" \notin Reports /\ "open" \notin Losses /\ Losses \subseteq Reports /\ History
  BY SMTT(30), TaskAssumption DEF IInv, StoreOK, Task, GrantOK, Reports, Losses, Effects
<1>1. /\ t.status = "absent" => EndedBy(id, Reports) = {}
      /\ t.status # "absent" => t.runs = R
      /\ id \notin Periodic => /\ L <= MaxAttempts[id]
                               /\ t.status \in Waiting => L <= t.attempts /\ L < MaxAttempts[id]
                               /\ t.status = "running" => L < t.attempts /\ L < MaxAttempts[id]
  BY Zenon DEF Tallied, Budgeted, Exists
<1>2. SUFFICES
      /\ u.status = "absent" => EndedBy(id, Reports)' = {}
      /\ u.status # "absent" => u.runs = R'
      /\ id \notin Periodic => /\ L' <= MaxAttempts[id]
                               /\ u.status \in Waiting => L' <= u.attempts /\ L' < MaxAttempts[id]
                               /\ u.status = "running" => L' < u.attempts /\ L' < MaxAttempts[id]
  BY Zenon DEF Tallied, Budgeted, Exists
<1>3. ASSUME \/ NotHandedOut(id)
             \/ issued' = issued + 1 /\ grant'[issued'].end = "open",
             EndsKept(id, 0)
      PROVE  EndedBy(id, Reports)' = EndedBy(id, Reports) /\ R' = R /\ L' = L
  BY Zenon, <1>0, <1>3, EndedMoves
<1>4. t.status = "absent" => R = 0 /\ L = 0
  <2>1. EndedBy(id, Losses) \subseteq EndedBy(id, Reports)
    BY Zenon, <1>0 DEF EndedBy
  <2> QED BY SMTT(30), <1>1, <2>1, FS_EmptySet
<1> HIDE DEF R, L
<1>5. CASE Quiet(id)
  BY Zenon, <1>1, <1>3, <1>5 DEF Quiet, Stays, Same
<1>6. CASE Dispatched(id)
  <2>1. L \in Nat
    BY ZenonT(60), <1>0, <1>6, EndedMoves, FS_CardinalityType DEF Dispatched, L
  <2> QED BY SMTT(30), <1>0, <1>1, <1>3, <1>6, <2>1 DEF Dispatched, Waiting
<1>7. CASE Settled(id)
  <2> DEFINE k == t.token
  <2>1. /\ IsFiniteSet(EndedBy(id, Reports)) /\ k \notin EndedBy(id, Reports)
        /\ k # 0 /\ grant'[k].end \in Reports
             => EndedBy(id, Reports)' = EndedBy(id, Reports) \cup {k}
        /\ grant'[k].end \notin Reports => EndedBy(id, Reports)' = EndedBy(id, Reports)
    BY SMTT(30), <1>0, <1>7, EndedMoves DEF Settled
  <2>2. /\ IsFiniteSet(EndedBy(id, Losses)) /\ k \notin EndedBy(id, Losses)
        /\ k # 0 /\ grant'[k].end \in Losses
             => EndedBy(id, Losses)' = EndedBy(id, Losses) \cup {k}
        /\ grant'[k].end \notin Losses => EndedBy(id, Losses)' = EndedBy(id, Losses)
    BY SMTT(30), <1>0, <1>7, EndedMoves DEF Settled
  <2>3. k # 0 /\ t.status = "running"
    BY SMTT(30), <1>7 DEF IInv, LeaseIsFenced, Settled
  <2>4. /\ R \in Nat
        /\ grant'[k].end \in Reports => R' = R + 1
        /\ grant'[k].end \notin Reports => R' = R
    BY SMTT(30), <2>1, <2>3, FS_AddElement, FS_CardinalityType DEF R
  <2>5. /\ L \in Nat
        /\ grant'[k].end \in Losses => L' = L + 1
        /\ grant'[k].end \notin Losses => L' = L
    BY <2>2, <2>3, FS_AddElement, FS_CardinalityType DEF L
  <2>6. CASE GivenUp(id, u, grant'[k].end)
    <3>1. /\ grant'[k].end \notin Reports /\ u.status \in Waiting /\ u.runs = t.runs
          /\ u.attempts \in {t.attempts, t.attempts - 1}
      BY ZenonT(60), <2>6 DEF GivenUp
    <3>2. R' = R /\ L' = L /\ u.status \notin {"absent", "running"} /\ t.runs = R
      BY SMTT(30), <1>0, <1>1, <2>3, <2>4, <2>5, <3>1 DEF Waiting
    <3>3. id \notin Periodic => L < t.attempts /\ L < MaxAttempts[id]
      BY ZenonT(60), <1>1, <2>3
    <3>4. id \notin Periodic => L <= u.attempts /\ L <= MaxAttempts[id]
      BY SMTT(30), <1>0, <2>5, <3>1, <3>3
    <3> QED BY SMTT(30), <3>1, <3>2, <3>3, <3>4
  <2>7. CASE Reported(id, u, grant'[k].end)
    <3>1. /\ grant'[k].end \in Reports /\ u.runs = t.runs + 1
          /\ grant'[k].end = "retried" => t.attempts < MaxAttempts[id]
          /\ grant'[k].end = "succeeded" => u.status = IF id \in Periodic THEN "pending" ELSE "success"
          /\ grant'[k].end = "retried" => u.status = "retrying" /\ u.attempts = t.attempts
          /\ grant'[k].end = "failed" => u.status = "failed"
      BY ZenonT(60), <2>7 DEF Reported, Verdict, Reports
    <3>2. CASE grant'[k].end = "succeeded"
      BY SMTT(30), <1>0, <1>1, <2>3, <2>4, <2>5, <3>1, <3>2 DEF Waiting, Reports, Losses
    <3>3. CASE grant'[k].end = "retried"
      <4>1. /\ R' = R + 1 /\ L' = L + 1 /\ t.runs = R
            /\ u.status = "retrying" /\ u.attempts = t.attempts /\ t.attempts < MaxAttempts[id]
        BY SMTT(30), <1>1, <2>3, <2>4, <2>5, <3>1, <3>3 DEF Reports, Losses
      <4>2. id \notin Periodic => L + 1 <= t.attempts /\ L + 1 < MaxAttempts[id]
                                  /\ L + 1 <= MaxAttempts[id]
        BY SMTT(30), <1>0, <1>1, <2>3, <2>5, <4>1
      <4> QED BY Zenon, <3>1, <4>1, <4>2
    <3>4. CASE grant'[k].end = "failed"
      <4>1. R' = R + 1 /\ L' = L + 1 /\ t.runs = R /\ u.status = "failed"
        BY Zenon, <1>1, <2>3, <2>4, <2>5, <3>1, <3>4 DEF Reports, Losses
      <4>2. id \notin Periodic => L + 1 <= MaxAttempts[id]
        BY SMTT(30), <1>0, <1>1, <2>3, <2>5
      <4> QED BY Zenon, <3>1, <4>1, <4>2 DEF Waiting
    <3> QED BY Zenon, <3>1, <3>2, <3>3, <3>4 DEF Reports
  <2> QED BY Zenon, <1>7, <2>6, <2>7 DEF Settled
<1>8. CASE Failed(id)
  BY Zenon, <1>0, <1>1, <1>3, <1>8 DEF Failed, Same, Waiting
<1>9. CASE Entered(id)
  BY SMTT(30), <1>0, <1>1, <1>3, <1>4, <1>9 DEF Entered, Waiting
<1> QED BY Zenon, <1>5, <1>6, <1>7, <1>8, <1>9 DEF Tally

\* Nothing has been counted in the beginning.
LEMMA CountInit ==
    Init => CountInv /\ \A id \in Ids : Tallied(id)
<1> SUFFICES ASSUME Init PROVE CountInv /\ \A id \in Ids : Tallied(id)
  OBVIOUS
<1>1. OneAlive /\ OnlyAlive /\ OnlySubmits
  BY Zenon DEF Init, OneAlive, OnlyAlive, OnlySubmits, Alive, IdleLoop, IdleSlot, IdleCall
<1>2. /\ \A n \in Nodes : LoopCounts(tasks, issued, disp[n])
      /\ \A n \in Nodes, s \in Slots : SlotCounts(tasks, issued, grant, exec[n][s])
  BY Zenon DEF Init, LoopCounts, SlotCounts, IdleLoop, IdleSlot
<1>3. ASSUME NEW id \in Ids PROVE Tallied(id)
  <2>1. EndedBy(id, Reports) = {} /\ EndedBy(id, Losses) = {}
    BY DEF Init, EndedBy
  <2>2. tasks[id].runs = 0 /\ tasks[id].attempts = 0 /\ tasks[id].status \in {"absent", "pending"}
    BY DEF Init, Empty, NewTask, NoTask
  <2> QED BY SMTT(30), <2>1, <2>2, FS_EmptySet, TaskAssumption DEF Tallied, Budgeted, Waiting
<1> QED BY Zenon, <1>1, <1>2, <1>3 DEF CountInv

\* With one process at a time on the store and without claims and renewals by external
\* workers, cancels, purges and a second Start, RunCount is the number of executions that
\* reported back, whatever stops, crashes and expired leases took away.
THEOREM RunsCounted ==
    ASSUME Solo
    PROVE  Spec => []RunCountExact
<1> DEFINE Inv == CountInv /\ \A id \in Ids : Tallied(id)
<1>1. Init => Inv
  BY Zenon, CountInit
<1>2. IInv /\ Inv /\ [Next]_vars => Inv'
  BY SMTT(30), CountStep, TalliedStep DEF Tallies
<1>3. Inv => RunCountExact
  BY SMTT(30) DEF Tallied, RunCountExact, Reports
<1> QED BY <1>1, <1>2, <1>3, Invariance, PTL DEF Spec

\* Under the same conditions a task that keeps failing is executed at most MaxAttempts
\* times: an attempt that a stop, a crash or an expired lease took away costs one, too,
\* and a rollback gives back the attempt that it counted.
THEOREM BudgetKept ==
    ASSUME Solo
    PROVE  Spec => []RetryBudget
<1> DEFINE Inv == CountInv /\ \A id \in Ids : Tallied(id)
<1>1. Init => Inv
  BY SMTT(30), CountInit
<1>2. IInv /\ Inv /\ [Next]_vars => Inv'
  BY CountStep, TalliedStep DEF Tallies
<1>3. Inv => RetryBudget
  BY Zenon DEF Tallied, Budgeted, RetryBudget, Losses
<1> QED BY <1>1, <1>2, <1>3, Invariance, PTL DEF Spec

=============================================================================
