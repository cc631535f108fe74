--------------------------- MODULE OperatorLemmas --------------------------
(***************************************************************************)
(* What the operators return that the state machines are built from: the   *)
(* changes to a task record, the calls of a store, and the replacement of  *)
(* a file.                                                                 *)
(***************************************************************************)
EXTENDS Store, FileReplace, TLAPS

-----------------------------------------------------------------------------
(* Tokens.                                                                 *)

\* Lease tokens are handed out in order: the next one is new, and the earlier ones stay
\* among those that were handed out.
LEMMA TokensGrow ==
    ASSUME NEW top \in Nat
    PROVE  /\ top + 1 \in 1..(top + 1)
           /\ \A k \in 1..top : k \in 1..(top + 1) /\ k # 0 /\ k # top + 1
  OBVIOUS

-----------------------------------------------------------------------------
(* Records.                                                                *)

\* The changes that the scheduler makes to a copy keep it a task record.
LEMMA RecordTypes ==
    ASSUME NEW t \in Task
    PROVE  /\ Unleased(t) \in Task
           /\ Requeued(t) \in Task /\ Requeued(t).status = "retrying"
           /\ Canceled(t) \in Task /\ Canceled(t).status = "canceled"
           /\ DepFailed(t) \in Task /\ DepFailed(t).status = "failed"
           /\ [t EXCEPT !.lease = "live"] \in Task
           /\ [t EXCEPT !.lease = "lapsed"] \in Task
           /\ [t EXCEPT !.due = TRUE] \in Task
           /\ t.attempts > 0 =>
                RolledBack(t) \in Task /\ RolledBack(t).status = "pending"
<1>1. Unleased(t) \in Task
  <2>1. NoWorker \in Labels /\ 0 \in 0..MaxGrants
    BY TaskAssumption DEF Labels
  <2> QED BY Zenon, <2>1 DEF Task, Unleased
<1>2. Requeued(t) \in Task /\ Requeued(t).status = "retrying"
  BY Zenon, <1>1 DEF Task, Requeued, Statuses
<1>3. Canceled(t) \in Task /\ Canceled(t).status = "canceled"
  BY DEF Task, Canceled, Statuses
<1>4. DepFailed(t) \in Task /\ DepFailed(t).status = "failed"
  BY DEF Task, DepFailed, Statuses
<1>5. /\ [t EXCEPT !.lease = "live"] \in Task
      /\ [t EXCEPT !.lease = "lapsed"] \in Task
      /\ [t EXCEPT !.due = TRUE] \in Task
  BY Zenon DEF Task
<1>6. ASSUME t.attempts > 0
      PROVE  RolledBack(t) \in Task /\ RolledBack(t).status = "pending"
  <2>1. t.attempts - 1 \in Nat
    BY <1>6 DEF Task
  <2> QED BY Zenon, <2>1 DEF Task, RolledBack, Statuses
<1> QED BY <1>1, <1>2, <1>3, <1>4, <1>5, <1>6

\* A grant makes a running record under the token that was given out.
LEMMA GrantedType ==
    ASSUME NEW t \in Task, NEW w \in Labels, NEW k \in 0..MaxGrants
    PROVE  /\ Granted(t, w, k) \in Task
           /\ Granted(t, w, k).status = "running"
           /\ Granted(t, w, k).token = k
           /\ Granted(t, w, k).attempts > 0
<1>1. t.attempts \in Nat /\ t.attempts + 1 \in Nat /\ t.attempts + 1 > 0
  BY DEF Task
<1>2. "running" \in Statuses \cup {"absent"} /\ "live" \in {"none", "live", "lapsed"}
  BY DEF Statuses
<1> QED BY Zenon, <1>1, <1>2 DEF Task, Granted

\* finish never leaves a task running.
LEMMA FinishedType ==
    ASSUME NEW id \in Ids, NEW t \in Task, NEW ok \in BOOLEAN
    PROVE  /\ Finished(id, t, ok) \in Task
           /\ Finished(id, t, ok).status \in {"pending", "success", "retrying", "failed"}
           /\ Finished(id, t, ok).status # "running"
           /\ Verdict(id, t, ok) \in {"succeeded", "retried", "failed"}
<1> DEFINE u == [Unleased(t) EXCEPT !.runs = @ + 1]
<1>1. u \in Task
  <2>1. Unleased(t) \in Task
    BY Zenon, RecordTypes
  <2>2. Unleased(t).runs + 1 \in Nat
    BY <2>1 DEF Task
  <2> QED BY <2>1, <2>2 DEF Task
<1>2. /\ [u EXCEPT !.status = "pending", !.due = FALSE, !.attempts = 0] \in Task
      /\ [u EXCEPT !.status = "success"] \in Task
      /\ [u EXCEPT !.status = "retrying", !.due = FALSE] \in Task
      /\ [u EXCEPT !.status = "failed"] \in Task
  BY Zenon, <1>1 DEF Task, Statuses
<1>3. Verdict(id, t, ok) \in {"succeeded", "retried", "failed"}
  BY DEF Verdict
<1>4. Finished(id, t, ok) \in
        {[u EXCEPT !.status = "pending", !.due = FALSE, !.attempts = 0],
         [u EXCEPT !.status = "success"],
         [u EXCEPT !.status = "retrying", !.due = FALSE],
         [u EXCEPT !.status = "failed"]}
  <2> HIDE DEF u
  <2>1. Finished(id, t, ok) =
          CASE Verdict(id, t, ok) = "succeeded" /\ id \in Periodic ->
                 [u EXCEPT !.status = "pending", !.due = FALSE, !.attempts = 0]
            [] Verdict(id, t, ok) = "succeeded" /\ id \notin Periodic ->
                 [u EXCEPT !.status = "success"]
            [] Verdict(id, t, ok) = "retried" ->
                 [u EXCEPT !.status = "retrying", !.due = FALSE]
            [] Verdict(id, t, ok) = "failed" -> [u EXCEPT !.status = "failed"]
    BY DEF Finished, u
  <2> QED BY <2>1, <1>3
<1>5. Finished(id, t, ok).status \in {"pending", "success", "retrying", "failed"}
  <2> HIDE DEF u
  <2> QED BY Zenon, <1>1, <1>4 DEF Task
<1> QED BY <1>2, <1>3, <1>4, <1>5

-----------------------------------------------------------------------------
(* The store.                                                              *)

\* Store calls map stores and listings to stores and listings.
LEMMA StoreTypes ==
    ASSUME NEW st \in [Ids -> Task]
    PROVE  /\ \A S \in SUBSET Ids : Listing(st, S) \in Snapshots
           /\ Empty \in Snapshots /\ NoTask \in Task
           /\ \A id \in Ids : Without(st, id) \in Snapshots
           /\ \A id, t : t \in Task => /\ Update(st, id, t) \in [Ids -> Task]
                                       /\ Create(st, id, t) \in [Ids -> Task]
           /\ \A id, status, token, t :
                t \in Task => UpdateIfState(st, id, status, token, t) \in [Ids -> Task]
           /\ \A id : Delete(st, id) \in [Ids -> Task]
<1>1. NoTask \in Task
  <2>1. NoWorker \in Labels /\ 0 \in 0..MaxGrants
    BY TaskAssumption DEF Labels
  <2> QED BY <2>1 DEF NoTask, Task
<1>2. Empty \in Snapshots
  BY <1>1 DEF Empty, Snapshots
<1>3. \A S \in SUBSET Ids : Listing(st, S) \in Snapshots
  BY <1>1 DEF Listing, Snapshots
<1>4. \A id \in Ids : Without(st, id) \in Snapshots
  BY <1>1 DEF Without, Snapshots
<1>5. \A id, t : t \in Task => /\ Update(st, id, t) \in [Ids -> Task]
                              /\ Create(st, id, t) \in [Ids -> Task]
  BY Zenon DEF Update, Create
<1>6. \A id, status, token, t :
        t \in Task => UpdateIfState(st, id, status, token, t) \in [Ids -> Task]
  BY Zenon DEF UpdateIfState
<1>7. \A id : Delete(st, id) \in [Ids -> Task]
  BY Zenon, <1>1 DEF Delete
<1> QED BY <1>1, <1>2, <1>3, <1>4, <1>5, <1>6, <1>7

-----------------------------------------------------------------------------
(* Replacing a file.                                                       *)

\* os.Rename moves one file and leaves the third alone.
LEMMA Renaming ==
    ASSUME NEW V, NoFile \in V, NEW d \in [Names -> V],
           NEW f \in Names, NEW g \in Names, f # g
    PROVE  /\ Rename(d, f, g) \in [Names -> V]
           /\ Rename(d, f, g)[f] = NoFile /\ Rename(d, f, g)[g] = d[f]
           /\ \A h \in Names \ {f, g} : Rename(d, f, g)[h] = d[h]
  BY DEF Rename

\* os.Remove removes one file and leaves the others alone.
LEMMA Removal ==
    ASSUME NEW V, NoFile \in V, NEW d \in [Names -> V], NEW f \in Names
    PROVE  /\ Remove(d, f) \in [Names -> V]
           /\ Remove(d, f)[f] = NoFile
           /\ \A h \in Names \ {f} : Remove(d, f)[h] = d[h]
  BY DEF Remove

\* What each system call of Replace can do (replace.go:7).
LEMMA CallOutcomes ==
    ASSUME NEW d, NEW at \in ReplacePcs, NEW o \in ReplaceStep(d, at)
    PROVE  /\ at = "rename" =>
                  \/ o.dir = Rename(d, "tmp", "dst") /\ o.pc = "saved"
                  \/ (o.dir = d \/ o.dir = Remove(d, "bak")) /\ o.pc = "backup"
           /\ at = "backup" =>
                  \/ d["dst"] = NoFile /\ o.dir = d /\ o.pc = "retry"
                  \/ d["dst"] # NoFile /\ o.dir = Rename(d, "dst", "bak") /\ o.pc = "install"
                  \/ o.dir = d /\ o.pc = "failed"
           /\ at = "retry" =>
                  \/ o.dir = Rename(d, "tmp", "dst") /\ o.pc = "saved"
                  \/ o.dir = d /\ o.pc = "failed"
           /\ at = "install" =>
                  \/ o.dir = Rename(d, "tmp", "dst") /\ o.pc = "cleanup"
                  \/ o.dir = d /\ o.pc = "restore"
           /\ at = "restore" =>
                  (o.dir = Rename(d, "bak", "dst") \/ o.dir = d) /\ o.pc = "failed"
           /\ at = "cleanup" =>
                  \/ o.dir = Remove(d, "bak") /\ o.pc = "saved"
                  \/ o.dir = d /\ o.pc = "failed"
           /\ o.from \in Names \cup {"none"} /\ o.to \in Names \cup {"none", "gone"}
           /\ o.faults \in Nat
<1> USE DEF TryRename, Moving, Staying, To
<1>1. CASE at = "rename"
  BY <1>1 DEF ReplaceStep, Unback, Removing, Names
<1>2. CASE at = "backup"
  BY <1>2 DEF ReplaceStep, Names
<1>3. CASE at = "retry"
  BY <1>3 DEF ReplaceStep, Names
<1>4. CASE at = "install"
  BY <1>4 DEF ReplaceStep, Names
<1>5. CASE at = "restore"
  BY <1>5 DEF ReplaceStep, Names
<1>6. CASE at = "cleanup"
  BY <1>6 DEF ReplaceStep, Removing, Names
<1> QED  BY <1>1, <1>2, <1>3, <1>4, <1>5, <1>6 DEF ReplacePcs

\* While no call fails, Replace goes one of two ways through its calls: the rename
\* replaces the document, or the document is moved aside first.
LEMMA FaultFree ==
    ASSUME NEW d, NEW at \in ReplacePcs, NEW o \in ReplaceStep(d, at), o.faults = 0
    PROVE  /\ at = "rename" =>
                  \/ o.dir = Rename(d, "tmp", "dst") /\ o.pc = "saved"
                  \/ o.dir = Remove(d, "bak") /\ o.pc = "backup"
           /\ at = "backup" /\ d["bak"] = NoFile =>
                  \/ d["dst"] = NoFile /\ o.dir = d /\ o.pc = "retry"
                  \/ d["dst"] # NoFile /\ o.dir = Rename(d, "dst", "bak") /\ o.pc = "install"
           /\ at = "retry" /\ d["tmp"] # NoFile /\ d["dst"] = NoFile =>
                  o.pc = "saved"
           /\ at = "install" /\ d["tmp"] # NoFile /\ d["dst"] = NoFile =>
                  o.dir = Rename(d, "tmp", "dst") /\ o.pc = "cleanup"
           /\ at = "cleanup" /\ d["bak"] # NoFile => o.pc = "saved"
<1> USE DEF TryRename, Moving, Staying, To
<1>1. CASE at = "rename"
  BY <1>1 DEF ReplaceStep, Unback, Removing
<1>2. CASE at = "backup"
  BY <1>2 DEF ReplaceStep, Blocked
<1>3. CASE at = "retry"
  BY <1>3 DEF ReplaceStep, Blocked
<1>4. CASE at = "install"
  BY <1>4 DEF ReplaceStep, Blocked
<1>5. CASE at = "restore"
  BY <1>5
<1>6. CASE at = "cleanup"
  BY <1>6 DEF ReplaceStep, Removing
<1> QED  BY <1>1, <1>2, <1>3, <1>4, <1>5, <1>6 DEF ReplacePcs

\* Replace moves files and changes none.
LEMMA ReplaceMoves ==
    ASSUME NEW V, NoFile \in V, NEW d \in [Names -> V],
           NEW at \in ReplacePcs, NEW o \in ReplaceStep(d, at)
    PROVE  /\ o.dir \in [Names -> V]
           /\ o.pc \in ReplacePcs \cup Results
<1>1. /\ Rename(d, "tmp", "dst") \in [Names -> V]
      /\ Rename(d, "dst", "bak") \in [Names -> V]
      /\ Rename(d, "bak", "dst") \in [Names -> V]
      /\ Remove(d, "bak") \in [Names -> V]
  BY Renaming, Removal DEF Names
<1> QED  BY <1>1, CallOutcomes DEF ReplacePcs, Results

\* Tidying removes files and changes none.
LEMMA Tidying ==
    ASSUME NEW V, NoFile \in V, NEW d \in [Names -> V]
    PROVE  /\ Tidy(d) \in [Names -> V]
           /\ Tidy(d)["dst"] = d["dst"]
           /\ Tidy(d)["bak"] \in {d["bak"], NoFile}
           /\ d["dst"] = NoFile => Tidy(d)["bak"] = d["bak"]
  BY DEF Tidy, Names

=============================================================================
