------------------------------ MODULE FileStore -----------------------------
(***************************************************************************)
(* internal/store/file.go: the task map in memory and the JSON document it *)
(* is saved to.  A write changes the map first and saves it afterwards,    *)
(* both under FileStore.mu, so that no other call of the store happens in  *)
(* between; when the save fails the map stays changed and the caller gets  *)
(* an error.  Which records a write changes is the business of Store.      *)
(*                                                                         *)
(* save is where the goroutine inside saveLocked is: "idle" when there is  *)
(* none, a result of Replace when it is about to return.                   *)
(***************************************************************************)
EXTENDS Store, FileReplace

CONSTANT MaxFaults   \* bound: how many system calls of a save fail

ASSUME FileStoreAssumption ==
    /\ MaxFaults \in Nat
    /\ NoFile # Torn /\ {NoFile, Torn} \cap [Ids -> Task] = {}

VARIABLES mem,     \* FileStore.tasks
          dir,     \* the document, its temporary file and its backup
          save,
          faults   \* how many calls have failed

storeVars == <<mem, dir, save, faults>>

SavePcs == {"idle", "write"} \cup ReplacePcs \cup Results

\* LeaseUntil is stored as a time; whoever loads it clears it, so that it does
\* not matter whether it has passed.
Marshal(st) ==
    [id \in Ids |-> IF st[id].lease = "live" THEN [st[id] EXCEPT !.lease = "lapsed"]
                    ELSE st[id]]

StoreTypeOK ==
    /\ mem \in [Ids -> Task]
    /\ dir \in [Names -> {NoFile, Torn} \cup [Ids -> Task]]
    /\ save \in SavePcs
    /\ faults \in 0..MaxFaults

StoreInit ==
    /\ mem = Empty /\ dir = EmptyDir
    /\ save = "idle" /\ faults = 0

\* The write of Create, Update, UpdateIfLease, UpdateIfState or Delete, once its
\* guard has held.
Put(st) ==
    /\ save = "idle"
    /\ mem' = st /\ save' = "write"
    /\ UNCHANGED <<dir, faults>>

Faults(n) == faults + n <= MaxFaults /\ faults' = faults + n
Fault == Faults(1)

\* Mutant: the document is written in place.
WriteInPlace ==
    /\ save = "write"
    /\ \/ dir' = [dir EXCEPT !["dst"] = Marshal(mem)] /\ save' = "saved" /\ UNCHANGED faults
       \/ dir' = [dir EXCEPT !["dst"] = Torn] /\ save' = "failed" /\ Fault

\* ioutil.WriteFile truncates the temporary file and fills it, or fails on the way.
\* A process that dies in between leaves a temporary file that nobody reads.
WriteTmp ==
    /\ save = "write"
    /\ \/ dir' = [dir EXCEPT !["tmp"] = Marshal(mem)] /\ save' = "rename" /\ UNCHANGED faults
       \/ dir' = [dir EXCEPT !["tmp"] = Torn] /\ save' = "failed" /\ Fault

Replace ==
    /\ save \in ReplacePcs
    /\ \E o \in ReplaceStep(dir, save) :
           /\ dir' = o.dir /\ save' = o.pc
           /\ Faults(o.faults)

\* The steps of saveLocked.
SaveStep == (WriteTmp \/ Replace) /\ UNCHANGED mem

\* The store call returns to its caller and gives up the mutex.
StoreReturns ==
    /\ save \in Results
    /\ save' = "idle" /\ dir' = Tidy(dir)
    /\ UNCHANGED <<mem, faults>>

\* The process dies: only the directory is left.
StoreDies == mem' = Empty /\ save' = "idle" /\ dir' = Tidy(dir) /\ UNCHANGED faults

\* Mutant: a missing document is loaded as records of zero values.
LoadZeroValues(d) ==
    IF d["dst"] = NoFile THEN [id \in Ids |-> [NoTask EXCEPT !.status = ""]] ELSE d["dst"]

\* NewFile: a missing document is an empty store, an unreadable one an error.
Loadable(d) == d["dst"] # Torn
Load(d) == IF d["dst"] = NoFile THEN Empty ELSE d["dst"]

\* The document is neither in its place nor about to be put back there.
Misplaced(d) == d["dst"] = NoFile /\ d["bak"] # NoFile

=============================================================================
