----------------------------- MODULE FileRegistry ---------------------------
(***************************************************************************)
(* internal/cluster/file_registry.go, with the Elector of each node        *)
(* (election.go) and the leader gate that it is (cmd/jobraft/main.go).     *)
(*                                                                         *)
(* A node is a process.  An operation on the registry is lock, read,       *)
(* compute, write a temporary file, Replace, unlock; each system call that *)
(* another process can notice is a step, and a process may die between any *)
(* two.  FileRegistry.mu admits one operation of a process at a time: a    *)
(* renewal of its Elector, or Leader or List for GET /cluster.             *)
(***************************************************************************)
EXTENDS Registry, FileReplace

CONSTANTS Blank,       \* a file of length zero
          MaxFaults    \* bound: how many system calls fail; that two processes
                       \* get the lock counts as one

ASSUME FileRegistryAssumption ==
    /\ MaxFaults \in Nat
    /\ {NoFile, Torn, Blank} \cap Document = {} /\ Blank \notin {NoFile, Torn}
    /\ NoFile # Torn

VARIABLES
    dir,        \* the document, its temporary file and its backup
    lock,       \* the lock file: none, or younger or older than 30 seconds
    pc,         \* where a process is
    copy,       \* its local nodes, until they are written
    ret,        \* the role that its Renew is going to return
    fd,         \* the present name of the file that WriteFile has opened
    cached,     \* Elector.node.Role
    faults,
    aged,       \* history: a lock file has grown old
    overlapped, \* history: two processes were between lock and unlock
    lost        \* history: a registry was read while its document was misplaced

local == <<pc, copy, ret, fd, cached>>
vars == <<dir, lock, local, faults, aged, overlapped, lost>>

Roles == {"none", "leader", "follower"}
Ops == {"renew", "leader", "list"}
InsidePcs == {"read", "open", "write"} \cup ReplacePcs \cup Results
Pcs == {"down", "idle", "steal"} \cup InsidePcs

\* Every variable has the type of what it stands for.
TypeOK ==
    /\ dir \in [Names -> {NoFile, Torn, Blank} \cup Document]
    /\ lock \in {"none", "fresh", "old"}
    /\ pc \in [Node -> Pcs]
    /\ copy \in [Node -> Document]
    /\ fd \in [Node -> Names \cup {"none", "gone"}]
    /\ cached \in [Node -> Roles] /\ ret \in [Node -> Roles]
    /\ faults \in 0..MaxFaults
    /\ aged \in BOOLEAN /\ overlapped \in BOOLEAN /\ lost \in BOOLEAN

Init ==
    /\ dir = EmptyDir /\ lock = "none"
    /\ pc = [p \in Node |-> "down"] /\ ret = [p \in Node |-> "none"]
    /\ copy = [p \in Node |-> NoNodes] /\ fd = [p \in Node |-> "none"]
    /\ cached = [p \in Node |-> "none"]
    /\ faults = 0
    /\ aged = FALSE /\ overlapped = FALSE /\ lost = FALSE

Up(p) == pc[p] # "down"
Inside(p) == pc[p] \in InsidePcs
Goto(p, l) == pc' = [pc EXCEPT ![p] = l]

\* What p leaves behind is forgotten where nobody reads it, unless another process
\* has it in its hands.
TidyUnlessUsed(p) == IF \E q \in Node \ {p} : Inside(q) THEN dir ELSE Tidy(dir)

Faults(n) == faults + n <= MaxFaults /\ faults' = faults + n
Fault == Faults(1)

-----------------------------------------------------------------------------
(* A process.                                                              *)

\* main starts the Elector, and makes it the leader gate of the scheduler.
Start(p) ==
    /\ pc[p] = "down"
    /\ Goto(p, "idle")
    /\ UNCHANGED <<dir, lock, copy, ret, fd, cached, faults, aged, overlapped, lost>>

\* The process ends.  Elector.Stop waits for the renewal and leaves the registry
\* as it is; a crash leaves it, and the lock, wherever the process was.
Ends(p) ==
    /\ Up(p)
    /\ Goto(p, "down")
    /\ ret' = [ret EXCEPT ![p] = "none"] /\ copy' = [copy EXCEPT ![p] = NoNodes]
    /\ fd' = [fd EXCEPT ![p] = "none"]
    /\ cached' = [cached EXCEPT ![p] = "none"]
    /\ dir' = TidyUnlessUsed(p)
    /\ UNCHANGED <<lock, faults, aged, overlapped, lost>>

-----------------------------------------------------------------------------
(* FileRegistry.lock.  A failed attempt, and the error after fifty of      *)
(* them, change nothing: Elector.renew keeps the role it has.              *)

\* Mutant: the lock file is opened without O_EXCL.
AcquireShared(p) ==
    /\ pc[p] = "idle"
    /\ lock' = "fresh" /\ Goto(p, "read")
    /\ overlapped' = (overlapped \/ \E q \in Node \ {p} : Inside(q))
    /\ IF overlapped' = overlapped THEN UNCHANGED faults ELSE Fault
    /\ UNCHANGED <<dir, copy, ret, fd, cached, aged, lost>>

Acquire(p) ==
    /\ pc[p] = "idle" /\ lock = "none"
    /\ lock' = "fresh" /\ Goto(p, "read")
    /\ overlapped' = (overlapped \/ \E q \in Node \ {p} : Inside(q))
    /\ IF overlapped' = overlapped THEN UNCHANGED faults ELSE Fault
    /\ UNCHANGED <<dir, copy, ret, fd, cached, aged, lost>>

\* Mutant: nobody looks at the age of the lock file.
FindsOldNever(p) == FALSE /\ UNCHANGED vars

\* Stat finds a lock file that is too old ...
FindsOld(p) ==
    /\ pc[p] = "idle" /\ lock = "old"
    /\ Goto(p, "steal")
    /\ UNCHANGED <<dir, lock, copy, ret, fd, cached, faults, aged, overlapped, lost>>

\* ... and Remove removes the one that is there by then.
Steal(p) ==
    /\ pc[p] = "steal"
    /\ lock' = "none" /\ Goto(p, "idle")
    /\ UNCHANGED <<dir, copy, ret, fd, cached, faults, aged, overlapped, lost>>

-----------------------------------------------------------------------------
(* Between lock and unlock.                                                *)

\* Mutant: the document is not read.
ContentsIgnored(x) == NoNodes

\* FileRegistry.read: a missing or empty document has no nodes.
Contents(x) == IF x \in {NoFile, Blank} THEN NoNodes ELSE x

\* What Renew, Leader or List make of it.
Changed(p, o, d) ==
    CASE o = "renew"  -> Renewed(d, p)
      [] o = "leader" -> Leading(d)
      [] o = "list"   -> List(d)

Misplaced == dir["dst"] = NoFile /\ dir["bak"] # NoFile

\* The operation is a renewal of the Elector, or Leader or List for GET /cluster.
\* After it has read the registry, the only difference is what it returns.
Read(p, o) ==
    /\ pc[p] = "read"
    /\ IF dir["dst"] = Torn THEN Goto(p, "failed") /\ UNCHANGED <<copy, ret>>
       ELSE LET d == Changed(p, o, Contents(dir["dst"]))
            IN  /\ copy' = [copy EXCEPT ![p] = d]
                /\ ret' = [ret EXCEPT ![p] = IF o = "renew" THEN d[p].role ELSE "none"]
                /\ Goto(p, "open")
    /\ lost' = (lost \/ (Misplaced /\ ~overlapped))
    /\ UNCHANGED <<dir, lock, fd, cached, faults, aged, overlapped>>

\* Mutant: the document is opened, not a temporary file.
OpenDocument(p) ==
    /\ pc[p] = "open"
    /\ dir' = [dir EXCEPT !["dst"] = Blank]
    /\ fd' = [fd EXCEPT ![p] = "dst"] /\ Goto(p, "write")
    /\ UNCHANGED <<lock, copy, ret, cached, faults, aged, overlapped, lost>>

\* ioutil.WriteFile opens and truncates the temporary file ...
Open(p) ==
    /\ pc[p] = "open"
    /\ \/ /\ dir' = [dir EXCEPT !["tmp"] = Blank]
          /\ fd' = [fd EXCEPT ![p] = "tmp"] /\ Goto(p, "write")
          /\ UNCHANGED faults
       \/ Fault /\ Goto(p, "failed") /\ UNCHANGED <<dir, fd>>
    /\ UNCHANGED <<lock, copy, ret, cached, aged, overlapped, lost>>

\* ... and writes to it, under whatever name it has by then.  Over the longer text
\* of another process the shorter one leaves something unreadable.
Write(p) ==
    LET f == fd[p]
        Put(x) == dir' = IF f = "gone" THEN dir ELSE [dir EXCEPT ![f] = x]
    IN  /\ pc[p] = "write"
        /\ \/ Put(copy[p]) /\ Goto(p, "rename") /\ UNCHANGED faults
           \/ /\ f # "gone" /\ dir[f] # Blank
              /\ Put(Torn) /\ Goto(p, "rename") /\ UNCHANGED faults
           \/ Put(Torn) /\ Goto(p, "failed") /\ Fault
        /\ fd' = [fd EXCEPT ![p] = "none"] /\ copy' = [copy EXCEPT ![p] = NoNodes]
        /\ UNCHANGED <<lock, ret, cached, aged, overlapped, lost>>

\* Open files move with their names; the target of a rename is gone.
Follow(o) ==
    [q \in Node |-> IF fd[q] = "none" \/ o.from = "none" THEN fd[q]
                    ELSE IF fd[q] = o.from THEN o.to
                    ELSE IF fd[q] = o.to THEN "gone" ELSE fd[q]]

Replace(p) ==
    /\ pc[p] \in ReplacePcs
    /\ \E o \in ReplaceStep(dir, pc[p]) :
           /\ dir' = o.dir /\ Goto(p, o.pc)
           /\ fd' = Follow(o)
           /\ Faults(o.faults)
    /\ UNCHANGED <<lock, copy, ret, cached, aged, overlapped, lost>>

\* Mutant: a leader that is told it is a follower stays the leader.
RoleAfterSticky(p) ==
    IF pc[p] = "saved" /\ ret[p] # "none" /\ cached[p] # "leader" THEN ret[p] ELSE cached[p]

\* Elector.renew keeps the old role when Renew has failed.
RoleAfter(p) == IF pc[p] = "saved" /\ ret[p] # "none" THEN ret[p] ELSE cached[p]

\* The deferred unlock removes the lock file, whosever it is; the operation returns.
Unlock(p) ==
    /\ pc[p] \in Results
    /\ lock' = "none" /\ Goto(p, "idle")
    /\ cached' = [cached EXCEPT ![p] = RoleAfter(p)]
    /\ ret' = [ret EXCEPT ![p] = "none"] /\ copy' = [copy EXCEPT ![p] = NoNodes]
    /\ dir' = TidyUnlessUsed(p)
    /\ UNCHANGED <<fd, faults, aged, overlapped, lost>>

Work(p) == Open(p) \/ Write(p) \/ Replace(p) \/ Unlock(p)

-----------------------------------------------------------------------------
(* Time.                                                                   *)

AgedFile(x) == IF x \in {NoFile, Torn, Blank} THEN x ELSE Aged(x)

Tick ==
    /\ dir' = [f \in Names |-> AgedFile(dir[f])]
    /\ copy' = [p \in Node |-> Aged(copy[p])]
    /\ UNCHANGED <<lock, pc, ret, fd, cached, faults, aged, overlapped, lost>>

\* Bound: after an overlap, a lock grows old only when it was left behind.
LockAges ==
    /\ lock = "fresh" /\ (overlapped => \A p \in Node : ~Inside(p))
    /\ lock' = "old" /\ aged' = TRUE
    /\ UNCHANGED <<dir, local, faults, overlapped, lost>>

Next ==
    \/ \E p \in Node :
           \/ Start(p) \/ Ends(p)
           \/ Acquire(p) \/ FindsOld(p) \/ Steal(p)
           \/ \E o \in Ops : Read(p, o)
           \/ Work(p)
    \/ Tick \/ LockAges

Spec == Init /\ [][Next]_vars

=============================================================================
