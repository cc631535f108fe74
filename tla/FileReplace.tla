----------------------------- MODULE FileReplace ----------------------------
(***************************************************************************)
(* internal/fileutil/replace.go: the document dst, the temporary file that *)
(* is renamed over it, and the backup of the fallback for file systems     *)
(* whose rename does not overwrite.  A directory d maps the three names to *)
(* what they hold.  A system call of Replace that may change something is  *)
(* one step; a step has a set of outcomes, because every call may fail,    *)
(* and the process may die between any two.                                *)
(***************************************************************************)
EXTENDS Naturals

CONSTANTS NoFile,     \* there is no file of that name
          Torn,       \* a file that was truncated and not yet written in full
          Overwrites  \* whether the platform's rename replaces an existing file

ASSUME FileReplaceAssumption == Overwrites \in BOOLEAN

Names == {"dst", "tmp", "bak"}
EmptyDir == [f \in Names |-> NoFile]

Rename(d, f, g) == [d EXCEPT ![g] = d[f], ![f] = NoFile]
Remove(d, f) == [d EXCEPT ![f] = NoFile]

\* Where Replace is, and how it ends.
ReplacePcs == {"rename", "backup", "retry", "install", "restore", "cleanup"}
Results == {"saved", "failed"}

\* One outcome: the directory after it, where Replace goes on, which name was
\* moved to which, and how many faults of the file system it took.
To(d, pc, from, to, faults) ==
    [dir |-> d, pc |-> pc, from |-> from, to |-> to, faults |-> faults]
Moving(d, from, to, pc) == To(Rename(d, from, to), pc, from, to, 0)
Removing(d, f, pc, faults) == To(Remove(d, f), pc, f, "gone", faults)
Staying(d, pc, faults) == To(d, pc, "none", "none", faults)

\* A rename that fails without a fault: the file is gone, or the other one in the way.
Blocked(d, from, to) == d[from] = NoFile \/ (d[to] # NoFile /\ ~Overwrites)

TryRename(d, from, to, ok, bad) ==
    IF Blocked(d, from, to) THEN {Staying(d, bad, 0)}
    ELSE {Moving(d, from, to, ok), Staying(d, bad, 1)}

\* The first rename has failed; the next call removes an old backup, and it does
\* not matter whether that succeeds.
Unback(d, faults) == {Removing(d, "bak", "backup", faults), Staying(d, "backup", faults + 1)}

\* Mutant: the old document is removed before the new one is in place.
ReplaceStepRemovingFirst(d, pc) ==
    IF pc = "rename" /\ d["dst"] # NoFile THEN {Removing(d, "dst", "retry", 0)}
    ELSE TryRename(d, "tmp", "dst", "saved", "failed")

ReplaceStep(d, pc) ==
    CASE pc = "rename"  -> IF Blocked(d, "tmp", "dst") THEN Unback(d, 0)
                           ELSE {Moving(d, "tmp", "dst", "saved")} \cup Unback(d, 1)
      [] pc = "backup"  -> IF d["dst"] = NoFile THEN {Staying(d, "retry", 0)}
                           ELSE TryRename(d, "dst", "bak", "install", "failed")
      [] pc = "retry"   -> TryRename(d, "tmp", "dst", "saved", "failed")
      [] pc = "install" -> TryRename(d, "tmp", "dst", "cleanup", "restore")
      [] pc = "restore" -> TryRename(d, "bak", "dst", "failed", "failed")
      [] pc = "cleanup" -> IF d["bak"] = NoFile THEN {Staying(d, "failed", 0)}
                           ELSE {Removing(d, "bak", "saved", 0), Staying(d, "failed", 1)}

\* What is left in the temporary file, and in a backup beside the document, is
\* truncated, removed or overwritten before anything reads it: it is forgotten.
\* (A backup that cannot be removed makes the next Replace fail just as a fault of
\* the rename to it does.)
Tidy(d) == [d EXCEPT !["tmp"] = NoFile,
                     !["bak"] = IF d["dst"] = NoFile THEN @ ELSE NoFile]

=============================================================================
