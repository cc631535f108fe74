---------------------------- MODULE ClusterProofs ---------------------------
(***************************************************************************)
(* What the registry guarantees to any number of nodes, with any number of *)
(* faults, on both kinds of file system.                                   *)
(***************************************************************************)
EXTENDS ClusterProperties, OperatorLemmas

Special == {NoFile, Torn, Blank}

\* While no lock has grown old, the lock file says whether somebody is inside.
Exclusion ==
    ~aged => /\ lock # "old"
             /\ \A p \in Node : pc[p] # "steal"
             /\ \A p \in Node : Inside(p) => lock = "fresh"
             /\ \A p, q \in Node : Inside(p) /\ Inside(q) => p = q

\* While nobody was inside together with another, only the temporary file is ever
\* half-written, and nobody renames it then.
Alone ==
    ~overlapped =>
        /\ \A p, q \in Node : Inside(p) /\ Inside(q) => p = q
        /\ dir["dst"] \notin {Torn, Blank} /\ dir["bak"] \notin {Torn, Blank}
        /\ \A p \in Node : pc[p] = "write" => fd[p] = "tmp" /\ dir["tmp"] = Blank
        /\ \A p \in Node : pc[p] \in ReplacePcs => dir["tmp"] \notin {Torn, Blank}

\* The registry d extends every lease of the document.
Covers(d) == \A n \in Node : Left(Doc, n) <= Left(d, n)

\* What p is about to install covers the document.
Kept(p) ==
    /\ pc[p] \in {"open", "write", "rename", "backup", "retry"} => ~Misplaced
    /\ pc[p] \in {"open", "write"} => Covers(copy[p])
    /\ pc[p] \in {"rename", "backup", "retry", "install"} =>
           dir["tmp"] \in Document /\ Covers(dir["tmp"])
    /\ pc[p] \in {"retry", "install", "restore"} => dir["dst"] = NoFile
    /\ pc[p] \in {"install", "restore"} => dir["bak"] # NoFile
    /\ pc[p] = "cleanup" => dir["dst"] # NoFile

Keeping == ~overlapped /\ ~lost => \A p \in Node : Kept(p)

IInv == TypeOK /\ OneLeaderPerDocument /\ Exclusion /\ Alone /\ Keeping

-----------------------------------------------------------------------------
(* The operations of a registry.                                           *)

\* A registry is a function from some of the nodes to entries.
LEMMA InDocument ==
    ASSUME NEW S \in SUBSET Node, NEW d \in [S -> Entry]
    PROVE  d \in Document
  BY DEF Document

\* The converse.
LEMMA FromDocument ==
    ASSUME NEW d \in Document
    PROVE  DOMAIN d \in SUBSET Node /\ d \in [DOMAIN d -> Entry]
  BY DEF Document

\* A renewal keeps one leader and every lease (election.go:40).
LEMMA RenewedKeeps ==
    ASSUME NEW d \in Document, NEW id \in Node
    PROVE  /\ Renewed(d, id) \in Document /\ OneLeader(Renewed(d, id))
           /\ id \in DOMAIN Renewed(d, id)
           /\ \A n \in Node : Left(d, n) <= Left(Renewed(d, id), n)
<1> DEFINE S == Live(d) \cup {id}
<1>1. DOMAIN d \in SUBSET Node /\ d \in [DOMAIN d -> Entry]
  BY FromDocument
<1>2. S \in SUBSET Node
  BY <1>1 DEF Live
<1>3. \A n \in S : RoleIn(n, S) \in {"leader", "follower"}
  BY DEF RoleIn
<1>4. \A n \in Live(d) : n \in DOMAIN d /\ d[n].left \in 0..TTL
  BY <1>1 DEF Live, Entry
<1>5. Renewed(d, id) \in [S -> Entry]
  BY <1>3, <1>4, RegistryAssumption DEF Renewed, Entry
<1>6. Renewed(d, id) \in Document
  BY <1>2, <1>5, InDocument
<1>7. OneLeader(Renewed(d, id))
  BY <1>5 DEF OneLeader, Renewed
<1>8. ASSUME NEW n \in Node PROVE Left(d, n) <= Left(Renewed(d, id), n)
  <2>1. Left(d, n) \in 0..TTL
    BY <1>1, RegistryAssumption DEF Left, Entry
  <2>2. CASE n = id
    BY <2>1, <2>2, RegistryAssumption DEF Left, Renewed
  <2>3. CASE n # id /\ n \in Live(d)
    BY <1>4, <2>3 DEF Left, Renewed
  <2>4. CASE n # id /\ n \notin Live(d)
    <3>1. Left(d, n) = 0
      BY <2>1, <2>4 DEF Left, Live
    <3>2. n \notin S
      BY <2>4
    <3>3. Left(Renewed(d, id), n) = 0
      BY <1>5, <3>2 DEF Left
    <3> QED  BY <3>1, <3>3
  <2> QED  BY <2>2, <2>3, <2>4
<1> QED  BY <1>5, <1>6, <1>7, <1>8

\* So does a query: Leader changes one role only, but the others are right as
\* they are (election.go:71).
LEMMA LeadingKeeps ==
    ASSUME NEW d \in Document, OneLeader(d)
    PROVE  /\ Leading(d) \in Document /\ OneLeader(Leading(d))
           /\ \A n \in Node : Left(d, n) <= Left(Leading(d), n)
<1>1. DOMAIN d \in SUBSET Node /\ d \in [DOMAIN d -> Entry]
  BY FromDocument
<1>2. Live(d) \in SUBSET Node /\ Live(d) \subseteq DOMAIN d
  BY <1>1 DEF Live
<1>3. Leading(d) \in [Live(d) -> Entry]
  BY <1>1, <1>2 DEF Leading, Entry
<1>4. Leading(d) \in Document
  BY <1>2, <1>3, InDocument
<1>5. ASSUME NEW n \in Live(d) PROVE Leading(d)[n].role = RoleIn(n, Live(d))
  <2>1. CASE IsFirst(n, Live(d))
    BY <1>1, <1>2, <2>1 DEF Leading, RoleIn, Entry
  <2>2. CASE ~IsFirst(n, Live(d))
    <3>1. ~IsFirst(n, DOMAIN d)
      BY <1>2, <2>2 DEF IsFirst
    <3> QED  BY <1>2, <2>2, <3>1 DEF Leading, RoleIn, OneLeader
  <2> QED  BY <2>1, <2>2
<1>6. OneLeader(Leading(d))
  BY <1>3, <1>5 DEF OneLeader
<1>7. ASSUME NEW n \in Node PROVE Left(d, n) <= Left(Leading(d), n)
  <2>1. Left(d, n) \in 0..TTL
    BY <1>1, RegistryAssumption DEF Left, Entry
  <2>2. CASE n \in Live(d)
    <3>1. Leading(d)[n].left = d[n].left
      BY <1>1, <1>2, <2>2 DEF Leading, Entry
    <3> QED  BY <1>2, <1>3, <2>1, <2>2, <3>1 DEF Left
  <2>3. CASE n \notin Live(d)
    BY <1>3, <2>1, <2>3 DEF Left, Live
  <2> QED  BY <2>2, <2>3
<1> QED  BY <1>4, <1>6, <1>7

\* List keeps them too, and sets every role anew (election.go:92).
LEMMA ListKeeps ==
    ASSUME NEW d \in Document
    PROVE  /\ List(d) \in Document /\ OneLeader(List(d))
           /\ \A n \in Node : Left(d, n) <= Left(List(d), n)
<1>1. DOMAIN d \in SUBSET Node /\ d \in [DOMAIN d -> Entry]
  BY FromDocument
<1>2. Live(d) \in SUBSET Node /\ Live(d) \subseteq DOMAIN d
  BY <1>1 DEF Live
<1>3. ASSUME NEW n \in Live(d)
      PROVE  /\ List(d)[n] \in Entry /\ List(d)[n].left = d[n].left
             /\ List(d)[n].role = RoleIn(n, Live(d))
  BY <1>1, <1>2 DEF List, RoleIn, Entry
<1>4. List(d) \in [Live(d) -> Entry]
  BY <1>3 DEF List
<1>5. List(d) \in Document
  BY <1>2, <1>4, InDocument
<1>6. OneLeader(List(d))
  BY <1>3, <1>4 DEF OneLeader
<1>7. ASSUME NEW n \in Node PROVE Left(d, n) <= Left(List(d), n)
  <2>1. Left(d, n) \in 0..TTL
    BY <1>1, RegistryAssumption DEF Left, Entry
  <2>2. CASE n \in Live(d)
    BY <1>2, <1>3, <1>4, <2>1, <2>2 DEF Left
  <2>3. CASE n \notin Live(d)
    BY <1>4, <2>1, <2>3 DEF Left, Live
  <2> QED  BY <2>2, <2>3
<1> QED  BY <1>5, <1>6, <1>7

\* Time takes the same from every copy of a registry.
LEMMA AgedKeeps ==
    ASSUME NEW d \in Document
    PROVE  /\ Aged(d) \in Document
           /\ OneLeader(d) => OneLeader(Aged(d))
           /\ \A n \in Node : Left(d, n) \in Nat /\
                  Left(Aged(d), n) = IF Left(d, n) = 0 THEN 0 ELSE Left(d, n) - 1
<1>1. DOMAIN d \in SUBSET Node /\ d \in [DOMAIN d -> Entry]
  BY FromDocument
<1>2. ASSUME NEW n \in DOMAIN d
      PROVE  /\ Aged(d)[n] \in Entry /\ Aged(d)[n].role = d[n].role
             /\ d[n].left \in 0..TTL
             /\ Aged(d)[n].left = IF d[n].left = 0 THEN 0 ELSE d[n].left - 1
  <2>1. d[n] \in Entry /\ d[n].left \in 0..TTL
    BY <1>1 DEF Entry
  <2>2. Aged(d)[n] = [d[n] EXCEPT !.left = IF d[n].left = 0 THEN 0 ELSE d[n].left - 1]
    BY DEF Aged
  <2> QED  BY <2>1, <2>2, RegistryAssumption DEF Entry
<1>3. Aged(d) \in [DOMAIN d -> Entry]
  BY Zenon, <1>2 DEF Aged
<1>4. Aged(d) \in Document
  BY <1>1, <1>3, InDocument
<1>5. OneLeader(d) => OneLeader(Aged(d))
  BY <1>2, <1>3 DEF OneLeader
<1> QED  BY <1>2, <1>3, <1>4, <1>5 DEF Left

-----------------------------------------------------------------------------
(* Types and roles.                                                        *)

Files == Special \cup Document

\* What a file may hold when every registry has one leader.
GoodFiles == {x \in Files : x \in Special \/ OneLeader(x)}

\* A directory in which every registry has one leader is a function to good files.
LEMMA GoodDir ==
    ASSUME dir \in [Names -> Files]
    PROVE  (\A f \in Names : dir[f] \in Special \/ OneLeader(dir[f]))
               <=> dir \in [Names -> GoodFiles]
  BY DEF GoodFiles

Good ==
    /\ TypeOK
    /\ dir \in [Names -> GoodFiles]
    /\ \A p \in Node : OneLeader(copy[p])

\* Good is the type invariant together with OneLeaderPerDocument, in another form.
LEMMA GoodIs == Good <=> TypeOK /\ OneLeaderPerDocument
  BY GoodDir DEF Good, OneLeaderPerDocument, TypeOK, Files, Special

\* The registry that nobody has written has no leader and no other node.
LEMMA EmptyRegistry == NoNodes \in Document /\ OneLeader(NoNodes)
<1>1. NoNodes \in [{} -> Entry]
  BY DEF NoNodes
<1> QED  BY Zenon, <1>1, InDocument DEF OneLeader, NoNodes

\* A registry that an operation has computed.
LEMMA ChangedKeeps ==
    ASSUME NEW d \in Document, OneLeader(d), NEW p \in Node, NEW o \in Ops
    PROVE  /\ Changed(p, o, d) \in Document /\ OneLeader(Changed(p, o, d))
           /\ o = "renew" => Changed(p, o, d)[p].role \in Roles
           /\ \A n \in Node : Left(d, n) <= Left(Changed(p, o, d), n)
<1>1. CASE o = "renew"
  <2>1. Changed(p, o, d) = Renewed(d, p)
    BY <1>1 DEF Changed
  <2>2. Renewed(d, p)[p].role \in Roles
    BY DEF Renewed, RoleIn, Roles
  <2> QED  BY <2>1, <2>2, RenewedKeeps
<1>2. CASE o = "leader"
  <2>1. Changed(p, o, d) = Leading(d)
    BY <1>2 DEF Changed
  <2> QED  BY <1>2, <2>1, LeadingKeeps
<1>3. CASE o = "list"
  <2>1. Changed(p, o, d) = List(d)
    BY <1>3 DEF Changed
  <2> QED  BY <1>3, <2>1, ListKeeps
<1> QED  BY <1>1, <1>2, <1>3 DEF Ops

\* FileRegistry.read turns what it can read into a registry with one leader.
LEMMA ContentsGood ==
    ASSUME NEW x \in GoodFiles, x # Torn
    PROVE  Contents(x) \in Document /\ OneLeader(Contents(x))
  BY EmptyRegistry DEF Contents, GoodFiles, Files, Special

\* Nothing is wrong before the first process starts.
LEMMA GoodInit == Init => Good
<1> SUFFICES ASSUME Init PROVE Good
  OBVIOUS
<1>1. dir \in [Names -> GoodFiles] /\ dir \in [Names -> Files]
  BY DEF Init, EmptyDir, GoodFiles, Files, Special
<1>2. copy \in [Node -> Document] /\ \A p \in Node : OneLeader(copy[p])
  BY EmptyRegistry DEF Init
<1>3. /\ pc \in [Node -> Pcs] /\ fd \in [Node -> Names \cup {"none", "gone"}]
      /\ cached \in [Node -> Roles] /\ ret \in [Node -> Roles]
  BY DEF Init, Pcs, Roles
<1>4. faults \in 0..MaxFaults /\ lock \in {"none", "fresh", "old"}
  BY FileRegistryAssumption DEF Init
<1>5. aged \in BOOLEAN /\ overlapped \in BOOLEAN /\ lost \in BOOLEAN
  BY Zenon DEF Init
<1> QED  BY <1>1, <1>2, <1>3, <1>4, <1>5 DEF Good, TypeOK, Files, Special

\* Every step keeps the types, and one leader in every registry.
LEMMA GoodStep == Good /\ [Next]_vars => Good'
<1> SUFFICES ASSUME Good, [Next]_vars PROVE Good'
  OBVIOUS
<1> USE DEF Good, TypeOK, Goto
<1>0. /\ NoFile \in GoodFiles /\ Torn \in GoodFiles /\ Blank \in GoodFiles
      /\ GoodFiles \subseteq {NoFile, Torn, Blank} \cup Document
  BY DEF GoodFiles, Files, Special
<1>a. /\ "down" \in Pcs /\ "idle" \in Pcs /\ "steal" \in Pcs
      /\ InsidePcs \subseteq Pcs
      /\ {"read", "open", "write", "rename", "failed", "saved"} \subseteq InsidePcs
      /\ ReplacePcs \cup Results \subseteq InsidePcs
  BY DEF Pcs, InsidePcs, ReplacePcs, Results
<1>b. \A p \in Node : TidyUnlessUsed(p) \in [Names -> GoodFiles]
  BY <1>0, Tidying DEF TidyUnlessUsed
<1>c. ASSUME NEW d \in [Names -> GoodFiles]
      PROVE  d \in [Names -> {NoFile, Torn, Blank} \cup Document]
  BY <1>0
<1>d. \A p \in Node : RoleAfter(p) \in Roles
  BY DEF RoleAfter
<1>e. NoNodes \in Document /\ OneLeader(NoNodes) /\ "none" \in Roles
  BY EmptyRegistry DEF Roles
<1>1. ASSUME NEW p \in Node, Start(p) PROVE Good'
  BY <1>1, <1>a DEF Start
<1>2. ASSUME NEW p \in Node, Ends(p) PROVE Good'
  BY <1>2, <1>a, <1>b, <1>c, <1>e DEF Ends
<1>3. ASSUME NEW p \in Node, Acquire(p) PROVE Good'
  <2>1. faults' \in 0..MaxFaults
    BY <1>3, FileRegistryAssumption DEF Acquire, Fault, Faults
  <2>2. overlapped' \in BOOLEAN
    BY <1>3 DEF Acquire
  <2> QED  BY <1>3, <1>a, <2>1, <2>2 DEF Acquire
<1>4. ASSUME NEW p \in Node, FindsOld(p) PROVE Good'
  BY <1>4, <1>a DEF FindsOld
<1>5. ASSUME NEW p \in Node, Steal(p) PROVE Good'
  BY <1>5, <1>a DEF Steal
<1>6. ASSUME NEW p \in Node, NEW o \in Ops, Read(p, o) PROVE Good'
  <2>1. lost' \in BOOLEAN
    BY <1>6 DEF Read
  <2>2. CASE dir["dst"] = Torn
    BY <1>6, <1>a, <2>1, <2>2 DEF Read
  <2>3. CASE dir["dst"] # Torn
    <3> DEFINE d == Changed(p, o, Contents(dir["dst"]))
    <3>1. dir["dst"] \in GoodFiles
      BY DEF Names
    <3>2. d \in Document /\ OneLeader(d) /\ (o = "renew" => d[p].role \in Roles)
      BY <2>3, <3>1, ContentsGood, ChangedKeeps
    <3>3. /\ copy' = [copy EXCEPT ![p] = d]
          /\ ret' = [ret EXCEPT ![p] = IF o = "renew" THEN d[p].role ELSE "none"]
          /\ pc' = [pc EXCEPT ![p] = "open"]
          /\ UNCHANGED <<dir, lock, fd, cached, faults, aged, overlapped>>
      BY <1>6, <2>3 DEF Read
    <3> HIDE DEF d
    <3> QED  BY <1>a, <1>e, <2>1, <3>2, <3>3
  <2> QED  BY <2>2, <2>3
<1>7. ASSUME NEW p \in Node, Open(p) PROVE Good'
  <2>1. faults' \in 0..MaxFaults
    BY <1>7, FileRegistryAssumption DEF Open, Fault, Faults
  <2>2. dir' \in [Names -> GoodFiles]
    BY <1>7, <1>0 DEF Open
  <2> QED  BY <1>7, <1>a, <1>c, <2>1, <2>2 DEF Open, Names
<1>8. ASSUME NEW p \in Node, Write(p) PROVE Good'
  <2>1. faults' \in 0..MaxFaults
    BY <1>8, FileRegistryAssumption DEF Write, Fault, Faults
  <2>2. copy[p] \in GoodFiles
    BY DEF GoodFiles, Files
  <2>3. dir' \in [Names -> GoodFiles]
    BY <1>8, <1>0, <2>2 DEF Write
  <2>4. /\ pc' \in [Node -> Pcs] /\ fd' \in [Node -> Names \cup {"none", "gone"}]
        /\ copy' \in [Node -> Document] /\ \A q \in Node : OneLeader(copy'[q])
    BY <1>8, <1>a, <1>e DEF Write
  <2> QED  BY <1>8, <1>c, <2>1, <2>3, <2>4 DEF Write
<1>9. ASSUME NEW p \in Node, Replace(p) PROVE Good'
  <2> PICK o \in ReplaceStep(dir, pc[p]) :
           /\ dir' = o.dir /\ pc' = [pc EXCEPT ![p] = o.pc]
           /\ fd' = Follow(o)
           /\ Faults(o.faults)
    BY Zenon, <1>9 DEF Replace
  <2>1. pc[p] \in ReplacePcs
    BY <1>9 DEF Replace
  <2>2. /\ o.from \in Names \cup {"none"} /\ o.to \in Names \cup {"none", "gone"}
        /\ o.faults \in Nat
    BY <2>1, CallOutcomes
  <2>3. dir' \in [Names -> GoodFiles] /\ o.pc \in InsidePcs
    BY <1>0, <1>a, <2>1, ReplaceMoves
  <2>4. faults' \in 0..MaxFaults
    BY <2>2, FileRegistryAssumption DEF Faults
  <2>5. fd' \in [Node -> Names \cup {"none", "gone"}]
    BY <2>2 DEF Follow
  <2> QED  BY Zenon, <1>9, <1>a, <1>c, <2>3, <2>4, <2>5 DEF Replace
<1>10. ASSUME NEW p \in Node, Unlock(p) PROVE Good'
  BY <1>10, <1>a, <1>b, <1>c, <1>d, <1>e DEF Unlock
<1>11. ASSUME Tick PROVE Good'
  <2>1. \A x \in GoodFiles : AgedFile(x) \in GoodFiles
    BY AgedKeeps DEF AgedFile, GoodFiles, Files, Special
  <2>2. dir' \in [Names -> GoodFiles]
    BY <1>11, <2>1 DEF Tick
  <2>3. copy' \in [Node -> Document] /\ \A q \in Node : OneLeader(copy'[q])
    BY <1>11, AgedKeeps DEF Tick
  <2> QED  BY <1>11, <1>c, <2>2, <2>3 DEF Tick
<1>12. ASSUME LockAges PROVE Good'
  BY <1>12 DEF LockAges, local
<1>13. ASSUME UNCHANGED vars PROVE Good'
  BY <1>13 DEF vars, local
<1> QED
  BY Zenon, <1>1, <1>2, <1>3, <1>4, <1>5, <1>6, <1>7, <1>8, <1>9, <1>10, <1>11, <1>12, <1>13
  DEF Next, Work

-----------------------------------------------------------------------------
(* The lock.                                                               *)

\* The places that decide who is inside.
LEMMA Places ==
    /\ "down" \notin InsidePcs /\ "idle" \notin InsidePcs /\ "steal" \notin InsidePcs
    /\ {"read", "open", "write"} \subseteq InsidePcs
    /\ ReplacePcs \subseteq InsidePcs /\ Results \subseteq InsidePcs
    /\ ReplacePcs \cap {"down", "idle", "steal", "read", "open", "write"} = {}
    /\ Results \cap ({"down", "idle", "steal", "read", "open", "write"} \cup ReplacePcs) = {}
    /\ "rename" \in ReplacePcs /\ "saved" \in Results /\ "failed" \in Results
  BY DEF InsidePcs, ReplacePcs, Results

\* Every step keeps the lock and what it stands for, while no lock grows old.
LEMMA ExclusionStep == Good /\ Exclusion /\ [Next]_vars => Exclusion'
<1> SUFFICES ASSUME Good, Exclusion, [Next]_vars, ~aged' PROVE Exclusion'
  BY DEF Exclusion
<1> USE Places DEF Inside, Goto
<1>0. pc \in [Node -> Pcs]
  BY DEF Good, TypeOK
\* A step of p that stays on its side of the lock, and does not touch it.
<1>a. ASSUME NEW p \in Node, NEW l, pc' = [pc EXCEPT ![p] = l],
             l # "steal", l \in InsidePcs => pc[p] \in InsidePcs, UNCHANGED <<lock, aged>>
      PROVE  Exclusion'
  BY <1>0, <1>a DEF Exclusion
<1>1. ASSUME NEW p \in Node, Start(p) PROVE Exclusion'
  BY Zenon, <1>1, <1>a DEF Start
<1>2. ASSUME NEW p \in Node, Ends(p) PROVE Exclusion'
  BY Zenon, <1>2, <1>a DEF Ends
<1>3. ASSUME NEW p \in Node, Acquire(p) PROVE Exclusion'
  BY <1>0, <1>3 DEF Acquire, Exclusion
<1>4. ASSUME NEW p \in Node, FindsOld(p) PROVE Exclusion'
  BY <1>4 DEF FindsOld, Exclusion
<1>5. ASSUME NEW p \in Node, Steal(p) PROVE Exclusion'
  BY <1>5 DEF Steal, Exclusion
<1>6. ASSUME NEW p \in Node, NEW o \in Ops, Read(p, o) PROVE Exclusion'
  BY <1>6, <1>a DEF Read
<1>7. ASSUME NEW p \in Node, Open(p) PROVE Exclusion'
  BY <1>7, <1>a DEF Open
<1>8. ASSUME NEW p \in Node, Write(p) PROVE Exclusion'
  <2>1. \E l \in {"rename", "failed"} : pc' = [pc EXCEPT ![p] = l]
    BY <1>8 DEF Write
  <2> QED  BY Zenon, <1>8, <1>a, <2>1 DEF Write
<1>9. ASSUME NEW p \in Node, Replace(p) PROVE Exclusion'
  <2>1. \E l \in ReplacePcs \cup Results : pc' = [pc EXCEPT ![p] = l]
    BY Zenon, <1>9, NoFile \in Files, ReplaceMoves DEF Replace, Good, TypeOK, Files, Special
  <2> QED  BY Zenon, <1>9, <1>a, <2>1 DEF Replace
<1>10. ASSUME NEW p \in Node, Unlock(p) PROVE Exclusion'
  BY <1>0, <1>10 DEF Unlock, Exclusion
<1>11. ASSUME Tick PROVE Exclusion'
  BY <1>11 DEF Tick, Exclusion
<1>12. ASSUME LockAges PROVE Exclusion'
  BY <1>12 DEF LockAges
<1>13. ASSUME UNCHANGED vars PROVE Exclusion'
  BY <1>13 DEF vars, local, Exclusion
<1> QED
  BY Zenon, <1>1, <1>2, <1>3, <1>4, <1>5, <1>6, <1>7, <1>8, <1>9, <1>10, <1>11, <1>12, <1>13
  DEF Next, Work

-----------------------------------------------------------------------------
(* Half-written files.                                                     *)

\* What a file holds that was written in full.
Whole == Files \ {Torn, Blank}

\* What is written in full is a registry, or no file; time does not change that.
LEMMA WholeFiles ==
    /\ NoFile \in Whole
    /\ Document \subseteq Whole /\ Whole = {NoFile} \cup Document
    /\ \A x \in Whole : AgedFile(x) \in Whole
<1>1. NoFile \in Whole /\ Document \subseteq Whole /\ Whole = {NoFile} \cup Document
  BY FileRegistryAssumption DEF Whole, Files, Special
<1>2. ASSUME NEW x \in Whole PROVE AgedFile(x) \in Whole
  BY Zenon, <1>1, AgedKeeps DEF AgedFile
<1> QED  BY <1>1, <1>2

\* Every step keeps half-written contents in the temporary file, while nobody
\* overlaps with another.
LEMMA AloneStep == Good /\ Alone /\ [Next]_vars => Alone'
<1> SUFFICES ASSUME Good, Alone, [Next]_vars, ~overlapped' PROVE Alone'
  BY DEF Alone
<1> USE Places DEF Inside, Goto
<1>0. /\ pc \in [Node -> Pcs] /\ fd \in [Node -> Names \cup {"none", "gone"}]
      /\ dir \in [Names -> Files] /\ copy \in [Node -> Document]
  BY DEF Good, TypeOK, Files, Special
<1>t. /\ NoFile \in Files
      /\ \A p \in Node : /\ TidyUnlessUsed(p)["dst"] = dir["dst"]
                         /\ TidyUnlessUsed(p)["bak"] \in {dir["bak"], NoFile}
  BY Zenon, <1>0, Tidying DEF TidyUnlessUsed, Files, Special
\* A step of p that leaves the directory and the open files alone.
<1>a. ASSUME NEW p \in Node, NEW l, pc' = [pc EXCEPT ![p] = l],
             l \notin {"write"} \cup ReplacePcs, l \in InsidePcs => pc[p] \in InsidePcs,
             UNCHANGED <<dir, fd, overlapped>>
      PROVE  Alone'
  BY <1>0, <1>a DEF Alone
\* A step by which p leaves.
<1>b. ASSUME NEW p \in Node, NEW l, pc' = [pc EXCEPT ![p] = l], l \notin InsidePcs,
             dir' = TidyUnlessUsed(p), \A q \in Node \ {p} : fd'[q] = fd[q],
             UNCHANGED overlapped
      PROVE  Alone'
  <2>1. dir'["dst"] \notin {Torn, Blank} /\ dir'["bak"] \notin {Torn, Blank}
    BY <1>b, <1>t, FileRegistryAssumption DEF Alone
  <2>2. \A q \in Node : pc'[q] \in InsidePcs => q # p /\ pc[q] = pc'[q] /\ dir' = dir
    BY <1>0, <1>b DEF TidyUnlessUsed
  <2> QED  BY <1>b, <2>1, <2>2 DEF Alone
<1>1. ASSUME NEW p \in Node, Start(p) PROVE Alone'
  BY Zenon, <1>1, <1>a DEF Start
<1>2. ASSUME NEW p \in Node, Ends(p) PROVE Alone'
  BY Zenon, <1>2, <1>0, <1>b DEF Ends
<1>3. ASSUME NEW p \in Node, Acquire(p) PROVE Alone'
  BY Zenon, <1>0, <1>3 DEF Acquire, Alone
<1>4. ASSUME NEW p \in Node, FindsOld(p) PROVE Alone'
  BY Zenon, <1>4, <1>a DEF FindsOld
<1>5. ASSUME NEW p \in Node, Steal(p) PROVE Alone'
  BY Zenon, <1>5, <1>a DEF Steal
<1>6. ASSUME NEW p \in Node, NEW o \in Ops, Read(p, o) PROVE Alone'
  BY <1>6, <1>a DEF Read
<1>7. ASSUME NEW p \in Node, Open(p) PROVE Alone'
  <2>1. /\ pc[p] = "open" /\ ~overlapped
        /\ \A q \in Node : q # p => pc[q] \notin InsidePcs
    BY <1>7 DEF Open, Alone
  <2>2. CASE pc' = [pc EXCEPT ![p] = "failed"] /\ UNCHANGED <<dir, fd>>
    BY Zenon, <1>7, <1>a, <2>1, <2>2 DEF Open
  <2>3. CASE /\ dir' = [dir EXCEPT !["tmp"] = Blank]
             /\ fd' = [fd EXCEPT ![p] = "tmp"] /\ pc' = [pc EXCEPT ![p] = "write"]
    <3>1. /\ dir'["dst"] = dir["dst"] /\ dir'["bak"] = dir["bak"] /\ dir'["tmp"] = Blank
      BY <1>0, <2>3 DEF Names
    <3> QED  BY <1>0, <2>1, <2>3, <3>1 DEF Alone
  <2> QED  BY <1>7, <2>2, <2>3 DEF Open
<1>8. ASSUME NEW p \in Node, Write(p) PROVE Alone'
  <2>1. /\ pc[p] = "write" /\ ~overlapped
        /\ \A q \in Node : q # p => pc[q] \notin InsidePcs
    BY <1>8 DEF Write, Alone
  <2>2. fd[p] = "tmp" /\ dir["tmp"] = Blank
    BY <2>1 DEF Alone
  <2>3. \/ dir' = [dir EXCEPT !["tmp"] = copy[p]] /\ pc' = [pc EXCEPT ![p] = "rename"]
        \/ dir' = [dir EXCEPT !["tmp"] = Torn] /\ pc' = [pc EXCEPT ![p] = "failed"]
    BY <1>8, <2>2 DEF Write
  <2>4. copy[p] \notin {Torn, Blank}
    BY <1>0, FileRegistryAssumption
  <2>5. dir'["dst"] = dir["dst"] /\ dir'["bak"] = dir["bak"]
    BY <1>0, <2>3 DEF Names
  <2>6. pc'[p] \in ReplacePcs => dir'["tmp"] = copy[p]
    BY <1>0, <2>3 DEF Names
  <2> QED  BY <1>0, <2>1, <2>3, <2>4, <2>5, <2>6 DEF Alone
<1>9. ASSUME NEW p \in Node, Replace(p) PROVE Alone'
  <2>1. /\ pc[p] \in ReplacePcs /\ ~overlapped
        /\ \A q \in Node : q # p => pc[q] \notin InsidePcs
    BY <1>9 DEF Replace, Alone
  <2>2. PICK o \in ReplaceStep(dir, pc[p]) : dir' = o.dir /\ pc' = [pc EXCEPT ![p] = o.pc]
    BY Zenon, <1>9 DEF Replace
  <2>3. dir \in [Names -> Whole]
    BY <1>0, <2>1 DEF Alone, Whole, Names
  <2>4. dir' \in [Names -> Whole] /\ o.pc \in ReplacePcs \cup Results
    BY <2>1, <2>2, <2>3, WholeFiles, ReplaceMoves
  <2>5. \A f \in Names : dir'[f] \notin {Torn, Blank}
    BY <2>4 DEF Whole
  <2> QED  BY SMTT(30), <1>0, <2>1, <2>2, <2>4, <2>5 DEF Alone, Names
<1>10. ASSUME NEW p \in Node, Unlock(p) PROVE Alone'
  BY Zenon, <1>10, <1>0, <1>b DEF Unlock
<1>11. ASSUME Tick PROVE Alone'
  <2>1. \A f \in Names : /\ dir[f] \notin {Torn, Blank} => dir'[f] \notin {Torn, Blank}
                         /\ dir[f] = Blank => dir'[f] = Blank
    BY <1>0, <1>11, WholeFiles DEF Tick, Whole, AgedFile
  <2> QED  BY Zenon, <1>11, <2>1 DEF Tick, Alone, Names
<1>12. ASSUME LockAges PROVE Alone'
  BY <1>12 DEF LockAges, local, Alone
<1>13. ASSUME UNCHANGED vars PROVE Alone'
  BY <1>13 DEF vars, local, Alone
<1> QED
  BY SMTT(30), <1>1, <1>2, <1>3, <1>4, <1>5, <1>6, <1>7, <1>8, <1>9, <1>10, <1>11, <1>12, <1>13
  DEF Next, Work

-----------------------------------------------------------------------------
(* Leases.                                                                 *)

\* The registry that a file stands for.
Meant(x) == IF x \in Special THEN NoNodes ELSE x

\* Where the document is, in its place or moved away.
LEMMA DocIs ==
    /\ Misplaced => Doc = Meant(dir["bak"])
    /\ ~Misplaced => Doc = Meant(dir["dst"])
  BY DEF Doc, Meant, Special

\* Every file stands for a registry.
LEMMA MeantDocument ==
    ASSUME NEW x \in Files
    PROVE  Meant(x) \in Document /\ (x \in Document => Meant(x) = x)
  BY EmptyRegistry, FileRegistryAssumption DEF Meant, Files, Special

\* What is left of a lease is a number.
LEMMA LeftNat == ASSUME NEW d \in Document, NEW n \in Node PROVE Left(d, n) \in Nat
  BY SMTT(30), AgedKeeps

\* The document as it is meant is a registry.
LEMMA DocDocument == ASSUME dir \in [Names -> Files] PROVE Doc \in Document
  BY Zenon, DocIs, MeantDocument DEF Names

\* A step of Replace: it leaves the document as it is meant, or puts one in its
\* place that covers it.
LEMMA ReplaceKeeps ==
    ASSUME Good, NEW p \in Node, Replace(p), Kept(p)
    PROVE  /\ Kept(p)'
           /\ \A n \in Node : Left(Doc, n) <= Left(Doc', n)
<1> USE DEF ReplacePcs, Names
<1>0. /\ dir \in [Names -> Files] /\ pc \in [Node -> Pcs] /\ NoFile \in Files
  BY DEF Good, TypeOK, Files, Special
<1>1. Doc \in Document
  BY <1>0, DocDocument
<1>2. PICK o \in ReplaceStep(dir, pc[p]) : dir' = o.dir /\ pc' = [pc EXCEPT ![p] = o.pc]
  BY Zenon DEF Replace, Goto
<1>3. pc[p] \in ReplacePcs /\ pc'[p] = o.pc
  BY <1>0, <1>2 DEF Replace
<1>4. Doc' = Meant(IF Misplaced' THEN dir'["bak"] ELSE dir'["dst"])
  BY DEF Doc, Meant, Special
<1>5. ASSUME Doc' = Doc PROVE \A n \in Node : Left(Doc, n) <= Left(Doc', n)
  BY <1>1, <1>5, LeftNat
\* The new document takes its place.
<1>6. ASSUME pc[p] \in {"rename", "retry", "install"}, dir' = Rename(dir, "tmp", "dst")
      PROVE  /\ \A n \in Node : Left(Doc, n) <= Left(Doc', n)
             /\ dir'["dst"] # NoFile
  <2>1. dir'["dst"] = dir["tmp"]
    BY <1>0, <1>6, Renaming
  <2>2. dir["tmp"] \in Document /\ Covers(dir["tmp"])
    BY <1>6 DEF Kept
  <2>3. dir["tmp"] # NoFile
    BY <2>2, FileRegistryAssumption
  <2>4. Doc' = dir["tmp"]
    BY <1>0, <1>4, <2>1, <2>2, <2>3, MeantDocument DEF Misplaced
  <2> QED  BY <2>1, <2>2, <2>3, <2>4 DEF Covers
\* Nothing moves.
<1>7. ASSUME dir' = dir PROVE Doc' = Doc
  BY Zenon, <1>7 DEF Doc, Misplaced
<1>8. CASE pc[p] = "rename"
  <2>1. CASE o.dir = Rename(dir, "tmp", "dst") /\ o.pc = "saved"
    BY Zenon, <1>2, <1>3, <1>6, <1>8, <2>1 DEF Kept
  <2>2. CASE o.dir = dir /\ o.pc = "backup"
    BY <1>2, <1>3, <1>5, <1>7, <1>8, <2>2 DEF Kept, Covers, Misplaced
  <2>3. CASE o.dir = Remove(dir, "bak") /\ o.pc = "backup"
    <3>1. dir'["bak"] = NoFile /\ dir'["dst"] = dir["dst"] /\ dir'["tmp"] = dir["tmp"]
      BY SMTT(30), <1>0, <1>2, <2>3, Removal
    <3>2. ~Misplaced /\ ~Misplaced'
      BY <1>8, <3>1 DEF Kept, Misplaced
    <3>3. Doc' = Doc
      BY Zenon, <1>4, <3>1, <3>2, DocIs
    <3>4. Kept(p)'
      BY Zenon, <1>3, <1>8, <2>3, <3>1, <3>2, <3>3 DEF Kept, Covers
    <3> QED  BY Zenon, <1>5, <3>3, <3>4
  <2> QED  BY <1>3, <1>8, <2>1, <2>2, <2>3, CallOutcomes
<1>9. CASE pc[p] = "backup"
  <2>1. CASE dir["dst"] = NoFile /\ o.dir = dir /\ o.pc = "retry"
    BY Zenon, <1>2, <1>3, <1>5, <1>7, <1>9, <2>1 DEF Kept, Covers, Misplaced
  <2>2. CASE dir["dst"] # NoFile /\ o.dir = Rename(dir, "dst", "bak") /\ o.pc = "install"
    <3>1. dir'["dst"] = NoFile /\ dir'["bak"] = dir["dst"] /\ dir'["tmp"] = dir["tmp"]
      BY <1>0, <1>2, <2>2, Renaming
    <3>2. ~Misplaced /\ Misplaced'
      BY Zenon, <2>2, <3>1 DEF Misplaced
    <3>3. Doc' = Doc
      BY Zenon, <1>4, <3>1, <3>2, DocIs
    <3>4. Kept(p)'
      BY Zenon, <1>3, <1>9, <2>2, <3>1, <3>3 DEF Kept, Covers
    <3> QED  BY <1>5, <3>3, <3>4
  <2>3. CASE o.dir = dir /\ o.pc = "failed"
    BY Zenon, <1>2, <1>3, <1>5, <1>7, <2>3 DEF Kept
  <2> QED  BY <1>3, <1>9, <2>1, <2>2, <2>3, CallOutcomes
<1>10. CASE pc[p] = "retry"
  <2>1. CASE o.dir = Rename(dir, "tmp", "dst") /\ o.pc = "saved"
    BY ZenonT(60), <1>2, <1>3, <1>6, <1>10, <2>1 DEF Kept
  <2>2. CASE o.dir = dir /\ o.pc = "failed"
    BY SMTT(30), <1>2, <1>3, <1>5, <1>7, <2>2 DEF Kept
  <2> QED  BY <1>3, <1>10, <2>1, <2>2, CallOutcomes
<1>11. CASE pc[p] = "install"
  <2>1. CASE o.dir = Rename(dir, "tmp", "dst") /\ o.pc = "cleanup"
    BY Zenon, <1>2, <1>3, <1>6, <1>11, <2>1 DEF Kept
  <2>2. CASE o.dir = dir /\ o.pc = "restore"
    BY Zenon, <1>2, <1>3, <1>5, <1>7, <1>11, <2>2 DEF Kept
  <2> QED  BY <1>3, <1>11, <2>1, <2>2, CallOutcomes
<1>12. CASE pc[p] = "restore"
  <2>1. CASE o.dir = Rename(dir, "bak", "dst") /\ o.pc = "failed"
    <3>1. dir'["dst"] = dir["bak"] /\ dir["bak"] # NoFile /\ Misplaced
      BY <1>0, <1>2, <1>12, <2>1, Renaming DEF Kept, Misplaced
    <3>2. Doc' = Doc
      BY ZenonT(60), <1>4, <3>1, DocIs DEF Misplaced
    <3> QED  BY Zenon, <1>3, <1>5, <2>1, <3>2 DEF Kept
  <2>2. CASE o.dir = dir /\ o.pc = "failed"
    BY <1>2, <1>3, <1>5, <1>7, <2>2 DEF Kept
  <2> QED  BY <1>3, <1>12, <2>1, <2>2, CallOutcomes
<1>13. CASE pc[p] = "cleanup"
  <2>1. CASE o.dir = Remove(dir, "bak") /\ o.pc = "saved"
    <3>1. dir'["dst"] = dir["dst"] /\ dir["dst"] # NoFile
      BY <1>0, <1>2, <1>13, <2>1, Removal DEF Kept
    <3>2. Doc' = Doc
      BY Zenon, <1>4, <3>1, DocIs DEF Misplaced
    <3> QED  BY Zenon, <1>3, <1>5, <2>1, <3>2 DEF Kept
  <2>2. CASE o.dir = dir /\ o.pc = "failed"
    BY <1>2, <1>3, <1>5, <1>7, <2>2 DEF Kept
  <2> QED  BY <1>3, <1>13, <2>1, <2>2, CallOutcomes
<1> QED  BY <1>3, <1>8, <1>9, <1>10, <1>11, <1>12, <1>13

\* What a step does to the document as it is meant, and to what is going to be
\* installed next.
LEMMA KeepingStep ==
    ASSUME Good, Alone, Keeping, [Next]_vars, ~overlapped', ~lost'
    PROVE  /\ \A p \in Node : Kept(p)'
           /\ Tick \/ \A n \in Node : Left(Doc, n) <= Left(Doc', n)
<1> USE Places DEF Inside, Goto
<1> DEFINE Grows == \A n \in Node : Left(Doc, n) <= Left(Doc', n)
           Goal == (\A p \in Node : Kept(p)') /\ Grows
<1>0. /\ pc \in [Node -> Pcs] /\ fd \in [Node -> Names \cup {"none", "gone"}]
      /\ dir \in [Names -> Files] /\ copy \in [Node -> Document] /\ NoFile \in Files
      /\ dir \in [Names -> GoodFiles] /\ \A p \in Node : OneLeader(copy[p])
  BY DEF Good, TypeOK, Files, Special
<1>1. Doc \in Document /\ \A n \in Node : Left(Doc, n) \in Nat
  BY <1>0, DocDocument, LeftNat
<1>2. ASSUME dir'["dst"] = dir["dst"],
             dir["dst"] = NoFile => dir'["bak"] = dir["bak"]
      PROVE  Doc' = Doc /\ Misplaced' = Misplaced
  BY <1>2 DEF Doc, Misplaced
<1>3. ASSUME Doc' = Doc PROVE Grows
  BY <1>1, <1>3
<1>4. ASSUME NEW q \in Node, pc'[q] \notin InsidePcs PROVE Kept(q)'
  BY Zenon, <1>4 DEF Kept, ReplacePcs
\* q is not concerned by a step of p.
<1>5. ASSUME NEW q \in Node, UNCHANGED <<dir, overlapped, lost>>, pc'[q] = pc[q],
             copy'[q] = copy[q]
      PROVE  Kept(q)'
  BY <1>5 DEF Kept, Covers, Doc, Misplaced, Keeping
\* When p is inside, the others are not.
<1>6. ASSUME NEW p \in Node, NEW l, pc[p] \in InsidePcs, pc' = [pc EXCEPT ![p] = l],
             ~overlapped
      PROVE  \A q \in Node \ {p} : Kept(q)'
  BY <1>0, <1>4, <1>6 DEF Alone
\* A step of p outside.
<1>7. ASSUME NEW p \in Node, NEW l, pc' = [pc EXCEPT ![p] = l],
             l \in {"down", "idle", "steal", "read"}, UNCHANGED <<dir, copy, lost>>,
             ~overlapped
      PROVE  Goal
  <2>1. Doc' = Doc
    BY <1>2, <1>7
  <2>2. Kept(p)'
    BY <1>0, <1>7 DEF Kept
  <2>3. ~overlapped /\ ~lost
    BY SMTT(30), <1>7
  <2>4. ASSUME NEW q \in Node \ {p} PROVE Kept(q)'
    <3>1. pc'[q] = pc[q]
      BY <1>0, <1>7
    <3>2. Kept(q)
      BY <2>3 DEF Keeping
    <3> QED  BY <1>7, <3>1, <3>2 DEF Kept, Covers, Doc, Misplaced
  <2> QED  BY <1>3, <2>1, <2>2, <2>4
\* A step by which p leaves.
<1>8. ASSUME NEW p \in Node, NEW l \in {"down", "idle"}, pc' = [pc EXCEPT ![p] = l],
             dir' = TidyUnlessUsed(p), copy' = [copy EXCEPT ![p] = NoNodes],
             UNCHANGED <<overlapped, lost>>
      PROVE  Goal
  <2>1. Doc' = Doc
    BY <1>0, <1>2, <1>8, Tidying DEF TidyUnlessUsed
  <2>2. ASSUME NEW q \in Node PROVE Kept(q)'
    <3>1. CASE pc'[q] \notin InsidePcs
      BY <1>4, <3>1
    <3>2. CASE pc'[q] \in InsidePcs
      <4>1. q # p /\ pc'[q] = pc[q] /\ copy'[q] = copy[q]
        BY <1>0, <1>8, <3>2
      <4>2. dir' = dir
        BY <1>8, <3>2, <4>1 DEF TidyUnlessUsed
      <4> QED  BY <1>5, <1>8, <4>1, <4>2
    <3> QED  BY <3>1, <3>2
  <2> QED  BY <1>3, <2>1, <2>2
<1>9. ASSUME NEW p \in Node, Start(p) PROVE Goal
  BY Zenon, <1>7, <1>9 DEF Start
<1>10. ASSUME NEW p \in Node, Ends(p) PROVE Goal
  BY Zenon, <1>8, <1>10 DEF Ends
<1>11. ASSUME NEW p \in Node, Acquire(p) PROVE Goal
  BY Zenon, <1>7, <1>11 DEF Acquire
<1>12. ASSUME NEW p \in Node, FindsOld(p) PROVE Goal
  BY Zenon, <1>7, <1>12 DEF FindsOld
<1>13. ASSUME NEW p \in Node, Steal(p) PROVE Goal
  BY Zenon, <1>7, <1>13 DEF Steal
<1>14. ASSUME NEW p \in Node, NEW o \in Ops, Read(p, o) PROVE Goal
  <2>1. ~overlapped /\ ~lost /\ ~Misplaced /\ UNCHANGED dir /\ pc[p] \in InsidePcs
    BY Zenon, <1>14 DEF Read
  <2>2. Doc' = Doc /\ Misplaced' = Misplaced
    BY <1>2, <2>1
  <2>3. dir["dst"] # Torn /\ dir["dst"] \in GoodFiles
    BY <1>0, <2>1 DEF Alone, Names
  <2> DEFINE d == Changed(p, o, Contents(dir["dst"]))
  <2>4. /\ copy' = [copy EXCEPT ![p] = d] /\ pc' = [pc EXCEPT ![p] = "open"]
    BY <1>14, <2>3 DEF Read
  <2>5. Doc = Contents(dir["dst"])
    BY <2>1, <2>3, DocIs DEF Meant, Special, Contents
  <2>6. \A n \in Node : Left(Doc, n) <= Left(d, n)
    BY <2>3, <2>5, ContentsGood, ChangedKeeps
  <2> HIDE DEF d
  <2>7. pc'[p] = "open" /\ copy'[p] = d
    BY <1>0, <2>4
  <2>8. Kept(p)'
    BY <2>1, <2>2, <2>6, <2>7 DEF Kept, Covers
  <2> QED  BY Zenon, <1>3, <1>6, <2>1, <2>2, <2>4, <2>8
<1>15. ASSUME NEW p \in Node, Open(p) PROVE Goal
  <2>1. /\ ~overlapped /\ ~lost /\ pc[p] = "open" /\ UNCHANGED copy
        /\ \/ dir' = [dir EXCEPT !["tmp"] = Blank] /\ pc' = [pc EXCEPT ![p] = "write"]
           \/ dir' = dir /\ pc' = [pc EXCEPT ![p] = "failed"]
    BY <1>15 DEF Open
  <2>2. dir'["dst"] = dir["dst"] /\ dir'["bak"] = dir["bak"]
    BY <1>0, <2>1 DEF Names
  <2>3. Doc' = Doc /\ Misplaced' = Misplaced
    BY <1>2, <2>2
  <2>4. pc'[p] \in {"write", "failed"}
    BY <1>0, <2>1
  <2>5. Kept(p)
    BY <2>1 DEF Keeping
  <2>6. Kept(p)'
    BY <2>1, <2>3, <2>4, <2>5 DEF Kept, Covers
  <2> QED  BY <1>3, <1>6, <2>1, <2>3, <2>6
<1>16. ASSUME NEW p \in Node, Write(p) PROVE Goal
  <2>1. ~overlapped /\ ~lost /\ pc[p] = "write"
    BY Zenon, <1>16 DEF Write
  <2>2. fd[p] = "tmp" /\ dir["tmp"] = Blank
    BY <2>1 DEF Alone
  <2>3. \/ dir' = [dir EXCEPT !["tmp"] = copy[p]] /\ pc' = [pc EXCEPT ![p] = "rename"]
        \/ dir' = [dir EXCEPT !["tmp"] = Torn] /\ pc' = [pc EXCEPT ![p] = "failed"]
    BY <1>16, <2>2 DEF Write
  <2>4. dir'["dst"] = dir["dst"] /\ dir'["bak"] = dir["bak"]
    BY <1>0, <2>3 DEF Names
  <2>5. Doc' = Doc /\ Misplaced' = Misplaced
    BY <1>2, <2>4
  <2>6. pc'[p] = "failed" \/ (pc'[p] = "rename" /\ dir'["tmp"] = copy[p])
    BY <1>0, <2>3 DEF Names
  <2>7. Kept(p) /\ copy[p] \in Document
    BY SMTT(30), <1>0, <2>1 DEF Keeping
  <2>8. Kept(p)'
    BY <2>1, <2>5, <2>6, <2>7 DEF Kept, Covers
  <2> QED  BY <1>3, <1>6, <2>1, <2>3, <2>5, <2>8
<1>17. ASSUME NEW p \in Node, Replace(p) PROVE Goal
  <2>1. ~overlapped /\ ~lost /\ pc[p] \in InsidePcs
    BY <1>17 DEF Replace
  <2>2. \E l : pc' = [pc EXCEPT ![p] = l]
    BY Zenon, <1>17 DEF Replace
  <2>3. Kept(p)' /\ Grows
    BY <1>17, <2>1, ReplaceKeeps DEF Keeping
  <2> QED  BY Zenon, <1>6, <2>1, <2>2, <2>3
<1>18. ASSUME NEW p \in Node, Unlock(p) PROVE Goal
  BY Zenon, <1>8, <1>18 DEF Unlock
<1>19. ASSUME Tick PROVE \A p \in Node : Kept(p)'
  <2>1. ~overlapped /\ ~lost
    BY <1>19 DEF Tick
  <2>2. /\ dir["dst"] \in Whole /\ dir["bak"] \in Whole
    BY <1>0, <2>1 DEF Alone, Whole, Names
  <2>3. \A x \in Whole : (AgedFile(x) = NoFile <=> x = NoFile)
    BY AgedKeeps, WholeFiles, FileRegistryAssumption DEF AgedFile
  <2>4. \A f \in Names : dir'[f] = AgedFile(dir[f])
    BY <1>19 DEF Tick
  <2>5. /\ dir'["dst"] = NoFile <=> dir["dst"] = NoFile
        /\ dir'["bak"] = NoFile <=> dir["bak"] = NoFile
    BY <2>2, <2>3, <2>4 DEF Names
  <2>6. \A x \in Whole : Meant(AgedFile(x)) = Aged(Meant(x))
    <3>1. Aged(NoNodes) = NoNodes
      BY DEF Aged, NoNodes
    <3>2. \A x \in Document : x \notin Special /\ Aged(x) \notin Special
      BY Zenon, AgedKeeps, FileRegistryAssumption DEF Special
    <3> QED  BY <3>1, <3>2, WholeFiles DEF Meant, AgedFile, Special
  <2>7. Misplaced' = Misplaced
    BY SMTT(30), <2>5 DEF Misplaced
  <2>8. Doc' = Aged(Doc)
    BY <2>2, <2>4, <2>6, <2>7 DEF Doc, Meant, Special, Names
  <2>9. ASSUME NEW d \in Document, Covers(d)
        PROVE  \A n \in Node : Left(Doc', n) <= Left(Aged(d), n)
    <3> TAKE n \in Node
    <3>1. Left(Doc, n) <= Left(d, n) /\ Left(Doc, n) \in Nat /\ Left(d, n) \in Nat
      BY <1>1, <2>9, LeftNat DEF Covers
    <3>2. /\ Left(Aged(Doc), n) = IF Left(Doc, n) = 0 THEN 0 ELSE Left(Doc, n) - 1
          /\ Left(Aged(d), n) = IF Left(d, n) = 0 THEN 0 ELSE Left(d, n) - 1
      BY Zenon, <1>1, AgedKeeps
    <3> QED  BY <2>8, <3>1, <3>2
  <2>10. ASSUME NEW p \in Node PROVE Kept(p)'
    <3>1. Kept(p) /\ pc'[p] = pc[p] /\ copy'[p] = Aged(copy[p])
      BY Zenon, <1>19, <2>1 DEF Tick, Keeping
    <3>2. pc[p] \in {"open", "write"} => Covers(copy[p])'
      BY Zenon, <1>0, <2>9, <3>1 DEF Kept, Covers
    <3>3. ASSUME dir["tmp"] \in Document, Covers(dir["tmp"])
          PROVE  dir'["tmp"] \in Document /\ Covers(dir["tmp"])'
      <4>1. dir'["tmp"] = Aged(dir["tmp"])
        BY Zenon, <2>4, <3>3, FileRegistryAssumption DEF AgedFile, Names
      <4> QED  BY Zenon, <2>9, <3>3, <4>1, AgedKeeps DEF Covers
    <3> QED  BY Zenon, <2>5, <2>7, <3>1, <3>2, <3>3 DEF Kept
  <2> QED  BY <2>10
<1>20. ASSUME LockAges \/ UNCHANGED vars PROVE Goal
  <2>1. UNCHANGED <<dir, overlapped, lost>> /\ \A q \in Node : pc'[q] = pc[q] /\ copy'[q] = copy[q]
    BY <1>20 DEF LockAges, vars, local
  <2> QED  BY Zenon, <1>2, <1>3, <1>5, <2>1
<1> QED
  BY Zenon, <1>9, <1>10, <1>11, <1>12, <1>13, <1>14, <1>15, <1>16, <1>17, <1>18, <1>19, <1>20
  DEF Next, Work

-----------------------------------------------------------------------------
(* The theorems.                                                           *)

\* The inductive invariant, in the parts that are proved one by one.
LEMMA IInvIs == IInv <=> Good /\ Exclusion /\ Alone /\ Keeping
  BY GoodIs DEF IInv

\* It holds at first,
LEMMA IInvInit == Init => IInv
<1> SUFFICES ASSUME Init PROVE IInv
  OBVIOUS
<1>1. Good
  BY GoodInit
<1>2. \A p \in Node : pc[p] = "down"
  BY Zenon DEF Init
<1>3. Exclusion
  BY <1>2, Places DEF Init, Exclusion, Inside
<1>4. dir["dst"] = NoFile /\ dir["bak"] = NoFile
  BY DEF Init, EmptyDir, Names
<1>5. Alone
  BY <1>2, <1>4, Places, FileRegistryAssumption DEF Alone, Inside
<1>6. Keeping
  BY Zenon, <1>2 DEF Keeping, Kept
<1> QED  BY <1>1, <1>3, <1>5, <1>6, IInvIs

\* and every step keeps it.
LEMMA IInvStep == IInv /\ [Next]_vars => IInv'
<1> SUFFICES ASSUME IInv, [Next]_vars PROVE IInv'
  OBVIOUS
<1>1. Good /\ Exclusion /\ Alone /\ Keeping
  BY IInvIs
<1>2. Good' /\ Exclusion' /\ Alone'
  BY <1>1, GoodStep, ExclusionStep, AloneStep
<1>3. Keeping'
  BY <1>1, KeepingStep DEF Keeping
<1>4. TypeOK' /\ OneLeaderPerDocument'
  BY <1>2, GoodIs, PTL
<1> QED  BY <1>2, <1>3, <1>4 DEF IInv

\* The inductive invariant holds throughout: the lock file, the files of Replace and
\* what each process is about to write, as file_registry.go leaves them.
THEOREM RegistryInvariance == Spec => []IInv
  BY IInvInit, IInvStep, PTL DEF Spec

\* The processes, the lock file and the directory of file_registry.go stay in the
\* states of the model: what is decoded (file_registry.go:95) is a registry, and
\* whatever a crash leaves in a file is torn, blank or a whole registry.
THEOREM RegistryTypes == Spec => []TypeOK
<1>1. IInv => TypeOK
  BY DEF IInv
<1> QED  BY <1>1, RegistryInvariance, PTL

\* However renewals, queries, thefts and crashes interleave, every registry on disk
\* or in a process has exactly the role of leader that election.go:40 gives it.
THEOREM OneLeaderAlways == Spec => []OneLeaderPerDocument
<1>1. IInv => OneLeaderPerDocument
  BY DEF IInv
<1> QED  BY <1>1, RegistryInvariance, PTL

\* The lock file of file_registry.go:175 excludes any number of processes from each
\* other until one of them is older than 30 seconds.
THEOREM MutualExclusion == Spec => []ExclusiveWhileFresh
<1>1. IInv => ExclusiveWhileFresh
  BY DEF IInv, Exclusion, ExclusiveWhileFresh
<1> QED  BY <1>1, RegistryInvariance, PTL

\* Whatever calls of write and Replace fail, and wherever processes die, only two
\* processes writing at once make the registry unreadable (file_registry.go:159).
THEOREM NeverTornAlone == Spec => []TornOnlyByOverlap
<1>1. IInv => TornOnlyByOverlap
  BY DEF IInv, Alone, TornOnlyByOverlap
<1> QED  BY <1>1, RegistryInvariance, PTL

\* No operation of file_registry.go takes time from anybody's lease.
THEOREM LeasesAreKept == Spec => LeasesOnlyAge
<1>1. IInv /\ [Next]_vars =>
          [\/ Tick \/ overlapped' \/ lost'
           \/ \A n \in Node : Left(Doc, n) <= Left(Doc', n)]_vars
  BY IInvIs, KeepingStep
<1> QED  BY <1>1, RegistryInvariance, PTL DEF Spec, LeasesOnlyAge

=============================================================================
