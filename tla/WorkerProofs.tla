---------------------------- MODULE WorkerProofs -----------------------------
(***************************************************************************)
(* The inductive invariant of WorkerClient, what its actions do in the     *)
(* terms the proofs need, and that they keep the types, the files and the  *)
(* leases in order; then what is claimed of reservations and verdicts.     *)
(*                                                                         *)
(* The verdict of a lease is decided from a request that has been under    *)
(* way for any time, so that the invariant has to follow a result from the *)
(* handler to the record: the client knows it (Truthful), its request says *)
(* it about the lease that the client works under (Conduct), so does a     *)
(* completion that the client has given up on (Belated), and no other      *)
(* worker speaks of that lease (Separate).  That an accepted completion is *)
(* about a lease nobody has judged is Leased.                              *)
(***************************************************************************)
EXTENDS WorkerProperties, OperatorLemmas

\* A half-written document is a temporary file only, and none that is renamed.
Disk ==
    /\ dir["dst"] # Torn /\ dir["bak"] # Torn
    /\ save \in ReplacePcs => dir["tmp"] # Torn

\* As long as no call has failed, a save finds its files where it needs them.
Smooth ==
    faults = 0 =>
        /\ save \notin {"failed", "restore"}
        /\ save \in {"rename", "backup", "retry", "install"} => dir["tmp"] # NoFile
        /\ save = "backup" => dir["bak"] = NoFile
        /\ save \in {"retry", "install"} => dir["dst"] = NoFile
        /\ save \in {"install", "cleanup"} => dir["bak"] # NoFile

\* A running record is under a lease that is open and was given out for it.
Leased ==
    \A id \in Ids : mem[id].status = "running" =>
        /\ mem[id].token \in 1..issued
        /\ grant[mem[id].token].end = "open" /\ grant[mem[id].token].id = id

\* As long as no call has failed, a reserved task is running, or its completion is
\* being saved.
Reserving ==
    /\ srv = "down" => reserved = {}
    /\ faults = 0 => \A id \in reserved :
           \/ mem[id].status = "running"
           \/ save # "idle" /\ serving.kind = "complete" /\ serving.id = id

\* Whoever is being served still waits for the answer.
Calling ==
    /\ serving.kind \in {"submit", "claim", "complete"} => serving.id \in Ids
    /\ serving.kind = "claim" => serving.token \in 1..issued
    /\ serving.from \in Workers => /\ srv = "up"
                                   /\ req[serving.from].kind = serving.kind
                                   /\ req[serving.from].answer = "sent"

Working == {"handler", "renew", "drain", "complete"}
Silent == {"off", "wait", "handler", "drain"}

\* The request of a client is the one that its place in the code waits for, and
\* speaks of the lease it works under.
Shape(c, r, top) ==
    /\ c.pc \in Silent => r = NoReq
    /\ c.pc \notin Silent => r.kind = c.pc
    /\ c.pc \notin Working => c.run = "none"
    /\ c.pc \in Working => c.id \in Ids /\ c.token \in 1..top /\ c.run # "none"
    /\ c.pc = "complete" => c.run # "busy" /\ (r.ok <=> c.run # "err")
    /\ c.pc \in {"renew", "complete"} => r.id = c.id /\ r.token = c.token
    /\ c.pc = "claim" /\ r.answer = "ok" => r.id \in Ids /\ r.token \in 1..top

Conduct == \A w \in Workers : Shape(client[w], req[w], issued)

\* A completion that is under way without its sender is about a lease that this
\* worker does not use any more.
Belated(w) ==
    late[w] # NoReq => /\ late[w].kind = "complete" /\ late[w].id \in Ids
                       /\ late[w].token \in 1..issued
                       /\ late[w].token \notin {client[w].token, req[w].token}
                       /\ serving.from = w => late[w].token # serving.token

\* Worker w has to do with token k.
Uses(w, k) == \/ k \in {client[w].token, req[w].token, late[w].token}
              \/ serving.from = w /\ serving.token = k

\* A token that was issued is used by one worker.
Separate ==
    \A w \in Workers : \A k \in 1..MaxGrants : Uses(w, k) =>
        k <= issued /\ \A v \in Workers : Uses(v, k) => v = w

\* What a client knows, and a late completion says, of a lease that is open is
\* what the handler has returned.
Truthful(w) ==
    /\ client[w].run \in Outcomes /\ grant[client[w].token].end = "open" =>
           grant[client[w].token].ran = client[w].run
    /\ late[w] # NoReq /\ grant[late[w].token].end = "open" =>
           /\ grant[late[w].token].ran \in Outcomes
           /\ late[w].ok <=> grant[late[w].token].ran # "err"

IInv ==
    /\ TypeOK /\ Disk /\ Smooth /\ Leased /\ Reserving /\ Calling /\ Conduct
    /\ \A w \in Workers : Belated(w) /\ Truthful(w)
    /\ Separate /\ VerdictIsTheHandlers

-----------------------------------------------------------------------------
(* Values.                                                                 *)

\* The values that the model starts from and builds have their types.
LEMMA ValueTypes ==
    /\ NoReq \in Requests /\ NoServing \in Servings
    /\ Off \in ClientStates /\ NoGrant \in Grants
    /\ \A pc \in ClientPcs : [Off EXCEPT !.pc = pc] \in ClientStates
    /\ \A c \in ClientStates, pc \in ClientPcs : [c EXCEPT !.pc = pc] \in ClientStates
    /\ \A c \in ClientStates, x \in Outcomes : [c EXCEPT !.run = x] \in ClientStates
    /\ \A kind \in Kinds, id \in Ids \cup {NoId}, k \in 0..MaxGrants, ok \in BOOLEAN :
           Request(kind, id, k, ok) \in Requests
    /\ \A id \in Ids \cup {NoId} : Expired(id) \in Grants
<1>0. 0 \in 0..MaxGrants
  BY TaskAssumption
<1>1. NoReq \in Requests /\ NoServing \in Servings
  BY <1>0 DEF NoReq, Requests, NoServing, Servings, Kinds
<1>2. Off \in ClientStates /\ NoGrant \in Grants
  BY <1>0 DEF Off, ClientStates, ClientPcs, NoGrant, Grants
<1>3. \A pc \in ClientPcs : [Off EXCEPT !.pc = pc] \in ClientStates
  BY <1>0 DEF Off, ClientStates
<1>4. /\ \A c \in ClientStates, pc \in ClientPcs : [c EXCEPT !.pc = pc] \in ClientStates
      /\ \A c \in ClientStates, x \in Outcomes : [c EXCEPT !.run = x] \in ClientStates
  BY Zenon DEF ClientStates
<1>5. \A kind \in Kinds, id \in Ids \cup {NoId}, k \in 0..MaxGrants, ok \in BOOLEAN :
           Request(kind, id, k, ok) \in Requests
  BY DEF Request, Requests
<1>6. \A id \in Ids \cup {NoId} : Expired(id) \in Grants
  BY Zenon DEF Expired, NoGrant, Grants
<1> QED  BY <1>1, <1>2, <1>3, <1>4, <1>5, <1>6

\* Marshal maps stores to stores, and Load what it finds.
LEMMA DocumentTypes ==
    /\ \A st \in [Ids -> Task] : Marshal(st) \in [Ids -> Task]
    /\ \A d \in [Names -> {NoFile, Torn} \cup [Ids -> Task]] :
           Loadable(d) => Load(d) \in [Ids -> Task]
    /\ Empty \in [Ids -> Task]
    /\ \A st \in [Ids -> Task] : st \notin {NoFile, Torn}
<1>1. \A st \in [Ids -> Task] : Marshal(st) \in [Ids -> Task]
  BY Zenon, RecordTypes DEF Marshal
<1>2. Empty \in [Ids -> Task]
  <2>1. NoTask \in Task
    <3>1. NoWorker \in Labels /\ 0 \in 0..MaxGrants
      BY TaskAssumption DEF Labels
    <3> QED BY <3>1 DEF NoTask, Task
  <2> QED  BY <2>1 DEF Empty
<1>3. \A d \in [Names -> {NoFile, Torn} \cup [Ids -> Task]] :
           Loadable(d) => Load(d) \in [Ids -> Task]
  BY <1>2 DEF Loadable, Load, Names
<1> QED  BY <1>1, <1>2, <1>3, FileStoreAssumption

-----------------------------------------------------------------------------
(* Steps of a client.                                                      *)

\* The steps of Client.Run that deal with an answer and send the next request.
Converse(w) ==
    \/ Start(w) \/ Loop(w) \/ Claimed(w) \/ Refused(w) \/ Finishes(w)
    \/ RenewTick(w) \/ Renewed(w) \/ RenewRefused(w) \/ Drained(w)

\* A client sends a request when it has the answer to the last one; it takes up the
\* token of an answer to its claim, and keeps or drops the one it has.
LEMMA Conversing ==
    ASSUME TypeOK, Conduct, NEW w \in Workers, Converse(w)
    PROVE  \E c \in ClientStates, r \in Requests :
               /\ Goes(w, c, r) /\ Shape(c, r, issued)
               /\ c.token \in {0, client[w].token, req[w].token}
               /\ r.token \in {0, client[w].token, req[w].token}
               /\ c.run \in Outcomes => c.token = client[w].token /\ c.run = client[w].run
               /\ req[w].answer # "sent"
<1> DEFINE P(c, r) ==
               /\ Goes(w, c, r) /\ Shape(c, r, issued)
               /\ c.token \in {0, client[w].token, req[w].token}
               /\ r.token \in {0, client[w].token, req[w].token}
               /\ c.run \in Outcomes => c.token = client[w].token /\ c.run = client[w].run
               /\ req[w].answer # "sent"
<1>0. /\ client[w] \in ClientStates /\ req[w] \in Requests
      /\ Shape(client[w], req[w], issued) /\ 0 \in 0..MaxGrants
  BY TaskAssumption DEF TypeOK, Conduct
<1>1. ASSUME NEW kind \in {"register", "heartbeat", "claim"}, Asks(w, kind),
             req[w].answer # "sent"
      PROVE  \E c \in ClientStates, r \in Requests : P(c, r)
  <2> DEFINE c == [Off EXCEPT !.pc = kind]
             r == Request(kind, NoId, 0, FALSE)
  <2>1. c \in ClientStates /\ r \in Requests
    BY Zenon, <1>0, ValueTypes DEF ClientPcs, Kinds
  <2>2. Goes(w, c, r)
    BY Zenon, <1>1 DEF Asks
  <2>3. /\ c.pc = kind /\ c.token = 0 /\ c.run = "none" /\ r.kind = kind /\ r.token = 0
        /\ r.answer = "sent"
    BY DEF Off, Request
  <2>4. Shape(c, r, issued)
    BY Zenon, <2>3 DEF Shape, Silent, Working
  <2> HIDE DEF c, r
  <2>5. P(c, r)
    BY <1>1, <2>2, <2>3, <2>4 DEF Outcomes
  <2> QED  BY <2>1, <2>5
<1>2. ASSUME NEW pc \in {"off", "wait"}, Goes(w, [Off EXCEPT !.pc = pc], NoReq),
             req[w].answer # "sent"
      PROVE  \E c \in ClientStates, r \in Requests : P(c, r)
  <2> DEFINE c == [Off EXCEPT !.pc = pc]
  <2>1. c \in ClientStates /\ NoReq \in Requests
    BY Zenon, ValueTypes DEF ClientPcs
  <2>2. c.pc = pc /\ c.token = 0 /\ c.run = "none" /\ NoReq.token = 0
    BY DEF Off, NoReq
  <2>3. Shape(c, NoReq, issued)
    BY <2>2 DEF Shape, Silent, Working
  <2> HIDE DEF c
  <2>4. P(c, NoReq)
    BY <1>2, <2>2, <2>3 DEF Outcomes, c
  <2> QED  BY <2>1, <2>4
<1>3. client[w].pc \in Silent => req[w].answer # "sent"
  BY <1>0 DEF Shape, NoReq
<1>4. CASE Start(w)
  BY <1>1, <1>3, <1>4 DEF Start, Silent
<1>5. CASE Loop(w)
  <2>1. CASE Answered(w, "claim", "empty") /\ Goes(w, [Off EXCEPT !.pc = "wait"], NoReq)
    BY <1>2, <2>1 DEF Answered
  <2>2. CASE client[w].pc = "wait" /\ Asks(w, "heartbeat")
    BY <1>1, <1>3, <2>2 DEF Silent
  <2> QED  BY <1>1, <1>5, <2>1, <2>2 DEF Loop, Answered
<1>6. CASE Claimed(w)
  <2> DEFINE c == [pc |-> "handler", id |-> req[w].id, token |-> req[w].token,
                   run |-> "busy"]
  <2>1. req[w].id \in Ids /\ req[w].token \in 1..issued /\ req[w].answer = "ok"
    BY <1>0, <1>6 DEF Claimed, Answered, Shape
  <2>2. c \in ClientStates /\ NoReq \in Requests /\ NoReq.token = 0
    BY Zenon, <1>0, <2>1, ValueTypes DEF ClientStates, ClientPcs, Requests, NoReq
  <2>3. Shape(c, NoReq, issued)
    BY <2>1 DEF Shape, Silent, Working
  <2>4. P(c, NoReq)
    BY <1>6, <2>1, <2>2, <2>3 DEF Claimed, Outcomes
  <2> QED  BY <2>2, <2>4
<1>7. CASE Refused(w) \/ Drained(w)
  <2>1. Off = [Off EXCEPT !.pc = "off"]
    BY DEF Off
  <2> QED  BY <1>2, <1>3, <1>7, <2>1 DEF Refused, Drained, Silent
<1>8. ASSUME NEW pc \in {"handler", "drain"}, client[w].pc = "renew",
             Goes(w, [client[w] EXCEPT !.pc = pc], NoReq), req[w].answer # "sent"
      PROVE  \E c \in ClientStates, r \in Requests : P(c, r)
  <2> DEFINE c == [client[w] EXCEPT !.pc = pc]
  <2>1. c \in ClientStates /\ NoReq \in Requests /\ NoReq.token = 0
    BY Zenon, <1>0, ValueTypes DEF ClientPcs, NoReq
  <2>2. c.pc = pc /\ c.id = client[w].id /\ c.token = client[w].token /\ c.run = client[w].run
    BY <1>0 DEF ClientStates
  <2>3. Shape(c, NoReq, issued)
    BY <1>0, <1>8, <2>2 DEF Shape, Silent, Working
  <2> HIDE DEF c
  <2>4. P(c, NoReq)
    BY <1>8, <2>1, <2>2, <2>3 DEF c
  <2> QED  BY <2>1, <2>4
<1>9. CASE Renewed(w) \/ RenewRefused(w)
  BY <1>8, <1>9 DEF Renewed, RenewRefused, Answered
<1>10. ASSUME NEW kind \in {"renew", "complete"}, NEW ok \in BOOLEAN,
              client[w].pc = "handler",
              kind = "complete" => client[w].run # "busy" /\ (ok <=> client[w].run # "err"),
              Goes(w, [client[w] EXCEPT !.pc = kind],
                   Request(kind, client[w].id, client[w].token, ok))
       PROVE  \E c \in ClientStates, r \in Requests : P(c, r)
  <2> DEFINE c == [client[w] EXCEPT !.pc = kind]
             r == Request(kind, client[w].id, client[w].token, ok)
  <2>1. c.pc = kind /\ c.id = client[w].id /\ c.token = client[w].token /\ c.run = client[w].run
    BY <1>0 DEF ClientStates
  <2>2. /\ r.kind = kind /\ r.id = client[w].id /\ r.token = client[w].token
        /\ r.ok = ok /\ r.answer = "sent"
    BY DEF Request
  <2>3. c \in ClientStates
    BY Zenon, <1>0, ValueTypes DEF ClientPcs
  <2>4. r \in Requests
    BY Zenon, <1>0, ValueTypes DEF Kinds, ClientStates
  <2> HIDE DEF c, r
  <2>5. Shape(c, r, issued)
    BY <1>0, <1>10, <2>1, <2>2 DEF Shape, Silent, Working
  <2>6. P(c, r)
    BY <1>3, <1>10, <2>1, <2>2, <2>5 DEF Silent, c, r
  <2> QED  BY <2>3, <2>4, <2>6
<1>11. CASE Finishes(w)
  BY Zenon, <1>10, <1>11 DEF Finishes
<1>12. CASE RenewTick(w)
  BY Zenon, <1>10, <1>12 DEF RenewTick
<1> QED  BY <1>4, <1>5, <1>6, <1>7, <1>9, <1>11, <1>12 DEF Converse

\* A client that gives up on its request keeps the token of a handler that still
\* runs; a completion may stay under way.
LEMMA Leaving ==
    ASSUME TypeOK, Conduct, NEW w \in Workers, RenewBroken(w) \/ WorkerDies(w)
    PROVE  /\ \E c \in ClientStates :
                  /\ client' = [client EXCEPT ![w] = c] /\ req' = [req EXCEPT ![w] = NoReq]
                  /\ Shape(c, NoReq, issued)
                  /\ c = Off \/ (client[w].pc # "complete" /\ c.token = client[w].token)
                  /\ c.run \in Outcomes => c.token = client[w].token /\ c.run = client[w].run
           /\ \/ late' = late
              \/ /\ late' = [late EXCEPT ![w] = req[w]] /\ late[w] = NoReq
                 /\ client[w].pc = "complete" /\ req[w].kind = "complete"
                 /\ serving.from # w
           /\ serving' \in Servings
           /\ serving'.kind = serving.kind /\ serving'.id = serving.id
           /\ serving'.token = serving.token
           /\ serving'.from = IF serving.from = w THEN NoWorker ELSE serving.from
<1> DEFINE Left == \E c \in ClientStates :
                  /\ client' = [client EXCEPT ![w] = c] /\ req' = [req EXCEPT ![w] = NoReq]
                  /\ Shape(c, NoReq, issued)
                  /\ c = Off \/ (client[w].pc # "complete" /\ c.token = client[w].token)
                  /\ c.run \in Outcomes => c.token = client[w].token /\ c.run = client[w].run
<1>0. /\ client[w] \in ClientStates /\ req[w] \in Requests
      /\ Shape(client[w], req[w], issued) /\ serving \in Servings
  BY DEF TypeOK, Conduct
<1>1. ASSUME RenewBroken(w) PROVE Left
  <2> DEFINE c == [client[w] EXCEPT !.pc = "drain"]
  <2>1. c \in ClientStates
    BY Zenon, <1>0, ValueTypes DEF ClientPcs
  <2>2. /\ c.pc = "drain" /\ c.id = client[w].id /\ c.token = client[w].token
        /\ c.run = client[w].run
    BY <1>0 DEF ClientStates
  <2>3. Shape(c, NoReq, issued) /\ client[w].pc # "complete"
    BY <1>0, <1>1, <2>2 DEF Shape, Silent, Working, RenewBroken
  <2>4. client' = [client EXCEPT ![w] = c] /\ req' = [req EXCEPT ![w] = NoReq]
    BY <1>1 DEF RenewBroken, Abandon
  <2> HIDE DEF c
  <2> QED  BY Zenon, <2>1, <2>2, <2>3, <2>4
<1>2. ASSUME WorkerDies(w) PROVE Left
  <2>1. Off.pc = "off" /\ Off.run = "none" /\ Off \in ClientStates
    BY ValueTypes DEF Off
  <2>2. Shape(Off, NoReq, issued) /\ Off.run \notin Outcomes
    BY <2>1 DEF Shape, Silent, Working, Outcomes
  <2>3. client' = [client EXCEPT ![w] = Off] /\ req' = [req EXCEPT ![w] = NoReq]
    BY <1>2 DEF WorkerDies, Abandon
  <2> QED  BY Zenon, <2>1, <2>2, <2>3
<1>3. Abandon(w)
  BY DEF RenewBroken, WorkerDies
<1>4. \/ late' = late
      \/ /\ late' = [late EXCEPT ![w] = req[w]] /\ late[w] = NoReq
         /\ req[w].kind = "complete" /\ serving.from # w
  BY <1>3 DEF Abandon
<1>5. req[w].kind = "complete" => client[w].pc = "complete"
  BY <1>0 DEF Shape, NoReq
<1>6. /\ serving' \in Servings
      /\ serving'.kind = serving.kind /\ serving'.id = serving.id
      /\ serving'.token = serving.token
      /\ serving'.from = IF serving.from = w THEN NoWorker ELSE serving.from
  BY <1>0, <1>3 DEF Abandon, Servings
<1> QED  BY <1>1, <1>2, <1>4, <1>5, <1>6

-----------------------------------------------------------------------------
(* Types.                                                                  *)

\* A write leaves the store well typed.
LEMMA Putting ==
    ASSUME StoreTypeOK, NEW st \in [Ids -> Task], Put(st)
    PROVE  StoreTypeOK'
  BY DEF StoreTypeOK, Put, SavePcs

\* What the handlers write.
LEMMA WrittenTypes ==
    ASSUME TypeOK, NEW id \in Ids
    PROVE  /\ \A w \in Workers : RenewWorkerTaskLeases(mem, w) \in [Ids -> Task]
           /\ \A w \in Workers, k \in Tokens :
                  [mem EXCEPT ![id] = Granted(@, w, k)] \in [Ids -> Task]
           /\ [mem EXCEPT ![id].lease = "live"] \in [Ids -> Task]
           /\ [mem EXCEPT ![id].lease = "lapsed"] \in [Ids -> Task]
           /\ [mem EXCEPT ![id].due = TRUE] \in [Ids -> Task]
           /\ \A ok \in BOOLEAN : [mem EXCEPT ![id] = Finished(id, @, ok)] \in [Ids -> Task]
           /\ [mem EXCEPT ![id] = Requeued(@)] \in [Ids -> Task]
           /\ Create(mem, id, NewTask) \in [Ids -> Task]
<1>0. mem \in [Ids -> Task]
  BY DEF TypeOK, StoreTypeOK
<1>1. \A w \in Workers : RenewWorkerTaskLeases(mem, w) \in [Ids -> Task]
  BY Zenon, <1>0, RecordTypes DEF RenewWorkerTaskLeases
<1>2. \A w \in Workers, k \in Tokens :
          [mem EXCEPT ![id] = Granted(@, w, k)] \in [Ids -> Task]
  BY <1>0, GrantedType DEF Tokens, Labels
<1>3. /\ [mem EXCEPT ![id].lease = "live"] \in [Ids -> Task]
      /\ [mem EXCEPT ![id].lease = "lapsed"] \in [Ids -> Task]
      /\ [mem EXCEPT ![id].due = TRUE] \in [Ids -> Task]
  BY Zenon, <1>0, RecordTypes
<1>4. \A ok \in BOOLEAN : [mem EXCEPT ![id] = Finished(id, @, ok)] \in [Ids -> Task]
  BY <1>0, FinishedType
<1>5. [mem EXCEPT ![id] = Requeued(@)] \in [Ids -> Task]
  BY Zenon, <1>0, RecordTypes
<1>6. Create(mem, id, NewTask) \in [Ids -> Task]
  <2>1. NewTask \in Task
    BY StoreTypes, <1>0 DEF NewTask, Task, Statuses
  <2> QED  BY <1>0, <2>1, StoreTypes
<1> QED  BY <1>1, <1>2, <1>3, <1>4, <1>5, <1>6

-----------------------------------------------------------------------------
(* Steps of the server.                                                    *)

\* A handler answers at once, or goes on to a store call for the sender; only a
\* claim that found a task issues a token.
LEMMA Handling ==
    ASSUME TypeOK, Conduct, NEW w \in Workers, Handle(w)
    PROVE  /\ srv = "up" /\ serving.from # w /\ req[w].answer = "sent"
           /\ UNCHANGED <<client, late, srv, created, crashes, lost>>
           /\ \/ /\ UNCHANGED <<serving, issued>>
                 /\ \E a \in {"ok", "empty", "refused"} :
                        /\ req' = [req EXCEPT ![w].answer = a]
                        /\ req[w].kind = "claim" => a # "ok"
              \/ /\ req' = req /\ serving' \in Servings /\ save = "idle"
                 /\ serving'.from = w /\ serving'.kind = req[w].kind
                 /\ serving'.kind \in {"heartbeat", "renew", "complete", "claim"}
                 /\ serving'.kind = "complete" => serving'.id = req[w].id
                 /\ serving'.kind # "claim" =>
                        serving'.token \in {0, req[w].token} /\ issued' = issued
                 /\ serving'.kind = "claim" =>
                        /\ issued < MaxGrants /\ issued' = issued + 1
                        /\ serving'.token = issued + 1 /\ serving'.id \in Ids
<1>0. /\ req[w] \in Requests /\ issued \in Nat /\ 0 \in 0..MaxGrants
      /\ MaxGrants \in Nat
  BY TaskAssumption DEF TypeOK
<1>1. UNCHANGED <<client, srv, created, crashes, lost>>
  BY DEF Handle
<1>2. CASE RegisterWorker(w)
  BY <1>1, <1>2 DEF RegisterWorker, Arrived, Answer
<1>3. CASE Heartbeat(w)
  <2>1. /\ srv = "up" /\ serving.from # w /\ req[w].answer = "sent"
        /\ req[w].kind = "heartbeat" /\ save = "idle" /\ issued' = issued
    BY <1>3 DEF Heartbeat, Arrived
  <2>2. CASE Answer(w, "refused") \/ Answer(w, "ok")
    BY <1>1, <2>1, <2>2 DEF Answer
  <2>3. CASE Serve(w, "heartbeat", NoId, 0)
    <3>1. /\ serving' = [kind |-> "heartbeat", from |-> w, id |-> NoId, token |-> 0]
          /\ req' = req /\ late' = late
      BY <2>3 DEF Serve
    <3>2. serving' \in Servings
      BY <1>0, <3>1 DEF Servings, Kinds
    <3> QED  BY <1>1, <2>1, <3>1, <3>2
  <2> QED  BY <1>3, <2>2, <2>3 DEF Heartbeat
<1>4. CASE Claim(w)
  <2>1. /\ srv = "up" /\ serving.from # w /\ req[w].answer = "sent"
        /\ req[w].kind = "claim" /\ save = "idle"
    BY Zenon, <1>4 DEF Claim, Arrived
  <2>2. CASE (Answer(w, "refused") \/ Answer(w, "empty")) /\ issued' = issued
    BY <1>1, <2>1, <2>2 DEF Answer
  <2>3. ASSUME NEW id \in Ids, issued < MaxGrants, issued' = issued + 1,
               Serve(w, "claim", id, issued + 1)
        PROVE  /\ req' = req /\ serving' \in Servings /\ late' = late
               /\ serving'.from = w /\ serving'.kind = "claim"
               /\ serving'.token = issued + 1 /\ serving'.id \in Ids
    <3>1. /\ serving' = [kind |-> "claim", from |-> w, id |-> id, token |-> issued + 1]
          /\ req' = req /\ late' = late
      BY <2>3 DEF Serve
    <3>2. serving' \in Servings
      BY <1>0, <2>3, <3>1 DEF Servings, Kinds
    <3> QED  BY <3>1, <3>2
  <2>4. \/ (Answer(w, "refused") \/ Answer(w, "empty")) /\ issued' = issued
        \/ \E id \in Ids : /\ issued < MaxGrants /\ issued' = issued + 1
                           /\ Serve(w, "claim", id, issued + 1)
    BY Zenon, <1>4 DEF Claim
  <2>5. CASE \E id \in Ids : /\ issued < MaxGrants /\ issued' = issued + 1
                             /\ Serve(w, "claim", id, issued + 1)
    BY <1>1, <2>1, <2>3, <2>5
  <2> QED  BY <2>2, <2>4, <2>5
<1>5. ASSUME NEW kind \in {"renew", "complete"}, req[w].kind = kind, issued' = issued,
             srv = "up" /\ serving.from # w /\ req[w].answer = "sent" /\ save = "idle",
             Serve(w, kind, req[w].id, req[w].token) \/ Answer(w, "refused")
      PROVE  /\ late' = late
             /\ \/ serving' = serving /\ req' = [req EXCEPT ![w].answer = "refused"]
                \/ /\ req' = req /\ serving' \in Servings
                   /\ serving'.from = w /\ serving'.kind = kind
                   /\ serving'.id = req[w].id /\ serving'.token = req[w].token
  <2>1. CASE Serve(w, kind, req[w].id, req[w].token)
    <3>1. /\ serving' = [kind |-> kind, from |-> w, id |-> req[w].id, token |-> req[w].token]
          /\ req' = req /\ late' = late
      BY <2>1 DEF Serve
    <3>2. serving' \in Servings
      BY <1>0, <3>1 DEF Servings, Kinds, Requests
    <3> QED  BY <3>1, <3>2
  <2>2. CASE Answer(w, "refused")
    BY <2>2 DEF Answer
  <2> QED  BY <1>5, <2>1, <2>2
<1>6. CASE RenewTaskLease(w)
  <2>1. /\ srv = "up" /\ serving.from # w /\ req[w].answer = "sent" /\ save = "idle"
        /\ req[w].kind = "renew" /\ issued' = issued
        /\ Serve(w, "renew", req[w].id, req[w].token) \/ Answer(w, "refused")
    BY <1>6 DEF RenewTaskLease, Arrived
  <2> QED  BY <1>1, <1>5, <2>1
<1>7. CASE CompleteTask(w)
  <2>1. /\ srv = "up" /\ serving.from # w /\ req[w].answer = "sent" /\ save = "idle"
        /\ req[w].kind = "complete" /\ issued' = issued
        /\ Serve(w, "complete", req[w].id, req[w].token) \/ Answer(w, "refused")
    BY <1>7 DEF CompleteTask, Arrived
  <2> QED  BY <1>1, <1>5, <2>1
<1> QED  BY <1>2, <1>3, <1>4, <1>6, <1>7 DEF Handle

\* The end of a store call is told to whoever waits for it, if anybody does.
LEMMA Returning ==
    ASSUME TypeOK, Calling, Returned
    PROVE  /\ srv' = "up" /\ serving' = NoServing
           /\ UNCHANGED <<client, late, issued, reg, crashes, lost>>
           /\ \/ req' = req
              \/ /\ serving.from \in Workers
                 /\ \E a \in {"ok", "sent", "refused"} :
                        /\ req' = [req EXCEPT ![serving.from].answer = a]
                        /\ serving.kind = "claim" => a # "ok"
              \/ /\ serving.from \in Workers /\ serving.kind = "claim"
                 /\ req' = [req EXCEPT ![serving.from].answer = "ok",
                                       ![serving.from].id = serving.id,
                                       ![serving.from].token = serving.token]
<1>1. serving \in Servings
  BY DEF TypeOK
<1>2. /\ srv' = "up" /\ serving' = NoServing
      /\ UNCHANGED <<client, late, issued, reg, crashes, lost>>
  BY DEF Returned
<1>3. Status(serving.kind, save = "saved") \in {"ok", "sent", "refused"}
  BY DEF Status
<1>4. serving.kind = "claim" =>
          Status(serving.kind, save = "saved") = IF save = "saved" THEN "ok" ELSE "sent"
  BY DEF Status
<1>5. serving.from = NoWorker \/ serving.from \in Workers
  BY <1>1 DEF Servings
<1>6. CASE serving.from = NoWorker
  BY <1>2, <1>6 DEF Returned
<1>7. CASE serving.from # NoWorker /\ serving.kind = "claim" /\ save = "saved"
  BY Zenon, <1>2, <1>4, <1>5, <1>7 DEF Returned
<1>8. CASE serving.from # NoWorker /\ ~(serving.kind = "claim" /\ save = "saved")
  <2>1. req' = [req EXCEPT ![serving.from].answer = Status(serving.kind, save = "saved")]
    BY <1>8 DEF Returned
  <2> QED  BY Zenon, <1>2, <1>3, <1>4, <1>5, <1>8, <2>1
<1> QED  BY <1>6, <1>7, <1>8

-----------------------------------------------------------------------------
(* Every action keeps the types.                                           *)

\* A completion speaks of a task and of a lease.
LEMMA CompletionTypes ==
    ASSUME IInv, NEW w \in Workers, NEW r \in {req[w], late[w]}, r.kind = "complete"
    PROVE  r \in Requests /\ r.id \in Ids /\ r.token \in 1..issued /\ r.token \in Tokens
<1>1. r \in Requests /\ issued \in 0..MaxGrants /\ MaxGrants \in Nat
  BY TaskAssumption DEF IInv, TypeOK
<1>2. CASE r = req[w]
  <2>1. Shape(client[w], r, issued) /\ NoReq.kind # "complete"
    BY <1>2 DEF IInv, Conduct, NoReq
  <2>2. client[w].pc = "complete"
    BY <2>1 DEF Shape
  <2> QED  BY <1>1, <2>1, <2>2 DEF Shape, Working, Tokens
<1>3. CASE r = late[w]
  <2>1. Belated(w) /\ NoReq.kind # "complete"
    BY DEF IInv, NoReq
  <2> QED  BY <1>1, <1>3, <2>1 DEF Belated, Tokens
<1> QED  BY <1>2, <1>3

\* Every step keeps the types.
LEMMA TypeStep ==
    ASSUME IInv, Next
    PROVE  TypeOK'
<1>0. TypeOK /\ Conduct /\ Calling
  BY DEF IInv
<1>1. ASSUME NEW w \in Workers, Client(w)
      PROVE  TypeOK'
  <2>1. CASE Converse(w) /\ UNCHANGED <<storeVars, serverVars, late, history>>
    <3>1. PICK c \in ClientStates, r \in Requests : Goes(w, c, r)
      BY <1>0, <2>1, Conversing
    <3> QED  BY <1>0, <2>1, <3>1
             DEF Goes, TypeOK, StoreTypeOK, storeVars, serverVars, history
  <2>2. CASE /\ HandlerReturns(w)
             /\ UNCHANGED <<storeVars, serverVars, req, late, created, issued, crashes, lost>>
    <3>1. PICK x \in Outcomes :
             /\ client' = [client EXCEPT ![w].run = x]
             /\ grant' = IF grant[client[w].token].end = "open"
                         THEN [grant EXCEPT ![client[w].token].ran = x] ELSE grant
      BY Zenon, <2>2 DEF HandlerReturns
    <3>2. client' \in [Workers -> ClientStates]
      BY <1>0, <3>1, ValueTypes DEF TypeOK
    <3>3. \A k \in Tokens : [grant[k] EXCEPT !.ran = x] \in Grants
      BY <1>0 DEF TypeOK, Grants
    <3>4. grant' \in [Tokens -> Grants]
      BY Zenon, <1>0, <3>1, <3>3 DEF TypeOK
    <3> QED  BY <1>0, <2>2, <3>2, <3>4 DEF TypeOK, StoreTypeOK, storeVars, serverVars
  <2>3. CASE /\ RenewBroken(w) \/ WorkerDies(w)
             /\ UNCHANGED <<storeVars, srv, reg, reserved, history>>
    <3>1. PICK c \in ClientStates :
             client' = [client EXCEPT ![w] = c] /\ req' = [req EXCEPT ![w] = NoReq]
      BY <1>0, <2>3, Leaving
    <3>2. /\ late' = late \/ late' = [late EXCEPT ![w] = req[w]]
          /\ serving' \in Servings
      BY <1>0, <2>3, Leaving
    <3> QED  BY <1>0, <2>3, <3>1, <3>2, ValueTypes DEF TypeOK, StoreTypeOK, storeVars, history
  <2> QED  BY <1>1, <2>1, <2>2, <2>3 DEF Client, Converse
<1>2. ASSUME NEW w \in Workers, Handle(w)
      PROVE  TypeOK'
  <2>1. /\ UNCHANGED <<client, late, srv, created, crashes, lost>>
        /\ serving' \in Servings
        /\ issued' = issued \/ (issued < MaxGrants /\ issued' = issued + 1)
        /\ req' = req \/ \E a \in {"ok", "empty", "refused"} :
                             req' = [req EXCEPT ![w].answer = a]
    BY <1>0, <1>2, Handling DEF TypeOK
  <2>2. req' \in [Workers -> Requests] /\ issued' \in 0..MaxGrants
    <3>1. \A a \in {"ok", "empty", "refused"} : [req[w] EXCEPT !.answer = a] \in Requests
      BY SMTT(30), <1>0 DEF TypeOK, Requests
    <3>2. req \in [Workers -> Requests] /\ issued \in 0..MaxGrants /\ MaxGrants \in Nat
      BY <1>0, TaskAssumption DEF TypeOK
    <3>3. req' \in [Workers -> Requests]
      BY <2>1, <3>1, <3>2
    <3>4. issued' \in 0..MaxGrants
      BY <2>1, <3>2
    <3> QED  BY <3>3, <3>4
  <2>3. StoreTypeOK /\ MaxGrants \in Nat /\ issued \in 0..MaxGrants
    BY <1>0, TaskAssumption DEF TypeOK
  <2>4. (UNCHANGED storeVars) => StoreTypeOK'
    BY <2>3 DEF storeVars, StoreTypeOK
  <2>5. \A st \in [Ids -> Task] : Put(st) => StoreTypeOK'
    BY <2>3, Putting
  <2>6. CASE RegisterWorker(w)
    <3>1. reg' \in [Workers -> {"absent", "live", "lapsed"}]
      BY <1>0, <2>6 DEF RegisterWorker, TypeOK
    <3> QED  BY <1>0, <2>1, <2>2, <2>4, <2>6, <3>1 DEF RegisterWorker, TypeOK
  <2>7. CASE Heartbeat(w)
    <3>1. reg' \in [Workers -> {"absent", "live", "lapsed"}]
      BY Zenon, <1>0, <2>7 DEF Heartbeat, TypeOK
    <3>2. StoreTypeOK'
      <4>1. CASE UNCHANGED storeVars
        BY <2>4, <4>1
      <4>2. ASSUME NEW id \in Ids, Put(RenewWorkerTaskLeases(mem, w))
            PROVE  StoreTypeOK'
        BY Zenon, <1>0, <2>5, <4>2, WrittenTypes
      <4> QED  BY <2>7, <4>1, <4>2 DEF Heartbeat
    <3> QED  BY Zenon, <1>0, <2>1, <2>2, <2>7, <3>1, <3>2 DEF Heartbeat, TypeOK
  <2>8. CASE Claim(w)
    <3>1. CASE UNCHANGED <<storeVars, reserved, grant, issued>>
      BY Zenon, <1>0, <2>1, <2>2, <2>4, <2>8, <3>1 DEF Claim, TypeOK
    <3>2. ASSUME NEW id \in Ids, issued < MaxGrants, reserved' = reserved \cup {id},
                 Put([mem EXCEPT ![id] = Granted(@, w, issued + 1)]),
                 grant' = [grant EXCEPT ![issued + 1] =
                               [NoGrant EXCEPT !.id = id, !.end = "open"]]
          PROVE  TypeOK'
      <4>1. issued + 1 \in Tokens
        BY <2>3, <3>2 DEF Tokens
      <4>2. StoreTypeOK'
        BY Zenon, <1>0, <2>5, <3>2, <4>1, WrittenTypes
      <4>3. [NoGrant EXCEPT !.id = id, !.end = "open"] \in Grants
        BY Zenon DEF NoGrant, Grants
      <4>4. grant' \in [Tokens -> Grants]
        BY Zenon, <1>0, <3>2, <4>3 DEF TypeOK
      <4>5. reg' = reg
        BY Zenon, <2>8 DEF Claim
      <4> QED  BY <1>0, <2>1, <2>2, <3>2, <4>2, <4>4, <4>5 DEF TypeOK
    <3> QED  BY Zenon, <2>8, <3>1, <3>2 DEF Claim
  <2>9. CASE RenewTaskLease(w)
    <3>1. StoreTypeOK'
      <4>1. CASE UNCHANGED storeVars
        BY <2>4, <4>1
      <4>2. CASE Put([mem EXCEPT ![req[w].id].lease = "live"])
        <5>1. req[w].id \in Ids
          <6>1. req[w].kind = "renew" /\ Shape(client[w], req[w], issued)
            BY <1>0, <2>9 DEF RenewTaskLease, Arrived, Conduct
          <6> QED  BY <6>1 DEF Shape, Working, NoReq
        <5> QED  BY Zenon, <1>0, <2>5, <4>2, <5>1, WrittenTypes
      <4> QED  BY <2>9, <4>1, <4>2 DEF RenewTaskLease
    <3> QED  BY <1>0, <2>1, <2>2, <2>9, <3>1 DEF RenewTaskLease, TypeOK
  <2>10. CASE CompleteTask(w)
    <3>1. CASE UNCHANGED <<storeVars, grant>>
      BY <1>0, <2>1, <2>2, <2>4, <2>10, <3>1 DEF CompleteTask, TypeOK
    <3>2. CASE Complete(w, req[w])
      <4>1. req[w].kind = "complete"
        BY <2>10 DEF CompleteTask, Arrived
      <4>2. req[w] \in Requests /\ req[w].id \in Ids /\ req[w].ok \in BOOLEAN
        BY <4>1, CompletionTypes DEF Requests
      <4>3. StoreTypeOK'
        BY Zenon, <1>0, <2>5, <3>2, <4>2, WrittenTypes DEF Complete
      <4>4. grant' \in [Tokens -> Grants]
        <5>1. Verdict(req[w].id, mem[req[w].id], req[w].ok) \in {"succeeded", "retried", "failed"}
          BY DEF Verdict
        <5>2. \A k \in Tokens, v \in {"succeeded", "retried", "failed"} :
                 [grant[k] EXCEPT !.end = v] \in Grants
          BY <1>0 DEF TypeOK, Grants
        <5> QED  BY Zenon, <1>0, <3>2, <5>1, <5>2 DEF Complete, TypeOK
      <4> QED  BY <1>0, <2>1, <2>2, <2>10, <4>3, <4>4 DEF CompleteTask, TypeOK
    <3> QED  BY <2>10, <3>1, <3>2 DEF CompleteTask
  <2> QED  BY <1>2, <2>6, <2>7, <2>8, <2>9, <2>10 DEF Handle
<1>3. ASSUME NEW w \in Workers, NoServer(w)
      PROVE  TypeOK'
  <2>1. req[w] \in Requests
    BY <1>0 DEF TypeOK
  <2>2. [req[w] EXCEPT !.answer = "refused"] \in Requests
    BY <2>1 DEF Requests
  <2> QED  BY <1>0, <1>3, <2>2
           DEF NoServer, TypeOK, StoreTypeOK, storeVars, serverVars, history
<1>4. ASSUME NEW w \in Workers, WorkerLapses(w)
      PROVE  TypeOK'
  BY <1>0, <1>4 DEF WorkerLapses, TypeOK, StoreTypeOK, storeVars, clientVars, history
<1>5. ASSUME NEW w \in Workers, Late(w)
      PROVE  TypeOK'
  <2>0. NoReq \in Requests /\ StoreTypeOK
    BY <1>0, ValueTypes DEF TypeOK
  <2>1. CASE Vanishes(w)
    BY <1>0, <2>0, <2>1 DEF Vanishes, TypeOK, StoreTypeOK, storeVars, serverVars, history
  <2>2. CASE CompleteLate(w) /\ UNCHANGED <<srv, client, created, crashes, lost>>
    <3> DEFINE r == late[w]
    <3>1. r.kind = "complete"
      BY <2>2 DEF CompleteLate, IInv, Belated
    <3>2. r \in Requests /\ r.id \in Ids /\ r.ok \in BOOLEAN /\ r.token \in 0..MaxGrants
      BY ZenonT(60), <3>1, CompletionTypes DEF Requests
    <3> HIDE DEF r
    <3>3. Complete(w, r) /\ late' = [late EXCEPT ![w] = NoReq]
          /\ serving' = [kind |-> "complete", from |-> NoWorker, id |-> r.id, token |-> r.token]
          /\ UNCHANGED <<req, reg, reserved, issued>>
      BY SMTT(30), <2>2 DEF CompleteLate, r
    <3>4. serving' \in Servings
      BY <3>2, <3>3 DEF Servings, Kinds
    <3>5. StoreTypeOK'
      BY Zenon, <1>0, <2>0, <3>2, <3>3, WrittenTypes, Putting DEF Complete
    <3>6. grant' \in [Tokens -> Grants]
      <4>1. Verdict(r.id, mem[r.id], r.ok) \in {"succeeded", "retried", "failed"}
        BY DEF Verdict
      <4>2. \A k \in Tokens, v \in {"succeeded", "retried", "failed"} :
               [grant[k] EXCEPT !.end = v] \in Grants
        BY <1>0 DEF TypeOK, Grants
      <4> QED  BY Zenon, <1>0, <3>3, <4>1, <4>2 DEF Complete, TypeOK
    <3> QED  BY SMTT(30), <1>0, <2>0, <2>2, <3>3, <3>4, <3>5, <3>6 DEF TypeOK
  <2> QED  BY <1>5, <2>1, <2>2 DEF Late
<1>6. ASSUME NEW id \in Ids, Other(id)
      PROVE  TypeOK'
  <2>1. \A kind \in {"submit", "reap"} : ServeOther(kind, id) => serving' \in Servings
    BY Zenon, ValueTypes DEF ServeOther, NoServing, Servings, Kinds
  <2>2. StoreTypeOK'
    <3>1. StoreTypeOK
      BY <1>0 DEF TypeOK
    <3> QED  BY Zenon, <1>0, <1>6, <3>1, WrittenTypes, Putting DEF Other, Submit, Reap
  <2>3. grant' \in [Tokens -> Grants] /\ reserved' \subseteq Ids
    BY <1>0, <1>6, ValueTypes DEF Other, Submit, Reap, TypeOK
  <2> QED  BY <1>0, <1>6, <2>1, <2>2, <2>3 DEF Other, Submit, Reap, TypeOK, clientVars
<1>7. ASSUME NEW id \in Ids, LeaseLapses(id) \/ BecomesDue(id)
      PROVE  TypeOK'
  <2>1. mem' \in [Ids -> Task]
    <3>1. /\ [mem EXCEPT ![id].lease = "lapsed"] \in [Ids -> Task]
          /\ [mem EXCEPT ![id].due = TRUE] \in [Ids -> Task]
      BY Zenon, <1>0, WrittenTypes
    <3> QED  BY Zenon, <1>7, <3>1 DEF LeaseLapses, BecomesDue
  <2> QED  BY <1>0, <1>7, <2>1
           DEF LeaseLapses, BecomesDue, TypeOK, StoreTypeOK, serverVars, clientVars, history
<1>8. CASE SaveStep /\ UNCHANGED <<serverVars, clientVars, history>>
  <2> DEFINE V == {NoFile, Torn} \cup [Ids -> Task]
  <2>0. NoFile \in V /\ dir \in [Names -> V] /\ mem \in [Ids -> Task] /\ faults \in 0..MaxFaults
    BY <1>0 DEF TypeOK, StoreTypeOK
  <2>1. MaxFaults \in Nat
    BY FileStoreAssumption
  <2>2. CASE WriteTmp
    <3>1. Marshal(mem) \in V
      BY <2>0, DocumentTypes
    <3> HIDE DEF V
    <3>2. dir' \in [Names -> V]
      BY <2>0, <2>2, <3>1 DEF WriteTmp, V
    <3>3. save' \in SavePcs /\ faults' \in 0..MaxFaults
      BY SMTT(30), <2>0, <2>1, <2>2 DEF WriteTmp, Fault, Faults, SavePcs, ReplacePcs, Results
    <3> QED  BY <1>0, <1>8, <3>2, <3>3
             DEF SaveStep, V, TypeOK, StoreTypeOK, serverVars, clientVars, history
  <2>3. CASE Replace
    <3>1. PICK o \in ReplaceStep(dir, save) :
             dir' = o.dir /\ save' = o.pc /\ Faults(o.faults)
      BY <2>3 DEF Replace
    <3>2. save \in ReplacePcs
      BY <2>3 DEF Replace
    <3> HIDE DEF V
    <3>3. o.dir \in [Names -> V] /\ o.pc \in ReplacePcs \cup Results
      BY Zenon, <2>0, <3>2, ReplaceMoves
    <3>4. o.faults \in Nat
      BY <3>2, CallOutcomes
    <3>5. faults' \in 0..MaxFaults
      BY <2>0, <2>1, <3>1, <3>4 DEF Faults
    <3> QED  BY <1>0, <1>8, <3>1, <3>3, <3>5
             DEF SaveStep, V, SavePcs, TypeOK, StoreTypeOK, serverVars, clientVars, history
  <2> QED  BY <1>8, <2>2, <2>3 DEF SaveStep
<1>9. CASE Returned
  <2> DEFINE V == {NoFile, Torn} \cup [Ids -> Task]
  <2>1. Tidy(dir) \in [Names -> V]
    BY Zenon, <1>0, Tidying DEF TypeOK, StoreTypeOK
  <2>2. StoreTypeOK'
    BY <1>0, <1>9, <2>1 DEF Returned, StoreReturns, TypeOK, StoreTypeOK, SavePcs
  <2>3. req' \in [Workers -> Requests]
    <3>1. serving \in Servings /\ req \in [Workers -> Requests]
      BY <1>0 DEF TypeOK
    <3>2. CASE req' = req
      BY <3>1, <3>2
    <3>3. ASSUME serving.from \in Workers, NEW a \in {"ok", "sent", "refused"},
                 req' = [req EXCEPT ![serving.from].answer = a]
          PROVE  req' \in [Workers -> Requests]
      <4>1. [req[serving.from] EXCEPT !.answer = a] \in Requests
        BY <3>1, <3>3 DEF Requests
      <4> QED  BY <3>1, <3>3, <4>1
    <3>4. CASE /\ serving.from \in Workers
               /\ req' = [req EXCEPT ![serving.from].answer = "ok",
                                     ![serving.from].id = serving.id,
                                     ![serving.from].token = serving.token]
      <4>1. [req[serving.from] EXCEPT !.answer = "ok", !.id = serving.id,
                                      !.token = serving.token] \in Requests
        BY <3>1, <3>4 DEF Requests, Servings
      <4> QED  BY Zenon, <3>1, <3>4, <4>1
    <3> QED  BY <1>0, <1>9, <3>2, <3>3, <3>4, Returning
  <2>4. grant' \in [Tokens -> Grants]
    <3>1. \A k \in Tokens : [grant[k] EXCEPT !.acked = TRUE] \in Grants
      BY Zenon, <1>0 DEF TypeOK, Grants
    <3> QED  BY Zenon, <1>0, <1>9, <3>1 DEF Returned, TypeOK
  <2>5. created' \subseteq Ids /\ reserved' \subseteq Ids
    BY <1>0, <1>9 DEF Returned, TypeOK, Calling
  <2>6. NoServing \in Servings
    BY ValueTypes
  <2> QED  BY <1>0, <1>9, <2>2, <2>3, <2>4, <2>5, <2>6, Returning DEF TypeOK
<1>10. CASE Crash
  <2> DEFINE V == {NoFile, Torn} \cup [Ids -> Task]
  <2>1. Tidy(dir) \in [Names -> V]
    BY Zenon, <1>0, Tidying DEF TypeOK, StoreTypeOK
  <2>2. StoreTypeOK'
    BY <1>0, <1>10, <2>1, DocumentTypes DEF Crash, StoreDies, TypeOK, StoreTypeOK, SavePcs
  <2>3. req' \in [Workers -> Requests] /\ late' \in [Workers -> Requests]
    <3>1. \A w \in Workers : [req[w] EXCEPT !.answer = "refused"] \in Requests
      BY SMTT(30), <1>0 DEF TypeOK, Requests
    <3> QED  BY <1>0, <1>10, <3>1, ValueTypes DEF Crash, TypeOK
  <2>4. crashes' \in 0..MaxCrashes
    BY <1>0, <1>10, WorkerAssumption DEF Crash, TypeOK
  <2> QED  BY <1>0, <1>10, <2>2, <2>3, <2>4, ValueTypes DEF Crash, TypeOK
<1>11. CASE Restart
  <2>1. Load(dir) \in [Ids -> Task]
    BY <1>0, <1>11, DocumentTypes DEF Restart, TypeOK, StoreTypeOK
  <2>2. mem' \in [Ids -> Task]
    BY Zenon, <1>11, <2>1, RecordTypes DEF Restart
  <2>3. save' \in SavePcs /\ dir' = dir /\ faults' = faults
    BY Zenon, <1>0, <1>11 DEF Restart, TypeOK, StoreTypeOK, SavePcs
  <2>4. serving' \in Servings
    <3>1. [NoServing EXCEPT !.kind = "recover", !.id = NoId] \in Servings
      BY Zenon, ValueTypes DEF NoServing, Servings, Kinds
    <3> QED  BY <1>0, <1>11, <3>1 DEF Restart, TypeOK, ServeOther
  <2>5. grant' \in [Tokens -> Grants]
    <3>1. \A k \in Tokens : grant[k].id \in Ids \cup {NoId}
      BY ZenonT(60), <1>0 DEF TypeOK, Grants
    <3> QED  BY <1>0, <1>11, <3>1, ValueTypes DEF Restart, TypeOK
  <2>6. lost' \in BOOLEAN /\ srv' \in {"down", "starting", "up"}
    BY <1>0, <1>11 DEF Restart, TypeOK
  <2> QED  BY Zenon, <1>0, <1>11, <2>2, <2>3, <2>4, <2>5, <2>6
           DEF Restart, TypeOK, StoreTypeOK, clientVars
<1> QED  BY <1>1, <1>2, <1>3, <1>4, <1>5, <1>6, <1>7, <1>8, <1>9, <1>10, <1>11
         DEF Next, Save

-----------------------------------------------------------------------------
(* Saves.                                                                  *)

\* The store is left alone, a write begins or ends, a save goes on, or the process
\* dies.
LEMMA StoreEffect ==
    ASSUME Next
    PROVE  \/ UNCHANGED <<dir, save, faults>>
           \/ save' = "write" /\ UNCHANGED <<dir, faults>>
           \/ SaveStep \/ StoreReturns \/ StoreDies
<1>1. ASSUME NEW w \in Workers, Client(w) \/ NoServer(w) \/ WorkerLapses(w) \/ Vanishes(w)
      PROVE  UNCHANGED <<dir, save, faults>>
  BY <1>1 DEF Client, NoServer, WorkerLapses, Vanishes, storeVars
<1>2. ASSUME NEW w \in Workers, Handle(w) \/ CompleteLate(w)
      PROVE  UNCHANGED <<dir, save, faults>> \/ (save' = "write" /\ UNCHANGED <<dir, faults>>)
  BY Zenon, <1>2 DEF Handle, CompleteLate, RegisterWorker, Heartbeat, Claim, RenewTaskLease,
              CompleteTask, Complete, Put, storeVars
<1>3. ASSUME NEW id \in Ids, Other(id)
      PROVE  save' = "write" /\ UNCHANGED <<dir, faults>>
  BY <1>3 DEF Other, Submit, Reap, Put
<1>4. ASSUME NEW id \in Ids, LeaseLapses(id) \/ BecomesDue(id)
      PROVE  UNCHANGED <<dir, save, faults>>
  BY <1>4 DEF LeaseLapses, BecomesDue
<1>5. CASE Save
  BY <1>5 DEF Save, Returned
<1>6. CASE Crash
  BY Zenon, <1>6 DEF Crash
<1>7. CASE Restart
  BY <1>7 DEF Restart
<1> QED  BY <1>1, <1>2, <1>3, <1>4, <1>5, <1>6, <1>7 DEF Next, Late

\* A torn document stays in the temporary file, and is never renamed.
LEMMA DiskStep ==
    ASSUME IInv, Next
    PROVE  Disk' /\ Smooth'
<1> DEFINE Whole == {NoFile} \cup [Ids -> Task]
<1>0. /\ Disk /\ Smooth /\ faults \in Nat /\ mem \in [Ids -> Task] /\ NoFile # Torn
      /\ dir \in [Names -> {NoFile, Torn} \cup [Ids -> Task]] /\ Torn \notin [Ids -> Task]
  BY FileStoreAssumption DEF IInv, TypeOK, StoreTypeOK
<1>1. CASE UNCHANGED <<dir, save, faults>>
  BY <1>0, <1>1 DEF Disk, Smooth
<1>2. CASE save' = "write" /\ UNCHANGED <<dir, faults>>
  BY Zenon, <1>0, <1>2 DEF Disk, Smooth, ReplacePcs
<1>3. CASE WriteTmp
  <2>1. Marshal(mem) \notin {NoFile, Torn}
    BY <1>0, DocumentTypes
  <2>2. dir'["dst"] = dir["dst"] /\ dir'["bak"] = dir["bak"]
    BY <1>0, <1>3 DEF WriteTmp, Names
  <2>3. \/ save' = "rename" /\ dir'["tmp"] = Marshal(mem)
        \/ save' = "failed" /\ faults' # 0
    BY <1>0, <1>3 DEF WriteTmp, Names, Fault, Faults
  <2> QED  BY <1>0, <2>1, <2>2, <2>3 DEF Disk, Smooth, ReplacePcs
<1>4. CASE Replace
  <2>1. PICK o \in ReplaceStep(dir, save) :
           dir' = o.dir /\ save' = o.pc /\ Faults(o.faults)
    BY <1>4 DEF Replace
  <2>2. save \in ReplacePcs
    BY <1>4 DEF Replace
  <2>3. NoFile \in Whole /\ dir \in [Names -> Whole]
    BY <1>0, <2>2 DEF Disk, Names
  <2>4. dir' \in [Names -> Whole]
    <3> HIDE DEF Whole
    <3> QED  BY <2>1, <2>2, <2>3, ReplaceMoves
  <2>5. Disk'
    BY <1>0, <2>4 DEF Disk, Names
  <2>6. ASSUME faults' = 0
        PROVE  faults = 0 /\ o.faults = 0
    <3>1. o.faults \in Nat
      BY <2>2, CallOutcomes
    <3> QED  BY <1>0, <2>1, <2>6, <3>1 DEF Faults
  <2>7. ASSUME faults' = 0
        PROVE  Smooth'
    <3> HIDE DEF Whole
    <3>1. /\ Rename(dir, "tmp", "dst")["bak"] = dir["bak"]
          /\ Rename(dir, "dst", "bak")["dst"] = NoFile
          /\ Rename(dir, "dst", "bak")["bak"] = dir["dst"]
          /\ Rename(dir, "dst", "bak")["tmp"] = dir["tmp"]
          /\ Remove(dir, "bak")["bak"] = NoFile
          /\ Remove(dir, "bak")["tmp"] = dir["tmp"]
      BY <2>3, Renaming, Removal DEF Names
    <3>2. CASE save = "rename"
      <4>1. \/ save' = "saved"
            \/ dir' = Remove(dir, "bak") /\ save' = "backup"
        BY Zenon, <2>1, <2>2, <2>6, <2>7, <3>2, FaultFree
      <4> QED  BY Zenon, <1>0, <2>6, <2>7, <3>1, <3>2, <4>1 DEF Smooth
    <3>3. CASE save = "backup"
      <4>1. \/ dir["dst"] = NoFile /\ dir' = dir /\ save' = "retry"
            \/ dir["dst"] # NoFile /\ dir' = Rename(dir, "dst", "bak") /\ save' = "install"
        BY <1>0, <2>1, <2>2, <2>6, <2>7, <3>3, FaultFree DEF Smooth
      <4> QED  BY Zenon, <1>0, <2>6, <2>7, <3>1, <3>3, <4>1 DEF Smooth
    <3>4. CASE save = "retry"
      <4>1. save' = "saved"
        BY Zenon, <1>0, <2>1, <2>2, <2>6, <2>7, <3>4, FaultFree DEF Smooth
      <4> QED  BY Zenon, <4>1 DEF Smooth
    <3>5. CASE save = "install"
      <4>1. dir' = Rename(dir, "tmp", "dst") /\ save' = "cleanup"
        BY <1>0, <2>1, <2>2, <2>6, <2>7, <3>5, FaultFree DEF Smooth
      <4> QED  BY Zenon, <1>0, <2>6, <2>7, <3>1, <3>5, <4>1 DEF Smooth
    <3>6. CASE save = "cleanup"
      <4>1. save' = "saved"
        BY Zenon, <1>0, <2>1, <2>2, <2>6, <2>7, <3>6, FaultFree DEF Smooth
      <4> QED  BY <4>1 DEF Smooth
    <3> QED  BY Zenon, <1>0, <2>2, <2>6, <2>7, <3>2, <3>3, <3>4, <3>5, <3>6 DEF Smooth, ReplacePcs
  <2> QED  BY <2>5, <2>7 DEF Smooth
<1>5. CASE StoreReturns \/ StoreDies
  <2>1. /\ Tidy(dir)["dst"] = dir["dst"]
        /\ Tidy(dir)["bak"] \in {dir["bak"], NoFile}
    BY Zenon, <1>0, Tidying
  <2>2. save' = "idle" /\ dir' = Tidy(dir)
    BY <1>5 DEF StoreReturns, StoreDies
  <2> QED  BY <1>0, <2>1, <2>2 DEF Disk, Smooth, ReplacePcs
<1> QED  BY Zenon, <1>1, <1>2, <1>3, <1>4, <1>5, StoreEffect DEF SaveStep

-----------------------------------------------------------------------------
(* Leases.                                                                 *)

\* Of a record that is written, only the status and the token matter here.
SameLease(t, u) == t.status = u.status /\ t.token = u.token

\* A record starts to run under a new lease, and stops when the lease ends.
LEMMA LeaseStep ==
    ASSUME IInv, Next
    PROVE  Leased'
<1>0. /\ Leased /\ mem \in [Ids -> Task] /\ grant \in [Tokens -> Grants]
      /\ issued \in 0..MaxGrants /\ MaxGrants \in Nat
  BY Zenon, TaskAssumption DEF IInv, TypeOK, StoreTypeOK
<1>1. ASSUME \A id \in Ids : SameLease(mem'[id], mem[id]), issued' = issued,
             \A k \in 1..issued : grant'[k].end = grant[k].end /\ grant'[k].id = grant[k].id
      PROVE  Leased'
  BY <1>0, <1>1 DEF Leased, SameLease
<1>2. ASSUME UNCHANGED <<issued, grant>>, \A id \in Ids : SameLease(mem'[id], mem[id])
      PROVE  Leased'
  BY <1>1, <1>2
<1>3. ASSUME UNCHANGED <<mem, issued, grant>>
      PROVE  Leased'
  BY <1>2, <1>3 DEF SameLease
<1>4. ASSUME NEW id \in Ids, NEW t, t.status # "running", issued' = issued,
             mem' = [mem EXCEPT ![id] = t],
             \/ grant' = grant
             \/ /\ mem[id].status = "running"
                /\ \A k \in Tokens \ {mem[id].token} : grant'[k] = grant[k]
      PROVE  Leased'
  <2> SUFFICES ASSUME NEW j \in Ids, mem'[j].status = "running"
               PROVE  /\ mem'[j].token \in 1..issued
                      /\ grant'[mem'[j].token].end = "open"
                      /\ grant'[mem'[j].token].id = j
    BY <1>4 DEF Leased
  <2>1. j # id /\ mem'[j] = mem[j]
    BY <1>0, <1>4
  <2>2. /\ mem[j].token \in 1..issued /\ mem[j].token \in Tokens
        /\ grant[mem[j].token].end = "open" /\ grant[mem[j].token].id = j
    BY <1>0, <2>1 DEF Leased, Tokens
  <2>3. mem[id].status = "running" => mem[j].token # mem[id].token
    BY <1>0, <2>1, <2>2 DEF Leased
  <2> QED  BY Zenon, <1>4, <2>1, <2>2, <2>3
<1>5. ASSUME NEW w \in Workers, NEW r \in {req[w], late[w]}, r.kind = "complete",
             ValidLease(mem[r.id], w, r.token), Complete(w, r), issued' = issued
      PROVE  Leased'
  <2>1. r \in Requests /\ r.id \in Ids /\ r.ok \in BOOLEAN
    BY <1>5, CompletionTypes DEF IInv, Requests
  <2>2. mem' = [mem EXCEPT ![r.id] = Finished(r.id, mem[r.id], r.ok)]
    BY Zenon, <1>5 DEF Complete, Put
  <2>3. Finished(r.id, mem[r.id], r.ok).status # "running"
    BY SMTT(30), <1>0, <2>1, FinishedType
  <2>4. mem[r.id].status = "running" /\ mem[r.id].token = r.token
    BY <1>5 DEF ValidLease
  <2>5. \A k \in Tokens \ {mem[r.id].token} : grant'[k] = grant[k]
    BY <1>0, <1>5, <2>4 DEF Complete
  <2> QED  BY ZenonT(60), <1>4, <1>5, <2>1, <2>2, <2>3, <2>4, <2>5
<1>6. ASSUME NEW w \in Workers, Client(w)
      PROVE  Leased'
  <2>1. CASE HandlerReturns(w) /\ UNCHANGED <<storeVars, issued>>
    <3>1. \A k \in 1..issued : grant'[k].end = grant[k].end /\ grant'[k].id = grant[k].id
      BY <1>0, <2>1 DEF HandlerReturns, Grants, Tokens
    <3> QED  BY <1>1, <2>1, <3>1 DEF storeVars, SameLease
  <2>2. CASE UNCHANGED <<storeVars, history>>
    BY <1>3, <2>2 DEF storeVars, history
  <2> QED  BY Zenon, <1>6, <2>1, <2>2 DEF Client
<1>7. ASSUME NEW w \in Workers, Handle(w)
      PROVE  Leased'
  <2>1. CASE RegisterWorker(w)
    BY Zenon, <1>3, <2>1 DEF RegisterWorker, storeVars
  <2>2. CASE Heartbeat(w)
    <3>1. mem' = mem \/ mem' = RenewWorkerTaskLeases(mem, w)
      BY <2>2 DEF Heartbeat, Put, storeVars
    <3>2. \A id \in Ids : SameLease(RenewWorkerTaskLeases(mem, w)[id], mem[id])
      BY <1>0 DEF RenewWorkerTaskLeases, SameLease, Task
    <3> QED  BY SMTT(30), <1>2, <2>2, <3>1, <3>2 DEF Heartbeat, SameLease
  <2>3. CASE Claim(w)
    <3>1. CASE UNCHANGED <<storeVars, reserved, grant, issued>>
      BY <1>3, <3>1 DEF storeVars
    <3>2. ASSUME NEW id \in Ids, issued < MaxGrants, issued' = issued + 1,
                 Put([mem EXCEPT ![id] = Granted(@, w, issued + 1)]),
                 grant' = [grant EXCEPT ![issued + 1] =
                               [NoGrant EXCEPT !.id = id, !.end = "open"]]
          PROVE  Leased'
      <4>1. /\ Granted(mem[id], w, issued + 1).token = issued + 1
        BY <1>0, <3>2, GrantedType DEF Labels
      <4>2. mem' = [mem EXCEPT ![id] = Granted(mem[id], w, issued + 1)]
        BY <3>2 DEF Put
      <4>3. issued + 1 \in Tokens /\ issued + 1 \in 1..issued'
        BY <1>0, <3>2 DEF Tokens
      <4>4. /\ grant'[issued + 1].id = id /\ grant'[issued + 1].end = "open"
            /\ \A k \in 1..issued : grant'[k] = grant[k]
        BY <1>0, <3>2, <4>3 DEF NoGrant, Tokens
      <4>5. mem'[id].token = issued + 1 /\ \A j \in Ids \ {id} : mem'[j] = mem[j]
        BY <1>0, <4>1, <4>2
      <4> QED  BY <1>0, <3>2, <4>3, <4>4, <4>5 DEF Leased
    <3> QED  BY Zenon, <2>3, <3>1, <3>2 DEF Claim
  <2>4. CASE RenewTaskLease(w)
    <3>1. mem' = mem \/ mem' = [mem EXCEPT ![req[w].id].lease = "live"]
      BY <2>4 DEF RenewTaskLease, Put, storeVars
    <3>2. \A id \in Ids : SameLease(mem'[id], mem[id])
      BY <1>0, <3>1 DEF SameLease, Task
    <3> QED  BY <1>2, <2>4, <3>2 DEF RenewTaskLease
  <2>5. CASE CompleteTask(w)
    <3>1. CASE UNCHANGED <<storeVars, grant>>
      BY Zenon, <1>3, <2>5, <3>1 DEF CompleteTask, storeVars
    <3>2. CASE ValidLease(mem[req[w].id], w, req[w].token) /\ Complete(w, req[w])
      BY <1>5, <2>5, <3>2 DEF CompleteTask, Arrived
    <3> QED  BY Zenon, <2>5, <3>1, <3>2 DEF CompleteTask
  <2> QED  BY <1>7, <2>1, <2>2, <2>3, <2>4, <2>5 DEF Handle
<1>8. ASSUME NEW w \in Workers, NoServer(w) \/ WorkerLapses(w) \/ Vanishes(w)
      PROVE  Leased'
  BY <1>3, <1>8 DEF NoServer, WorkerLapses, Vanishes, storeVars, history
<1>9. ASSUME NEW w \in Workers, CompleteLate(w)
      PROVE  Leased'
  <2>1. late[w].kind = "complete"
    BY <1>9 DEF CompleteLate, IInv, Belated
  <2> QED  BY ZenonT(60), <1>5, <1>9, <2>1 DEF CompleteLate
<1>10. ASSUME NEW id \in Ids, Other(id)
       PROVE  Leased'
  <2>1. CASE Submit(id)
    <3>1. mem' = mem \/ mem' = [mem EXCEPT ![id] = NewTask]
      BY <2>1 DEF Submit, Put, Create
    <3>2. NewTask.status # "running"
      BY DEF NewTask, NoTask
    <3> QED  BY Zenon, <1>3, <1>4, <1>10, <2>1, <3>1, <3>2 DEF Submit, Other
  <2>2. CASE Reap(id)
    <3>1. mem' = [mem EXCEPT ![id] = Requeued(mem[id])]
      BY <2>2 DEF Reap, Put
    <3>2. Requeued(mem[id]).status # "running"
      BY Zenon, <1>0, RecordTypes
    <3>3. \A k \in Tokens \ {mem[id].token} : grant'[k] = grant[k]
      BY <1>0, <2>2 DEF Reap
    <3> QED  BY Zenon, <1>4, <1>10, <2>2, <3>1, <3>2, <3>3 DEF Reap, Other
  <2> QED  BY <1>10, <2>1, <2>2 DEF Other
<1>11. ASSUME NEW id \in Ids, LeaseLapses(id) \/ BecomesDue(id)
       PROVE  Leased'
  <2>1. \/ mem' = [mem EXCEPT ![id].lease = "lapsed"]
        \/ mem' = [mem EXCEPT ![id].due = TRUE]
    BY <1>11 DEF LeaseLapses, BecomesDue
  <2>2. \A j \in Ids : SameLease(mem'[j], mem[j])
    BY <1>0, <2>1 DEF SameLease, Task
  <2> QED  BY <1>2, <1>11, <2>2 DEF LeaseLapses, BecomesDue, history
<1>12. CASE SaveStep /\ UNCHANGED <<serverVars, clientVars, history>>
  BY <1>3, <1>12 DEF SaveStep, history
<1>13. CASE Returned
  <2>1. \A k \in 1..issued : grant'[k].end = grant[k].end /\ grant'[k].id = grant[k].id
    BY <1>0, <1>13 DEF Returned, Grants, Tokens
  <2> QED  BY <1>1, <1>13, <2>1 DEF Returned, StoreReturns, SameLease
<1>14. CASE Crash
  BY <1>14 DEF Crash, StoreDies, Empty, NoTask, Leased
<1>15. CASE Restart
  <2>1. Load(dir) \in [Ids -> Task]
    BY Zenon, <1>15, DocumentTypes DEF Restart, IInv, TypeOK, StoreTypeOK
  <2>2. \A id \in Ids : mem'[id].status # "running"
    BY Zenon, <1>15, <2>1, RecordTypes DEF Restart
  <2> QED  BY <2>2 DEF Leased
<1> QED  BY Zenon, <1>6, <1>7, <1>8, <1>9, <1>10, <1>11, <1>12, <1>13, <1>14, <1>15
         DEF Next, Save, Late



-----------------------------------------------------------------------------
(* Reservations.                                                           *)

\* Faults are counted, never forgotten.
LEMMA FaultsStay ==
    ASSUME TypeOK, Next, faults' = 0
    PROVE  faults = 0
<1>0. faults \in Nat
  BY FileStoreAssumption DEF TypeOK, StoreTypeOK
<1>1. CASE WriteTmp
  BY <1>0, <1>1 DEF WriteTmp, Fault, Faults
<1>2. CASE Replace
  <2>1. PICK o \in ReplaceStep(dir, save) : Faults(o.faults)
    BY Zenon, <1>2 DEF Replace
  <2>2. o.faults \in Nat
    BY Zenon, <1>2, CallOutcomes DEF Replace
  <2> QED  BY <1>0, <2>1, <2>2 DEF Faults
<1> QED  BY <1>1, <1>2, StoreEffect DEF SaveStep, StoreReturns, StoreDies

\* Without failed saves, a reservation is dropped when its task stops running.
LEMMA ReserveStep ==
    ASSUME IInv, Next
    PROVE  Reserving'
<1> DEFINE Settling(id) == save # "idle" /\ serving.kind = "complete" /\ serving.id = id
<1>0. /\ TypeOK /\ Reserving /\ mem \in [Ids -> Task] /\ reserved \subseteq Ids
      /\ issued \in 0..MaxGrants /\ MaxGrants \in Nat
  BY TaskAssumption DEF IInv, TypeOK, StoreTypeOK
<1>1. faults' = 0 => \A id \in reserved : mem[id].status = "running" \/ Settling(id)
  BY <1>0, FaultsStay DEF Reserving
<1>2. faults' = 0 /\ save = "idle" => \A id \in reserved : mem[id].status = "running"
  BY Zenon, <1>1
<1>3. ASSUME \A id \in Ids : mem'[id].status = mem[id].status, UNCHANGED <<srv, reserved>>,
             \/ save = "idle"
             \/ save' # "idle" /\ serving'.kind = serving.kind /\ serving'.id = serving.id
      PROVE  Reserving'
  BY <1>0, <1>1, <1>2, <1>3 DEF Reserving
<1>4. ASSUME UNCHANGED <<mem, save, srv, reserved>>,
             serving'.kind = serving.kind /\ serving'.id = serving.id
      PROVE  Reserving'
  BY <1>0, <1>1, <1>4 DEF Reserving
<1>5. ASSUME NEW w \in Workers, Client(w)
      PROVE  Reserving'
  <2>1. UNCHANGED <<mem, save, srv, reserved>>
    BY <1>5 DEF Client, storeVars, serverVars
  <2>2. serving'.kind = serving.kind /\ serving'.id = serving.id
    <3>1. CASE RenewBroken(w) \/ WorkerDies(w)
      BY SMTT(30), <1>0, <3>1, Leaving DEF IInv
    <3> QED  BY ZenonT(60), <1>5, <3>1 DEF Client, serverVars
  <2> QED  BY <1>4, <2>1, <2>2
<1>6. ASSUME NEW w \in Workers, NEW r \in {req[w], late[w]}, r.kind = "complete",
             Complete(w, r), serving'.kind = "complete", serving'.id = r.id,
             UNCHANGED <<srv, reserved>>
      PROVE  Reserving'
  <2>1. r.id \in Ids
    BY <1>6, CompletionTypes
  <2>2. /\ save = "idle" /\ save' = "write"
        /\ mem' = [mem EXCEPT ![r.id] = Finished(r.id, @, r.ok)]
    BY <1>6 DEF Complete, Put
  <2>3. \A id \in Ids \ {r.id} : mem'[id] = mem[id]
    BY <1>0, <2>2
  <2> QED  BY SMTT(30), <1>0, <1>2, <1>6, <2>2, <2>3 DEF Reserving
<1>7. ASSUME NEW w \in Workers, Handle(w)
      PROVE  Reserving'
  <2>0. srv' = srv
    BY <1>7 DEF Handle
  <2>1. CASE RegisterWorker(w)
    BY SMTT(30), <1>4, <2>0, <2>1 DEF RegisterWorker, Answer, storeVars
  <2>2. CASE Heartbeat(w)
    <3>1. mem' = mem \/ mem' = RenewWorkerTaskLeases(mem, w)
      BY <2>2 DEF Heartbeat, Put, storeVars
    <3>2. \A id \in Ids : mem'[id].status = mem[id].status
      BY <1>0, <3>1 DEF RenewWorkerTaskLeases, Task
    <3> QED  BY <1>3, <2>0, <2>2, <3>2 DEF Heartbeat
  <2>3. CASE Claim(w)
    <3>1. CASE UNCHANGED <<storeVars, reserved>>
      BY Zenon, <1>3, <2>0, <2>3, <3>1 DEF Claim, storeVars
    <3>2. ASSUME NEW id \in Ids, issued < MaxGrants, reserved' = reserved \cup {id},
                 Put([mem EXCEPT ![id] = Granted(@, w, issued + 1)])
          PROVE  Reserving'
      <4>1. Granted(mem[id], w, issued + 1).status = "running"
        BY <1>0, <3>2, GrantedType DEF Labels
      <4>2. mem' = [mem EXCEPT ![id] = Granted(mem[id], w, issued + 1)] /\ save = "idle"
        BY <3>2 DEF Put
      <4>3. mem'[id].status = "running" /\ \A j \in Ids \ {id} : mem'[j] = mem[j]
        BY <1>0, <4>1, <4>2
      <4>4. srv = "up"
        BY Zenon, <2>3 DEF Claim, Arrived
      <4> QED  BY <1>0, <1>2, <2>0, <3>2, <4>2, <4>3, <4>4 DEF Reserving
    <3> QED  BY Zenon, <2>3, <3>1, <3>2 DEF Claim
  <2>4. CASE RenewTaskLease(w)
    <3>1. mem' = mem \/ mem' = [mem EXCEPT ![req[w].id].lease = "live"]
      BY <2>4 DEF RenewTaskLease, Put, storeVars
    <3>2. \A id \in Ids : mem'[id].status = mem[id].status
      BY <1>0, <3>1 DEF Task
    <3> QED  BY <1>3, <2>0, <2>4, <3>2 DEF RenewTaskLease
  <2>5. CASE CompleteTask(w)
    <3>1. CASE UNCHANGED storeVars
      BY <1>3, <2>0, <2>5, <3>1 DEF CompleteTask, storeVars
    <3>2. CASE /\ Complete(w, req[w])
               /\ Serve(w, "complete", req[w].id, req[w].token)
      BY Zenon, <1>6, <2>0, <2>5, <3>2 DEF CompleteTask, Arrived, Serve
    <3> QED  BY Zenon, <2>5, <3>1, <3>2 DEF CompleteTask
  <2> QED  BY <1>7, <2>1, <2>2, <2>3, <2>4, <2>5 DEF Handle
<1>8. ASSUME NEW w \in Workers, NoServer(w) \/ WorkerLapses(w) \/ Vanishes(w)
      PROVE  Reserving'
  BY Zenon, <1>4, <1>8 DEF NoServer, WorkerLapses, Vanishes, storeVars, serverVars
<1>9. ASSUME NEW w \in Workers, CompleteLate(w), srv' = srv
      PROVE  Reserving'
  <2>1. late[w].kind = "complete"
    BY Zenon, <1>9 DEF CompleteLate, IInv, Belated
  <2> QED  BY <1>6, <1>9, <2>1 DEF CompleteLate
<1>10. ASSUME NEW id \in Ids, Other(id)
       PROVE  Reserving'
  <2>0. srv = "up" /\ srv' = srv
    BY <1>10 DEF Other
  <2>1. CASE Submit(id)
    <3>1. save = "idle" /\ (mem' = mem \/ mem' = [mem EXCEPT ![id] = NewTask])
      BY <2>1 DEF Submit, Put, Create
    <3>2. mem[id].status = "absent"
      BY <2>1 DEF Submit, Exists
    <3>3. faults' = 0 => \A j \in reserved : mem'[j].status = "running"
      BY <1>0, <1>2, <3>1, <3>2
    <3> QED  BY Zenon, <2>0, <2>1, <3>3 DEF Submit, Reserving
  <2>2. CASE Reap(id)
    <3>1. /\ save = "idle" /\ mem' = [mem EXCEPT ![id] = Requeued(mem[id])]
          /\ reserved' = reserved \ {id}
      BY <2>2 DEF Reap, Put
    <3>2. faults' = 0 => \A j \in reserved' : mem'[j].status = "running"
      BY <1>0, <1>2, <3>1
    <3> QED  BY <2>0, <3>2 DEF Reserving
  <2> QED  BY <1>10, <2>1, <2>2 DEF Other
<1>11. ASSUME NEW id \in Ids, LeaseLapses(id) \/ BecomesDue(id)
       PROVE  Reserving'
  <2>1. \/ mem' = [mem EXCEPT ![id].lease = "lapsed"]
        \/ mem' = [mem EXCEPT ![id].due = TRUE]
    BY <1>11 DEF LeaseLapses, BecomesDue
  <2>2. \A j \in Ids : mem'[j].status = mem[j].status
    BY <1>0, <2>1 DEF Task
  <2> QED  BY <1>3, <1>11, <2>2 DEF LeaseLapses, BecomesDue, serverVars
<1>12. CASE SaveStep /\ UNCHANGED <<serverVars, clientVars, history>>
  <2>1. save' # "idle"
    <3>1. CASE Replace
      <4>1. PICK o \in ReplaceStep(dir, save) : save' = o.pc
        BY <3>1 DEF Replace
      <4>2. save \in ReplacePcs
        BY <3>1 DEF Replace
      <4> QED  BY <4>1, <4>2, CallOutcomes DEF ReplacePcs
    <3> QED  BY ZenonT(60), <1>12, <3>1 DEF SaveStep, WriteTmp
  <2> QED  BY <1>3, <1>12, <2>1 DEF SaveStep, serverVars
<1>13. CASE Returned
  <2>1. srv' = "up" /\ mem' = mem
    BY <1>13 DEF Returned, StoreReturns
  <2>2. faults' = 0 => save = "saved"
    BY <1>0, <1>13, FaultsStay DEF Returned, StoreReturns, Results, IInv, Smooth
  <2>3. faults' = 0 => \A id \in reserved' : mem[id].status = "running"
    <3>1. CASE serving.kind = "complete"
      BY <1>1, <1>13, <2>2, <3>1 DEF Returned, Released
    <3>2. CASE serving.kind # "complete"
      BY <1>1, <1>13, <3>2 DEF Returned
    <3> QED  BY <3>1, <3>2
  <2> QED  BY <2>1, <2>3 DEF Reserving
<1>14. CASE Crash
  BY <1>14 DEF Crash, Reserving
<1>15. CASE Restart
  <2>1. reserved' = {}
    BY <1>0, <1>15 DEF Restart, Reserving
  <2> QED  BY SMTT(30), <2>1 DEF Reserving
<1> QED  BY Zenon, <1>5, <1>7, <1>8, <1>9, <1>10, <1>11, <1>12, <1>13, <1>14, <1>15
         DEF Next, Save, Late

-----------------------------------------------------------------------------
(* Conversations.                                                          *)

\* More tokens, or an answer that hands out none, leave a conversation in shape.
LEMMA ShapeKept ==
    ASSUME NEW c \in ClientStates, NEW r \in Requests, NEW top \in Nat, Shape(c, r, top)
    PROVE  /\ Shape(c, r, top + 1)
           /\ \A a \in {"ok", "sent", "empty", "refused"} :
                  r.answer = "sent" /\ (r.kind = "claim" => a # "ok") =>
                      Shape(c, [r EXCEPT !.answer = a], top)
<1>1. Shape(c, r, top + 1)
  <2>1. \A k \in 1..top : k \in 1..(top + 1)
    OBVIOUS
  <2> QED  BY <2>1 DEF Shape
<1>2. ASSUME NEW a \in {"ok", "sent", "empty", "refused"}, r.answer = "sent",
             r.kind = "claim" => a # "ok"
      PROVE  Shape(c, [r EXCEPT !.answer = a], top)
  <2> DEFINE q == [r EXCEPT !.answer = a]
  <2>1. /\ q.kind = r.kind /\ q.id = r.id /\ q.token = r.token /\ q.ok = r.ok
        /\ q.answer = a
    BY Zenon DEF Requests
  <2>2. c.pc \notin Silent
    BY <1>2 DEF Shape, NoReq
  <2> HIDE DEF q
  <2>3. Shape(c, q, top)
    BY Zenon, <1>2, <2>1, <2>2 DEF Shape
  <2> QED  BY <2>3 DEF q
<1> QED  BY SMTT(30), <1>1, <1>2

\* Nobody leaves a request behind that is answered later.
LEMMA CallingStep ==
    ASSUME IInv, Next
    PROVE  Calling'
<1>0. /\ TypeOK /\ Conduct /\ Calling /\ serving \in Servings
      /\ req \in [Workers -> Requests] /\ issued \in Nat /\ NoWorker \notin Workers
  BY WorkerAssumption DEF IInv, TypeOK
<1>1. ASSUME UNCHANGED <<serving, srv, issued>>,
             serving.from \in Workers => req'[serving.from] = req[serving.from]
      PROVE  Calling'
  BY Zenon, <1>0, <1>1 DEF Calling
<1>2. ASSUME serving'.from = NoWorker, serving'.kind # "claim",
             serving'.kind \in {"submit", "complete"} => serving'.id \in Ids
      PROVE  Calling'
  BY <1>0, <1>2 DEF Calling
<1>3. ASSUME NEW w \in Workers, Client(w)
      PROVE  Calling'
  <2>1. CASE Converse(w) /\ UNCHANGED <<serverVars, history>>
    <3>1. PICK c \in ClientStates, r \in Requests : Goes(w, c, r) /\ req[w].answer # "sent"
      BY <1>0, <2>1, Conversing
    <3>2. serving.from # w
      BY <1>0, <3>1 DEF Calling
    <3> QED  BY ZenonT(60), <1>0, <1>1, <2>1, <3>1, <3>2 DEF Goes, serverVars, history
  <2>2. CASE HandlerReturns(w) /\ UNCHANGED <<serverVars, req, issued>>
    BY Zenon, <1>1, <2>2 DEF serverVars
  <2>3. CASE (RenewBroken(w) \/ WorkerDies(w)) /\ UNCHANGED <<srv, history>>
    <3>1. /\ serving'.kind = serving.kind /\ serving'.id = serving.id
          /\ serving'.token = serving.token
          /\ serving'.from = IF serving.from = w THEN NoWorker ELSE serving.from
          /\ req' = [req EXCEPT ![w] = NoReq] /\ issued' = issued
      BY <1>0, <2>3, Leaving DEF history
    <3> QED  BY Zenon, <1>0, <2>3, <3>1 DEF Calling
  <2> QED  BY <1>3, <2>1, <2>2, <2>3 DEF Client, Converse
<1>4. ASSUME NEW w \in Workers, Handle(w)
      PROVE  Calling'
  <2>1. /\ srv = "up" /\ srv' = srv /\ serving.from # w /\ req[w].answer = "sent"
    BY <1>0, <1>4, Handling
  <2>2. CASE /\ UNCHANGED <<serving, issued>>
             /\ \E a \in {"ok", "empty", "refused"} : req' = [req EXCEPT ![w].answer = a]
    BY Zenon, <1>0, <1>1, <2>1, <2>2
  <2>3. CASE /\ req' = req /\ serving'.from = w /\ serving'.kind = req[w].kind
             /\ serving'.kind \in {"heartbeat", "renew", "complete", "claim"}
             /\ serving'.kind = "complete" => serving'.id = req[w].id
             /\ serving'.kind = "claim" =>
                    /\ issued' = issued + 1
                    /\ serving'.token = issued + 1 /\ serving'.id \in Ids
    <3>1. req[w].kind = "complete" => req[w].id \in Ids
      BY CompletionTypes
    <3>2. serving'.kind \in {"submit", "claim", "complete"} => serving'.id \in Ids
      BY Zenon, <2>3, <3>1
    <3>3. serving'.kind = "claim" => serving'.token \in 1..issued'
      BY <1>0, <2>3
    <3> QED  BY Zenon, <2>1, <2>3, <3>2, <3>3 DEF Calling
  <2> QED  BY <1>0, <1>4, <2>2, <2>3, Handling
<1>5. ASSUME NEW w \in Workers, NoServer(w)
      PROVE  Calling'
  <2>1. serving.from \notin Workers
    BY Zenon, <1>0, <1>5 DEF NoServer, Calling
  <2> QED  BY <1>1, <1>5, <2>1 DEF NoServer, serverVars, history
<1>6. ASSUME NEW w \in Workers, WorkerLapses(w) \/ Vanishes(w)
      PROVE  Calling'
  BY Zenon, <1>1, <1>6 DEF WorkerLapses, Vanishes, serverVars, clientVars, history
<1>7. ASSUME NEW w \in Workers, CompleteLate(w)
      PROVE  Calling'
  <2>1. late[w].kind = "complete"
    BY <1>7 DEF CompleteLate, IInv, Belated
  <2>2. late[w].id \in Ids
    BY <2>1, CompletionTypes
  <2> QED  BY Zenon, <1>2, <1>7, <2>2 DEF CompleteLate
<1>8. ASSUME NEW id \in Ids, Other(id)
      PROVE  Calling'
  <2>1. PICK kind \in {"submit", "reap"} : ServeOther(kind, id)
    BY <1>8 DEF Other, Submit, Reap
  <2>2. serving'.from = NoWorker /\ serving'.kind = kind /\ serving'.id = id
    BY <2>1 DEF ServeOther, NoServing
  <2> QED  BY <1>2, <2>2
<1>9. ASSUME NEW id \in Ids, LeaseLapses(id) \/ BecomesDue(id)
      PROVE  Calling'
  BY <1>1, <1>9 DEF LeaseLapses, BecomesDue, serverVars, clientVars, history
<1>10. CASE SaveStep /\ UNCHANGED <<serverVars, clientVars, history>>
  BY <1>1, <1>10 DEF serverVars, clientVars, history
<1>11. CASE Returned \/ Crash
  <2>1. serving' = NoServing
    BY <1>11 DEF Returned, Crash
  <2> QED  BY <1>2, <2>1 DEF NoServing
<1>12. CASE Restart
  <2>1. \/ UNCHANGED <<serving, req, issued>> /\ srv' = "up"
        \/ serving' = [NoServing EXCEPT !.kind = "recover", !.id = NoId]
    BY <1>12 DEF Restart, ServeOther, clientVars
  <2>2. CASE UNCHANGED <<serving, req, issued>> /\ srv' = "up"
    BY <1>0, <2>2 DEF Calling
  <2>3. CASE serving' = [NoServing EXCEPT !.kind = "recover", !.id = NoId]
    BY Zenon, <1>2, <2>3 DEF NoServing
  <2> QED  BY <2>1, <2>2, <2>3
<1> QED  BY Zenon, <1>3, <1>4, <1>5, <1>6, <1>7, <1>8, <1>9, <1>10, <1>11, <1>12
         DEF Next, Save, Late

\* Clients keep to the protocol.
LEMMA ConductStep ==
    ASSUME IInv, Next
    PROVE  Conduct'
<1>0. /\ TypeOK /\ Conduct /\ Calling /\ issued \in Nat
      /\ req \in [Workers -> Requests] /\ client \in [Workers -> ClientStates]
  BY DEF IInv, TypeOK
<1>1. ASSUME UNCHANGED <<client, req, issued>>
      PROVE  Conduct'
  BY <1>0, <1>1 DEF Conduct
<1>2. ASSUME NEW w \in Workers, NEW c, NEW r, Shape(c, r, issued), issued' = issued,
             client' = [client EXCEPT ![w] = c], req' = [req EXCEPT ![w] = r]
      PROVE  Conduct'
  BY <1>0, <1>2 DEF Conduct
<1>3. ASSUME NEW w \in Workers, NEW a \in {"ok", "sent", "empty", "refused"},
             req[w].answer = "sent", req[w].kind = "claim" => a # "ok",
             req' = [req EXCEPT ![w].answer = a], UNCHANGED <<client, issued>>
      PROVE  Conduct'
  <2>1. Shape(client[w], [req[w] EXCEPT !.answer = a], issued)
    BY Zenon, <1>0, <1>3, ShapeKept DEF Conduct
  <2> QED  BY <1>0, <1>3, <2>1 DEF Conduct
<1>4. ASSUME NEW w \in Workers, Client(w)
      PROVE  Conduct'
  <2>1. CASE Converse(w) /\ UNCHANGED history
    <3>1. PICK c \in ClientStates, r \in Requests : Goes(w, c, r) /\ Shape(c, r, issued)
      BY <1>0, <2>1, Conversing
    <3> QED  BY Zenon, <1>2, <2>1, <3>1 DEF Goes, history
  <2>2. CASE HandlerReturns(w) /\ UNCHANGED <<req, issued>>
    <3>1. PICK x \in Outcomes : client' = [client EXCEPT ![w].run = x]
      BY Zenon, <2>2 DEF HandlerReturns
    <3> DEFINE c == [client[w] EXCEPT !.run = x]
    <3>2. /\ c.pc = client[w].pc /\ c.id = client[w].id /\ c.token = client[w].token
          /\ c.run = x
      BY <1>0 DEF ClientStates
    <3>3. client' = [client EXCEPT ![w] = c]
      BY <3>1
    <3> HIDE DEF c
    <3>4. client[w].run = "busy" /\ Shape(client[w], req[w], issued) /\ x # "none"
      BY Zenon, <1>0, <2>2 DEF HandlerReturns, Conduct, Outcomes
    <3>5. Shape(c, req[w], issued)
      BY Zenon, <3>2, <3>4 DEF Shape
    <3>6. req' = [req EXCEPT ![w] = req[w]]
      BY <1>0, <2>2
    <3> QED  BY Zenon, <1>2, <2>2, <3>3, <3>5, <3>6
  <2>3. CASE (RenewBroken(w) \/ WorkerDies(w)) /\ UNCHANGED history
    <3>1. PICK c \in ClientStates :
             /\ client' = [client EXCEPT ![w] = c] /\ req' = [req EXCEPT ![w] = NoReq]
             /\ Shape(c, NoReq, issued)
      BY Zenon, <1>0, <2>3, Leaving
    <3> QED  BY Zenon, <1>2, <2>3, <3>1 DEF history
  <2> QED  BY <1>4, <2>1, <2>2, <2>3 DEF Client, Converse
<1>5. ASSUME NEW w \in Workers, Handle(w)
      PROVE  Conduct'
  <2>1. client' = client /\ req[w].answer = "sent"
    BY <1>0, <1>5, Handling
  <2>2. ASSUME NEW a \in {"ok", "empty", "refused"}, issued' = issued,
               req' = [req EXCEPT ![w].answer = a], req[w].kind = "claim" => a # "ok"
        PROVE  Conduct'
    BY Zenon, <1>3, <2>1, <2>2
  <2>3. CASE req' = req /\ issued' = issued
    BY <1>1, <2>1, <2>3
  <2>4. CASE req' = req /\ issued' = issued + 1
    BY Zenon, <1>0, <2>1, <2>4, ShapeKept DEF Conduct
  <2> QED  BY <1>0, <1>5, <2>2, <2>3, <2>4, Handling
<1>6. ASSUME NEW w \in Workers, NoServer(w)
      PROVE  Conduct'
  BY Zenon, <1>3, <1>6 DEF NoServer, history
<1>7. ASSUME NEW w \in Workers, WorkerLapses(w) \/ Late(w)
      PROVE  Conduct'
  BY Zenon, <1>1, <1>7 DEF WorkerLapses, Late, Vanishes, CompleteLate, clientVars, history
<1>8. ASSUME NEW id \in Ids, Other(id) \/ LeaseLapses(id) \/ BecomesDue(id)
      PROVE  Conduct'
  BY <1>1, <1>8 DEF Other, LeaseLapses, BecomesDue, clientVars, history
<1>9. CASE SaveStep /\ UNCHANGED <<serverVars, clientVars, history>>
  BY <1>1, <1>9 DEF clientVars, history
<1>10. CASE Returned
  <2>1. UNCHANGED <<client, issued>>
    BY <1>0, <1>10, Returning
  <2>2. CASE req' = req
    BY <1>1, <2>1, <2>2
  <2>3. ASSUME serving.from \in Workers, NEW a \in {"ok", "sent", "refused"},
               req' = [req EXCEPT ![serving.from].answer = a],
               serving.kind = "claim" => a # "ok"
        PROVE  Conduct'
    BY Zenon, <1>0, <1>3, <2>1, <2>3 DEF Calling
  <2>4. CASE /\ serving.from \in Workers /\ serving.kind = "claim"
             /\ req' = [req EXCEPT ![serving.from].answer = "ok",
                                   ![serving.from].id = serving.id,
                                   ![serving.from].token = serving.token]
    <3> DEFINE w == serving.from
               r == [req[w] EXCEPT !.answer = "ok", !.id = serving.id, !.token = serving.token]
    <3>1. /\ Shape(client[w], req[w], issued) /\ req[w].kind = "claim"
          /\ serving.id \in Ids /\ serving.token \in 1..issued
      BY <1>0, <2>4 DEF Conduct, Calling
    <3>2. r.kind = "claim" /\ r.id = serving.id /\ r.token = serving.token
      BY <1>0, <2>4, <3>1 DEF Requests
    <3>3. req' = [req EXCEPT ![w] = r]
      BY Zenon, <1>0, <2>4
    <3> HIDE DEF r
    <3>4. client[w].pc = "claim"
      <4>1. req[w] # NoReq
        BY SMTT(30), <3>1 DEF NoReq
      <4> QED  BY Zenon, <3>1, <4>1 DEF Shape
    <3>5. Shape(client[w], r, issued)
      BY Zenon, <3>1, <3>2, <3>4 DEF Shape, Silent, Working
    <3>6. client' = [client EXCEPT ![w] = client[w]]
      BY <1>0, <2>1, <2>4
    <3> QED  BY Zenon, <1>2, <2>1, <2>4, <3>3, <3>5, <3>6
  <2> QED  BY Zenon, <1>0, <1>10, <2>2, <2>3, <2>4, Returning
<1>11. CASE Crash
  <2> SUFFICES ASSUME NEW w \in Workers
               PROVE  Shape(client[w], req'[w], issued)
    BY <1>11 DEF Conduct, Crash
  <2>1. Shape(client[w], req[w], issued)
    BY <1>0 DEF Conduct
  <2>2. CASE req[w].answer = "sent"
    <3>1. req'[w] = [req[w] EXCEPT !.answer = "refused"]
      BY <1>11, <2>2 DEF Crash
    <3>2. client[w] \in ClientStates /\ req[w] \in Requests
      BY <1>0
    <3>3. Shape(client[w], [req[w] EXCEPT !.answer = "refused"], issued)
      BY Zenon, <1>0, <2>1, <2>2, <3>2, ShapeKept
    <3> QED  BY <3>1, <3>3
  <2>3. CASE req[w].answer # "sent"
    BY ZenonT(60), <1>11, <2>1, <2>3 DEF Crash
  <2> QED  BY <2>2, <2>3
<1>12. CASE Restart
  BY Zenon, <1>1, <1>12 DEF Restart, clientVars
<1> QED  BY Zenon, <1>4, <1>5, <1>6, <1>7, <1>8, <1>9, <1>10, <1>11, <1>12 DEF Next, Save

-----------------------------------------------------------------------------
(* Tokens.                                                                 *)

\* A worker that left a completion behind gets another lease.
LEMMA BelatedStep ==
    ASSUME IInv, Next, NEW v \in Workers
    PROVE  Belated(v)'
<1>0. /\ TypeOK /\ Conduct /\ Calling /\ Belated(v) /\ issued \in Nat /\ serving \in Servings
      /\ req \in [Workers -> Requests] /\ client \in [Workers -> ClientStates]
      /\ late \in [Workers -> Requests] /\ NoWorker \notin Workers
  BY WorkerAssumption DEF IInv, TypeOK
<1>1. ASSUME late'[v] = late[v], issued' = issued \/ issued' = issued + 1,
             client'[v].token \in {0, client[v].token, req[v].token},
             \/ req'[v].token \in {0, client[v].token, req[v].token}
             \/ serving.from = v /\ req'[v].token = serving.token,
             serving'.from = v => \/ serving.from = v /\ serving'.token = serving.token
                                  \/ serving'.token \in {0, req[v].token, issued + 1}
      PROVE  Belated(v)'
  <2>1. CASE late[v] = NoReq
    BY Zenon, <1>1, <2>1 DEF Belated
  <2>2. CASE late[v] # NoReq
    <3>1. /\ late[v].kind = "complete" /\ late[v].id \in Ids /\ late[v].token \in 1..issued
          /\ late[v].token \notin {client[v].token, req[v].token}
          /\ (serving.from = v => late[v].token # serving.token)
      BY ZenonT(60), <1>0, <2>2 DEF Belated
    <3>2. late[v].token \in 1..issued' /\ late[v].token # 0 /\ late[v].token # issued + 1
      BY Zenon, <1>0, <1>1, <3>1, TokensGrow
    <3>3. late[v].token \notin {client'[v].token, req'[v].token}
      BY Zenon, <1>1, <3>1, <3>2
    <3>4. serving'.from = v => late[v].token # serving'.token
      BY Zenon, <1>1, <3>1, <3>2
    <3> QED BY Zenon, <1>1, <3>1, <3>2, <3>3, <3>4 DEF Belated
  <2> QED BY <2>1, <2>2
<1>2. ASSUME late'[v] = late[v], UNCHANGED <<client, req, issued>>,
             serving' = serving \/ serving'.from = NoWorker
      PROVE  Belated(v)'
  BY Zenon, <1>0, <1>1, <1>2
<1>3. ASSUME NEW w \in Workers, Client(w)
      PROVE  Belated(v)'
  <2>1. CASE Converse(w) /\ UNCHANGED <<serverVars, late, history>>
    <3>1. PICK c \in ClientStates, r \in Requests :
             /\ Goes(w, c, r)
             /\ c.token \in {0, client[w].token, req[w].token}
             /\ r.token \in {0, client[w].token, req[w].token}
      BY Zenon, <1>0, <2>1, Conversing
    <3>2. /\ client'[v] = IF v = w THEN c ELSE client[v]
          /\ req'[v] = IF v = w THEN r ELSE req[v]
      BY <1>0, <3>1 DEF Goes
    <3> QED  BY Zenon, <1>0, <1>1, <2>1, <3>1, <3>2 DEF serverVars, history
  <2>2. CASE HandlerReturns(w) /\ UNCHANGED <<serverVars, req, late, issued>>
    <3>1. client'[v].token = client[v].token
      BY <1>0, <2>2 DEF HandlerReturns, ClientStates
    <3> QED  BY Zenon, <1>0, <1>1, <2>2, <3>1 DEF serverVars
  <2>3. CASE (RenewBroken(w) \/ WorkerDies(w)) /\ UNCHANGED history
    <3>1. PICK c \in ClientStates :
             /\ client' = [client EXCEPT ![w] = c] /\ req' = [req EXCEPT ![w] = NoReq]
             /\ c = Off \/ (client[w].pc # "complete" /\ c.token = client[w].token)
      BY Zenon, <1>0, <2>3, Leaving
    <3>2. /\ client'[v] = IF v = w THEN c ELSE client[v]
          /\ req'[v] = IF v = w THEN NoReq ELSE req[v]
          /\ issued' = issued /\ Off.token = 0 /\ NoReq.token = 0
      BY Zenon, <1>0, <2>3, <3>1 DEF history, Off, NoReq
    <3>3. /\ serving'.token = serving.token
          /\ serving'.from = IF serving.from = w THEN NoWorker ELSE serving.from
      BY Zenon, <1>0, <2>3, Leaving
    <3>4. CASE late'[v] = late[v]
      BY ZenonT(60), <1>0, <1>1, <3>1, <3>2, <3>3, <3>4
    <3>5. CASE /\ late' = [late EXCEPT ![w] = req[w]] /\ v = w
               /\ client[w].pc = "complete" /\ req[w].kind = "complete"
               /\ serving.from # w
      <4>1. late'[v] = req[v] /\ req[v].id \in Ids /\ req[v].token \in 1..issued
        BY Zenon, <1>0, <3>5, CompletionTypes
      <4>2. client'[v].token = 0 /\ req'[v].token = 0
        BY Zenon, <3>1, <3>2, <3>5
      <4>3. serving'.from # v
        BY Zenon, <1>0, <3>3, <3>5
      <4> QED  BY <1>0, <3>2, <3>5, <4>1, <4>2, <4>3 DEF Belated
    <3>6. \/ late' = late
          \/ /\ late' = [late EXCEPT ![w] = req[w]] /\ client[w].pc = "complete"
             /\ req[w].kind = "complete" /\ serving.from # w
      BY <1>0, <2>3, Leaving
    <3> QED  BY Zenon, <1>0, <3>4, <3>5, <3>6
  <2> QED  BY <1>3, <2>1, <2>2, <2>3 DEF Client, Converse
<1>4. ASSUME NEW w \in Workers, Handle(w)
      PROVE  Belated(v)'
  <2>1. client' = client /\ late' = late
    BY <1>0, <1>4, Handling
  <2>2. req'[v].token = req[v].token
    <3>1. req' = req \/ \E a \in {"ok", "empty", "refused"} :
                            req' = [req EXCEPT ![w].answer = a]
      BY <1>0, <1>4, Handling
    <3>2. ASSUME NEW a, req' = [req EXCEPT ![w].answer = a]
          PROVE  req'[v].token = req[v].token
      BY <1>0, <3>2 DEF Requests
    <3> QED  BY <3>1, <3>2
  <2>3. CASE UNCHANGED <<serving, issued>>
    BY Zenon, <1>1, <2>1, <2>2, <2>3
  <2>4. CASE serving'.from = w /\ serving'.token \in {0, req[w].token} /\ issued' = issued
    BY Zenon, <1>1, <2>1, <2>2, <2>4
  <2>5. CASE serving'.from = w /\ serving'.token = issued + 1 /\ issued' = issued + 1
    BY Zenon, <1>1, <2>1, <2>2, <2>5
  <2> QED  BY <1>0, <1>4, <2>3, <2>4, <2>5, Handling
<1>5. ASSUME NEW w \in Workers, NoServer(w)
      PROVE  Belated(v)'
  <2>1. req'[v].token = req[v].token
    BY <1>0, <1>5 DEF NoServer, Requests
  <2> QED  BY <1>1, <1>5, <2>1 DEF NoServer, serverVars, history
<1>6. ASSUME NEW w \in Workers, WorkerLapses(w)
      PROVE  Belated(v)'
  BY <1>2, <1>6 DEF WorkerLapses, clientVars, history
<1>7. ASSUME NEW w \in Workers, Late(w)
      PROVE  Belated(v)'
  <2>1. CASE w = v
    <3>1. late'[v] = NoReq
      BY Zenon, <1>0, <1>7, <2>1 DEF Late, Vanishes, CompleteLate
    <3> QED  BY <3>1 DEF Belated
  <2>2. CASE w # v
    <3>1. late'[v] = late[v] /\ UNCHANGED <<client, req, issued>>
      BY Zenon, <1>0, <1>7, <2>2 DEF Late, Vanishes, CompleteLate, history
    <3>2. serving' = serving \/ serving'.from = NoWorker
      BY <1>7 DEF Late, Vanishes, CompleteLate, serverVars
    <3> QED  BY <1>2, <3>1, <3>2
  <2> QED  BY Zenon, <2>1, <2>2
<1>8. ASSUME NEW id \in Ids, Other(id)
      PROVE  Belated(v)'
  <2>1. serving'.from = NoWorker
    BY Zenon, <1>8 DEF Other, Submit, Reap, ServeOther, NoServing
  <2> QED  BY <1>2, <1>8, <2>1 DEF Other, clientVars
<1>9. ASSUME NEW id \in Ids, LeaseLapses(id) \/ BecomesDue(id)
      PROVE  Belated(v)'
  BY <1>2, <1>9 DEF LeaseLapses, BecomesDue, serverVars, clientVars, history
<1>10. CASE SaveStep /\ UNCHANGED <<serverVars, clientVars, history>>
  BY <1>2, <1>10 DEF serverVars, clientVars, history
<1>11. CASE Returned
  <2>1. serving'.from = NoWorker /\ UNCHANGED <<client, late, issued>>
    BY <1>0, <1>11, Returning DEF NoServing
  <2>2. \/ req'[v].token = req[v].token
        \/ serving.from = v /\ req'[v].token = serving.token
    <3>1. CASE req' = req
      BY <3>1
    <3>2. ASSUME serving.from \in Workers, NEW a,
                 req' = [req EXCEPT ![serving.from].answer = a]
          PROVE  req'[v].token = req[v].token
      BY <1>0, <3>2 DEF Requests
    <3>3. CASE /\ serving.from \in Workers
               /\ req' = [req EXCEPT ![serving.from].answer = "ok",
                                     ![serving.from].id = serving.id,
                                     ![serving.from].token = serving.token]
      BY <1>0, <3>3 DEF Requests
    <3> QED  BY Zenon, <1>0, <1>11, <3>1, <3>2, <3>3, Returning
  <2> QED  BY Zenon, <1>0, <1>1, <2>1, <2>2
<1>12. CASE Crash
  <2>1. late'[v] = NoReq
    BY <1>12 DEF Crash
  <2> QED  BY <2>1 DEF Belated
<1>13. CASE Restart
  <2>1. serving' = serving \/ serving'.from = NoWorker
    BY Zenon, <1>13 DEF Restart, ServeOther, NoServing
  <2> QED  BY Zenon, <1>2, <1>13, <2>1 DEF Restart, clientVars
<1> QED  BY Zenon, <1>3, <1>4, <1>5, <1>6, <1>7, <1>8, <1>9, <1>10, <1>11, <1>12, <1>13
         DEF Next, Save

\* A token comes to a worker by its claim only.
LEMMA UsesStep ==
    ASSUME IInv, Next
    PROVE  \E u : \A v \in Workers, k \in 1..MaxGrants :
               Uses(v, k)' => \/ Uses(v, k)
                              \/ v = u /\ k = issued + 1 /\ issued' = issued + 1
<1> DEFINE Carried(u) == \A v \in Workers, k \in 1..MaxGrants :
               Uses(v, k)' => \/ Uses(v, k)
                              \/ v = u /\ k = issued + 1 /\ issued' = issued + 1
<1> SUFFICES \E u : Carried(u)
  OBVIOUS
<1>0. /\ TypeOK /\ Conduct /\ Calling /\ issued \in Nat /\ serving \in Servings
      /\ req \in [Workers -> Requests] /\ client \in [Workers -> ClientStates]
      /\ late \in [Workers -> Requests] /\ NoWorker \notin Workers
      /\ 0 \notin 1..MaxGrants /\ NoReq.token = 0
  <2>1. 0 \notin 1..MaxGrants /\ NoReq.token = 0 /\ NoWorker \notin Workers
    BY WorkerAssumption, TaskAssumption DEF NoReq
  <2>2. TypeOK /\ Conduct /\ Calling
    BY DEF IInv
  <2>3. issued \in Nat
    BY SMTT(30), <2>2, TaskAssumption DEF TypeOK
  <2> QED  BY <2>1, <2>2, <2>3 DEF TypeOK
<1>1. ASSUME \A v \in Workers :
                /\ client'[v].token \in {0, client[v].token, req[v].token}
                /\ \/ req'[v].token \in {0, client[v].token, req[v].token}
                   \/ serving.from = v /\ req'[v].token = serving.token
                /\ late'[v].token \in {0, late[v].token, req[v].token}
                /\ serving'.from = v =>
                      \/ serving.from = v /\ serving'.token = serving.token
                      \/ serving'.token \in {0, req[v].token}
      PROVE  Carried(0)
  <2> SUFFICES ASSUME NEW v \in Workers, NEW k \in 1..MaxGrants, Uses(v, k)'
               PROVE  Uses(v, k)
    OBVIOUS
  <2>1. k # 0
    BY Zenon, <1>0
  <2>2. CASE k \in {client'[v].token, req'[v].token, late'[v].token}
    BY Zenon, <1>1, <2>1, <2>2 DEF Uses
  <2>3. CASE serving'.from = v /\ serving'.token = k
    BY <1>1, <2>1, <2>3 DEF Uses
  <2> QED  BY <2>2, <2>3 DEF Uses
<1>2. ASSUME UNCHANGED <<client, req>>, serving' = serving \/ serving'.from = NoWorker,
             \A v \in Workers : late'[v] \in {late[v], NoReq}
      PROVE  Carried(0)
  BY Zenon, <1>0, <1>1, <1>2
<1>3. ASSUME NEW w \in Workers, Client(w)
      PROVE  Carried(0)
  <2>1. CASE Converse(w) /\ UNCHANGED <<serverVars, late, history>>
    <3>1. PICK c \in ClientStates, r \in Requests :
             /\ Goes(w, c, r)
             /\ c.token \in {0, client[w].token, req[w].token}
             /\ r.token \in {0, client[w].token, req[w].token}
      BY Zenon, <1>0, <2>1, Conversing
    <3>2. \A v \in Workers : /\ client'[v] = IF v = w THEN c ELSE client[v]
                             /\ req'[v] = IF v = w THEN r ELSE req[v]
      BY SMTT(30), <1>0, <3>1 DEF Goes
    <3> QED  BY Zenon, <1>0, <1>1, <2>1, <3>1, <3>2 DEF serverVars
  <2>2. CASE HandlerReturns(w) /\ UNCHANGED <<serverVars, req, late, issued>>
    <3>1. \A v \in Workers : client'[v].token = client[v].token
      BY <1>0, <2>2 DEF HandlerReturns, ClientStates
    <3> QED  BY Zenon, <1>0, <1>1, <2>2, <3>1 DEF serverVars
  <2>3. CASE RenewBroken(w) \/ WorkerDies(w)
    <3>1. PICK c \in ClientStates :
             /\ client' = [client EXCEPT ![w] = c] /\ req' = [req EXCEPT ![w] = NoReq]
             /\ c = Off \/ c.token = client[w].token
      BY Zenon, <1>0, <2>3, Leaving
    <3>2. \A v \in Workers : /\ client'[v].token \in {0, client[v].token}
                             /\ req'[v].token \in {0, req[v].token}
      BY SMTT(30), <1>0, <3>1 DEF Off
    <3>3. late' = late \/ late' = [late EXCEPT ![w] = req[w]]
      BY <1>0, <2>3, Leaving
    <3>4. \A v \in Workers : late'[v].token \in {late[v].token, req[v].token}
      BY Zenon, <1>0, <3>3
    <3>5. /\ serving'.token = serving.token
          /\ serving'.from = IF serving.from = w THEN NoWorker ELSE serving.from
      BY Zenon, <1>0, <2>3, Leaving
    <3>6. \A v \in Workers : serving'.from = v => serving.from = v
      BY <1>0, <3>5
    <3> QED  BY Zenon, <1>1, <3>2, <3>4, <3>5, <3>6
  <2> QED  BY <1>3, <2>1, <2>2, <2>3 DEF Client, Converse
<1>4. ASSUME NEW w \in Workers, Handle(w)
      PROVE  Carried(w)
  <2>1. client' = client /\ late' = late
    BY <1>0, <1>4, Handling
  <2>2. \A v \in Workers : req'[v].token = req[v].token
    <3>1. req' = req \/ \E a \in {"ok", "empty", "refused"} :
                            req' = [req EXCEPT ![w].answer = a]
      BY <1>0, <1>4, Handling
    <3>2. ASSUME NEW a, req' = [req EXCEPT ![w].answer = a], NEW v \in Workers
          PROVE  req'[v].token = req[v].token
      BY <1>0, <3>2 DEF Requests
    <3> QED  BY <3>1, <3>2
  <2>3. CASE UNCHANGED <<serving, issued>>
    BY Zenon, <1>0, <2>1, <2>2, <2>3 DEF Uses
  <2>4. CASE serving'.from = w /\ serving'.token \in {0, req[w].token} /\ issued' = issued
    BY Zenon, <1>0, <2>1, <2>2, <2>4 DEF Uses
  <2>5. CASE serving'.from = w /\ serving'.token = issued + 1 /\ issued' = issued + 1
    BY <1>0, <2>1, <2>2, <2>5 DEF Uses
  <2> QED  BY <1>0, <1>4, <2>3, <2>4, <2>5, Handling
<1>5. ASSUME NEW w \in Workers, NoServer(w)
      PROVE  Carried(0)
  <2>1. \A v \in Workers : req'[v].token = req[v].token
    BY <1>0, <1>5 DEF NoServer, Requests
  <2> QED  BY <1>1, <1>5, <2>1 DEF NoServer, serverVars
<1>6. ASSUME NEW w \in Workers, WorkerLapses(w)
      PROVE  Carried(0)
  BY <1>2, <1>6 DEF WorkerLapses, clientVars
<1>7. ASSUME NEW w \in Workers, Late(w)
      PROVE  Carried(0)
  <2>1. UNCHANGED <<client, req>> /\ late' = [late EXCEPT ![w] = NoReq]
    BY Zenon, <1>7 DEF Late, Vanishes, CompleteLate
  <2>2. serving' = serving \/ serving'.from = NoWorker
    BY <1>7 DEF Late, Vanishes, CompleteLate, serverVars
  <2>3. \A v \in Workers : late'[v] \in {late[v], NoReq}
    BY Zenon, <1>0, <2>1
  <2> QED  BY Zenon, <1>2, <2>1, <2>2, <2>3
<1>8. ASSUME NEW id \in Ids, Other(id)
      PROVE  Carried(0)
  <2>1. serving'.from = NoWorker
    BY Zenon, <1>8 DEF Other, Submit, Reap, ServeOther, NoServing
  <2> QED  BY <1>2, <1>8, <2>1 DEF Other, clientVars
<1>9. ASSUME NEW id \in Ids, LeaseLapses(id) \/ BecomesDue(id)
      PROVE  Carried(0)
  BY Zenon, <1>2, <1>9 DEF LeaseLapses, BecomesDue, serverVars, clientVars
<1>10. ASSUME SaveStep /\ UNCHANGED <<serverVars, clientVars, history>>
       PROVE  Carried(0)
  BY ZenonT(60), <1>2, <1>10 DEF serverVars, clientVars
<1>11. ASSUME Returned
       PROVE  Carried(0)
  <2>1. serving'.from = NoWorker /\ UNCHANGED <<client, late>>
    BY <1>0, <1>11, Returning DEF NoServing
  <2>2. \A v \in Workers : \/ req'[v].token = req[v].token
                           \/ serving.from = v /\ req'[v].token = serving.token
    <3>1. CASE req' = req
      BY <3>1
    <3>2. ASSUME serving.from \in Workers, NEW a,
                 req' = [req EXCEPT ![serving.from].answer = a], NEW v \in Workers
          PROVE  req'[v].token = req[v].token
      BY <1>0, <3>2 DEF Requests
    <3>3. CASE /\ serving.from \in Workers
               /\ req' = [req EXCEPT ![serving.from].answer = "ok",
                                     ![serving.from].id = serving.id,
                                     ![serving.from].token = serving.token]
      BY SMTT(30), <1>0, <3>3 DEF Requests
    <3> QED  BY Zenon, <1>0, <1>11, <3>1, <3>2, <3>3, Returning
  <2> QED  BY <1>0, <1>1, <2>1, <2>2
<1>12. ASSUME Crash
       PROVE  Carried(0)
  <2>1. /\ client' = client /\ serving'.from = NoWorker
        /\ \A v \in Workers : late'[v] = NoReq
    BY <1>12 DEF Crash, NoServing
  <2>2. \A v \in Workers : req'[v].token = req[v].token
    BY ZenonT(60), <1>0, <1>12 DEF Crash, Requests
  <2> QED  BY <1>0, <1>1, <2>1, <2>2
<1>13. ASSUME Restart
       PROVE  Carried(0)
  <2>1. serving' = serving \/ serving'.from = NoWorker
    BY Zenon, <1>13 DEF Restart, ServeOther, NoServing
  <2> QED  BY <1>2, <1>13, <2>1 DEF Restart, clientVars
<1> HIDE DEF Carried
<1> QED  BY Zenon, <1>3, <1>4, <1>5, <1>6, <1>7, <1>8, <1>9, <1>10, <1>11, <1>12, <1>13
         DEF Next, Save

\* Tokens are issued one by one.
LEMMA IssuedGrows ==
    ASSUME IInv, Next
    PROVE  issued \in Nat /\ (issued' = issued \/ issued' = issued + 1)
<1>0. TypeOK /\ Conduct /\ Calling /\ issued \in Nat
  BY DEF IInv, TypeOK
<1>1. ASSUME NEW w \in Workers, Handle(w)
      PROVE  issued' = issued \/ issued' = issued + 1
  BY <1>0, <1>1, Handling
<1>2. ASSUME NEW w \in Workers, Client(w) \/ NoServer(w) \/ WorkerLapses(w) \/ Late(w)
      PROVE  issued' = issued
  BY <1>2 DEF Client, NoServer, WorkerLapses, Late, Vanishes, CompleteLate, history
<1>3. ASSUME NEW id \in Ids, Other(id) \/ LeaseLapses(id) \/ BecomesDue(id)
      PROVE  issued' = issued
  BY Zenon, <1>3 DEF Other, LeaseLapses, BecomesDue, history
<1>4. ASSUME Save \/ Crash \/ Restart
      PROVE  issued' = issued
  BY <1>4 DEF Save, Returned, Crash, Restart, history
<1> QED  BY Zenon, <1>0, <1>1, <1>2, <1>3, <1>4 DEF Next

\* Two workers never get the same token.
LEMMA SeparateStep ==
    ASSUME IInv, Next
    PROVE  Separate'
<1>1. PICK u : \A v \in Workers, k \in 1..MaxGrants :
          Uses(v, k)' => \/ Uses(v, k)
                         \/ v = u /\ k = issued + 1 /\ issued' = issued + 1
  BY UsesStep
<1>2. Separate /\ issued \in Nat /\ (issued' = issued \/ issued' = issued + 1)
  BY IssuedGrows DEF IInv
<1> SUFFICES ASSUME NEW w \in Workers, NEW k \in 1..MaxGrants, Uses(w, k)'
             PROVE  k <= issued' /\ \A v \in Workers : Uses(v, k)' => v = w
  BY DEF Separate
<1>3. CASE k = issued + 1
  <2>1. \A v \in Workers : ~Uses(v, k)
    BY <1>2, <1>3 DEF Separate
  <2> QED  BY <1>1, <1>2, <1>3, <2>1
<1>4. CASE k # issued + 1
  BY <1>1, <1>2, <1>4 DEF Separate
<1> QED  BY <1>3, <1>4

-----------------------------------------------------------------------------
(* Verdicts.                                                               *)

\* What may happen to the lease of token k.
Kept(k) == grant'[k].end = grant[k].end /\ grant'[k].ran = grant[k].ran
Opened(k) == k = issued + 1 /\ grant'[k].end = "open"
Ran(k) == \E w \in Workers : /\ client[w].run = "busy" /\ client[w].token = k
                             /\ grant'[k].end = "open" /\ grant'[k].ran = client'[w].run
Judged(k) == /\ grant'[k].ran = grant[k].ran /\ grant[k].ran \in Outcomes
             /\ \/ grant'[k].end = "succeeded" /\ grant[k].ran # "err"
                \/ grant'[k].end \in {"retried", "failed"} /\ grant[k].ran = "err"

\* A completion that is accepted reports what the handler returned.
LEMMA Judging ==
    ASSUME IInv, NEW w \in Workers, NEW r \in {req[w], late[w]}, r.kind = "complete",
           ValidLease(mem[r.id], w, r.token), Complete(w, r), NEW k \in Tokens
    PROVE  Kept(k) \/ Judged(k)
<1>0. Leased /\ grant \in [Tokens -> Grants]
  BY Zenon DEF IInv, TypeOK
<1>1. r \in Requests /\ r.id \in Ids /\ r.token \in Tokens
  BY Zenon, CompletionTypes
<1>2. grant[r.token].end = "open"
  BY Zenon, <1>0, <1>1 DEF Leased, ValidLease
<1>3. grant[r.token].ran \in Outcomes /\ (r.ok <=> grant[r.token].ran # "err")
  <2>0. Truthful(w) /\ NoReq.kind # "complete"
    BY Zenon DEF IInv, NoReq
  <2>1. CASE r = req[w]
    <3>1. Shape(client[w], r, issued) /\ client[w] \in ClientStates
      BY Zenon, <2>1 DEF IInv, TypeOK, Conduct
    <3>2. client[w].pc = "complete"
      BY Zenon, <2>0, <3>1 DEF Shape
    <3>3. /\ client[w].run \notin {"none", "busy"} /\ client[w].token = r.token
          /\ r.ok <=> client[w].run # "err"
      BY Zenon, <3>1, <3>2 DEF Shape, Working
    <3>4. client[w].run \in Outcomes
      BY Zenon, <3>1, <3>3 DEF ClientStates
    <3> QED  BY Zenon, <1>2, <2>0, <3>3, <3>4 DEF Truthful
  <2>2. CASE r = late[w]
    BY Zenon, <1>2, <2>0, <2>2 DEF Truthful
  <2> QED  BY <2>1, <2>2
<1>4. grant' = [grant EXCEPT ![r.token].end = Verdict(r.id, mem[r.id], r.ok)]
  BY Zenon DEF Complete
<1>5. /\ r.ok => Verdict(r.id, mem[r.id], r.ok) = "succeeded"
      /\ ~r.ok => Verdict(r.id, mem[r.id], r.ok) \in {"retried", "failed"}
  BY Zenon DEF Verdict
<1>6. CASE k = r.token
  <2>1. /\ grant'[k].ran = grant[k].ran
        /\ grant'[k].end = Verdict(r.id, mem[r.id], r.ok)
    BY <1>0, <1>4, <1>6 DEF Grants
  <2> QED  BY Zenon, <1>3, <1>5, <1>6, <2>1 DEF Judged
<1>7. CASE k # r.token
  BY <1>0, <1>4, <1>7 DEF Kept
<1> QED  BY Zenon, <1>6, <1>7

\* A lease is opened by a claim and run by its handler while it is open; it ends by
\* a completion or expires.
LEMMA GrantStep ==
    ASSUME IInv, Next, NEW k \in Tokens
    PROVE  Kept(k) \/ Opened(k) \/ Ran(k) \/ Judged(k) \/ grant'[k].end = "expired"
<1>0. /\ grant \in [Tokens -> Grants] /\ client \in [Workers -> ClientStates]
      /\ issued \in 0..MaxGrants /\ MaxGrants \in Nat
  BY TaskAssumption DEF IInv, TypeOK
<1>1. ASSUME grant' = grant
      PROVE  Kept(k)
  BY Zenon, <1>1 DEF Kept
<1>2. ASSUME NEW w \in Workers, Client(w)
      PROVE  Kept(k) \/ Ran(k)
  <2>1. CASE HandlerReturns(w)
    <3>1. PICK x \in Outcomes :
             /\ client' = [client EXCEPT ![w].run = x]
             /\ grant' = IF grant[client[w].token].end = "open"
                         THEN [grant EXCEPT ![client[w].token].ran = x] ELSE grant
      BY Zenon, <2>1 DEF HandlerReturns
    <3>2. client[w].run = "busy" /\ client'[w].run = x
      BY <1>0, <2>1, <3>1 DEF HandlerReturns, ClientStates
    <3>3. CASE grant' = [grant EXCEPT ![client[w].token].ran = x]
               /\ grant[client[w].token].end = "open"
      <4>1. CASE k = client[w].token
        <5>1. grant'[k].end = "open" /\ grant'[k].ran = x
          BY <1>0, <3>3, <4>1 DEF Grants
        <5> QED  BY <3>2, <4>1, <5>1 DEF Ran
      <4>2. CASE k # client[w].token
        BY <1>0, <3>3, <4>2 DEF Kept
      <4> QED  BY Zenon, <4>1, <4>2
    <3> QED  BY <1>1, <3>1, <3>3
  <2>2. CASE UNCHANGED history
    BY Zenon, <1>1, <2>2 DEF history
  <2> QED  BY <1>2, <2>1, <2>2 DEF Client
<1>3. ASSUME NEW w \in Workers, Handle(w)
      PROVE  Kept(k) \/ Opened(k) \/ Judged(k)
  <2>1. CASE RegisterWorker(w) \/ Heartbeat(w) \/ RenewTaskLease(w)
    BY <1>1, <2>1 DEF RegisterWorker, Heartbeat, RenewTaskLease
  <2>2. CASE Claim(w)
    <3>1. ASSUME NEW id \in Ids, issued < MaxGrants,
                 grant' = [grant EXCEPT ![issued + 1] =
                               [NoGrant EXCEPT !.id = id, !.end = "open"]]
          PROVE  Kept(k) \/ Opened(k)
      <4>1. CASE k = issued + 1
        <5>1. grant'[k] = [NoGrant EXCEPT !.id = id, !.end = "open"]
          BY <1>0, <3>1, <4>1
        <5> QED  BY <4>1, <5>1 DEF NoGrant, Opened
      <4>2. CASE k # issued + 1
        BY <1>0, <3>1, <4>2 DEF Kept
      <4> QED  BY <4>1, <4>2
    <3> QED  BY Zenon, <1>1, <2>2, <3>1 DEF Claim
  <2>3. CASE CompleteTask(w)
    <3>1. CASE UNCHANGED <<storeVars, grant>>
      BY <1>1, <3>1
    <3>2. CASE ValidLease(mem[req[w].id], w, req[w].token) /\ Complete(w, req[w])
      BY Zenon, <2>3, <3>2, Judging DEF CompleteTask, Arrived
    <3> QED  BY Zenon, <2>3, <3>1, <3>2 DEF CompleteTask
  <2> QED  BY <1>3, <2>1, <2>2, <2>3 DEF Handle
<1>4. ASSUME NEW w \in Workers, NoServer(w) \/ WorkerLapses(w) \/ Vanishes(w)
      PROVE  Kept(k)
  BY Zenon, <1>1, <1>4 DEF NoServer, WorkerLapses, Vanishes, history
<1>5. ASSUME NEW w \in Workers, CompleteLate(w)
      PROVE  Kept(k) \/ Judged(k)
  <2>1. late[w].kind = "complete"
    BY Zenon, <1>5 DEF CompleteLate, IInv, Belated
  <2> QED  BY Zenon, <1>5, <2>1, Judging DEF CompleteLate
<1>6. ASSUME NEW id \in Ids, Other(id)
      PROVE  Kept(k) \/ grant'[k].end = "expired"
  <2>1. CASE grant' = grant
    BY <1>1, <2>1
  <2>2. CASE grant' = [grant EXCEPT ![mem[id].token] = Expired(id)]
    BY <1>0, <2>2 DEF Kept, Expired, NoGrant
  <2> QED  BY Zenon, <1>6, <2>1, <2>2 DEF Other, Submit, Reap
<1>7. ASSUME NEW id \in Ids, LeaseLapses(id) \/ BecomesDue(id)
      PROVE  Kept(k)
  BY <1>1, <1>7 DEF LeaseLapses, BecomesDue, history
<1>8. ASSUME Save
      PROVE  Kept(k)
  <2>1. CASE grant' = grant
    BY <1>1, <2>1
  <2>2. CASE grant' = [grant EXCEPT ![serving.token].acked = TRUE]
    BY <1>0, <2>2 DEF Kept, Grants
  <2> QED  BY <1>8, <2>1, <2>2 DEF Save, Returned, history
<1>9. ASSUME Crash
      PROVE  Kept(k)
  BY <1>1, <1>9 DEF Crash
<1>10. ASSUME Restart
       PROVE  Kept(k) \/ grant'[k].end = "expired"
  BY Zenon, <1>10 DEF Restart, Kept, Expired, NoGrant
<1> QED  BY Zenon, <1>2, <1>3, <1>4, <1>5, <1>6, <1>7, <1>8, <1>9, <1>10 DEF Next, Late

\* A step that judges a lease does so as the handler returned.
LEMMA VerdictStep ==
    ASSUME IInv, Next
    PROVE  VerdictIsTheHandlers'
<1> SUFFICES ASSUME NEW k \in Tokens
             PROVE  /\ grant'[k].end = "succeeded" => grant'[k].ran \in {"ok", "mute"}
                    /\ grant'[k].end \in {"retried", "failed"} => grant'[k].ran = "err"
  BY DEF VerdictIsTheHandlers
<1>1. CASE Kept(k)
  BY Zenon, <1>1 DEF Kept, IInv, VerdictIsTheHandlers
<1>2. CASE Judged(k)
  BY <1>2 DEF Judged, Outcomes
<1>3. CASE grant'[k].end \in {"open", "expired"}
  BY <1>3
<1> QED  BY Zenon, <1>1, <1>2, <1>3, GrantStep DEF Opened, Ran

\* A client knows a result from its handler, and a completion that it leaves behind
\* carries the one it knows.
LEMMA RunStep ==
    ASSUME IInv, Next, NEW v \in Workers
    PROVE  /\ client'[v].run \in Outcomes =>
                 \/ /\ client[v].run = "busy" /\ client'[v].token = client[v].token
                    /\ grant'[client[v].token].end = "open" =>
                           grant'[client[v].token].ran = client'[v].run
                 \/ /\ client'[v].token = client[v].token
                    /\ client'[v].run = client[v].run
           /\ \/ late'[v] \in {late[v], NoReq}
              \/ /\ late'[v] = req[v] /\ client[v].pc = "complete"
                 /\ grant' = grant
<1>0. /\ TypeOK /\ Conduct /\ client \in [Workers -> ClientStates]
      /\ late \in [Workers -> Requests]
  BY DEF IInv, TypeOK
<1> DEFINE R == client'[v].run \in Outcomes =>
                 \/ /\ client[v].run = "busy" /\ client'[v].token = client[v].token
                    /\ grant'[client[v].token].end = "open" =>
                           grant'[client[v].token].ran = client'[v].run
                 \/ /\ client'[v].token = client[v].token
                    /\ client'[v].run = client[v].run
           L == \/ late'[v] \in {late[v], NoReq}
                \/ /\ late'[v] = req[v] /\ client[v].pc = "complete"
                   /\ grant' = grant
<1>1. ASSUME UNCHANGED client, late' = late \/ late'[v] \in {late[v], NoReq}
      PROVE  R /\ L
  BY Zenon, <1>1
<1>2. ASSUME NEW w \in Workers, Client(w)
      PROVE  R /\ L
  <2>1. CASE Converse(w) /\ UNCHANGED late
    <3>1. PICK c \in ClientStates :
             /\ client' = [client EXCEPT ![w] = c]
             /\ c.run \in Outcomes => c.token = client[w].token /\ c.run = client[w].run
      BY SMTT(30), <1>0, <2>1, Conversing DEF Goes
    <3> QED  BY Zenon, <1>0, <2>1, <3>1
  <2>2. CASE HandlerReturns(w) /\ UNCHANGED late
    <3>1. PICK x \in Outcomes :
             /\ client' = [client EXCEPT ![w].run = x]
             /\ grant' = IF grant[client[w].token].end = "open"
                         THEN [grant EXCEPT ![client[w].token].ran = x] ELSE grant
      BY Zenon, <2>2 DEF HandlerReturns
    <3>2. client[w].run = "busy" /\ L
      BY <2>2 DEF HandlerReturns
    <3>3. CASE w = v
      <4>1. client[v].token \in Tokens
        <5>1. Shape(client[v], req[v], issued) /\ client[v].run # "none"
          BY Zenon, <1>0, <3>2, <3>3 DEF Conduct
        <5>2. client[v].token \in 1..issued
          BY Zenon, <5>1 DEF Shape
        <5>3. issued \in 0..MaxGrants /\ MaxGrants \in Nat
          BY <1>0, TaskAssumption DEF TypeOK
        <5> QED  BY <5>2, <5>3 DEF Tokens
      <4>2. client'[v].token = client[v].token /\ client'[v].run = x
        BY <1>0, <3>1, <3>3 DEF ClientStates
      <4>3. grant'[client[v].token].end = "open" => grant'[client[v].token].ran = x
        BY Zenon, <1>0, <3>1, <3>3, <4>1 DEF TypeOK, Grants
      <4> QED  BY Zenon, <3>2, <3>3, <4>2, <4>3
    <3>4. CASE w # v
      BY ZenonT(60), <1>0, <3>1, <3>2, <3>4
    <3> QED  BY Zenon, <3>3, <3>4
  <2>3. CASE (RenewBroken(w) \/ WorkerDies(w)) /\ UNCHANGED history
    <3>1. PICK c \in ClientStates :
             /\ client' = [client EXCEPT ![w] = c]
             /\ c.run \in Outcomes => c.token = client[w].token /\ c.run = client[w].run
      BY Zenon, <1>0, <2>3, Leaving
    <3>2. R
      BY Zenon, <1>0, <3>1
    <3>3. \/ late' = late
          \/ late' = [late EXCEPT ![w] = req[w]] /\ client[w].pc = "complete"
      BY Zenon, <1>0, <2>3, Leaving
    <3>4. L
      BY <1>0, <2>3, <3>3 DEF history
    <3> QED  BY <3>2, <3>4
  <2> QED  BY Zenon, <1>2, <2>1, <2>2, <2>3 DEF Client, Converse
<1>3. ASSUME NEW w \in Workers, Handle(w)
      PROVE  R /\ L
  BY Zenon, <1>0, <1>1, <1>3, Handling
<1>4. ASSUME NEW w \in Workers, NoServer(w) \/ WorkerLapses(w) \/ Late(w)
      PROVE  R /\ L
  BY Zenon, <1>0, <1>1, <1>4 DEF NoServer, WorkerLapses, Late, Vanishes, CompleteLate, clientVars
<1>5. ASSUME NEW id \in Ids, Other(id) \/ LeaseLapses(id) \/ BecomesDue(id)
      PROVE  R /\ L
  BY Zenon, <1>1, <1>5 DEF Other, LeaseLapses, BecomesDue, clientVars
<1>6. ASSUME Save \/ Crash \/ Restart
      PROVE  R /\ L
  BY Zenon, <1>1, <1>6 DEF Save, Returned, Crash, Restart, clientVars
<1> QED  BY Zenon, <1>2, <1>3, <1>4, <1>5, <1>6 DEF Next

\* Only its handler changes the result of an open lease.
LEMMA TruthfulStep ==
    ASSUME IInv, Next, NEW v \in Workers
    PROVE  Truthful(v)'
<1>a. Truthful(v) /\ Belated(v) /\ Separate
  BY DEF IInv
<1>b. Shape(client[v], req[v], issued) /\ client[v] \in ClientStates
  BY DEF IInv, TypeOK, Conduct
<1>c. ASSUME NEW k \in 1..issued
      PROVE  k \in Tokens /\ k \in 1..MaxGrants /\ ~Opened(k)
  <2>1. issued \in 0..MaxGrants /\ MaxGrants \in Nat
    BY TaskAssumption DEF IInv, TypeOK
  <2>2. k \in 1..MaxGrants /\ k # issued + 1
    BY <2>1
  <2> QED  BY Zenon, <2>2 DEF Tokens, Opened
<1>d. ASSUME NEW k, grant'[k].end = "open"
      PROVE  ~Judged(k)
  BY Zenon, <1>d DEF Judged
<1>1. ASSUME client'[v].run \in Outcomes, grant'[client'[v].token].end = "open"
      PROVE  grant'[client'[v].token].ran = client'[v].run
  <2>1. CASE client[v].run = "busy"
    BY SMTT(30), <1>1, <2>1, RunStep DEF Outcomes
  <2>2. CASE client[v].run # "busy"
    <3> DEFINE k == client[v].token
    <3>1. client'[v].token = k /\ client'[v].run = client[v].run
      BY Zenon, <1>1, <2>2, RunStep
    <3>2. k \in 1..issued
      <4>1. client[v].run # "none"
        BY Zenon, <1>1, <3>1 DEF Outcomes
      <4> QED  BY Zenon, <1>b, <4>1 DEF Shape
    <3>3. \A w \in Workers : client[w].token = k => w = v
      BY Zenon, <1>a, <1>c, <3>2 DEF Separate, Uses
    <3>4. ~Ran(k)
      BY Zenon, <2>2, <3>3 DEF Ran
    <3>5. grant'[k].end = "open"
      BY Zenon, <1>1, <3>1
    <3> HIDE DEF k
    <3>6. Kept(k)
      BY <1>c, <1>d, <3>2, <3>4, <3>5, GrantStep
    <3> USE DEF k
    <3> QED  BY <1>a, <1>1, <3>1, <3>6 DEF Kept, Truthful
  <2> QED  BY ZenonT(60), <2>1, <2>2
<1>2. ASSUME late'[v] # NoReq, grant'[late'[v].token].end = "open"
      PROVE  /\ grant'[late'[v].token].ran \in Outcomes
             /\ late'[v].ok <=> grant'[late'[v].token].ran # "err"
  <2>1. CASE late'[v] = req[v] /\ client[v].pc = "complete" /\ grant' = grant
    <3>1. /\ client[v].run \in Outcomes /\ client[v].token = req[v].token
          /\ req[v].ok <=> client[v].run # "err"
      BY Zenon, <1>b, <2>1 DEF Shape, Working, ClientStates
    <3> QED  BY Zenon, <1>a, <1>2, <2>1, <3>1 DEF Truthful
  <2>2. CASE late'[v] = late[v]
    <3> DEFINE k == late[v].token
    <3>1. k \in 1..issued /\ k # client[v].token
      BY <1>a, <1>2, <2>2 DEF Belated
    <3>2. \A w \in Workers : client[w].token # k
      BY Zenon, <1>a, <1>c, <3>1 DEF Separate, Uses
    <3>3. ~Ran(k)
      BY ZenonT(60), <3>2 DEF Ran
    <3>4. grant'[k].end = "open"
      BY <1>2, <2>2
    <3> HIDE DEF k
    <3>5. Kept(k)
      BY Zenon, <1>c, <1>d, <3>1, <3>3, <3>4, GrantStep
    <3> USE DEF k
    <3> QED  BY ZenonT(60), <1>a, <1>2, <2>2, <3>5 DEF Kept, Truthful
  <2> QED  BY Zenon, <1>2, <2>1, <2>2, RunStep
<1> QED  BY Zenon, <1>1, <1>2 DEF Truthful

-----------------------------------------------------------------------------
(* The theorems.                                                           *)

\* The invariant holds at the start.
LEMMA InitInv ==
    ASSUME Init
    PROVE  IInv
<1>1. TypeOK
  <2>1. StoreTypeOK
    <3>1. mem \in [Ids -> Task] /\ save \in SavePcs
      BY DocumentTypes DEF Init, StoreInit, SavePcs
    <3>2. dir \in [Names -> {NoFile, Torn} \cup [Ids -> Task]]
      BY DEF Init, StoreInit, EmptyDir
    <3>3. faults \in 0..MaxFaults
      BY FileStoreAssumption DEF Init, StoreInit
    <3> QED  BY <3>1, <3>2, <3>3 DEF StoreTypeOK
  <2>2. 0 \in 0..MaxGrants /\ 0 \in 0..MaxCrashes
    BY TaskAssumption, WorkerAssumption
  <2>3. /\ client \in [Workers -> ClientStates] /\ serving \in Servings
        /\ req \in [Workers -> Requests] /\ late \in [Workers -> Requests]
        /\ grant \in [Tokens -> Grants]
    BY ValueTypes DEF Init
  <2> QED  BY Zenon, <2>1, <2>2, <2>3 DEF Init, TypeOK
<1>2. Disk /\ Smooth
  BY FileStoreAssumption DEF Init, StoreInit, EmptyDir, Disk, Smooth, ReplacePcs, Names
<1>3. Leased /\ Reserving
  BY Zenon DEF Init, StoreInit, Leased, Reserving, Empty, NoTask
<1>4. Calling
  BY ZenonT(60), WorkerAssumption DEF Init, Calling, NoServing
<1>5. Conduct
  BY SMTT(30) DEF Init, Conduct, Shape, Silent, Working, Off, NoReq
<1>6. \A w \in Workers : Belated(w) /\ Truthful(w)
  BY DEF Init, Belated, Truthful, Off, Outcomes
<1>7. Separate
  <2>1. \A w \in Workers : /\ client[w].token = 0 /\ req[w].token = 0
                           /\ late[w].token = 0 /\ serving.from # w
    BY WorkerAssumption DEF Init, Off, NoReq, NoServing
  <2>2. \A k \in 1..MaxGrants : k # 0
    BY TaskAssumption
  <2> QED  BY ZenonT(60), <2>1, <2>2 DEF Separate, Uses
<1>8. VerdictIsTheHandlers
  BY DEF Init, VerdictIsTheHandlers, NoGrant
<1> QED  BY <1>1, <1>2, <1>3, <1>4, <1>5, <1>6, <1>7, <1>8 DEF IInv

\* Every step keeps the invariant.
LEMMA NextInv ==
    ASSUME IInv, [Next]_vars
    PROVE  IInv'
<1>1. CASE Next
  BY Zenon, <1>1, TypeStep, DiskStep, LeaseStep, ReserveStep, CallingStep, ConductStep,
     BelatedStep, TruthfulStep, SeparateStep, VerdictStep DEF IInv
<1>2. CASE UNCHANGED vars
  <2>1. /\ UNCHANGED <<mem, dir, save, faults, srv, reg, reserved, serving>>
        /\ UNCHANGED <<client, req, late, created, grant, issued, crashes, lost>>
    BY SMTT(30), <1>2 DEF vars, storeVars, serverVars, clientVars, history
  <2>2. TypeOK'
    BY <2>1 DEF IInv, TypeOK, StoreTypeOK
  <2>3. Disk' /\ Smooth' /\ Leased' /\ Reserving' /\ Calling'
    BY Zenon, <2>1 DEF IInv, Disk, Smooth, Leased, Reserving, Calling
  <2>4. Conduct' /\ Separate' /\ VerdictIsTheHandlers'
    BY Zenon, <2>1 DEF IInv, Conduct, Separate, Uses, VerdictIsTheHandlers
  <2>5. \A w \in Workers : Belated(w)' /\ Truthful(w)'
    BY Zenon, <2>1 DEF IInv, Belated, Truthful
  <2> QED  BY Zenon, <2>2, <2>3, <2>4, <2>5 DEF IInv
<1> QED  BY Zenon, <1>1, <1>2

\* IInv holds in every state of the server, its store and its workers, for every
\* value of the constants.
THEOREM WorkerInvariance == Spec => []IInv
  BY InitInv, NextInv, PTL DEF Spec

\* The variables keep their types.
THEOREM WorkerTypeCorrect == Spec => []TypeOK
<1>1. IInv => TypeOK
  BY DEF IInv
<1> QED  BY <1>1, WorkerInvariance, PTL

\* NewFile finds a document it can load, or none, whatever has failed and wherever
\* the process has died: saveLocked writes beside the document (file.go:165).
THEOREM Loads == Spec => []AlwaysLoadable
<1>1. IInv => AlwaysLoadable
  BY DEF IInv, Disk, AlwaysLoadable, Loadable
<1> QED  BY <1>1, WorkerInvariance, PTL

\* No order of renewals, completions, retries, deaths and restarts makes the
\* scheduler record a result for a lease that its handler did not return
\* (client.go:137).
THEOREM HonestVerdicts == Spec => []VerdictIsTheHandlers
<1>1. IInv => VerdictIsTheHandlers
  BY Zenon DEF IInv
<1> QED  BY <1>1, WorkerInvariance, PTL

\* Without a failed save no task stays reserved that nobody runs
\* (scheduler.go:497).
THEOREM NoStaleReservation == Spec => []ReservedIsRunning
<1>1. IInv => ReservedIsRunning
  BY DEF IInv, Reserving, ReservedIsRunning
<1> QED  BY <1>1, WorkerInvariance, PTL

=============================================================================
