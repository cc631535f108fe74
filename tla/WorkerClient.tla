----------------------------- MODULE WorkerClient ---------------------------
(***************************************************************************)
(* pkg/workerclient/client.go against the server it talks to: Client.Run   *)
(* and runHandler, the HTTP handlers of internal/api/server.go, and the    *)
(* scheduler calls behind them on a FileStore.                             *)
(*                                                                         *)
(* A handler's reads and its guarded write are one step here, up to the    *)
(* save, which has steps of its own; what happens between them is the      *)
(* subject of Scheduler, and so are cancels and purges.  Tasks have no     *)
(* dependencies and no local handler.                                      *)
(*                                                                         *)
(* The network may lose a request or an answer, or deliver a request after *)
(* its sender has given up on it.  A worker process may die, and start     *)
(* again under the same id; so may the server.                             *)
(***************************************************************************)
EXTENDS FileStore

CONSTANTS NoId,
          MaxCrashes   \* bound: how often the server dies

ASSUME WorkerAssumption ==
    /\ MaxCrashes \in Nat /\ NoId \notin Ids /\ NoWorker \notin Workers
    /\ DependsOn = [id \in Ids |-> <<>>]

VARIABLES
    srv,       \* the server process
    reg,       \* workersByID
    reserved,  \* the ids in Scheduler.running
    serving,   \* the request whose store call is in progress
    client,    \* the goroutine in Client.Run, for each worker id
    req,       \* its request, and the answer to it
    late,      \* a request that its sender no longer waits for
    created,   \* history: the ids whose Submit was answered with 201
    grant,     \* history: for each lease token, its task, how its lease ended,
               \* what the handler returned before, and whether the worker
               \* was told that the result is recorded
    issued,    \* history: how many tokens were issued
    crashes,
    lost       \* history: a server started while its document was misplaced

serverVars == <<srv, reg, reserved, serving>>
clientVars == <<client, req, late>>
history == <<created, grant, issued, crashes, lost>>
vars == <<storeVars, serverVars, clientVars, history>>

-----------------------------------------------------------------------------
Kinds == {"none", "register", "heartbeat", "claim", "renew", "complete"}

Requests == [kind : Kinds, id : Ids \cup {NoId}, token : 0..MaxGrants, ok : BOOLEAN,
             answer : {"none", "sent", "ok", "empty", "refused"}]
NoReq == [kind |-> "none", id |-> NoId, token |-> 0, ok |-> FALSE, answer |-> "none"]
Request(kind, id, token, ok) ==
    [kind |-> kind, id |-> id, token |-> token, ok |-> ok, answer |-> "sent"]

\* from: whose request it is; NoWorker when nobody waits for the answer.
Servings == [kind : Kinds \cup {"submit", "reap", "recover"},
             from : Workers \cup {NoWorker}, id : Ids \cup {NoId}, token : 0..MaxGrants]
NoServing == [kind |-> "none", from |-> NoWorker, id |-> NoId, token |-> 0]

ClientPcs == {"off", "register", "heartbeat", "claim", "wait", "handler",
              "renew", "drain", "complete"}

\* What a handler returns: nil, an error, or an error whose text is empty.
Outcomes == {"ok", "err", "mute"}

ClientStates == [pc : ClientPcs, id : Ids \cup {NoId}, token : 0..MaxGrants,
                 run : {"none", "busy"} \cup Outcomes]
Off == [pc |-> "off", id |-> NoId, token |-> 0, run |-> "none"]

Grants == [id : Ids \cup {NoId}, acked : BOOLEAN, ran : {"none"} \cup Outcomes,
           end : {"none", "open", "succeeded", "retried", "failed", "expired"}]
NoGrant == [id |-> NoId, end |-> "none", ran |-> "none", acked |-> FALSE]

\* Every variable has the type of what it stands for.
TypeOK ==
    /\ StoreTypeOK
    /\ srv \in {"down", "starting", "up"}
    /\ reg \in [Workers -> {"absent", "live", "lapsed"}]
    /\ reserved \subseteq Ids /\ created \subseteq Ids
    /\ serving \in Servings
    /\ client \in [Workers -> ClientStates]
    /\ req \in [Workers -> Requests] /\ late \in [Workers -> Requests]
    /\ grant \in [Tokens -> Grants]
    /\ issued \in 0..MaxGrants /\ crashes \in 0..MaxCrashes /\ lost \in BOOLEAN

Init ==
    /\ StoreInit
    /\ srv = "up"
    /\ reg = [w \in Workers |-> "absent"]
    /\ reserved = {} /\ created = {}
    /\ serving = NoServing
    /\ client = [w \in Workers |-> Off]
    /\ req = [w \in Workers |-> NoReq] /\ late = [w \in Workers |-> NoReq]
    /\ grant = [k \in Tokens |-> NoGrant]
    /\ issued = 0 /\ crashes = 0 /\ lost = FALSE

-----------------------------------------------------------------------------
(* Client.Run: one request at a time, each sent in the step that has dealt *)
(* with the answer to the one before.                                      *)

Goes(w, c, r) ==
    /\ client' = [client EXCEPT ![w] = c]
    /\ req' = [req EXCEPT ![w] = r]

Asks(w, kind) == Goes(w, [Off EXCEPT !.pc = kind], Request(kind, NoId, 0, FALSE))

Answered(w, kind, a) == client[w].pc = kind /\ req[w].answer = a

\* The answer no longer matters; the request may still be on its way.  That is
\* followed up for completions: a claim may as well arrive before its sender goes,
\* and a registration, a heartbeat or a renewal that comes late only puts off a
\* lapse, which may come at any time.
Abandon(w) ==
    /\ req' = [req EXCEPT ![w] = NoReq]
    /\ late' = IF /\ req[w].kind = "complete" /\ req[w].answer = "sent"
                  /\ serving.from # w /\ late[w] = NoReq
               THEN [late EXCEPT ![w] = req[w]] ELSE late
    /\ serving' = IF serving.from = w THEN [serving EXCEPT !.from = NoWorker]
                  ELSE serving

Start(w) == client[w].pc = "off" /\ Asks(w, "register")

\* Register and Heartbeat have been answered; the ticker of an idle loop fires.
Loop(w) ==
    \/ Answered(w, "register", "ok") /\ Asks(w, "heartbeat")
    \/ Answered(w, "heartbeat", "ok") /\ Asks(w, "claim")
    \/ Answered(w, "claim", "empty") /\ Goes(w, [Off EXCEPT !.pc = "wait"], NoReq)
    \/ client[w].pc = "wait" /\ Asks(w, "heartbeat")
    \/ Answered(w, "complete", "ok") /\ Asks(w, "heartbeat")

\* ClaimWait returned a task: runHandler starts the handler.
Claimed(w) ==
    /\ Answered(w, "claim", "ok")
    /\ Goes(w, [pc |-> "handler", id |-> req[w].id, token |-> req[w].token,
                run |-> "busy"], NoReq)

\* An error answer, or none because the server is gone, ends Run.
Refused(w) ==
    /\ client[w].pc \in {"register", "heartbeat", "claim", "complete"}
    /\ req[w].answer = "refused"
    /\ Goes(w, Off, NoReq)

\* The handler's goroutine, whatever runHandler is doing.
HandlerReturns(w) ==
    /\ client[w].run = "busy"
    /\ \E result \in Outcomes :
           /\ client' = [client EXCEPT ![w].run = result]
           /\ grant' = IF grant[client[w].token].end = "open"
                       THEN [grant EXCEPT ![client[w].token].ran = result] ELSE grant

\* <-done: the result is reported under the token of the claim.  Only the text of
\* an error is sent, and the server takes an empty one for success.
Finishes(w) ==
    /\ client[w].pc = "handler" /\ client[w].run # "busy"
    /\ Goes(w, [client[w] EXCEPT !.pc = "complete"],
            Request("complete", client[w].id, client[w].token, client[w].run # "err"))

\* <-ticker.C; it may win against a handler that has returned.
RenewTick(w) ==
    /\ client[w].pc = "handler"
    /\ Goes(w, [client[w] EXCEPT !.pc = "renew"],
            Request("renew", client[w].id, client[w].token, FALSE))

Renewed(w) == Answered(w, "renew", "ok") /\ Goes(w, [client[w] EXCEPT !.pc = "handler"], NoReq)

\* Mutant: the failed renewal is taken for the end of the handler.
RenewRefusedOptimistic(w) ==
    /\ Answered(w, "renew", "refused")
    /\ Goes(w, [client[w] EXCEPT !.pc = "complete"],
            Request("complete", client[w].id, client[w].token, TRUE))

\* Mutant: the failed renewal is ignored.
RenewRefusedIgnored(w) ==
    Answered(w, "renew", "refused") /\ Goes(w, [client[w] EXCEPT !.pc = "handler"], NoReq)

\* RenewLease failed: cancel the handler and wait for it.
RenewRefused(w) ==
    Answered(w, "renew", "refused") /\ Goes(w, [client[w] EXCEPT !.pc = "drain"], NoReq)

\* The same after a broken connection, or when Run's context is cancelled.
RenewBroken(w) ==
    /\ client[w].pc \in {"handler", "renew"}
    /\ client' = [client EXCEPT ![w].pc = "drain"]
    /\ Abandon(w)

Drained(w) == client[w].pc = "drain" /\ client[w].run # "busy" /\ Goes(w, Off, NoReq)

\* The process dies, its context is cancelled while it waits, or one of its
\* requests other than a renewal fails: Run is over, and so is the handler.
WorkerDies(w) ==
    /\ client[w].pc # "off"
    /\ client' = [client EXCEPT ![w] = Off]
    /\ Abandon(w)

Client(w) ==
    \/ /\ \/ Start(w) \/ Loop(w) \/ Claimed(w) \/ Refused(w) \/ Finishes(w)
          \/ RenewTick(w) \/ Renewed(w) \/ RenewRefused(w) \/ Drained(w)
       /\ UNCHANGED <<storeVars, serverVars, late, history>>
    \/ /\ HandlerReturns(w)
       /\ UNCHANGED <<storeVars, serverVars, req, late, created, issued, crashes, lost>>
    \/ /\ RenewBroken(w) \/ WorkerDies(w)
       /\ UNCHANGED <<storeVars, srv, reg, reserved, history>>

-----------------------------------------------------------------------------
(* The HTTP handlers.  A handler that writes to the store answers when the *)
(* store call returns.                                                     *)

Arrived(w, kind) ==
    /\ srv = "up" /\ serving.from # w
    /\ req[w].kind = kind /\ req[w].answer = "sent"

Answer(w, a) == req' = [req EXCEPT ![w].answer = a] /\ UNCHANGED <<serving, late>>

Serve(w, kind, id, token) ==
    /\ serving' = [kind |-> kind, from |-> w, id |-> id, token |-> token]
    /\ UNCHANGED <<req, late>>

\* POST /workers
RegisterWorker(w) ==
    /\ Arrived(w, "register")
    /\ reg' = [reg EXCEPT ![w] = "live"]
    /\ Answer(w, "ok")
    /\ UNCHANGED <<storeVars, reserved, grant, issued>>

\* POST /workers/{id}: the leases of all tasks of w are renewed with it.
Heartbeat(w) ==
    /\ Arrived(w, "heartbeat") /\ save = "idle"
    /\ IF reg[w] = "absent" THEN Answer(w, "refused") /\ UNCHANGED <<reg, storeVars>>
       ELSE /\ reg' = [reg EXCEPT ![w] = "live"]
            /\ IF \E id \in Ids : mem[id].status = "running" /\ mem[id].worker = w
               THEN /\ Put(RenewWorkerTaskLeases(mem, w))
                    /\ Serve(w, "heartbeat", NoId, 0)
               ELSE Answer(w, "ok") /\ UNCHANGED storeVars
    /\ UNCHANGED <<reserved, grant, issued>>

\* What Claim may hand out.
Free(id) == Claimable(mem[id]) /\ id \notin reserved

\* POST /workers/{id}/claim: Claim is tried until it finds a task or the
\* deadline of the long poll has passed.
Claim(w) ==
    /\ Arrived(w, "claim") /\ save = "idle"
    /\ IF reg[w] # "live"
       THEN Answer(w, "refused") /\ UNCHANGED <<storeVars, reserved, grant, issued>>
       ELSE \/ /\ \A id \in Ids : ~Free(id)
               /\ Answer(w, "empty")
               /\ UNCHANGED <<storeVars, reserved, grant, issued>>
            \/ \E id \in Ids :
               /\ Free(id) /\ issued < MaxGrants
               /\ issued' = issued + 1
               /\ reserved' = reserved \cup {id}
               /\ Put([mem EXCEPT ![id] = Granted(@, w, issued + 1)])
               /\ grant' = [grant EXCEPT ![issued + 1] =
                                [NoGrant EXCEPT !.id = id, !.end = "open"]]
               /\ Serve(w, "claim", id, issued + 1)
    /\ UNCHANGED reg

\* POST /workers/{id}/tasks/renew
RenewTaskLease(w) ==
    /\ Arrived(w, "renew") /\ save = "idle"
    /\ LET r == req[w]
       IN  IF ValidLease(mem[r.id], w, r.token)
           THEN /\ Put([mem EXCEPT ![r.id].lease = "live"])
                /\ Serve(w, "renew", r.id, r.token)
           ELSE Answer(w, "refused") /\ UNCHANGED storeVars
    /\ UNCHANGED <<reg, reserved, grant, issued>>

\* POST /tasks/{id}?complete=true, for the request r of w.
Complete(w, r) ==
    /\ Put([mem EXCEPT ![r.id] = Finished(r.id, @, r.ok)])
    /\ grant' = [grant EXCEPT ![r.token].end = Verdict(r.id, mem[r.id], r.ok)]

CompleteTask(w) ==
    /\ Arrived(w, "complete") /\ save = "idle"
    /\ IF ValidLease(mem[req[w].id], w, req[w].token)
       THEN Complete(w, req[w]) /\ Serve(w, "complete", req[w].id, req[w].token)
       ELSE Answer(w, "refused") /\ UNCHANGED <<storeVars, grant>>
    /\ UNCHANGED <<reg, reserved, issued>>

\* The same for a request that w has given up on.
CompleteLate(w) ==
    /\ srv = "up" /\ save = "idle" /\ late[w] # NoReq
    /\ ValidLease(mem[late[w].id], w, late[w].token)
    /\ Complete(w, late[w])
    /\ serving' = [kind |-> "complete", from |-> NoWorker, id |-> late[w].id,
                   token |-> late[w].token]
    /\ late' = [late EXCEPT ![w] = NoReq]
    /\ UNCHANGED <<req, reg, reserved, issued>>

\* It never arrives, or is refused.
Vanishes(w) ==
    /\ late[w] # NoReq
    /\ late' = [late EXCEPT ![w] = NoReq]
    /\ UNCHANGED <<storeVars, serverVars, client, req, history>>

Handle(w) ==
    /\ \/ RegisterWorker(w) \/ Heartbeat(w) \/ Claim(w) \/ RenewTaskLease(w)
       \/ CompleteTask(w)
    /\ UNCHANGED <<srv, client, created, crashes, lost>>

Late(w) ==
    \/ Vanishes(w)
    \/ CompleteLate(w) /\ UNCHANGED <<srv, client, created, crashes, lost>>

-----------------------------------------------------------------------------
(* Calls of other clients, and the dispatch loop.                          *)

ServeOther(kind, id) ==
    serving' = [NoServing EXCEPT !.kind = kind, !.id = id]

\* POST /tasks
Submit(id) ==
    /\ ~Exists(mem, id)
    /\ Put(Create(mem, id, NewTask))
    /\ ServeOther("submit", id)
    /\ UNCHANGED <<reserved, grant>>

Expired(id) == [NoGrant EXCEPT !.id = id, !.end = "expired"]

\* Mutant: the lease of a worker that is registered is never taken for expired.
ReapUnlessKnown(id) ==
    /\ mem[id].status = "running" /\ mem[id].lease = "lapsed"
    /\ reg[mem[id].worker] = "absent"
    /\ Put([mem EXCEPT ![id] = Requeued(@)])
    /\ reserved' = reserved \ {id}
    /\ grant' = [grant EXCEPT ![mem[id].token] = Expired(id)]
    /\ ServeOther("reap", id)

\* reapExpired
Reap(id) ==
    /\ mem[id].status = "running" /\ mem[id].lease = "lapsed"
    /\ Put([mem EXCEPT ![id] = Requeued(@)])
    /\ reserved' = reserved \ {id}
    /\ grant' = [grant EXCEPT ![mem[id].token] = Expired(id)]
    /\ ServeOther("reap", id)

Other(id) ==
    /\ srv = "up"
    /\ Submit(id) \/ Reap(id)
    /\ UNCHANGED <<srv, reg, clientVars, created, issued, crashes, lost>>

-----------------------------------------------------------------------------
(* The store call of the request being served returns.                     *)

\* How the handler answers once its write has returned.
Status(kind, saved) ==
    CASE saved \/ kind = "heartbeat" -> "ok"
      [] ~saved /\ kind = "claim" -> "sent"   \* Claim goes on to the next candidate
      [] OTHER -> "refused"

\* Mutant: a completed task stays reserved.
ReleasedClaimsOnly(kind, saved) == kind = "claim" /\ ~saved

\* Whether Claim or CompleteTask drops the reservation.
Released(kind, saved) == \/ kind = "claim" /\ ~saved
                         \/ kind = "complete" /\ saved

Returned ==
    LET saved == save = "saved"
        s == serving
        a == Status(s.kind, saved)
    IN  /\ StoreReturns
        /\ serving' = NoServing
        /\ srv' = "up"
        /\ reserved' = IF Released(s.kind, saved) THEN reserved \ {s.id} ELSE reserved
        /\ req' = IF s.from = NoWorker THEN req
                  ELSE IF s.kind = "claim" /\ saved
                  THEN [req EXCEPT ![s.from].answer = a, ![s.from].id = s.id,
                                   ![s.from].token = s.token]
                  ELSE [req EXCEPT ![s.from].answer = a]
        /\ grant' = IF s.kind = "complete" /\ a = "ok"
                    THEN [grant EXCEPT ![s.token].acked = TRUE] ELSE grant
        /\ created' = IF s.kind = "submit" /\ saved THEN created \cup {s.id} ELSE created
        /\ UNCHANGED <<reg, client, late, issued, crashes, lost>>

Save ==
    \/ SaveStep /\ UNCHANGED <<serverVars, clientVars, history>>
    \/ Returned

-----------------------------------------------------------------------------
(* The server dies and starts again.                                       *)

\* Its connections break with it, and there are no new ones while it is down.
Crash ==
    /\ srv # "down" /\ crashes < MaxCrashes
    /\ crashes' = crashes + 1
    /\ StoreDies
    /\ srv' = "down" /\ serving' = NoServing
    /\ reg' = [w \in Workers |-> "absent"] /\ reserved' = {}
    /\ req' = [w \in Workers |-> IF req[w].answer = "sent"
                                 THEN [req[w] EXCEPT !.answer = "refused"] ELSE req[w]]
    /\ late' = [w \in Workers |-> NoReq]
    /\ UNCHANGED <<client, created, grant, issued, lost>>

NoServer(w) ==
    /\ srv # "up" /\ req[w].answer = "sent"
    /\ req' = [req EXCEPT ![w].answer = "refused"]
    /\ UNCHANGED <<storeVars, serverVars, client, late, history>>

\* NewFile, and Start with recoverRunning, before the server listens.
Restart ==
    LET st == Load(dir)
        Recovered == [id \in Ids |-> IF st[id].status = "running" THEN Requeued(st[id])
                                     ELSE st[id]]
    IN  /\ srv = "down" /\ Loadable(dir)
        /\ mem' = Recovered
        /\ lost' = (lost \/ Misplaced(dir))
        /\ grant' = [k \in Tokens |-> IF grant[k].end = "open" THEN Expired(grant[k].id)
                                      ELSE grant[k]]
        /\ IF Recovered = st THEN srv' = "up" /\ UNCHANGED <<save, serving>>
           ELSE srv' = "starting" /\ save' = "write" /\ ServeOther("recover", NoId)
        /\ UNCHANGED <<dir, faults, reg, reserved, clientVars, created, issued,
                       crashes>>

-----------------------------------------------------------------------------
(* Time.                                                                   *)

LeaseLapses(id) ==
    /\ srv = "up" /\ save = "idle"
    /\ mem[id].status = "running" /\ mem[id].lease = "live"
    /\ mem' = [mem EXCEPT ![id].lease = "lapsed"]
    /\ UNCHANGED <<dir, save, faults, serverVars, clientVars, history>>

BecomesDue(id) ==
    /\ srv = "up" /\ save = "idle"
    /\ mem[id].status \in {"pending", "retrying"} /\ ~mem[id].due
    /\ mem' = [mem EXCEPT ![id].due = TRUE]
    /\ UNCHANGED <<dir, save, faults, serverVars, clientVars, history>>

WorkerLapses(w) ==
    /\ reg[w] = "live" /\ save = "idle"
    /\ reg' = [reg EXCEPT ![w] = "lapsed"]
    /\ UNCHANGED <<storeVars, srv, reserved, serving, clientVars, history>>

Next ==
    \/ \E w \in Workers : Client(w) \/ Handle(w) \/ NoServer(w)
    \/ \E w \in Workers : WorkerLapses(w) \/ Late(w)
    \/ \E id \in Ids : Other(id) \/ LeaseLapses(id) \/ BecomesDue(id)
    \/ Save \/ Crash \/ Restart

Spec == Init /\ [][Next]_vars

=============================================================================
