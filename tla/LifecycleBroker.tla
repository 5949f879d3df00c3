--------------------------- MODULE LifecycleBroker ---------------------------
(***************************************************************************)
(* The lifecycle broker of internal/broker as a concurrent program: the    *)
(* requests of the Orka supervisor and of the ACP child, the goroutine of  *)
(* the owner's one live invocation, the expiry sweep, the cleanup worker   *)
(* of each owner, the ledger file with its failures, crashes and restarts, *)
(* and (external) the Foundry provider, which may answer late or never.    *)
(*                                                                         *)
(* Every step that holds lifecycleBroker.mu is one action; a request to    *)
(* the provider is split into sending it, its effect at the provider, and  *)
(* the broker's use of the answer.                                         *)
(***************************************************************************)
EXTENDS BrokerLedger

CONSTANTS MaxLease,  \* bound on how far ahead a lease may be granted
          MaxBoots   \* bound on restarts of the broker process

ASSUME LeaseAssumption == MaxLease \in Nat \ {0}
ASSUME BootAssumption == MaxBoots \in Nat

VARIABLES
  life,    \* of the process: "up", "draining" (ctx cancelled), "poisoned"
           \* (storageError set, ctx cancelled) or "down"
  boots,   \* restarts so far
  now,     \* the clock
  ledger,  \* lifecycleBroker.ledger
  disk,    \* state.json
  act,     \* act[o]: b.active[o] and the goroutine that serves it
  wk,      \* wk[o]: b.workers[o] and what reconcile captured
  remote,  \* remote[o][id]: the provider's session of that id (external)
  wire,    \* wire[o][p][n]: the inference request of an invocation (external)
  answered \* answered[o]: responses whose calls were answered (external)

vars == <<life, boots, now, ledger, disk, act, wk, remote, wire, answered>>
provider == <<remote, wire, answered>>

Lives == {"up", "draining", "poisoned", "down"}
Steps == {"start", "createReady", "creating", "ready", "waiting",
          "accepted", "finish"}
Errors == {"ok", "other", "ambiguous"}
Phases == {"stop", "poll", "delete", "confirm", "prove"}
SessionStates == {"unused", "creating", "refused", "active", "stopping", "idle", "deleted"}
Live == {"active", "stopping", "idle"}
WireStates == {"unsent", "flying", "refused", "running", "completed", "ended"}
Outstanding == {"flying", "running"}

Idle == [pc |-> "idle", prompt |-> None, seq |-> 0, previous |-> None,
         cancelled |-> FALSE, error |-> "ok"]
NoWorker == [pc |-> "idle", closing |-> {}, retiring |-> FALSE,
             ambiguous |-> FALSE, create |-> "none"]

LiveCall == [pc: Steps, prompt: Prompts, seq: Seqs, previous: Refs \cup {None},
             cancelled: BOOLEAN, error: Errors]
LiveWorker == [pc: Phases, closing: SUBSET Prompts, retiring: BOOLEAN,
               ambiguous: BOOLEAN, create: CreateStates]
Call == LiveCall \cup {Idle}
Worker == LiveWorker \cup {NoWorker}

(* Type invariant.  A goroutine that is not there has left nothing behind. *)
TypeOK ==
  /\ life \in Lives /\ boots \in 0..MaxBoots /\ now \in Times \ {ZeroTime}
  /\ ledger \in [Owners -> Session] /\ disk \in [Owners -> Session]
  /\ act \in [Owners -> Call] /\ wk \in [Owners -> Worker]
  /\ remote \in [Owners -> [Ids -> SessionStates]]
  /\ wire \in [Owners -> [Prompts -> [Seqs -> WireStates]]]
  /\ answered \in [Owners -> SUBSET Refs]

Init ==
  /\ life = "up" /\ boots = 0 /\ now = 1
  /\ ledger = [o \in Owners |-> NoSession] /\ disk = ledger
  /\ act = [o \in Owners |-> Idle] /\ wk = [o \in Owners |-> NoWorker]
  /\ remote = [o \in Owners |-> [id \in Ids |-> "unused"]]
  /\ wire = [o \in Owners |-> [p \in Prompts |-> [n \in Seqs |-> "unsent"]]]
  /\ answered = [o \in Owners |-> {}]

-----------------------------------------------------------------------------
(* commitLocked.  A commit replaces the file and then the ledger.  When the*)
(* write fails the ledger stays, the file holds the old or the new bytes   *)
(* (the rename may have happened), and the broker refuses every later      *)
(* commit and cancels its context.                                         *)

Healthy == life \in {"up", "draining"}

Save(next) ==
  /\ Healthy
  /\ ledger' = next /\ disk' = next /\ UNCHANGED life

Lose(next) ==
  /\ Healthy
  /\ disk' = next /\ life' = "poisoned" /\ UNCHANGED ledger

With(o, s) == [ledger EXCEPT ![o] = s]

(* A commit that writes nothing new fails, or one fails before its rename. *)
StorageFails ==
  /\ Lose(disk)
  /\ UNCHANGED <<boots, now, act, wk, provider>>

Alive(q) == q.expires > now

\* The context of the goroutine: cancelled itself, or with the broker's.
CtxAlive(o) == life = "up" /\ ~act[o].cancelled

Cancelled(a) == IF a.pc = "idle" THEN a ELSE [a EXCEPT !.cancelled = TRUE]
CancelIf(o, cond) == act' = [act EXCEPT ![o] = IF cond THEN Cancelled(@) ELSE @]

-----------------------------------------------------------------------------
(* Control requests of the supervisor.                                     *)

Grants == {ge \in (1..MaxGeneration) \X Times : now < ge[2] /\ ge[2] <= now + MaxLease}

\* Mutant: a renewal may end before the lease it renews.
Renewable_Shortens(q, g, e) ==
  ~q.closing /\ ~q.settled /\ g = q.generation + 1 /\ Alive(q)

Renewable(q, g, e) ==
  /\ ~q.closing /\ ~q.settled
  /\ g = q.generation + 1 /\ Alive(q) /\ e >= q.expires

Renewed(s, p, g, e) ==
  IF s.prompts[p].present
    THEN [s EXCEPT !.prompts[p] = [@ EXCEPT !.generation = g, !.expires = e]]
    ELSE Opened(s, p, g, e)

Renew(o, p, g, e) ==
  LET s == ledger[o] IN
  /\ ~s.retiring /\ ~s.retired
  /\ IF s.prompts[p].present THEN Renewable(s.prompts[p], g, e) ELSE CanOpen(s, p)
  /\ \/ Save(With(o, Renewed(s, p, g, e)))
     \/ Lose(With(o, Renewed(s, p, g, e)))
  /\ UNCHANGED <<boots, now, act, wk, provider>>

\* Mutant: settlement closes the prompt without stopping its request.
Settle_NoCancel(o, p, g, e) ==
  LET s == Closed(EnsurePrompt(ledger[o], p, g, e), {p}) IN
  /\ Ensurable(ledger[o], p) /\ s # ledger[o]
  /\ Save(With(o, s)) \/ Lose(With(o, s))
  /\ UNCHANGED <<boots, now, act, wk, provider>>

(* Settle: close the prompt (created closed if unknown), and once that is  *)
(* durable cancel its live request.  A repeated settlement changes nothing.*)
Settle(o, p, g, e) ==
  LET s == Closed(EnsurePrompt(ledger[o], p, g, e), {p}) IN
  /\ Ensurable(ledger[o], p) /\ s # ledger[o]
  /\ \/ Save(With(o, s)) /\ CancelIf(o, act[o].prompt = p)
     \/ Lose(With(o, s)) /\ UNCHANGED act
  /\ UNCHANGED <<boots, now, wk, provider>>

Retire(o) ==
  LET s == Retirement(ledger[o]) IN
  /\ s # ledger[o]
  /\ \/ Save(With(o, s)) /\ CancelIf(o, TRUE)
     \/ Lose(With(o, s)) /\ UNCHANGED act
  /\ UNCHANGED <<boots, now, wk, provider>>

(* closePrompt: the child disconnected, or its answer could not be written.*)
ClosePrompt(o, p) ==
  LET s == Closed(ledger[o], {p}) IN
  /\ life = "up" /\ ledger[o].prompts[p].last > 0 /\ s # ledger[o]
  /\ \/ Save(With(o, s)) /\ CancelIf(o, act[o].prompt = p)
     \/ Lose(With(o, s)) /\ UNCHANGED act
  /\ UNCHANGED <<boots, now, wk, provider>>

(* sweep: one commit closes every expired prompt of every owner, and live  *)
(* requests of closing prompts are cancelled.                              *)
Expired(s) == {p \in Prompts : s.prompts[p].present /\ ~Alive(s.prompts[p])}

Sweep ==
  LET next == [o \in Owners |-> Closed(ledger[o], Expired(ledger[o]))] IN
  /\ life = "up" /\ next # ledger
  /\ \/ /\ Save(next)
        /\ act' = [o \in Owners |-> IF act[o].prompt \in Unsettled(next[o])
                                      THEN Cancelled(act[o]) ELSE act[o]]
     \/ Lose(next) /\ UNCHANGED act
  /\ UNCHANGED <<boots, now, wk, provider>>

-----------------------------------------------------------------------------
(* An invocation: reserveInvocation, invoke, finishInvocation.             *)

Admissible(q, g, e, n) ==
  /\ ~q.closing /\ ~q.settled /\ Alive(q)
  /\ g = q.generation /\ e = q.expires
  /\ Fresh(q, n)

(* reserveInvocation: admit the owner's only live request and record its   *)
(* sequence before anything is sent.                                       *)
Reserve(o, p, g, e, n, prev) ==
  LET s == EnsurePrompt(ledger[o], p, g, e)
      r == Reservation(s, p, n) IN
  /\ life = "up" /\ act[o].pc = "idle"
  /\ ~s.retiring /\ ~s.retired /\ Ensurable(ledger[o], p)
  /\ Admissible(s.prompts[p], g, e, n) /\ PreviousAccepted(s, p, prev)
  /\ \/ /\ Save(With(o, r))
        /\ act' = [act EXCEPT ![o] = [Idle EXCEPT !.pc = "start", !.prompt = p,
                                                  !.seq = n, !.previous = prev]]
     \/ Lose(With(o, r)) /\ UNCHANGED act
  /\ UNCHANGED <<boots, now, wk, provider>>

Goto(o, pc) == act' = [act EXCEPT ![o] = [@ EXCEPT !.pc = pc]]
Fails(o, err) == act' = [act EXCEPT ![o] = [@ EXCEPT !.pc = "finish", !.error = err]]

(* Before an intent becomes durable the prompt must still be open, its     *)
(* request live and its lease running.                                     *)
MayIntend(o) ==
  LET s == ledger[o]  q == s.prompts[act[o].prompt] IN
  ~s.retiring /\ ~q.closing /\ CtxAlive(o) /\ Alive(q)

FreshId(o, id) ==
  remote[o][id] = "unused" /\ \A j \in Ids : j < id => remote[o][j] # "unused"

(* The target was validated and the request prepared: the session id and   *)
(* the creation intent become durable before the request is sent.          *)
CreateIntent(o) ==
  /\ act[o].pc = "start" /\ ledger[o].create = "none" /\ MayIntend(o)
  /\ \E id \in Ids :
       LET s == WithCreate(ledger[o], "intent", id) IN
       /\ FreshId(o, id)
       /\ \/ Save(With(o, s)) /\ Goto(o, "createReady")
          \/ Lose(With(o, s)) /\ UNCHANGED act
  /\ UNCHANGED <<boots, now, wk, provider>>

(* The one creation attempt outlives its prompt; only the broker's own     *)
(* context can stop it.                                                    *)
SendCreate(o) ==
  /\ act[o].pc = "createReady" /\ life = "up"
  /\ remote' = [remote EXCEPT ![o][ledger[o].remote] = "creating"]
  /\ Goto(o, "creating")
  /\ UNCHANGED <<life, boots, now, ledger, disk, wk, wire, answered>>

\* Mutant: a creation whose answer was lost is taken for a refused one.
NotCreated_IncludesLost(o) ==
  act[o].pc = "createReady" \/ act[o].pc = "creating"

(* Proof that the session was not created: the request was never sent, or  *)
(* the provider's complete answer refuses it.                              *)
NotCreated(o) ==
  \/ act[o].pc = "createReady"
  \/ act[o].pc = "creating" /\ remote[o][ledger[o].remote] = "refused"

CreateDisproved(o) ==
  LET s == WithCreate(ledger[o], "none", 0) IN
  /\ NotCreated(o)
  /\ \/ Save(With(o, s)) /\ Fails(o, "other")
     \/ Lose(With(o, s)) /\ UNCHANGED act
  /\ UNCHANGED <<boots, now, wk, provider>>

CreateAcknowledged(o) ==
  LET s == WithCreate(ledger[o], "known", ledger[o].remote) IN
  /\ act[o].pc = "creating" /\ remote[o][ledger[o].remote] \in Live
  /\ \/ Save(With(o, s)) /\ Goto(o, "start")
     \/ Lose(With(o, s)) /\ UNCHANGED act
  /\ UNCHANGED <<boots, now, wk, provider>>

(* The session answered a GET as active or idle; the invocation's intent   *)
(* becomes durable before its request is sent.                             *)
InferenceIntent(o) ==
  LET s == Mark(ledger[o], act[o].prompt, act[o].seq, "intent") IN
  /\ act[o].pc = "start" /\ ledger[o].create = "known" /\ MayIntend(o)
  /\ remote[o][ledger[o].remote] \in {"active", "idle"}
  /\ \/ Save(With(o, s)) /\ Goto(o, "ready")
     \/ Lose(With(o, s)) /\ UNCHANGED act
  /\ UNCHANGED <<boots, now, wk, provider>>

AnswersCalls(o) ==
  act[o].previous # None /\ ledger[o].prompts[act[o].previous[1]].link[act[o].previous[2]] = "calls"

(* sendRemoteRequest: the context is checked for the last time; from here  *)
(* on the request may reach the provider, early, late or never.            *)
SendInference(o) ==
  /\ act[o].pc = "ready" /\ CtxAlive(o)
  /\ wire' = [wire EXCEPT ![o][act[o].prompt][act[o].seq] = "flying"]
  /\ answered' = [answered EXCEPT ![o] = IF AnswersCalls(o) THEN @ \cup {act[o].previous} ELSE @]
  /\ Goto(o, "waiting")
  /\ UNCHANGED <<life, boots, now, ledger, disk, wk, remote>>

Wire(o) == wire[o][act[o].prompt][act[o].seq]

(* A complete definite rejection of the inference request.                 *)
InferenceRejected(o) ==
  LET s == Mark(ledger[o], act[o].prompt, act[o].seq, "rejected") IN
  /\ act[o].pc = "waiting" /\ Wire(o) = "refused"
  /\ \/ Save(With(o, s)) /\ Fails(o, "other")
     \/ Lose(With(o, s)) /\ UNCHANGED act
  /\ UNCHANGED <<boots, now, wk, provider>>

(* The first event that carries the response's identity.                   *)
InferenceAccepted(o) ==
  LET s == Accepted(ledger[o], act[o].prompt, act[o].seq) IN
  /\ act[o].pc = "waiting" /\ Wire(o) \in {"running", "completed", "ended"}
  /\ \/ Save(With(o, s)) /\ Goto(o, "accepted")
     \/ Lose(With(o, s)) /\ UNCHANGED act
  /\ UNCHANGED <<boots, now, wk, provider>>

(* commitCompletedResponse: only an open prompt with a running lease may   *)
(* publish its completion.                                                 *)
InferenceCompleted(o) ==
  LET q == ledger[o].prompts[act[o].prompt] IN
  /\ act[o].pc = "accepted" /\ Wire(o) = "completed"
  /\ ~q.closing /\ Alive(q)
  /\ \E kind \in {"text", "calls"} :
       LET s == Completed(ledger[o], act[o].prompt, act[o].seq, kind) IN
       \/ Save(With(o, s)) /\ Fails(o, "ok")
       \/ Lose(With(o, s)) /\ UNCHANGED act
  /\ UNCHANGED <<boots, now, wk, provider>>

(* The other returns of invoke.  Before a request is possibly sent the     *)
(* error is definite; from then on every failure, deadline, cancellation   *)
(* or refused completion is ambiguous.  A poisoned store ends every step.  *)
InvokeFails(o) ==
  /\ \/ act[o].pc = "start" /\ Fails(o, "other")
     \/ act[o].pc = "ready" /\ ~CtxAlive(o) /\ Fails(o, "other")
     \/ act[o].pc \in {"creating", "waiting", "accepted"} /\ Fails(o, "ambiguous")
     \/ act[o].pc = "createReady" /\ life = "poisoned" /\ Fails(o, "other")
  /\ UNCHANGED <<life, boots, now, ledger, disk, wk, provider>>

(* finishInvocation: record the outcome and leave b.active, whether or not *)
(* the commit succeeds.                                                    *)
Finish(o) ==
  LET s == Finished(ledger[o], act[o].prompt, act[o].seq, act[o].error) IN
  /\ act[o].pc = "finish"
  /\ \/ Save(With(o, s)) \/ Lose(With(o, s))
     \/ life = "poisoned" /\ UNCHANGED <<life, ledger, disk>>
  /\ act' = [act EXCEPT ![o] = Idle]
  /\ UNCHANGED <<boots, now, wk, provider>>

-----------------------------------------------------------------------------
(* Cleanup: startReconcile and reconcile.                                  *)

\* Mutant: cleanup starts beside a live request of the owner.
ReconcileMayStart_IgnoresActive(o) ==
  /\ life = "up" /\ wk[o].pc = "idle"
  /\ ~ledger[o].retired /\ ledger[o].create # "intent"
  /\ Unsettled(ledger[o]) # {} \/ ledger[o].retiring

\* Mutant: an owner without closing prompts is never visited.
ReconcileMayStart_NeedsClosing(o) ==
  /\ life = "up" /\ wk[o].pc = "idle" /\ act[o].pc = "idle"
  /\ ~ledger[o].retired /\ ledger[o].create # "intent"
  /\ Unsettled(ledger[o]) # {}

ReconcileMayStart(o) ==
  /\ life = "up" /\ wk[o].pc = "idle" /\ act[o].pc = "idle"
  /\ ~ledger[o].retired /\ ledger[o].create # "intent"
  /\ Unsettled(ledger[o]) # {} \/ ledger[o].retiring

\* Mutant: a retiring session is deleted although a request may still arrive.
CleanupPhase_DeletesAmbiguous(s) ==
  CASE s.create # "known" -> "prove"
    [] s.create = "known" /\ s.retiring -> "delete"
    [] s.create = "known" /\ ~s.retiring /\ ~Ambiguous(s) /\ Quiescent(s) -> "prove"
    [] OTHER -> "stop"

(* The evidence this attempt needs: none for a session never created or for*)
(* completed responses alone, the deletion of a retiring session, else the *)
(* stop of the session's work.                                             *)
CleanupPhase(s) ==
  CASE s.create # "known" -> "prove"
    [] s.create = "known" /\ s.retiring /\ ~Ambiguous(s) -> "delete"
    [] s.create = "known" /\ ~s.retiring /\ ~Ambiguous(s) /\ Quiescent(s) -> "prove"
    [] OTHER -> "stop"

Reconcile(o) ==
  LET s == ledger[o] IN
  /\ ReconcileMayStart(o)
  /\ wk' = [wk EXCEPT ![o] = [pc |-> CleanupPhase(s), closing |-> Unsettled(s),
                              retiring |-> s.retiring, ambiguous |-> Ambiguous(s),
                              create |-> s.create]]
  /\ UNCHANGED <<life, boots, now, ledger, disk, act, provider>>

WorkerGoes(o, pc) == wk' = [wk EXCEPT ![o] = [@ EXCEPT !.pc = pc]]
WorkerEnds(o) == wk' = [wk EXCEPT ![o] = NoWorker]

\* Mutant: a duplicate stop (409) is taken for a failure.
StopSession_RejectsDuplicate(o) ==
  LET id == ledger[o].remote IN
  /\ wk[o].pc = "stop" /\ life = "up" /\ remote[o][id] = "active"
  /\ remote' = [remote EXCEPT ![o][id] = "stopping"]
  /\ WorkerGoes(o, "poll")
  /\ UNCHANGED <<life, boots, now, ledger, disk, act, wire, answered>>

(* remoteSessionStop: GET 200, then POST :stop answered 204 or 409.        *)
StopSession(o) ==
  LET id == ledger[o].remote IN
  /\ wk[o].pc = "stop" /\ life = "up" /\ remote[o][id] \in Live
  /\ remote' = [remote EXCEPT ![o][id] = IF @ = "idle" THEN "idle" ELSE "stopping"]
  /\ WorkerGoes(o, "poll")
  /\ UNCHANGED <<life, boots, now, ledger, disk, act, wire, answered>>

\* Mutant: the accepted stop request is taken as evidence.
StopObserved_OnAccept(o) == TRUE
StopObserved(o) == remote[o][ledger[o].remote] = "idle"

\* The poll of the session's status sees it idle.
StopProved(o) ==
  /\ wk[o].pc = "poll" /\ life = "up" /\ StopObserved(o)
  /\ WorkerGoes(o, "prove")
  /\ UNCHANGED <<life, boots, now, ledger, disk, act, provider>>

(* remoteSessionDelete: DELETE 204, repeatable after a lost answer, ends   *)
(* the session and what runs in it (external).                             *)
DeleteSession(o) ==
  LET id == ledger[o].remote IN
  /\ wk[o].pc = "delete" /\ life = "up" /\ remote[o][id] \in Live \cup {"deleted"}
  /\ remote' = [remote EXCEPT ![o][id] = "deleted"]
  /\ wire' = [wire EXCEPT ![o] = [p \in Prompts |-> [n \in Seqs |->
                 IF @[p][n] = "running" THEN "ended" ELSE @[p][n]]]]
  /\ WorkerGoes(o, "confirm")
  /\ UNCHANGED <<life, boots, now, ledger, disk, act, answered>>

DeleteProved(o) ==
  /\ wk[o].pc = "confirm" /\ life = "up" /\ remote[o][ledger[o].remote] = "deleted"
  /\ WorkerGoes(o, "prove")
  /\ UNCHANGED <<life, boots, now, ledger, disk, act, provider>>

Proved(o) ==
  LET s == Settlement(ledger[o], wk[o].closing) IN
  IF wk[o].retiring THEN Retired(s, wk[o].create) ELSE s

\* Mutant: the stop of an ambiguous owner settles it.
Provable_DespiteAmbiguity(o) ==
  /\ act[o].pc = "idle"
  /\ wk[o].retiring => \A p \in Prompts :
       ledger[o].prompts[p].present => ledger[o].prompts[p].settled \/ p \in wk[o].closing

(* An ambiguous owner keeps its authority: a stop is containment and does  *)
(* not prove that an unacknowledged request cannot arrive later.  The      *)
(* commit is also given up as a whole when a request is live or a prompt   *)
(* of a retiring owner is not settled.                                     *)
Provable(o) ==
  /\ ~wk[o].ambiguous /\ act[o].pc = "idle"
  /\ wk[o].retiring => \A p \in Prompts :
       ledger[o].prompts[p].present => ledger[o].prompts[p].settled \/ p \in wk[o].closing

Prove(o) ==
  /\ wk[o].pc = "prove" /\ Provable(o)
  /\ Save(With(o, Proved(o))) \/ Lose(With(o, Proved(o)))
  /\ WorkerEnds(o)
  /\ UNCHANGED <<boots, now, act, provider>>

(* A remote call fails, times out or loses its answer, or the evidence is  *)
(* not enough; a later attempt starts over.                                *)
WorkerFails(o) ==
  /\ wk[o].pc # "idle"
  /\ wk[o].pc = "prove" => life = "poisoned" \/ ~Provable(o)
  /\ WorkerEnds(o)
  /\ UNCHANGED <<life, boots, now, ledger, disk, act, provider>>

-----------------------------------------------------------------------------
(* The Foundry provider (external).                                        *)

CreateLands(o, id) ==
  /\ remote[o][id] = "creating"
  /\ \E st \in {"active", "refused"} : remote' = [remote EXCEPT ![o][id] = st]
  /\ UNCHANGED <<life, boots, now, ledger, disk, act, wk, wire, answered>>

InferenceLands(o, p, n) ==
  /\ wire[o][p][n] = "flying"
  /\ \E id \in Ids :
       /\ remote[o][id] \in Live
       /\ remote' = [remote EXCEPT ![o][id] = IF @ = "idle" THEN "active" ELSE @]
  /\ wire' = [wire EXCEPT ![o][p][n] = "running"]
  /\ UNCHANGED <<life, boots, now, ledger, disk, act, wk, answered>>

InferenceRefused(o, p, n) ==
  /\ wire[o][p][n] = "flying"
  /\ wire' = [wire EXCEPT ![o][p][n] = "refused"]
  /\ UNCHANGED <<life, boots, now, ledger, disk, act, wk, remote, answered>>

ResponseEnds(o, p, n) ==
  /\ wire[o][p][n] = "running"
  /\ \E st \in {"completed", "ended"} : wire' = [wire EXCEPT ![o][p][n] = st]
  /\ UNCHANGED <<life, boots, now, ledger, disk, act, wk, remote, answered>>

(* A session reported idle runs nothing: a stop ends what still runs.      *)
SessionIdles(o, id) ==
  /\ \/ remote[o][id] = "stopping"
     \/ remote[o][id] = "active" /\ \A p \in Prompts, n \in Seqs : wire[o][p][n] # "running"
  /\ remote' = [remote EXCEPT ![o][id] = "idle"]
  /\ wire' = [wire EXCEPT ![o] = [p \in Prompts |-> [n \in Seqs |->
                 IF @[p][n] = "running" THEN "ended" ELSE @[p][n]]]]
  /\ UNCHANGED <<life, boots, now, ledger, disk, act, wk, answered>>

-----------------------------------------------------------------------------
(* The process.                                                            *)

Tick ==
  /\ now < MaxTime /\ now' = now + 1
  /\ UNCHANGED <<life, boots, ledger, disk, act, wk, provider>>

Shutdown ==
  /\ life = "up" /\ life' = "draining"
  /\ UNCHANGED <<boots, now, ledger, disk, act, wk, provider>>

(* The process ends, cleanly or not: what it held in memory is gone.       *)
Stop ==
  /\ life # "down" /\ boots < MaxBoots
  /\ life' = "down" /\ ledger' = disk
  /\ act' = [o \in Owners |-> Idle] /\ wk' = [o \in Owners |-> NoWorker]
  /\ UNCHANGED <<boots, now, disk, provider>>

\* Mutant: a restart leaves unsettled prompts open.
Recovered_KeepsOpen(L) == L

(* newLifecycleBroker: a valid ledger is loaded and every unsettled prompt *)
(* is closed; its invocations are left as they are.                        *)
Recovered(L) ==
  [o \in Owners |-> Closed(L[o], {p \in Prompts : ~L[o].prompts[p].settled})]

(* The process starts, or gives up when the recovery's commit fails: the   *)
(* file may then hold the old or the new bytes.                            *)
Restart ==
  /\ life = "down" /\ boots < MaxBoots /\ LedgerValid(disk)
  /\ ledger' = Recovered(disk) /\ disk' = Recovered(disk)
  /\ \/ life' = "up" /\ boots' = boots + 1
     \/ UNCHANGED <<life, boots>>
  /\ UNCHANGED <<now, act, wk, provider>>

-----------------------------------------------------------------------------
Requests(o) ==
  \/ \E p \in Prompts, ge \in Grants : Renew(o, p, ge[1], ge[2])
  \/ \E p \in Prompts, g \in 1..MaxGeneration, e \in Times : Settle(o, p, g, e)
  \/ Retire(o)
  \/ \E p \in Prompts : ClosePrompt(o, p)
  \/ \E p \in Prompts, ge \in Grants, n \in Seqs, prev \in Refs \cup {None} :
       Reserve(o, p, ge[1], ge[2], n, prev)

Invocation(o) ==
  \/ CreateIntent(o) \/ SendCreate(o) \/ CreateDisproved(o) \/ CreateAcknowledged(o)
  \/ InferenceIntent(o) \/ SendInference(o) \/ InferenceRejected(o)
  \/ InferenceAccepted(o) \/ InferenceCompleted(o) \/ InvokeFails(o) \/ Finish(o)

Cleanup(o) ==
  \/ Reconcile(o) \/ StopSession(o) \/ StopProved(o) \/ DeleteSession(o)
  \/ DeleteProved(o) \/ WorkerFails(o) \/ Prove(o)

Provider(o) ==
  \/ \E id \in Ids : CreateLands(o, id) \/ SessionIdles(o, id)
  \/ \E p \in Prompts, n \in Seqs :
       InferenceLands(o, p, n) \/ InferenceRefused(o, p, n) \/ ResponseEnds(o, p, n)

Process == Tick \/ Sweep \/ StorageFails \/ Shutdown \/ Stop \/ Restart

Next ==
  \/ \E o \in Owners : Requests(o) \/ Invocation(o) \/ Cleanup(o) \/ Provider(o)
  \/ Process

Spec == Init /\ [][Next]_vars

(* Fairness.  The sweeper ticks until shutdown, so expiry and cleanup are  *)
(* attempted again and again; a goroutine runs on when its request is      *)
(* bounded by the operation deadline or cancelled, but an open inference   *)
(* may stay open.  A provider call that is repeated for ever is answered in*)
(* the end (strong fairness), and a session that was told to stop gets idle*)
(* (external).  Nothing is assumed of the supervisor or of ticks.          *)
Bounded(o) == act[o].pc \in {"createReady", "creating", "ready", "finish"} \/ ~CtxAlive(o)

Fairness ==
  /\ WF_vars(Sweep)
  /\ \A o \in Owners :
       /\ WF_vars(Bounded(o) /\ Invocation(o))
       /\ WF_vars(Reconcile(o)) /\ WF_vars(Prove(o) \/ WorkerFails(o))
       /\ SF_vars(StopSession(o)) /\ SF_vars(StopProved(o))
       /\ SF_vars(DeleteSession(o)) /\ SF_vars(DeleteProved(o))
       /\ \A id \in Ids : WF_vars(SessionIdles(o, id))

FairSpec == Spec /\ Fairness

-----------------------------------------------------------------------------
(* The answer to a control request: controlResponseLocked and              *)
(* canAcknowledgeCreateRenewalLocked.                                      *)

CreatePending(o) == ledger[o].create = "intent"

Serves(o, p) == act[o].pc # "idle" /\ act[o].prompt = p

AmbiguousIn(o, p) == \E n \in Seqs :
  LET q == ledger[o].prompts[p] IN
  \/ q.state[n] = "uncertain"
  \/ q.state[n] = "intent" /\ ~(Serves(o, p) /\ n = q.last)

ActiveIn(o, p) == \E n \in Seqs :
  LET q == ledger[o].prompts[p] IN
  \/ q.state[n] = "intent" /\ Serves(o, p) /\ n = q.last
  \/ q.state[n] \in {"accepted", "reserved"} /\ ~q.settled

Blocked(o, P) == CreatePending(o) \/ \E p \in P : AmbiguousIn(o, p)

\* Mutant: a closing prompt's renewal is acknowledged.
AcknowledgesRenewal_WhileClosing(o, p, g, e) ==
  LET s == ledger[o]  q == s.prompts[p] IN
  /\ life = "up" /\ CreatePending(o) /\ ~AmbiguousIn(o, p)
  /\ ~s.retired /\ s.current = p
  /\ ~q.settled /\ q.generation = g /\ q.expires = e /\ Alive(q)
  /\ Serves(o, p) /\ q.last # 0 /\ q.state[q.last] = "reserved"
  /\ \A n \in Seqs : q.state[n] # "absent" => n = q.last

AcknowledgesRenewal(o, p, g, e) ==
  LET s == ledger[o]  q == s.prompts[p] IN
  /\ life = "up" /\ CreatePending(o) /\ ~AmbiguousIn(o, p)
  /\ ~s.retiring /\ ~s.retired /\ s.current = p
  /\ ~q.closing /\ ~q.settled /\ q.generation = g /\ q.expires = e /\ Alive(q)
  /\ Serves(o, p) /\ q.last # 0 /\ q.state[q.last] = "reserved"
  /\ \A n \in Seqs : q.state[n] # "absent" => n = q.last

-----------------------------------------------------------------------------
(* Safety.                                                                 *)

(* Whatever a crash or a failed write leaves on disk, brokerLedgerValid    *)
(* refuses it at the next start for one reason only: a prompt whose lease  *)
(* is the zero time.  Such a prompt never carried an invocation, for it was*)
(* unknown when a settlement named that lease (Settle, brokerEnsurePrompt).*)
OnlyZeroLeaseIsRefused ==
  \A o \in Owners :
    /\ OwnerFits(disk[o])
    /\ \A p \in Prompts : disk[o].prompts[p].present =>
         /\ PromptFits(disk[o], p)
         /\ disk[o].prompts[p].expires = ZeroTime =>
              \A n \in Seqs : disk[o].prompts[p].state[n] = "absent"

(* docs/harness-v2.md:255 says that "Lease expiry and broker startup       *)
(* trigger cleanup of exactly owned sessions", so a start accepts the file.*)
(* The code breaks it: a settlement's lease is not bounded, the zero time  *)
(* is committed, and the validator then refuses the whole ledger.          *)
StartupAccepts == life = "down" => LedgerValid(disk)

(* A settled prompt, in memory or on disk, has no inference request that   *)
(* runs or may still reach the provider (reconcile's evidence).            *)
SettledIsQuiet ==
  \A L \in {ledger, disk}, o \in Owners, p \in Prompts :
    L[o].prompts[p].settled => \A n \in Seqs : wire[o][p][n] \notin Outstanding

(* A retired owner has no provider session, none that a delayed creation   *)
(* may still produce, and no work (reconcile, remoteSessionDelete).        *)
RetiredIsGone ==
  \A L \in {ledger, disk}, o \in Owners : L[o].retired =>
    /\ \A id \in Ids : remote[o][id] \in {"unused", "refused", "deleted"}
    /\ \A p \in Prompts, n \in Seqs : wire[o][p][n] \notin Outstanding

(* An owner never has two provider sessions, existing or possible: a       *)
(* creation is attempted again only after a definite refusal (invoke).     *)
OneSession ==
  \A o \in Owners, i, j \in Ids :
    remote[o][i] \in Live \cup {"creating"} /\ remote[o][j] \in Live \cup {"creating"} => i = j

(* What the provider has or may yet receive is owned by the file: a session*)
(* by its id and creation state, an inference by an unresolved invocation. *)
(* Intents are committed before they are sent and kept until resolved.     *)
OwnedOnDisk ==
  \A o \in Owners :
    /\ \A id \in Ids : remote[o][id] \in Live \cup {"creating"} =>
         disk[o].remote = id /\ disk[o].create \in {"intent", "known"}
    /\ \A p \in Prompts, n \in Seqs :
         /\ wire[o][p][n] = "flying" => disk[o].prompts[p].state[n] \in {"intent", "uncertain"}
         /\ wire[o][p][n] = "running" =>
              disk[o].prompts[p].state[n] \in {"intent", "uncertain", "accepted"}

(* A task attempt has one prompt key: a retry under another request digest *)
(* is refused for ever, also after the first key settled (EnsurePrompt).   *)
OneKeyPerAttempt ==
  \A o \in Owners, p, q \in Prompts :
    disk[o].prompts[p].present /\ disk[o].prompts[q].present
      /\ Attempt[p] = Attempt[q] => p = q

(* Cleanup and a live invocation of the same owner never overlap, although *)
(* the worker holds no lock while it talks to the provider: what it        *)
(* captured keeps every new invocation out until it has committed.         *)
CleanupIsExclusive == \A o \in Owners : wk[o].pc # "idle" => act[o].pc = "idle"

(* An answer that reports nothing active, ambiguous or pending is true:    *)
(* no request of the owner is unacknowledged at the provider.              *)
QuietAnswerIsTrue ==
  \A o \in Owners :
    ~Blocked(o, Prompts) /\ (\A p \in Prompts : ~ActiveIn(o, p)) =>
      /\ \A id \in Ids : remote[o][id] # "creating"
      /\ \A p \in Prompts, n \in Seqs : wire[o][p][n] # "flying"

(* A renewal acknowledged while the session's creation is pending belongs  *)
(* to the request that still owns that creation, with its lease on disk    *)
(* and no inference sent for the prompt.                                   *)
AcknowledgedRenewalIsOwned ==
  \A o \in Owners, p \in Prompts, g \in 1..MaxGeneration, e \in Times :
    AcknowledgesRenewal(o, p, g, e) =>
      /\ act[o].prompt = p /\ ~act[o].cancelled /\ disk[o] = ledger[o]
      /\ act[o].pc \in {"createReady", "creating", "finish"}
      /\ \A n \in Seqs : wire[o][p][n] = "unsent"

(* An open prompt has no orphan: every invocation of it that is not        *)
(* completed is served by the owner's live request.  A restart closes what *)
(* the old process left, so that nothing is resumed (newLifecycleBroker).  *)
OpenIsServed ==
  \A o \in Owners, p \in Prompts, n \in Seqs :
    LET q == disk[o].prompts[p] IN
    Healthy /\ q.present /\ ~q.closing =>
      q.state[n] \in {"absent", "completed"} \/ (Serves(o, p) /\ act[o].seq = n)

(* Nothing is dispatched once the prompt's closing, the owner's retirement *)
(* or a storage failure is durable: cancellation under the same lock as    *)
(* the commit stops a request that was about to be sent.                   *)
DispatchNeedsAuthority ==
  [][\A o \in Owners, p \in Prompts, n \in Seqs :
       wire[o][p][n] # "flying" /\ wire'[o][p][n] = "flying" =>
         /\ life = "up" /\ ~disk[o].retiring
         /\ ~disk[o].prompts[p].closing /\ ~disk[o].prompts[p].settled]_vars

(* A session is deleted only for a durable retirement and never overtakes  *)
(* a request of its owner that the provider has not answered, although the *)
(* worker decided on it earlier and without the lock (remoteSessionDelete).*)
DeletionIsClean ==
  [][\A o \in Owners, id \in Ids :
       remote[o][id] # "deleted" /\ remote'[o][id] = "deleted" =>
         /\ disk[o].retiring
         /\ \A p \in Prompts, n \in Seqs : wire[o][p][n] # "flying"
         /\ \A j \in Ids : remote[o][j] # "creating"]_vars

(* No inference is sent twice under one sequence and no creation twice     *)
(* under one id, over retries and restarts.                                *)
SentOnce ==
  [][\A o \in Owners :
       /\ \A p \in Prompts, n \in Seqs :
            wire[o][p][n] # "flying" /\ wire'[o][p][n] = "flying" => wire[o][p][n] = "unsent"
       /\ \A id \in Ids :
            remote[o][id] # "creating" /\ remote'[o][id] = "creating" => remote[o][id] = "unused"]_vars

(* The function calls of a response are answered once, and only by an      *)
(* invocation of the prompt that received them (brokerTranslatePrevious).  *)
CallsAnsweredOnce ==
  [][\A o \in Owners :
       act[o].pc = "ready" /\ act'[o].pc = "waiting" /\ AnswersCalls(o) =>
         /\ act[o].previous \notin answered[o]
         /\ act[o].previous[1] = act[o].prompt]_vars

-----------------------------------------------------------------------------
(* Liveness, under FairSpec.  An owner whose creation or inference may     *)
(* still be under way stays blocked on purpose, and a broker that is       *)
(* shutting down or lost its storage leaves the rest to the next start.    *)

Blocks(o) == CreatePending(o) \/ Ambiguous(ledger[o]) \/ life # "up"

(* A prompt that is closing, or whose lease has run out, is settled unless *)
(* its owner is blocked (sweep, startReconcile, reconcile).                *)
ClosingSettles ==
  \A o \in Owners, p \in Prompts :
    LET q == ledger[o].prompts[p] IN
    q.present /\ (q.closing \/ ~Alive(q)) ~> q.settled \/ Blocks(o)

(* A retiring owner is retired unless it is blocked, also when it has no   *)
(* prompt left to settle.                                                  *)
RetiringRetires ==
  \A o \in Owners : ledger[o].retiring ~> ledger[o].retired \/ Blocks(o)

(* Cleanup gets done: neither a prompt nor an owner is left half closed.   *)
CleanupEnds == ClosingSettles /\ RetiringRetires

-----------------------------------------------------------------------------
(* Refinement: the file and the provider, seen as the ownership contract.  *)

Authority(q) ==
  CASE ~q.present -> "none"
    [] q.present /\ q.settled -> "settled"
    [] q.present /\ ~q.settled /\ q.closing -> "closed"
    [] OTHER -> "open"

OwnerState(s) ==
  CASE s.retired -> "retired"
    [] ~s.retired /\ s.retiring -> "retiring"
    [] OTHER -> "open"

SessionState(r) ==
  CASE \E id \in Ids : r[id] \in Live \cup {"creating"} -> "possible"
    [] \A id \in Ids : r[id] \in {"unused", "refused"} -> "absent"
    [] OTHER -> "gone"

Contract == INSTANCE OwnershipContract WITH
  Work <- Seqs,
  authority <- [o \in Owners |-> [p \in Prompts |-> Authority(disk[o].prompts[p])]],
  owner <- [o \in Owners |-> OwnerState(disk[o])],
  session <- [o \in Owners |-> SessionState(remote[o])],
  work <- [o \in Owners |-> [p \in Prompts |->
             {n \in Seqs : wire[o][p][n] \in Outstanding}]]

(* The broker implements the ownership contract.                           *)
KeepsContract == Contract!Spec
=============================================================================
