------------------------ MODULE LifecycleBrokerSafety ------------------------
(***************************************************************************)
(* Every step of the lifecycle broker preserves the invariant of           *)
(* LifecycleBrokerProofs, whatever the numbers of owners, prompts,         *)
(* sequences, sessions and restarts, and the safety theorems that follow:  *)
(* of its states, and of what a step may never do at the provider.         *)
(***************************************************************************)
EXTENDS LifecycleBrokerProofs

-----------------------------------------------------------------------------
(* Steps of one owner.                                                     *)

(* A step of an owner that leaves the others alone needs only that owner's *)
(* part of the invariant.                                                  *)
LEMMA OthersKeep ==
  ASSUME IInv, NEW o \in Owners, OwnerInv(o)', Healthy' => Healthy,
         \A x \in Owners \ {o} :
           /\ ledger'[x] = ledger[x] /\ disk'[x] = disk[x] /\ act'[x] = act[x]
           /\ wk'[x] = wk[x] /\ remote'[x] = remote[x] /\ wire'[x] = wire[x]
  PROVE  \A x \in Owners : OwnerInv(x)'
<1>1. ASSUME NEW x \in Owners, x # o
      PROVE  OwnerInv(x)'
  <2>1. OwnerInv(x)
    BY DEF IInv
  <2>2. Healthy' => Tended(ledger'[x], act'[x])
    BY <1>1, <2>1 DEF OwnerInv
  <2>3. QED
    BY <1>1, <2>1, <2>2 DEF OwnerInv
<1>2. QED
  BY <1>1

(* A commit of the owner's record s, saved or lost.                        *)
LEMMA CommitKeeps ==
  ASSUME IInv, NEW o \in Owners, NEW s \in Session, UNCHANGED <<remote, wire>>,
         \A x \in Owners \ {o} : act'[x] = act[x] /\ wk'[x] = wk[x],
         RecordOK(s, wire[o], remote[o]),
         \/ /\ Save(With(o, s)) /\ CallOK(s, act'[o], wire[o], remote[o])
            /\ WorkerOK(s, act'[o], wk'[o], wire[o], remote[o]) /\ Tended(s, act'[o])
         \/ /\ Lose(With(o, s)) /\ CallOK(ledger[o], act'[o], wire[o], remote[o])
            /\ WorkerOK(ledger[o], act'[o], wk'[o], wire[o], remote[o])
  PROVE  StoreInv' /\ \A x \in Owners : OwnerInv(x)'
<1>1. /\ ledger \in [Owners -> Session] /\ disk = ledger
      /\ RecordOK(ledger[o], wire[o], remote[o]) /\ ProviderOK(wire[o], remote[o])
  BY DEF IInv, TypeOK, StoreInv, OwnerInv, Save, Lose
<1>2. With(o, s)[o] = s /\ \A x \in Owners \ {o} : With(o, s)[x] = ledger[x]
  BY <1>1 DEF With
<1>3. CASE Save(With(o, s)) /\ CallOK(s, act'[o], wire[o], remote[o])
           /\ WorkerOK(s, act'[o], wk'[o], wire[o], remote[o]) /\ Tended(s, act'[o])
  <2>1. ledger'[o] = s /\ disk'[o] = s /\ disk' = ledger'
    BY <1>2, <1>3 DEF Save
  <2>2. OwnerInv(o)'
    BY <1>1, <1>3, <2>1 DEF OwnerInv
  <2>3. \A x \in Owners \ {o} : ledger'[x] = ledger[x] /\ disk'[x] = disk[x]
    BY <1>1, <1>2, <1>3 DEF Save
  <2>4. StoreInv' /\ (Healthy' => Healthy)
    BY <1>3, <2>1 DEF StoreInv, Save, Healthy
  <2>5. QED
    BY <2>2, <2>3, <2>4, OthersKeep
<1>4. CASE Lose(With(o, s)) /\ CallOK(ledger[o], act'[o], wire[o], remote[o])
           /\ WorkerOK(ledger[o], act'[o], wk'[o], wire[o], remote[o])
  <2>1. ledger'[o] = ledger[o] /\ disk'[o] = s
    BY <1>2, <1>4 DEF Lose
  <2>2. OwnerInv(o)'
    BY <1>1, <1>4, <2>1 DEF OwnerInv, Lose, Healthy
  <2>3. \A x \in Owners \ {o} : ledger'[x] = ledger[x] /\ disk'[x] = disk[x]
    BY <1>1, <1>2, <1>4 DEF Lose
  <2>4. StoreInv' /\ (Healthy' => Healthy)
    BY <1>4 DEF StoreInv, Lose, Healthy
  <2>5. QED
    BY <2>2, <2>3, <2>4, OthersKeep
<1>5. QED
  BY <1>3, <1>4

(* A step that commits nothing.                                            *)
LEMMA OwnerKeeps ==
  ASSUME IInv, NEW o \in Owners, UNCHANGED <<life, ledger, disk>>, life # "down",
         \A x \in Owners \ {o} : /\ act'[x] = act[x] /\ wk'[x] = wk[x]
                                 /\ remote'[x] = remote[x] /\ wire'[x] = wire[x],
         RecordOK(ledger[o], wire'[o], remote'[o]),
         RecordOK(disk[o], wire'[o], remote'[o]),
         ProviderOK(wire'[o], remote'[o]),
         CallOK(ledger[o], act'[o], wire'[o], remote'[o]),
         WorkerOK(ledger[o], act'[o], wk'[o], wire'[o], remote'[o]),
         Healthy => Tended(ledger[o], act'[o])
  PROVE  StoreInv' /\ \A x \in Owners : OwnerInv(x)'
<1>1. OwnerInv(o)'
  BY DEF OwnerInv, Healthy
<1>2. StoreInv' /\ (Healthy' => Healthy)
  BY DEF IInv, StoreInv, Healthy
<1>3. QED
  BY <1>1, <1>2, OthersKeep

(* A goroutine of the owner runs: the process is there.                    *)
LEMMA RunningIsUp ==
  ASSUME IInv, NEW o \in Owners, act[o].pc # "idle" \/ wk[o].pc # "idle"
  PROVE  life # "down"
BY DEF IInv, StoreInv, Idle, NoWorker

(* What a request of the owner may rely on.                                *)
LEMMA OwnerFacts ==
  ASSUME IInv, NEW o \in Owners
  PROVE  /\ ledger[o] \in Session /\ act[o] \in Call /\ wk[o] \in Worker
         /\ RecordOK(ledger[o], wire[o], remote[o]) /\ SessionFits(ledger[o])
         /\ RecordOK(disk[o], wire[o], remote[o])
         /\ ProviderOK(wire[o], remote[o])
         /\ CallOK(ledger[o], act[o], wire[o], remote[o])
         /\ WorkerOK(ledger[o], act[o], wk[o], wire[o], remote[o])
         /\ Healthy => Tended(ledger[o], act[o])
         /\ act[o].pc # "idle" =>
              act[o] \in LiveCall /\ wk[o].pc = "idle" /\ CallOK(ledger[o], act[o], wire[o], remote[o])
BY CallTyped DEF IInv, TypeOK, OwnerInv, RecordOK, WorkerOK

(* A prompt is opened, or an invocation admitted, only beside an owner's   *)
(* idle request and idle worker.                                           *)
LEMMA OpeningIsAlone ==
  ASSUME IInv, NEW o \in Owners, NEW p \in Prompts, CanOpen(ledger[o], p)
  PROVE  act[o].pc = "idle" /\ wk[o].pc = "idle"
<1>1. act[o].pc = "idle"
  BY OwnerFacts DEF CanOpen, CallOK, Unfinished, SessionFits, PromptsFit, LiveCall
<1>2. wk[o].pc = "idle"
  BY OwnerFacts, NoneAssumption DEF CanOpen, WorkerOK, Unfinished
<1>3. QED
  BY <1>1, <1>2

(* So an opened prompt, which has no invocation yet, is tended.            *)
LEMMA OpenedTended ==
  ASSUME IInv, NEW o \in Owners, NEW p \in Prompts, CanOpen(ledger[o], p), Healthy,
         NEW g, NEW e
  PROVE  Tended(Opened(ledger[o], p, g, e), act[o])
<1> DEFINE s == ledger[o]  t == Opened(s, p, g, e)
<1>1. s \in Session /\ Tended(s, act[o]) /\ act[o].pc = "idle"
  BY OwnerFacts, OpeningIsAlone
<1>2. /\ \A q \in Prompts \ {p} : t.prompts[q] = s.prompts[q]
      /\ \A n \in Seqs : t.prompts[p].state[n] = "absent"
  BY <1>1 DEF Opened, Session, NoPrompt
<1>3. QED
  BY <1>1, <1>2 DEF Tended, Early

(* Cancelling a call changes nothing else of it.                           *)
LEMMA CancelledIs ==
  ASSUME NEW a \in Call
  PROVE  LET b == Cancelled(a) IN
         /\ b.pc = a.pc /\ b.prompt = a.prompt /\ b.seq = a.seq /\ b.error = a.error
         /\ b.previous = a.previous
         /\ a.pc # "idle" => b.cancelled
<1>1. CASE a = Idle
  BY <1>1 DEF Cancelled, Idle
<1>2. CASE a \in LiveCall
  BY <1>2 DEF Cancelled, LiveCall
<1>3. QED
  BY <1>1, <1>2 DEF Call

(* A change that opens nothing and touches no invocation leaves it tended. *)
LEMMA TendedKeeps ==
  ASSUME NEW s, NEW t, NEW a \in Call, NEW b, Tended(s, a),
         b.pc = a.pc, b.prompt = a.prompt, b.seq = a.seq, b.previous = a.previous,
         \A q \in Prompts :
           /\ t.prompts[q].present /\ ~t.prompts[q].closing =>
                s.prompts[q].present /\ ~s.prompts[q].closing
           /\ t.prompts[q].state = s.prompts[q].state
           /\ t.prompts[q].link = s.prompts[q].link
           /\ t.prompts[q].alias = s.prompts[q].alias
  PROVE  Tended(t, b)
<1>1. \A p \in Prompts, n \in Seqs :
        t.prompts[p].present /\ ~t.prompts[p].closing =>
          \/ t.prompts[p].state[n] \in {"absent", "completed"}
          \/ b.pc # "idle" /\ b.prompt = p /\ b.seq = n
  BY DEF Tended
<1>2. ASSUME b.pc \in Early, AnswersCallsOf(t, b.previous)
      PROVE  b.previous = <<b.prompt, t.prompts[b.prompt].alias>>
  <2>1. a \in LiveCall
    BY <1>2 DEF Call, Idle, Early
  <2>2. a.prompt \in Prompts /\ a.previous \in Refs
    BY <1>2, <2>1 DEF LiveCall, AnswersCallsOf
  <2>3. a.previous[1] \in Prompts
    BY <2>2 DEF Refs
  <2>4. AnswersCallsOf(s, a.previous)
    BY <1>2, <2>3 DEF AnswersCallsOf
  <2>5. a.previous = <<a.prompt, s.prompts[a.prompt].alias>>
    BY <1>2, <2>4 DEF Tended
  <2>6. QED
    BY <2>2, <2>5
<1>3. QED
  BY <1>1, <1>2 DEF Tended

(* Closing prompts, with the call of one of them cancelled, disturbs       *)
(* neither the call nor the worker.                                        *)
LEMMA ClosedKeeps ==
  ASSUME NEW s \in Session, NEW a \in Call, NEW k \in Worker, NEW v, NEW r, NEW P, NEW b,
         CallOK(s, a, v, r), WorkerOK(s, a, k, v, r),
         \/ b = Cancelled(a) /\ (a.pc # "idle" => a.prompt \in P)
         \/ b = a /\ (a.pc # "idle" => a.prompt \notin P)
  PROVE  /\ CallOK(Closed(s, P), b, v, r) /\ WorkerOK(Closed(s, P), b, k, v, r)
         /\ Tended(s, a) => Tended(Closed(s, P), b)
<1> DEFINE t == Closed(s, P)
<1>0. /\ b.pc = a.pc /\ b.prompt = a.prompt /\ b.seq = a.seq /\ b.error = a.error
      /\ b.previous = a.previous
      /\ a.pc # "idle" => \/ b.cancelled /\ a.prompt \in P
                          \/ (b.cancelled <=> a.cancelled) /\ a.prompt \notin P
      /\ a.pc # "idle" => a.prompt \in Prompts
  BY CancelledIs DEF Call, LiveCall, Idle
<1>1. CallOK(t, b, v, r)
  <2> SUFFICES ASSUME a.pc # "idle" PROVE CallOK(t, b, v, r)
    BY <1>0 DEF CallOK
  <2>1. CallSteps(b.pc, b.error, t.prompts[b.prompt].state[b.seq], v[b.prompt][b.seq], t.create)
    BY <1>0, ClosedIs DEF CallOK, CallSteps
  <2>2. t.retiring \/ t.prompts[b.prompt].closing <=> b.cancelled
    <3>1. /\ s.retiring \/ s.prompts[a.prompt].closing <=> a.cancelled
          /\ s.prompts[a.prompt].present /\ a.prompt \in Prompts
      BY <1>0 DEF CallOK, Unfinished
    <3>2. /\ t.retiring <=> s.retiring
          /\ t.prompts[a.prompt].closing <=> s.prompts[a.prompt].closing \/ a.prompt \in P
      BY <3>1, ClosedIs
    <3>3. QED
      BY <1>0, <3>1, <3>2
  <2>3. QED
    BY <1>0, <2>1, <2>2, ClosedIs DEF CallOK, Unfinished
<1>2. WorkerOK(t, b, k, v, r)
  <2> SUFFICES ASSUME k.pc # "idle" PROVE WorkerOK(t, b, k, v, r)
    BY DEF WorkerOK
  <2>1. k \in LiveWorker
    BY DEF Worker, NoWorker
  <2>2. \A p \in k.closing : t.prompts[p].present /\ t.prompts[p].closing
    BY <2>1, ClosedIs DEF WorkerOK, LiveWorker
  <2>3. t.retiring \/ (/\ t.current \in Prompts
                       /\ t.prompts[t.current].closing /\ Unfinished(t, t.current))
    BY ClosedIs DEF WorkerOK, Unfinished
  <2>4. QED
    BY <1>0, <2>2, <2>3, ClosedIs DEF WorkerOK
<1>3. Tended(s, a) => Tended(t, b)
  <2>1. \A q \in Prompts :
          /\ t.prompts[q].present /\ ~t.prompts[q].closing =>
               s.prompts[q].present /\ ~s.prompts[q].closing
          /\ t.prompts[q].state = s.prompts[q].state
          /\ t.prompts[q].link = s.prompts[q].link
          /\ t.prompts[q].alias = s.prompts[q].alias
    BY ClosedIs
  <2>2. QED
    BY <1>0, <2>1, TendedKeeps
<1>4. QED
  BY <1>1, <1>2, <1>3

(* Retiring the owner, with its call cancelled, disturbs neither.          *)
LEMMA RetirementKeeps ==
  ASSUME NEW s \in Session, NEW a \in Call, NEW k \in Worker, NEW v, NEW r,
         CallOK(s, a, v, r), WorkerOK(s, a, k, v, r)
  PROVE  /\ CallOK(Retirement(s), Cancelled(a), v, r)
         /\ WorkerOK(Retirement(s), Cancelled(a), k, v, r)
         /\ Tended(s, a) => Tended(Retirement(s), Cancelled(a))
<1> DEFINE c == Closed(s, Prompts)  t == Retirement(s)  b == Cancelled(a)
<1>0. a.pc # "idle" => a.prompt \in Prompts
  BY DEF Call, Idle, LiveCall
<1>1. /\ CallOK(c, b, v, r) /\ WorkerOK(c, b, k, v, r)
      /\ Tended(s, a) => Tended(c, b)
  BY <1>0, ClosedKeeps
<1>2. /\ t.retiring /\ t.current = c.current /\ t.create = c.create /\ t.remote = c.remote
      /\ t.retired = c.retired /\ t.prompts = c.prompts
  BY RetirementIs, ClosedIs
<1>3. a.pc # "idle" => b.cancelled
  BY CancelledIs
<1>4. CallOK(t, b, v, r)
  BY <1>1, <1>2, <1>3, CancelledIs DEF CallOK, Unfinished
<1>5. WorkerOK(t, b, k, v, r)
  BY <1>1, <1>2 DEF WorkerOK, Unfinished
<1>6. Tended(s, a) => Tended(t, b)
  BY <1>1, <1>2 DEF Tended, AnswersCallsOf
<1>7. QED
  BY <1>4, <1>5, <1>6

(* A request that may cancel the owner's call.                             *)
LEMMA CancelIfIs ==
  ASSUME TypeOK, NEW o \in Owners, NEW cond \in BOOLEAN, CancelIf(o, cond)
  PROVE  /\ act'[o] = IF cond THEN Cancelled(act[o]) ELSE act[o]
         /\ \A x \in Owners \ {o} : act'[x] = act[x]
BY DEF TypeOK, CancelIf

-----------------------------------------------------------------------------
(* The requests of the supervisor and of the child.                        *)

(* A renewal finds the prompt open or opens it.                            *)
LEMMA RenewKeeps ==
  ASSUME IInv, NEW o \in Owners, NEW p \in Prompts, NEW ge \in Grants, Renew(o, p, ge[1], ge[2])
  PROVE  StoreInv' /\ \A x \in Owners : OwnerInv(x)'
<1> DEFINE s == ledger[o]  g == ge[1]  e == ge[2]  t == Renewed(s, p, g, e)
<1>1. /\ t \in Session /\ RecordOK(t, wire[o], remote[o])
      /\ act'[o] = act[o] /\ wk'[o] = wk[o]
  BY OwnerFacts, GrantsTyped, RenewedTyped, RecordRenewed DEF Renew
<1>2. CASE ~s.prompts[p].present
  <2>1. CanOpen(s, p)
    BY <1>2 DEF Renew
  <2>2. CallOK(t, act[o], wire[o], remote[o]) /\ WorkerOK(t, act[o], wk[o], wire[o], remote[o])
    BY <2>1, OpeningIsAlone DEF CallOK, WorkerOK
  <2>3. Healthy => Tended(t, act[o])
    BY <1>2, <2>1, OpenedTended DEF Renewed
  <2>4. QED
    BY <1>1, <2>2, <2>3, OwnerFacts, CommitKeeps DEF Renew, Save, provider
<1>3. CASE s.prompts[p].present
  <2>1. /\ t.create = s.create /\ t.remote = s.remote /\ t.retired = s.retired
        /\ t.retiring = s.retiring /\ t.current = s.current
        /\ \A q \in Prompts :
             /\ t.prompts[q].present = s.prompts[q].present
             /\ t.prompts[q].closing = s.prompts[q].closing
             /\ t.prompts[q].settled = s.prompts[q].settled
             /\ t.prompts[q].last = s.prompts[q].last
             /\ t.prompts[q].state = s.prompts[q].state
             /\ t.prompts[q].link = s.prompts[q].link
             /\ t.prompts[q].alias = s.prompts[q].alias
    BY <1>3, OwnerFacts DEF Renewed, Session, Prompt
  <2>2. CallOK(t, act[o], wire[o], remote[o])
    <3>1. act[o].pc # "idle" => act[o].prompt \in Prompts
      BY OwnerFacts DEF LiveCall
    <3>2. CallOK(s, act[o], wire[o], remote[o])
      BY OwnerFacts
    <3>3. QED
      BY <2>1, <3>1, <3>2 DEF CallOK, Unfinished
  <2>3. WorkerOK(t, act[o], wk[o], wire[o], remote[o])
    BY <2>1, OwnerFacts DEF WorkerOK, Worker, LiveWorker, NoWorker, Unfinished
  <2>4. Healthy => Tended(t, act[o])
    <3>1. act[o] \in Call /\ (Healthy => Tended(s, act[o]))
      BY OwnerFacts
    <3> HIDE DEF t
    <3>2. \A q \in Prompts : t.prompts[q].present /\ ~t.prompts[q].closing =>
                              s.prompts[q].present /\ ~s.prompts[q].closing
      BY <2>1
    <3>3. \A q \in Prompts : /\ t.prompts[q].state = s.prompts[q].state
                              /\ t.prompts[q].link = s.prompts[q].link
                              /\ t.prompts[q].alias = s.prompts[q].alias
      BY <2>1
    <3>4. ASSUME Healthy
          PROVE  Tended(t, act[o])
      <4>1. Tended(s, act[o])
        BY <3>1, <3>4
      <4> HIDE DEF s
      <4>2. QED
        BY <3>1, <3>2, <3>3, <4>1, TendedKeeps
    <3>5. QED
      BY <3>4
  <2>5. QED
    BY <1>1, <2>2, <2>3, <2>4, OwnerFacts, CommitKeeps DEF Renew, Save, provider
<1>4. QED
  BY <1>2, <1>3

(* brokerEnsurePrompt disturbs neither the call nor the worker.            *)
LEMMA EnsuredKeeps ==
  ASSUME IInv, NEW o \in Owners, NEW p \in Prompts, Ensurable(ledger[o], p), NEW g, NEW e
  PROVE  LET u == EnsurePrompt(ledger[o], p, g, e) IN
         /\ CallOK(u, act[o], wire[o], remote[o])
         /\ WorkerOK(u, act[o], wk[o], wire[o], remote[o])
         /\ Healthy => Tended(u, act[o])
<1>1. CASE ledger[o].prompts[p].present
  BY <1>1, OwnerFacts DEF EnsurePrompt
<1>2. CASE CanOpen(ledger[o], p)
  <2>1. EnsurePrompt(ledger[o], p, g, e) = Opened(ledger[o], p, g, e)
    BY <1>2 DEF CanOpen, EnsurePrompt
  <2>2. QED
    BY <1>2, <2>1, OpeningIsAlone, OpenedTended DEF CallOK, WorkerOK
<1>3. QED
  BY <1>1, <1>2 DEF Ensurable

(* A settlement closes the prompt and cancels its call.                    *)
LEMMA SettleKeeps ==
  ASSUME IInv, NEW o \in Owners, NEW p \in Prompts, NEW g \in 1..MaxGeneration, NEW e \in Times,
         Settle(o, p, g, e)
  PROVE  StoreInv' /\ \A x \in Owners : OwnerInv(x)'
<1> DEFINE u == EnsurePrompt(ledger[o], p, g, e)  t == Closed(u, {p})
           b == IF act[o].prompt = p THEN Cancelled(act[o]) ELSE act[o]
<1>0. g \in 0..MaxGeneration
  BY BoundsAssumption
<1>1. /\ u \in Session /\ RecordOK(u, wire[o], remote[o])
      /\ t \in Session /\ RecordOK(t, wire[o], remote[o])
  BY <1>0, OwnerFacts, EnsureTyped, RecordEnsured, ClosedTyped, RecordClosed DEF Settle
<1>2. /\ CallOK(u, act[o], wire[o], remote[o]) /\ WorkerOK(u, act[o], wk[o], wire[o], remote[o])
      /\ Healthy => Tended(u, act[o])
  BY EnsuredKeeps DEF Settle
<1>3. /\ CallOK(t, b, wire[o], remote[o]) /\ WorkerOK(t, b, wk[o], wire[o], remote[o])
      /\ Healthy => Tended(t, b)
  <2>1. \/ b = Cancelled(act[o]) /\ act[o].prompt \in {p}
        \/ b = act[o] /\ act[o].prompt \notin {p}
    OBVIOUS
  <2> HIDE DEF u, b
  <2>2. QED
    BY <1>1, <1>2, <2>1, OwnerFacts, ClosedKeeps
<1>4. CASE Save(With(o, t)) /\ CancelIf(o, act[o].prompt = p)
  <2>1. act'[o] = b /\ \A x \in Owners \ {o} : act'[x] = act[x]
    BY <1>4, CancelIfIs DEF IInv
  <2>2. QED
    BY <1>1, <1>3, <1>4, <2>1, CommitKeeps DEF Settle, Save, provider
<1>5. CASE Lose(With(o, t)) /\ UNCHANGED act
  BY <1>1, <1>5, OwnerFacts, CommitKeeps DEF Settle, provider
<1>6. QED
  BY <1>4, <1>5 DEF Settle

(* A retirement closes every prompt and cancels the owner's call.          *)
LEMMA RetireKeeps ==
  ASSUME IInv, NEW o \in Owners, Retire(o)
  PROVE  StoreInv' /\ \A x \in Owners : OwnerInv(x)'
<1> DEFINE t == Retirement(ledger[o])  b == Cancelled(act[o])
<1>1. t \in Session /\ RecordOK(t, wire[o], remote[o])
  BY OwnerFacts, RetirementTyped, RecordRetirement
<1>2. /\ CallOK(t, b, wire[o], remote[o]) /\ WorkerOK(t, b, wk[o], wire[o], remote[o])
      /\ Healthy => Tended(t, b)
  BY OwnerFacts, RetirementKeeps
<1>3. CASE Save(With(o, t)) /\ CancelIf(o, TRUE)
  <2>1. act'[o] = b /\ \A x \in Owners \ {o} : act'[x] = act[x]
    BY <1>3, CancelIfIs DEF IInv
  <2>2. QED
    BY <1>1, <1>2, <1>3, <2>1, CommitKeeps DEF Retire, Save, provider
<1>4. CASE Lose(With(o, t)) /\ UNCHANGED act
  BY <1>1, <1>4, OwnerFacts, CommitKeeps DEF Retire, Save, provider
<1>5. QED
  BY <1>3, <1>4 DEF Retire

(* A disconnect of the child closes like a settlement.                     *)
LEMMA ClosePromptKeeps ==
  ASSUME IInv, NEW o \in Owners, NEW p \in Prompts, ClosePrompt(o, p)
  PROVE  StoreInv' /\ \A x \in Owners : OwnerInv(x)'
<1> DEFINE t == Closed(ledger[o], {p})
           b == IF act[o].prompt = p THEN Cancelled(act[o]) ELSE act[o]
<1>1. t \in Session /\ RecordOK(t, wire[o], remote[o])
  BY OwnerFacts, ClosedTyped, RecordClosed
<1>2. /\ CallOK(t, b, wire[o], remote[o]) /\ WorkerOK(t, b, wk[o], wire[o], remote[o])
      /\ Healthy => Tended(t, b)
  <2>1. \/ b = Cancelled(act[o]) /\ act[o].prompt \in {p}
        \/ b = act[o] /\ act[o].prompt \notin {p}
    OBVIOUS
  <2> HIDE DEF b
  <2>2. QED
    BY <2>1, OwnerFacts, ClosedKeeps
<1>3. CASE Save(With(o, t)) /\ CancelIf(o, act[o].prompt = p)
  <2>1. act'[o] = b /\ \A x \in Owners \ {o} : act'[x] = act[x]
    BY <1>3, CancelIfIs DEF IInv
  <2>2. QED
    BY <1>1, <1>2, <1>3, <2>1, CommitKeeps DEF ClosePrompt, Save, provider
<1>4. CASE Lose(With(o, t)) /\ UNCHANGED act
  BY <1>1, <1>4, OwnerFacts, CommitKeeps DEF ClosePrompt, Save, provider
<1>5. QED
  BY <1>3, <1>4 DEF ClosePrompt

(* A sequence is reserved for a prompt that is open, so that no worker is  *)
(* at it, and the request of a new sequence was never sent.                *)
LEMMA ReserveKeeps ==
  ASSUME IInv, NEW o \in Owners, NEW p \in Prompts, NEW ge \in Grants, NEW n \in Seqs,
         NEW prev \in Refs \cup {None}, Reserve(o, p, ge[1], ge[2], n, prev)
  PROVE  StoreInv' /\ \A x \in Owners : OwnerInv(x)'
<1> DEFINE s == ledger[o]  u == EnsurePrompt(s, p, ge[1], ge[2])  t == Reservation(u, p, n)
           new == [Idle EXCEPT !.pc = "start", !.prompt = p, !.seq = n, !.previous = prev]
<1>1. /\ u \in Session /\ RecordOK(u, wire[o], remote[o]) /\ u.prompts[p].present
      /\ ~u.prompts[p].closing /\ ~u.prompts[p].settled /\ u.prompts[p].last < n
      /\ ~u.retiring /\ ~u.retired /\ act[o].pc = "idle" /\ life = "up"
  BY OwnerFacts, GrantsTyped, EnsureTyped, RecordEnsured DEF Reserve, Admissible, Fresh
<1>2. Unfinished(u, p) /\ u.prompts[p].state[n] = "absent" /\ wire[o][p][n] = "unsent"
  BY <1>1 DEF Unfinished, RecordOK, SessionFits, PromptsFit, WireFits, StateFits
<1>a. Tended(u, act[o])
  <2>1. Healthy
    BY <1>1 DEF Healthy
  <2>2. QED
    BY <2>1, EnsuredKeeps DEF Reserve
<1>b. u.create # "intent"
  <2>1. SUFFICES ASSUME u.create = "intent" PROVE FALSE
    OBVIOUS
  <2>2. /\ p = u.current /\ u.prompts[p].last # 0 /\ u.prompts[p].last \in 0..MaxSeq
        /\ u.prompts[p].state[u.prompts[p].last] \in {"reserved", "rejected"}
    BY <1>1, <1>2, <2>1 DEF RecordOK, SessionFits, PromptsFit, CreateFits, Pending, Session, Prompt
  <2>3. u.prompts[p].last \in Seqs
    BY <2>2, BoundsAssumption DEF Seqs
  <2>4. QED
    BY <1>1, <1>a, <2>2, <2>3 DEF Tended
<1>c. u.prompts[p].expires # ZeroTime
  <2>1. Alive(u.prompts[p]) /\ u.prompts[p] \in Prompt
    BY <1>1 DEF Reserve, Admissible, Session
  <2>2. now \in Nat /\ u.prompts[p].expires \in Nat
    BY <2>1 DEF IInv, TypeOK, Prompt, Times
  <2>3. QED
    BY <2>1, <2>2 DEF Alive, ZeroTime
<1>3. t \in Session /\ RecordOK(t, wire[o], remote[o])
  BY <1>1, <1>2, <1>b, <1>c, ProgressTyped, RecordProgress
<1>4. wk[o].pc = "idle"
  <2>1. CASE ~s.prompts[p].present
    BY <2>1, OpeningIsAlone DEF Reserve, Ensurable
  <2>2. CASE s.prompts[p].present
    <3>1. u = s
      BY <2>2 DEF EnsurePrompt
    <3>2. s.current = p
      BY <1>1, <1>2, <3>1, OwnerFacts DEF SessionFits, PromptsFit, Unfinished
    <3>3. QED
      BY <1>1, <3>1, <3>2, OwnerFacts DEF WorkerOK
  <2>3. QED
    BY <2>1, <2>2
<1>5. /\ t.retiring = u.retiring /\ t.retired = u.retired /\ t.create = u.create
      /\ t.prompts[p].closing = u.prompts[p].closing /\ t.prompts[p].last = n
      /\ t.prompts[p].present = u.prompts[p].present
      /\ t.prompts[p].settled = u.prompts[p].settled
      /\ t.prompts[p].state[n] = "reserved"
      /\ \A m \in Seqs : m # n => t.prompts[p].state[m] = u.prompts[p].state[m]
      /\ \A q \in Prompts \ {p} : t.prompts[q] = u.prompts[q]
      /\ \A q \in Prompts : t.prompts[q].link = u.prompts[q].link
      /\ \A q \in Prompts : t.prompts[q].alias = u.prompts[q].alias
  <2>1. u.prompts[p] \in Prompt
    BY <1>1 DEF Session
  <2>2. QED
    BY <1>1, <2>1 DEF Reservation, Session, Prompt
<1>6. CASE Save(With(o, t)) /\ act' = [act EXCEPT ![o] = new]
  <2>1. act'[o] = new /\ \A x \in Owners \ {o} : act'[x] = act[x]
    BY <1>6 DEF IInv, TypeOK
  <2>2. CallOK(t, new, wire[o], remote[o])
    <3>1. /\ new.pc = "start" /\ new.prompt = p /\ new.seq = n /\ ~new.cancelled
          /\ new.error = "ok"
      BY DEF Idle
    <3> HIDE DEF u, t, new
    <3>2. QED
      BY <1>1, <1>2, <1>5, <1>b, <3>1 DEF CallOK, CallSteps, Unfinished
  <2>3. WorkerOK(t, new, wk[o], wire[o], remote[o])
    BY <1>4 DEF WorkerOK
  <2>4. Tended(t, new)
    <3>1. new.pc = "start" /\ new.prompt = p /\ new.seq = n /\ new.previous = prev
      BY DEF Idle
    <3>2. AnswersCallsOf(u, prev) => prev = <<p, u.prompts[p].alias>>
      BY DEF Reserve, PreviousAccepted, AnswersCallsOf
    <3>3. AnswersCallsOf(t, prev) => AnswersCallsOf(u, prev)
      BY <1>5 DEF AnswersCallsOf, Refs
    <3> HIDE DEF u, t, new
    <3>4. \A q \in Prompts, m \in Seqs :
            t.prompts[q].present /\ ~t.prompts[q].closing =>
              \/ t.prompts[q].state[m] \in {"absent", "completed"}
              \/ q = p /\ m = n
      BY <1>1, <1>5, <1>a DEF Tended
    <3>5. QED
      BY <1>5, <3>1, <3>2, <3>3, <3>4 DEF Tended
  <2>5. QED
    BY <1>3, <1>6, <2>1, <2>2, <2>3, <2>4, CommitKeeps DEF Reserve, provider
<1>7. CASE Lose(With(o, t)) /\ UNCHANGED act
  BY <1>3, <1>7, OwnerFacts, CommitKeeps DEF Reserve, provider
<1>8. QED
  BY <1>6, <1>7 DEF Reserve

(* All requests.                                                           *)
LEMMA RequestsKeep ==
  ASSUME IInv, NEW o \in Owners, Requests(o)
  PROVE  StoreInv' /\ \A x \in Owners : OwnerInv(x)'
BY RenewKeeps, SettleKeeps, RetireKeeps, ClosePromptKeeps, ReserveKeeps DEF Requests

-----------------------------------------------------------------------------
(* The steps of an invocation.                                             *)

(* What the owner's live call may rely on.                                 *)
LEMMA LiveFacts ==
  ASSUME IInv, NEW o \in Owners, act[o].pc # "idle"
  PROVE  LET s == ledger[o]  p == act[o].prompt  n == act[o].seq IN
         /\ s \in Session /\ RecordOK(s, wire[o], remote[o])
         /\ p \in Prompts /\ n \in Seqs /\ act[o] \in LiveCall
         /\ Unfinished(s, p) /\ ~s.retired /\ s.prompts[p].last = n
         /\ s.retiring \/ s.prompts[p].closing <=> act[o].cancelled
         /\ CallSteps(act[o].pc, act[o].error, s.prompts[p].state[n], wire[o][p][n], s.create)
         /\ act[o].pc = "createReady" => remote[o][s.remote] = "unused"
         /\ act[o].pc = "creating" => remote[o][s.remote] # "unused"
         /\ s.remote \in 0..MaxCreates /\ (s.create # "none" => s.remote \in Ids)
         /\ life # "down" /\ wk[o].pc = "idle"
         /\ StateFits(s.prompts[p].state[n], wire[o][p][n])
         /\ Healthy => Tended(s, act[o])
<1> DEFINE s == ledger[o]
<1>1. /\ act[o] \in LiveCall /\ wk[o].pc = "idle" /\ CallOK(s, act[o], wire[o], remote[o])
      /\ s \in Session /\ RecordOK(s, wire[o], remote[o]) /\ life # "down"
  BY OwnerFacts, RunningIsUp
<1>2. s.remote \in 0..MaxCreates /\ (s.create # "none" => s.remote \in Ids)
  BY <1>1, BoundsAssumption DEF Session, RecordOK, SessionFits, CreateFits, Ids
<1>3. QED
  BY <1>1, <1>2, OwnerFacts DEF CallOK, LiveCall, RecordOK, WireFits

(* The record t leaves the authority of prompt p as it is in s.            *)
SameAuthority(t, s, p) ==
  /\ t.retiring = s.retiring /\ t.retired = s.retired
  /\ t.prompts[p].present = s.prompts[p].present
  /\ t.prompts[p].settled = s.prompts[p].settled
  /\ t.prompts[p].closing = s.prompts[p].closing
  /\ t.prompts[p].last = s.prompts[p].last

(* It differs from s in invocation n of p at most; and it may not differ   *)
(* in the responses either.                                                *)
SameElsewhere(t, s, p, n) ==
  \A q \in Prompts :
    /\ t.prompts[q].present = s.prompts[q].present
    /\ t.prompts[q].closing = s.prompts[q].closing
    /\ \A m \in Seqs : (q = p /\ m = n) \/ t.prompts[q].state[m] = s.prompts[q].state[m]

SameResponses(t, s) ==
  \A q \in Prompts :
    t.prompts[q].link = s.prompts[q].link /\ t.prompts[q].alias = s.prompts[q].alias

(* Such a record is tended by the call that wrote it.                      *)
LEMMA CallTends ==
  ASSUME IInv, NEW o \in Owners, act[o].pc # "idle", Healthy, NEW t, NEW b,
         b.pc # "idle", b.prompt = act[o].prompt, b.seq = act[o].seq, b.previous = act[o].previous,
         SameElsewhere(t, ledger[o], act[o].prompt, act[o].seq),
         b.pc \in Early => act[o].pc \in Early /\ SameResponses(t, ledger[o])
  PROVE  Tended(t, b)
<1> DEFINE s == ledger[o]  a == act[o]
<1>1. a \in LiveCall /\ Tended(s, a)
  BY LiveFacts
<1>2. \A p \in Prompts, n \in Seqs :
        t.prompts[p].present /\ ~t.prompts[p].closing =>
          t.prompts[p].state[n] \in {"absent", "completed"} \/ (a.prompt = p /\ a.seq = n)
  BY <1>1 DEF Tended, SameElsewhere
<1>3. ASSUME b.pc \in Early, AnswersCallsOf(t, b.previous)
      PROVE  b.previous = <<b.prompt, t.prompts[b.prompt].alias>>
  <2>1. a.prompt \in Prompts /\ a.previous \in Refs
    BY <1>1, <1>3 DEF LiveCall, AnswersCallsOf
  <2>2. a.previous[1] \in Prompts
    BY <2>1 DEF Refs
  <2>3. AnswersCallsOf(s, a.previous)
    BY <1>3, <2>2 DEF AnswersCallsOf, SameResponses
  <2>4. a.previous = <<a.prompt, s.prompts[a.prompt].alias>>
    BY <1>1, <1>3, <2>3 DEF Tended
  <2>5. QED
    BY <1>3, <2>1, <2>4 DEF SameResponses
<1>4. QED
  BY <1>2, <1>3 DEF Tended

(* A call that moves on needs only what its new step says.                 *)
LEMMA CallGoes ==
  ASSUME IInv, NEW o \in Owners, act[o].pc # "idle", NEW pc, Goto(o, pc), NEW t, NEW v, NEW r,
         SameAuthority(t, ledger[o], act[o].prompt),
         CallSteps(pc, act[o].error, t.prompts[act[o].prompt].state[act[o].seq],
                   v[act[o].prompt][act[o].seq], t.create),
         pc = "createReady" => r[t.remote] = "unused",
         pc = "creating" => r[t.remote] # "unused",
         SameElsewhere(t, ledger[o], act[o].prompt, act[o].seq), pc # "idle",
         pc \in Early => act[o].pc \in Early /\ SameResponses(t, ledger[o])
  PROVE  /\ CallOK(t, act'[o], v, r) /\ \A x \in Owners \ {o} : act'[x] = act[x]
         /\ Healthy => Tended(t, act'[o])
<1>1. act \in [Owners -> Call] /\ act[o] \in LiveCall
  BY LiveFacts DEF IInv, TypeOK
<1>2. act'[o] = [act[o] EXCEPT !.pc = pc] /\ \A x \in Owners \ {o} : act'[x] = act[x]
  BY <1>1 DEF Goto
<1>3. /\ act'[o].pc = pc /\ act'[o].prompt = act[o].prompt /\ act'[o].seq = act[o].seq
      /\ act'[o].cancelled = act[o].cancelled /\ act'[o].error = act[o].error
      /\ act'[o].previous = act[o].previous
  BY <1>1, <1>2 DEF LiveCall
<1>4. /\ Unfinished(t, act[o].prompt) /\ ~t.retired
      /\ t.prompts[act[o].prompt].last = act[o].seq
      /\ t.retiring \/ t.prompts[act[o].prompt].closing <=> act[o].cancelled
  BY LiveFacts DEF SameAuthority, Unfinished
<1>5. CallOK(t, act'[o], v, r)
  BY <1>3, <1>4 DEF CallOK
<1>6. Healthy => Tended(t, act'[o])
  BY <1>3, CallTends
<1>7. QED
  BY <1>2, <1>5, <1>6

(* A call that fails keeps an intent whose request may have arrived.       *)
LEMMA CallFails ==
  ASSUME IInv, NEW o \in Owners, act[o].pc # "idle", NEW err, Fails(o, err), NEW t, NEW v, NEW r,
         SameAuthority(t, ledger[o], act[o].prompt),
         err # "ambiguous" /\ t.prompts[act[o].prompt].state[act[o].seq] = "intent" =>
           v[act[o].prompt][act[o].seq] \in {"unsent", "refused"},
         err = "ok" => t.prompts[act[o].prompt].state[act[o].seq] = "completed",
         SameElsewhere(t, ledger[o], act[o].prompt, act[o].seq)
  PROVE  /\ CallOK(t, act'[o], v, r) /\ \A x \in Owners \ {o} : act'[x] = act[x]
         /\ Healthy => Tended(t, act'[o])
<1>1. act \in [Owners -> Call] /\ act[o] \in LiveCall
  BY LiveFacts DEF IInv, TypeOK
<1>2. /\ act'[o] = [act[o] EXCEPT !.pc = "finish", !.error = err]
      /\ \A x \in Owners \ {o} : act'[x] = act[x]
  BY <1>1 DEF Fails
<1>3. /\ act'[o].pc = "finish" /\ act'[o].error = err
      /\ act'[o].prompt = act[o].prompt /\ act'[o].seq = act[o].seq
      /\ act'[o].cancelled = act[o].cancelled /\ act'[o].previous = act[o].previous
  BY <1>1, <1>2 DEF LiveCall
<1>4. /\ Unfinished(t, act[o].prompt) /\ ~t.retired
      /\ t.prompts[act[o].prompt].last = act[o].seq
      /\ t.retiring \/ t.prompts[act[o].prompt].closing <=> act[o].cancelled
  BY LiveFacts DEF SameAuthority, Unfinished
<1>5. CallOK(t, act'[o], v, r)
  BY <1>3, <1>4 DEF CallOK, CallSteps
<1>6. Healthy => Tended(t, act'[o])
  BY <1>3, CallTends DEF Early
<1>7. QED
  BY <1>2, <1>5, <1>6

(* A commit of the call's progress.                                        *)
LEMMA CallCommits ==
  ASSUME IInv, NEW o \in Owners, act[o].pc # "idle", NEW s \in Session,
         UNCHANGED <<wk, remote, wire>>, RecordOK(s, wire[o], remote[o]),
         \/ /\ Save(With(o, s)) /\ CallOK(s, act'[o], wire[o], remote[o])
            /\ (Healthy => Tended(s, act'[o]))
            /\ \A x \in Owners \ {o} : act'[x] = act[x]
         \/ Lose(With(o, s)) /\ UNCHANGED act
  PROVE  StoreInv' /\ \A x \in Owners : OwnerInv(x)'
<1>1. /\ CallOK(ledger[o], act[o], wire[o], remote[o])
      /\ \A t, a : WorkerOK(t, a, wk'[o], wire[o], remote[o])
  BY LiveFacts, OwnerFacts DEF WorkerOK
<1>2. QED
  BY <1>1, CommitKeeps DEF Save

(* The id named by the intent is fresh, and no other session may exist.    *)
LEMMA CreateIntentKeeps ==
  ASSUME IInv, NEW o \in Owners, CreateIntent(o)
  PROVE  StoreInv' /\ \A x \in Owners : OwnerInv(x)'
<1>1. PICK id \in Ids :
        /\ FreshId(o, id)
        /\ \/ Save(With(o, WithCreate(ledger[o], "intent", id))) /\ Goto(o, "createReady")
           \/ Lose(With(o, WithCreate(ledger[o], "intent", id))) /\ UNCHANGED act
  BY DEF CreateIntent
<1> DEFINE s == ledger[o]  t == WithCreate(s, "intent", id)  p == act[o].prompt  n == act[o].seq
<1>2. act[o].pc = "start" /\ s.create = "none" /\ id # 0 /\ id \in 0..MaxCreates
  BY BoundsAssumption DEF CreateIntent, Ids
<1>3. \A i \in Ids : remote[o][i] \notin Possible
  BY <1>2, LiveFacts DEF RecordOK, RemoteFits
<1>6. /\ s.prompts[p].state[n] = "reserved" /\ wire[o][p][n] = "unsent"
      /\ s.prompts[p].last = n /\ n # 0 /\ Unfinished(s, p) /\ SessionFits(s) /\ p \in Prompts
  <2>1. n \in Seqs => n # 0
    BY DEF Seqs
  <2>2. QED
    BY <1>2, <2>1, LiveFacts DEF CallSteps, RecordOK
<1>a. s.current # None /\ Pending(s.prompts[s.current]) /\ ~s.prompts[s.current].settled
  BY <1>6 DEF SessionFits, PromptsFit, Unfinished, Pending
<1>4. t \in Session /\ RecordOK(t, wire[o], remote[o])
  BY <1>2, <1>3, <1>a, LiveFacts, WithCreateFits, RecordWithCreate DEF RecordOK
<1>5. /\ t.create = "intent" /\ t.remote = id /\ t.prompts = s.prompts
      /\ SameAuthority(t, s, p) /\ SameElsewhere(t, s, p, n) /\ SameResponses(t, s)
  BY <1>2, LiveFacts DEF WithCreate, Session, SameAuthority, SameElsewhere, SameResponses
<1>7. CallSteps("createReady", act[o].error, t.prompts[p].state[n], wire[o][p][n], t.create)
  BY <1>5, <1>6 DEF CallSteps
<1>8. remote[o][t.remote] = "unused"
  BY <1>1, <1>5 DEF FreshId
<1>9. ASSUME Goto(o, "createReady")
      PROVE  /\ CallOK(t, act'[o], wire[o], remote[o]) /\ \A x \in Owners \ {o} : act'[x] = act[x]
             /\ Healthy => Tended(t, act'[o])
  <2>1. act[o].pc # "idle" /\ act[o].pc \in Early
    BY <1>2 DEF Early
  <2>2. "createReady" # "creating" /\ "createReady" # "idle"
    OBVIOUS
  <2> HIDE DEF t
  <2>3. QED
    BY <1>5, <1>7, <1>8, <1>9, <2>1, <2>2, CallGoes
<1>10. QED
  BY <1>1, <1>2, <1>4, <1>9, CallCommits DEF CreateIntent, provider

(* The creation that is sent is the one the record names.                  *)
LEMMA SendCreateKeeps ==
  ASSUME IInv, NEW o \in Owners, SendCreate(o)
  PROVE  StoreInv' /\ \A x \in Owners : OwnerInv(x)'
<1> DEFINE s == ledger[o]  p == act[o].prompt  n == act[o].seq
<1>1. /\ act[o].pc = "createReady" /\ s.create = "intent" /\ s.remote \in Ids
      /\ life = "up" /\ disk = ledger /\ Goto(o, "creating")
      /\ remote' = [remote EXCEPT ![o][s.remote] = "creating"]
      /\ s.prompts[p].state[n] = "reserved" /\ wire[o][p][n] = "unsent"
  BY LiveFacts DEF SendCreate, CallSteps, IInv, StoreInv, Healthy
<1>2. /\ remote'[o][s.remote] = "creating"
      /\ \A id \in Ids : id # s.remote => remote'[o][id] = remote[o][id]
      /\ \A x \in Owners \ {o} : remote'[x] = remote[x]
  BY <1>1 DEF IInv, TypeOK
<1>3. RecordOK(s, wire[o], remote'[o])
  BY <1>1, <1>2, LiveFacts DEF RecordOK, RemoteFits
<1>4. ProviderOK(wire[o], remote'[o])
  BY <1>1, <1>2, OwnerFacts DEF ProviderOK
<1>5. /\ CallOK(s, act'[o], wire[o], remote'[o]) /\ \A x \in Owners \ {o} : act'[x] = act[x]
      /\ Healthy => Tended(s, act'[o])
  BY <1>1, <1>2, CallGoes DEF CallSteps, SameAuthority, SameElsewhere, SameResponses, Early
<1>6. WorkerOK(s, act'[o], wk[o], wire[o], remote'[o])
  BY <1>1, LiveFacts DEF WorkerOK
<1>7. QED
  BY <1>1, <1>2, <1>3, <1>4, <1>5, <1>6, OwnerKeeps DEF SendCreate

(* Only a request that was not sent, or that the provider refused, gives   *)
(* the session id back.                                                    *)
LEMMA CreateDisprovedKeeps ==
  ASSUME IInv, NEW o \in Owners, CreateDisproved(o)
  PROVE  StoreInv' /\ \A x \in Owners : OwnerInv(x)'
<1> DEFINE s == ledger[o]  t == WithCreate(s, "none", 0)  p == act[o].prompt  n == act[o].seq
<1>1. /\ act[o].pc \in {"createReady", "creating"} /\ s.create = "intent"
      /\ remote[o][s.remote] \notin Possible /\ s.prompts[p].state[n] = "reserved"
  BY LiveFacts DEF CreateDisproved, NotCreated, CallSteps, Possible, Live
<1>2. \A i \in Ids : remote[o][i] \notin Possible
  BY <1>1, LiveFacts DEF RecordOK, RemoteFits
<1>3. t \in Session /\ RecordOK(t, wire[o], remote[o])
  BY <1>1, <1>2, LiveFacts, WithCreateFits, RecordWithCreate, BoundsAssumption DEF RecordOK
<1>4. t.prompts = s.prompts /\ SameAuthority(t, s, p) /\ SameElsewhere(t, s, p, n)
  BY <1>1, LiveFacts DEF WithCreate, Session, SameAuthority, SameElsewhere
<1>5. ASSUME Fails(o, "other")
      PROVE  /\ CallOK(t, act'[o], wire[o], remote[o]) /\ \A x \in Owners \ {o} : act'[x] = act[x]
             /\ Healthy => Tended(t, act'[o])
  <2>1. /\ act[o].pc # "idle" /\ "other" # "ok"
        /\ "other" # "ambiguous" /\ t.prompts[p].state[n] = "intent"
             => wire[o][p][n] \in {"unsent", "refused"}
    BY <1>1, <1>4
  <2> HIDE DEF t
  <2>2. QED
    BY <1>4, <1>5, <2>1, CallFails
<1>6. QED
  BY <1>1, <1>3, <1>5, CallCommits DEF CreateDisproved, provider

(* The session that answered is the one the record names.                  *)
LEMMA CreateAcknowledgedKeeps ==
  ASSUME IInv, NEW o \in Owners, CreateAcknowledged(o)
  PROVE  StoreInv' /\ \A x \in Owners : OwnerInv(x)'
<1> DEFINE s == ledger[o]  t == WithCreate(s, "known", s.remote)
           p == act[o].prompt  n == act[o].seq
<1>1. /\ act[o].pc = "creating" /\ s.create = "intent" /\ s.remote # 0
      /\ s.prompts[p].state[n] = "reserved" /\ wire[o][p][n] = "unsent"
      /\ remote[o][s.remote] \in Live
  BY LiveFacts DEF CreateAcknowledged, CallSteps, RecordOK, SessionFits, CreateFits
<1>2. t \in Session /\ RecordOK(t, wire[o], remote[o])
  BY <1>1, LiveFacts, WithCreateFits, RecordWithCreate DEF RecordOK
<1>3. /\ t.prompts = s.prompts /\ t.create = "known" /\ SameAuthority(t, s, p)
      /\ SameElsewhere(t, s, p, n) /\ SameResponses(t, s)
  BY <1>1, LiveFacts DEF WithCreate, Session, SameAuthority, SameElsewhere, SameResponses
<1>4. ASSUME Goto(o, "start")
      PROVE  /\ CallOK(t, act'[o], wire[o], remote[o]) /\ \A x \in Owners \ {o} : act'[x] = act[x]
             /\ Healthy => Tended(t, act'[o])
  <2>1. CallSteps("start", act[o].error, t.prompts[p].state[n], wire[o][p][n], t.create)
    BY <1>1, <1>3 DEF CallSteps
  <2>2. QED
    <3>1. act[o].pc # "idle" /\ act[o].pc \in Early
      BY <1>1 DEF Early
    <3>2. "start" # "createReady" /\ "start" # "creating" /\ "start" # "idle"
      OBVIOUS
    <3> HIDE DEF t
    <3>3. QED
      BY <1>3, <1>4, <2>1, <3>1, <3>2, CallGoes
<1>5. QED
  BY <1>1, <1>2, <1>4, CallCommits DEF CreateAcknowledged, provider

(* Recording a call's progress leaves its prompt's authority alone.        *)
LEMMA MarkIs ==
  ASSUME NEW s \in Session, NEW p \in Prompts, NEW n \in Seqs, NEW st
  PROVE  /\ SameAuthority(Mark(s, p, n, st), s, p) /\ SameElsewhere(Mark(s, p, n, st), s, p, n)
         /\ SameResponses(Mark(s, p, n, st), s)
         /\ Mark(s, p, n, st).create = s.create
         /\ Mark(s, p, n, st).prompts[p].state[n] = st
<1>1. s.prompts[p] \in Prompt
  BY DEF Session
<1>2. QED
  BY <1>1 DEF Mark, SameAuthority, SameElsewhere, SameResponses, Session, Prompt

(* So does recording the response's identity.                              *)
LEMMA AcceptedIs ==
  ASSUME NEW s \in Session, NEW p \in Prompts, NEW n \in Seqs
  PROVE  /\ SameAuthority(Accepted(s, p, n), s, p) /\ SameElsewhere(Accepted(s, p, n), s, p, n)
         /\ Accepted(s, p, n).create = s.create
         /\ Accepted(s, p, n).prompts[p].state[n] = "accepted"
<1>1. s.prompts[p] \in Prompt
  BY DEF Session
<1>2. QED
  BY <1>1 DEF Accepted, SameAuthority, SameElsewhere, Session, Prompt

(* So does recording the completion.                                       *)
LEMMA CompletedIs ==
  ASSUME NEW s \in Session, NEW p \in Prompts, NEW n \in Seqs, NEW kind
  PROVE  /\ SameAuthority(Completed(s, p, n, kind), s, p) /\ SameElsewhere(Completed(s, p, n, kind), s, p, n)
         /\ Completed(s, p, n, kind).create = s.create
         /\ Completed(s, p, n, kind).prompts[p].state[n] = "completed"
<1>1. s.prompts[p] \in Prompt
  BY DEF Session
<1>2. QED
  BY <1>1 DEF Completed, SameAuthority, SameElsewhere, Session, Prompt

(* The intent is durable before the request leaves.                        *)
LEMMA InferenceIntentKeeps ==
  ASSUME IInv, NEW o \in Owners, InferenceIntent(o)
  PROVE  StoreInv' /\ \A x \in Owners : OwnerInv(x)'
<1> DEFINE s == ledger[o]  p == act[o].prompt  n == act[o].seq  t == Mark(s, p, n, "intent")
<1>1. /\ act[o].pc = "start" /\ s.create = "known" /\ wire[o][p][n] = "unsent"
      /\ p \in Prompts /\ n \in Seqs /\ s \in Session /\ s.prompts[p].state[n] = "reserved"
  BY LiveFacts DEF InferenceIntent, CallSteps
<1>2. StateFits("intent", wire[o][p][n]) /\ MayBecome(s, s.prompts[p].state[n], "intent")
  BY <1>1 DEF StateFits, MayBecome
<1>3. t \in Session /\ RecordOK(t, wire[o], remote[o])
  BY <1>1, <1>2, LiveFacts, ProgressTyped, RecordProgress DEF InvocationStates
<1>4. SameAuthority(t, s, p) /\ SameElsewhere(t, s, p, n) /\ SameResponses(t, s)
  BY <1>1, MarkIs
<1>5. CallSteps("ready", act[o].error, t.prompts[p].state[n], wire[o][p][n], t.create)
  BY <1>1, MarkIs DEF CallSteps
<1>6. ASSUME Goto(o, "ready")
      PROVE  /\ CallOK(t, act'[o], wire[o], remote[o]) /\ \A x \in Owners \ {o} : act'[x] = act[x]
             /\ Healthy => Tended(t, act'[o])
  <2>1. /\ "ready" # "createReady" /\ "ready" # "creating" /\ "ready" # "idle"
        /\ act[o].pc # "idle" /\ act[o].pc \in Early
    BY <1>1 DEF Early
  <2> HIDE DEF t
  <2>2. QED
    BY <1>4, <1>5, <1>6, <2>1, CallGoes
<1>7. QED
  BY <1>1, <1>3, <1>6, CallCommits DEF InferenceIntent, provider

(* The request that leaves is covered by its intent.                       *)
LEMMA SendInferenceKeeps ==
  ASSUME IInv, NEW o \in Owners, SendInference(o)
  PROVE  StoreInv' /\ \A x \in Owners : OwnerInv(x)'
<1> DEFINE s == ledger[o]  p == act[o].prompt  n == act[o].seq
<1>1. /\ act[o].pc = "ready" /\ s.create = "known" /\ s.prompts[p].state[n] = "intent"
      /\ p \in Prompts /\ n \in Seqs /\ s \in Session
      /\ life = "up" /\ disk = ledger /\ Goto(o, "waiting")
      /\ wire' = [wire EXCEPT ![o][p][n] = "flying"]
  BY LiveFacts DEF SendInference, CtxAlive, CallSteps, IInv, StoreInv, Healthy
<1>2. /\ wire'[o][p][n] = "flying"
      /\ \A q \in Prompts, m \in Seqs : <<q, m>> # <<p, n>> => wire'[o][q][m] = wire[o][q][m]
      /\ \A x \in Owners \ {o} : wire'[x] = wire[x]
  BY <1>1 DEF IInv, TypeOK
<1>3. RecordOK(s, wire'[o], remote[o])
  <2>1. StateFits(s.prompts[p].state[n], wire'[o][p][n])
    BY <1>1, <1>2 DEF StateFits
  <2>2. \A q \in Prompts, m \in Seqs : StateFits(s.prompts[q].state[m], wire'[o][q][m])
    <3>1. \A q \in Prompts, m \in Seqs :
            (q = p /\ m = n) \/ wire'[o][q][m] = wire[o][q][m]
      BY <1>2
    <3>2. \A q \in Prompts, m \in Seqs : StateFits(s.prompts[q].state[m], wire[o][q][m])
      BY <1>1, LiveFacts DEF RecordOK, WireFits
    <3>3. QED
      BY <2>1, <3>1, <3>2
  <2>3. QED
    BY <1>1, <2>2, LiveFacts DEF RecordOK, WireFits
<1>4. ProviderOK(wire'[o], remote[o])
  BY <1>2, OwnerFacts DEF ProviderOK
<1>5. CallSteps("waiting", act[o].error, s.prompts[p].state[n], wire'[o][p][n], s.create)
  BY <1>1, <1>2 DEF CallSteps
<1>6. /\ CallOK(s, act'[o], wire'[o], remote[o]) /\ \A x \in Owners \ {o} : act'[x] = act[x]
      /\ Healthy => Tended(s, act'[o])
  <2>1. /\ "waiting" # "createReady" /\ "waiting" # "creating" /\ "waiting" # "idle"
        /\ "waiting" \notin Early /\ act[o].pc # "idle"
        /\ SameAuthority(s, s, p) /\ SameElsewhere(s, s, p, n)
    BY <1>1 DEF SameAuthority, SameElsewhere, Early
  <2>2. QED
    BY <1>1, <1>5, <2>1, CallGoes
<1>7. WorkerOK(s, act'[o], wk[o], wire'[o], remote[o])
  BY <1>1, LiveFacts DEF WorkerOK
<1>8. QED
  BY <1>1, <1>2, <1>3, <1>4, <1>6, <1>7, OwnerKeeps DEF SendInference

(* A refused request is over.                                              *)
LEMMA InferenceRejectedKeeps ==
  ASSUME IInv, NEW o \in Owners, InferenceRejected(o)
  PROVE  StoreInv' /\ \A x \in Owners : OwnerInv(x)'
<1> DEFINE s == ledger[o]  p == act[o].prompt  n == act[o].seq  t == Mark(s, p, n, "rejected")
<1>1. /\ act[o].pc = "waiting" /\ wire[o][p][n] = "refused"
      /\ p \in Prompts /\ n \in Seqs /\ s \in Session /\ s.prompts[p].state[n] = "intent"
  BY LiveFacts DEF InferenceRejected, Wire, CallSteps
<1>2. StateFits("rejected", wire[o][p][n]) /\ MayBecome(s, s.prompts[p].state[n], "rejected")
  BY <1>1 DEF StateFits, MayBecome
<1>3. t \in Session /\ RecordOK(t, wire[o], remote[o])
  BY <1>1, <1>2, LiveFacts, ProgressTyped, RecordProgress DEF InvocationStates
<1>4. SameAuthority(t, s, p) /\ SameElsewhere(t, s, p, n) /\ t.prompts[p].state[n] = "rejected"
  BY <1>1, MarkIs
<1>5. ASSUME Fails(o, "other")
      PROVE  /\ CallOK(t, act'[o], wire[o], remote[o]) /\ \A x \in Owners \ {o} : act'[x] = act[x]
             /\ Healthy => Tended(t, act'[o])
  <2>1. /\ act[o].pc # "idle" /\ "other" # "ok"
        /\ "other" # "ambiguous" /\ t.prompts[p].state[n] = "intent"
             => wire[o][p][n] \in {"unsent", "refused"}
    BY <1>1, <1>4
  <2> HIDE DEF t
  <2>2. QED
    BY <1>4, <1>5, <2>1, CallFails
<1>6. QED
  BY <1>1, <1>3, <1>5, CallCommits DEF InferenceRejected, provider

(* A response with an identity has arrived.                                *)
LEMMA InferenceAcceptedKeeps ==
  ASSUME IInv, NEW o \in Owners, InferenceAccepted(o)
  PROVE  StoreInv' /\ \A x \in Owners : OwnerInv(x)'
<1> DEFINE s == ledger[o]  p == act[o].prompt  n == act[o].seq  t == Accepted(s, p, n)
<1>1. /\ act[o].pc = "waiting" /\ wire[o][p][n] \in {"running", "completed", "ended"}
      /\ p \in Prompts /\ n \in Seqs /\ s \in Session /\ s.create = "known"
      /\ s.prompts[p].state[n] = "intent"
  BY LiveFacts DEF InferenceAccepted, Wire, CallSteps
<1>2. StateFits("accepted", wire[o][p][n])
  BY <1>1 DEF StateFits
<1>3. t \in Session /\ RecordOK(t, wire[o], remote[o])
  BY <1>1, <1>2, LiveFacts, ProgressTyped, RecordProgress
<1>4. SameAuthority(t, s, p) /\ SameElsewhere(t, s, p, n)
  BY <1>1, AcceptedIs
<1>5. CallSteps("accepted", act[o].error, t.prompts[p].state[n], wire[o][p][n], t.create)
  BY <1>1, AcceptedIs DEF CallSteps
<1>6. ASSUME Goto(o, "accepted")
      PROVE  /\ CallOK(t, act'[o], wire[o], remote[o]) /\ \A x \in Owners \ {o} : act'[x] = act[x]
             /\ Healthy => Tended(t, act'[o])
  <2>1. /\ "accepted" # "createReady" /\ "accepted" # "creating" /\ "accepted" # "idle"
        /\ "accepted" \notin Early /\ act[o].pc # "idle"
    BY <1>1 DEF Early
  <2> HIDE DEF t
  <2>2. QED
    BY <1>4, <1>5, <1>6, <2>1, CallGoes
<1>7. QED
  BY <1>1, <1>3, <1>6, CallCommits DEF InferenceAccepted, provider

(* A completed response is over.                                           *)
LEMMA InferenceCompletedKeeps ==
  ASSUME IInv, NEW o \in Owners, InferenceCompleted(o)
  PROVE  StoreInv' /\ \A x \in Owners : OwnerInv(x)'
<1>1. PICK kind \in {"text", "calls"} :
        LET t == Completed(ledger[o], act[o].prompt, act[o].seq, kind) IN
        \/ Save(With(o, t)) /\ Fails(o, "ok")
        \/ Lose(With(o, t)) /\ UNCHANGED act
  BY DEF InferenceCompleted
<1> DEFINE s == ledger[o]  p == act[o].prompt  n == act[o].seq  t == Completed(s, p, n, kind)
<1>2. /\ act[o].pc = "accepted" /\ wire[o][p][n] = "completed"
      /\ p \in Prompts /\ n \in Seqs /\ s \in Session /\ s.prompts[p].state[n] = "accepted"
  BY LiveFacts DEF InferenceCompleted, Wire, CallSteps
<1>3. StateFits("completed", wire[o][p][n])
  BY <1>2 DEF StateFits
<1>4. t \in Session /\ RecordOK(t, wire[o], remote[o])
  BY <1>2, <1>3, LiveFacts, ProgressTyped, RecordProgress DEF LinkStates
<1>5. SameAuthority(t, s, p) /\ SameElsewhere(t, s, p, n) /\ t.prompts[p].state[n] = "completed"
  BY <1>2, CompletedIs
<1>6. ASSUME Fails(o, "ok")
      PROVE  /\ CallOK(t, act'[o], wire[o], remote[o]) /\ \A x \in Owners \ {o} : act'[x] = act[x]
             /\ Healthy => Tended(t, act'[o])
  <2>1. act[o].pc # "idle" /\ t.prompts[p].state[n] # "intent"
    BY <1>2, <1>5
  <2> HIDE DEF t
  <2>2. QED
    BY <1>5, <1>6, <2>1, CallFails
<1>7. QED
  BY <1>1, <1>2, <1>4, <1>6, CallCommits DEF InferenceCompleted, provider

(* A failure before the request may have left is definite.                 *)
LEMMA InvokeFailsKeeps ==
  ASSUME IInv, NEW o \in Owners, InvokeFails(o)
  PROVE  StoreInv' /\ \A x \in Owners : OwnerInv(x)'
<1> DEFINE s == ledger[o]  p == act[o].prompt  n == act[o].seq
<1>1. /\ act[o].pc # "idle" /\ UNCHANGED <<life, ledger, disk, wk, remote, wire>>
      /\ SameAuthority(s, s, p) /\ SameElsewhere(s, s, p, n)
  BY DEF InvokeFails, SameAuthority, SameElsewhere, provider
<1>2. PICK err \in Errors :
        /\ Fails(o, err)
        /\ err # "ok" /\ (err # "ambiguous" => act[o].pc \in {"start", "createReady", "ready"})
  BY DEF InvokeFails, Errors
<1>3. err # "ambiguous" /\ s.prompts[p].state[n] = "intent" => wire[o][p][n] \in {"unsent", "refused"}
  BY <1>1, <1>2, LiveFacts DEF CallSteps
<1>4. /\ CallOK(s, act'[o], wire[o], remote[o]) /\ \A x \in Owners \ {o} : act'[x] = act[x]
      /\ Healthy => Tended(s, act'[o])
  BY <1>1, <1>2, <1>3, CallFails
<1>5. WorkerOK(s, act'[o], wk[o], wire[o], remote[o])
  BY <1>1, LiveFacts DEF WorkerOK
<1>6. QED
  BY <1>1, <1>4, <1>5, OwnerFacts, LiveFacts, OwnerKeeps

(* finishInvocation keeps an intent that may have arrived as uncertain.    *)
LEMMA FinishKeeps ==
  ASSUME IInv, NEW o \in Owners, Finish(o)
  PROVE  StoreInv' /\ \A x \in Owners : OwnerInv(x)'
<1> DEFINE s == ledger[o]  p == act[o].prompt  n == act[o].seq
           t == Finished(s, p, n, act[o].error)
<1>1. /\ act[o].pc = "finish" /\ p \in Prompts /\ n \in Seqs /\ s \in Session
      /\ Unfinished(s, p) /\ n = s.prompts[p].last /\ UNCHANGED <<wk, remote, wire>>
      /\ act'[o] = Idle /\ \A x \in Owners \ {o} : act'[x] = act[x]
  BY LiveFacts DEF Finish, IInv, TypeOK, provider
<1>2. act[o].error # "ambiguous" /\ s.prompts[p].state[n] = "intent"
        => wire[o][p][n] \in {"unsent", "refused"}
  BY <1>1, LiveFacts DEF CallSteps
<1>3. t \in Session /\ RecordOK(t, wire[o], remote[o])
  BY <1>1, <1>2, LiveFacts, FinishedTyped, RecordFinished
<1>4. \A x : CallOK(x, Idle, wire[o], remote[o]) /\ WorkerOK(x, Idle, wk[o], wire[o], remote[o])
  BY <1>1, LiveFacts DEF CallOK, WorkerOK, Idle
<1>a. Healthy => Tended(t, Idle)
  <2>1. SUFFICES ASSUME Healthy PROVE Tended(t, Idle)
    OBVIOUS
  <2>2. Tended(s, act[o])
    BY <1>1, <2>1, LiveFacts
  <2>3. CASE act[o].error = "ok"
    <3>1. t = s /\ s.prompts[p].state[n] = "completed"
      BY <1>1, <2>3, LiveFacts DEF Finished, CallSteps
    <3>2. QED
      BY <2>2, <3>1 DEF Tended, Idle, Early
  <2>4. CASE act[o].error # "ok"
    <3> DEFINE c == Closed(s, {p})
    <3>1. t = Mark(c, p, n, Outcome(s.prompts[p].state[n], act[o].error)) /\ c \in Session
      BY <1>1, <2>4, ClosedTyped DEF Finished, Outcome
    <3>2. SameElsewhere(t, c, p, n)
      BY <1>1, <3>1, MarkIs
    <3>3. /\ c.prompts[p].closing
          /\ \A q \in Prompts : /\ c.prompts[q].present <=> s.prompts[q].present
                                /\ ~c.prompts[q].closing => ~s.prompts[q].closing
                                /\ c.prompts[q].state = s.prompts[q].state
      <4>1. s \in Session /\ p \in Prompts /\ s.prompts[p].present
        BY <1>1 DEF Unfinished
      <4>2. \A q \in Prompts :
              /\ c.prompts[q].present = s.prompts[q].present
              /\ c.prompts[q].state = s.prompts[q].state
              /\ c.prompts[q].closing <=>
                   s.prompts[q].closing \/ (q \in {p} /\ s.prompts[q].present)
        BY <4>1, ClosedIs
      <4> HIDE DEF c, s
      <4>3. QED
        BY <4>1, <4>2
    <3> HIDE DEF t, c
    <3>4. \A q \in Prompts, m \in Seqs :
            t.prompts[q].present /\ ~t.prompts[q].closing =>
              t.prompts[q].state[m] \in {"absent", "completed"}
      BY <2>2, <3>2, <3>3 DEF SameElsewhere, Tended
    <3>5. QED
      BY <3>4 DEF Tended, Idle, Early
  <2>5. QED
    BY <2>3, <2>4
<1>5. CASE Save(With(o, t)) \/ Lose(With(o, t))
  BY <1>1, <1>3, <1>4, <1>5, <1>a, CommitKeeps DEF Save
<1>6. CASE life = "poisoned" /\ UNCHANGED <<life, ledger, disk>>
  <2>1. ~Healthy
    BY <1>6 DEF Healthy
  <2>2. QED
    BY <1>1, <1>4, <1>6, <2>1, OwnerFacts, LiveFacts, OwnerKeeps
<1>7. QED
  BY <1>5, <1>6 DEF Finish

(* All steps of an invocation.                                             *)
LEMMA InvocationKeeps ==
  ASSUME IInv, NEW o \in Owners, Invocation(o)
  PROVE  StoreInv' /\ \A x \in Owners : OwnerInv(x)'
BY CreateIntentKeeps, SendCreateKeeps, CreateDisprovedKeeps, CreateAcknowledgedKeeps,
   InferenceIntentKeeps, SendInferenceKeeps, InferenceRejectedKeeps, InferenceAcceptedKeeps,
   InferenceCompletedKeeps, InvokeFailsKeeps, FinishKeeps DEF Invocation

-----------------------------------------------------------------------------
(* The steps of cleanup.                                                   *)

(* What the owner's worker may rely on.                                    *)
LEMMA WorkerFacts ==
  ASSUME IInv, NEW o \in Owners, wk[o].pc # "idle"
  PROVE  /\ wk[o] \in LiveWorker /\ act[o].pc = "idle" /\ life # "down"
         /\ ledger[o] \in Session /\ RecordOK(ledger[o], wire[o], remote[o])
         /\ \A v, r : CallOK(ledger[o], act[o], v, r)
         /\ WorkerOK(ledger[o], act[o], wk[o], wire[o], remote[o])
         /\ ledger[o].create = "known" => ledger[o].remote \in Ids
         /\ life = "up" => disk = ledger
<1>1. /\ wk[o] \in LiveWorker /\ act[o].pc = "idle" /\ life # "down"
      /\ ledger[o] \in Session /\ RecordOK(ledger[o], wire[o], remote[o])
      /\ WorkerOK(ledger[o], act[o], wk[o], wire[o], remote[o])
  BY OwnerFacts, RunningIsUp DEF Worker, NoWorker, WorkerOK
<1>2. ledger[o].create = "known" => ledger[o].remote \in Ids
  BY <1>1, BoundsAssumption DEF Session, RecordOK, SessionFits, CreateFits, Ids
<1>3. life = "up" => disk = ledger
  BY DEF IInv, StoreInv, Healthy
<1>4. QED
  BY <1>1, <1>2, <1>3 DEF CallOK

(* A worker that moves on keeps what it captured.                          *)
LEMMA WorkerMoves ==
  ASSUME IInv, NEW o \in Owners, wk[o].pc # "idle", NEW pc, WorkerGoes(o, pc)
  PROVE  /\ wk'[o].pc = pc /\ wk'[o].closing = wk[o].closing
         /\ wk'[o].retiring = wk[o].retiring /\ wk'[o].ambiguous = wk[o].ambiguous
         /\ wk'[o].create = wk[o].create
         /\ \A x \in Owners \ {o} : wk'[x] = wk[x]
<1>1. wk \in [Owners -> Worker] /\ wk[o] \in LiveWorker
  BY WorkerFacts DEF IInv, TypeOK
<1>2. wk'[o] = [wk[o] EXCEPT !.pc = pc] /\ \A x \in Owners \ {o} : wk'[x] = wk[x]
  BY <1>1 DEF WorkerGoes
<1>3. QED
  BY <1>1, <1>2 DEF LiveWorker

(* Cleanup starts with what the record says: without an intent or an       *)
(* uncertain invocation nothing of the owner is unanswered, and without a  *)
(* session or with completed responses alone nothing runs.                 *)
LEMMA ReconcileKeeps ==
  ASSUME IInv, NEW o \in Owners, Reconcile(o)
  PROVE  StoreInv' /\ \A x \in Owners : OwnerInv(x)'
<1> DEFINE s == ledger[o]  v == wire[o]  r == remote[o]
           k == [pc |-> CleanupPhase(s), closing |-> Unsettled(s), retiring |-> s.retiring,
                 ambiguous |-> Ambiguous(s), create |-> s.create]
<1>1. /\ life = "up" /\ act[o].pc = "idle" /\ ~s.retired /\ s.create # "intent"
      /\ Unsettled(s) # {} \/ s.retiring
      /\ s \in Session /\ RecordOK(s, v, r) /\ SessionFits(s)
  BY OwnerFacts DEF Reconcile, ReconcileMayStart
<1>2. wk'[o] = k /\ \A x \in Owners \ {o} : wk'[x] = wk[x]
  BY DEF Reconcile, IInv, TypeOK
<1>3. s.create \in {"none", "known"}
  BY <1>1 DEF SessionFits, CreateFits, Session, CreateStates
<1>4. \A p \in Unsettled(s) :
        /\ p \in Prompts /\ s.prompts[p].present /\ s.prompts[p].closing
        /\ Unfinished(s, p) /\ p = s.current
  BY <1>1 DEF Unsettled, SessionFits, PromptsFit, Blank, Unfinished
<1>5. s.retiring \/ (s.current \in Prompts /\ s.prompts[s.current].closing /\ Unfinished(s, s.current))
  BY <1>1, <1>4 DEF Unsettled
<1>6. ~Ambiguous(s) => \A p \in Prompts, n \in Seqs : v[p][n] # "flying"
  BY <1>1 DEF Ambiguous, RecordOK, WireFits, StateFits
<1>7. /\ k.pc \in {"stop", "poll"} => s.create = "known" /\ (s.retiring => Ambiguous(s))
      /\ k.pc \in {"delete", "confirm"} => s.create = "known" /\ s.retiring /\ ~Ambiguous(s)
      /\ k.pc # "confirm"
      /\ k.pc = "prove" => \/ s.create = "none"
                           \/ ~s.retiring /\ ~Ambiguous(s) /\ Quiescent(s)
  BY <1>3 DEF CleanupPhase
<1>8. ASSUME k.pc = "prove"
      PROVE  \A p \in Unsettled(s), n \in Seqs : v[p][n] \notin Outstanding
  <2>1. CASE s.create = "none"
    BY <1>1, <1>4, <2>1 DEF RecordOK, WireFits, Outstanding
  <2>2. CASE Quiescent(s)
    BY <1>1, <1>4, <2>2 DEF Quiescent, RecordOK, WireFits, StateFits, Outstanding
  <2>3. QED
    BY <1>7, <1>8, <2>1, <2>2
<1>9. WorkerOK(s, act[o], wk'[o], v, r)
  <2>1. /\ wk'[o].pc = k.pc /\ wk'[o].closing = Unsettled(s) /\ wk'[o].retiring = s.retiring
        /\ wk'[o].ambiguous = Ambiguous(s) /\ wk'[o].create = s.create
    BY <1>2
  <2> HIDE DEF k
  <2>2. QED
    BY <1>1, <1>3, <1>4, <1>5, <1>6, <1>7, <1>8, <2>1 DEF WorkerOK
<1>10. CallOK(s, act[o], v, r)
  BY OwnerFacts
<1>11. QED
  BY <1>1, <1>2, <1>9, <1>10, OwnerFacts, OwnerKeeps DEF Reconcile, provider

(* A stop request changes no request yet.                                  *)
LEMMA StopSessionKeeps ==
  ASSUME IInv, NEW o \in Owners, StopSession(o)
  PROVE  StoreInv' /\ \A x \in Owners : OwnerInv(x)'
<1> DEFINE s == ledger[o]  id == s.remote
<1>1. /\ wk[o].pc = "stop" /\ life = "up" /\ disk = ledger /\ s.create = "known" /\ id \in Ids
      /\ remote[o][id] \in Live /\ WorkerGoes(o, "poll")
      /\ remote' = [remote EXCEPT ![o][id] = IF @ = "idle" THEN "idle" ELSE "stopping"]
  BY WorkerFacts DEF StopSession, WorkerOK
<1>2. /\ remote'[o][id] = IF remote[o][id] = "idle" THEN "idle" ELSE "stopping"
      /\ \A j \in Ids : j # id => remote'[o][j] = remote[o][j]
      /\ \A x \in Owners \ {o} : remote'[x] = remote[x]
  BY <1>1 DEF IInv, TypeOK
<1>3. RecordOK(s, wire[o], remote'[o])
  BY <1>1, <1>2, WorkerFacts DEF RecordOK, RemoteFits, Possible, Live
<1>4. ProviderOK(wire[o], remote'[o])
  BY <1>1, <1>2, OwnerFacts DEF ProviderOK
<1>5. WorkerOK(s, act[o], wk'[o], wire[o], remote'[o])
  BY <1>1, WorkerFacts, WorkerMoves DEF WorkerOK
<1>6. Healthy => Tended(s, act[o])
  BY OwnerFacts
<1>7. QED
  BY <1>1, <1>2, <1>3, <1>4, <1>5, <1>6, WorkerFacts, WorkerMoves, OwnerKeeps DEF StopSession

(* A session seen idle runs nothing.                                       *)
LEMMA StopProvedKeeps ==
  ASSUME IInv, NEW o \in Owners, StopProved(o)
  PROVE  StoreInv' /\ \A x \in Owners : OwnerInv(x)'
<1> DEFINE s == ledger[o]  k == wk[o]
<1>1. /\ k.pc = "poll" /\ s.create = "known" /\ s.remote \in Ids /\ WorkerGoes(o, "prove")
      /\ remote[o][s.remote] = "idle" /\ k.closing \subseteq Prompts
      /\ k.retiring => k.ambiguous
  BY WorkerFacts DEF StopProved, StopObserved, WorkerOK, LiveWorker
<1>2. \A p \in Prompts, n \in Seqs : wire[o][p][n] # "running"
  BY <1>1, OwnerFacts DEF ProviderOK
<1>3. WorkerOK(s, act[o], wk'[o], wire[o], remote[o])
  BY <1>1, <1>2, WorkerFacts, WorkerMoves DEF WorkerOK, Outstanding
<1>4. QED
  BY <1>1, <1>3, OwnerFacts, WorkerFacts, WorkerMoves, OwnerKeeps DEF StopProved, provider

(* Work that stops running with its session ends.                          *)
LEMMA EndedIs ==
  ASSUME TypeOK, NEW o \in Owners,
         wire' = [wire EXCEPT ![o] = [p \in Prompts |-> [n \in Seqs |->
                    IF @[p][n] = "running" THEN "ended" ELSE @[p][n]]]]
  PROVE  /\ \A p \in Prompts, n \in Seqs :
              wire'[o][p][n] = IF wire[o][p][n] = "running" THEN "ended" ELSE wire[o][p][n]
         /\ \A x \in Owners \ {o} : wire'[x] = wire[x]
BY DEF TypeOK

(* Such an end leaves the records in step.                                 *)
LEMMA EndedFits ==
  ASSUME NEW s, NEW v, NEW w, WireFits(s, v),
         \A p \in Prompts, n \in Seqs : w[p][n] = IF v[p][n] = "running" THEN "ended" ELSE v[p][n]
  PROVE  WireFits(s, w)
<1>1. \A p \in Prompts, n \in Seqs : StateFits(s.prompts[p].state[n], w[p][n])
  BY DEF WireFits, StateFits
<1>2. QED
  BY <1>1 DEF WireFits

(* A deletion ends what runs in the session the record names.              *)
LEMMA DeleteSessionKeeps ==
  ASSUME IInv, NEW o \in Owners, DeleteSession(o)
  PROVE  StoreInv' /\ \A x \in Owners : OwnerInv(x)'
<1> DEFINE s == ledger[o]  id == s.remote
<1>1. /\ wk[o].pc = "delete" /\ life = "up" /\ disk = ledger /\ s.create = "known" /\ id \in Ids
      /\ WorkerGoes(o, "confirm")
      /\ remote' = [remote EXCEPT ![o][id] = "deleted"]
  BY WorkerFacts DEF DeleteSession, WorkerOK
<1>2. /\ remote'[o][id] = "deleted"
      /\ \A j \in Ids : j # id => remote'[o][j] = remote[o][j]
      /\ \A x \in Owners \ {o} : remote'[x] = remote[x]
  BY <1>1 DEF IInv, TypeOK
<1>3. /\ \A p \in Prompts, n \in Seqs :
           wire'[o][p][n] = IF wire[o][p][n] = "running" THEN "ended" ELSE wire[o][p][n]
      /\ \A x \in Owners \ {o} : wire'[x] = wire[x]
  BY EndedIs DEF DeleteSession, IInv
<1>4. RecordOK(s, wire'[o], remote'[o])
  BY <1>2, <1>3, WorkerFacts, EndedFits, <1>1 DEF RecordOK, RemoteFits, Possible, Live
<1>5. ProviderOK(wire'[o], remote'[o])
  BY <1>3 DEF ProviderOK
<1>6. WorkerOK(s, act[o], wk'[o], wire'[o], remote'[o])
  BY <1>1, <1>3, WorkerFacts, WorkerMoves DEF WorkerOK
<1>7. Healthy => Tended(s, act[o])
  BY OwnerFacts
<1>8. QED
  BY <1>1, <1>2, <1>3, <1>4, <1>5, <1>6, <1>7, WorkerFacts, WorkerMoves, OwnerKeeps DEF DeleteSession

(* A deleted session stays deleted.                                        *)
LEMMA DeleteProvedKeeps ==
  ASSUME IInv, NEW o \in Owners, DeleteProved(o)
  PROVE  StoreInv' /\ \A x \in Owners : OwnerInv(x)'
<1>1. /\ wk[o].pc = "confirm" /\ WorkerGoes(o, "prove") /\ wk[o].closing \subseteq Prompts
      /\ remote[o][ledger[o].remote] = "deleted"
  BY WorkerFacts DEF DeleteProved, LiveWorker
<1>2. WorkerOK(ledger[o], act[o], wk'[o], wire[o], remote[o])
  BY <1>1, WorkerFacts, WorkerMoves DEF WorkerOK, Outstanding
<1>3. QED
  BY <1>1, <1>2, OwnerFacts, WorkerFacts, WorkerMoves, OwnerKeeps DEF DeleteProved, provider

(* The proof's commit settles prompts whose requests are over and retires  *)
(* an owner whose session was deleted or never created.                    *)
LEMMA ProveKeeps ==
  ASSUME IInv, NEW o \in Owners, Prove(o)
  PROVE  StoreInv' /\ \A x \in Owners : OwnerInv(x)'
<1> DEFINE s == ledger[o]  k == wk[o]  u == Settlement(s, k.closing)  t == Proved(o)
<1>1. /\ k.pc = "prove" /\ ~k.ambiguous /\ act[o].pc = "idle" /\ k.closing \subseteq Prompts
      /\ s \in Session /\ RecordOK(s, wire[o], remote[o])
      /\ \A p \in k.closing : s.prompts[p].present /\ s.prompts[p].closing
      /\ \A p \in k.closing, n \in Seqs : wire[o][p][n] \notin Outstanding
      /\ k.create = s.create /\ k.create \in {"none", "known"} /\ k.create \in CreateStates
      /\ k.retiring => s.retiring /\ (s.create = "known" => remote[o][s.remote] = "deleted")
      /\ wk'[o] = NoWorker /\ \A x \in Owners \ {o} : wk'[x] = wk[x]
  BY WorkerFacts DEF Prove, Provable, WorkerOK, LiveWorker, WorkerEnds, IInv, TypeOK
<1>2. u \in Session /\ RecordOK(u, wire[o], remote[o])
  <2>1. s.create # "intent"
    BY <1>1
  <2>2. QED
    BY <1>1, <2>1, SettlementTyped, RecordSettled
<1>3. t \in Session /\ RecordOK(t, wire[o], remote[o])
  <2>1. CASE ~k.retiring
    BY <1>2, <2>1 DEF Proved
  <2>2. CASE k.retiring
    <3>1. /\ u.retiring /\ u.create = s.create /\ u.remote = s.remote
          /\ \A p \in Prompts : u.prompts[p].present => u.prompts[p].settled
      BY <1>1, <2>2, SettlementIs DEF Prove, Provable
    <3>2. RecordOK(Retired(u, u.create), wire[o], remote[o])
      BY <1>1, <1>2, <2>2, <3>1, RecordRetired
    <3>3. Retired(u, u.create) \in Session /\ t = Retired(u, u.create)
      BY <1>1, <1>2, <2>2, <3>1, SettlementTyped DEF Proved
    <3>4. QED
      BY <3>2, <3>3
  <2>3. QED
    BY <2>1, <2>2
<1>4. \A x : CallOK(x, act[o], wire[o], remote[o]) /\ WorkerOK(x, act[o], NoWorker, wire[o], remote[o])
  BY <1>1 DEF CallOK, WorkerOK, NoWorker
<1>5. Healthy => Tended(t, act[o])
  <2>1. SUFFICES ASSUME Healthy PROVE Tended(t, act[o])
    OBVIOUS
  <2>2. Tended(s, act[o])
    BY <2>1, OwnerFacts
  <2>3. t.prompts = u.prompts
    BY <1>2 DEF Proved, Retired, Session
  <2>4. \A q \in Prompts : \/ u.prompts[q] = s.prompts[q]
                           \/ s.prompts[q].closing /\ u.prompts[q].closing = s.prompts[q].closing
    BY <1>1, SettlementIs
  <2> HIDE DEF s, t, u
  <2>5. QED
    BY <1>1, <2>2, <2>3, <2>4 DEF Tended, Early
<1>6. act'[o] = act[o] /\ \A x \in Owners \ {o} : act'[x] = act[x]
  BY DEF Prove
<1>7. QED
  BY <1>1, <1>3, <1>4, <1>5, <1>6, CommitKeeps DEF Prove, Save, provider

(* A failed attempt leaves nothing behind.                                 *)
LEMMA WorkerFailsKeeps ==
  ASSUME IInv, NEW o \in Owners, WorkerFails(o)
  PROVE  StoreInv' /\ \A x \in Owners : OwnerInv(x)'
<1>1. /\ wk[o].pc # "idle" /\ wk'[o] = NoWorker /\ \A x \in Owners \ {o} : wk'[x] = wk[x]
  BY DEF WorkerFails, WorkerEnds, IInv, TypeOK
<1>2. WorkerOK(ledger[o], act[o], wk'[o], wire[o], remote[o])
  BY <1>1 DEF WorkerOK, NoWorker
<1>3. QED
  BY <1>1, <1>2, OwnerFacts, WorkerFacts, OwnerKeeps DEF WorkerFails, provider

(* All steps of cleanup.                                                   *)
LEMMA CleanupKeeps ==
  ASSUME IInv, NEW o \in Owners, Cleanup(o)
  PROVE  StoreInv' /\ \A x \in Owners : OwnerInv(x)'
BY ReconcileKeeps, StopSessionKeeps, StopProvedKeeps, DeleteSessionKeeps, DeleteProvedKeeps,
   ProveKeeps, WorkerFailsKeeps DEF Cleanup

-----------------------------------------------------------------------------
(* The provider.                                                           *)

(* A step of the provider, at any time of the process.                     *)
LEMMA ProviderKeeps ==
  ASSUME IInv, NEW o \in Owners, UNCHANGED <<life, ledger, disk, act, wk>>,
         \A x \in Owners \ {o} : remote'[x] = remote[x] /\ wire'[x] = wire[x],
         \A s \in Session : RecordOK(s, wire[o], remote[o]) => RecordOK(s, wire'[o], remote'[o]),
         ProviderOK(wire'[o], remote'[o]),
         CallOK(ledger[o], act[o], wire'[o], remote'[o]),
         WorkerOK(ledger[o], act[o], wk[o], wire'[o], remote'[o])
  PROVE  StoreInv' /\ \A x \in Owners : OwnerInv(x)'
<1>1. ledger[o] \in Session /\ disk[o] \in Session
  BY DEF IInv, TypeOK
<1>2. OwnerInv(o)'
  <2>1. Healthy' => Tended(ledger[o], act[o])
    BY OwnerFacts DEF Healthy
  <2>2. QED
    BY <1>1, <2>1, OwnerFacts DEF OwnerInv
<1>3. StoreInv' /\ (Healthy' => Healthy)
  BY DEF IInv, StoreInv, Healthy
<1>4. QED
  BY <1>2, <1>3, OthersKeep

(* A creation lands in the session the record names.                       *)
LEMMA CreateLandsKeeps ==
  ASSUME IInv, NEW o \in Owners, NEW id \in Ids, CreateLands(o, id)
  PROVE  StoreInv' /\ \A x \in Owners : OwnerInv(x)'
<1>1. PICK st \in {"active", "refused"} : remote' = [remote EXCEPT ![o][id] = st]
  BY DEF CreateLands
<1>2. /\ remote[o][id] = "creating" /\ remote'[o][id] = st
      /\ \A j \in Ids : j # id => remote'[o][j] = remote[o][j]
      /\ \A x \in Owners \ {o} : remote'[x] = remote[x]
      /\ UNCHANGED <<life, ledger, disk, act, wk, wire>>
  BY <1>1 DEF CreateLands, IInv, TypeOK
<1>3. \A s \in Session : RecordOK(s, wire[o], remote[o]) => RecordOK(s, wire[o], remote'[o])
  BY <1>2 DEF RecordOK, RemoteFits, Possible, Live
<1>4. ProviderOK(wire[o], remote'[o])
  BY <1>2, OwnerFacts DEF ProviderOK
<1>5. CallOK(ledger[o], act[o], wire[o], remote'[o])
  <2>1. CASE act[o].pc = "idle"
    BY <2>1 DEF CallOK
  <2>2. CASE act[o].pc # "idle"
    <3>1. act[o].pc \in {"createReady", "creating"} => ledger[o].remote \in Ids
      BY <2>2, LiveFacts DEF CallSteps
    <3>2. CallOK(ledger[o], act[o], wire[o], remote[o])
      BY OwnerFacts
    <3>3. QED
      BY <1>2, <3>1, <3>2 DEF CallOK
  <2>3. QED
    BY <2>1, <2>2
<1>6. WorkerOK(ledger[o], act[o], wk[o], wire[o], remote'[o])
  <2>1. CASE wk[o].pc = "idle"
    BY <2>1 DEF WorkerOK
  <2>2. CASE wk[o].pc # "idle"
    BY <1>2, <2>2, WorkerFacts DEF WorkerOK
  <2>3. QED
    BY <2>1, <2>2
<1>7. QED
  BY <1>2, <1>3, <1>4, <1>5, <1>6, ProviderKeeps

(* One request changes at the provider.                                    *)
LEMMA OneRequest ==
  ASSUME TypeOK, NEW o \in Owners, NEW p \in Prompts, NEW n \in Seqs, NEW w,
         wire' = [wire EXCEPT ![o][p][n] = w]
  PROVE  /\ wire'[o][p][n] = w
         /\ \A q \in Prompts, m \in Seqs : (q = p /\ m = n) \/ wire'[o][q][m] = wire[o][q][m]
         /\ \A x \in Owners \ {o} : wire'[x] = wire[x]
BY DEF TypeOK

(* An answer does not disturb the record: a flying request is an intent    *)
(* and stays one while it runs.                                            *)
LEMMA RequestFits ==
  ASSUME NEW s, NEW v, NEW v2, NEW p \in Prompts, NEW n \in Seqs, WireFits(s, v),
         \A q \in Prompts, m \in Seqs : (q = p /\ m = n) \/ v2[q][m] = v[q][m],
         \/ v[p][n] = "flying" /\ v2[p][n] \in {"running", "refused"}
         \/ v[p][n] = "running" /\ v2[p][n] \in {"completed", "ended"}
  PROVE  WireFits(s, v2)
<1>1. StateFits(s.prompts[p].state[n], v2[p][n])
  BY DEF WireFits, StateFits
<1>2. s.create \notin {"none", "intent"}
  BY DEF WireFits
<1>3. QED
  BY <1>1, <1>2 DEF WireFits

(* Nor does it disturb the call that waits for it.                         *)
LEMMA RequestCall ==
  ASSUME IInv, NEW o \in Owners, NEW v2, NEW r2, NEW p \in Prompts, NEW n \in Seqs,
         \A q \in Prompts, m \in Seqs : (q = p /\ m = n) \/ v2[q][m] = wire[o][q][m],
         \/ wire[o][p][n] = "flying" /\ v2[p][n] \in {"running", "refused"}
         \/ wire[o][p][n] = "running" /\ v2[p][n] \in {"completed", "ended"},
         \A id \in Ids : r2[id] = "unused" <=> remote[o][id] = "unused"
  PROVE  CallOK(ledger[o], act[o], v2, r2)
<1>1. CASE act[o].pc = "idle"
  BY <1>1 DEF CallOK
<1>2. CASE act[o].pc # "idle"
  <2> DEFINE s == ledger[o]  a == act[o]
  <2>1. CallSteps(a.pc, a.error, s.prompts[a.prompt].state[a.seq], v2[a.prompt][a.seq], s.create)
    <3>1. CASE a.prompt = p /\ a.seq = n
      BY <1>2, <3>1, LiveFacts DEF CallSteps, StateFits
    <3>2. CASE v2[a.prompt][a.seq] = wire[o][a.prompt][a.seq]
      BY <1>2, <3>2, LiveFacts
    <3>3. QED
      BY <1>2, <3>1, <3>2, LiveFacts
  <2>2. a.pc \in {"createReady", "creating"} => s.remote \in Ids
    BY <1>2, LiveFacts DEF CallSteps
  <2>3. QED
    BY <1>2, <2>1, <2>2, LiveFacts DEF CallOK
<1>3. QED
  BY <1>1, <1>2

(* A request that lands runs in the session the record names.              *)
LEMMA InferenceLandsKeeps ==
  ASSUME IInv, NEW o \in Owners, NEW p \in Prompts, NEW n \in Seqs, InferenceLands(o, p, n)
  PROVE  StoreInv' /\ \A x \in Owners : OwnerInv(x)'
<1>1. PICK id \in Ids :
        /\ remote[o][id] \in Live
        /\ remote' = [remote EXCEPT ![o][id] = IF @ = "idle" THEN "active" ELSE @]
  BY DEF InferenceLands
<1>2. /\ wire[o][p][n] = "flying" /\ wire'[o][p][n] = "running"
      /\ \A q \in Prompts, m \in Seqs : (q = p /\ m = n) \/ wire'[o][q][m] = wire[o][q][m]
      /\ \A x \in Owners \ {o} : wire'[x] = wire[x]
      /\ UNCHANGED <<life, ledger, disk, act, wk>>
  <2>1. TypeOK /\ wire' = [wire EXCEPT ![o][p][n] = "running"]
    BY DEF InferenceLands, IInv
  <2>2. /\ wire'[o][p][n] = "running"
        /\ \A q \in Prompts, m \in Seqs : (q = p /\ m = n) \/ wire'[o][q][m] = wire[o][q][m]
        /\ \A x \in Owners \ {o} : wire'[x] = wire[x]
    BY <2>1, OneRequest
  <2>3. wire[o][p][n] = "flying" /\ UNCHANGED <<life, ledger, disk, act, wk>>
    BY DEF InferenceLands
  <2>4. QED
    BY <2>2, <2>3
<1>3. /\ remote'[o][id] = IF remote[o][id] = "idle" THEN "active" ELSE remote[o][id]
      /\ \A j \in Ids : j # id => remote'[o][j] = remote[o][j]
      /\ \A x \in Owners \ {o} : remote'[x] = remote[x]
  BY <1>1 DEF IInv, TypeOK
<1>4. ASSUME NEW s \in Session, RecordOK(s, wire[o], remote[o])
      PROVE  RecordOK(s, wire'[o], remote'[o])
  <2>1. WireFits(s, wire'[o])
    BY <1>2, <1>4, RequestFits DEF RecordOK
  <2>2. RemoteFits(s, remote'[o])
    BY <1>1, <1>3, <1>4 DEF RecordOK, RemoteFits, Possible, Live
  <2>3. QED
    BY <1>4, <2>1, <2>2 DEF RecordOK
<1>5. ProviderOK(wire'[o], remote'[o])
  <2>1. \A j \in Ids : remote'[o][j] # "idle"
    BY <1>1, <1>3, OwnerFacts DEF RecordOK, RemoteFits, Possible, Live
  <2>2. QED
    BY <2>1 DEF ProviderOK
<1>6. CallOK(ledger[o], act[o], wire'[o], remote'[o])
  <2>1. \A j \in Ids : remote'[o][j] = "unused" <=> remote[o][j] = "unused"
    BY <1>1, <1>3 DEF Live
  <2>2. QED
    BY <1>2, <2>1, RequestCall
<1>7. WorkerOK(ledger[o], act[o], wk[o], wire'[o], remote'[o])
  BY <1>2, OwnerFacts DEF WorkerOK
<1>8. QED
  BY <1>2, <1>3, <1>4, <1>5, <1>6, <1>7, ProviderKeeps

(* A refused request is over.                                              *)
LEMMA InferenceRefusedKeeps ==
  ASSUME IInv, NEW o \in Owners, NEW p \in Prompts, NEW n \in Seqs,
         InferenceRefused(o, p, n) \/ ResponseEnds(o, p, n)
  PROVE  StoreInv' /\ \A x \in Owners : OwnerInv(x)'
<1>1. PICK st : /\ wire' = [wire EXCEPT ![o][p][n] = st]
                /\ \/ wire[o][p][n] = "flying" /\ st = "refused"
                   \/ wire[o][p][n] = "running" /\ st \in {"completed", "ended"}
  BY DEF InferenceRefused, ResponseEnds
<1>2. /\ wire'[o][p][n] = st
      /\ \A q \in Prompts, m \in Seqs : (q = p /\ m = n) \/ wire'[o][q][m] = wire[o][q][m]
      /\ \A x \in Owners \ {o} : wire'[x] = wire[x]
  <2>1. TypeOK
    BY DEF IInv
  <2>2. QED
    BY <1>1, <2>1, OneRequest
<1>3. UNCHANGED <<life, ledger, disk, act, wk, remote>>
  BY DEF InferenceRefused, ResponseEnds
<1>4. \/ wire[o][p][n] = "flying" /\ wire'[o][p][n] \in {"running", "refused"}
      \/ wire[o][p][n] = "running" /\ wire'[o][p][n] \in {"completed", "ended"}
  BY <1>1, <1>2
<1>5. ASSUME NEW s \in Session, RecordOK(s, wire[o], remote[o])
      PROVE  RecordOK(s, wire'[o], remote[o])
  <2>1. WireFits(s, wire'[o])
    <3>1. WireFits(s, wire[o])
      BY <1>5 DEF RecordOK
    <3>2. \A q \in Prompts, m \in Seqs : (q = p /\ m = n) \/ wire'[o][q][m] = wire[o][q][m]
      BY <1>2
    <3>3. CASE wire[o][p][n] = "flying" /\ wire'[o][p][n] = "refused"
      BY <3>1, <3>2, <3>3, RequestFits
    <3>4. CASE wire[o][p][n] = "running" /\ wire'[o][p][n] \in {"completed", "ended"}
      BY <3>1, <3>2, <3>4, RequestFits
    <3>5. QED
      BY <1>1, <1>2, <3>3, <3>4
  <2>2. QED
    BY <1>5, <2>1 DEF RecordOK
<1>6. ProviderOK(wire'[o], remote[o])
  BY <1>1, <1>2, OwnerFacts DEF ProviderOK
<1>7. CallOK(ledger[o], act[o], wire'[o], remote[o])
  BY <1>2, <1>4, RequestCall
<1>8. WorkerOK(ledger[o], act[o], wk[o], wire'[o], remote[o])
  <2>1. CASE wk[o].pc = "idle"
    BY <2>1 DEF WorkerOK
  <2>2. CASE wk[o].pc # "idle"
    <3>1. \A q \in Prompts, m \in Seqs :
            /\ wire[o][q][m] # "flying" => wire'[o][q][m] # "flying"
            /\ wire[o][q][m] # "running" => wire'[o][q][m] # "running"
      BY <1>1, <1>2
    <3>2. wk[o].closing \subseteq Prompts /\ WorkerOK(ledger[o], act[o], wk[o], wire[o], remote[o])
      BY <2>2, WorkerFacts DEF LiveWorker
    <3>3. QED
      BY <2>2, <3>1, <3>2 DEF WorkerOK, Outstanding
  <2>3. QED
    BY <2>1, <2>2
<1>9. QED
  BY <1>2, <1>3, <1>5, <1>6, <1>7, <1>8, ProviderKeeps

(* What runs in a session ends when it goes idle.                          *)
LEMMA SessionIdlesKeeps ==
  ASSUME IInv, NEW o \in Owners, NEW id \in Ids, SessionIdles(o, id)
  PROVE  StoreInv' /\ \A x \in Owners : OwnerInv(x)'
<1>1. /\ remote[o][id] \in {"stopping", "active"}
      /\ UNCHANGED <<life, ledger, disk, act, wk>>
  BY DEF SessionIdles
<1>2. /\ remote'[o][id] = "idle"
      /\ \A j \in Ids : j # id => remote'[o][j] = remote[o][j]
      /\ \A x \in Owners \ {o} : remote'[x] = remote[x]
  BY DEF SessionIdles, IInv, TypeOK
<1>3. /\ \A p \in Prompts, n \in Seqs :
           wire'[o][p][n] = IF wire[o][p][n] = "running" THEN "ended" ELSE wire[o][p][n]
      /\ \A x \in Owners \ {o} : wire'[x] = wire[x]
  BY EndedIs DEF SessionIdles, IInv
<1>4. ASSUME NEW s \in Session, RecordOK(s, wire[o], remote[o])
      PROVE  RecordOK(s, wire'[o], remote'[o])
  <2>1. WireFits(s, wire'[o])
    BY <1>3, <1>4, EndedFits DEF RecordOK
  <2>2. RemoteFits(s, remote'[o])
    BY <1>1, <1>2, <1>4 DEF RecordOK, RemoteFits, Possible, Live
  <2>3. QED
    BY <1>4, <2>1, <2>2 DEF RecordOK
<1>5. ProviderOK(wire'[o], remote'[o])
  BY <1>3 DEF ProviderOK
<1>6. CallOK(ledger[o], act[o], wire'[o], remote'[o])
  <2>1. CASE act[o].pc = "idle"
    BY <2>1 DEF CallOK
  <2>2. CASE act[o].pc # "idle"
    <3> DEFINE s == ledger[o]  a == act[o]
    <3>1. CallSteps(a.pc, a.error, s.prompts[a.prompt].state[a.seq], wire'[o][a.prompt][a.seq], s.create)
      <4>1. /\ a.prompt \in Prompts /\ a.seq \in Seqs
            /\ CallSteps(a.pc, a.error, s.prompts[a.prompt].state[a.seq],
                         wire[o][a.prompt][a.seq], s.create)
        BY <2>2, LiveFacts
      <4>2. wire'[o][a.prompt][a.seq] = IF wire[o][a.prompt][a.seq] = "running"
                                          THEN "ended" ELSE wire[o][a.prompt][a.seq]
        BY <1>3, <4>1
      <4>3. QED
        BY <4>1, <4>2 DEF CallSteps
    <3>2. a.pc \in {"createReady", "creating"} => s.remote \in Ids
      BY <2>2, LiveFacts DEF CallSteps
    <3>3. QED
      BY <1>1, <1>2, <2>2, <3>1, <3>2, LiveFacts DEF CallOK
  <2>3. QED
    BY <2>1, <2>2
<1>7. WorkerOK(ledger[o], act[o], wk[o], wire'[o], remote'[o])
  <2>1. CASE wk[o].pc = "idle"
    BY <2>1 DEF WorkerOK
  <2>2. CASE wk[o].pc # "idle"
    <3>1. \A q \in Prompts, m \in Seqs :
            /\ wire[o][q][m] # "flying" => wire'[o][q][m] # "flying"
            /\ wire'[o][q][m] # "running"
      BY <1>3
    <3>2. /\ wk[o].closing \subseteq Prompts
          /\ WorkerOK(ledger[o], act[o], wk[o], wire[o], remote[o])
          /\ ledger[o].create = "known" => ledger[o].remote \in Ids
      BY <2>2, WorkerFacts DEF LiveWorker
    <3>3. QED
      BY <1>1, <1>2, <2>2, <3>1, <3>2 DEF WorkerOK, Outstanding
  <2>3. QED
    BY <2>1, <2>2
<1>8. QED
  BY <1>1, <1>2, <1>3, <1>4, <1>5, <1>6, <1>7, ProviderKeeps

(* All steps of the provider.                                              *)
LEMMA ProviderStepKeeps ==
  ASSUME IInv, NEW o \in Owners, Provider(o)
  PROVE  StoreInv' /\ \A x \in Owners : OwnerInv(x)'
BY CreateLandsKeeps, SessionIdlesKeeps, InferenceLandsKeeps, InferenceRefusedKeeps DEF Provider

-----------------------------------------------------------------------------
(* The process.                                                            *)

(* One commit closes the expired prompts of every owner.                   *)
LEMMA SweepKeeps ==
  ASSUME IInv, Sweep
  PROVE  StoreInv' /\ \A x \in Owners : OwnerInv(x)'
<1> DEFINE next == [o \in Owners |-> Closed(ledger[o], Expired(ledger[o]))]
<1>1. disk = ledger /\ UNCHANGED <<wk, remote, wire>>
  BY DEF Sweep, IInv, StoreInv, Healthy, provider
<1>2. ASSUME NEW o \in Owners
      PROVE  RecordOK(next[o], wire[o], remote[o])
  BY OwnerFacts, RecordClosed
<1>3. CASE Save(next) /\ act' = [o \in Owners |-> IF act[o].prompt \in Unsettled(next[o])
                                                    THEN Cancelled(act[o]) ELSE act[o]]
  <2>1. ASSUME NEW o \in Owners
        PROVE  OwnerInv(o)'
    <3> DEFINE s == ledger[o]  P == Expired(s)
    <3>1. ledger'[o] = Closed(s, P) /\ disk'[o] = Closed(s, P) /\ next[o] = Closed(s, P)
      BY <1>3 DEF Save
    <3>2. act'[o] = IF act[o].prompt \in Unsettled(next[o]) THEN Cancelled(act[o]) ELSE act[o]
      BY <1>3
    <3>3. act[o].pc # "idle" /\ act[o].prompt \in P => act[o].prompt \in Unsettled(next[o])
      BY <3>1, LiveFacts, ClosedIs DEF Unsettled, Unfinished
    <3>4. act[o].pc = "idle" => act'[o] = act[o]
      BY <1>3 DEF Cancelled
    <3>5. /\ CallOK(Closed(s, P), act'[o], wire[o], remote[o])
          /\ WorkerOK(Closed(s, P), act'[o], wk[o], wire[o], remote[o])
          /\ Tended(Closed(s, P), act'[o])
      <4>a. Tended(s, act[o])
        BY <1>3, OwnerFacts DEF Save
      <4>1. CASE act[o].pc = "idle"
        <5>1. act'[o] = act[o]
          BY <3>4, <4>1
        <5>2. QED
          BY <4>a, <4>1, <5>1, OwnerFacts, ClosedKeeps
      <4>2. CASE act[o].pc # "idle"
        <5>1. act[o].prompt \in Unsettled(next[o]) =>
                act[o].prompt \in P \/ s.prompts[act[o].prompt].closing
          BY <3>1, <4>2, LiveFacts, ClosedIs DEF Unsettled
        <5>2. s.prompts[act[o].prompt].closing => act[o].cancelled
          BY <4>2, LiveFacts
        <5>3. act[o].cancelled => Cancelled(act[o]) = act[o]
          BY <4>2, LiveFacts DEF Cancelled, LiveCall
        <5>4. \/ act'[o] = Cancelled(act[o]) /\ act[o].prompt \in P
              \/ act'[o] = act[o] /\ act[o].prompt \notin P
          BY <3>2, <3>3, <4>2, <5>1, <5>2, <5>3
        <5>5. QED
          BY <4>a, <5>4, OwnerFacts, ClosedKeeps
      <4>3. QED
        BY <4>1, <4>2
    <3>6. QED
      BY <1>1, <1>2, <3>1, <3>5, OwnerFacts DEF OwnerInv
  <2>2. StoreInv'
    BY <1>3 DEF Save, StoreInv, Healthy
  <2>3. QED
    BY <2>1, <2>2
<1>4. CASE Lose(next) /\ UNCHANGED act
  <2>1. ASSUME NEW o \in Owners
        PROVE  OwnerInv(o)'
    <3>1. ledger'[o] = ledger[o] /\ disk'[o] = next[o] /\ act'[o] = act[o]
      BY <1>4 DEF Lose
    <3>a. ~Healthy'
      BY <1>4 DEF Lose, Healthy
    <3> HIDE DEF next
    <3>2. QED
      BY <1>1, <1>2, <3>1, <3>a, OwnerFacts DEF OwnerInv
  <2>2. StoreInv'
    BY <1>4 DEF Lose, StoreInv, Healthy
  <2>3. QED
    BY <2>1, <2>2
<1>5. QED
  BY <1>3, <1>4 DEF Sweep

(* A restart loads what the file holds, also after a lost write.           *)
LEMMA RestartKeeps ==
  ASSUME IInv, Stop \/ Restart
  PROVE  StoreInv' /\ \A x \in Owners : OwnerInv(x)'
<1>1. /\ UNCHANGED <<remote, wire>>
      /\ \A o \in Owners : act'[o] = Idle /\ wk'[o] = NoWorker
      /\ disk' = ledger'
      /\ disk' = disk \/ disk' = Recovered(disk)
      /\ life' = "down" => act' = [o \in Owners |-> Idle] /\ wk' = [o \in Owners |-> NoWorker]
  BY DEF Stop, Restart, IInv, StoreInv, provider
<1>2. ASSUME NEW o \in Owners
      PROVE  RecordOK(disk'[o], wire[o], remote[o])
  <2>1. disk[o] \in Session /\ RecordOK(disk[o], wire[o], remote[o])
    BY OwnerFacts DEF IInv, TypeOK
  <2>2. Recovered(disk)[o] = Closed(disk[o], {p \in Prompts : ~disk[o].prompts[p].settled})
    BY DEF Recovered
  <2>3. QED
    BY <1>1, <2>1, <2>2, RecordClosed
<1>3. ASSUME NEW o \in Owners
      PROVE  OwnerInv(o)'
  <2>1. ProviderOK(wire[o], remote[o])
    BY OwnerFacts
  <2>2. CallOK(ledger'[o], Idle, wire[o], remote[o])
        /\ WorkerOK(ledger'[o], Idle, NoWorker, wire[o], remote[o])
    BY DEF CallOK, WorkerOK, Idle, NoWorker
  <2>3. Healthy' => Tended(ledger'[o], Idle)
    <3>1. SUFFICES ASSUME Healthy' PROVE Tended(ledger'[o], Idle)
      OBVIOUS
    <3>2. ledger'[o] = Closed(disk[o], {p \in Prompts : ~disk[o].prompts[p].settled})
      BY <3>1 DEF Stop, Restart, Recovered, Healthy
    <3>3. disk[o] \in Session /\ \A p \in Prompts : PromptSound(disk[o].prompts[p])
      BY OwnerFacts DEF IInv, TypeOK, RecordOK, SessionFits
    <3>4. \A p \in Prompts : ledger'[o].prompts[p].present => ledger'[o].prompts[p].closing
      BY <3>2, <3>3, ClosedIs DEF PromptSound
    <3>5. QED
      BY <3>4 DEF Tended, Idle, Early
  <2>4. QED
    BY <1>1, <1>2, <2>1, <2>2, <2>3 DEF OwnerInv
<1>4. QED
  BY <1>1, <1>3 DEF StoreInv

(* All steps of the process as a whole.                                    *)
LEMMA ProcessKeeps ==
  ASSUME IInv, Process
  PROVE  StoreInv' /\ \A x \in Owners : OwnerInv(x)'
<1>1. CASE Tick \/ Shutdown
  <2>1. StoreInv'
    BY <1>1 DEF IInv, StoreInv, Tick, Shutdown, Healthy
  <2>2. UNCHANGED <<ledger, disk, act, wk, remote, wire>> /\ (Healthy' => Healthy)
    BY <1>1 DEF Tick, Shutdown, provider, Healthy
  <2>3. QED
    BY <2>1, <2>2 DEF IInv, OwnerInv
<1>2. CASE StorageFails
  <2>1. StoreInv'
    BY <1>2 DEF IInv, StoreInv, StorageFails, Lose, Healthy
  <2>2. UNCHANGED <<ledger, disk, act, wk, remote, wire>>
    BY <1>2 DEF StorageFails, Lose, provider
  <2>3. ~Healthy'
    BY <1>2 DEF StorageFails, Lose, Healthy
  <2>4. QED
    BY <2>1, <2>2, <2>3 DEF IInv, OwnerInv
<1>3. QED
  BY <1>1, <1>2, SweepKeeps, RestartKeeps DEF Process

-----------------------------------------------------------------------------
(* The invariant and the theorems.                                         *)

(* Every step preserves the invariant.                                     *)
LEMMA NextInv ==
  ASSUME IInv, [Next]_vars
  PROVE  IInv'
<1>1. TypeOK'
  BY NextTyped DEF IInv
<1>2. CASE UNCHANGED vars
  <2>1. (Healthy' => Healthy) /\ UNCHANGED vars
    BY <1>2 DEF vars, Healthy
  <2>2. QED
    BY <1>1, <2>1 DEF vars, IInv, StoreInv, Healthy, OwnerInv
<1>3. CASE Next
  <2>1. StoreInv' /\ \A x \in Owners : OwnerInv(x)'
    BY <1>3, RequestsKeep, InvocationKeeps, CleanupKeeps, ProviderStepKeeps, ProcessKeeps DEF Next
  <2>2. QED
    BY <1>1, <2>1 DEF IInv
<1>4. QED
  BY <1>2, <1>3

(* The ledger, its file, the running goroutines and the provider always    *)
(* agree on what may still be running.                                     *)
THEOREM Invariant == Spec => []IInv
<1>1. QED
  BY InitInv, NextInv, PTL DEF Spec

(* A settled prompt runs nothing and can receive nothing any more, over    *)
(* lost answers, storage failures and restarts (reconcile).                *)
THEOREM SettledPromptsAreQuiet == Spec => []SettledIsQuiet
<1>1. QED
  BY Invariant, InvImplies, PTL

(* A retired owner has left nothing at the provider (remoteSessionDelete). *)
THEOREM RetiredOwnersAreGone == Spec => []RetiredIsGone
<1>1. QED
  BY Invariant, InvImplies, PTL

(* An owner has at most one provider session (invoke's create path).       *)
THEOREM AtMostOneSession == Spec => []OneSession
<1>1. QED
  BY Invariant, InvImplies, PTL

(* Everything the provider has or may receive is owned by the ledger file  *)
(* (commit before send in invoke, finishInvocation's outcomes).            *)
THEOREM EverythingIsOwned == Spec => []OwnedOnDisk
<1>1. QED
  BY Invariant, InvImplies, PTL

(* Cleanup and a live invocation of an owner exclude each other            *)
(* (startReconcile, reserveInvocation).                                    *)
THEOREM CleanupRunsAlone == Spec => []CleanupIsExclusive
<1>1. QED
  BY Invariant, InvImplies, PTL

(* Whatever a crash or a failed write leaves on disk, the next start could *)
(* refuse for one reason only, a prompt that holds the zero lease           *)
(* (brokerLedgerValid at openBrokerStore).                                  *)
THEOREM OnlyZeroLeasesAreRefused == Spec => []OnlyZeroLeaseIsRefused
<1>1. QED
  BY Invariant, InvImplies, PTL

(* A task attempt has one prompt key for ever (EnsurePrompt).              *)
THEOREM AttemptsHaveOneKey == Spec => []OneKeyPerAttempt
<1>1. QED
  BY Invariant, InvImplies, PTL

(* An open prompt has no orphan: what is not completed in it is served by  *)
(* the owner's live request (finishInvocation, newLifecycleBroker).        *)
THEOREM OpenPromptsAreServed == Spec => []OpenIsServed
<1>1. QED
  BY Invariant, InvImplies, PTL

(* An answer that reports nothing active, ambiguous or pending is true at  *)
(* the provider (controlResponseLocked).                                   *)
THEOREM QuietAnswersAreTrue == Spec => []QuietAnswerIsTrue
<1>1. QED
  BY Invariant, InvImplies, PTL

(* A renewal acknowledged during the session's creation belongs to the     *)
(* request that owns the creation (canAcknowledgeCreateRenewalLocked).     *)
THEOREM EarlyRenewalsAreOwned == Spec => []AcknowledgedRenewalIsOwned
<1>1. QED
  BY Invariant, InvImplies, PTL

-----------------------------------------------------------------------------
(* What a step may never do at the provider.                               *)

(* Only two requests of an invocation, two of a cleanup worker and the     *)
(* provider itself change what the provider has.                           *)
LEMMA WhoTouchesProvider ==
  ASSUME [Next]_vars
  PROVE  \/ UNCHANGED provider
         \/ \E o \in Owners : \/ SendCreate(o) \/ SendInference(o)
                              \/ StopSession(o) \/ DeleteSession(o) \/ Provider(o)
<1>1. CASE UNCHANGED vars
  BY <1>1 DEF vars, provider
<1>2. ASSUME NEW o \in Owners, Requests(o)
      PROVE  UNCHANGED provider
  BY <1>2, ZenonT(40) DEF Requests, Renew, Settle, Retire, ClosePrompt, Reserve, provider
<1>3. ASSUME NEW o \in Owners, Invocation(o)
      PROVE  UNCHANGED provider \/ SendCreate(o) \/ SendInference(o)
  BY <1>3 DEF Invocation, CreateIntent, CreateDisproved, CreateAcknowledged, InferenceIntent,
       InferenceRejected, InferenceAccepted, InferenceCompleted, InvokeFails, Finish, provider
<1>4. ASSUME NEW o \in Owners, Cleanup(o)
      PROVE  UNCHANGED provider \/ StopSession(o) \/ DeleteSession(o)
  BY <1>4 DEF Cleanup, Reconcile, StopProved, DeleteProved, WorkerFails, Prove, provider
<1>5. ASSUME Process
      PROVE  UNCHANGED provider
  BY <1>5 DEF Process, Tick, Sweep, StorageFails, Lose, Shutdown, Stop, Restart, provider
<1>6. QED
  BY <1>1, <1>2, <1>3, <1>4, <1>5 DEF Next

(* An inference starts to fly by SendInference only.                       *)
LEMMA OnlySendInferenceFlies ==
  ASSUME IInv, [Next]_vars, NEW o \in Owners, NEW p \in Prompts, NEW n \in Seqs,
         wire[o][p][n] # "flying", wire'[o][p][n] = "flying"
  PROVE  SendInference(o) /\ p = act[o].prompt /\ n = act[o].seq
<1>1. wire \in [Owners -> [Prompts -> [Seqs -> WireStates]]]
  BY DEF IInv, TypeOK
<1>2. ASSUME NEW x \in Owners, SendInference(x)
      PROVE  x = o /\ p = act[o].prompt /\ n = act[o].seq
  BY <1>1, <1>2, LiveFacts DEF SendInference
<1>3. ASSUME NEW x \in Owners, SendCreate(x) \/ StopSession(x)
      PROVE  FALSE
  BY <1>3 DEF SendCreate, StopSession
<1>4. ASSUME NEW x \in Owners, DeleteSession(x)
      PROVE  FALSE
  <2>1. wire' = [wire EXCEPT ![x] = [q \in Prompts |-> [m \in Seqs |->
                  IF @[q][m] = "running" THEN "ended" ELSE @[q][m]]]]
    BY <1>4 DEF DeleteSession
  <2>2. QED
    BY <1>1, <2>1
<1>5. ASSUME NEW x \in Owners, Provider(x)
      PROVE  FALSE
  <2>1. ASSUME NEW id \in Ids, CreateLands(x, id) \/ SessionIdles(x, id)
        PROVE  FALSE
    BY <1>1, <2>1 DEF CreateLands, SessionIdles
  <2>2. ASSUME NEW q \in Prompts, NEW m \in Seqs,
               InferenceLands(x, q, m) \/ InferenceRefused(x, q, m) \/ ResponseEnds(x, q, m)
        PROVE  FALSE
    <3>1. \E st \in {"running", "refused", "completed", "ended"} :
            wire' = [wire EXCEPT ![x][q][m] = st]
      BY <2>2 DEF InferenceLands, InferenceRefused, ResponseEnds
    <3>2. QED
      BY <1>1, <3>1
  <2>3. QED
    BY <1>5, <2>1, <2>2 DEF Provider
<1>6. ~UNCHANGED provider
  BY DEF provider
<1>7. QED
  BY <1>2, <1>3, <1>4, <1>5, <1>6, WhoTouchesProvider

(* A creation starts by SendCreate only, and a deletion takes effect by    *)
(* DeleteSession only.                                                     *)
LEMMA OnlySendCreateCreates ==
  ASSUME IInv, [Next]_vars, NEW o \in Owners, NEW id \in Ids,
         remote[o][id] # remote'[o][id], remote'[o][id] \in {"creating", "deleted"}
  PROVE  \/ SendCreate(o) /\ id = ledger[o].remote /\ remote'[o][id] = "creating"
         \/ DeleteSession(o) /\ id = ledger[o].remote /\ remote'[o][id] = "deleted"
<1>1. remote \in [Owners -> [Ids -> SessionStates]]
  BY DEF IInv, TypeOK
<1>2. ASSUME NEW x \in Owners, SendCreate(x)
      PROVE  x = o /\ id = ledger[o].remote /\ remote'[o][id] = "creating"
  BY <1>1, <1>2 DEF SendCreate
<1>3. ASSUME NEW x \in Owners, DeleteSession(x)
      PROVE  x = o /\ id = ledger[o].remote /\ remote'[o][id] = "deleted"
  BY <1>1, <1>3 DEF DeleteSession
<1>4. ASSUME NEW x \in Owners, SendInference(x) \/ StopSession(x)
      PROVE  FALSE
  BY <1>1, <1>4 DEF SendInference, StopSession
<1>5. ASSUME NEW x \in Owners, Provider(x)
      PROVE  FALSE
  <2>1. ASSUME NEW j \in Ids, CreateLands(x, j) \/ SessionIdles(x, j)
        PROVE  FALSE
    BY <1>1, <2>1 DEF CreateLands, SessionIdles
  <2>2. ASSUME NEW q \in Prompts, NEW m \in Seqs,
               InferenceLands(x, q, m) \/ InferenceRefused(x, q, m) \/ ResponseEnds(x, q, m)
        PROVE  FALSE
    BY <1>1, <2>2 DEF InferenceLands, InferenceRefused, ResponseEnds
  <2>3. QED
    BY <1>5, <2>1, <2>2 DEF Provider
<1>6. ~UNCHANGED provider
  BY DEF provider
<1>7. QED
  BY <1>2, <1>3, <1>4, <1>5, <1>6, WhoTouchesProvider

-----------------------------------------------------------------------------
(* The action properties.                                                  *)

(* Nothing is dispatched once the prompt's closing, the owner's retirement *)
(* or a storage failure is durable (invoke's intent, sendRemoteRequest).   *)
THEOREM DispatchIsAuthorized == Spec => DispatchNeedsAuthority
<1> DEFINE A == \A o \in Owners, p \in Prompts, n \in Seqs :
                  wire[o][p][n] # "flying" /\ wire'[o][p][n] = "flying" =>
                    /\ life = "up" /\ ~disk[o].retiring
                    /\ ~disk[o].prompts[p].closing /\ ~disk[o].prompts[p].settled
<1>1. ASSUME IInv, [Next]_vars
      PROVE  A
  <2>1. SUFFICES ASSUME NEW o \in Owners, NEW p \in Prompts, NEW n \in Seqs,
                        wire[o][p][n] # "flying", wire'[o][p][n] = "flying"
                 PROVE  /\ life = "up" /\ ~disk[o].retiring
                        /\ ~disk[o].prompts[p].closing /\ ~disk[o].prompts[p].settled
    OBVIOUS
  <2>2. SendInference(o) /\ p = act[o].prompt
    BY <1>1, <2>1, OnlySendInferenceFlies
  <2>3. act[o].pc = "ready" /\ life = "up" /\ ~act[o].cancelled
    BY <2>2 DEF SendInference, CtxAlive
  <2>4. /\ disk[o] = ledger[o] /\ Unfinished(ledger[o], p)
        /\ ledger[o].retiring \/ ledger[o].prompts[p].closing => act[o].cancelled
    BY <1>1, <2>2, <2>3, LiveFacts DEF IInv, StoreInv, Healthy
  <2>5. QED
    BY <2>3, <2>4 DEF Unfinished
<1>2. IInv /\ [Next]_vars => [A]_vars
  BY <1>1
<1>3. QED
  BY <1>2, Invariant, PTL DEF Spec, DispatchNeedsAuthority

(* No inference is sent twice under one sequence and no creation twice     *)
(* under one id (reserveInvocation, the create path of invoke).            *)
THEOREM EverythingIsSentOnce == Spec => SentOnce
<1> DEFINE A == \A o \in Owners :
       /\ \A p \in Prompts, n \in Seqs :
            wire[o][p][n] # "flying" /\ wire'[o][p][n] = "flying" => wire[o][p][n] = "unsent"
       /\ \A id \in Ids :
            remote[o][id] # "creating" /\ remote'[o][id] = "creating" => remote[o][id] = "unused"
<1>1. ASSUME IInv, [Next]_vars
      PROVE  A
  <2>1. ASSUME NEW o \in Owners, NEW p \in Prompts, NEW n \in Seqs,
               wire[o][p][n] # "flying", wire'[o][p][n] = "flying"
        PROVE  wire[o][p][n] = "unsent"
    <3>1. SendInference(o) /\ p = act[o].prompt /\ n = act[o].seq
      BY <1>1, <2>1, OnlySendInferenceFlies
    <3>2. act[o].pc = "ready"
      BY <3>1 DEF SendInference
    <3>3. CallSteps("ready", act[o].error, ledger[o].prompts[p].state[n], wire[o][p][n], ledger[o].create)
      BY <1>1, <3>1, <3>2, LiveFacts
    <3>4. QED
      BY <3>3 DEF CallSteps
  <2>2. ASSUME NEW o \in Owners, NEW id \in Ids,
               remote[o][id] # "creating", remote'[o][id] = "creating"
        PROVE  remote[o][id] = "unused"
    <3>1. SendCreate(o) /\ id = ledger[o].remote
      BY <1>1, <2>2, OnlySendCreateCreates
    <3>2. act[o].pc = "createReady"
      BY <3>1 DEF SendCreate
    <3>3. QED
      BY <1>1, <3>1, <3>2, LiveFacts
  <2>3. QED
    BY <2>1, <2>2
<1>2. IInv /\ [Next]_vars => [A]_vars
  BY <1>1
<1>3. QED
  BY <1>2, Invariant, PTL DEF Spec, SentOnce

(* A session is deleted only for a durable retirement, and only when no    *)
(* request or creation of its owner is unanswered (remoteSessionDelete).   *)
THEOREM DeletionsAreClean == Spec => DeletionIsClean
<1> DEFINE A == \A o \in Owners, id \in Ids :
       remote[o][id] # "deleted" /\ remote'[o][id] = "deleted" =>
         /\ disk[o].retiring
         /\ \A p \in Prompts, n \in Seqs : wire[o][p][n] # "flying"
         /\ \A j \in Ids : remote[o][j] # "creating"
<1>1. ASSUME IInv, [Next]_vars
      PROVE  A
  <2>1. SUFFICES ASSUME NEW o \in Owners, NEW id \in Ids,
                        remote[o][id] # "deleted", remote'[o][id] = "deleted"
                 PROVE  /\ disk[o].retiring
                        /\ \A p \in Prompts, n \in Seqs : wire[o][p][n] # "flying"
                        /\ \A j \in Ids : remote[o][j] # "creating"
    OBVIOUS
  <2>2. DeleteSession(o) /\ id = ledger[o].remote
    BY <1>1, <2>1, OnlySendCreateCreates
  <2>3. /\ wk[o].pc = "delete" /\ life = "up"
        /\ remote[o][ledger[o].remote] \in Live \cup {"deleted"}
    BY <2>2 DEF DeleteSession
  <2>4. /\ disk = ledger /\ RecordOK(ledger[o], wire[o], remote[o])
        /\ WorkerOK(ledger[o], act[o], wk[o], wire[o], remote[o])
    BY <1>1, <2>3, WorkerFacts
  <2>5. ledger[o].retiring /\ \A p \in Prompts, n \in Seqs : wire[o][p][n] # "flying"
    BY <2>3, <2>4 DEF WorkerOK
  <2>6. \A j \in Ids : remote[o][j] = "creating" => j = ledger[o].remote
    BY <2>4 DEF RecordOK, RemoteFits, Possible
  <2>7. \A j \in Ids : remote[o][j] # "creating"
    BY <2>3, <2>6 DEF Live
  <2>8. QED
    BY <2>4, <2>5, <2>7
<1>2. IInv /\ [Next]_vars => [A]_vars
  BY <1>1
<1>3. QED
  BY <1>2, Invariant, PTL DEF Spec, DeletionIsClean

-----------------------------------------------------------------------------
(* The answers to function calls.                                          *)

(* A goroutine gets to wait for an inference by sending it only.           *)
LEMMA OnlySendInferenceWaits ==
  ASSUME TypeOK, [Next]_vars, NEW o \in Owners, act[o].pc = "ready", act'[o].pc = "waiting"
  PROVE  SendInference(o)
<1>0. act \in [Owners -> Call] /\ \A x \in Owners : Cancelled(act[x]).pc = act[x].pc
  BY CancelledIs DEF TypeOK
<1>a. act' # act
  OBVIOUS
<1>b. ASSUME NEW x \in Owners, NEW pc, Goto(x, pc), pc # "waiting"
      PROVE  FALSE
  <2>1. act'[o] = IF x = o THEN [act[o] EXCEPT !.pc = pc] ELSE act[o]
    BY <1>0, <1>b DEF Goto
  <2>2. act[o] \in LiveCall
    BY <1>0 DEF Call, Idle
  <2>3. [act[o] EXCEPT !.pc = pc].pc = pc
    BY <2>2 DEF LiveCall
  <2>4. QED
    BY <1>b, <2>1, <2>3
<1>c. ASSUME NEW x \in Owners, NEW err, Fails(x, err)
      PROVE  FALSE
  <2>1. act'[o] = IF x = o THEN [act[o] EXCEPT !.pc = "finish", !.error = err] ELSE act[o]
    BY <1>0, <1>c DEF Fails
  <2>2. act[o] \in LiveCall
    BY <1>0 DEF Call, Idle
  <2>3. [act[o] EXCEPT !.pc = "finish", !.error = err].pc = "finish"
    BY <2>2 DEF LiveCall
  <2>4. QED
    BY <2>1, <2>3
<1>d. ASSUME NEW x \in Owners, NEW cond, CancelIf(x, cond)
      PROVE  FALSE
  BY <1>0, <1>d DEF CancelIf
<1>1. ASSUME NEW x \in Owners, Requests(x)
      PROVE  FALSE
  <2>1. ASSUME NEW p \in Prompts, NEW ge \in Grants, NEW n \in Seqs, NEW prev \in Refs \cup {None},
               Reserve(x, p, ge[1], ge[2], n, prev)
        PROVE  FALSE
    <3>1. act' = [act EXCEPT ![x] = [Idle EXCEPT !.pc = "start", !.prompt = p,
                                                 !.seq = n, !.previous = prev]]
      BY <1>a, <2>1 DEF Reserve
    <3>2. [Idle EXCEPT !.pc = "start", !.prompt = p, !.seq = n, !.previous = prev].pc = "start"
      BY DEF Idle
    <3>3. QED
      BY <1>0, <3>1, <3>2
  <2>2. ASSUME NEW p \in Prompts, NEW ge \in Grants, Renew(x, p, ge[1], ge[2])
        PROVE  FALSE
    BY <1>a, <2>2 DEF Renew
  <2>3. ASSUME NEW p \in Prompts, NEW g \in 1..MaxGeneration, NEW e \in Times, Settle(x, p, g, e)
        PROVE  FALSE
    BY <1>a, <1>d, <2>3 DEF Settle
  <2>4. Retire(x) => FALSE
    BY <1>a, <1>d DEF Retire
  <2>5. ASSUME NEW p \in Prompts, ClosePrompt(x, p)
        PROVE  FALSE
    BY <1>a, <1>d, <2>5 DEF ClosePrompt
  <2>6. QED
    BY <1>1, <2>1, <2>2, <2>3, <2>4, <2>5 DEF Requests
<1>2. ASSUME NEW x \in Owners, Invocation(x)
      PROVE  SendInference(o)
  <2>1. SendInference(x) => x = o
    BY <1>0 DEF SendInference, Goto
  <2>2. Finish(x) => FALSE
    BY <1>0 DEF Finish, Idle
  <2>3. ~CreateIntent(x) /\ ~SendCreate(x) /\ ~CreateAcknowledged(x)
    BY <1>a, <1>b DEF CreateIntent, SendCreate, CreateAcknowledged
  <2>4. ~InferenceIntent(x) /\ ~InferenceAccepted(x)
    BY <1>a, <1>b DEF InferenceIntent, InferenceAccepted
  <2>5. ~CreateDisproved(x) /\ ~InferenceRejected(x) /\ ~InferenceCompleted(x) /\ ~InvokeFails(x)
    BY <1>a, <1>c DEF CreateDisproved, InferenceRejected, InferenceCompleted, InvokeFails
  <2>6. QED
    BY <1>2, <2>1, <2>2, <2>3, <2>4, <2>5 DEF Invocation
<1>3. ASSUME NEW x \in Owners, Cleanup(x) \/ Provider(x)
      PROVE  FALSE
  <2>1. UNCHANGED act
    BY <1>3 DEF Cleanup, Reconcile, StopSession, StopProved, DeleteSession, DeleteProved,
       WorkerFails, Prove, Provider, CreateLands, SessionIdles, InferenceLands,
       InferenceRefused, ResponseEnds
  <2>2. QED
    BY <1>a, <2>1
<1>4. Process => FALSE
  <2>1. Sweep => FALSE
    BY <1>0, <1>a DEF Sweep
  <2>2. Stop => FALSE
    BY DEF Stop, Idle
  <2>3. Tick \/ StorageFails \/ Shutdown \/ Restart => FALSE
    BY <1>a DEF Tick, StorageFails, Shutdown, Restart
  <2>4. QED
    BY <2>1, <2>2, <2>3 DEF Process
<1>5. QED
  BY <1>a, <1>1, <1>2, <1>3, <1>4 DEF Next, vars

(* A request that was sent never counts as unsent again.                   *)
LEMMA SentStaysSent ==
  ASSUME IInv, [Next]_vars, NEW o \in Owners, NEW p \in Prompts, NEW n \in Seqs,
         wire[o][p][n] # "unsent"
  PROVE  wire'[o][p][n] # "unsent"
<1>1. wire \in [Owners -> [Prompts -> [Seqs -> WireStates]]]
  BY DEF IInv, TypeOK
<1>2. ASSUME NEW x \in Owners, NEW q \in Prompts, NEW m \in Seqs,
             NEW st \in {"flying", "running", "refused", "completed", "ended"},
             wire' = [wire EXCEPT ![x][q][m] = st]
      PROVE  wire'[o][p][n] # "unsent"
  BY <1>1, <1>2
<1>3. ASSUME NEW x \in Owners,
             wire' = [wire EXCEPT ![x] = [q \in Prompts |-> [m \in Seqs |->
                        IF @[q][m] = "running" THEN "ended" ELSE @[q][m]]]]
      PROVE  wire'[o][p][n] # "unsent"
  BY <1>1, <1>3
<1>4. ASSUME NEW x \in Owners, SendInference(x)
      PROVE  wire'[o][p][n] # "unsent"
  <2>1. act[x].prompt \in Prompts /\ act[x].seq \in Seqs
    BY <1>4, LiveFacts DEF SendInference
  <2>2. QED
    BY <1>2, <1>4, <2>1 DEF SendInference
<1>5. ASSUME NEW x \in Owners, Provider(x)
      PROVE  wire'[o][p][n] # "unsent"
  <2>1. ASSUME NEW id \in Ids, CreateLands(x, id) \/ SessionIdles(x, id)
        PROVE  wire'[o][p][n] # "unsent"
    BY <1>3, <2>1 DEF CreateLands, SessionIdles
  <2>2. ASSUME NEW q \in Prompts, NEW m \in Seqs,
               InferenceLands(x, q, m) \/ InferenceRefused(x, q, m) \/ ResponseEnds(x, q, m)
        PROVE  wire'[o][p][n] # "unsent"
    <3>1. \E st \in {"flying", "running", "refused", "completed", "ended"} :
            wire' = [wire EXCEPT ![x][q][m] = st]
      BY <2>2 DEF InferenceLands, InferenceRefused, ResponseEnds
    <3>2. QED
      BY <1>2, <3>1
  <2>3. QED
    BY <1>5, <2>1, <2>2 DEF Provider
<1>6. ASSUME NEW x \in Owners, SendCreate(x) \/ StopSession(x)
      PROVE  wire'[o][p][n] # "unsent"
  BY <1>6 DEF SendCreate, StopSession
<1>7. ASSUME NEW x \in Owners, DeleteSession(x)
      PROVE  wire'[o][p][n] # "unsent"
  BY <1>3, <1>7 DEF DeleteSession
<1>8. QED
  BY <1>4, <1>5, <1>6, <1>7, WhoTouchesProvider DEF provider

(* The calls of a response are answered only by a later request of its     *)
(* prompt that was sent.                                                   *)
AnswersWereSent ==
  \A o \in Owners : \A r \in answered[o] :
    \E n \in Seqs : r[2] < n /\ wire[o][r[1]][n] # "unsent"

(* An invocation that is about to answer calls answers those of the last   *)
(* completed response of its prompt, which no request sent so far answers. *)
LEMMA AnswersAreFresh ==
  ASSUME IInv, AnswersWereSent, NEW o \in Owners, SendInference(o), AnswersCalls(o)
  PROVE  LET p == act[o].prompt  r == act[o].previous IN
         /\ p \in Prompts /\ act[o].seq \in Seqs
         /\ r[1] = p /\ r[2] < act[o].seq /\ r \notin answered[o]
<1> DEFINE s == ledger[o]  p == act[o].prompt  n == act[o].seq  q == s.prompts[p]  r == act[o].previous
<1>1. /\ act[o].pc = "ready" /\ Healthy /\ ~act[o].cancelled
      /\ s \in Session /\ p \in Prompts /\ n \in Seqs /\ act[o] \in LiveCall
      /\ RecordOK(s, wire[o], remote[o]) /\ q.present /\ q.last = n /\ Tended(s, act[o])
      /\ q.state[n] = "intent" /\ wire[o][p][n] = "unsent"
  BY LiveFacts DEF SendInference, CtxAlive, Healthy, CallSteps, Unfinished
<1>2. ~q.closing
  BY <1>1, LiveFacts
<1>3. r = <<p, q.alias>> /\ r \in Refs
  BY <1>1 DEF Tended, Early, AnswersCalls, AnswersCallsOf, LiveCall
<1>4. r[1] = p /\ r[2] = q.alias /\ q.alias \in Seqs
  BY <1>3 DEF Refs
<1>5. /\ \A m \in Seqs : StateFits(q.state[m], wire[o][p][m])
      /\ \A m \in Seqs : q.last < m => q.state[m] = "absent"
      /\ PromptSound(q)
  BY <1>1 DEF RecordOK, WireFits, SessionFits, PromptsFit
<1>6. q.alias < n
  <2>1. q.alias # 0 /\ q.alias \in Nat /\ n \in Nat
    BY <1>1, <1>4, BoundsAssumption DEF Seqs
  <2>2. q.state[q.alias] = "completed"
    BY <1>5, <2>1 DEF PromptSound
  <2>3. ~(q.last < q.alias) /\ q.alias # n
    BY <1>1, <1>4, <1>5, <2>2
  <2>4. QED
    BY <1>1, <2>1, <2>3
<1>7. r \notin answered[o]
  <2>1. SUFFICES ASSUME r \in answered[o] PROVE FALSE
    OBVIOUS
  <2>2. PICK m \in Seqs : q.alias < m /\ wire[o][p][m] # "unsent"
    BY <1>4, <2>1 DEF AnswersWereSent
  <2>3. m # n /\ q.state[m] # "absent"
    BY <1>1, <1>5, <2>2 DEF StateFits
  <2>4. q.state[m] = "completed"
    BY <1>1, <1>2, <2>3 DEF Tended
  <2>5. m <= q.alias
    BY <1>5, <2>4 DEF PromptSound
  <2>6. m \in Nat /\ q.alias \in Nat
    BY <1>4, BoundsAssumption DEF Seqs
  <2>7. QED
    BY <2>2, <2>5, <2>6
<1>8. QED
  BY <1>1, <1>4, <1>6, <1>7

(* Every step keeps it so.                                                 *)
LEMMA AnswersStaySent ==
  ASSUME IInv, AnswersWereSent, [Next]_vars
  PROVE  AnswersWereSent'
<1> SUFFICES ASSUME NEW o \in Owners, NEW r \in answered'[o]
             PROVE  \E n \in Seqs : r[2] < n /\ wire'[o][r[1]][n] # "unsent"
  BY DEF AnswersWereSent
<1>0. answered \in [Owners -> SUBSET Refs]
  BY DEF IInv, TypeOK
<1>1. CASE r \in answered[o]
  <2>1. PICK n \in Seqs : r[2] < n /\ wire[o][r[1]][n] # "unsent"
    BY <1>1 DEF AnswersWereSent
  <2>2. r[1] \in Prompts
    BY <1>0, <1>1 DEF Refs
  <2>3. QED
    BY <2>1, <2>2, SentStaysSent
<1>2. CASE r \notin answered[o]
  <2>1. SendInference(o) /\ AnswersCalls(o) /\ r = act[o].previous
    <3>1. PICK x \in Owners : SendInference(x)
      BY <1>2, WhoTouchesProvider DEF provider, SendCreate, StopSession, DeleteSession, Provider,
         CreateLands, SessionIdles, InferenceLands, InferenceRefused, ResponseEnds
    <3>2. answered' = [answered EXCEPT ![x] = IF AnswersCalls(x) THEN @ \cup {act[x].previous} ELSE @]
      BY <3>1 DEF SendInference
    <3>3. x = o /\ AnswersCalls(o) /\ r = act[o].previous
      BY <1>0, <1>2, <3>2
    <3>4. QED
      BY <3>1, <3>3
  <2>2. /\ act[o].prompt \in Prompts /\ act[o].seq \in Seqs
        /\ r[1] = act[o].prompt /\ r[2] < act[o].seq
    BY <2>1, AnswersAreFresh
  <2>3. wire'[o][act[o].prompt][act[o].seq] = "flying"
    <3>1. wire \in [Owners -> [Prompts -> [Seqs -> WireStates]]]
      BY DEF IInv, TypeOK
    <3>2. wire' = [wire EXCEPT ![o][act[o].prompt][act[o].seq] = "flying"]
      BY <2>1 DEF SendInference
    <3>3. QED
      BY <2>2, <3>1, <3>2
  <2>4. QED
    BY <2>2, <2>3
<1>3. QED
  BY <1>1, <1>2

(* The function calls of a response are answered once, and only by an      *)
(* invocation of the prompt that received them (brokerTranslatePrevious).  *)
THEOREM CallsGetOneAnswer == Spec => CallsAnsweredOnce
<1> DEFINE A == \A o \in Owners :
       act[o].pc = "ready" /\ act'[o].pc = "waiting" /\ AnswersCalls(o) =>
         /\ act[o].previous \notin answered[o]
         /\ act[o].previous[1] = act[o].prompt
<1>1. Init => AnswersWereSent
  BY DEF Init, AnswersWereSent
<1>2. IInv /\ AnswersWereSent /\ [Next]_vars => AnswersWereSent'
  BY AnswersStaySent
<1>3. IInv /\ AnswersWereSent /\ [Next]_vars => [A]_vars
  BY OnlySendInferenceWaits, AnswersAreFresh DEF IInv
<1>4. QED
  BY <1>1, <1>2, <1>3, Invariant, PTL DEF Spec, CallsAnsweredOnce
=============================================================================
