---------------------- MODULE LifecycleBrokerRefinement ----------------------
(***************************************************************************)
(* The lifecycle broker implements OwnershipContract under the mapping of  *)
(* LifecycleBroker: its file is what it promises, and what the provider    *)
(* has is what those promises are about.  Every change of the file but a   *)
(* proof of cleanup grants or withdraws authority (Regulates); a proof     *)
(* settles; the requests and the provider's own steps are dispatches,      *)
(* creations, refusals and ends of work.                                   *)
(***************************************************************************)
EXTENDS LifecycleBrokerSafety

(* The change of one record from s to t grants or withdraws authority,     *)
(* settles nothing and forgets no session that was created.                *)
Regulates(s, t) ==
  /\ t.retired = s.retired /\ (s.retiring => t.retiring)
  /\ s.create \in {"known", "deleted"} => t.create \in {"known", "deleted"}
  /\ \A p \in Prompts :
       LET q == s.prompts[p]  u == t.prompts[p] IN
       /\ q.present => u.present
       /\ ~q.present /\ u.present => ~s.retiring /\ ~s.retired
       /\ q.closing => u.closing
       /\ u.settled = q.settled

(* The authority of a prompt is one of four.                               *)
LEMMA AuthorityIs ==
  ASSUME NEW q
  PROVE  /\ Authority(q) = "none" <=> ~q.present
         /\ Authority(q) = "settled" <=> q.present /\ q.settled
         /\ Authority(q) = "closed" <=> q.present /\ ~q.settled /\ q.closing
         /\ Authority(q) = "open" <=> q.present /\ ~q.settled /\ ~q.closing
         /\ Authority(q) \in {"none", "open", "closed", "settled"}
BY DEF Authority

(* The state of an owner is one of three.                                  *)
LEMMA OwnerStateIs ==
  ASSUME NEW s
  PROVE  /\ OwnerState(s) = "retired" <=> s.retired
         /\ OwnerState(s) = "retiring" <=> ~s.retired /\ s.retiring
         /\ OwnerState(s) = "open" <=> ~s.retired /\ ~s.retiring
         /\ OwnerState(s) \in {"open", "retiring", "retired"}
BY DEF OwnerState

(* The session an owner has at the provider is one it may have, none or    *)
(* one that is gone.                                                       *)
MayExist(r) == \E id \in Ids : r[id] \in Possible
NeverWas(r) == \A id \in Ids : r[id] \in {"unused", "refused"}

LEMMA SessionStateIs ==
  ASSUME NEW r
  PROVE  /\ SessionState(r) = "possible" <=> MayExist(r)
         /\ SessionState(r) = "absent" <=> NeverWas(r)
         /\ SessionState(r) = "gone" <=> ~MayExist(r) /\ ~NeverWas(r)
         /\ SessionState(r) \in {"absent", "possible", "gone"}
<1>1. ~(MayExist(r) /\ NeverWas(r))
  BY DEF MayExist, NeverWas, Possible, Live
<1>2. SessionState(r) = CASE MayExist(r) -> "possible" [] NeverWas(r) -> "absent" [] OTHER -> "gone"
  BY DEF SessionState, MayExist, NeverWas, Possible
<1>3. QED
  BY <1>1, <1>2

(* What such changes of the file are to the contract.                      *)
LEMMA RegulateMaps ==
  ASSUME IInv, UNCHANGED provider, \A o \in Owners : Regulates(disk[o], disk'[o])
  PROVE  Contract!Regulate
<1> DEFINE aut == [o \in Owners |-> [p \in Prompts |-> Authority(disk[o].prompts[p])]]
           own == [o \in Owners |-> OwnerState(disk[o])]
<1>1. aut' \in [Owners -> [Prompts -> {"none", "open", "closed", "settled"}]]
  BY AuthorityIs
<1>2. own' \in [Owners -> {"open", "retiring", "retired"}]
  BY OwnerStateIs
<1>3. ASSUME NEW o \in Owners
      PROVE  own'[o] = own[o] \/ (own[o] = "open" /\ own'[o] = "retiring")
  BY <1>3, OwnerStateIs DEF Regulates
<1>4. ASSUME NEW o \in Owners, NEW p \in Prompts
      PROVE  /\ Contract!Rank[aut[o][p]] <= Contract!Rank[aut'[o][p]]
             /\ aut'[o][p] = "settled" => aut[o][p] = "settled"
             /\ aut[o][p] = "none" /\ aut'[o][p] # "none" => own[o] = "open"
  <2> DEFINE q == disk[o].prompts[p]  u == disk'[o].prompts[p]
  <2>1. /\ q.present => u.present
        /\ ~q.present /\ u.present => own[o] = "open"
        /\ q.closing => u.closing
        /\ u.settled = q.settled
    BY OwnerStateIs DEF Regulates
  <2>2. aut[o][p] = Authority(q) /\ aut'[o][p] = Authority(u)
    OBVIOUS
  <2>3. ~q.present => ~q.settled
    BY DEF IInv, OwnerInv, RecordOK, SessionFits, PromptsFit, Blank
  <2> HIDE DEF aut, q, u, own
  <2>4. QED
    BY <2>1, <2>2, <2>3, AuthorityIs DEF Contract!Rank
<1>5. QED
  <2>1. UNCHANGED <<[o \in Owners |-> SessionState(remote[o])],
                    [o \in Owners |-> [p \in Prompts |-> {n \in Seqs : wire[o][p][n] \in Outstanding}]]>>
    BY DEF provider
  <2>2. QED
    BY <1>1, <1>2, <1>3, <1>4, <2>1 DEF Contract!Regulate

-----------------------------------------------------------------------------
(* Every commit but a proof regulates.                                     *)

(* A record regulates to itself, and what regulates can be repeated.       *)
LEMMA RegulatesKeeps ==
  /\ \A s : Regulates(s, s)
  /\ \A s, t, u : Regulates(s, t) /\ Regulates(t, u) => Regulates(s, u)
BY DEF Regulates

(* Opening, closing and renewing prompts.                                  *)
LEMMA RequestsRegulate ==
  ASSUME NEW s \in Session, SessionFits(s)
  PROVE  /\ \A P : Regulates(s, Closed(s, P))
         /\ Regulates(s, Retirement(s))
         /\ \A p \in Prompts : \A g, e : Ensurable(s, p) => Regulates(s, EnsurePrompt(s, p, g, e))
         /\ \A p \in Prompts : \A g, e :
              (IF s.prompts[p].present THEN Renewable(s.prompts[p], g, e) ELSE CanOpen(s, p)) =>
                Regulates(s, Renewed(s, p, g, e))
<1>1. ASSUME NEW P
      PROVE  Regulates(s, Closed(s, P))
  BY ClosedIs DEF Regulates
<1>2. Regulates(s, Retirement(s))
  BY ClosedIs, RetirementIs DEF Regulates
<1>3. ASSUME NEW p \in Prompts, NEW g, NEW e, CanOpen(s, p)
      PROVE  Regulates(s, Opened(s, p, g, e))
  <2> DEFINE t == Opened(s, p, g, e)
  <2>1. /\ ~s.retiring /\ ~s.retired /\ ~s.prompts[p].present /\ s.prompts[p].settled = FALSE
        /\ ~s.prompts[p].closing
    BY <1>3 DEF CanOpen, SessionFits, PromptsFit, Blank, Session, Prompt
  <2>2. /\ t.retiring = s.retiring /\ t.retired = s.retired /\ t.create = s.create
        /\ t.prompts[p].settled = FALSE
        /\ \A q \in Prompts \ {p} : t.prompts[q] = s.prompts[q]
    BY DEF Opened, NoPrompt, Session
  <2>3. QED
    BY <2>1, <2>2 DEF Regulates
<1>4. ASSUME NEW p \in Prompts, NEW g, NEW e, s.prompts[p].present
      PROVE  Regulates(s, [s EXCEPT !.prompts[p] = [@ EXCEPT !.generation = g, !.expires = e]])
  <2> DEFINE q == [s.prompts[p] EXCEPT !.generation = g, !.expires = e]
  <2>1. q.present = s.prompts[p].present /\ q.closing = s.prompts[p].closing
        /\ q.settled = s.prompts[p].settled
    BY DEF Session, Prompt
  <2> HIDE DEF q
  <2>2. Regulates(s, [s EXCEPT !.prompts[p] = q])
    BY <2>1 DEF Regulates, Session
  <2>3. QED
    BY <2>2 DEF q
<1>5. QED
  BY <1>1, <1>2, <1>3, <1>4, RegulatesKeeps DEF Ensurable, EnsurePrompt, Renewed

(* The record of an invocation's progress.                                 *)
LEMMA InvocationRegulates ==
  ASSUME NEW s \in Session, SessionFits(s), NEW p \in Prompts, NEW n \in Seqs
  PROVE  /\ Regulates(s, Reservation(s, p, n)) /\ Regulates(s, Accepted(s, p, n))
         /\ \A st : Regulates(s, Mark(s, p, n, st))
         /\ \A kind : Regulates(s, Completed(s, p, n, kind))
         /\ \A st, id : s.create \in {"none", "intent"} \/ st = "known" =>
              Regulates(s, WithCreate(s, st, id))
         /\ \A err : Regulates(s, Finished(s, p, n, err))
<1>1. Regulates(s, Reservation(s, p, n))
  BY DEF Reservation, Regulates, Session, Prompt
<1>2. Regulates(s, Accepted(s, p, n))
  BY DEF Accepted, Regulates, Session, Prompt
<1>3. ASSUME NEW t \in Session, NEW st
      PROVE  Regulates(t, Mark(t, p, n, st))
  BY DEF Mark, Regulates, Session, Prompt
<1>4. ASSUME NEW kind
      PROVE  Regulates(s, Completed(s, p, n, kind))
  BY DEF Completed, Regulates, Session, Prompt
<1>5. ASSUME NEW st, NEW id, s.create \in {"none", "intent"} \/ st = "known"
      PROVE  Regulates(s, WithCreate(s, st, id))
  BY <1>5 DEF WithCreate, Regulates, Session
<1>6. ASSUME NEW err
      PROVE  Regulates(s, Finished(s, p, n, err))
  <2>1. /\ Regulates(s, Closed(s, {p})) /\ Regulates(s, s)
        /\ \A st : Regulates(Closed(s, {p}), Mark(Closed(s, {p}), p, n, st))
    BY <1>3, ClosedTyped, RequestsRegulate, RegulatesKeeps
  <2>2. Finished(s, p, n, err) = s \/
        \E st : Finished(s, p, n, err) = Mark(Closed(s, {p}), p, n, st)
    BY DEF Finished
  <2>3. QED
    BY <2>1, <2>2, RegulatesKeeps
<1>7. QED
  BY <1>1, <1>2, <1>3, <1>4, <1>5, <1>6

(* One such commit of one owner, durable or lost.                          *)
LEMMA CommitRegulates ==
  ASSUME IInv, NEW o \in Owners, NEW t, Save(With(o, t)) \/ Lose(With(o, t)),
         Regulates(ledger[o], t)
  PROVE  \A x \in Owners : Regulates(disk[x], disk'[x])
<1>1. disk = ledger
  BY DEF IInv, StoreInv, Save, Lose
<1>2. disk' = [disk EXCEPT ![o] = t] /\ disk \in [Owners -> Session]
  BY <1>1 DEF Save, Lose, With, IInv, TypeOK
<1>3. QED
  BY <1>1, <1>2, RegulatesKeeps

(* The requests of the supervisor and of the child grant, close or retire. *)
LEMMA RequestsOnFile ==
  ASSUME IInv, NEW o \in Owners, Requests(o)
  PROVE  \A x \in Owners : Regulates(disk[x], disk'[x])
<1> DEFINE s == ledger[o]
           Goal == \A x \in Owners : Regulates(disk[x], disk'[x])
<1>0. s \in Session /\ SessionFits(s)
  BY OwnerFacts
<1>1. ASSUME NEW p \in Prompts, NEW ge \in Grants, Renew(o, p, ge[1], ge[2])
      PROVE  Goal
  <2>1. Regulates(s, Renewed(s, p, ge[1], ge[2]))
    BY <1>0, <1>1, RequestsRegulate DEF Renew
  <2>2. QED
    BY <1>1, <2>1, CommitRegulates DEF Renew
<1>2. ASSUME NEW p \in Prompts, NEW g \in 1..MaxGeneration, NEW e \in Times, Settle(o, p, g, e)
      PROVE  Goal
  <2> DEFINE t == EnsurePrompt(s, p, g, e)
  <2>1. t \in Session /\ Regulates(s, t) /\ SessionFits(t)
    BY <1>0, <1>2, EnsureTyped, RequestsRegulate, OwnerFacts, RecordEnsured, BoundsAssumption
    DEF Settle, RecordOK
  <2>2. Regulates(s, Closed(t, {p}))
    BY <2>1, RequestsRegulate, RegulatesKeeps
  <2>3. QED
    BY <1>2, <2>2, CommitRegulates DEF Settle
<1>3. ASSUME Retire(o)
      PROVE  Goal
  BY <1>0, <1>3, RequestsRegulate, CommitRegulates DEF Retire
<1>4. ASSUME NEW p \in Prompts, ClosePrompt(o, p)
      PROVE  Goal
  BY <1>0, <1>4, RequestsRegulate, CommitRegulates DEF ClosePrompt
<1>5. ASSUME NEW p \in Prompts, NEW ge \in Grants, NEW n \in Seqs, NEW prev \in Refs \cup {None},
             Reserve(o, p, ge[1], ge[2], n, prev)
      PROVE  Goal
  <2> DEFINE t == EnsurePrompt(s, p, ge[1], ge[2])
  <2>1. t \in Session /\ Regulates(s, t) /\ SessionFits(t)
    BY <1>0, <1>5, GrantsTyped, EnsureTyped, RequestsRegulate, OwnerFacts, RecordEnsured
    DEF Reserve, RecordOK
  <2>2. Regulates(s, Reservation(t, p, n))
    BY <2>1, InvocationRegulates, RegulatesKeeps
  <2>3. QED
    BY <1>5, <2>2, CommitRegulates DEF Reserve
<1>6. QED
  BY <1>1, <1>2, <1>3, <1>4, <1>5 DEF Requests

(* The steps of an invocation record its progress.                         *)
LEMMA InvocationOnFile ==
  ASSUME IInv, NEW o \in Owners, Invocation(o)
  PROVE  \A x \in Owners : Regulates(disk[x], disk'[x])
<1> DEFINE s == ledger[o]  p == act[o].prompt  n == act[o].seq
<1>0. act[o].pc # "idle"
  BY DEF Invocation, CreateIntent, SendCreate, CreateDisproved, NotCreated, CreateAcknowledged,
     InferenceIntent, SendInference, InferenceRejected, InferenceAccepted, InferenceCompleted,
     InvokeFails, Finish
<1>1. s \in Session /\ SessionFits(s) /\ p \in Prompts /\ n \in Seqs
  BY <1>0, LiveFacts, OwnerFacts
<1>2. CASE UNCHANGED disk
  BY <1>2, RegulatesKeeps
<1>3. CASE CreateIntent(o) \/ CreateDisproved(o) \/ CreateAcknowledged(o)
  <2>1. NotCreated(o) => s.create = "intent"
    BY <1>0, LiveFacts DEF NotCreated, CallSteps
  <2>2. \E t : Regulates(s, t) /\ (Save(With(o, t)) \/ Lose(With(o, t)))
    BY <1>1, <1>3, <2>1, InvocationRegulates DEF CreateIntent, CreateDisproved, CreateAcknowledged
  <2>3. QED
    BY <2>2, CommitRegulates
<1>4. CASE InferenceIntent(o) \/ InferenceRejected(o) \/ InferenceAccepted(o)
  <2>1. \E t : Regulates(s, t) /\ (Save(With(o, t)) \/ Lose(With(o, t)))
    BY <1>1, <1>4, InvocationRegulates DEF InferenceIntent, InferenceRejected, InferenceAccepted
  <2>2. QED
    BY <2>1, CommitRegulates
<1>5. CASE InferenceCompleted(o)
  <2>1. \E t : Regulates(s, t) /\ (Save(With(o, t)) \/ Lose(With(o, t)))
    BY <1>1, <1>5, InvocationRegulates DEF InferenceCompleted
  <2>2. QED
    BY <2>1, CommitRegulates
<1>6. CASE Finish(o)
  <2>1. Regulates(s, Finished(s, p, n, act[o].error))
    BY <1>1, InvocationRegulates
  <2>2. QED
    BY <1>2, <1>6, <2>1, CommitRegulates DEF Finish
<1>7. CASE SendCreate(o) \/ SendInference(o) \/ InvokeFails(o)
  BY <1>2, <1>7 DEF SendCreate, SendInference, InvokeFails
<1>8. QED
  BY <1>3, <1>4, <1>5, <1>6, <1>7 DEF Invocation

(* Every step but a proof regulates the file.                              *)
LEMMA FileRegulates ==
  ASSUME IInv, [Next]_vars, ~ \E o \in Owners : Prove(o)
  PROVE  \A x \in Owners : Regulates(disk[x], disk'[x])
<1> DEFINE Goal == \A x \in Owners : Regulates(disk[x], disk'[x])
<1>1. UNCHANGED disk => Goal
  BY RegulatesKeeps
<1>2. ASSUME NEW o \in Owners, Cleanup(o)
      PROVE  UNCHANGED disk
  BY <1>2 DEF Cleanup, Reconcile, StopSession, StopProved, DeleteSession, DeleteProved, WorkerFails
<1>3. ASSUME NEW o \in Owners, Provider(o)
      PROVE  UNCHANGED disk
  BY <1>3 DEF Provider, CreateLands, SessionIdles, InferenceLands, InferenceRefused, ResponseEnds
<1>4. ASSUME Process
      PROVE  Goal
  <2>1. ASSUME NEW o \in Owners, NEW P
        PROVE  Regulates(disk[o], Closed(disk[o], P))
    BY OwnerFacts, RequestsRegulate DEF IInv, TypeOK, RecordOK
  <2>2. CASE Tick \/ Shutdown \/ StorageFails \/ Stop
    BY <1>1, <2>2 DEF Tick, Shutdown, StorageFails, Lose, Stop
  <2>3. CASE Sweep
    <3>1. disk = ledger
      BY <2>3 DEF Sweep, Save, Lose, IInv, StoreInv
    <3>2. \A o \in Owners : disk'[o] = Closed(disk[o], Expired(ledger[o]))
      BY <2>3, <3>1 DEF Sweep, Save, Lose
    <3>3. QED
      BY <2>1, <3>2
  <2>4. CASE Restart
    <3>1. \A o \in Owners : disk'[o] = Closed(disk[o], {p \in Prompts : ~disk[o].prompts[p].settled})
      BY <2>4 DEF Restart, Recovered
    <3>2. QED
      BY <2>1, <3>1
  <2>5. QED
    BY <1>4, <2>2, <2>3, <2>4 DEF Process
<1>5. UNCHANGED vars => UNCHANGED disk
  BY DEF vars
<1>6. QED
  BY <1>1, <1>2, <1>3, <1>4, <1>5, RequestsOnFile, InvocationOnFile DEF Next

-----------------------------------------------------------------------------
(* What changes the provider.                                              *)

(* One owner's entry of a function changes.                                *)
LEMMA OwnerWrites ==
  ASSUME NEW f, NEW g, NEW o \in Owners, f = [x \in Owners |-> f[x]], g = [x \in Owners |-> g[x]],
         \A x \in Owners \ {o} : g[x] = f[x]
  PROVE  g = [f EXCEPT ![o] = g[o]]
OBVIOUS

(* A session that may exist still may when it only moves; one that is the  *)
(* same at the provider is the same to the contract.                       *)
LEMMA SessionMoves ==
  ASSUME NEW r, NEW r2, NEW id \in Ids, \A j \in Ids \ {id} : r2[j] = r[j],
         (r[id] \in Possible /\ r2[id] \in Possible) \/ r2[id] = r[id]
  PROVE  SessionState(r2) = SessionState(r)
<1>1. CASE r[id] \in Possible /\ r2[id] \in Possible
  <2>1. MayExist(r) /\ MayExist(r2)
    BY <1>1 DEF MayExist
  <2>2. QED
    BY <2>1, SessionStateIs
<1>2. CASE r2[id] = r[id]
  <2>1. \A j \in Ids : r2[j] = r[j]
    BY <1>2
  <2>2. (MayExist(r2) <=> MayExist(r)) /\ (NeverWas(r2) <=> NeverWas(r))
    BY <2>1 DEF MayExist, NeverWas
  <2>3. QED
    BY <2>2, SessionStateIs
<1>3. QED
  BY <1>1, <1>2

(* What was deleted was deleted for a retirement that is on file, and no   *)
(* creation comes after it.                                                *)
DeletionsRecorded ==
  \A o \in Owners, id \in Ids :
    remote[o][id] = "deleted" => disk[o].retiring /\ disk[o].create \in {"known", "deleted"}

(* The one creation of an owner that has no session.                       *)
LEMMA SendCreateMaps ==
  ASSUME IInv, DeletionsRecorded, NEW o \in Owners, SendCreate(o)
  PROVE  Contract!Create(o)
<1> DEFINE s == ledger[o]
<1>0. act[o].pc = "createReady"
  BY DEF SendCreate
<1>1. /\ s.create = "intent" /\ s.remote \in Ids /\ disk = ledger
      /\ remote[o][s.remote] = "unused" /\ ~s.retired /\ RemoteFits(s, remote[o])
  BY <1>0, LiveFacts DEF SendCreate, CallSteps, IInv, StoreInv, Healthy, RecordOK
<1>2. \A id \in Ids : remote[o][id] \in {"unused", "refused"}
  <2>1. \A id \in Ids : remote[o][id] \in SessionStates
    BY DEF IInv, TypeOK
  <2>2. \A id \in Ids : remote[o][id] \notin Possible
    BY <1>1 DEF RemoteFits, Possible, Live
  <2>3. \A id \in Ids : remote[o][id] # "deleted"
    BY <1>1 DEF DeletionsRecorded
  <2>4. QED
    BY <2>1, <2>2, <2>3 DEF SessionStates, Possible, Live
<1>3. SessionState(remote[o]) = "absent"
  BY <1>2, SessionStateIs DEF NeverWas
<1>4. /\ remote' = [remote EXCEPT ![o][s.remote] = "creating"] /\ UNCHANGED <<disk, wire>>
      /\ remote \in [Owners -> [Ids -> SessionStates]]
  BY DEF SendCreate, IInv, TypeOK
<1>5. SessionState(remote'[o]) = "possible" /\ \A x \in Owners \ {o} : remote'[x] = remote[x]
  <2>1. remote'[o][s.remote] = "creating" /\ \A x \in Owners \ {o} : remote'[x] = remote[x]
    BY <1>1, <1>4
  <2>2. MayExist(remote'[o])
    BY <1>1, <2>1 DEF MayExist, Possible
  <2>3. QED
    BY <2>1, <2>2, SessionStateIs
<1>6. OwnerState(disk[o]) # "retired"
  BY <1>1, OwnerStateIs
<1>7. QED
  BY <1>3, <1>4, <1>5, <1>6 DEF Contract!Create

(* A request leaves under open authority, for a session that may exist.    *)
LEMMA SendInferenceMaps ==
  ASSUME IInv, DeletionsRecorded, NEW o \in Owners, SendInference(o)
  PROVE  \E p \in Prompts, n \in Seqs : Contract!Dispatch(o, p, n)
<1> DEFINE s == ledger[o]
<1>0. act[o].pc = "ready"
  BY DEF SendInference
<1>a. act[o].prompt \in Prompts /\ act[o].seq \in Seqs
  BY <1>0, LiveFacts
<1>b. PICK p \in Prompts, n \in Seqs : p = act[o].prompt /\ n = act[o].seq
  BY <1>a
<1> DEFINE aut == [x \in Owners |-> [q \in Prompts |-> Authority(disk[x].prompts[q])]]
           own == [x \in Owners |-> OwnerState(disk[x])]
           ses == [x \in Owners |-> SessionState(remote[x])]
           work == [x \in Owners |-> [q \in Prompts |-> {m \in Seqs : wire[x][q][m] \in Outstanding}]]
<1>1. /\ s.create = "known" /\ s.remote \in Ids /\ disk = ledger
      /\ ~s.retired /\ ~s.retiring /\ ~s.prompts[p].closing /\ Unfinished(s, p)
      /\ RemoteFits(s, remote[o])
  BY <1>0, <1>b, LiveFacts DEF SendInference, CtxAlive, CallSteps, IInv, StoreInv, Healthy, RecordOK
<1>2. SessionState(remote[o]) = "possible"
  <2>1. remote[o][s.remote] \in Live \cup {"deleted"}
    BY <1>1 DEF RemoteFits
  <2>2. remote[o][s.remote] # "deleted"
    BY <1>1 DEF DeletionsRecorded
  <2>3. QED
    BY <1>1, <2>1, <2>2, SessionStateIs DEF MayExist, Possible
<1>3. Authority(disk[o].prompts[p]) = "open" /\ OwnerState(disk[o]) = "open"
  BY <1>1, AuthorityIs, OwnerStateIs DEF Unfinished
<1>4. wire' = [wire EXCEPT ![o][p][n] = "flying"] /\ UNCHANGED <<disk, remote>>
  BY <1>b DEF SendInference
<1>5. /\ wire'[o][p][n] = "flying"
      /\ \A q \in Prompts, m \in Seqs : (q = p /\ m = n) \/ wire'[o][q][m] = wire[o][q][m]
      /\ \A x \in Owners \ {o} : wire'[x] = wire[x]
  <2>1. TypeOK /\ wire' = [wire EXCEPT ![o][p][n] = "flying"]
    BY <1>4 DEF IInv
  <2> HIDE DEF aut, own, ses, work, s
  <2>2. QED
    BY <2>1, OneRequest
<1>6. work' = [work EXCEPT ![o][p] = @ \cup {n}]
  <2>1. \A x \in Owners \ {o} : work'[x] = work[x]
    BY <1>5
  <2>2. \A q \in Prompts \ {p} : work'[o][q] = work[o][q]
    BY <1>5
  <2>3. work'[o][p] = work[o][p] \cup {n}
    BY <1>b, <1>5 DEF Outstanding
  <2>4. work'[o] = [work[o] EXCEPT ![p] = @ \cup {n}]
    BY <2>2, <2>3
  <2>5. /\ work = [x \in Owners |-> work[x]] /\ work' = [x \in Owners |-> work'[x]]
    OBVIOUS
  <2> HIDE DEF work
  <2>6. work' = [work EXCEPT ![o] = [work[o] EXCEPT ![p] = @ \cup {n}]]
    BY <2>1, <2>4, <2>5
  <2>7. QED
    BY <2>6
<1>7. UNCHANGED <<aut, own, ses>> /\ aut[o][p] = "open" /\ own[o] = "open" /\ ses[o] = "possible"
  BY <1>b, <1>2, <1>3, <1>4
<1>8. QED
  <2>1. work' = [work EXCEPT ![o] = [work[o] EXCEPT ![p] = work[o][p] \cup {n}]]
    BY <1>6
  <2>2. /\ aut[o][p] = "open" /\ own[o] = "open" /\ ses[o] = "possible"
    BY <1>7
  <2>3. aut' = aut /\ own' = own /\ ses' = ses
    BY <1>7
  <2>4. Contract!Dispatch(o, p, n)
    BY <2>1, <2>2, <2>3, Zenon DEF Contract!Dispatch
  <2>5. QED
    BY <1>b, <2>4

(* What ends work of an owner, or its session, and touches nothing else.   *)
LEMMA QuietMaps ==
  ASSUME NEW o \in Owners, UNCHANGED disk,
         \A x \in Owners \ {o} : wire'[x] = wire[x] /\ remote'[x] = remote[x],
         \A p \in Prompts, n \in Seqs : wire'[o][p][n] \in Outstanding => wire[o][p][n] \in Outstanding,
         \/ SessionState(remote'[o]) = SessionState(remote[o])
         \/ /\ SessionState(remote[o]) = "possible" /\ SessionState(remote'[o]) = "gone"
            /\ OwnerState(disk[o]) = "retiring"
  PROVE  Contract!Quiet(o)
<1> DEFINE aut == [x \in Owners |-> [q \in Prompts |-> Authority(disk[x].prompts[q])]]
           own == [x \in Owners |-> OwnerState(disk[x])]
           ses == [x \in Owners |-> SessionState(remote[x])]
           work == [x \in Owners |-> [q \in Prompts |-> {m \in Seqs : wire[x][q][m] \in Outstanding}]]
           w == work'[o]
<1>1. w \in [Prompts -> SUBSET Seqs] /\ \A p \in Prompts : w[p] \subseteq work[o][p]
  OBVIOUS
<1>2. work' = [work EXCEPT ![o] = w]
  <2>1. \A x \in Owners \ {o} : work'[x] = work[x]
    OBVIOUS
  <2>2. work = [x \in Owners |-> work[x]] /\ work' = [x \in Owners |-> work'[x]]
    OBVIOUS
  <2> HIDE DEF work
  <2>3. QED
    BY <2>1, <2>2, OwnerWrites
<1>3. ses' \in [Owners -> {"absent", "possible", "gone"}]
  BY SessionStateIs
<1>4. /\ \A x \in Owners \ {o} : ses'[x] = ses[x]
      /\ \/ ses'[o] = ses[o]
         \/ ses[o] = "possible" /\ ses'[o] = "gone" /\ own[o] = "retiring"
  OBVIOUS
<1>5. aut' = aut /\ own' = own
  OBVIOUS
<1>6. \E x \in [Prompts -> SUBSET Seqs] :
        (\A p \in Prompts : x[p] \subseteq work[o][p]) /\ work' = [work EXCEPT ![o] = x]
  <2> HIDE DEF w, work
  <2>1. QED
    BY <1>1, <1>2
<1>7. QED
  BY <1>3, <1>4, <1>5, <1>6, Zenon DEF Contract!Quiet

(* A proof settles closed prompts without work, and with them retires an   *)
(* owner whose session is gone or never was.                               *)
LEMMA ProveMaps ==
  ASSUME IInv, NEW o \in Owners, Prove(o)
  PROVE  \E P \in SUBSET Prompts : Contract!Settle(o, P)
<1> DEFINE s == ledger[o]  k == wk[o]  u == Settlement(s, k.closing)  t == Proved(o)
           P == {p \in k.closing : ~s.prompts[p].settled}
           aut == [x \in Owners |-> [q \in Prompts |-> Authority(disk[x].prompts[q])]]
           own == [x \in Owners |-> OwnerState(disk[x])]
           ses == [x \in Owners |-> SessionState(remote[x])]
           work == [x \in Owners |-> [q \in Prompts |-> {m \in Seqs : wire[x][q][m] \in Outstanding}]]
<1>1. /\ k.pc = "prove" /\ ~k.ambiguous /\ k.closing \subseteq Prompts /\ s \in Session /\ ~s.retired
      /\ \A p \in k.closing : s.prompts[p].present /\ s.prompts[p].closing
      /\ \A p \in k.closing, n \in Seqs : wire[o][p][n] \notin Outstanding
      /\ k.create = s.create /\ k.create \in {"none", "known"}
      /\ k.retiring => /\ s.retiring /\ (s.create = "known" => remote[o][s.remote] = "deleted")
                      /\ \A p \in Prompts : s.prompts[p].present =>
                           s.prompts[p].settled \/ p \in k.closing
      /\ RemoteFits(s, remote[o])
  BY WorkerFacts DEF Prove, Provable, WorkerOK, LiveWorker, RecordOK
<1>2. /\ disk = ledger /\ disk' = [disk EXCEPT ![o] = t] /\ disk \in [Owners -> Session]
      /\ UNCHANGED <<remote, wire>>
  BY DEF Prove, Save, Lose, With, IInv, StoreInv, TypeOK, provider
<1>3. disk[o] = s /\ disk'[o] = t /\ \A x \in Owners \ {o} : disk'[x] = disk[x]
  BY <1>2
<1>4. /\ t.prompts = u.prompts /\ t.retiring = s.retiring
      /\ t.retired <=> k.retiring
  <2>1. u \in Session /\ u.retiring = s.retiring /\ ~u.retired
    BY <1>1, SettlementTyped, SettlementIs
  <2>2. QED
    BY <2>1 DEF Proved, Retired, Session
<1>5. \A p \in P : aut[o][p] = "closed" /\ work[o][p] = {}
  BY <1>1, <1>3, AuthorityIs
<1>6. \A p \in Prompts : aut'[o][p] = IF p \in P THEN "settled" ELSE aut[o][p]
  <2>1. ASSUME NEW p \in Prompts, p \in k.closing
        PROVE  Authority(t.prompts[p]) = "settled"
    BY <1>1, <1>4, <2>1, SettlementIs, AuthorityIs
  <2>2. ASSUME NEW p \in Prompts, p \notin k.closing
        PROVE  t.prompts[p] = s.prompts[p]
    BY <1>1, <1>4, <2>2, SettlementIs
  <2>3. ASSUME NEW p \in k.closing, s.prompts[p].settled
        PROVE  Authority(s.prompts[p]) = "settled"
    BY <1>1, <2>3, AuthorityIs
  <2>4. QED
    BY <1>1, <1>3, <2>1, <2>2, <2>3
<1>7. aut' = [aut EXCEPT ![o] = [p \in Prompts |-> IF p \in P THEN "settled" ELSE aut[o][p]]]
  <2>1. /\ aut = [x \in Owners |-> aut[x]] /\ aut' = [x \in Owners |-> aut'[x]]
        /\ \A x \in Owners \ {o} : aut'[x] = aut[x]
    BY <1>3
  <2>2. aut'[o] = [p \in Prompts |-> IF p \in P THEN "settled" ELSE aut[o][p]]
    BY <1>6
  <2> HIDE DEF aut, P
  <2>3. QED
    BY <2>1, <2>2, OwnerWrites
<1>8. \/ own' = own
      \/ /\ own[o] = "retiring" /\ ses[o] # "possible"
         /\ \A p \in Prompts \ P : aut[o][p] \in {"none", "settled"}
         /\ own' = [own EXCEPT ![o] = "retired"]
  <2>1. /\ own = [x \in Owners |-> own[x]] /\ own' = [x \in Owners |-> own'[x]]
        /\ \A x \in Owners \ {o} : own'[x] = own[x]
    BY <1>3
  <2>2. CASE ~k.retiring
    <3>1. own'[o] = own[o]
      BY <1>1, <1>3, <1>4, <2>2, OwnerStateIs
    <3> HIDE DEF own
    <3>2. QED
      BY <2>1, <3>1
  <2>3. CASE k.retiring
    <3>1. own[o] = "retiring" /\ own'[o] = "retired"
      BY <1>1, <1>3, <1>4, <2>3, OwnerStateIs
    <3>2. ~MayExist(remote[o])
      BY <1>1, <2>3 DEF MayExist, RemoteFits, Possible, Live
    <3>3. ses[o] # "possible"
      BY <3>2, SessionStateIs
    <3>4. \A p \in Prompts \ P : aut[o][p] \in {"none", "settled"}
      BY <1>1, <1>3, <2>3, AuthorityIs
    <3> HIDE DEF own, ses, aut, P
    <3>5. own' = [own EXCEPT ![o] = "retired"]
      BY <2>1, <3>1, OwnerWrites
    <3>6. QED
      BY <3>1, <3>3, <3>4, <3>5
  <2>4. QED
    BY <2>2, <2>3
<1>9. ses' = ses /\ work' = work
  BY <1>2
<1>10. Contract!Settle(o, P)
  BY <1>5, <1>7, <1>8, <1>9, Zenon DEF Contract!Settle
<1>11. P \in SUBSET Prompts
  BY <1>1
<1>12. QED
  BY <1>10, <1>11

(* A stop of an owner's session leaves its work to end.                    *)
LEMMA StopSessionMaps ==
  ASSUME IInv, NEW o \in Owners, StopSession(o)
  PROVE  Contract!Quiet(o)
<1> DEFINE s == ledger[o]
<1>1. s.remote \in Ids /\ remote[o][s.remote] \in Possible
  BY WorkerFacts DEF StopSession, WorkerOK, Possible
<1>2. /\ remote'[o][s.remote] \in Possible /\ UNCHANGED <<disk, wire>>
      /\ \A j \in Ids \ {s.remote} : remote'[o][j] = remote[o][j]
      /\ \A x \in Owners \ {o} : remote'[x] = remote[x]
  BY <1>1 DEF StopSession, Possible, Live, IInv, TypeOK
<1>3. SessionState(remote'[o]) = SessionState(remote[o])
  BY <1>1, <1>2, SessionMoves
<1>4. QED
  BY <1>2, <1>3, QuietMaps

(* A deletion ends the session of a retiring owner, and its work.          *)
LEMMA DeleteSessionMaps ==
  ASSUME IInv, NEW o \in Owners, DeleteSession(o)
  PROVE  Contract!Quiet(o)
<1> DEFINE s == ledger[o]  id == s.remote
<1>1. /\ s.create = "known" /\ id \in Ids /\ disk = ledger /\ s.retiring /\ ~s.retired
      /\ RemoteFits(s, remote[o]) /\ remote' = [remote EXCEPT ![o][id] = "deleted"]
      /\ remote[o][id] \in Live \cup {"deleted"}
  BY WorkerFacts DEF DeleteSession, WorkerOK, RecordOK
<1>2. /\ remote'[o][id] = "deleted" /\ UNCHANGED disk
      /\ \A j \in Ids \ {id} : remote'[o][j] = remote[o][j]
      /\ \A x \in Owners \ {o} : remote'[x] = remote[x]
  BY <1>1 DEF DeleteSession, IInv, TypeOK
<1>3. /\ \A x \in Owners \ {o} : wire'[x] = wire[x]
      /\ \A p \in Prompts, n \in Seqs :
           wire'[o][p][n] \in Outstanding => wire[o][p][n] \in Outstanding
  BY EndedIs DEF DeleteSession, Outstanding, IInv
<1>4. \/ SessionState(remote'[o]) = SessionState(remote[o])
      \/ /\ SessionState(remote[o]) = "possible" /\ SessionState(remote'[o]) = "gone"
         /\ OwnerState(disk[o]) = "retiring"
  <2>1. CASE remote[o][id] = "deleted"
    <3>1. remote'[o][id] = remote[o][id] /\ id \in Ids
          /\ \A j \in Ids \ {id} : remote'[o][j] = remote[o][j]
      BY <1>1, <1>2, <2>1
    <3> HIDE DEF id
    <3>2. SessionState(remote'[o]) = SessionState(remote[o])
      BY <3>1, SessionMoves
    <3>3. QED
      BY <3>2
  <2>2. CASE remote[o][id] \in Live
    <3>1. MayExist(remote[o])
      BY <1>1, <2>2 DEF MayExist, Possible
    <3>2. ~MayExist(remote'[o]) /\ ~NeverWas(remote'[o])
      BY <1>1, <1>2 DEF MayExist, NeverWas, RemoteFits, Possible, Live
    <3>3. OwnerState(disk[o]) = "retiring"
      BY <1>1, OwnerStateIs
    <3>4. QED
      BY <3>1, <3>2, <3>3, SessionStateIs
  <2>3. QED
    BY <1>1, <2>1, <2>2
<1>5. QED
  BY <1>2, <1>3, <1>4, QuietMaps

(* The provider ends work, and refuses a creation.                         *)
LEMMA ProviderMaps ==
  ASSUME IInv, DeletionsRecorded, NEW o \in Owners, Provider(o)
  PROVE  Contract!Quiet(o) \/ Contract!Refuse(o)
<1>1. ASSUME NEW id \in Ids, CreateLands(o, id)
      PROVE  Contract!Quiet(o) \/ Contract!Refuse(o)
  <2>1. PICK st \in {"active", "refused"} : remote' = [remote EXCEPT ![o][id] = st]
    BY <1>1 DEF CreateLands
  <2>2. /\ remote[o][id] = "creating" /\ remote'[o][id] = st /\ UNCHANGED <<disk, wire>>
        /\ \A j \in Ids \ {id} : remote'[o][j] = remote[o][j]
        /\ \A x \in Owners \ {o} : remote'[x] = remote[x]
    BY <1>1, <2>1 DEF CreateLands, IInv, TypeOK
  <2>3. CASE st = "active"
    <3>1. SessionState(remote'[o]) = SessionState(remote[o])
      BY <2>2, <2>3, SessionMoves DEF Possible, Live
    <3>2. QED
      BY <2>2, <3>1, QuietMaps
  <2>4. CASE st = "refused"
    <3> DEFINE s == disk[o]
    <3>1. RemoteFits(s, remote[o]) /\ WireFits(s, wire[o]) /\ s.remote = id /\ s.create = "intent"
      <4>1. RemoteFits(s, remote[o]) /\ WireFits(s, wire[o])
        BY OwnerFacts DEF RecordOK
      <4>2. s.remote = id /\ s.create \in {"intent", "known"}
        BY <2>2, <4>1 DEF RemoteFits, Possible
      <4>3. s.create # "known"
        BY <2>2, <4>1, <4>2 DEF RemoteFits, Live
      <4>4. QED
        BY <4>1, <4>2, <4>3
    <3>2. MayExist(remote[o])
      BY <2>2 DEF MayExist, Possible
    <3>3. NeverWas(remote'[o])
      <4>1. \A j \in Ids : remote[o][j] \in SessionStates
        BY DEF IInv, TypeOK
      <4>2. \A j \in Ids \ {id} : remote[o][j] \notin Possible /\ remote[o][j] # "deleted"
        BY <3>1 DEF RemoteFits, DeletionsRecorded
      <4>3. QED
        BY <2>2, <2>4, <4>1, <4>2 DEF NeverWas, SessionStates, Possible, Live
    <3>4. \A p \in Prompts : {n \in Seqs : wire[o][p][n] \in Outstanding} = {}
      BY <3>1 DEF WireFits, Outstanding
    <3> DEFINE aut == [x \in Owners |-> [q \in Prompts |-> Authority(disk[x].prompts[q])]]
               own == [x \in Owners |-> OwnerState(disk[x])]
               ses == [x \in Owners |-> SessionState(remote[x])]
               work == [x \in Owners |-> [q \in Prompts |-> {m \in Seqs : wire[x][q][m] \in Outstanding}]]
    <3>5. ses[o] = "possible" /\ ses'[o] = "absent"
      BY <3>2, <3>3, SessionStateIs
    <3>6. ses' = [ses EXCEPT ![o] = "absent"]
      <4>1. /\ ses = [x \in Owners |-> ses[x]] /\ ses' = [x \in Owners |-> ses'[x]]
            /\ \A x \in Owners \ {o} : ses'[x] = ses[x]
        BY <2>2
      <4> HIDE DEF ses
      <4>2. QED
        BY <3>5, <4>1, OwnerWrites
    <3>7. \A p \in Prompts : work[o][p] = {}
      BY <3>4
    <3>8. aut' = aut /\ own' = own /\ work' = work
      BY <2>2
    <3>9. Contract!Refuse(o)
      BY <3>5, <3>6, <3>7, <3>8, Zenon DEF Contract!Refuse
    <3>10. QED
      BY <3>9
  <2>5. QED
    BY <2>3, <2>4
<1>2. ASSUME NEW id \in Ids, SessionIdles(o, id)
      PROVE  Contract!Quiet(o) \/ Contract!Refuse(o)
  <2>1. /\ remote[o][id] \in Possible /\ remote'[o][id] \in Possible /\ UNCHANGED disk
        /\ \A j \in Ids \ {id} : remote'[o][j] = remote[o][j]
        /\ \A x \in Owners \ {o} : remote'[x] = remote[x]
    BY <1>2 DEF SessionIdles, IInv, TypeOK, Possible, Live
  <2>2. /\ \A x \in Owners \ {o} : wire'[x] = wire[x]
        /\ \A p \in Prompts, n \in Seqs :
             wire'[o][p][n] \in Outstanding => wire[o][p][n] \in Outstanding
    BY <1>2, EndedIs DEF SessionIdles, Outstanding, IInv
  <2>3. QED
    BY <2>1, <2>2, SessionMoves, QuietMaps
<1>3. ASSUME NEW p \in Prompts, NEW n \in Seqs,
             InferenceLands(o, p, n) \/ InferenceRefused(o, p, n) \/ ResponseEnds(o, p, n)
      PROVE  Contract!Quiet(o) \/ Contract!Refuse(o)
  <2>1. /\ wire[o][p][n] \in Outstanding /\ UNCHANGED disk
        /\ \E st \in WireStates : wire' = [wire EXCEPT ![o][p][n] = st]
    BY <1>3 DEF InferenceLands, InferenceRefused, ResponseEnds, Outstanding, WireStates
  <2>2. /\ \A x \in Owners \ {o} : wire'[x] = wire[x]
        /\ \A q \in Prompts, m \in Seqs :
             wire'[o][q][m] \in Outstanding => wire[o][q][m] \in Outstanding
    BY <2>1, OneRequest DEF IInv
  <2>3. /\ SessionState(remote'[o]) = SessionState(remote[o])
        /\ \A x \in Owners \ {o} : remote'[x] = remote[x]
    <3>1. CASE UNCHANGED remote
      BY <3>1
    <3>2. CASE InferenceLands(o, p, n)
      <4>1. PICK id \in Ids : remote[o][id] \in Live /\
              remote' = [remote EXCEPT ![o][id] = IF @ = "idle" THEN "active" ELSE @]
        BY <3>2 DEF InferenceLands
      <4>2. /\ remote[o][id] \in Possible /\ remote'[o][id] \in Possible
            /\ \A j \in Ids \ {id} : remote'[o][j] = remote[o][j]
            /\ \A x \in Owners \ {o} : remote'[x] = remote[x]
        BY <4>1 DEF Possible, Live, IInv, TypeOK
      <4>3. QED
        BY <4>2, SessionMoves
    <3>3. QED
      BY <1>3, <3>1, <3>2 DEF InferenceRefused, ResponseEnds
  <2>4. QED
    BY <2>1, <2>2, <2>3, QuietMaps
<1>4. QED
  BY <1>1, <1>2, <1>3 DEF Provider

-----------------------------------------------------------------------------
(* The layer under it: deletions are recorded.                             *)

(* A commit neither takes a retirement back nor forgets a session that is  *)
(* known.                                                                  *)
Remembers(s, t) ==
  /\ s.retiring => t.retiring
  /\ s.create \in {"known", "deleted"} => t.create \in {"known", "deleted"}

LEMMA FileRemembers ==
  ASSUME IInv, [Next]_vars, NEW o \in Owners
  PROVE  Remembers(disk[o], disk'[o])
<1>1. ASSUME NEW x \in Owners, Prove(x)
      PROVE  Remembers(disk[o], disk'[o])
  <2> DEFINE s == ledger[x]  u == Settlement(s, wk[x].closing)  t == Proved(x)
  <2>1. s \in Session /\ wk[x].create = s.create
    BY <1>1, WorkerFacts DEF Prove, WorkerOK
  <2>2. u \in Session /\ u.retiring = s.retiring /\ u.create = s.create
    BY <2>1, SettlementTyped, SettlementIs
  <2>3. t.retiring = s.retiring /\ (t.create = s.create \/ (s.create = "known" /\ t.create = "deleted"))
    BY <2>1, <2>2 DEF Proved, Retired, Session
  <2>4. disk = ledger /\ disk' = [disk EXCEPT ![x] = t] /\ disk \in [Owners -> Session]
    BY <1>1 DEF Prove, Save, Lose, With, IInv, StoreInv, TypeOK
  <2>5. QED
    BY <2>3, <2>4 DEF Remembers
<1>2. CASE ~ \E x \in Owners : Prove(x)
  BY <1>2, FileRegulates DEF Regulates, Remembers
<1>3. QED
  BY <1>1, <1>2

LEMMA DeletionsStayRecorded ==
  ASSUME IInv, DeletionsRecorded, [Next]_vars
  PROVE  DeletionsRecorded'
<1>1. SUFFICES ASSUME NEW o \in Owners, NEW id \in Ids, remote'[o][id] = "deleted"
               PROVE  disk'[o].retiring /\ disk'[o].create \in {"known", "deleted"}
  BY DEF DeletionsRecorded
<1>2. Remembers(disk[o], disk'[o])
  BY FileRemembers
<1>3. CASE remote[o][id] = "deleted"
  BY <1>2, <1>3 DEF Remembers, DeletionsRecorded
<1>4. CASE remote[o][id] # "deleted"
  <2>1. DeleteSession(o)
    BY <1>1, <1>4, OnlySendCreateCreates
  <2>2. wk[o].pc = "delete" /\ life = "up" /\ UNCHANGED disk
    BY <2>1 DEF DeleteSession
  <2>3. ledger[o].retiring /\ ledger[o].create = "known" /\ disk = ledger
    BY <2>2, WorkerFacts DEF WorkerOK
  <2>4. QED
    BY <2>2, <2>3
<1>5. QED
  BY <1>3, <1>4

-----------------------------------------------------------------------------
(* The refinement.                                                         *)

(* A step that leaves the provider alone regulates, or is a proof.         *)
LEMMA FileMaps ==
  ASSUME IInv, [Next]_vars, UNCHANGED provider
  PROVE  Contract!Next
<1>1. ASSUME NEW o \in Owners, Prove(o)
      PROVE  Contract!Next
  BY <1>1, ProveMaps DEF Contract!Next
<1>2. CASE ~ \E o \in Owners : Prove(o)
  <2>1. Contract!Regulate
    BY <1>2, FileRegulates, RegulateMaps
  <2>2. QED
    BY <2>1 DEF Contract!Next
<1>3. QED
  BY <1>1, <1>2

(* The other steps send a request to the provider or are its own.          *)
LEMMA StepMaps ==
  ASSUME IInv, DeletionsRecorded, [Next]_vars
  PROVE  Contract!Next
<1>1. ASSUME NEW o \in Owners, SendCreate(o)
      PROVE  Contract!Next
  BY <1>1, SendCreateMaps DEF Contract!Next
<1>2. ASSUME NEW o \in Owners, SendInference(o)
      PROVE  Contract!Next
  BY <1>2, SendInferenceMaps DEF Contract!Next
<1>3. ASSUME NEW o \in Owners, StopSession(o) \/ DeleteSession(o) \/ Provider(o)
      PROVE  Contract!Next
  BY <1>3, StopSessionMaps, DeleteSessionMaps, ProviderMaps DEF Contract!Next
<1>4. QED
  BY <1>1, <1>2, <1>3, FileMaps, WhoTouchesProvider

(* The fresh broker is the fresh contract, and nothing is deleted.         *)
LEMMA FreshContract ==
  ASSUME Init
  PROVE  Contract!Init /\ DeletionsRecorded
<1>1. /\ \A o \in Owners : disk[o] = NoSession
      /\ \A o \in Owners, id \in Ids : remote[o][id] = "unused"
      /\ \A o \in Owners, p \in Prompts, n \in Seqs : wire[o][p][n] \notin Outstanding
  BY DEF Init, Outstanding
<1>2. \A p \in Prompts : Authority(NoSession.prompts[p]) = "none"
  BY AuthorityIs DEF NoSession, NoPrompt
<1>3. OwnerState(NoSession) = "open"
  BY OwnerStateIs DEF NoSession
<1>4. \A o \in Owners : SessionState(remote[o]) = "absent"
  BY <1>1, SessionStateIs DEF NeverWas
<1>5. DeletionsRecorded
  BY <1>1 DEF DeletionsRecorded
<1>6. \A o \in Owners, p \in Prompts : {n \in Seqs : wire[o][p][n] \in Outstanding} = {}
  BY <1>1
<1>7. \A o \in Owners, p \in Prompts : Authority(disk[o].prompts[p]) = "none"
  BY <1>1, <1>2
<1>8. \A o \in Owners : OwnerState(disk[o]) = "open"
  BY <1>1, <1>3
<1>9. QED
  BY <1>4, <1>5, <1>6, <1>7, <1>8 DEF Contract!Init

(* The broker implements its contract: a step of the broker is a step of   *)
(* the contract or changes nothing of it (the whole of internal/broker).   *)
THEOREM BrokerKeepsContract == Spec => KeepsContract
<1>1. Init => Contract!Init /\ DeletionsRecorded
  BY FreshContract
<1>2. IInv /\ DeletionsRecorded /\ [Next]_vars => DeletionsRecorded'
  BY DeletionsStayRecorded
<1>3. IInv /\ DeletionsRecorded /\ [Next]_vars => [Contract!Next]_(Contract!contractVars)
  BY StepMaps
<1>4. QED
  BY <1>1, <1>2, <1>3, Invariant, PTL DEF Spec, KeepsContract, Contract!Spec
=============================================================================
