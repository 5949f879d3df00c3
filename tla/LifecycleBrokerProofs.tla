-------------------------- MODULE LifecycleBrokerProofs --------------------------
(***************************************************************************)
(* The ground of the lifecycle broker's proofs, for every set of owners    *)
(* and prompts and every bound.  First the records of the ledger: each     *)
(* operator that a commit applies to a session keeps it typed, and keeps   *)
(* what the proofs need to know of its prompts (PromptsFit) and of its     *)
(* provider session (CreateFits).  Then the type invariant.  Then the      *)
(* inductive invariant: what the ledger, its file, the running goroutines  *)
(* and the provider know of each other; the safety properties follow from  *)
(* it, it holds initially, and each change of a session record keeps the   *)
(* record in step with the provider when the requests are where the new    *)
(* record says they may be.                                                *)
(***************************************************************************)
EXTENDS LifecycleBroker, TLAPS

-----------------------------------------------------------------------------
(* The records of the ledger are typed.                                    *)

(* NoPrompt and NoSession are records.                                     *)
LEMMA EmptyTyped == NoPrompt \in Prompt /\ NoSession \in Session
<1>1. NoPrompt \in Prompt
  BY BoundsAssumption DEF NoPrompt, Prompt, Lease, ZeroTime, Seqs, Times, InvocationStates, LinkStates
<1>2. QED
  BY <1>1, BoundsAssumption DEF NoSession, Session, CreateStates

(* Opening a prompt keeps the session typed.                               *)
LEMMA OpenedTyped ==
  ASSUME NEW s \in Session, NEW p \in Prompts, NEW g \in 0..MaxGeneration, NEW e \in Times
  PROVE  Opened(s, p, g, e) \in Session
<1>0. [generation |-> g, expires |-> e] \in Lease
  BY DEF Lease
<1>1. [NoPrompt EXCEPT !.present = TRUE, !.identity = [generation |-> g, expires |-> e],
                       !.generation = g, !.expires = e] \in Prompt
  BY <1>0, EmptyTyped DEF Prompt
<1>2. QED
  BY <1>1 DEF Opened, Session

(* Closing any prompts keeps the session typed.                            *)
LEMMA ClosedTyped ==
  ASSUME NEW s \in Session, NEW P
  PROVE  Closed(s, P) \in Session
<1>1. \A p \in Prompts :
        [s.prompts[p] EXCEPT !.closing = @ \/ (p \in P /\ s.prompts[p].present)] \in Prompt
  BY DEF Session, Prompt
<1>2. QED
  BY <1>1 DEF Closed, Session

(* So does a retirement.                                                   *)
LEMMA RetirementTyped ==
  ASSUME NEW s \in Session
  PROVE  Retirement(s) \in Session
<1>1. Closed(s, Prompts) \in Session
  BY ClosedTyped
<1>2. QED
  BY <1>1 DEF Retirement, Session

(* Writing a typed prompt keeps the session typed.                         *)
LEMMA PromptWritten ==
  ASSUME NEW s \in Session, NEW p \in Prompts, NEW q \in Prompt
  PROVE  [s EXCEPT !.prompts[p] = q] \in Session
  BY DEF Session

(* The four records of an invocation's progress are typed.                 *)
LEMMA ProgressTyped ==
  ASSUME NEW s \in Session, NEW p \in Prompts, NEW n \in Seqs
  PROVE  /\ Reservation(s, p, n) \in Session
         /\ \A st \in InvocationStates : Mark(s, p, n, st) \in Session
         /\ Accepted(s, p, n) \in Session
         /\ \A kind \in LinkStates : Completed(s, p, n, kind) \in Session
<1> DEFINE q == s.prompts[p]
<1>0. q \in Prompt /\ n \in 0..MaxSeq
  BY BoundsAssumption DEF Session, Seqs
<1>1. Reservation(s, p, n) \in Session
  <2>1. [q EXCEPT !.last = n, !.state[n] = "reserved"] \in Prompt
    BY <1>0 DEF Prompt, InvocationStates
  <2>2. QED
    BY <2>1, PromptWritten DEF Reservation
<1>2. ASSUME NEW st \in InvocationStates
      PROVE  Mark(s, p, n, st) \in Session
  <2>1. [q EXCEPT !.state[n] = st] \in Prompt
    BY <1>0 DEF Prompt
  <2>2. QED
    BY <2>1, PromptWritten DEF Mark
<1>3. Accepted(s, p, n) \in Session
  <2>1. [q EXCEPT !.state[n] = "accepted", !.link[n] = "open"] \in Prompt
    BY <1>0 DEF Prompt, InvocationStates, LinkStates
  <2>2. QED
    BY <2>1, PromptWritten DEF Accepted
<1>4. ASSUME NEW kind \in LinkStates
      PROVE  Completed(s, p, n, kind) \in Session
  <2>1. [q EXCEPT !.state[n] = "completed", !.link[n] = kind, !.alias = n] \in Prompt
    BY <1>0 DEF Prompt, InvocationStates
  <2>2. QED
    BY <2>1, PromptWritten DEF Completed
<1>5. QED
  BY <1>1, <1>2, <1>3, <1>4

(* The end of an invocation keeps the session typed.                       *)
LEMMA FinishedTyped ==
  ASSUME NEW s \in Session, NEW p \in Prompts, NEW n \in Seqs, NEW err
  PROVE  Finished(s, p, n, err) \in Session
<1>1. CASE err = "ok"
  BY <1>1 DEF Finished
<1>2. CASE err # "ok"
  <2> DEFINE st == s.prompts[p].state[n]
             new == CASE st = "reserved" -> "rejected"
                      [] st = "intent" -> IF err = "ambiguous" THEN "uncertain" ELSE "rejected"
                      [] OTHER -> st
  <2>1. Closed(s, {p}) \in Session
    BY ClosedTyped
  <2>2. st \in InvocationStates
    BY DEF Session, Prompt
  <2>3. new \in InvocationStates
    BY <2>2 DEF InvocationStates
  <2>4. Mark(Closed(s, {p}), p, n, new) \in Session
    BY <2>1, <2>3, ProgressTyped
  <2>5. QED
    BY <1>2, <2>4 DEF Finished
<1>3. QED
  BY <1>1, <1>2

(* Settlement and retirement keep the session typed.                       *)
LEMMA SettlementTyped ==
  ASSUME NEW s \in Session, NEW P, NEW created
  PROVE  Settlement(s, P) \in Session /\ Retired(s, created) \in Session
<1>1. ASSUME NEW p \in Prompts
      PROVE  [s.prompts[p] EXCEPT
                !.settled = TRUE,
                !.state = [n \in Seqs |->
                   IF s.prompts[p].state[n] \in {"absent", "completed"}
                     THEN s.prompts[p].state[n] ELSE "settled"]] \in Prompt
  BY ZenonT(30) DEF Session, Prompt, InvocationStates
<1>2. Settlement(s, P) \in Session
  BY <1>1 DEF Settlement, Session
<1>3. Retired(s, created) \in Session
  BY DEF Retired, Session, CreateStates
<1>4. QED
  BY <1>2, <1>3

-----------------------------------------------------------------------------
(* What every reachable session record satisfies.                          *)

(* Only the current prompt is unsettled, an absent prompt is blank, no     *)
(* invocation is newer than the last one, and a settled prompt has none    *)
(* that is not resolved.                                                   *)
Resolved == {"absent", "completed", "settled"}

Blank(q) == ~q.closing /\ ~q.settled /\ \A n \in Seqs : q.state[n] = "absent"

PromptsFit(s) ==
  /\ \A p \in Prompts : s.prompts[p].present => s.current # None
  /\ \A p \in Prompts : s.prompts[p].present /\ ~s.prompts[p].settled => p = s.current
  /\ \A p \in Prompts : ~s.prompts[p].present => Blank(s.prompts[p])
  /\ \A p \in Prompts, n \in Seqs :
       s.prompts[p].last < n => s.prompts[p].state[n] = "absent"
  /\ \A p \in Prompts, n \in Seqs :
       s.prompts[p].settled => s.prompts[p].state[n] \in Resolved

(* The last invocation of q waits for the session, or did so and was given *)
(* up.                                                                     *)
Pending(q) == q.last # 0 /\ q.state[q.last] \in {"reserved", "rejected"}

(* A session id is held from its creation's intent on, a pending creation  *)
(* belongs to the current prompt, no response precedes the session, and a  *)
(* retired owner holds neither a session nor an unsettled prompt.          *)
CreateFits(s) ==
  /\ s.create = "none" <=> s.remote = 0
  /\ s.create = "deleted" => s.retired
  /\ s.retired => s.retiring /\ s.create \in {"none", "deleted"}
  /\ s.retired => \A p \in Prompts : s.prompts[p].present => s.prompts[p].settled
  /\ s.create = "intent" =>
       s.current # None /\ Pending(s.prompts[s.current]) /\ ~s.prompts[s.current].settled
  /\ s.create \in {"none", "intent"} =>
       \A p \in Prompts, n \in Seqs : s.prompts[p].link[n] = "none"

(* The current prompt is one the session has, no two keys share an attempt,*)
(* and a retiring owner's prompts are closing.                             *)
KeysFit(s) ==
  /\ s.current # None => s.prompts[s.current].present
  /\ \A p, q \in Prompts :
       s.prompts[p].present /\ s.prompts[q].present /\ Attempt[p] = Attempt[q] => p = q
  /\ s.retiring => \A p \in Prompts : s.prompts[p].present => s.prompts[p].closing

(* What the validator demands of a prompt by itself: response aliases match*)
(* the states, and last and alias are those of the last invocation and of  *)
(* the last completed one.                                                 *)
PromptSound(q) ==
  /\ q.settled => q.closing
  /\ \A n \in Seqs : InvocationValid(q, n)
  /\ q.last # 0 => q.state[q.last] # "absent"
  /\ \A n \in Seqs : q.state[n] = "completed" => n <= q.alias
  /\ q.alias # 0 => q.state[q.alias] = "completed"

(* A lease is never older than the one the prompt was opened with, and no  *)
(* invocation is admitted under the zero time, which is always past.       *)
LeaseSound(q) ==
  /\ q.present => LeaseValid(q)
  /\ q.expires = ZeroTime => \A n \in Seqs : q.state[n] = "absent"

SessionFits(s) ==
  /\ PromptsFit(s) /\ CreateFits(s) /\ KeysFit(s)
  /\ \A p \in Prompts : PromptSound(s.prompts[p])
  /\ \A p \in Prompts : LeaseSound(s.prompts[p])

(* A prompt in which a request may still change something.                 *)
Unfinished(s, p) == s.prompts[p].present /\ ~s.prompts[p].settled

(* A session without prompts fits.                                         *)
LEMMA EmptyFits == SessionFits(NoSession)
<1>1. PromptSound(NoPrompt)
  BY DEF PromptSound, InvocationValid, NoPrompt
<1>2. LeaseSound(NoPrompt)
  BY DEF LeaseSound, NoPrompt
<1>3. QED
  BY <1>1, <1>2 DEF SessionFits, PromptsFit, CreateFits, KeysFit, Blank, NoSession, NoPrompt

(* The validator accepts a session that fits, but for a zero lease, and no *)
(* prompt with a zero lease carried an invocation.                         *)
LEMMA FitIsValid ==
  ASSUME NEW s \in Session, SessionFits(s)
  PROVE  /\ OwnerFits(s)
         /\ \A p \in Prompts : s.prompts[p].present =>
              /\ PromptFits(s, p)
              /\ s.prompts[p].expires = ZeroTime =>
                   \A n \in Seqs : s.prompts[p].state[n] = "absent"
<1>1. ASSUME NEW p \in Prompts, s.prompts[p].present
      PROVE  PromptFits(s, p)
  <2> DEFINE q == s.prompts[p]  Held == InvocationStates \ {"absent"}
  <2>1. /\ q \in Prompt /\ PromptSound(q)
        /\ IF q.settled THEN q.closing ELSE ~s.retired /\ p = s.current
        /\ s.retiring => q.closing
        /\ \A n \in Seqs : q.last < n => q.state[n] = "absent"
    BY <1>1 DEF Session, SessionFits, PromptsFit, CreateFits, KeysFit, PromptSound
  <2>2. /\ q.last \in 0..MaxSeq /\ q.alias \in 0..MaxSeq
        /\ \A n \in Seqs : q.state[n] \in InvocationStates
    BY <2>1, BoundsAssumption DEF Prompt
  <2>3. LeaseValid(q)
    BY <1>1 DEF SessionFits, LeaseSound
  <2>4. Highest(q, q.last, Held)
    BY <2>1, <2>2, BoundsAssumption DEF Highest, Seqs
  <2>5. q.last # 0 => q.state[q.last] \in Held
    BY <2>1, <2>2, BoundsAssumption DEF PromptSound, Seqs
  <2>6. Highest(q, q.alias, {"completed"}) /\ (q.alias # 0 => q.state[q.alias] = "completed")
    BY <2>1 DEF Highest, PromptSound
  <2>7. \A n \in Seqs : InvocationValid(q, n)
    BY <2>1 DEF PromptSound
  <2>8. QED
    BY <2>1, <2>3, <2>4, <2>5, <2>6, <2>7 DEF PromptFits
<1>2. s.current = None <=> \A p \in Prompts : ~s.prompts[p].present
  <2>1. s.current \in Prompts \cup {None}
    BY DEF Session
  <2>2. QED
    BY <2>1 DEF SessionFits, PromptsFit, KeysFit
<1>3. OwnerFits(s)
  BY <1>2 DEF OwnerFits, SessionFits, CreateFits, KeysFit
<1>4. QED
  BY <1>1, <1>3 DEF SessionFits, LeaseSound

(* A prompt that may be opened becomes the only unsettled one.             *)
LEMMA OpenedFits ==
  ASSUME NEW s \in Session, SessionFits(s), NEW p \in Prompts, CanOpen(s, p),
         NEW g \in 1..MaxGeneration, NEW e \in Times
  PROVE  SessionFits(Opened(s, p, g, e))
<1> DEFINE t == Opened(s, p, g, e)
<1>1. /\ t.current = p /\ t.create = s.create /\ t.remote = s.remote
      /\ t.retiring = s.retiring /\ t.retired = s.retired
  BY DEF Opened, Session
<1>2. /\ t.prompts[p].present /\ ~t.prompts[p].settled
      /\ \A q \in Prompts \ {p} : t.prompts[q] = s.prompts[q]
      /\ \A n \in Seqs : t.prompts[p].state[n] = "absent" /\ t.prompts[p].link[n] = "none"
      /\ t.prompts[p].last = 0 /\ t.prompts[p].alias = 0 /\ t.prompts[p].generation = g
      /\ t.prompts[p].expires = e /\ t.prompts[p].identity = [generation |-> g, expires |-> e]
  BY DEF Opened, Session, NoPrompt
<1>3. \A q \in Prompts : s.prompts[q].present => s.prompts[q].settled
  BY DEF SessionFits, PromptsFit, CanOpen
<1>4. p # None
  BY NoneAssumption
<1>5. PromptsFit(t)
  BY <1>1, <1>2, <1>3, <1>4 DEF SessionFits, PromptsFit
<1>6. CreateFits(t)
  BY <1>1, <1>2 DEF SessionFits, CreateFits, CanOpen
<1>7. KeysFit(t)
  BY <1>1, <1>2 DEF SessionFits, KeysFit, CanOpen
<1>8. PromptSound(t.prompts[p])
  BY <1>2 DEF PromptSound, InvocationValid
<1>9. LeaseSound(t.prompts[p])
  <2>1. g # 0 /\ g <= g /\ e <= e
    BY BoundsAssumption DEF Times
  <2>2. QED
    BY <1>2, <2>1 DEF LeaseSound, LeaseValid
<1>10. QED
  BY <1>2, <1>5, <1>6, <1>7, <1>8, <1>9 DEF SessionFits

(* Closing prompts changes nothing else of them.                           *)
LEMMA ClosedIs ==
  ASSUME NEW s \in Session, NEW P
  PROVE  LET t == Closed(s, P) IN
         /\ t.current = s.current /\ t.create = s.create /\ t.remote = s.remote
         /\ t.retiring = s.retiring /\ t.retired = s.retired
         /\ \A p \in Prompts :
              /\ t.prompts[p].present = s.prompts[p].present
              /\ t.prompts[p].settled = s.prompts[p].settled
              /\ t.prompts[p].last = s.prompts[p].last
              /\ t.prompts[p].state = s.prompts[p].state
              /\ t.prompts[p].link = s.prompts[p].link
              /\ t.prompts[p].alias = s.prompts[p].alias
              /\ t.prompts[p].generation = s.prompts[p].generation
              /\ t.prompts[p].expires = s.prompts[p].expires
              /\ t.prompts[p].identity = s.prompts[p].identity
              /\ t.prompts[p].closing <=>
                   s.prompts[p].closing \/ (p \in P /\ s.prompts[p].present)
BY DEF Closed, Session, Prompt

(* Closing prompts of P keeps the session fit.                             *)
LEMMA ClosedFits ==
  ASSUME NEW s \in Session, SessionFits(s), NEW P
  PROVE  SessionFits(Closed(s, P))
<1>1. PromptsFit(Closed(s, P))
  BY ClosedIs DEF SessionFits, PromptsFit, Blank
<1>2. CreateFits(Closed(s, P))
  <2>1. s.current \in Prompts \cup {None}
    BY DEF Session
  <2>2. QED
    BY <2>1, ClosedIs DEF SessionFits, CreateFits, Pending
<1>3. KeysFit(Closed(s, P))
  <2>1. s.current \in Prompts \cup {None}
    BY DEF Session
  <2>2. QED
    BY <2>1, ClosedIs DEF SessionFits, KeysFit
<1>4. \A p \in Prompts : PromptSound(Closed(s, P).prompts[p])
  BY ClosedIs DEF SessionFits, PromptSound, InvocationValid
<1>5. \A p \in Prompts : LeaseSound(Closed(s, P).prompts[p])
  BY ClosedIs DEF SessionFits, LeaseSound, LeaseValid
<1>6. QED
  BY <1>1, <1>2, <1>3, <1>4, <1>5 DEF SessionFits

(* A retirement closes every prompt.                                       *)
LEMMA RetirementIs ==
  ASSUME NEW s \in Session
  PROVE  LET t == Retirement(s) IN
         /\ t.retiring /\ t.current = s.current /\ t.create = s.create
         /\ t.remote = s.remote /\ t.retired = s.retired
         /\ t.prompts = Closed(s, Prompts).prompts
BY ClosedTyped, ClosedIs DEF Retirement, Session

(* So does a retirement.                                                   *)
LEMMA RetirementFits ==
  ASSUME NEW s \in Session, SessionFits(s)
  PROVE  SessionFits(Retirement(s))
<1>1. SessionFits(Closed(s, Prompts))
  BY ClosedFits
<1>2. PromptsFit(Retirement(s))
  BY <1>1, RetirementIs, ClosedIs DEF SessionFits, PromptsFit
<1>3. CreateFits(Retirement(s))
  BY <1>1, RetirementIs, ClosedIs DEF SessionFits, CreateFits
<1>4. KeysFit(Retirement(s))
  <2>1. \A p \in Prompts : Closed(s, Prompts).prompts[p].present => Closed(s, Prompts).prompts[p].closing
    BY ClosedIs
  <2>2. QED
    BY <1>1, <2>1, RetirementIs, ClosedIs DEF SessionFits, KeysFit
<1>5. QED
  BY <1>1, <1>2, <1>3, <1>4, RetirementIs DEF SessionFits

(* Writing an unsettled record over an unfinished prompt.                  *)
LEMMA WrittenFits ==
  ASSUME NEW s \in Session, SessionFits(s), NEW p \in Prompts, Unfinished(s, p),
         NEW q \in Prompt, q.present, ~q.settled, PromptSound(q), LeaseSound(q),
         \A n \in Seqs : q.last < n => q.state[n] = "absent",
         s.retiring => q.closing,
         s.create = "intent" => Pending(q),
         s.create \in {"none", "intent"} => \A n \in Seqs : q.link[n] = "none"
  PROVE  SessionFits([s EXCEPT !.prompts[p] = q])
<1> DEFINE t == [s EXCEPT !.prompts[p] = q]
<1>1. /\ t.create = s.create /\ t.remote = s.remote /\ t.retiring = s.retiring
      /\ t.retired = s.retired /\ t.current = s.current /\ t.prompts[p] = q
      /\ \A x \in Prompts \ {p} : t.prompts[x] = s.prompts[x]
  BY DEF Session
<1>2. s.current = p /\ p # None /\ s.prompts[p].present /\ ~s.prompts[p].settled
  BY NoneAssumption DEF SessionFits, PromptsFit, Unfinished
<1> HIDE DEF t
<1>3. PromptsFit(t)
  BY <1>1, <1>2 DEF SessionFits, PromptsFit
<1>4. CreateFits(t)
  BY <1>1, <1>2 DEF SessionFits, CreateFits
<1>5. KeysFit(t)
  BY <1>1, <1>2 DEF SessionFits, KeysFit
<1>6. \A x \in Prompts : PromptSound(t.prompts[x]) /\ LeaseSound(t.prompts[x])
  BY <1>1 DEF SessionFits
<1>7. QED
  BY <1>3, <1>4, <1>5, <1>6 DEF SessionFits, t

(* The state an unanswered invocation may get: an intent once the session  *)
(* is known, or an outcome.                                                *)
MayBecome(s, old, new) ==
  \/ new = old
  \/ /\ old \in {"reserved", "intent"} /\ new \in {"intent", "rejected", "uncertain"}
     /\ s.create = "intent" => new = "rejected"

(* The records of an invocation's progress keep the session fit.           *)
LEMMA ProgressFits ==
  ASSUME NEW s \in Session, SessionFits(s), NEW p \in Prompts, Unfinished(s, p), NEW n \in Seqs
  PROVE  /\ s.prompts[p].last < n /\ s.create # "intent" /\ s.prompts[p].expires # ZeroTime =>
              SessionFits(Reservation(s, p, n))
         /\ n = s.prompts[p].last =>
              /\ \A st \in InvocationStates :
                   MayBecome(s, s.prompts[p].state[n], st) => SessionFits(Mark(s, p, n, st))
              /\ s.prompts[p].state[n] = "intent" /\ s.create = "known" =>
                   SessionFits(Accepted(s, p, n))
              /\ \A kind \in {"text", "calls"} :
                   s.prompts[p].state[n] = "accepted" => SessionFits(Completed(s, p, n, kind))
<1> DEFINE q == s.prompts[p]
<1>0. /\ q \in Prompt /\ n \in 0..MaxSeq /\ q.present /\ ~q.settled
      /\ Seqs \subseteq Nat /\ q.last \in Nat /\ q.alias \in Nat /\ n # 0
      /\ q.last \in 0..MaxSeq /\ q.alias \in 0..MaxSeq
      /\ \A m \in Seqs : q.last < m => q.state[m] = "absent"
      /\ \A m \in Seqs : q.state[m] \in InvocationStates
      /\ \A m \in Seqs : InvocationValid(q, m)
      /\ PromptSound(q) /\ LeaseSound(q) /\ (s.retiring => q.closing)
      /\ s.create = "intent" => Pending(q)
      /\ s.create \in {"none", "intent"} => \A m \in Seqs : q.link[m] = "none"
  <2>1. q \in Prompt
    BY DEF Session
  <2>2. SessionFits(s) /\ q.present /\ ~q.settled /\ p = s.current
    BY DEF Unfinished, SessionFits, PromptsFit
  <2>3. PromptSound(q) /\ LeaseSound(q) /\ \A m \in Seqs : InvocationValid(q, m)
    BY <2>2 DEF SessionFits, PromptSound
  <2>4. /\ q.last \in Nat /\ q.alias \in Nat /\ n # 0 /\ Seqs \subseteq Nat /\ n \in 0..MaxSeq
        /\ q.last \in 0..MaxSeq /\ q.alias \in 0..MaxSeq
    BY <2>1, BoundsAssumption DEF Prompt, Seqs
  <2>5. QED
    BY <2>1, <2>2, <2>3, <2>4 DEF SessionFits, PromptsFit, CreateFits, KeysFit, Prompt
<1>1. ASSUME q.last < n, s.create # "intent", q.expires # ZeroTime
      PROVE  SessionFits(Reservation(s, p, n))
  <2> DEFINE r == [q EXCEPT !.last = n, !.state[n] = "reserved"]
  <2>1. /\ r \in Prompt /\ r.present /\ ~r.settled /\ (s.retiring => r.closing)
        /\ r.generation = q.generation /\ r.expires = q.expires /\ r.identity = q.identity
        /\ r.last = n /\ r.alias = q.alias /\ r.link = q.link
        /\ r.state[n] = "reserved" /\ \A m \in Seqs : m # n => r.state[m] = q.state[m]
    BY <1>0 DEF Prompt, InvocationStates
  <2>a. Reservation(s, p, n) = [s EXCEPT !.prompts[p] = r]
    BY DEF Reservation
  <2> HIDE DEF r
  <2>2. \A m \in Seqs : r.last < m => r.state[m] = "absent"
    BY <1>0, <1>1, <2>1
  <2>3. q.state[n] = "absent" /\ q.link[n] = "none"
    BY <1>0, <1>1 DEF InvocationValid
  <2>4. \A m \in Seqs : InvocationValid(r, m)
    <3>1. InvocationValid(r, n)
      BY <1>0, <2>1, <2>3 DEF InvocationValid
    <3>2. ASSUME NEW m \in Seqs, m # n
          PROVE  InvocationValid(r, m)
      <4>1. InvocationValid(q, m) /\ r.state[m] = q.state[m] /\ r.link[m] = q.link[m]
        BY <1>0, <2>1, <3>2
      <4>2. ~r.settled /\ ~q.settled
        BY <1>0, <2>1
      <4> HIDE DEF q
      <4>3. QED
        BY <4>1, <4>2 DEF InvocationValid
    <3>3. QED
      BY <3>1, <3>2
  <2>5. r.alias # 0 => r.alias \in Seqs /\ r.alias # n /\ r.state[r.alias] = "completed"
    BY <1>0, <2>1, <2>3 DEF PromptSound, Seqs
  <2>6. PromptSound(r)
    BY <1>0, <2>1, <2>4, <2>5 DEF PromptSound
  <2>7. LeaseSound(r)
    BY <1>0, <1>1, <2>1 DEF LeaseSound, LeaseValid
  <2>8. QED
    BY <1>0, <1>1, <2>a, <2>1, <2>2, <2>6, <2>7, WrittenFits
<1>2. ASSUME n = q.last, NEW st \in InvocationStates, MayBecome(s, q.state[n], st)
      PROVE  SessionFits(Mark(s, p, n, st))
  <2> DEFINE r == [q EXCEPT !.state[n] = st]
  <2>1. /\ r \in Prompt /\ r.present /\ ~r.settled /\ (s.retiring => r.closing)
        /\ r.generation = q.generation /\ r.expires = q.expires /\ r.identity = q.identity
        /\ r.last = q.last /\ r.alias = q.alias /\ r.link = q.link
        /\ r.state[n] = st /\ \A m \in Seqs : m # n => r.state[m] = q.state[m]
    BY <1>0 DEF Prompt
  <2>a. Mark(s, p, n, st) = [s EXCEPT !.prompts[p] = r]
    BY DEF Mark
  <2> HIDE DEF r
  <2>2. \A m \in Seqs : r.last < m => r.state[m] = "absent"
    <3>1. n \in Nat /\ Seqs \subseteq Nat /\ r.last = n
      BY <1>0, <1>2, <2>1
    <3>2. \A m \in Seqs : n < m => m # n /\ q.state[m] = "absent"
      BY <1>0, <1>2
    <3>3. QED
      BY <2>1, <3>1, <3>2
  <2>3. \A m \in Seqs : InvocationValid(r, m)
    <3>1. InvocationValid(r, n)
      BY <1>0, <1>2, <2>1 DEF InvocationValid, MayBecome
    <3>2. \A m \in Seqs : m # n => InvocationValid(r, m)
      BY <1>0, <2>1 DEF InvocationValid
    <3>3. QED
      BY <3>1, <3>2
  <2>4. st = "absent" => q.state[n] = "absent"
    BY <1>2 DEF MayBecome
  <2>5. st = "completed" <=> q.state[n] = "completed"
    BY <1>2 DEF MayBecome
  <2>6. r.alias # 0 => r.alias \in Seqs /\ q.state[r.alias] = "completed"
    BY <1>0, <2>1 DEF PromptSound, Seqs
  <2>7. PromptSound(r)
    BY <1>0, <1>2, <2>1, <2>3, <2>4, <2>5, <2>6 DEF PromptSound
  <2>8. s.create = "intent" => Pending(r)
    BY <1>0, <1>2, <2>1 DEF Pending, MayBecome
  <2>9. LeaseSound(r)
    <3>1. q.expires = ZeroTime => st = "absent"
      BY <1>0, <1>2 DEF LeaseSound, MayBecome
    <3>2. QED
      BY <1>0, <2>1, <3>1 DEF LeaseSound, LeaseValid
  <2>10. QED
    BY <1>0, <2>a, <2>1, <2>2, <2>7, <2>8, <2>9, WrittenFits
<1>3. ASSUME n = q.last, q.state[n] = "intent", s.create = "known"
      PROVE  SessionFits(Accepted(s, p, n))
  <2> DEFINE r == [q EXCEPT !.state[n] = "accepted", !.link[n] = "open"]
  <2>1. /\ r \in Prompt /\ r.present /\ ~r.settled /\ (s.retiring => r.closing)
        /\ r.generation = q.generation /\ r.expires = q.expires /\ r.identity = q.identity
        /\ r.last = q.last /\ r.alias = q.alias
        /\ r.state[n] = "accepted" /\ r.link[n] = "open"
        /\ \A m \in Seqs : m # n => r.state[m] = q.state[m] /\ r.link[m] = q.link[m]
    BY <1>0 DEF Prompt, InvocationStates, LinkStates
  <2>a. Accepted(s, p, n) = [s EXCEPT !.prompts[p] = r]
    BY DEF Accepted
  <2> HIDE DEF r
  <2>2. \A m \in Seqs : r.last < m => r.state[m] = "absent"
    BY <1>0, <1>3, <2>1
  <2>3. \A m \in Seqs : InvocationValid(r, m)
    <3>1. InvocationValid(r, n)
      BY <1>0, <2>1 DEF InvocationValid
    <3>2. \A m \in Seqs : m # n => InvocationValid(r, m)
      BY <1>0, <2>1 DEF InvocationValid
    <3>3. QED
      BY <3>1, <3>2
  <2>4. r.alias # 0 => r.alias \in Seqs /\ q.state[r.alias] = "completed"
    BY <1>0, <2>1 DEF PromptSound, Seqs
  <2>5. PromptSound(r)
    BY <1>0, <1>3, <2>1, <2>3, <2>4 DEF PromptSound
  <2>6. LeaseSound(r)
    BY <1>0, <1>3, <2>1 DEF LeaseSound, LeaseValid
  <2>7. QED
    BY <1>0, <1>3, <2>a, <2>1, <2>2, <2>5, <2>6, WrittenFits
<1>4. ASSUME n = q.last, NEW kind \in {"text", "calls"}, q.state[n] = "accepted"
      PROVE  SessionFits(Completed(s, p, n, kind))
  <2> DEFINE r == [q EXCEPT !.state[n] = "completed", !.link[n] = kind, !.alias = n]
  <2>1. /\ r \in Prompt /\ r.present /\ ~r.settled /\ (s.retiring => r.closing)
        /\ r.generation = q.generation /\ r.expires = q.expires /\ r.identity = q.identity
        /\ r.last = q.last /\ r.alias = n
        /\ r.state[n] = "completed" /\ r.link[n] = kind
        /\ \A m \in Seqs : m # n => r.state[m] = q.state[m] /\ r.link[m] = q.link[m]
    BY <1>0 DEF Prompt, InvocationStates, LinkStates
  <2>a. Completed(s, p, n, kind) = [s EXCEPT !.prompts[p] = r]
    BY DEF Completed
  <2> HIDE DEF r
  <2>2. \A m \in Seqs : r.last < m => r.state[m] = "absent"
    BY <1>0, <1>4, <2>1
  <2>3. \A m \in Seqs : InvocationValid(r, m)
    <3>1. InvocationValid(r, n)
      BY <1>0, <2>1 DEF InvocationValid
    <3>2. \A m \in Seqs : m # n => InvocationValid(r, m)
      BY <1>0, <2>1 DEF InvocationValid
    <3>3. QED
      BY <3>1, <3>2
  <2>4. \A m \in Seqs : r.state[m] # "absent" => m <= n
    <3>1. n \in Nat /\ Seqs \subseteq Nat /\ r.last = n
      BY <1>0, <1>4, <2>1
    <3>2. ASSUME NEW m \in Seqs, r.state[m] # "absent"
          PROVE  m <= n
      <4>1. ~(r.last < m) /\ m \in Nat
        BY <2>2, <3>1, <3>2
      <4>2. QED
        BY <3>1, <4>1
    <3>3. QED
      BY <3>2
  <2>5. PromptSound(r)
    BY <1>0, <1>4, <2>1, <2>3, <2>4 DEF PromptSound
  <2>6. s.create \notin {"none", "intent"}
    BY <1>0, <1>4 DEF InvocationValid
  <2>7. LeaseSound(r)
    BY <1>0, <1>4, <2>1 DEF LeaseSound, LeaseValid
  <2>8. QED
    BY <1>0, <2>a, <2>1, <2>2, <2>5, <2>6, <2>7, WrittenFits
<1>5. QED
  BY <1>1, <1>2, <1>3, <1>4

(* What the end of an invocation makes of its state.                       *)
Outcome(st, err) ==
  CASE st = "reserved" -> "rejected"
    [] st = "intent" -> IF err = "ambiguous" THEN "uncertain" ELSE "rejected"
    [] OTHER -> st

(* The end is a state its last invocation may get.                         *)
LEMMA OutcomeMayBe ==
  ASSUME NEW s \in Session, SessionFits(s), NEW p \in Prompts, Unfinished(s, p),
         NEW n \in Seqs, n = s.prompts[p].last, NEW err
  PROVE  LET st == s.prompts[p].state[n] IN
         Outcome(st, err) \in InvocationStates /\ MayBecome(s, st, Outcome(st, err))
<1> DEFINE st == s.prompts[p].state[n]
<1>1. st \in InvocationStates
  BY DEF Session, Prompt
<1>2. s.create = "intent" => st \in {"reserved", "rejected"}
  BY DEF SessionFits, PromptsFit, CreateFits, Unfinished, Pending
<1>3. QED
  BY <1>1, <1>2 DEF Outcome, MayBecome, InvocationStates

(* The end of an invocation closes its prompt and resolves what was never  *)
(* sent, or keeps it as uncertain.                                         *)
LEMMA FinishedFits ==
  ASSUME NEW s \in Session, SessionFits(s), NEW p \in Prompts, Unfinished(s, p),
         NEW n \in Seqs, n = s.prompts[p].last, NEW err
  PROVE  SessionFits(Finished(s, p, n, err))
<1>1. CASE err = "ok"
  BY <1>1 DEF Finished
<1>2. CASE err # "ok"
  <2> DEFINE c == Closed(s, {p})  new == Outcome(s.prompts[p].state[n], err)
  <2>1. /\ c \in Session /\ SessionFits(c) /\ Unfinished(c, p) /\ n = c.prompts[p].last
        /\ c.create = s.create /\ c.prompts[p].state = s.prompts[p].state
    BY ClosedTyped, ClosedFits, ClosedIs DEF Unfinished
  <2>2. new \in InvocationStates /\ MayBecome(c, c.prompts[p].state[n], new)
    BY <2>1, OutcomeMayBe DEF MayBecome
  <2>3. SessionFits(Mark(c, p, n, new))
    BY <2>1, <2>2, ProgressFits
  <2>4. QED
    BY <1>2, <2>3 DEF Finished, Outcome
<1>3. QED
  BY <1>1, <1>2

(* The creation state moves between none, intent and known with its id; an *)
(* intent is the current prompt's.                                         *)
LEMMA WithCreateFits ==
  ASSUME NEW s \in Session, SessionFits(s), ~s.retired, s.create \in {"none", "intent"},
         NEW st \in {"none", "intent", "known"}, NEW id \in 0..MaxCreates,
         st = "none" <=> id = 0,
         st = "intent" =>
           s.current # None /\ Pending(s.prompts[s.current]) /\ ~s.prompts[s.current].settled
  PROVE  WithCreate(s, st, id) \in Session /\ SessionFits(WithCreate(s, st, id))
<1>1. WithCreate(s, st, id) \in Session
  BY DEF WithCreate, Session, CreateStates
<1>2. /\ WithCreate(s, st, id).prompts = s.prompts /\ WithCreate(s, st, id).current = s.current
      /\ WithCreate(s, st, id).create = st /\ WithCreate(s, st, id).remote = id
      /\ WithCreate(s, st, id).retiring = s.retiring /\ WithCreate(s, st, id).retired = s.retired
  BY DEF WithCreate, Session
<1>3. PromptsFit(WithCreate(s, st, id))
  BY <1>2 DEF SessionFits, PromptsFit
<1>4. CreateFits(WithCreate(s, st, id))
  BY <1>2 DEF SessionFits, CreateFits
<1>5. KeysFit(WithCreate(s, st, id))
  BY <1>2 DEF SessionFits, KeysFit
<1>6. QED
  BY <1>1, <1>2, <1>3, <1>4, <1>5 DEF SessionFits

(* Settlement resolves every invocation of the prompts it settles.         *)
LEMMA SettlementIs ==
  ASSUME NEW s \in Session, NEW P
  PROVE  LET t == Settlement(s, P) IN
         /\ t.current = s.current /\ t.create = s.create /\ t.remote = s.remote
         /\ t.retiring = s.retiring /\ t.retired = s.retired
         /\ \A p \in Prompts :
              /\ t.prompts[p].present = s.prompts[p].present
              /\ t.prompts[p].closing = s.prompts[p].closing
              /\ t.prompts[p].last = s.prompts[p].last
              /\ \A n \in Seqs :
                   t.prompts[p].state[n] = "absent" <=> s.prompts[p].state[n] = "absent"
              /\ t.prompts[p].link = s.prompts[p].link
              /\ t.prompts[p].alias = s.prompts[p].alias
              /\ t.prompts[p].generation = s.prompts[p].generation
              /\ t.prompts[p].expires = s.prompts[p].expires
              /\ t.prompts[p].identity = s.prompts[p].identity
              /\ p \notin P => t.prompts[p] = s.prompts[p]
              /\ p \in P => /\ t.prompts[p].settled
                            /\ \A n \in Seqs :
                                 LET st == s.prompts[p].state[n] IN
                                 t.prompts[p].state[n] =
                                   IF st \in {"absent", "completed"} THEN st ELSE "settled"
BY DEF Settlement, Session, Prompt, Resolved

(* So the settlement of closing prompts keeps the session fit.             *)
LEMMA SettlementFits ==
  ASSUME NEW s \in Session, SessionFits(s), s.create # "intent", NEW P,
         \A p \in Prompts : p \in P => s.prompts[p].present /\ s.prompts[p].closing
  PROVE  SessionFits(Settlement(s, P))
<1> DEFINE t == Settlement(s, P)
<1>1. PromptsFit(t)
  <2>1. \A p \in Prompts : ~t.prompts[p].present => t.prompts[p] = s.prompts[p]
    BY SettlementIs
  <2>2. \A p \in Prompts : ~t.prompts[p].present => Blank(t.prompts[p])
    BY <2>1, SettlementIs DEF SessionFits, PromptsFit
  <2>3. \A p \in Prompts : t.prompts[p].present => t.current # None
    BY SettlementIs DEF SessionFits, PromptsFit
  <2>4. \A p \in Prompts : t.prompts[p].present /\ ~t.prompts[p].settled => p = t.current
    BY SettlementIs DEF SessionFits, PromptsFit
  <2>5. \A p \in Prompts, n \in Seqs :
          t.prompts[p].settled => t.prompts[p].state[n] \in Resolved
    BY SettlementIs DEF SessionFits, PromptsFit, Resolved
  <2>6. \A p \in Prompts, n \in Seqs :
          t.prompts[p].last < n => t.prompts[p].state[n] = "absent"
    BY SettlementIs DEF SessionFits, PromptsFit
  <2>7. QED
    BY <2>2, <2>3, <2>4, <2>5, <2>6 DEF PromptsFit
<1>2. CreateFits(t)
  BY SettlementIs DEF SessionFits, CreateFits
<1>3. KeysFit(t)
  <2>1. s.current \in Prompts \cup {None}
    BY DEF Session
  <2>2. QED
    BY <2>1, SettlementIs DEF SessionFits, KeysFit
<1>4. ASSUME NEW p \in Prompts
      PROVE  PromptSound(t.prompts[p])
  <2>1. CASE p \notin P
    BY <2>1, SettlementIs DEF SessionFits
  <2>2. CASE p \in P
    <3> DEFINE q == s.prompts[p]  u == t.prompts[p]
    <3>1. /\ u.present = q.present /\ u.closing = q.closing /\ u.last = q.last /\ u.settled
          /\ u.link = q.link /\ u.alias = q.alias /\ u.generation = q.generation
          /\ \A n \in Seqs : u.state[n] = IF q.state[n] \in {"absent", "completed"}
                                            THEN q.state[n] ELSE "settled"
          /\ PromptSound(q) /\ q.present /\ q.closing
      BY <2>2, SettlementIs DEF SessionFits
    <3>2. q.last \in 0..MaxSeq /\ q.alias \in 0..MaxSeq /\ \A n \in Seqs : q.state[n] \in InvocationStates
      BY DEF Session, Prompt
    <3> HIDE DEF q, u
    <3>3. \A n \in Seqs : InvocationValid(u, n)
      BY <3>1, <3>2 DEF InvocationValid, PromptSound, InvocationStates
    <3>4. /\ u.last # 0 => u.last \in Seqs
          /\ u.alias # 0 => u.alias \in Seqs
      BY <3>1, <3>2, BoundsAssumption DEF Seqs
    <3>5. PromptSound(u)
      BY <3>1, <3>3, <3>4 DEF PromptSound
    <3>6. QED
      BY <3>5 DEF u
  <2>3. QED
    BY <2>1, <2>2
<1>5. \A p \in Prompts : LeaseSound(t.prompts[p])
  BY SettlementIs DEF SessionFits, LeaseSound, LeaseValid
<1>6. QED
  BY <1>1, <1>2, <1>3, <1>4, <1>5 DEF SessionFits

(* A retiring owner all of whose prompts are settled may retire.           *)
LEMMA RetiredFits ==
  ASSUME NEW s \in Session, SessionFits(s), s.retiring, s.create \in {"none", "known"},
         \A p \in Prompts : s.prompts[p].present => s.prompts[p].settled
  PROVE  SessionFits(Retired(s, s.create))
<1>1. PromptsFit(Retired(s, s.create))
  BY DEF SessionFits, PromptsFit, Retired, Session
<1>2. CreateFits(Retired(s, s.create))
  BY DEF SessionFits, CreateFits, Retired, Session
<1>3. KeysFit(Retired(s, s.create))
  BY DEF SessionFits, KeysFit, Retired, Session
<1>4. Retired(s, s.create).prompts = s.prompts
  BY DEF Retired, Session
<1>5. QED
  BY <1>1, <1>2, <1>3, <1>4 DEF SessionFits

-----------------------------------------------------------------------------
(* Type correctness.                                                       *)

(* An absent goroutine and an absent worker are typed.                     *)
LEMMA BlankTyped == Idle \in Call /\ NoWorker \in Worker
BY DEF Call, Worker

(* The initial state is typed.                                             *)
LEMMA InitTyped == Init => TypeOK
<1>1. SUFFICES ASSUME Init PROVE TypeOK
  OBVIOUS
<1>2. ledger \in [Owners -> Session] /\ disk \in [Owners -> Session]
  BY <1>1, EmptyTyped DEF Init
<1>3. QED
  BY <1>1, <1>2, BlankTyped, BoundsAssumption, BootAssumption
  DEF Init, TypeOK, Lives, Times, ZeroTime, SessionStates, WireStates

(* A commit, durable or lost, leaves the ledger and the file typed.        *)
LEMMA CommitTyped ==
  ASSUME TypeOK, NEW next \in [Owners -> Session], Save(next) \/ Lose(next)
  PROVE  life' \in Lives /\ ledger' \in [Owners -> Session] /\ disk' \in [Owners -> Session]
BY DEF TypeOK, Save, Lose, Lives

(* Replacing one owner's session keeps the ledger typed.                   *)
LEMMA WithTyped ==
  ASSUME TypeOK, NEW o \in Owners, NEW s \in Session
  PROVE  With(o, s) \in [Owners -> Session]
BY DEF TypeOK, With

(* brokerEnsurePrompt keeps the session typed.                             *)
LEMMA EnsureTyped ==
  ASSUME NEW s \in Session, NEW p \in Prompts, NEW g \in 0..MaxGeneration, NEW e \in Times
  PROVE  EnsurePrompt(s, p, g, e) \in Session
BY OpenedTyped DEF EnsurePrompt

(* A renewal keeps the session typed.                                      *)
LEMMA RenewedTyped ==
  ASSUME NEW s \in Session, NEW p \in Prompts, NEW g \in 0..MaxGeneration, NEW e \in Times
  PROVE  Renewed(s, p, g, e) \in Session
<1>1. [s.prompts[p] EXCEPT !.generation = g, !.expires = e] \in Prompt
  BY ZenonT(30) DEF Session, Prompt
<1>2. [s EXCEPT !.prompts[p] = [@ EXCEPT !.generation = g, !.expires = e]] \in Session
  BY <1>1, PromptWritten
<1>3. QED
  BY <1>2, OpenedTyped DEF Renewed

(* A cancelled call is typed.                                              *)
LEMMA CancelledTyped == \A a \in Call : Cancelled(a) \in Call
<1>1. \A a \in LiveCall : [a EXCEPT !.cancelled = TRUE] \in LiveCall
  BY DEF LiveCall
<1>2. Cancelled(Idle) = Idle
  BY DEF Cancelled, Idle
<1>3. \A a \in LiveCall : Cancelled(a) \in LiveCall
  BY <1>1 DEF Cancelled
<1>4. QED
  BY <1>2, <1>3 DEF Call

(* What the goroutine of an invocation and a cancellation write is typed.  *)
LEMMA CallTyped ==
  ASSUME TypeOK, NEW o \in Owners
  PROVE  /\ act[o].pc # "idle" => act[o] \in LiveCall
         /\ \A pc \in Steps : Goto(o, pc) /\ act[o].pc # "idle" => act' \in [Owners -> Call]
         /\ \A err \in Errors : Fails(o, err) /\ act[o].pc # "idle" => act' \in [Owners -> Call]
         /\ \A cond \in BOOLEAN : CancelIf(o, cond) => act' \in [Owners -> Call]
<1>0. act[o] \in Call /\ (act[o].pc # "idle" => act[o] \in LiveCall)
  BY DEF TypeOK, Call, Idle
<1>1. ASSUME NEW pc \in Steps, Goto(o, pc), act[o].pc # "idle"
      PROVE  act' \in [Owners -> Call]
  <2>1. [act[o] EXCEPT !.pc = pc] \in LiveCall
    BY <1>0, <1>1 DEF LiveCall
  <2>2. QED
    BY <1>1, <2>1 DEF TypeOK, Goto, Call
<1>2. ASSUME NEW err \in Errors, Fails(o, err), act[o].pc # "idle"
      PROVE  act' \in [Owners -> Call]
  <2>1. [act[o] EXCEPT !.pc = "finish", !.error = err] \in LiveCall
    BY <1>0, <1>2 DEF LiveCall, Steps
  <2>2. QED
    BY <1>2, <2>1 DEF TypeOK, Fails, Call
<1>3. ASSUME NEW cond \in BOOLEAN, CancelIf(o, cond)
      PROVE  act' \in [Owners -> Call]
  BY <1>0, <1>3, CancelledTyped DEF TypeOK, CancelIf
<1>4. QED
  BY <1>0, <1>1, <1>2, <1>3

(* One commit to the session of o.                                         *)
LEMMA StoreTyped ==
  ASSUME TypeOK, NEW o \in Owners, NEW s \in Session, Save(With(o, s)) \/ Lose(With(o, s))
  PROVE  life' \in Lives /\ ledger' \in [Owners -> Session] /\ disk' \in [Owners -> Session]
BY WithTyped, CommitTyped

(* A granted lease is within the bounds.                                   *)
LEMMA GrantsTyped ==
  ASSUME NEW ge \in Grants
  PROVE  ge[1] \in 1..MaxGeneration /\ ge[1] \in 0..MaxGeneration /\ ge[2] \in Times
BY BoundsAssumption DEF Grants

(* The supervisor's requests and the child's.                              *)
LEMMA RequestsTyped ==
  ASSUME TypeOK, NEW o \in Owners, Requests(o)
  PROVE  TypeOK'
<1>0. ledger[o] \in Session
  BY DEF TypeOK
<1>1. ASSUME NEW p \in Prompts, NEW ge \in Grants, Renew(o, p, ge[1], ge[2])
      PROVE  TypeOK'
  <2>1. Renewed(ledger[o], p, ge[1], ge[2]) \in Session
    BY <1>0, GrantsTyped, RenewedTyped
  <2>2. QED
    BY <1>1, <2>1, StoreTyped DEF TypeOK, Renew, provider
<1>2. ASSUME NEW p \in Prompts, NEW g \in 1..MaxGeneration, NEW e \in Times, Settle(o, p, g, e)
      PROVE  TypeOK'
  <2> DEFINE s == Closed(EnsurePrompt(ledger[o], p, g, e), {p})
  <2>1. s \in Session
    BY <1>0, EnsureTyped, ClosedTyped, BoundsAssumption
  <2>2. Save(With(o, s)) \/ Lose(With(o, s))
    BY <1>2 DEF Settle
  <2>3. CancelIf(o, act[o].prompt = p) \/ UNCHANGED act
    BY <1>2 DEF Settle
  <2>4. act' \in [Owners -> Call]
    BY <2>3, CallTyped DEF TypeOK
  <2>5. QED
    BY <1>2, <2>1, <2>2, <2>4, StoreTyped DEF TypeOK, Settle, provider
<1>3. ASSUME Retire(o)
      PROVE  TypeOK'
  <2>1. Retirement(ledger[o]) \in Session
    BY <1>0, RetirementTyped
  <2>2. CancelIf(o, TRUE) \/ UNCHANGED act
    BY <1>3 DEF Retire
  <2>3. act' \in [Owners -> Call]
    BY <2>2, CallTyped DEF TypeOK
  <2>4. QED
    BY <1>3, <2>1, <2>3, StoreTyped DEF TypeOK, Retire, provider
<1>4. ASSUME NEW p \in Prompts, ClosePrompt(o, p)
      PROVE  TypeOK'
  <2>1. Closed(ledger[o], {p}) \in Session
    BY <1>0, ClosedTyped
  <2>2. CancelIf(o, act[o].prompt = p) \/ UNCHANGED act
    BY <1>4 DEF ClosePrompt
  <2>3. act' \in [Owners -> Call]
    BY <2>2, CallTyped DEF TypeOK
  <2>4. QED
    BY <1>4, <2>1, <2>3, StoreTyped DEF TypeOK, ClosePrompt, provider
<1>5. ASSUME NEW p \in Prompts, NEW ge \in Grants, NEW n \in Seqs, NEW prev \in Refs \cup {None},
             Reserve(o, p, ge[1], ge[2], n, prev)
      PROVE  TypeOK'
  <2> DEFINE r == Reservation(EnsurePrompt(ledger[o], p, ge[1], ge[2]), p, n)
             new == [Idle EXCEPT !.pc = "start", !.prompt = p, !.seq = n, !.previous = prev]
  <2>1. r \in Session
    BY <1>0, GrantsTyped, EnsureTyped, ProgressTyped
  <2>2. Save(With(o, r)) \/ Lose(With(o, r))
    BY <1>5 DEF Reserve
  <2>3. new \in Call
    BY DEF Call, LiveCall, Idle, Steps, Errors
  <2>4. act' \in [Owners -> Call]
    BY <1>5, <2>3 DEF TypeOK, Reserve
  <2>5. QED
    BY <1>5, <2>1, <2>2, <2>4, StoreTyped DEF TypeOK, Reserve, provider
<1>6. QED
  BY <1>1, <1>2, <1>3, <1>4, <1>5 DEF Requests

(* The steps of an invocation.                                             *)
LEMMA InvocationTyped ==
  ASSUME TypeOK, NEW o \in Owners, Invocation(o)
  PROVE  TypeOK'
<1> DEFINE p == act[o].prompt  n == act[o].seq
<1>0. /\ ledger[o] \in Session /\ act[o] \in Call
      /\ \A x \in Session : x.remote \in 0..MaxCreates
      /\ act[o].pc # "idle" => p \in Prompts /\ n \in Seqs
  BY CallTyped DEF TypeOK, Session, LiveCall
<1>a. ASSUME NEW st \in CreateStates, NEW id \in 0..MaxCreates
      PROVE  WithCreate(ledger[o], st, id) \in Session
  BY <1>0 DEF WithCreate, Session
<1>1. ASSUME CreateIntent(o)
      PROVE  TypeOK'
  <2>1. PICK id \in Ids :
          \/ Save(With(o, WithCreate(ledger[o], "intent", id))) /\ Goto(o, "createReady")
          \/ Lose(With(o, WithCreate(ledger[o], "intent", id))) /\ UNCHANGED act
    BY <1>1 DEF CreateIntent
  <2>2. WithCreate(ledger[o], "intent", id) \in Session
    BY <1>a, BoundsAssumption DEF CreateStates, Ids
  <2>3. act' \in [Owners -> Call]
    BY <1>1, <2>1, CallTyped DEF TypeOK, CreateIntent, Steps
  <2>4. QED
    BY <1>1, <2>1, <2>2, <2>3, StoreTyped DEF TypeOK, CreateIntent, provider
<1>2. ASSUME SendCreate(o)
      PROVE  TypeOK'
  <2>1. act' \in [Owners -> Call]
    BY <1>2, CallTyped DEF TypeOK, SendCreate, Steps
  <2>2. remote' \in [Owners -> [Ids -> SessionStates]]
    BY <1>2 DEF TypeOK, SendCreate, SessionStates
  <2>3. QED
    BY <1>2, <2>1, <2>2 DEF TypeOK, SendCreate
<1>3. ASSUME CreateDisproved(o)
      PROVE  TypeOK'
  <2>1. WithCreate(ledger[o], "none", 0) \in Session
    BY <1>a, BoundsAssumption DEF CreateStates
  <2>2. act' \in [Owners -> Call]
    BY <1>3, CallTyped DEF TypeOK, CreateDisproved, NotCreated, Steps, Errors
  <2>3. QED
    BY <1>3, <2>1, <2>2, StoreTyped DEF TypeOK, CreateDisproved, provider
<1>4. ASSUME CreateAcknowledged(o)
      PROVE  TypeOK'
  <2>1. WithCreate(ledger[o], "known", ledger[o].remote) \in Session
    BY <1>0, <1>a DEF CreateStates
  <2>2. act' \in [Owners -> Call]
    BY <1>4, CallTyped DEF TypeOK, CreateAcknowledged, Steps, Errors
  <2>3. QED
    BY <1>4, <2>1, <2>2, StoreTyped DEF TypeOK, CreateAcknowledged, provider
<1>5. ASSUME InferenceIntent(o)
      PROVE  TypeOK'
  <2>1. Mark(ledger[o], p, n, "intent") \in Session
    BY <1>5, <1>0, ProgressTyped DEF InferenceIntent, InvocationStates, LinkStates
  <2>2. act' \in [Owners -> Call]
    BY <1>5, CallTyped DEF TypeOK, InferenceIntent, Steps, Errors
  <2>3. QED
    BY <1>5, <2>1, <2>2, StoreTyped DEF TypeOK, InferenceIntent, provider
<1>6. ASSUME SendInference(o)
      PROVE  TypeOK'
  <2>1. act' \in [Owners -> Call]
    BY <1>6, CallTyped DEF TypeOK, SendInference, Steps
  <2>2. wire' \in [Owners -> [Prompts -> [Seqs -> WireStates]]]
    BY <1>6 DEF TypeOK, SendInference, WireStates
  <2>3. act[o].previous \in Refs \cup {None}
    BY <1>6, CallTyped DEF SendInference, LiveCall
  <2>4. answered' \in [Owners -> SUBSET Refs]
    BY <1>6, <2>3 DEF TypeOK, SendInference, AnswersCalls
  <2>5. QED
    BY <1>6, <2>1, <2>2, <2>4 DEF TypeOK, SendInference
<1>7. ASSUME InferenceRejected(o)
      PROVE  TypeOK'
  <2>1. Mark(ledger[o], p, n, "rejected") \in Session
    BY <1>7, <1>0, ProgressTyped DEF InferenceRejected, InvocationStates, LinkStates
  <2>2. act' \in [Owners -> Call]
    BY <1>7, CallTyped DEF TypeOK, InferenceRejected, Steps, Errors
  <2>3. QED
    BY <1>7, <2>1, <2>2, StoreTyped DEF TypeOK, InferenceRejected, provider
<1>8. ASSUME InferenceAccepted(o)
      PROVE  TypeOK'
  <2>1. Accepted(ledger[o], p, n) \in Session
    BY <1>8, <1>0, ProgressTyped DEF InferenceAccepted, InvocationStates, LinkStates
  <2>2. act' \in [Owners -> Call]
    BY <1>8, CallTyped DEF TypeOK, InferenceAccepted, Steps, Errors
  <2>3. QED
    BY <1>8, <2>1, <2>2, StoreTyped DEF TypeOK, InferenceAccepted, provider
<1>9. ASSUME InferenceCompleted(o)
      PROVE  TypeOK'
  <2>1. \A kind \in {"text", "calls"} : Completed(ledger[o], p, n, kind) \in Session
    BY <1>9, <1>0, ProgressTyped DEF InferenceCompleted, InvocationStates, LinkStates
  <2>2. act' \in [Owners -> Call]
    BY <1>9, CallTyped DEF TypeOK, InferenceCompleted, Steps, Errors
  <2>3. QED
    BY <1>9, <2>1, <2>2, StoreTyped DEF TypeOK, InferenceCompleted, provider
<1>10. ASSUME InvokeFails(o)
      PROVE  TypeOK'
  <2>1. act' \in [Owners -> Call]
    BY <1>10, CallTyped DEF TypeOK, InvokeFails, Errors
  <2>2. QED
    BY <1>10, <2>1 DEF TypeOK, InvokeFails, provider
<1>11. ASSUME Finish(o)
      PROVE  TypeOK'
  <2> DEFINE s == Finished(ledger[o], p, n, act[o].error)
  <2>1. s \in Session
    BY <1>0, <1>11, FinishedTyped DEF Finish
  <2>2. act' \in [Owners -> Call]
    BY <1>11, BlankTyped DEF TypeOK, Finish
  <2>3. Save(With(o, s)) \/ Lose(With(o, s)) \/ UNCHANGED <<life, ledger, disk>>
    BY <1>11 DEF Finish
  <2>4. life' \in Lives /\ ledger' \in [Owners -> Session] /\ disk' \in [Owners -> Session]
    BY <2>1, <2>3, StoreTyped DEF TypeOK
  <2>5. QED
    BY <1>11, <2>2, <2>4 DEF TypeOK, Finish, provider
<1>12. QED
  BY <1>1, <1>2, <1>3, <1>4, <1>5, <1>6, <1>7, <1>8, <1>9, <1>10, <1>11 DEF Invocation

(* Cleanup.                                                                *)
LEMMA CleanupTyped ==
  ASSUME TypeOK, NEW o \in Owners, Cleanup(o)
  PROVE  TypeOK'
<1>0. /\ ledger[o] \in Session
      /\ wk[o].pc # "idle" => wk[o] \in LiveWorker
  BY DEF TypeOK, Worker, NoWorker
<1>a. ASSUME NEW pc \in Phases, WorkerGoes(o, pc), wk[o].pc # "idle"
      PROVE  wk' \in [Owners -> Worker]
  <2>1. [wk[o] EXCEPT !.pc = pc] \in LiveWorker
    BY <1>0, <1>a DEF LiveWorker
  <2>2. QED
    BY <1>a, <2>1 DEF TypeOK, WorkerGoes, Worker
<1>b. WorkerEnds(o) => wk' \in [Owners -> Worker]
  BY BlankTyped DEF TypeOK, WorkerEnds
<1>1. ASSUME Reconcile(o)
      PROVE  TypeOK'
  <2> DEFINE s == ledger[o]
             new == [pc |-> CleanupPhase(s), closing |-> Unsettled(s), retiring |-> s.retiring,
                     ambiguous |-> Ambiguous(s), create |-> s.create]
  <2>1. CleanupPhase(s) \in Phases
    BY DEF CleanupPhase, Phases
  <2>2. Unsettled(s) \in SUBSET Prompts /\ Ambiguous(s) \in BOOLEAN
    BY DEF Unsettled, Ambiguous
  <2>3. new \in LiveWorker
    BY <1>0, <2>1, <2>2 DEF LiveWorker, Session
  <2>4. QED
    BY <1>1, <2>3 DEF TypeOK, Reconcile, Worker, provider
<1>2. ASSUME StopSession(o)
      PROVE  TypeOK'
  <2>1. wk' \in [Owners -> Worker]
    BY <1>2, <1>a DEF StopSession, Phases
  <2>2. remote' \in [Owners -> [Ids -> SessionStates]]
    BY <1>2 DEF TypeOK, StopSession, SessionStates
  <2>3. QED
    BY <1>2, <2>1, <2>2 DEF TypeOK, StopSession
<1>3. ASSUME StopProved(o)
      PROVE  TypeOK'
  BY <1>3, <1>a DEF TypeOK, StopProved, Phases, provider
<1>4. ASSUME DeleteSession(o)
      PROVE  TypeOK'
  <2>1. wk' \in [Owners -> Worker]
    BY <1>4, <1>a DEF DeleteSession, Phases
  <2>2. remote' \in [Owners -> [Ids -> SessionStates]]
    BY <1>4 DEF TypeOK, DeleteSession, SessionStates
  <2>3. wire' \in [Owners -> [Prompts -> [Seqs -> WireStates]]]
    BY <1>4 DEF TypeOK, DeleteSession, WireStates
  <2>4. QED
    BY <1>4, <2>1, <2>2, <2>3 DEF TypeOK, DeleteSession
<1>5. ASSUME DeleteProved(o)
      PROVE  TypeOK'
  BY <1>5, <1>a DEF TypeOK, DeleteProved, Phases, provider
<1>6. ASSUME WorkerFails(o)
      PROVE  TypeOK'
  BY <1>6, <1>b DEF TypeOK, WorkerFails, provider
<1>7. ASSUME Prove(o)
      PROVE  TypeOK'
  <2>1. Proved(o) \in Session
    BY <1>0, SettlementTyped DEF Proved
  <2>2. QED
    BY <1>7, <1>b, <2>1, StoreTyped DEF TypeOK, Prove, provider
<1>8. QED
  BY <1>1, <1>2, <1>3, <1>4, <1>5, <1>6, <1>7 DEF Cleanup

(* The provider writes one session or one request, or ends the running     *)
(* requests of an owner.                                                   *)
LEMMA ProviderWrites ==
  ASSUME TypeOK, NEW o \in Owners
  PROVE  /\ \A id \in Ids, st \in SessionStates :
              [remote EXCEPT ![o][id] = st] \in [Owners -> [Ids -> SessionStates]]
         /\ \A p \in Prompts, n \in Seqs, st \in WireStates :
              [wire EXCEPT ![o][p][n] = st] \in [Owners -> [Prompts -> [Seqs -> WireStates]]]
         /\ [wire EXCEPT ![o] = [p \in Prompts |-> [n \in Seqs |->
               IF @[p][n] = "running" THEN "ended" ELSE @[p][n]]]]
               \in [Owners -> [Prompts -> [Seqs -> WireStates]]]
<1>1. /\ remote \in [Owners -> [Ids -> SessionStates]]
      /\ wire \in [Owners -> [Prompts -> [Seqs -> WireStates]]]
  BY DEF TypeOK
<1>2. \A id \in Ids, st \in SessionStates : [remote[o] EXCEPT ![id] = st] \in [Ids -> SessionStates]
  BY <1>1
<1>3. \A p \in Prompts, n \in Seqs, st \in WireStates :
        [wire[o][p] EXCEPT ![n] = st] \in [Seqs -> WireStates]
  BY <1>1
<1>4. \A p \in Prompts, n \in Seqs : wire[o][p][n] \in WireStates
  BY <1>1
<1>5. "ended" \in WireStates
  BY DEF WireStates
<1>6. QED
  BY <1>1, <1>2, <1>3, <1>4, <1>5

(* The steps of the provider.                                              *)
LEMMA ProviderTyped ==
  ASSUME TypeOK, NEW o \in Owners, Provider(o)
  PROVE  TypeOK'
<1>1. ASSUME NEW id \in Ids, CreateLands(o, id)
      PROVE  TypeOK'
  <2>1. remote' \in [Owners -> [Ids -> SessionStates]]
    BY <1>1, ProviderWrites DEF CreateLands, SessionStates
  <2>2. QED
    BY <1>1, <2>1 DEF TypeOK, CreateLands
<1>2. ASSUME NEW id \in Ids, SessionIdles(o, id)
      PROVE  TypeOK'
  <2>1. remote' \in [Owners -> [Ids -> SessionStates]]
    BY <1>2, ProviderWrites DEF SessionIdles, SessionStates
  <2>2. wire' \in [Owners -> [Prompts -> [Seqs -> WireStates]]]
    BY <1>2, ProviderWrites DEF SessionIdles
  <2>3. QED
    BY <1>2, <2>1, <2>2 DEF TypeOK, SessionIdles
<1>3. ASSUME NEW p \in Prompts, NEW n \in Seqs, InferenceLands(o, p, n)
      PROVE  TypeOK'
  <2>1. PICK id \in Ids : remote[o][id] \in Live /\
          remote' = [remote EXCEPT ![o][id] = IF @ = "idle" THEN "active" ELSE @]
    BY <1>3 DEF InferenceLands
  <2>2. remote' \in [Owners -> [Ids -> SessionStates]]
    BY <2>1, ProviderWrites DEF Live, SessionStates
  <2>3. wire' \in [Owners -> [Prompts -> [Seqs -> WireStates]]]
    BY <1>3, ProviderWrites DEF InferenceLands, WireStates
  <2>4. QED
    BY <1>3, <2>2, <2>3 DEF TypeOK, InferenceLands
<1>4. ASSUME NEW p \in Prompts, NEW n \in Seqs, InferenceRefused(o, p, n) \/ ResponseEnds(o, p, n)
      PROVE  TypeOK'
  <2>0. \E st \in WireStates : wire' = [wire EXCEPT ![o][p][n] = st]
    BY <1>4 DEF InferenceRefused, ResponseEnds, WireStates
  <2>1. wire' \in [Owners -> [Prompts -> [Seqs -> WireStates]]]
    BY <2>0, ProviderWrites
  <2>2. QED
    BY <1>4, <2>1 DEF TypeOK, InferenceRefused, ResponseEnds
<1>5. QED
  BY <1>1, <1>2, <1>3, <1>4 DEF Provider

(* The process as a whole.                                                 *)
LEMMA ProcessTyped ==
  ASSUME TypeOK, Process
  PROVE  TypeOK'
<1>1. CASE Tick
  BY <1>1, BoundsAssumption DEF TypeOK, Tick, Times, ZeroTime, provider
<1>2. CASE Sweep
  <2> DEFINE next == [o \in Owners |-> Closed(ledger[o], Expired(ledger[o]))]
  <2>1. next \in [Owners -> Session]
    BY ClosedTyped DEF TypeOK
  <2>2. Save(next) \/ Lose(next)
    BY <1>2 DEF Sweep
  <2>3. \A o \in Owners : Cancelled(act[o]) \in Call
    BY CancelledTyped DEF TypeOK
  <2>4. act' \in [Owners -> Call]
    BY <1>2, <2>3 DEF TypeOK, Sweep
  <2>5. QED
    BY <1>2, <2>1, <2>2, <2>4, CommitTyped DEF TypeOK, Sweep, provider
<1>3. CASE StorageFails
  BY <1>3, CommitTyped DEF TypeOK, StorageFails, provider
<1>4. CASE Shutdown
  BY <1>4 DEF TypeOK, Shutdown, Lives, provider
<1>5. CASE Stop
  BY <1>5, BlankTyped DEF TypeOK, Stop, Lives, provider
<1>6. CASE Restart
  <2>1. Recovered(disk) \in [Owners -> Session]
    BY ClosedTyped DEF TypeOK, Recovered
  <2>2. boots' \in 0..MaxBoots
    BY <1>6, BootAssumption DEF TypeOK, Restart
  <2>3. QED
    BY <1>6, <2>1, <2>2 DEF TypeOK, Restart, Lives, provider
<1>7. QED
  BY <1>1, <1>2, <1>3, <1>4, <1>5, <1>6 DEF Process

(* Every step keeps the state typed.                                       *)
LEMMA NextTyped ==
  ASSUME TypeOK, [Next]_vars
  PROVE  TypeOK'
<1>1. CASE UNCHANGED vars
  BY <1>1 DEF vars, TypeOK
<1>2. CASE Next
  BY <1>2, RequestsTyped, InvocationTyped, CleanupTyped, ProviderTyped, ProcessTyped DEF Next
<1>3. QED
  BY <1>1, <1>2

(* Every reachable state is typed, for every set of owners and prompts and *)
(* every bound (TypeOK).                                                   *)
THEOREM Typed == Spec => []TypeOK
<1>1. QED
  BY InitTyped, NextTyped, PTL DEF Spec

-----------------------------------------------------------------------------
(* The inductive invariant.  It is stated per owner, over the values the   *)
(* owner's variables have: s a session record (of the ledger or the file), *)
(* v its requests (wire), r its provider sessions (remote), a its live     *)
(* call (act) and k its cleanup worker (wk).                               *)

Possible == Live \cup {"creating"}

(* A request that may run is backed by an invocation's record, and none is *)
(* sent before the session is known or the sequence is reserved.           *)
StateFits(st, w) ==
  /\ w = "flying" => st \in {"intent", "uncertain"}
  /\ w = "running" => st \in {"intent", "uncertain", "accepted"}
  /\ st = "absent" => w = "unsent"

WireFits(s, v) ==
  /\ \A p \in Prompts, n \in Seqs : StateFits(s.prompts[p].state[n], v[p][n])
  /\ s.create \in {"none", "intent"} =>
       \A p \in Prompts, n \in Seqs : v[p][n] = "unsent"

(* A provider session that may exist is the one the record names, and one  *)
(* that is known has been created.                                         *)
RemoteFits(s, r) ==
  /\ \A id \in Ids : r[id] \in Possible => s.remote = id /\ s.create \in {"intent", "known"}
  /\ s.create = "known" => r[s.remote] \in Live \cup {"deleted"}

RecordOK(s, v, r) == SessionFits(s) /\ WireFits(s, v) /\ RemoteFits(s, r)

(* A session that is idle runs nothing.                                    *)
ProviderOK(v, r) ==
  \A id \in Ids, p \in Prompts, n \in Seqs : r[id] = "idle" => v[p][n] # "running"

(* The step of a live call tells the state of its invocation, of its       *)
(* request and of the session's creation; its prompt is not settled, and   *)
(* once that prompt is closed the call is cancelled.                       *)
CallSteps(pc, err, st, w, create) ==
  /\ pc \in {"start", "createReady", "creating"} => st = "reserved" /\ w = "unsent"
  /\ pc = "start" => create # "intent"
  /\ pc \in {"createReady", "creating"} => create = "intent"
  /\ pc \in {"ready", "waiting", "accepted"} => create = "known"
  /\ pc = "ready" => st = "intent" /\ w = "unsent"
  /\ pc = "waiting" => st = "intent" /\ w # "unsent"
  /\ pc = "accepted" => st = "accepted" /\ w \in {"running", "completed", "ended"}
  /\ pc = "finish" /\ err # "ambiguous" /\ st = "intent" => w \in {"unsent", "refused"}
  /\ pc = "finish" /\ err = "ok" => st = "completed"

CallOK(s, a, v, r) ==
  a.pc # "idle" =>
    /\ Unfinished(s, a.prompt) /\ ~s.retired
    /\ s.prompts[a.prompt].last = a.seq
    /\ s.retiring \/ s.prompts[a.prompt].closing <=> a.cancelled
    /\ CallSteps(a.pc, a.error, s.prompts[a.prompt].state[a.seq], v[a.prompt][a.seq], s.create)
    /\ a.pc = "createReady" => r[s.remote] = "unused"
    /\ a.pc = "creating" => r[s.remote] # "unused"

(* A worker is alone, what it captured still holds, no request of its      *)
(* owner is unanswered unless it knows of the ambiguity, and when it goes  *)
(* to prove, the requests it settles are over.                             *)
WorkerOK(s, a, k, v, r) ==
  k.pc # "idle" =>
    /\ a.pc = "idle" /\ ~s.retired
    /\ k.create = s.create /\ k.create \in {"none", "known"}
    /\ k.retiring => s.retiring
    /\ \A p \in k.closing : s.prompts[p].present /\ s.prompts[p].closing
    /\ s.retiring \/ (/\ s.current \in Prompts
                      /\ s.prompts[s.current].closing /\ Unfinished(s, s.current))
    /\ ~k.ambiguous => \A p \in Prompts, n \in Seqs : v[p][n] # "flying"
    /\ k.pc \in {"stop", "poll"} => k.create = "known" /\ (k.retiring => k.ambiguous)
    /\ k.pc \in {"delete", "confirm"} => k.create = "known" /\ k.retiring /\ ~k.ambiguous
    /\ k.pc = "confirm" => \A p \in Prompts, n \in Seqs : v[p][n] # "running"
    /\ k.pc = "prove" /\ ~k.ambiguous =>
         /\ \A p \in k.closing, n \in Seqs : v[p][n] \notin Outstanding
         /\ k.retiring /\ k.create = "known" => r[s.remote] = "deleted"

(* In an open prompt every invocation but the live call's is completed, and*)
(* a call that is about to answer the calls of a response answers those of *)
(* the last completed one.                                                 *)
Early == {"start", "createReady", "creating", "ready"}

AnswersCallsOf(s, prev) == prev # None /\ s.prompts[prev[1]].link[prev[2]] = "calls"

Tended(s, a) ==
  /\ \A p \in Prompts, n \in Seqs :
       s.prompts[p].present /\ ~s.prompts[p].closing =>
         \/ s.prompts[p].state[n] \in {"absent", "completed"}
         \/ a.pc # "idle" /\ a.prompt = p /\ a.seq = n
  /\ a.pc \in Early /\ AnswersCallsOf(s, a.previous) =>
       a.previous = <<a.prompt, s.prompts[a.prompt].alias>>

OwnerInv(o) ==
  /\ RecordOK(ledger[o], wire[o], remote[o])
  /\ RecordOK(disk[o], wire[o], remote[o])
  /\ ProviderOK(wire[o], remote[o])
  /\ CallOK(ledger[o], act[o], wire[o], remote[o])
  /\ WorkerOK(ledger[o], act[o], wk[o], wire[o], remote[o])
  /\ Healthy => Tended(ledger[o], act[o])

StoreInv ==
  /\ Healthy \/ life = "down" => disk = ledger
  /\ life = "down" => act = [o \in Owners |-> Idle] /\ wk = [o \in Owners |-> NoWorker]

IInv == TypeOK /\ StoreInv /\ \A o \in Owners : OwnerInv(o)

-----------------------------------------------------------------------------
(* The invariant implies the safety properties.                            *)

(* A record in step with the provider tells what cannot run any more.      *)
LEMMA RecordIsQuiet ==
  ASSUME NEW s, NEW v, NEW r, RecordOK(s, v, r)
  PROVE  /\ \A p \in Prompts, n \in Seqs : s.prompts[p].settled => v[p][n] \notin Outstanding
         /\ s.retired => /\ \A id \in Ids : r[id] \notin Possible
                         /\ \A p \in Prompts, n \in Seqs : v[p][n] \notin Outstanding
<1>1. \A p \in Prompts, n \in Seqs : s.prompts[p].settled => v[p][n] \notin Outstanding
  BY DEF RecordOK, SessionFits, PromptsFit, WireFits, StateFits, Resolved, Outstanding
<1>2. s.retired => \A id \in Ids : r[id] \notin Possible
  BY DEF RecordOK, SessionFits, CreateFits, RemoteFits
<1>3. s.retired => \A p \in Prompts, n \in Seqs : v[p][n] \notin Outstanding
  <2> SUFFICES ASSUME s.retired, NEW p \in Prompts, NEW n \in Seqs
               PROVE  v[p][n] \notin Outstanding
    OBVIOUS
  <2>1. CASE s.prompts[p].present
    BY <1>1, <2>1 DEF RecordOK, SessionFits, CreateFits
  <2>2. CASE ~s.prompts[p].present
    BY <2>2 DEF RecordOK, SessionFits, PromptsFit, Blank, WireFits, StateFits, Outstanding
  <2>3. QED
    BY <2>1, <2>2
<1>4. QED
  BY <1>1, <1>2, <1>3

(* The safety properties follow from the invariant.                        *)
LEMMA InvImplies ==
  ASSUME IInv
  PROVE  /\ SettledIsQuiet /\ RetiredIsGone /\ OneSession /\ OwnedOnDisk /\ CleanupIsExclusive
         /\ OnlyZeroLeaseIsRefused /\ OneKeyPerAttempt /\ OpenIsServed /\ QuietAnswerIsTrue
         /\ AcknowledgedRenewalIsOwned
<1>1. SettledIsQuiet
  BY RecordIsQuiet DEF IInv, OwnerInv, SettledIsQuiet
<1>2. RetiredIsGone
  <2>1. \A o \in Owners, id \in Ids : remote[o][id] \in SessionStates
    BY DEF IInv, TypeOK
  <2>2. QED
    BY <2>1, RecordIsQuiet DEF IInv, OwnerInv, RetiredIsGone, Possible, Live, SessionStates
<1>3. OneSession
  BY DEF IInv, OwnerInv, RecordOK, RemoteFits, OneSession, Possible
<1>4. OwnedOnDisk
  BY DEF IInv, OwnerInv, RecordOK, RemoteFits, WireFits, StateFits, OwnedOnDisk, Possible
<1>5. CleanupIsExclusive
  BY DEF IInv, OwnerInv, WorkerOK, CleanupIsExclusive
<1>6. OnlyZeroLeaseIsRefused
  BY FitIsValid DEF IInv, TypeOK, OwnerInv, RecordOK, OnlyZeroLeaseIsRefused
<1>7. OneKeyPerAttempt
  BY DEF IInv, OwnerInv, RecordOK, SessionFits, KeysFit, OneKeyPerAttempt
<1>8. OpenIsServed
  BY DEF IInv, OwnerInv, StoreInv, Tended, OpenIsServed, Serves
<1>9. QuietAnswerIsTrue
  <2> SUFFICES ASSUME NEW o \in Owners, ~Blocked(o, Prompts), \A p \in Prompts : ~ActiveIn(o, p)
               PROVE  /\ \A id \in Ids : remote[o][id] # "creating"
                      /\ \A p \in Prompts, n \in Seqs : wire[o][p][n] # "flying"
    BY DEF QuietAnswerIsTrue
  <2>1. RecordOK(ledger[o], wire[o], remote[o]) /\ ledger[o].create # "intent"
    BY DEF IInv, OwnerInv, Blocked, CreatePending
  <2>2. \A id \in Ids : remote[o][id] # "creating"
    BY <2>1 DEF RecordOK, RemoteFits, Possible, Live
  <2>3. \A p \in Prompts, n \in Seqs : ledger[o].prompts[p].state[n] \notin {"uncertain", "intent"}
    BY DEF Blocked, AmbiguousIn, ActiveIn
  <2>4. QED
    BY <2>1, <2>2, <2>3 DEF RecordOK, WireFits, StateFits
<1>10. AcknowledgedRenewalIsOwned
  <2> SUFFICES ASSUME NEW o \in Owners, NEW p \in Prompts, NEW g \in 1..MaxGeneration, NEW e \in Times,
                      AcknowledgesRenewal(o, p, g, e)
               PROVE  /\ act[o].prompt = p /\ ~act[o].cancelled /\ disk[o] = ledger[o]
                      /\ act[o].pc \in {"createReady", "creating", "finish"}
                      /\ \A n \in Seqs : wire[o][p][n] = "unsent"
    BY DEF AcknowledgedRenewalIsOwned
  <2>1. /\ life = "up" /\ ledger[o].create = "intent" /\ ~ledger[o].retiring
        /\ ~ledger[o].prompts[p].closing /\ act[o].pc # "idle" /\ act[o].prompt = p
    BY DEF AcknowledgesRenewal, CreatePending, Serves
  <2>2. /\ disk = ledger /\ CallOK(ledger[o], act[o], wire[o], remote[o])
        /\ RecordOK(ledger[o], wire[o], remote[o]) /\ act[o] \in LiveCall
    BY <2>1, CallTyped DEF IInv, StoreInv, OwnerInv, Healthy
  <2>3. ~act[o].cancelled
    BY <2>1, <2>2 DEF CallOK
  <2>4. act[o].pc \in {"createReady", "creating", "finish"}
    BY <2>1, <2>2 DEF CallOK, CallSteps, LiveCall, Steps
  <2>5. \A n \in Seqs : wire[o][p][n] = "unsent"
    BY <2>1, <2>2 DEF RecordOK, WireFits
  <2>6. QED
    BY <2>1, <2>2, <2>3, <2>4, <2>5
<1>11. QED
  BY <1>1, <1>2, <1>3, <1>4, <1>5, <1>6, <1>7, <1>8, <1>9, <1>10

(* The invariant holds initially.                                          *)
LEMMA InitInv == Init => IInv
<1> SUFFICES ASSUME Init PROVE IInv
  OBVIOUS
<1>1. TypeOK
  BY InitTyped
<1>2. StoreInv
  BY DEF Init, StoreInv
<1>3. ASSUME NEW o \in Owners
      PROVE  OwnerInv(o)
  <2>1. /\ ledger[o] = NoSession /\ disk[o] = NoSession /\ act[o] = Idle /\ wk[o] = NoWorker
        /\ \A p \in Prompts, n \in Seqs : wire[o][p][n] = "unsent"
        /\ \A id \in Ids : remote[o][id] = "unused"
    BY DEF Init
  <2>2. RecordOK(NoSession, wire[o], remote[o])
    BY <2>1, EmptyFits DEF RecordOK, WireFits, StateFits, RemoteFits, Possible, Live, NoSession
  <2>3. ProviderOK(wire[o], remote[o])
    BY <2>1 DEF ProviderOK
  <2>4. CallOK(ledger[o], act[o], wire[o], remote[o])
    BY <2>1 DEF CallOK, Idle
  <2>5. WorkerOK(ledger[o], act[o], wk[o], wire[o], remote[o])
    BY <2>1 DEF WorkerOK, NoWorker
  <2>6. Tended(ledger[o], act[o])
    BY <2>1 DEF Tended, NoSession, NoPrompt, Early, Idle
  <2>7. QED
    BY <2>1, <2>2, <2>3, <2>4, <2>5, <2>6 DEF OwnerInv
<1>4. QED
  BY <1>1, <1>2, <1>3 DEF IInv

-----------------------------------------------------------------------------
(* Each commit keeps the record in step with the provider.                 *)

(* Closing prompts changes no invocation and no creation state.            *)
LEMMA RecordClosed ==
  ASSUME NEW s \in Session, NEW v, NEW r, RecordOK(s, v, r), NEW P
  PROVE  RecordOK(Closed(s, P), v, r)
<1>1. SessionFits(Closed(s, P))
  BY ClosedFits DEF RecordOK
<1>2. WireFits(Closed(s, P), v) /\ RemoteFits(Closed(s, P), r)
  BY ClosedIs DEF RecordOK, WireFits, RemoteFits
<1>3. QED
  BY <1>1, <1>2 DEF RecordOK

(* Nor does a retirement.                                                  *)
LEMMA RecordRetirement ==
  ASSUME NEW s \in Session, NEW v, NEW r, RecordOK(s, v, r)
  PROVE  RecordOK(Retirement(s), v, r)
<1>1. SessionFits(Retirement(s))
  BY RetirementFits DEF RecordOK
<1>2. WireFits(Retirement(s), v) /\ RemoteFits(Retirement(s), r)
  BY RetirementIs, ClosedIs DEF RecordOK, WireFits, RemoteFits
<1>3. QED
  BY <1>1, <1>2 DEF RecordOK

(* A prompt that is opened has no invocations.                             *)
LEMMA RecordOpened ==
  ASSUME NEW s \in Session, NEW v, NEW r, RecordOK(s, v, r), NEW p \in Prompts, CanOpen(s, p),
         NEW g \in 1..MaxGeneration, NEW e \in Times
  PROVE  RecordOK(Opened(s, p, g, e), v, r)
<1> DEFINE t == Opened(s, p, g, e)
<1>1. SessionFits(t)
  BY OpenedFits DEF RecordOK
<1>2. ~s.prompts[p].present
  BY DEF CanOpen
<1>3. /\ t.create = s.create /\ t.remote = s.remote
      /\ \A q \in Prompts, n \in Seqs : t.prompts[q].state[n] = s.prompts[q].state[n]
  <2>1. \A n \in Seqs : s.prompts[p].state[n] = "absent"
    BY <1>2 DEF RecordOK, SessionFits, PromptsFit, Blank
  <2>2. QED
    BY <2>1 DEF Opened, Session, NoPrompt
<1>4. WireFits(t, v) /\ RemoteFits(t, r)
  BY <1>3 DEF RecordOK, WireFits, RemoteFits
<1>5. QED
  BY <1>1, <1>4 DEF RecordOK

(* brokerEnsurePrompt leaves the prompt present.                           *)
LEMMA RecordEnsured ==
  ASSUME NEW s \in Session, NEW v, NEW r, RecordOK(s, v, r), NEW p \in Prompts, Ensurable(s, p),
         NEW g \in 1..MaxGeneration, NEW e \in Times
  PROVE  RecordOK(EnsurePrompt(s, p, g, e), v, r) /\ EnsurePrompt(s, p, g, e).prompts[p].present
<1>1. CASE s.prompts[p].present
  BY <1>1 DEF EnsurePrompt
<1>2. CASE ~s.prompts[p].present
  <2>1. Opened(s, p, g, e).prompts[p].present
    BY DEF Opened, Session, NoPrompt
  <2>2. QED
    BY <1>2, <2>1, RecordOpened DEF EnsurePrompt, Ensurable
<1>3. QED
  BY <1>1, <1>2

(* A prompt's record may be overwritten when the new states fit.           *)
LEMMA RecordWritten ==
  ASSUME NEW s \in Session, NEW v, NEW r, RecordOK(s, v, r), NEW p \in Prompts,
         NEW q \in Prompt, \A n \in Seqs : StateFits(q.state[n], v[p][n]),
         SessionFits([s EXCEPT !.prompts[p] = q])
  PROVE  RecordOK([s EXCEPT !.prompts[p] = q], v, r)
<1> DEFINE t == [s EXCEPT !.prompts[p] = q]
<1>1. /\ t.create = s.create /\ t.remote = s.remote /\ t.prompts[p] = q
      /\ \A x \in Prompts \ {p} : t.prompts[x] = s.prompts[x]
  BY DEF Session
<1>2. WireFits(t, v) /\ RemoteFits(t, r)
  BY <1>1 DEF RecordOK, WireFits, RemoteFits
<1>3. QED
  BY <1>2 DEF RecordOK

(* A renewal changes the lease only.                                       *)
LEMMA RecordRenewed ==
  ASSUME NEW s \in Session, NEW v, NEW r, RecordOK(s, v, r), NEW p \in Prompts,
         NEW g \in 1..MaxGeneration, NEW e \in Times,
         IF s.prompts[p].present THEN Renewable(s.prompts[p], g, e) ELSE CanOpen(s, p)
  PROVE  RecordOK(Renewed(s, p, g, e), v, r)
<1>1. CASE ~s.prompts[p].present
  BY <1>1, RecordOpened DEF Renewed
<1>2. CASE s.prompts[p].present
  <2> DEFINE q == [s.prompts[p] EXCEPT !.generation = g, !.expires = e]
  <2>e. s.prompts[p] \in Prompt /\ g \in 0..MaxGeneration
    BY BoundsAssumption DEF Session
  <2>f. q \in Prompt
    BY <2>e, ZenonT(30) DEF Prompt
  <2>g. /\ q.present /\ ~q.settled /\ q.state = s.prompts[p].state
        /\ q.last = s.prompts[p].last
    BY <1>2, <2>e DEF Prompt, Renewable
  <2>h. Unfinished(s, p)
    BY <1>2 DEF Renewable, Unfinished
  <2>1. /\ q \in Prompt /\ q.present /\ ~q.settled /\ q.state = s.prompts[p].state
        /\ q.last = s.prompts[p].last /\ Unfinished(s, p)
    BY <2>f, <2>g, <2>h
  <2>2. \A n \in Seqs : q.last < n => q.state[n] = "absent"
    BY <2>1 DEF RecordOK, SessionFits, PromptsFit
  <2>a. /\ q.alias = s.prompts[p].alias /\ q.link = s.prompts[p].link
        /\ q.generation = g /\ q.expires = e /\ q.identity = s.prompts[p].identity
        /\ s.prompts[p].closing <=> q.closing
    BY <1>2 DEF Session, Prompt
  <2>b. PromptSound(q)
    BY <2>1, <2>a DEF RecordOK, SessionFits, PromptSound, InvocationValid
  <2>c. p = s.current /\ (s.retiring => q.closing)
    BY <2>1, <2>a DEF RecordOK, SessionFits, PromptsFit, KeysFit, Unfinished
  <2>d. /\ s.create = "intent" => Pending(q)
        /\ s.create \in {"none", "intent"} => \A n \in Seqs : q.link[n] = "none"
    BY <2>1, <2>a, <2>c DEF RecordOK, SessionFits, CreateFits, Pending
  <2>i. LeaseSound(q)
    <3>1. /\ LeaseSound(s.prompts[p]) /\ s.prompts[p].identity \in Lease
          /\ s.prompts[p].generation \in Nat /\ s.prompts[p].expires \in Times
      BY <2>e, BoundsAssumption DEF RecordOK, SessionFits, Prompt
    <3>2. g = s.prompts[p].generation + 1 /\ s.prompts[p].expires <= e
      BY <1>2 DEF Renewable
    <3>3. LeaseValid(q)
      BY <1>2, <2>a, <3>1, <3>2, BoundsAssumption DEF LeaseSound, LeaseValid, Lease, Times
    <3>4. e = ZeroTime => s.prompts[p].expires = ZeroTime
      BY <3>1, <3>2, BoundsAssumption DEF Times, ZeroTime
    <3>5. QED
      BY <2>1, <2>a, <3>1, <3>3, <3>4 DEF LeaseSound
  <2>3. SessionFits([s EXCEPT !.prompts[p] = q])
    <3> HIDE DEF q
    <3>1. QED
      BY <2>1, <2>2, <2>b, <2>c, <2>d, <2>i, WrittenFits DEF RecordOK
  <2>4. \A n \in Seqs : StateFits(q.state[n], v[p][n])
    BY <2>1 DEF RecordOK, WireFits
  <2>5. RecordOK([s EXCEPT !.prompts[p] = q], v, r)
    BY <2>1, <2>3, <2>4, RecordWritten
  <2>6. QED
    BY <1>2, <2>5 DEF Renewed
<1>3. QED
  BY <1>1, <1>2

(* The progress of an invocation keeps the record in step when the request *)
(* is where the new state says it may be.                                  *)
LEMMA RecordProgress ==
  ASSUME NEW s \in Session, NEW v, NEW r, RecordOK(s, v, r),
         NEW p \in Prompts, Unfinished(s, p), NEW n \in Seqs
  PROVE  /\ s.prompts[p].last < n /\ s.create # "intent" /\ s.prompts[p].expires # ZeroTime =>
              RecordOK(Reservation(s, p, n), v, r)
         /\ n = s.prompts[p].last =>
              /\ \A st \in InvocationStates :
                   MayBecome(s, s.prompts[p].state[n], st) /\ StateFits(st, v[p][n]) =>
                     RecordOK(Mark(s, p, n, st), v, r)
              /\ s.prompts[p].state[n] = "intent" /\ s.create = "known"
                   /\ StateFits("accepted", v[p][n]) => RecordOK(Accepted(s, p, n), v, r)
              /\ \A kind \in {"text", "calls"} :
                   s.prompts[p].state[n] = "accepted" /\ StateFits("completed", v[p][n]) =>
                     RecordOK(Completed(s, p, n, kind), v, r)
<1> DEFINE q == s.prompts[p]
<1>0. /\ q \in Prompt /\ n \in 0..MaxSeq /\ n \in Nat /\ q.last \in Nat
      /\ \A m \in Seqs : StateFits(q.state[m], v[p][m])
      /\ SessionFits(s)
  BY BoundsAssumption DEF Session, Prompt, Seqs, RecordOK, WireFits
<1>1. ASSUME q.last < n, s.create # "intent", q.expires # ZeroTime
      PROVE  RecordOK(Reservation(s, p, n), v, r)
  <2> DEFINE t == [q EXCEPT !.last = n, !.state[n] = "reserved"]
  <2>1. t \in Prompt
    BY <1>0 DEF Prompt, InvocationStates
  <2>2. q.state[n] = "absent"
    BY <1>1 DEF RecordOK, SessionFits, PromptsFit
  <2>3. \A m \in Seqs : StateFits(t.state[m], v[p][m])
    BY <1>0, <2>2 DEF Prompt, StateFits
  <2>a. Reservation(s, p, n) = [s EXCEPT !.prompts[p] = t]
    BY DEF Reservation
  <2>b. SessionFits(Reservation(s, p, n))
    BY <1>0, <1>1, ProgressFits
  <2> HIDE DEF t
  <2>c. RecordOK([s EXCEPT !.prompts[p] = t], v, r)
    BY <2>1, <2>3, <2>a, <2>b, RecordWritten
  <2>d. QED
    BY <2>a, <2>c
<1>2. ASSUME n = q.last, NEW st \in InvocationStates, MayBecome(s, q.state[n], st),
             StateFits(st, v[p][n])
      PROVE  RecordOK(Mark(s, p, n, st), v, r)
  <2> DEFINE t == [q EXCEPT !.state[n] = st]
  <2>1. t \in Prompt
    BY <1>0 DEF Prompt
  <2>2. \A m \in Seqs : StateFits(t.state[m], v[p][m])
    BY <1>0, <1>2 DEF Prompt
  <2>3. SessionFits([s EXCEPT !.prompts[p] = t])
    BY <1>0, <1>2, ProgressFits DEF Mark
  <2>4. QED
    BY <2>1, <2>2, <2>3, RecordWritten DEF Mark
<1>3. ASSUME n = q.last, q.state[n] = "intent", s.create = "known", StateFits("accepted", v[p][n])
      PROVE  RecordOK(Accepted(s, p, n), v, r)
  <2> DEFINE t == [q EXCEPT !.state[n] = "accepted", !.link[n] = "open"]
  <2>1. t \in Prompt
    BY <1>0 DEF Prompt, InvocationStates, LinkStates
  <2>2. \A m \in Seqs : StateFits(t.state[m], v[p][m])
    BY <1>0, <1>3 DEF Prompt
  <2>a. Accepted(s, p, n) = [s EXCEPT !.prompts[p] = t]
    BY DEF Accepted
  <2>b. SessionFits(Accepted(s, p, n))
    BY <1>0, <1>3, ProgressFits
  <2> HIDE DEF t
  <2>c. RecordOK([s EXCEPT !.prompts[p] = t], v, r)
    BY <2>1, <2>2, <2>a, <2>b, RecordWritten
  <2>d. QED
    BY <2>a, <2>c
<1>4. ASSUME n = q.last, NEW kind \in {"text", "calls"}, q.state[n] = "accepted",
             StateFits("completed", v[p][n])
      PROVE  RecordOK(Completed(s, p, n, kind), v, r)
  <2> DEFINE t == [q EXCEPT !.state[n] = "completed", !.link[n] = kind, !.alias = n]
  <2>1. t \in Prompt
    BY <1>0 DEF Prompt, InvocationStates, LinkStates
  <2>2. \A m \in Seqs : StateFits(t.state[m], v[p][m])
    BY <1>0, <1>4 DEF Prompt
  <2>a. Completed(s, p, n, kind) = [s EXCEPT !.prompts[p] = t]
    BY DEF Completed
  <2>b. SessionFits(Completed(s, p, n, kind))
    BY <1>0, <1>4, ProgressFits
  <2> HIDE DEF t
  <2>c. RecordOK([s EXCEPT !.prompts[p] = t], v, r)
    BY <2>1, <2>2, <2>a, <2>b, RecordWritten
  <2>d. QED
    BY <2>a, <2>c
<1>5. QED
  BY <1>1, <1>2, <1>3, <1>4

(* The end of an invocation drops an intent only when its request was      *)
(* never sent or was refused.                                              *)
LEMMA RecordFinished ==
  ASSUME NEW s \in Session, NEW v, NEW r, RecordOK(s, v, r),
         NEW p \in Prompts, Unfinished(s, p), NEW n \in Seqs, n = s.prompts[p].last, NEW err,
         err # "ambiguous" /\ s.prompts[p].state[n] = "intent" => v[p][n] \in {"unsent", "refused"}
  PROVE  RecordOK(Finished(s, p, n, err), v, r)
<1> DEFINE st == s.prompts[p].state[n]
           new == Outcome(st, err)
           c == Closed(s, {p})
<1>1. CASE err = "ok"
  BY <1>1 DEF Finished
<1>2. CASE err # "ok"
  <2>1. /\ c \in Session /\ RecordOK(c, v, r) /\ Unfinished(c, p) /\ n = c.prompts[p].last
        /\ c.create = s.create /\ c.prompts[p].state = s.prompts[p].state
    BY ClosedTyped, RecordClosed, ClosedIs DEF Unfinished
  <2>2. st \in InvocationStates /\ StateFits(st, v[p][n])
    BY DEF Session, Prompt, RecordOK, WireFits
  <2>3. new \in InvocationStates /\ StateFits(new, v[p][n]) /\ MayBecome(c, c.prompts[p].state[n], new)
    <3>1. new \in InvocationStates /\ MayBecome(s, st, new)
      BY OutcomeMayBe DEF RecordOK
    <3>2. StateFits(new, v[p][n])
      BY <2>2 DEF InvocationStates, StateFits, Outcome
    <3>3. QED
      BY <2>1, <3>1, <3>2 DEF MayBecome
  <2>4. RecordOK(Mark(c, p, n, new), v, r)
    BY <2>1, <2>3, RecordProgress
  <2>5. QED
    BY <1>2, <2>4 DEF Finished, Outcome
<1>3. QED
  BY <1>1, <1>2

(* The creation state may change while no session may exist, or to known   *)
(* for the session that was asked for.                                     *)
LEMMA RecordWithCreate ==
  ASSUME NEW s \in Session, NEW v, NEW r, RecordOK(s, v, r), ~s.retired,
         s.create \in {"none", "intent"},
         NEW st \in {"none", "intent", "known"}, NEW id \in 0..MaxCreates,
         st = "none" <=> id = 0,
         (id = s.remote /\ s.create = "intent") \/ \A i \in Ids : r[i] \notin Possible,
         st = "known" => r[id] \in Live,
         st = "intent" =>
           s.current # None /\ Pending(s.prompts[s.current]) /\ ~s.prompts[s.current].settled
  PROVE  RecordOK(WithCreate(s, st, id), v, r)
<1> DEFINE t == WithCreate(s, st, id)
<1>1. SessionFits(t)
  BY WithCreateFits DEF RecordOK
<1>2. t.prompts = s.prompts /\ t.create = st /\ t.remote = id
  BY DEF WithCreate, Session
<1>3. WireFits(t, v)
  BY <1>2 DEF RecordOK, WireFits
<1>4. RemoteFits(t, r)
  <2>1. CASE \A i \in Ids : r[i] \notin Possible
    BY <1>2, <2>1 DEF RemoteFits
  <2>2. CASE id = s.remote /\ s.create = "intent"
    <3>1. st \in {"intent", "known"}
      BY <2>2 DEF RecordOK, SessionFits, CreateFits
    <3>2. QED
      BY <1>2, <2>2, <3>1 DEF RecordOK, RemoteFits
  <2>3. QED
    BY <2>1, <2>2
<1>5. QED
  BY <1>1, <1>3, <1>4 DEF RecordOK

(* A proof settles prompts whose requests are over, and retires an owner   *)
(* whose session was deleted or never created.                             *)
LEMMA RecordSettled ==
  ASSUME NEW s \in Session, NEW v, NEW r, RecordOK(s, v, r), NEW P \in SUBSET Prompts,
         s.create # "intent", \A p \in P : s.prompts[p].present /\ s.prompts[p].closing,
         \A p \in P, n \in Seqs : v[p][n] \notin Outstanding
  PROVE  RecordOK(Settlement(s, P), v, r)
<1> DEFINE t == Settlement(s, P)
<1>1. SessionFits(t)
  BY SettlementFits DEF RecordOK
<1>2. ASSUME NEW p \in Prompts, NEW n \in Seqs
      PROVE  StateFits(t.prompts[p].state[n], v[p][n])
  <2>1. CASE p \notin P
    BY <2>1, SettlementIs DEF RecordOK, WireFits
  <2>2. CASE p \in P
    BY <2>2, SettlementIs DEF RecordOK, WireFits, StateFits, Outstanding
  <2>3. QED
    BY <2>1, <2>2
<1>3. WireFits(t, v) /\ RemoteFits(t, r)
  BY <1>2, SettlementIs DEF RecordOK, WireFits, RemoteFits
<1>4. QED
  BY <1>1, <1>3 DEF RecordOK

(* Retirement of an owner without a session and without open prompts.      *)
LEMMA RecordRetired ==
  ASSUME NEW s \in Session, NEW v, NEW r, RecordOK(s, v, r),
         s.retiring, s.create \in {"none", "known"},
         \A p \in Prompts : s.prompts[p].present => s.prompts[p].settled,
         s.create = "known" => r[s.remote] = "deleted"
  PROVE  RecordOK(Retired(s, s.create), v, r)
<1> DEFINE t == Retired(s, s.create)
<1>1. SessionFits(t)
  BY RetiredFits DEF RecordOK
<1>2. /\ t.prompts = s.prompts /\ t.remote = s.remote
      /\ t.create = IF s.create = "known" THEN "deleted" ELSE s.create
  BY DEF Retired, Session
<1>3. WireFits(t, v)
  BY <1>2 DEF RecordOK, WireFits
<1>4. RemoteFits(t, r)
  BY <1>2 DEF RecordOK, RemoteFits, Possible, Live
<1>5. QED
  BY <1>1, <1>3, <1>4 DEF RecordOK
=============================================================================
