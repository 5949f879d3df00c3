---------------------------- MODULE BrokerLedger ----------------------------
(***************************************************************************)
(* The durable ownership ledger of the lifecycle broker, without the       *)
(* processes that change it: the records of                                *)
(* internal/broker/store.go, the admission rules of broker.go and          *)
(* responses.go that decide on one session record, and the startup         *)
(* validator of store_validation.go.                                       *)
(*                                                                         *)
(* Abstractions.  A prompt key (the digest of task, attempt, prompt id and *)
(* request digest) is an element of Prompts; Attempt maps it to the        *)
(* identity that no second key of the owner may share.  A response alias   *)
(* is the pair <<prompt, sequence>> of the invocation it was minted for,   *)
(* and a broker-chosen session id is a number in Ids (0 is the empty id).  *)
(* A map entry that is absent in the code is NoPrompt or "absent" here.    *)
(* The clock starts at 1: time 0 is Go's zero time, long past.             *)
(* Of the validator, what one step writes together is left out: a prompt   *)
(* and an invocation are committed with their operation's digest, and the  *)
(* principal is pinned before a session id is committed.  The operation log*)
(* itself and the byte reserve are in OperationLog.                        *)
(***************************************************************************)
EXTENDS Naturals, FiniteSets

CONSTANTS
  Owners,         \* owners: the keys of brokerLedger.Sessions
  Prompts,        \* prompt keys of an owner
  Attempt,        \* Attempt[p]: the task attempt / prompt id of key p
  None,           \* no prompt, no previous response
  MaxSeq,         \* bound on invocation sequences of a prompt
  MaxGeneration,  \* bound on lease generations
  MaxTime,        \* bound on the clock
  MaxCreates      \* bound on session ids the broker mints for an owner

ASSUME NoneAssumption == None \notin Prompts
ASSUME AttemptAssumption == DOMAIN Attempt = Prompts
ASSUME BoundsAssumption ==
  /\ MaxSeq \in Nat \ {0}
  /\ MaxGeneration \in Nat \ {0}
  /\ MaxTime \in Nat \ {0}
  /\ MaxCreates \in Nat \ {0}

Seqs == 1..MaxSeq
Ids == 1..MaxCreates
Times == 0..MaxTime
ZeroTime == 0
Refs == Prompts \X Seqs

CreateStates == {"none", "intent", "known", "deleted"}

InvocationStates ==
  {"absent", "reserved", "intent", "rejected", "uncertain", "accepted",
   "completed", "settled"}

(* The brokerResponseID stored for an invocation: "open" is an accepted    *)
(* response, "text" a completed one without function calls, "calls" a      *)
(* completed one whose function calls await their outputs.                 *)
LinkStates == {"none", "open", "text", "calls"}

(* The lease a prompt was opened with: its Identity's, never changed.      *)
Lease == [generation: 0..MaxGeneration, expires: Times]

Prompt ==
  [present: BOOLEAN, identity: Lease, generation: 0..MaxGeneration,
   expires: Times, closing: BOOLEAN, settled: BOOLEAN, last: 0..MaxSeq, alias: 0..MaxSeq,
   state: [Seqs -> InvocationStates], link: [Seqs -> LinkStates]]

Session ==
  [create: CreateStates, remote: 0..MaxCreates, retiring: BOOLEAN,
   retired: BOOLEAN, current: Prompts \cup {None}, prompts: [Prompts -> Prompt]]

NoPrompt ==
  [present |-> FALSE, identity |-> [generation |-> 0, expires |-> ZeroTime],
   generation |-> 0, expires |-> ZeroTime, closing |-> FALSE, settled |-> FALSE, last |-> 0, alias |-> 0,
   state |-> [n \in Seqs |-> "absent"], link |-> [n \in Seqs |-> "none"]]

NoSession ==
  [create |-> "none", remote |-> 0, retiring |-> FALSE, retired |-> FALSE,
   current |-> None, prompts |-> [p \in Prompts |-> NoPrompt]]

-----------------------------------------------------------------------------
(* Changes to one session record.                                          *)

Opened(s, p, g, e) ==
  [s EXCEPT !.current = p,
            !.prompts[p] =
              [NoPrompt EXCEPT !.present = TRUE,
                               !.identity = [generation |-> g, expires |-> e],
                               !.generation = g, !.expires = e]]

\* Mutant: a second prompt may open beside an unsettled one.
CanOpen_IgnoresCurrent(s, p) ==
  /\ ~s.retiring /\ ~s.retired
  /\ \A q \in Prompts : s.prompts[q].present => Attempt[q] # Attempt[p]

\* Mutant: only the prompt key itself must be new.
CanOpen_IgnoresAttempt(s, p) ==
  /\ ~s.retiring /\ ~s.retired /\ ~s.prompts[p].present
  /\ s.current # None => s.prompts[s.current].settled

(* A prompt key may be added: the owner is not retiring, no other key      *)
(* holds its attempt, and the current prompt is settled.                   *)
CanOpen(s, p) ==
  /\ ~s.retiring /\ ~s.retired
  /\ \A q \in Prompts : s.prompts[q].present => Attempt[q] # Attempt[p]
  /\ s.current # None => s.prompts[s.current].settled

Ensurable(s, p) == s.prompts[p].present \/ CanOpen(s, p)

EnsurePrompt(s, p, g, e) ==
  IF s.prompts[p].present THEN s ELSE Opened(s, p, g, e)

\* Closing set on the prompts of P that the session has.
Closed(s, P) ==
  [s EXCEPT !.prompts =
     [p \in Prompts |-> [s.prompts[p] EXCEPT
        !.closing = @ \/ (p \in P /\ s.prompts[p].present)]]]

Retirement(s) == [Closed(s, Prompts) EXCEPT !.retiring = TRUE]

Reservation(s, p, n) ==
  [s EXCEPT !.prompts[p] = [@ EXCEPT !.last = n, !.state[n] = "reserved"]]

Mark(s, p, n, st) == [s EXCEPT !.prompts[p].state[n] = st]

WithCreate(s, st, id) == [s EXCEPT !.create = st, !.remote = id]

Accepted(s, p, n) ==
  [s EXCEPT !.prompts[p] = [@ EXCEPT !.state[n] = "accepted", !.link[n] = "open"]]

Completed(s, p, n, kind) ==
  [s EXCEPT !.prompts[p] =
     [@ EXCEPT !.state[n] = "completed", !.link[n] = kind, !.alias = n]]

\* Mutant: a lost inference response is recorded as a rejection.
Finished_ForgetsAmbiguity(s, p, n, err) ==
  LET st == s.prompts[p].state[n] IN
  IF err = "ok" THEN s
  ELSE Mark(Closed(s, {p}), p, n, IF st \in {"reserved", "intent"} THEN "rejected" ELSE st)

(* finishInvocation: an error closes the prompt; a reserved invocation was *)
(* never sent, and an intent is ambiguous only when the error says that    *)
(* the provider may have accepted it.                                      *)
Finished(s, p, n, err) ==
  LET st == s.prompts[p].state[n] IN
  IF err = "ok" THEN s
  ELSE Mark(Closed(s, {p}), p, n,
            CASE st = "reserved" -> "rejected"
              [] st = "intent" -> IF err = "ambiguous" THEN "uncertain" ELSE "rejected"
              [] OTHER -> st)

Settlement(s, P) ==
  [s EXCEPT !.prompts =
     [p \in Prompts |->
        IF p \in P
          THEN [s.prompts[p] EXCEPT
                 !.settled = TRUE,
                 !.state = [n \in Seqs |->
                    IF s.prompts[p].state[n] \in {"absent", "completed"}
                      THEN s.prompts[p].state[n] ELSE "settled"]]
          ELSE s.prompts[p]]]

Retired(s, created) ==
  [s EXCEPT !.retired = TRUE,
            !.create = IF created = "known" THEN "deleted" ELSE @]

-----------------------------------------------------------------------------
(* Admission of an invocation.                                             *)

\* Mutant: an equal sequence is admitted again.
Fresh_AllowsRepeat(q, n) == n >= q.last
Fresh(q, n) == n > q.last

Completed_(s, r) == s.prompts[r[1]].link[r[2]] \in {"text", "calls"}

\* Mutant: a new prompt may continue a response whose calls are unanswered.
PreviousAccepted_AnyCompleted(s, p, prev) ==
  LET q == s.prompts[p] IN
  IF q.last = 0
    THEN prev # None => Completed_(s, prev)
    ELSE /\ prev = <<p, q.alias>> /\ prev \in Refs
         /\ s.prompts[p].link[q.alias] = "calls"

(* brokerTranslatePrevious: the first round of a prompt may continue any   *)
(* completed response without calls; a later round must return every call  *)
(* output of the prompt's own last completed response.                     *)
PreviousAccepted(s, p, prev) ==
  LET q == s.prompts[p] IN
  IF q.last = 0
    THEN prev # None => s.prompts[prev[1]].link[prev[2]] = "text"
    ELSE /\ prev = <<p, q.alias>> /\ prev \in Refs
         /\ s.prompts[p].link[q.alias] = "calls"

-----------------------------------------------------------------------------
(* What cleanup reads from a session before it contacts the provider.      *)

Unsettled(s) == {p \in Prompts : s.prompts[p].closing /\ ~s.prompts[p].settled}

Quiescent(s) ==
  \A p \in Unsettled(s), n \in Seqs :
    s.prompts[p].state[n] \in {"absent", "completed", "reserved", "rejected"}

\* Mutant: an orphaned intent is not treated as ambiguous.
Ambiguous_OnlyUncertain(s) ==
  \E p \in Prompts, n \in Seqs : s.prompts[p].state[n] = "uncertain"

Ambiguous(s) ==
  \E p \in Prompts, n \in Seqs : s.prompts[p].state[n] \in {"uncertain", "intent"}

-----------------------------------------------------------------------------
(* The startup validator.                                                  *)

InvocationValid(q, n) ==
  LET st == q.state[n]  link == q.link[n] IN
  /\ st \in {"reserved", "intent", "rejected", "uncertain"} => link = "none" /\ ~q.settled
  /\ st \in {"accepted", "completed"} => link # "none" /\ (q.settled => st = "completed")
  /\ st = "settled" => q.settled
  /\ st = "absent" => link = "none"
  /\ link # "none" => (link \in {"text", "calls"} <=> st = "completed")

Highest(q, n, S) == \A m \in Seqs : q.state[m] \in S => m <= n

LeaseValid(q) ==
  /\ q.identity.generation # 0 /\ q.identity.generation <= q.generation
  /\ q.identity.expires <= q.expires

(* brokerPromptValid, but for its refusal of a zero lease.                 *)
PromptFits(s, p) ==
  LET q == s.prompts[p]  Held == InvocationStates \ {"absent"} IN
  /\ LeaseValid(q)
  /\ IF q.settled THEN q.closing ELSE ~s.retired /\ p = s.current
  /\ s.retiring => q.closing
  /\ \A n \in Seqs : InvocationValid(q, n)
  /\ Highest(q, q.last, Held) /\ (q.last # 0 => q.state[q.last] \in Held)
  /\ Highest(q, q.alias, {"completed"}) /\ (q.alias # 0 => q.state[q.alias] = "completed")

PromptValid(s, p) == PromptFits(s, p) /\ s.prompts[p].expires # ZeroTime

(* brokerSessionValid, but for its prompts.                                *)
OwnerFits(s) ==
  /\ (s.create = "none") <=> (s.remote = 0)
  /\ s.create = "none" => \A p \in Prompts, n \in Seqs : s.prompts[p].link[n] = "none"
  /\ s.retired => s.retiring /\ s.create \in {"none", "deleted"}
  /\ ~s.retired => s.create # "deleted"
  /\ (s.current = None) <=> (\A p \in Prompts : ~s.prompts[p].present)
  /\ s.current # None => s.prompts[s.current].present

SessionValid(s) ==
  OwnerFits(s) /\ \A p \in Prompts : s.prompts[p].present => PromptValid(s, p)

LedgerValid(L) == \A o \in Owners : SessionValid(L[o])
=============================================================================
