---------------------------- MODULE OperationLog ----------------------------
(***************************************************************************)
(* Capacity of the broker's ledger: the operation log of every owner       *)
(* (brokerRecordOperation), the limit on the bytes of the ledger and the   *)
(* reserve held back from ordinary growth (commitCapacityLocked,           *)
(* brokerLedgerReserveBytes).                                              *)
(*                                                                         *)
(* Every action is one critical section of the broker's mutex that commits *)
(* the ledger; what happens between them is in LifecycleBroker.  A refused *)
(* commit (operation conflict, no slot, errBrokerCapacity) precedes all    *)
(* disk I/O and leaves the old ledger, so a refusal is no step here.       *)
(* Leases are not modelled: a lease that has run out closes the prompt     *)
(* (Sweep), and a request that holds no lease is refused.                  *)
(*                                                                         *)
(* The bytes of the ledger are a weighted sum of what it records.  Owners, *)
(* prompts, operations, creations, response identities, call maps and      *)
(* proofs have the sizes of the record Bytes; state names have size 0, as  *)
(* the reserve of the code covers their growth with its margin.            *)
(*                                                                         *)
(* The caller is the supervisor of store.go's comment: it freezes one      *)
(* settlement per prompt and one retirement per owner, retries them, has a *)
(* prompt's settlement recorded before it asks for the next prompt, and    *)
(* sends no new settlement to a retired owner.  Identifiers of ordinary    *)
(* operations may be reused for other requests.                            *)
(***************************************************************************)
EXTENDS Naturals, FiniteSets, FiniteSetsExt

CONSTANTS
  Owners,        \* owners: the keys of brokerLedger.Sessions
  Ids,           \* identifiers of ordinary operations
  SettleId,      \* SettleId[n]: the frozen settlement id of the n-th prompt
  RetireId,      \* the frozen retirement id of an owner
  OpLimit,       \* brokerOperationLimit
  SessionLimit,  \* owners a ledger holds
  PromptLimit,   \* prompts an owner holds
  LedgerLimit,   \* brokerMaxLedgerBytes
  Reserve,       \* brokerOwnerReserveBytes
  Bytes          \* Bytes[k]: what an entry of kind k adds to the ledger

Kinds == {"session", "prompt", "invocation", "operation", "create", "identity",
          "calls", "proof", "principal"}

ASSUME LimitsAssumption ==
  /\ OpLimit \in Nat /\ SessionLimit \in Nat /\ PromptLimit \in Nat
  /\ LedgerLimit \in Nat /\ Reserve \in Nat
  /\ Bytes \in [Kinds -> Nat]

ASSUME IdsAssumption ==
  /\ RetireId \notin Ids
  /\ \A n \in 1..PromptLimit :
       /\ SettleId[n] \notin Ids \cup {RetireId}
       /\ \A m \in 1..PromptLimit : SettleId[m] = SettleId[n] => m = n

(* What store.go says an owner may still need once it is admitted: its     *)
(* session id, one response identity, a settlement and a retirement, each  *)
(* with its operation and its proof.                                       *)
ASSUME ReserveAssumption ==
  Reserve >= Bytes["create"] + Bytes["identity"]
               + 2 * (Bytes["operation"] + Bytes["proof"])

\* The owners are the digests that can be keys of the ledger's map.
ASSUME OwnersAssumption == IsFiniteSet(Owners)

\* 128 bytes of 32 MiB: an empty ledger has room for the first principal.
ASSUME PrincipalAssumption == Bytes["principal"] <= LedgerLimit

VARIABLES
  sessions,   \* sessions[o]: the session record of owner o
  principal,  \* a principal digest is pinned
  live        \* live[o]: the request of owner o in b.active

vars == <<sessions, principal, live>>

-----------------------------------------------------------------------------
(* State.                                                                  *)

Paths == {"responses", "renew", "settle", "retire"}

(* What the digest of an operation covers: its path and its context.       *)
Request ==
  [id: Ids \cup {SettleId[n] : n \in 1..PromptLimit} \cup {RetireId},
   path: Paths, prompt: 0..PromptLimit]

(* Prompts of an owner are numbered in the order they open; only the last  *)
(* can be unsettled, and only its last invocation can be unfinished.       *)
Session ==
  [known: BOOLEAN, ops: SUBSET Request, prompts: 0..PromptLimit,
   prompt: {"none", "open", "closing", "settled"},
   invocation: {"none", "reserved", "intent", "rejected", "uncertain",
                "accepted", "completed", "settled"},
   create: {"none", "intent", "known", "deleted"},
   retiring: BOOLEAN, retired: BOOLEAN,
   invoked: Nat, renewed: Nat, accepted: Nat, mapped: Nat]

NoSession ==
  [known |-> FALSE, ops |-> {}, prompts |-> 0, prompt |-> "none",
   invocation |-> "none", create |-> "none", retiring |-> FALSE,
   retired |-> FALSE, invoked |-> 0, renewed |-> 0, accepted |-> 0,
   mapped |-> 0]

Init ==
  /\ sessions = [o \in Owners |-> NoSession]
  /\ principal = FALSE
  /\ live = [o \in Owners |-> "idle"]

-----------------------------------------------------------------------------
(* Bytes.                                                                  *)

If(b) == IF b THEN 1 ELSE 0

SizeOf(s) ==
  IF ~s.known THEN 0
  ELSE Bytes["session"]
         + s.prompts * Bytes["prompt"]
         + s.invoked * Bytes["invocation"]
         + Cardinality(s.ops) * Bytes["operation"]
         + If(s.create # "none") * Bytes["create"]
         + s.accepted * Bytes["identity"]
         + s.mapped * Bytes["calls"]
         + (s.prompts - If(s.prompt \in {"open", "closing"}) + If(s.retired))
             * Bytes["proof"]

Size(ss, pinned) ==
  If(pinned) * Bytes["principal"] + MapThenSumSet(LAMBDA o : SizeOf(ss[o]), Owners)

\* Mutant: only owners with an unsettled prompt keep a reserve.
Reserved_OpenPrompts(ss, pinned) ==
  If(~pinned) * Bytes["principal"]
    + Reserve * Cardinality({o \in Owners : ss[o].prompt \in {"open", "closing"}})

(* brokerLedgerReserveBytes: every owner that is not retired, and the      *)
(* first principal.                                                        *)
Reserved(ss, pinned) ==
  If(~pinned) * Bytes["principal"]
    + Reserve * Cardinality({o \in Owners : ss[o].known /\ ~ss[o].retired})

(* A commit that only spends what is reserved must fit the file; ordinary  *)
(* growth must leave the reserve of every owner.  (The code exempts a      *)
(* commit that changes nothing: here that is no step.)                     *)
Fits(ss, pinned) == Size(ss, pinned) <= LedgerLimit

FitsOrdinary(ss) ==
  Size(ss, principal) + Reserved(ss, principal) <= LedgerLimit

With(o, s) == [sessions EXCEPT ![o] = s]

Commit(o, s) ==
  /\ Fits(With(o, s), principal)
  /\ sessions' = With(o, s)
  /\ UNCHANGED principal

CommitOrdinary(o, s) ==
  /\ FitsOrdinary(With(o, s))
  /\ sessions' = With(o, s)
  /\ UNCHANGED principal

-----------------------------------------------------------------------------
(* The operation log.                                                      *)

Responses(id, n) == [id |-> id, path |-> "responses", prompt |-> n]
Renewal(id, n) == [id |-> id, path |-> "renew", prompt |-> n]
Settlement(n) == [id |-> SettleId[n], path |-> "settle", prompt |-> n]
Retirement == [id |-> RetireId, path |-> "retire", prompt |-> 0]

\* Mutant: only the retirement has a slot of its own.
SlotLimit_SettleIsOrdinary(path) ==
  IF path = "retire" THEN OpLimit + 1 ELSE OpLimit

SlotLimit(path) ==
  CASE path = "settle" -> OpLimit + 1
    [] path = "retire" -> OpLimit + 2
    [] OTHER -> OpLimit

\* The identifier is recorded, for this request or for another one.
Taken(s, id) == \E q \in s.ops : q.id = id

\* Mutant: an identifier is compared with its digest only.
Recordable_SameRequest(s, r) ==
  r \notin s.ops /\ Cardinality(s.ops) < SlotLimit(r.path)

(* brokerRecordOperation records a new request: its identifier is not      *)
(* taken and the log has a slot for its path.                              *)
Recordable(s, r) ==
  ~Taken(s, r.id) /\ Cardinality(s.ops) < SlotLimit(r.path)

(* brokerEnsureSession: the owner is in the ledger or the ledger has room  *)
(* for one more.                                                           *)
Ensurable(o) ==
  \/ sessions[o].known
  \/ Cardinality({q \in Owners : sessions[q].known}) < SessionLimit

Recorded(s, r) == [s EXCEPT !.known = TRUE, !.ops = @ \cup {r}]

(* brokerEnsurePrompt for a prompt that is not in the ledger: n is the     *)
(* next one of an owner that is not going, the current prompt is settled.  *)
(* The last conjunct is the supervisor's: the settlement of the current    *)
(* prompt is recorded.                                                     *)
Opens(s, n) ==
  /\ ~s.retiring /\ ~s.retired
  /\ n = s.prompts + 1 /\ n <= PromptLimit
  /\ s.prompt \in {"none", "settled"}
  /\ s.prompts > 0 => Settlement(s.prompts) \in s.ops

Opened(s, n) ==
  [s EXCEPT !.prompts = n, !.prompt = "open", !.invocation = "none"]

\* Prompt n is the current one and open, or opens now.
Admits(s, n) == Opens(s, n) \/ (n = s.prompts /\ s.prompt = "open" /\ ~s.retiring)

Ensured(s, n) == IF n = s.prompts THEN s ELSE Opened(s, n)

\* brokerPrompt.Closing is set on the current prompt.
Closed(s) == [s EXCEPT !.prompt = IF @ = "open" THEN "closing" ELSE @]

-----------------------------------------------------------------------------
(* Requests.                                                               *)

(* reserveInvocation: an unused operation admits one invocation of the     *)
(* owner; a recorded one is a conflict, there is no replay.                *)
Invoke(o, id, n) ==
  LET s == sessions[o]
      r == Responses(id, n)
  IN
  /\ live[o] = "idle"
  /\ Ensurable(o) /\ Recordable(s, r) /\ Admits(s, n)
  /\ CommitOrdinary(o, [Recorded(Ensured(s, n), r) EXCEPT
                          !.invocation = "reserved", !.invoked = @ + 1])
  /\ live' = [live EXCEPT ![o] = "running"]

(* control, renewal: an unused operation opens the prompt or extends its   *)
(* lease.  A recorded one is acknowledged again and changes nothing.       *)
Renew(o, id, n) ==
  LET s == sessions[o]
      r == Renewal(id, n)
  IN
  /\ Ensurable(o) /\ Recordable(s, r) /\ Admits(s, n)
  /\ CommitOrdinary(o, [Recorded(Ensured(s, n), r) EXCEPT !.renewed = @ + 1])
  /\ UNCHANGED live

(* control, settlement of a prompt of the ledger: may spend the reserve.   *)
Settled(s) == Closed(Recorded(s, Settlement(s.prompts)))

CanSettle(s) ==
  /\ s.prompts > 0 /\ ~s.retired
  /\ Settlement(s.prompts) \in s.ops \/ Recordable(s, Settlement(s.prompts))

Settle(o) ==
  /\ CanSettle(sessions[o])
  /\ Commit(o, Settled(sessions[o]))
  /\ UNCHANGED live

(* control, settlement of a prompt the ledger does not have: it is opened  *)
(* to be closed, which is ordinary growth.                                 *)
SettleUnknown(o, n) ==
  LET s == sessions[o] IN
  /\ Ensurable(o) /\ Opens(s, n) /\ Recordable(s, Settlement(n))
  /\ CommitOrdinary(o, Settled(Opened(s, n)))
  /\ UNCHANGED live

Retiring(s) == [Closed(Recorded(s, Retirement)) EXCEPT !.retiring = TRUE]

CanRetire(s) == Retirement \in s.ops \/ Recordable(s, Retirement)

(* control, retirement: ordinary growth only for an owner not yet known.   *)
Retire(o) ==
  LET s == sessions[o] IN
  /\ Ensurable(o) /\ CanRetire(s)
  /\ IF s.known THEN Commit(o, Retiring(s)) ELSE CommitOrdinary(o, Retiring(s))
  /\ UNCHANGED live

\* closePrompt: the caller of the current prompt is gone.
ClosePrompt(o) ==
  /\ sessions[o].prompt = "open"
  /\ Commit(o, Closed(sessions[o]))
  /\ UNCHANGED live

(* sweep: the leases of the prompts of S have run out.                     *)
Sweep(S) ==
  LET ss == [o \in Owners |-> IF o \in S THEN Closed(sessions[o]) ELSE sessions[o]] IN
  /\ Fits(ss, principal)
  /\ sessions' = ss
  /\ UNCHANGED <<principal, live>>

-----------------------------------------------------------------------------
(* The commits of the request in flight.                                   *)

(* pinPrincipal: the first remote request of the ledger.                   *)
PinPrincipal(o) ==
  /\ live[o] = "running" /\ ~principal
  /\ Fits(sessions, TRUE)
  /\ principal' = TRUE
  /\ UNCHANGED <<sessions, live>>

\* Authority a create or an inference needs at its commit.
Authorised(s) == s.prompt = "open" /\ ~s.retiring

CanCreate(s) == s.create = "none" /\ s.invocation = "reserved" /\ Authorised(s)

Intended(s) == [s EXCEPT !.create = "intent"]

CreateIntent(o) ==
  /\ live[o] = "running" /\ principal
  /\ CanCreate(sessions[o])
  /\ Commit(o, Intended(sessions[o]))
  /\ UNCHANGED live

(* The create is acknowledged, or disproved: then invoke returns an error. *)
Created(o) ==
  /\ live[o] = "running" /\ sessions[o].create = "intent"
  /\ \/ /\ Commit(o, [sessions[o] EXCEPT !.create = "known"])
        /\ UNCHANGED live
     \/ /\ Commit(o, [sessions[o] EXCEPT !.create = "none"])
        /\ live' = [live EXCEPT ![o] = "failing"]

InferenceIntent(o) ==
  /\ live[o] = "running" /\ principal
  /\ sessions[o].create = "known" /\ sessions[o].invocation = "reserved"
  /\ Authorised(sessions[o])
  /\ Commit(o, [sessions[o] EXCEPT !.invocation = "intent"])
  /\ UNCHANGED live

InferenceRejected(o) ==
  /\ live[o] = "running" /\ sessions[o].invocation = "intent"
  /\ Commit(o, [sessions[o] EXCEPT !.invocation = "rejected"])
  /\ live' = [live EXCEPT ![o] = "failing"]

(* recordResponseIdentity: acceptance spends the reserve, whatever became  *)
(* of the prompt.                                                          *)
Accepted(s) == [s EXCEPT !.invocation = "accepted", !.accepted = @ + 1]

Accept(o) ==
  /\ live[o] = "running" /\ sessions[o].invocation = "intent"
  /\ Commit(o, Accepted(sessions[o]))
  /\ UNCHANGED live

(* commitCompletedResponse: the call map is ordinary growth.  If it does   *)
(* not fit the response stays accepted and invoke returns the error.       *)
Complete(o) ==
  /\ live[o] = "running" /\ sessions[o].invocation = "accepted"
  /\ sessions[o].prompt = "open"
  /\ CommitOrdinary(o, [sessions[o] EXCEPT !.invocation = "completed",
                                           !.mapped = @ + 1])
  /\ UNCHANGED live

(* finishInvocation: a completed invocation leaves the prompt open, any    *)
(* error closes it; an intent whose outcome is unknown is uncertain.       *)
Finish(o) ==
  LET s == sessions[o] IN
  /\ live[o] # "idle"
  /\ IF s.invocation = "completed"
       THEN Commit(o, s)
       ELSE \E st \in CASE s.invocation = "reserved" -> {"rejected"}
                        [] s.invocation = "intent" -> {"rejected", "uncertain"}
                        [] OTHER -> {s.invocation} :
              Commit(o, [Closed(s) EXCEPT !.invocation = st])
  /\ live' = [live EXCEPT ![o] = "idle"]

-----------------------------------------------------------------------------
(* Cleanup and restart.                                                    *)

(* The evidence reconcile commits: no request in flight, no creation or    *)
(* inference whose acceptance is unknown.                                  *)
Provable(o) ==
  /\ live[o] = "idle"
  /\ sessions[o].create # "intent"
  /\ sessions[o].invocation \notin {"intent", "uncertain"}
  /\ ~sessions[o].retired

Proved(s) ==
  [s EXCEPT !.prompt = IF @ = "closing" THEN "settled" ELSE @,
            !.invocation = IF s.prompt = "closing" /\ @ \notin {"none", "completed"}
                             THEN "settled" ELSE @]

Gone(s) ==
  [Proved(s) EXCEPT !.retired = TRUE,
                    !.create = IF @ = "known" THEN "deleted" ELSE @]

(* A worker that captured the owner before its retirement settles only.    *)
Prove(o) ==
  /\ Provable(o)
  /\ \/ sessions[o].prompt = "closing" /\ Commit(o, Proved(sessions[o]))
     \/ sessions[o].retiring /\ Commit(o, Gone(sessions[o]))
  /\ UNCHANGED live

(* newLifecycleBroker: no request survives, every unsettled prompt closes. *)
Restart ==
  /\ LET ss == [o \in Owners |-> Closed(sessions[o])] IN
       Fits(ss, principal) /\ sessions' = ss
  /\ live' = [o \in Owners |-> "idle"]
  /\ UNCHANGED principal

Next ==
  \/ \E o \in Owners :
       \/ \E id \in Ids, n \in 1..PromptLimit : Invoke(o, id, n) \/ Renew(o, id, n)
       \/ Settle(o)
       \/ \E n \in 1..PromptLimit : SettleUnknown(o, n)
       \/ Retire(o)
       \/ ClosePrompt(o)
       \/ PinPrincipal(o)
       \/ CreateIntent(o)
       \/ Created(o)
       \/ InferenceIntent(o)
       \/ InferenceRejected(o)
       \/ Accept(o)
       \/ Complete(o)
       \/ Finish(o)
       \/ Prove(o)
  \/ \E S \in SUBSET Owners : Sweep(S)
  \/ Restart

Spec == Init /\ [][Next]_vars

-----------------------------------------------------------------------------
(* Properties.                                                             *)

(* Type invariant: every record of the ledger has the fields of store.go.  *)
TypeOK ==
  /\ sessions \in [Owners -> Session]
  /\ principal \in BOOLEAN
  /\ live \in [Owners -> {"idle", "running", "failing"}]

(* However full its log is, an owner's retirement can be recorded, and so  *)
(* can the settlement of its unsettled prompt until a retirement closes    *)
(* that prompt itself (the limits at the head of broker.go).               *)
SlotsForCleanup ==
  \A o \in Owners :
    LET s == sessions[o] IN
    /\ CanRetire(s)
    /\ s.prompt \in {"open", "closing"} /\ ~s.retiring => CanSettle(s)

(* The file never is too full for what an admitted owner still needs: its  *)
(* creation, the acceptance of its response, its settlement and retirement *)
(* and their proofs, whatever the other owners spend (commitCapacityLocked *)
(* and brokerLedgerReserveBytes).                                          *)
RoomForCleanup ==
  /\ ~principal => Fits(sessions, TRUE)
  /\ \A o \in Owners :
       LET s == sessions[o]
           HasRoom(x) == Fits(With(o, x), principal)
       IN
       /\ live[o] = "running" /\ CanCreate(s) => HasRoom(Intended(s))
       /\ live[o] = "running" /\ s.invocation = "intent" => HasRoom(Accepted(s))
       /\ CanSettle(s) => HasRoom(Settled(s))
       /\ s.known /\ CanRetire(s) => HasRoom(Retiring(s))
       /\ Provable(o) /\ s.prompt = "closing" => HasRoom(Proved(s))
       /\ Provable(o) /\ s.retiring => HasRoom(Gone(s))

Of(s, path) == {r \in s.ops : r.path = path}

(* One identifier stands for one request and takes effect once: every      *)
(* invocation and every granted renewal of an owner has a record of its    *)
(* own in the log, whatever is replayed, reused or refused later in the    *)
(* same commit (brokerRecordOperation under commitCapacityLocked).         *)
RecordedOnce ==
  \A o \in Owners :
    LET s == sessions[o] IN
    /\ \A q, r \in s.ops : q.id = r.id => q = r
    /\ s.invoked = Cardinality(Of(s, "responses"))
    /\ s.renewed = Cardinality(Of(s, "renew"))
=============================================================================
