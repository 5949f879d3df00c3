------------------------- MODULE OperationLogProofs -------------------------
(* The operation log of an owner always has a slot for the settlement and  *)
(* the retirement that may still come, the file has room for all that an   *)
(* admitted owner is owed, and every request is recorded once, for all     *)
(* owners, identifiers, sizes and limits.  The slots and the records come  *)
(* first, and hold whatever the file admits; then the sums over the owners *)
(* and the bytes.                                                          *)
EXTENDS OperationLog, FiniteSetTheorems, WellFoundedInduction, TLAPS

-----------------------------------------------------------------------------
(* What a commit may do to the record of one owner.                        *)

\* The log stays.
Keeps(s, x) ==
  /\ x.ops = s.ops /\ x.prompts = s.prompts /\ x.retiring = s.retiring
  /\ x.invoked = s.invoked /\ x.renewed = s.renewed
  /\ x.prompt = "none" <=> s.prompt = "none"
  /\ x.retired => s.retired \/ s.retiring

\* An invocation or a renewal takes an ordinary slot.
Ordinary(s, x) ==
  \E r \in Request :
    /\ r.id \in Ids /\ r.path \in {"responses", "renew"}
    /\ ~Taken(s, r.id) /\ Cardinality(s.ops) < OpLimit
    /\ x.ops = s.ops \cup {r}
    /\ ~s.retiring /\ ~x.retiring /\ x.retired = s.retired
    /\ x.prompts \in {s.prompts, s.prompts + 1} /\ x.prompts > 0
    /\ x.invoked = s.invoked + If(r.path = "responses")
    /\ x.renewed = s.renewed + If(r.path = "renew")

\* The settlement of the last prompt is recorded, or recorded again.
Settles(s, x) ==
  \E n \in 1..PromptLimit :
    /\ Settlement(n) \in s.ops \/ Recordable(s, Settlement(n))
    /\ x.ops = s.ops \cup {Settlement(n)}
    /\ x.prompts = n /\ n \in {s.prompts, s.prompts + 1}
    /\ x.retiring = s.retiring /\ x.retired = s.retired
    /\ x.invoked = s.invoked /\ x.renewed = s.renewed

\* The retirement is recorded, or recorded again.
Retires(s, x) ==
  /\ CanRetire(s)
  /\ x.ops = s.ops \cup {Retirement} /\ x.retiring
  /\ x.prompts = s.prompts /\ (x.prompt = "none" <=> s.prompt = "none")
  /\ x.invoked = s.invoked /\ x.renewed = s.renewed

LogStep(s, x) == Keeps(s, x) \/ Ordinary(s, x) \/ Settles(s, x) \/ Retires(s, x)

Steps ==
  /\ sessions' \in [Owners -> Session]
  /\ \A o \in Owners : LogStep(sessions[o], sessions'[o])

LEMMA OneChanges ==
  ASSUME TypeOK, NEW o \in Owners, NEW x \in Session,
         sessions' = With(o, x), LogStep(sessions[o], x)
  PROVE  Steps
<1>1. sessions' = [sessions EXCEPT ![o] = x] BY DEF With
<1>2. sessions \in [Owners -> Session] BY DEF TypeOK
<1>3. sessions' \in [Owners -> Session] BY <1>1, <1>2
<1>4. ASSUME NEW q \in Owners PROVE LogStep(sessions[q], sessions'[q])
  <2>1. CASE q = o BY <1>1, <1>2, <2>1
  <2>2. CASE q # o BY <1>1, <1>2, <2>2 DEF LogStep, Keeps
  <2>3. QED BY <2>1, <2>2
<1>5. QED BY <1>3, <1>4 DEF Steps

LEMMA NoneChanges == ASSUME TypeOK, sessions' = sessions PROVE Steps
BY DEF TypeOK, Steps, LogStep, Keeps

LEMMA EachChanges ==
  ASSUME TypeOK, NEW ss, sessions' = ss, ss \in [Owners -> Session],
         \A o \in Owners : Keeps(sessions[o], ss[o])
  PROVE  Steps
BY DEF Steps, LogStep

-----------------------------------------------------------------------------
(* The helpers.                                                            *)

LEMMA RequestTypes ==
  ASSUME NEW n \in 1..PromptLimit, NEW id \in Ids
  PROVE  /\ Responses(id, n) \in Request /\ Renewal(id, n) \in Request
         /\ Settlement(n) \in Request
BY LimitsAssumption DEF Responses, Renewal, Settlement, Request, Paths

LEMMA RetirementType == Retirement \in Request
BY LimitsAssumption DEF Retirement, Request, Paths

LEMMA ClosedKeeps ==
  ASSUME NEW s \in Session PROVE Closed(s) \in Session /\ Keeps(s, Closed(s))
BY DEF Closed, Session, Keeps

LEMMA OpenedType ==
  ASSUME NEW s \in Session, NEW n \in 1..PromptLimit, Opens(s, n)
  PROVE  LET x == Opened(s, n) IN
         /\ x \in Session /\ x.ops = s.ops /\ x.prompts = n /\ n = s.prompts + 1
         /\ x.retiring = s.retiring /\ x.retired = s.retired
         /\ x.invoked = s.invoked /\ x.renewed = s.renewed
<1>1. n \in 0..PromptLimit /\ n = s.prompts + 1 BY LimitsAssumption DEF Opens
<1>2. QED BY <1>1 DEF Opened, Session

LEMMA EnsuredType ==
  ASSUME NEW s \in Session, NEW n \in 1..PromptLimit, Admits(s, n)
  PROVE  LET x == Ensured(s, n) IN
         /\ x \in Session /\ x.ops = s.ops /\ x.prompts = n
         /\ n \in {s.prompts, s.prompts + 1}
         /\ x.retiring = s.retiring /\ x.retired = s.retired /\ ~s.retiring
         /\ x.invoked = s.invoked /\ x.renewed = s.renewed
<1>1. CASE n = s.prompts
  BY <1>1, LimitsAssumption DEF Admits, Opens, Ensured, Session
<1>2. CASE n # s.prompts
  <2>1. Opens(s, n) /\ ~s.retiring /\ n = s.prompts + 1
    BY <1>2 DEF Admits, Opens
  <2>2. QED BY <1>2, <2>1, OpenedType DEF Ensured
<1>3. QED BY <1>1, <1>2

LEMMA SettledStep ==
  ASSUME NEW s \in Session, NEW y \in Session, y.prompts \in 1..PromptLimit,
         y.ops = s.ops, y.prompts \in {s.prompts, s.prompts + 1},
         y.retiring = s.retiring, y.retired = s.retired,
         y.invoked = s.invoked, y.renewed = s.renewed,
         Settlement(y.prompts) \in s.ops \/ Recordable(s, Settlement(y.prompts))
  PROVE  Settled(y) \in Session /\ Settles(s, Settled(y))
<1> DEFINE r == Settlement(y.prompts)
           z == Recorded(y, r)
<1>1. r \in Request BY LimitsAssumption DEF Settlement, Request, Paths
<1>2. /\ z \in Session /\ z.ops = y.ops \cup {r} /\ z.prompts = y.prompts
      /\ z.retiring = y.retiring /\ z.retired = y.retired
      /\ z.invoked = y.invoked /\ z.renewed = y.renewed
  BY <1>1 DEF Recorded, Session
<1>3. Settled(y) = Closed(z) BY DEF Settled
<1> HIDE DEF z
<1>4. /\ Closed(z) \in Session /\ Closed(z).ops = z.ops /\ Closed(z).prompts = z.prompts
      /\ Closed(z).retiring = z.retiring /\ Closed(z).retired = z.retired
      /\ Closed(z).invoked = z.invoked /\ Closed(z).renewed = z.renewed
  BY <1>2 DEF Closed, Session
<1> DEFINE x == Settled(y)
<1>5. /\ x.ops = s.ops \cup {Settlement(y.prompts)} /\ x.prompts = y.prompts
      /\ x.retiring = s.retiring /\ x.retired = s.retired
      /\ x.invoked = s.invoked /\ x.renewed = s.renewed
  BY <1>2, <1>3, <1>4
<1> HIDE DEF x, r
<1>6. Settles(s, x) BY <1>5 DEF Settles
<1>7. QED BY <1>3, <1>4, <1>6 DEF x

LEMMA RetiringStep ==
  ASSUME NEW s \in Session, CanRetire(s)
  PROVE  Retiring(s) \in Session /\ Retires(s, Retiring(s))
<1> DEFINE z == Recorded(s, Retirement)
<1>1. /\ z \in Session /\ z.ops = s.ops \cup {Retirement} /\ z.prompts = s.prompts
      /\ z.prompt = s.prompt /\ z.invoked = s.invoked /\ z.renewed = s.renewed
  BY RetirementType DEF Recorded, Session
<1>2. Retiring(s) = [Closed(z) EXCEPT !.retiring = TRUE] BY DEF Retiring
<1> HIDE DEF z
<1>3. Closed(z) \in Session /\ Keeps(z, Closed(z)) BY <1>1, ClosedKeeps
<1>4. /\ Retiring(s) \in Session /\ Retiring(s).retiring
      /\ Retiring(s).ops = Closed(z).ops /\ Retiring(s).prompts = Closed(z).prompts
      /\ Retiring(s).prompt = Closed(z).prompt /\ Retiring(s).invoked = Closed(z).invoked
      /\ Retiring(s).renewed = Closed(z).renewed
  BY <1>2, <1>3 DEF Session
<1>5. QED BY <1>1, <1>3, <1>4 DEF Retires, Keeps

LEMMA OrdinaryStep ==
  ASSUME NEW s \in Session, NEW n \in 1..PromptLimit, Admits(s, n), NEW r \in Request,
         r.id \in Ids, r.path \in {"responses", "renew"}, Recordable(s, r),
         NEW x \in Session,
         x.ops = s.ops \cup {r}, x.prompts = n, x.retiring = s.retiring,
         x.retired = s.retired,
         x.invoked = s.invoked + If(r.path = "responses"),
         x.renewed = s.renewed + If(r.path = "renew")
  PROVE  LogStep(s, x)
<1>1. ~Taken(s, r.id) /\ Cardinality(s.ops) < OpLimit
  BY DEF Recordable, SlotLimit
<1>2. n \in {s.prompts, s.prompts + 1} /\ ~s.retiring
  BY EnsuredType
<1>3. n > 0 BY LimitsAssumption
<1>4. Ordinary(s, x) BY <1>1, <1>2, <1>3 DEF Ordinary
<1>5. QED BY <1>4 DEF LogStep

-----------------------------------------------------------------------------
(* Every action is such a step of the records.                             *)

LEMMA InvokeSteps ==
  ASSUME TypeOK, NEW o \in Owners, NEW id \in Ids, NEW n \in 1..PromptLimit, Invoke(o, id, n)
  PROVE  Steps
<1> DEFINE s == sessions[o]
           r == Responses(id, n)
           y == Ensured(s, n)
           x == [Recorded(y, r) EXCEPT !.invocation = "reserved", !.invoked = @ + 1]
<1>1. s \in Session BY DEF TypeOK
<1>2. Recordable(s, r) /\ Admits(s, n) /\ sessions' = With(o, x)
  BY DEF Invoke, CommitOrdinary
<1>3. r \in Request /\ r.id \in Ids /\ r.path = "responses"
  BY RequestTypes DEF Responses
<1>4. /\ y \in Session /\ y.ops = s.ops /\ y.prompts = n
      /\ y.retiring = s.retiring /\ y.retired = s.retired
      /\ y.invoked = s.invoked /\ y.renewed = s.renewed
  BY <1>1, <1>2, EnsuredType
<1> HIDE DEF y, r
<1>5. /\ x \in Session /\ x.ops = y.ops \cup {r} /\ x.prompts = y.prompts
      /\ x.retiring = y.retiring /\ x.retired = y.retired
      /\ x.invoked = y.invoked + 1 /\ x.renewed = y.renewed
  <2> DEFINE z == Recorded(y, r)
             k == z.invoked + 1
  <2>1. /\ z \in Session /\ z.ops = y.ops \cup {r} /\ z.prompts = y.prompts
        /\ z.retiring = y.retiring /\ z.retired = y.retired
        /\ z.invoked = y.invoked /\ z.renewed = y.renewed
    BY <1>3, <1>4 DEF Recorded, Session
  <2>2. x = [z EXCEPT !.invocation = "reserved", !.invoked = k] OBVIOUS
  <2> HIDE DEF z, x
  <2>3. k \in Nat BY <2>1 DEF Session
  <2>4. k = y.invoked + 1 BY <2>1
  <2> HIDE DEF k
  <2>5. QED BY <2>1, <2>2, <2>3, <2>4 DEF Session
<1>6. x.invoked = s.invoked + If(r.path = "responses") /\ x.renewed = s.renewed + If(r.path = "renew")
  BY <1>1, <1>3, <1>4, <1>5 DEF If, Session
<1> HIDE DEF x
<1>7. LogStep(s, x)
  BY <1>1, <1>2, <1>3, <1>4, <1>5, <1>6, OrdinaryStep
<1>8. QED BY <1>2, <1>5, <1>7, OneChanges

LEMMA RenewSteps ==
  ASSUME TypeOK, NEW o \in Owners, NEW id \in Ids, NEW n \in 1..PromptLimit, Renew(o, id, n)
  PROVE  Steps
<1> DEFINE s == sessions[o]
           r == Renewal(id, n)
           y == Ensured(s, n)
           x == [Recorded(y, r) EXCEPT !.renewed = @ + 1]
<1>1. s \in Session BY DEF TypeOK
<1>2. Recordable(s, r) /\ Admits(s, n) /\ sessions' = With(o, x)
  BY DEF Renew, CommitOrdinary
<1>3. r \in Request /\ r.id \in Ids /\ r.path = "renew"
  BY RequestTypes DEF Renewal
<1>4. /\ y \in Session /\ y.ops = s.ops /\ y.prompts = n
      /\ y.retiring = s.retiring /\ y.retired = s.retired
      /\ y.invoked = s.invoked /\ y.renewed = s.renewed
  BY <1>1, <1>2, EnsuredType
<1> HIDE DEF y, r
<1>5. /\ x \in Session /\ x.ops = y.ops \cup {r} /\ x.prompts = y.prompts
      /\ x.retiring = y.retiring /\ x.retired = y.retired
      /\ x.invoked = y.invoked /\ x.renewed = y.renewed + 1
  <2> DEFINE z == Recorded(y, r)
             k == z.renewed + 1
  <2>1. /\ z \in Session /\ z.ops = y.ops \cup {r} /\ z.prompts = y.prompts
        /\ z.retiring = y.retiring /\ z.retired = y.retired
        /\ z.invoked = y.invoked /\ z.renewed = y.renewed
    BY <1>3, <1>4 DEF Recorded, Session
  <2>2. x = [z EXCEPT !.renewed = k] OBVIOUS
  <2> HIDE DEF z, x
  <2>3. k \in Nat BY <2>1 DEF Session
  <2>4. k = y.renewed + 1 BY <2>1
  <2> HIDE DEF k
  <2>5. QED BY <2>1, <2>2, <2>3, <2>4 DEF Session
<1>6. x.invoked = s.invoked + If(r.path = "responses") /\ x.renewed = s.renewed + If(r.path = "renew")
  BY <1>1, <1>3, <1>4, <1>5 DEF If, Session
<1> HIDE DEF x
<1>7. LogStep(s, x)
  BY <1>1, <1>2, <1>3, <1>4, <1>5, <1>6, OrdinaryStep
<1>8. QED BY <1>2, <1>5, <1>7, OneChanges

LEMMA SettleSteps ==
  ASSUME TypeOK, NEW o \in Owners, Settle(o)
  PROVE  Steps
<1> DEFINE s == sessions[o]
<1>1. s \in Session /\ s.prompts \in 0..PromptLimit BY DEF TypeOK, Session
<1>2. CanSettle(s) /\ sessions' = With(o, Settled(s)) BY DEF Settle, Commit
<1>3. s.prompts \in 1..PromptLimit BY <1>1, <1>2, LimitsAssumption DEF CanSettle
<1>4. Settlement(s.prompts) \in s.ops \/ Recordable(s, Settlement(s.prompts))
  BY <1>2 DEF CanSettle
<1> HIDE DEF s
<1>5. Settled(s) \in Session /\ Settles(s, Settled(s))
  BY <1>1, <1>3, <1>4, SettledStep
<1>6. QED BY <1>2, <1>5, OneChanges DEF LogStep, s

LEMMA SettleUnknownSteps ==
  ASSUME TypeOK, NEW o \in Owners, NEW n \in 1..PromptLimit, SettleUnknown(o, n)
  PROVE  Steps
<1> DEFINE s == sessions[o]
           y == Opened(s, n)
<1>1. s \in Session BY DEF TypeOK
<1>2. Opens(s, n) /\ Recordable(s, Settlement(n)) /\ sessions' = With(o, Settled(y))
  BY DEF SettleUnknown, CommitOrdinary
<1>3. /\ y \in Session /\ y.ops = s.ops /\ y.prompts = n /\ n = s.prompts + 1
      /\ y.retiring = s.retiring /\ y.retired = s.retired
      /\ y.invoked = s.invoked /\ y.renewed = s.renewed
  BY <1>1, <1>2, OpenedType
<1> HIDE DEF y, s
<1>4. Settled(y) \in Session /\ Settles(s, Settled(y))
  BY <1>1, <1>2, <1>3, SettledStep
<1>5. QED BY <1>2, <1>4, OneChanges DEF LogStep, s

LEMMA RetireSteps ==
  ASSUME TypeOK, NEW o \in Owners, Retire(o)
  PROVE  Steps
<1>1. sessions[o] \in Session BY DEF TypeOK
<1>2. CanRetire(sessions[o]) /\ sessions' = With(o, Retiring(sessions[o]))
  BY DEF Retire, Commit, CommitOrdinary
<1>3. Retiring(sessions[o]) \in Session /\ Retires(sessions[o], Retiring(sessions[o]))
  BY <1>1, <1>2, RetiringStep
<1>4. QED BY <1>2, <1>3, OneChanges DEF LogStep

(* The commits that leave the log as it is.                                *)
LEMMA FlightSteps ==
  ASSUME TypeOK, NEW o \in Owners,
         \/ ClosePrompt(o) \/ CreateIntent(o) \/ Created(o) \/ InferenceIntent(o)
         \/ InferenceRejected(o) \/ Accept(o) \/ Complete(o) \/ Finish(o) \/ Prove(o)
  PROVE  Steps
<1> DEFINE s == sessions[o]
<1>1. s \in Session BY DEF TypeOK
<1>2. ASSUME NEW x \in Session, Keeps(s, x), sessions' = With(o, x) PROVE Steps
  BY <1>2, OneChanges DEF LogStep
<1>3. CASE ClosePrompt(o)
  BY <1>1, <1>2, <1>3, ClosedKeeps DEF ClosePrompt, Commit
<1>4. CASE CreateIntent(o)
  <2> DEFINE x == Intended(s)
  <2>1. x \in Session /\ Keeps(s, x) BY <1>1 DEF Intended, Session, Keeps
  <2>2. QED BY <1>2, <1>4, <2>1 DEF CreateIntent, Commit
<1>5. CASE Created(o)
  <2>1. \E c \in {"known", "none"} : sessions' = With(o, [s EXCEPT !.create = c])
    BY <1>5 DEF Created, Commit
  <2>2. PICK c \in {"known", "none"} : sessions' = With(o, [s EXCEPT !.create = c])
    BY <2>1
  <2> DEFINE x == [s EXCEPT !.create = c]
  <2>3. x \in Session /\ Keeps(s, x) BY <1>1 DEF Session, Keeps
  <2>4. QED BY <1>2, <2>2, <2>3
<1>6. CASE InferenceIntent(o)
  <2> DEFINE x == [s EXCEPT !.invocation = "intent"]
  <2>1. x \in Session /\ Keeps(s, x) BY <1>1 DEF Session, Keeps
  <2>2. QED BY <1>2, <1>6, <2>1 DEF InferenceIntent, Commit
<1>7. CASE InferenceRejected(o)
  <2> DEFINE x == [s EXCEPT !.invocation = "rejected"]
  <2>1. x \in Session /\ Keeps(s, x) BY <1>1 DEF Session, Keeps
  <2>2. QED BY <1>2, <1>7, <2>1 DEF InferenceRejected, Commit
<1>8. CASE Accept(o)
  <2> DEFINE x == Accepted(s)
             k == s.accepted + 1
  <2>1. x \in Session /\ Keeps(s, x)
    <3>1. k \in Nat /\ x = [s EXCEPT !.invocation = "accepted", !.accepted = k]
      BY <1>1 DEF Accepted, Session
    <3> HIDE DEF k, x
    <3>2. QED BY <1>1, <3>1 DEF Session, Keeps
  <2>2. QED BY <1>2, <1>8, <2>1 DEF Accept, Commit
<1>9. CASE Complete(o)
  <2> DEFINE x == [s EXCEPT !.invocation = "completed", !.mapped = @ + 1]
             k == s.mapped + 1
  <2>1. x \in Session /\ Keeps(s, x)
    <3>1. k \in Nat /\ x = [s EXCEPT !.invocation = "completed", !.mapped = k]
      BY <1>1 DEF Session
    <3> HIDE DEF k, x
    <3>2. QED BY <1>1, <3>1 DEF Session, Keeps
  <2>2. QED BY <1>2, <1>9, <2>1 DEF Complete, CommitOrdinary
<1>10. CASE Finish(o)
  <2>1. CASE s.invocation = "completed"
    BY <1>1, <1>2, <1>10, <2>1 DEF Finish, Commit, Keeps
  <2>2. CASE s.invocation # "completed"
    <3>1. PICK st \in {"rejected", "uncertain", s.invocation} :
            sessions' = With(o, [Closed(s) EXCEPT !.invocation = st])
      BY <1>10, <2>2 DEF Finish, Commit
    <3> DEFINE x == [Closed(s) EXCEPT !.invocation = st]
    <3>2. st \in {"none", "reserved", "intent", "rejected", "uncertain",
                  "accepted", "completed", "settled"}
      BY <1>1 DEF Session
    <3>3. x \in Session /\ Keeps(s, x) BY <1>1, <3>2 DEF Closed, Session, Keeps
    <3>4. QED BY <1>2, <3>1, <3>3
  <2>3. QED BY <2>1, <2>2
<1>11. CASE Prove(o)
  <2>1. Proved(s) \in Session /\ Keeps(s, Proved(s))
    BY <1>1 DEF Proved, Session, Keeps
  <2>2. Gone(s) \in Session /\ (s.retiring => Keeps(s, Gone(s)))
    <3> DEFINE z == Proved(s)
    <3>1. Gone(s) = [z EXCEPT !.retired = TRUE, !.create = IF @ = "known" THEN "deleted" ELSE @]
      BY DEF Gone
    <3>2. z \in Session /\ Keeps(s, z) BY <2>1
    <3> HIDE DEF z
    <3>3. QED BY <3>1, <3>2 DEF Session, Keeps
  <2>3. QED BY <1>2, <1>11, <2>1, <2>2 DEF Prove, Commit
<1>12. QED
  BY <1>3, <1>4, <1>5, <1>6, <1>7, <1>8, <1>9, <1>10, <1>11

LEMMA SweepSteps ==
  ASSUME TypeOK, NEW S \in SUBSET Owners, Sweep(S) PROVE Steps
<1> DEFINE ss == [o \in Owners |-> IF o \in S THEN Closed(sessions[o]) ELSE sessions[o]]
<1>1. ASSUME NEW o \in Owners PROVE ss[o] \in Session /\ Keeps(sessions[o], ss[o])
  <2>1. sessions[o] \in Session BY DEF TypeOK
  <2>2. QED BY <2>1, ClosedKeeps DEF Keeps
<1>2. sessions' = ss BY DEF Sweep
<1>3. ss \in [Owners -> Session] BY <1>1
<1> HIDE DEF ss
<1>4. QED BY <1>1, <1>2, <1>3, EachChanges

LEMMA RestartSteps ==
  ASSUME TypeOK, Restart PROVE Steps
<1> DEFINE ss == [o \in Owners |-> Closed(sessions[o])]
<1>1. ASSUME NEW o \in Owners PROVE ss[o] \in Session /\ Keeps(sessions[o], ss[o])
  <2>1. sessions[o] \in Session BY DEF TypeOK
  <2>2. QED BY <2>1, ClosedKeeps
<1>2. sessions' = ss BY DEF Restart
<1>3. ss \in [Owners -> Session] BY <1>1
<1> HIDE DEF ss
<1>4. QED BY <1>1, <1>2, <1>3, EachChanges

LEMMA NextSteps == ASSUME TypeOK, [Next]_vars PROVE Steps
<1>1. CASE UNCHANGED vars BY <1>1, NoneChanges DEF vars
<1>2. ASSUME NEW o \in Owners, PinPrincipal(o) PROVE Steps
  BY <1>2, NoneChanges DEF PinPrincipal
<1>3. QED
  BY <1>1, <1>2, InvokeSteps, RenewSteps, SettleSteps, SettleUnknownSteps, RetireSteps,
     FlightSteps, SweepSteps, RestartSteps DEF Next

-----------------------------------------------------------------------------
(* Type correctness.                                                       *)

LEMMA NoSessionType == NoSession \in Session
BY LimitsAssumption DEF NoSession, Session

(* Every reachable ledger has records of the modelled shape, and every     *)
(* owner's request in flight one of its states.                            *)
THEOREM LogTyped == Spec => []TypeOK
<1>1. Init => TypeOK
  BY NoSessionType DEF Init, TypeOK
<1>2. TypeOK /\ [Next]_vars => TypeOK'
  <2> SUFFICES ASSUME TypeOK, [Next]_vars PROVE TypeOK' OBVIOUS
  <2>1. sessions' \in [Owners -> Session] BY NextSteps DEF Steps
  <2> DEFINE Rest == principal \in BOOLEAN /\ live \in [Owners -> {"idle", "running", "failing"}]
  <2>2. Rest'
    <3>1. CASE UNCHANGED <<principal, live>> BY <3>1 DEF TypeOK
    <3>2. ASSUME NEW o \in Owners, NEW id \in Ids, NEW n \in 1..PromptLimit,
                 Invoke(o, id, n) \/ Renew(o, id, n)
          PROVE  Rest'
      BY <3>2 DEF Invoke, Renew, CommitOrdinary, TypeOK
    <3>3. ASSUME NEW o \in Owners,
                 \/ Settle(o) \/ Retire(o) \/ ClosePrompt(o) \/ PinPrincipal(o)
                 \/ CreateIntent(o) \/ Created(o) \/ InferenceIntent(o)
          PROVE  Rest'
      BY <3>3 DEF Settle, Retire, ClosePrompt, PinPrincipal, CreateIntent, Created,
           InferenceIntent, Commit, CommitOrdinary, TypeOK
    <3>4. ASSUME NEW o \in Owners,
                 InferenceRejected(o) \/ Accept(o) \/ Complete(o) \/ Finish(o) \/ Prove(o)
          PROVE  Rest'
      BY <3>4 DEF InferenceRejected, Accept, Complete, Finish, Prove, Commit, CommitOrdinary, TypeOK
    <3>5. ASSUME NEW o \in Owners, NEW n \in 1..PromptLimit, SettleUnknown(o, n)
          PROVE  Rest'
      BY <3>5 DEF SettleUnknown, CommitOrdinary, TypeOK
    <3>6. ASSUME NEW S \in SUBSET Owners, Sweep(S) PROVE Rest'
      BY <3>6 DEF Sweep, TypeOK
    <3>7. CASE Restart BY <3>7 DEF Restart, TypeOK
    <3>8. QED BY <3>1, <3>2, <3>3, <3>4, <3>5, <3>6, <3>7 DEF Next, vars
  <2>3. QED BY <2>1, <2>2 DEF TypeOK
<1>3. QED BY <1>1, <1>2, PTL DEF Spec
-----------------------------------------------------------------------------
(* The inductive invariant, one owner at a time.                           *)

(* Who is in the log, and under which identifier.                          *)
Members(s) ==
  /\ IsFiniteSet(s.ops)
  /\ \A q, r \in s.ops : q.id = r.id => q = r
  /\ \A r \in s.ops :
       \/ r.id \in Ids /\ r.path \in {"responses", "renew"}
       \/ r = Retirement
       \/ \E m \in 1..PromptLimit : m <= s.prompts /\ r = Settlement(m)

(* What the log says about the owner.                                      *)
Tells(s) ==
  /\ s.retired => s.retiring
  /\ s.retiring <=> Retirement \in s.ops
  /\ s.prompt # "none" => s.prompts > 0

(* A log without its retirement keeps two slots, or one if the settlement  *)
(* of the last prompt is recorded.                                         *)
Slots(s) ==
  ~s.retiring =>
    /\ Cardinality(s.ops) <= OpLimit + 1
    /\ s.prompts = 0 \/ Settlement(s.prompts) \notin s.ops => Cardinality(s.ops) <= OpLimit

Counts(s) ==
  /\ s.invoked = Cardinality(Of(s, "responses"))
  /\ s.renewed = Cardinality(Of(s, "renew"))

LogInv(s) == Members(s) /\ Tells(s) /\ Slots(s) /\ Counts(s)

(* Requests of different paths are different, and so are their identifiers.*)
LEMMA Distinct ==
  ASSUME NEW n \in 1..PromptLimit
  PROVE  /\ Settlement(n).id = SettleId[n] /\ Settlement(n).path = "settle"
         /\ Settlement(n).prompt = n
         /\ Retirement.id = RetireId /\ Retirement.path = "retire"
         /\ SettleId[n] \notin Ids /\ SettleId[n] # RetireId /\ RetireId \notin Ids
         /\ Settlement(n) # Retirement
         /\ \A m \in 1..PromptLimit : SettleId[m] = SettleId[n] => m = n
BY IdsAssumption DEF Settlement, Retirement

LEMMA RetirementId == Retirement.id = RetireId /\ Retirement.path = "retire" /\ RetireId \notin Ids
BY IdsAssumption DEF Retirement

(* Adding a request whose identifier is new.                               *)
LEMMA Grows ==
  ASSUME NEW s \in Session, NEW x \in Session, NEW r \in Request,
         Members(s), ~Taken(s, r.id), x.ops = s.ops \cup {r}
  PROVE  /\ IsFiniteSet(x.ops) /\ Cardinality(x.ops) = Cardinality(s.ops) + 1
         /\ Cardinality(s.ops) \in Nat
         /\ \A q, t \in x.ops : q.id = t.id => q = t
         /\ r \notin s.ops
<1>1. r \notin s.ops BY DEF Taken
<1>2. IsFiniteSet(s.ops) BY DEF Members
<1>3. /\ IsFiniteSet(x.ops) /\ Cardinality(s.ops) \in Nat
      /\ Cardinality(x.ops) = Cardinality(s.ops) + 1
  <2>1. /\ IsFiniteSet(s.ops \cup {r}) /\ Cardinality(s.ops) \in Nat
        /\ Cardinality(s.ops \cup {r}) = Cardinality(s.ops) + 1
    BY <1>1, <1>2, FS_AddElement, FS_CardinalityType
  <2>2. QED BY <2>1
<1>4. \A q, t \in x.ops : q.id = t.id => q = t BY DEF Members, Taken
<1>5. QED BY <1>1, <1>3, <1>4

(* What the counters of an owner count.                                    *)
LEMMA CountGrows ==
  ASSUME NEW s \in Session, NEW x \in Session, NEW r \in Request, NEW path,
         IsFiniteSet(s.ops), r \notin s.ops, x.ops = s.ops \cup {r}
  PROVE  Cardinality(Of(x, path)) = Cardinality(Of(s, path)) + If(r.path = path)
<1>1. IsFiniteSet(Of(s, path)) BY FS_Subset DEF Of
<1>2. Cardinality(Of(s, path)) \in Nat BY <1>1, FS_CardinalityType
<1>3. CASE r.path = path
  <2>1. Of(x, path) = Of(s, path) \cup {r} /\ r \notin Of(s, path) BY <1>3 DEF Of
  <2>2. QED BY <1>1, <1>2, <1>3, <2>1, FS_AddElement DEF If
<1>4. CASE r.path # path
  <2>1. Of(x, path) = Of(s, path) BY <1>4 DEF Of
  <2>2. QED BY <1>2, <1>4, <2>1 DEF If
<1>5. QED BY <1>3, <1>4

LEMMA KeepsInv ==
  ASSUME NEW s \in Session, NEW x \in Session, LogInv(s), Keeps(s, x)
  PROVE  LogInv(x)
<1>1. Members(x) BY DEF LogInv, Members, Keeps
<1>2. Tells(x) BY DEF LogInv, Tells, Keeps
<1>3. Slots(x) BY DEF LogInv, Slots, Keeps
<1>4. Counts(x) BY DEF LogInv, Counts, Keeps, Of
<1>5. QED BY <1>1, <1>2, <1>3, <1>4 DEF LogInv

LEMMA OrdinaryInv ==
  ASSUME NEW s \in Session, NEW x \in Session, LogInv(s), Ordinary(s, x)
  PROVE  LogInv(x)
<1>1. PICK r \in Request :
        /\ r.id \in Ids /\ r.path \in {"responses", "renew"}
        /\ ~Taken(s, r.id) /\ Cardinality(s.ops) < OpLimit
        /\ x.ops = s.ops \cup {r}
        /\ ~s.retiring /\ ~x.retiring /\ x.retired = s.retired
        /\ x.prompts \in {s.prompts, s.prompts + 1} /\ x.prompts > 0
        /\ x.invoked = s.invoked + If(r.path = "responses")
        /\ x.renewed = s.renewed + If(r.path = "renew")
  BY DEF Ordinary
<1>2. Members(s) /\ Tells(s) /\ Counts(s) /\ s.prompts \in Nat /\ x.prompts \in Nat
  BY LimitsAssumption DEF LogInv, Session
<1>3. /\ IsFiniteSet(x.ops) /\ Cardinality(x.ops) = Cardinality(s.ops) + 1
      /\ Cardinality(s.ops) \in Nat
      /\ \A q, t \in x.ops : q.id = t.id => q = t
      /\ r \notin s.ops
  BY <1>1, <1>2, Grows
<1>4. Members(x)
  <2>1. ASSUME NEW t \in x.ops
        PROVE  \/ t.id \in Ids /\ t.path \in {"responses", "renew"}
               \/ t = Retirement
               \/ \E m \in 1..PromptLimit : m <= x.prompts /\ t = Settlement(m)
    <3>1. CASE t = r BY <1>1, <3>1
    <3>2. CASE t \in s.ops BY <1>1, <1>2, <3>2 DEF Members
    <3>3. QED BY <1>1, <3>1, <3>2
  <2>2. QED BY <1>3, <2>1 DEF Members
<1>5. Tells(x) BY <1>1, <1>2, RetirementId DEF Tells
<1>6. Slots(x) BY <1>1, <1>3, LimitsAssumption DEF Slots
<1>7. Counts(x) BY <1>1, <1>2, <1>3, CountGrows DEF Counts, Members
<1>8. QED BY <1>4, <1>5, <1>6, <1>7 DEF LogInv

LEMMA SettlesInv ==
  ASSUME NEW s \in Session, NEW x \in Session, LogInv(s), Settles(s, x)
  PROVE  LogInv(x)
<1>1. PICK n \in 1..PromptLimit :
        /\ Settlement(n) \in s.ops \/ Recordable(s, Settlement(n))
        /\ x.ops = s.ops \cup {Settlement(n)}
        /\ x.prompts = n /\ n \in {s.prompts, s.prompts + 1}
        /\ x.retiring = s.retiring /\ x.retired = s.retired
        /\ x.invoked = s.invoked /\ x.renewed = s.renewed
  BY DEF Settles
<1>2. /\ Members(s) /\ Tells(s) /\ Counts(s) /\ Slots(s)
      /\ s.prompts \in Nat /\ n \in Nat /\ n > 0
      /\ s.invoked \in Nat /\ s.renewed \in Nat
  BY LimitsAssumption DEF LogInv, Session
<1>3. Tells(x)
  BY <1>1, <1>2, Distinct DEF Tells
<1>4. \A t \in s.ops : \/ t.id \in Ids /\ t.path \in {"responses", "renew"}
                       \/ t = Retirement
                       \/ \E m \in 1..PromptLimit : m <= x.prompts /\ t = Settlement(m)
  BY <1>1, <1>2 DEF Members
<1>5. \E m \in 1..PromptLimit : m <= x.prompts /\ Settlement(n) = Settlement(m)
  BY <1>1, <1>2
<1>6. CASE Settlement(n) \in s.ops
  <2>1. x.ops = s.ops BY <1>1, <1>6
  <2>2. n = s.prompts
    <3>1. PICK m \in 1..PromptLimit : m <= s.prompts /\ Settlement(n) = Settlement(m)
      BY <1>2, <1>6, Distinct DEF Members
    <3>2. m = n BY <3>1, Distinct
    <3>3. QED BY <1>1, <1>2, <3>1, <3>2
  <2>3. QED BY <1>1, <1>2, <1>3, <2>1, <2>2 DEF LogInv, Members, Slots, Counts, Of
<1>7. CASE Recordable(s, Settlement(n))
  <2>1. ~Taken(s, Settlement(n).id) /\ Cardinality(s.ops) < OpLimit + 1
    BY <1>7, Distinct DEF Recordable, SlotLimit
  <2>2. Settlement(n) \in Request
    BY LimitsAssumption DEF Settlement, Request, Paths
  <2>3. /\ IsFiniteSet(x.ops) /\ Cardinality(x.ops) = Cardinality(s.ops) + 1
        /\ Cardinality(s.ops) \in Nat
        /\ \A q, t \in x.ops : q.id = t.id => q = t
        /\ Settlement(n) \notin s.ops
    BY <1>1, <1>2, <2>1, <2>2, Grows
  <2>4. Members(x)
    BY <1>1, <1>4, <1>5, <2>3 DEF Members
  <2>5. Slots(x)
    BY <1>1, <1>2, <2>1, <2>3, LimitsAssumption DEF Slots
  <2>6. Counts(x)
    <3>1. Of(x, "responses") = Of(s, "responses") /\ Of(x, "renew") = Of(s, "renew")
      BY <1>1, Distinct DEF Of
    <3>2. QED BY <1>1, <1>2, <3>1 DEF Counts
  <2>7. QED BY <1>3, <2>4, <2>5, <2>6 DEF LogInv
<1>8. QED BY <1>1, <1>6, <1>7

LEMMA RetiresInv ==
  ASSUME NEW s \in Session, NEW x \in Session, LogInv(s), Retires(s, x)
  PROVE  LogInv(x)
<1>1. /\ Members(s) /\ Tells(s) /\ Counts(s) /\ s.prompts \in Nat
  BY LimitsAssumption DEF LogInv, Session
<1>2. /\ CanRetire(s)
      /\ x.ops = s.ops \cup {Retirement} /\ x.retiring
      /\ x.prompts = s.prompts /\ (x.prompt = "none" <=> s.prompt = "none")
      /\ x.invoked = s.invoked /\ x.renewed = s.renewed
  BY DEF Retires
<1>3. Tells(x) BY <1>1, <1>2 DEF Tells
<1>4. Slots(x) BY <1>2 DEF Slots
<1>5. Counts(x)
  <2>1. Of(x, "responses") = Of(s, "responses") /\ Of(x, "renew") = Of(s, "renew")
    BY <1>2, RetirementId DEF Of
  <2>2. QED BY <1>1, <1>2, <2>1 DEF Counts
<1>6. Members(x)
  <2>1. CASE Retirement \in s.ops
    <3>1. x.ops = s.ops BY <1>2, <2>1
    <3>2. QED BY <1>1, <1>2, <3>1 DEF Members
  <2>2. CASE Recordable(s, Retirement)
    <3>1. ~Taken(s, Retirement.id) BY <2>2 DEF Recordable
    <3>2. /\ IsFiniteSet(x.ops) /\ \A q, t \in x.ops : q.id = t.id => q = t
      BY <1>1, <1>2, <3>1, RetirementType, Grows
    <3>3. QED BY <1>1, <1>2, <3>2 DEF Members
  <2>3. QED BY <1>2, <2>1, <2>2 DEF CanRetire
<1>7. QED BY <1>3, <1>4, <1>5, <1>6 DEF LogInv

LogIInv == TypeOK /\ \A o \in Owners : LogInv(sessions[o])

(* The log of every owner is well formed, tells what the owner may do, and *)
(* keeps its slots.                                                        *)
THEOREM LogInvariant == Spec => []LogIInv
<1>1. Init => LogIInv
  <2> SUFFICES ASSUME Init PROVE LogIInv OBVIOUS
  <2>1. TypeOK
    BY NoSessionType DEF Init, TypeOK
  <2>2. ASSUME NEW o \in Owners PROVE LogInv(sessions[o])
    <3>1. sessions[o] = NoSession BY DEF Init
    <3>2. IsFiniteSet({}) /\ Cardinality({}) = 0 BY FS_EmptySet
    <3>3. Of(NoSession, "responses") = {} /\ Of(NoSession, "renew") = {} BY DEF Of, NoSession
    <3>4. QED
      BY <3>1, <3>2, <3>3, LimitsAssumption
      DEF LogInv, Members, Tells, Slots, Counts, NoSession
  <2>3. QED BY <2>1, <2>2 DEF LogIInv
<1>2. TypeOK /\ TypeOK' /\ LogIInv /\ [Next]_vars => LogIInv'
  <2> SUFFICES ASSUME TypeOK, TypeOK', LogIInv, [Next]_vars PROVE LogIInv' OBVIOUS
  <2>1. ASSUME NEW o \in Owners PROVE LogInv(sessions'[o])
    <3>1. sessions[o] \in Session /\ sessions'[o] \in Session BY DEF TypeOK
    <3>2. LogInv(sessions[o]) BY DEF LogIInv
    <3>3. LogStep(sessions[o], sessions'[o]) BY NextSteps DEF Steps
    <3>4. QED
      BY <3>1, <3>2, <3>3, KeepsInv, OrdinaryInv, SettlesInv, RetiresInv DEF LogStep
  <2>2. QED BY <2>1 DEF LogIInv
<1>3. QED BY <1>1, <1>2, LogTyped, PTL DEF Spec

(* However an owner's log filled up, its retirement and the settlement of  *)
(* its unsettled prompt find a slot (brokerRecordOperation).               *)
THEOREM CleanupHasSlots == Spec => []SlotsForCleanup
<1>1. LogIInv => SlotsForCleanup
  <2> SUFFICES ASSUME LogIInv, NEW o \in Owners
               PROVE  LET s == sessions[o] IN
                      /\ CanRetire(s)
                      /\ s.prompt \in {"open", "closing"} /\ ~s.retiring => CanSettle(s)
    BY DEF SlotsForCleanup
  <2> DEFINE s == sessions[o]
  <2>1. /\ s \in Session /\ s.prompts \in 0..PromptLimit
        /\ Members(s) /\ Tells(s) /\ Slots(s)
    BY DEF LogIInv, TypeOK, Session, LogInv
  <2>2. Cardinality(s.ops) \in Nat BY <2>1, FS_CardinalityType DEF Members
  <2> HIDE DEF s
  <2>3. CanRetire(s)
    <3>1. CASE Retirement \in s.ops BY <3>1 DEF CanRetire
    <3>2. CASE Retirement \notin s.ops
      <4>1. ~Taken(s, RetireId)
        BY <2>1, <3>2, Distinct, RetirementId DEF Taken, Members
      <4>2. Cardinality(s.ops) < OpLimit + 2
        BY <2>1, <2>2, <3>2, LimitsAssumption DEF Tells, Slots
      <4>3. QED BY <4>1, <4>2, RetirementId DEF CanRetire, Recordable, SlotLimit
    <3>3. QED BY <3>1, <3>2
  <2>4. ASSUME s.prompt \in {"open", "closing"}, ~s.retiring PROVE CanSettle(s)
    <3>1. s.prompts > 0 /\ ~s.retired /\ s.prompts \in 1..PromptLimit
      BY <2>1, <2>4, LimitsAssumption DEF Tells
    <3>2. CASE Settlement(s.prompts) \in s.ops BY <3>1, <3>2 DEF CanSettle
    <3>3. CASE Settlement(s.prompts) \notin s.ops
      <4>1. ~Taken(s, SettleId[s.prompts])
        BY <2>1, <3>1, <3>3, Distinct DEF Taken, Members
      <4>2. Cardinality(s.ops) < OpLimit + 1
        BY <2>1, <2>2, <2>4, <3>3, LimitsAssumption DEF Slots
      <4>3. QED
        BY <3>1, <4>1, <4>2, Distinct DEF CanSettle, Recordable, SlotLimit
    <3>4. QED BY <3>2, <3>3
  <2>5. QED BY <2>3, <2>4 DEF s
<1>2. QED BY <1>1, LogInvariant, PTL

(* Every invocation and every granted renewal has a record of its own, and *)
(* an identifier stands for one request.                                   *)
THEOREM RequestsAreRecordedOnce == Spec => []RecordedOnce
<1>1. LogIInv => RecordedOnce
  BY DEF LogIInv, LogInv, Members, Counts, RecordedOnce
<1>2. QED BY <1>1, LogInvariant, PTL

-----------------------------------------------------------------------------
(* Sums over the owners.  The ledger's size is a fold; its laws are proved *)
(* from a smallest set of owners that breaks them, as every nonempty       *)
(* collection of sets of owners has a smallest one.                        *)

LEMMA SmallestSet ==
  ASSUME NEW B, B \subseteq SUBSET Owners, B # {}
  PROVE  \E T \in B : \A U \in B : U \subseteq T => U = T
<1>1. IsWellFoundedOn(StrictSubsetOrdering(Owners), SUBSET Owners)
  BY OwnersAssumption, FS_FiniteSubsetsOfFinite, FS_StrictSubsetOrderingWellFounded
<1>2. PICK T \in B : \A U \in B : <<U, T>> \notin StrictSubsetOrdering(Owners)
  BY <1>1, WFMin
<1>3. QED
  BY <1>2 DEF StrictSubsetOrdering

(* A set of owners is summed by taking one owner out at a time.            *)
Pick(S) == CHOOSE o \in S : TRUE

IsSum(g, F, T) ==
  g = [S \in SUBSET T |-> IF S = {} THEN 0 ELSE F[Pick(S)] + g[S \ {Pick(S)}]]

LEMMA PickIs == ASSUME NEW S, S # {} PROVE Pick(S) \in S
BY DEF Pick

LEMMA SumIs ==
  ASSUME NEW g, NEW F, NEW T, IsSum(g, F, T), NEW S \in SUBSET T
  PROVE  g[S] = IF S = {} THEN 0 ELSE F[Pick(S)] + g[S \ {Pick(S)}]
BY DEF IsSum

(* A law of sums holds of all sets when it holds of the empty one and      *)
(* passes from a set without one of its owners to the set.                 *)
LEMMA SumLaw ==
  ASSUME NEW Law, {} \in Law,
         \A S \in SUBSET Owners : S # {} /\ S \ {Pick(S)} \in Law => S \in Law
  PROVE  SUBSET Owners \subseteq Law
<1> DEFINE B == {S \in SUBSET Owners : S \notin Law}
<1>1. SUFFICES ASSUME B # {} PROVE FALSE
  OBVIOUS
<1>2. PICK S \in B : \A R \in B : R \subseteq S => R = S
  <2>1. B \subseteq SUBSET Owners
    OBVIOUS
  <2> HIDE DEF B
  <2>2. QED
    BY <1>1, <2>1, SmallestSet
<1>3. S \in SUBSET Owners /\ S \notin Law /\ S # {} /\ Pick(S) \in S
  BY PickIs
<1>4. S \ {Pick(S)} \notin B
  <2> HIDE DEF B
  <2>1. QED
    BY <1>2, <1>3
<1>5. S \ {Pick(S)} \in Law
  BY <1>3, <1>4
<1>6. QED
  BY <1>3, <1>5

(* Sums of the same weights agree, whatever else their sets hold.          *)
LEMMA SumsAgree ==
  ASSUME NEW T \in SUBSET Owners, NEW U \in SUBSET Owners, NEW g, NEW h, NEW F, NEW H,
         IsSum(g, F, T), IsSum(h, H, U),
         NEW V, V \subseteq T, V \subseteq U, \A o \in V : F[o] = H[o]
  PROVE  g[V] = h[V]
<1> DEFINE Law == {S \in SUBSET Owners : S \subseteq V => g[S] = h[S]}
<1>1. {} \in Law
  <2>1. g[{}] = 0 /\ h[{}] = 0
    BY SumIs
  <2>2. QED
    BY <2>1
<1>2. ASSUME NEW S \in SUBSET Owners, S # {}, S \ {Pick(S)} \in Law
      PROVE  S \in Law
  <2>1. SUFFICES ASSUME S \subseteq V PROVE g[S] = h[S]
    OBVIOUS
  <2>2. g[S \ {Pick(S)}] = h[S \ {Pick(S)}]
    BY <1>2, <2>1
  <2>3. F[Pick(S)] = H[Pick(S)]
    BY <1>2, <2>1, PickIs
  <2>4. S \in SUBSET T /\ S \in SUBSET U
    BY <2>1
  <2>5. g[S] = F[Pick(S)] + g[S \ {Pick(S)}] /\ h[S] = H[Pick(S)] + h[S \ {Pick(S)}]
    BY <1>2, <2>4, SumIs
  <2>6. QED
    BY <2>2, <2>3, <2>5
<1>3. V \in Law
  <2> HIDE DEF Law
  <2>1. QED
    BY <1>1, <1>2, SumLaw
<1>4. QED
  BY <1>3

(* Weights have a sum.                                                     *)
LEMMA SumExists ==
  ASSUME NEW F
  PROVE  \E g : IsSum(g, F, Owners)
<1> DEFINE B == {S \in SUBSET Owners : ~ \E g : IsSum(g, F, S)}
<1>1. SUFFICES ASSUME B # {} PROVE FALSE
  OBVIOUS
<1>2. PICK T \in B : \A R \in B : R \subseteq T => R = T
  <2>1. B \subseteq SUBSET Owners
    OBVIOUS
  <2> HIDE DEF B
  <2>2. QED
    BY <1>1, <2>1, SmallestSet
<1> DEFINE G(S) == CHOOSE g : IsSum(g, F, S)
<1>3. T \in SUBSET Owners /\ ~ \E g : IsSum(g, F, T)
  OBVIOUS
<1>4. ASSUME NEW S \in SUBSET T, S # T
      PROVE  IsSum(G(S), F, S)
  <2>1. S \notin B
    <3> HIDE DEF B
    <3>1. QED
      BY <1>2, <1>4
  <2>2. QED
    BY <1>3, <2>1
<1> DEFINE h == [S \in SUBSET T |->
                   IF S = {} THEN 0 ELSE F[Pick(S)] + G(S \ {Pick(S)})[S \ {Pick(S)}]]
<1> HIDE DEF G
<1>5. ASSUME NEW S \in SUBSET T, S # T
      PROVE  h[S] = G(S)[S]
  <2>1. IsSum(G(S), F, S)
    BY <1>4, <1>5
  <2>2. CASE S = {}
    <3>1. G(S)[S] = 0
      BY <2>1, <2>2, SumIs
    <3>2. QED
      BY <2>2, <3>1
  <2>3. CASE S # {}
    <3> DEFINE R == S \ {Pick(S)}
    <3>1. Pick(S) \in S /\ R \in SUBSET T /\ R # T /\ R \subseteq S
      BY <2>3, PickIs
    <3>2. IsSum(G(R), F, R)
      BY <1>4, <3>1
    <3>3. G(S)[R] = G(R)[R]
      <4> HIDE DEF R
      <4>1. S \in SUBSET Owners /\ R \in SUBSET Owners
        BY <1>3, <3>1
      <4>2. QED
        BY <2>1, <3>1, <3>2, <4>1, SumsAgree
    <3>4. G(S)[S] = F[Pick(S)] + G(S)[R]
      BY <2>1, <2>3, SumIs
    <3>5. h[S] = F[Pick(S)] + G(R)[R]
      BY <2>3
    <3>6. QED
      BY <3>3, <3>4, <3>5
  <2>4. QED
    BY <2>2, <2>3
<1>6. ASSUME NEW S \in SUBSET T, S # {}
      PROVE  h[S] = F[Pick(S)] + h[S \ {Pick(S)}]
  <2> DEFINE R == S \ {Pick(S)}
  <2>1. Pick(S) \in S /\ R \in SUBSET T /\ R # T
    BY <1>6, PickIs
  <2>2. h[R] = G(R)[R]
    BY <1>5, <2>1
  <2>3. h[S] = F[Pick(S)] + G(R)[R]
    BY <1>6
  <2> HIDE DEF h
  <2>4. QED
    BY <2>2, <2>3
<1>7. IsSum(h, F, T)
  <2>1. h = [S \in SUBSET T |-> h[S]]
    OBVIOUS
  <2>2. h[{}] = 0
    OBVIOUS
  <2> HIDE DEF h
  <2>3. QED
    BY <1>6, <2>1, <2>2 DEF IsSum
<1>8. QED
  BY <1>3, <1>7

Total(F) == (CHOOSE g : IsSum(g, F, Owners))[Owners]

LEMMA TotalIs ==
  ASSUME NEW F, NEW g, IsSum(g, F, Owners)
  PROVE  Total(F) = g[Owners]
<1> DEFINE h == CHOOSE x : IsSum(x, F, Owners)
<1>1. IsSum(h, F, Owners)
  OBVIOUS
<1> HIDE DEF h
<1>2. h[Owners] = g[Owners]
  BY <1>1, SumsAgree
<1>3. QED
  BY <1>2 DEF Total, h

Weights == [Owners -> Nat]

(* The sum of the weights H is at most that of F and R for every owner in  *)
(* K, if each weight of H is.                                              *)
LEMMA TotalBound ==
  ASSUME NEW F \in Weights, NEW H \in Weights, NEW K \in SUBSET Owners, NEW R \in Nat,
         \A o \in Owners : H[o] <= F[o] + (IF o \in K THEN R ELSE 0)
  PROVE  /\ Total(F) \in Nat /\ Total(H) \in Nat
         /\ Total(H) <= Total(F) + R * Cardinality(K)
<1>1. PICK g : IsSum(g, F, Owners)
  BY SumExists
<1>2. PICK h : IsSum(h, H, Owners)
  BY SumExists
<1> DEFINE Law == {S \in SUBSET Owners :
                     /\ g[S] \in Nat /\ h[S] \in Nat
                     /\ h[S] <= g[S] + R * Cardinality(S \cap K)}
<1>3. {} \in Law
  <2>1. g[{}] = 0 /\ h[{}] = 0
    BY <1>1, <1>2, SumIs
  <2>2. {} \cap K = {} /\ Cardinality({}) = 0
    BY FS_EmptySet
  <2>3. QED
    BY <2>1, <2>2
<1>4. ASSUME NEW S \in SUBSET Owners, S # {}, S \ {Pick(S)} \in Law
      PROVE  S \in Law
  <2> DEFINE p == Pick(S)  U == S \ {p}  a == Cardinality(U \cap K)  b == Cardinality(S \cap K)
  <2>1. p \in S /\ p \in Owners
    BY <1>4, PickIs
  <2>2. g[S] = F[p] + g[U] /\ h[S] = H[p] + h[U]
    BY <1>1, <1>2, <1>4, SumIs
  <2>3. g[U] \in Nat /\ h[U] \in Nat /\ h[U] <= g[U] + R * a
    BY <1>4
  <2>4. a \in Nat /\ b \in Nat /\ b = a + (IF p \in K THEN 1 ELSE 0)
    <3>1. IsFiniteSet(U \cap K)
      BY OwnersAssumption, FS_Subset
    <3>2. S \cap K = IF p \in K THEN (U \cap K) \cup {p} ELSE U \cap K
      BY <2>1
    <3>3. p \notin U \cap K
      OBVIOUS
    <3> DEFINE M == U \cap K
    <3> HIDE DEF p, U, M
    <3>4. Cardinality(M) \in Nat /\ IsFiniteSet(M \cup {p})
          /\ Cardinality(M \cup {p}) = Cardinality(M) + 1
      BY <3>1, <3>3, FS_AddElement, FS_CardinalityType DEF M
    <3>5. S \cap K = M \cup {p} \/ (S \cap K = M /\ p \notin K)
      BY <3>2 DEF M
    <3>6. p \in K => S \cap K = M \cup {p}
      BY <3>2 DEF M
    <3>7. QED
      BY <3>4, <3>5, <3>6 DEF M
  <2>5. R * b = R * a + (IF p \in K THEN R ELSE 0)
    <3> HIDE DEF a, b, p
    <3>1. R * (a + 1) = R * a + R
      BY <2>4
    <3>2. QED
      BY <2>4, <3>1
  <2>6. F[p] \in Nat /\ H[p] \in Nat /\ H[p] <= F[p] + (IF p \in K THEN R ELSE 0)
    BY <2>1 DEF Weights
  <2>7. R * a \in Nat /\ R * b \in Nat
    BY <2>4
  <2>8. g[S] \in Nat /\ h[S] \in Nat /\ h[S] <= g[S] + R * b
    <3> HIDE DEF a, b, p, U
    <3> DEFINE ra == R * a  rb == R * b
    <3>1. ra \in Nat /\ rb \in Nat /\ rb = ra + (IF p \in K THEN R ELSE 0) /\ h[U] <= g[U] + ra
      BY <2>3, <2>5, <2>7
    <3> HIDE DEF ra, rb
    <3>2. g[S] \in Nat /\ h[S] \in Nat /\ h[S] <= g[S] + rb
      BY <2>2, <2>3, <2>6, <3>1
    <3>3. QED
      BY <3>2 DEF rb
  <2>9. QED
    BY <2>8
<1> HIDE DEF Law
<1>5. Owners \in Law
  BY <1>3, <1>4, SumLaw
<1>6. Owners \cap K = K
  OBVIOUS
<1>7. QED
  BY <1>1, <1>2, <1>5, <1>6, TotalIs DEF Law

-----------------------------------------------------------------------------
(* The bytes that are taken and owed.                                      *)

(* What an owner that was admitted may still add to the ledger: the record *)
(* of its creation and of one response identity while its request is in    *)
(* flight, and the operations and proofs of settlement and retirement.     *)
Owed(s, l) ==
  IF ~s.known \/ s.retired THEN 0
  ELSE If(l = "running" /\ s.create = "none") * Bytes["create"]
         + If(l = "running" /\ s.invocation \in {"reserved", "intent"}) * Bytes["identity"]
         + If(s.prompts > 0 /\ Settlement(s.prompts) \notin s.ops) * Bytes["operation"]
         + If(Retirement \notin s.ops) * Bytes["operation"]
         + If(s.prompt \in {"open", "closing"}) * Bytes["proof"]
         + Bytes["proof"]

Need(s, l) == SizeOf(s) + Owed(s, l)

LEMMA SizesTyped ==
  /\ Bytes["session"] \in Nat /\ Bytes["prompt"] \in Nat /\ Bytes["invocation"] \in Nat
  /\ Bytes["operation"] \in Nat /\ Bytes["create"] \in Nat /\ Bytes["identity"] \in Nat
  /\ Bytes["calls"] \in Nat /\ Bytes["proof"] \in Nat /\ Bytes["principal"] \in Nat
BY LimitsAssumption DEF Kinds

LEMMA IfIs == \A b : If(b) \in {0, 1} /\ (b => If(b) = 1) /\ (~b => If(b) = 0)
BY DEF If

\* A record whose counts make sense.
Counted(s) == LogInv(s) /\ (s.prompts > 0 => s.known)

Proofs(s) == s.prompts - If(s.prompt \in {"open", "closing"}) + If(s.retired)

(* The size of a record and what it is owed are numbers, and an owner is   *)
(* never owed more than its reserve.                                       *)
LEMMA NeedTyped ==
  ASSUME NEW s \in Session, NEW l, Counted(s)
  PROVE  /\ SizeOf(s) \in Nat /\ Owed(s, l) \in Nat /\ Need(s, l) \in Nat
         /\ SizeOf(s) <= Need(s, l)
         /\ Owed(s, l) <= If(s.known /\ ~s.retired) * Reserve
<1>1. /\ s.prompts \in Nat /\ s.invoked \in Nat /\ s.accepted \in Nat /\ s.mapped \in Nat
      /\ Cardinality(s.ops) \in Nat /\ Proofs(s) \in Nat
  BY LimitsAssumption, FS_CardinalityType DEF Session, Counted, LogInv, Members, Tells, Proofs, If
<1>2. \A a, b \in Nat : a * b \in Nat
  OBVIOUS
<1>3. SizeOf(s) \in Nat
  <2>1. /\ s.prompts * Bytes["prompt"] \in Nat /\ s.invoked * Bytes["invocation"] \in Nat
        /\ Cardinality(s.ops) * Bytes["operation"] \in Nat
        /\ If(s.create # "none") * Bytes["create"] \in Nat
        /\ s.accepted * Bytes["identity"] \in Nat /\ s.mapped * Bytes["calls"] \in Nat
        /\ Proofs(s) * Bytes["proof"] \in Nat
    BY <1>1, <1>2, IfIs, SizesTyped
  <2>2. QED
    BY <2>1, SizesTyped DEF SizeOf, Proofs
<1>4. Owed(s, l) \in Nat /\ Owed(s, l) <= If(s.known /\ ~s.retired) * Reserve
  BY SizesTyped, ReserveAssumption, LimitsAssumption DEF Owed, If
<1>5. QED
  BY <1>3, <1>4 DEF Need

(* What an owner needs, entry by entry: those it has and those it is owed. *)
Base(s) ==
  Bytes["session"] + s.prompts * Bytes["prompt"] + s.invoked * Bytes["invocation"]
    + s.mapped * Bytes["calls"]

Creates(s, l) ==
  If(s.create # "none") + If(~s.retired /\ l = "running" /\ s.create = "none")

Identities(s, l) ==
  s.accepted + If(~s.retired /\ l = "running" /\ s.invocation \in {"reserved", "intent"})

Operations(s) ==
  Cardinality(s.ops)
    + If(~s.retired /\ s.prompts > 0 /\ Settlement(s.prompts) \notin s.ops)
    + If(~s.retired /\ Retirement \notin s.ops)

AllProofs(s) ==
  s.prompts + 1 - If(s.retired /\ s.prompt \in {"open", "closing"})

LEMMA NeedIs ==
  ASSUME NEW s \in Session, NEW l, Counted(s), s.known
  PROVE  /\ Base(s) \in Nat /\ Creates(s, l) \in Nat /\ Identities(s, l) \in Nat
         /\ Operations(s) \in Nat /\ AllProofs(s) \in Nat
         /\ Need(s, l) = Base(s) + Creates(s, l) * Bytes["create"]
                           + Identities(s, l) * Bytes["identity"]
                           + Operations(s) * Bytes["operation"]
                           + AllProofs(s) * Bytes["proof"]
<1>1. /\ s.prompts \in Nat /\ s.invoked \in Nat /\ s.accepted \in Nat /\ s.mapped \in Nat
      /\ Cardinality(s.ops) \in Nat /\ Proofs(s) \in Nat
  BY LimitsAssumption, FS_CardinalityType DEF Session, Counted, LogInv, Members, Tells, Proofs, If
<1>2. \A a, b \in Nat : a * b \in Nat
  OBVIOUS
<1>3. \A a, b, c \in Nat : (a + b) * c = a * c + b * c
  OBVIOUS
<1>4. Base(s) \in Nat
  BY <1>1, <1>2, SizesTyped DEF Base
<1> DEFINE c1 == If(s.create # "none")
           c2 == If(~s.retired /\ l = "running" /\ s.create = "none")
           i2 == If(~s.retired /\ l = "running" /\ s.invocation \in {"reserved", "intent"})
           n == Cardinality(s.ops)
           n2 == If(~s.retired /\ s.prompts > 0 /\ Settlement(s.prompts) \notin s.ops)
           n3 == If(~s.retired /\ Retirement \notin s.ops)
           p2 == IF s.retired THEN 0 ELSE If(s.prompt \in {"open", "closing"}) + 1
<1>5. c1 \in Nat /\ c2 \in Nat /\ i2 \in Nat /\ n \in Nat /\ n2 \in Nat /\ n3 \in Nat /\ p2 \in Nat
  BY <1>1, IfIs
<1>6. SizeOf(s) = Base(s) + c1 * Bytes["create"] + s.accepted * Bytes["identity"]
                    + n * Bytes["operation"] + Proofs(s) * Bytes["proof"]
  <2>1. /\ s.prompts * Bytes["prompt"] \in Nat /\ s.invoked * Bytes["invocation"] \in Nat
        /\ n * Bytes["operation"] \in Nat /\ c1 * Bytes["create"] \in Nat
        /\ s.accepted * Bytes["identity"] \in Nat /\ s.mapped * Bytes["calls"] \in Nat
        /\ Proofs(s) * Bytes["proof"] \in Nat
    BY <1>1, <1>2, <1>5, SizesTyped
  <2>2. QED
    BY <2>1, SizesTyped DEF SizeOf, Proofs, Base
<1>7. Owed(s, l) = c2 * Bytes["create"] + i2 * Bytes["identity"]
                     + n2 * Bytes["operation"] + n3 * Bytes["operation"] + p2 * Bytes["proof"]
  BY SizesTyped DEF Owed, If
<1>8. /\ Creates(s, l) = c1 + c2 /\ Identities(s, l) = s.accepted + i2
      /\ Operations(s) = n + n2 + n3
  BY DEF Creates, Identities, Operations
<1>9. AllProofs(s) = Proofs(s) + p2
  BY <1>1 DEF AllProofs, Proofs, If
<1> HIDE DEF c1, c2, i2, n, n2, n3, p2
<1>10. /\ Creates(s, l) * Bytes["create"] = c1 * Bytes["create"] + c2 * Bytes["create"]
       /\ Identities(s, l) * Bytes["identity"] = s.accepted * Bytes["identity"] + i2 * Bytes["identity"]
       /\ AllProofs(s) * Bytes["proof"] = Proofs(s) * Bytes["proof"] + p2 * Bytes["proof"]
  BY <1>1, <1>3, <1>5, <1>8, <1>9, SizesTyped
<1>11. Operations(s) * Bytes["operation"] =
         n * Bytes["operation"] + n2 * Bytes["operation"] + n3 * Bytes["operation"]
  <2>1. (n + n2) * Bytes["operation"] = n * Bytes["operation"] + n2 * Bytes["operation"]
    BY <1>3, <1>5, SizesTyped
  <2>2. ((n + n2) + n3) * Bytes["operation"] = (n + n2) * Bytes["operation"] + n3 * Bytes["operation"]
    BY <1>3, <1>5, SizesTyped
  <2>3. QED
    BY <1>8, <2>1, <2>2
<1>12. /\ c1 * Bytes["create"] \in Nat /\ c2 * Bytes["create"] \in Nat
       /\ s.accepted * Bytes["identity"] \in Nat /\ i2 * Bytes["identity"] \in Nat
       /\ n * Bytes["operation"] \in Nat /\ n2 * Bytes["operation"] \in Nat
       /\ n3 * Bytes["operation"] \in Nat /\ Proofs(s) * Bytes["proof"] \in Nat
       /\ p2 * Bytes["proof"] \in Nat
  BY <1>1, <1>2, <1>5, SizesTyped
<1>13. /\ Creates(s, l) \in Nat /\ Identities(s, l) \in Nat /\ Operations(s) \in Nat
       /\ AllProofs(s) \in Nat
  BY <1>1, <1>5, <1>8, <1>9
<1>14. QED
  BY <1>4, <1>6, <1>7, <1>10, <1>11, <1>12, <1>13 DEF Need

(* A change that leaves no more entries needed needs no more bytes.        *)
LEMMA Spends ==
  ASSUME NEW s \in Session, NEW x \in Session, NEW l, NEW k, Counted(s), Counted(x),
         x.known = s.known, x.prompts = s.prompts, x.invoked = s.invoked, x.mapped = s.mapped,
         s.known => /\ Creates(x, k) <= Creates(s, l) /\ Identities(x, k) <= Identities(s, l)
                    /\ Operations(x) <= Operations(s) /\ AllProofs(x) <= AllProofs(s)
  PROVE  Need(x, k) <= Need(s, l)
<1>1. CASE ~s.known
  BY <1>1 DEF Need, SizeOf, Owed
<1>2. CASE s.known
  <2>1. \A a, b, c \in Nat : a <= b => a * c <= b * c
    <3>1. SUFFICES ASSUME NEW a \in Nat, NEW b \in Nat, NEW c \in Nat, a <= b
                   PROVE  a * c <= b * c
      OBVIOUS
    <3>2. (a + (b - a)) * c = a * c + (b - a) * c /\ (b - a) * c \in Nat /\ a * c \in Nat
      BY <3>1
    <3>3. QED
      BY <3>1, <3>2
  <2>2. \A a, b \in Nat : a * b \in Nat
    OBVIOUS
  <2>3. Base(x) = Base(s)
    BY DEF Base
  <2> DEFINE c == Bytes["create"]  i == Bytes["identity"]  o == Bytes["operation"]  p == Bytes["proof"]
  <2>4. /\ Creates(x, k) * c <= Creates(s, l) * c /\ Identities(x, k) * i <= Identities(s, l) * i
        /\ Operations(x) * o <= Operations(s) * o /\ AllProofs(x) * p <= AllProofs(s) * p
        /\ Creates(x, k) * c \in Nat /\ Identities(x, k) * i \in Nat
        /\ Operations(x) * o \in Nat /\ AllProofs(x) * p \in Nat
        /\ Creates(s, l) * c \in Nat /\ Identities(s, l) * i \in Nat
        /\ Operations(s) * o \in Nat /\ AllProofs(s) * p \in Nat
    BY <1>2, <2>1, <2>2, NeedIs, SizesTyped
  <2>5. /\ Need(x, k) = Base(x) + Creates(x, k) * c + Identities(x, k) * i
                           + Operations(x) * o + AllProofs(x) * p
        /\ Need(s, l) = Base(s) + Creates(s, l) * c + Identities(s, l) * i
                           + Operations(s) * o + AllProofs(s) * p
        /\ Base(s) \in Nat
    BY <1>2, NeedIs
  <2> HIDE DEF c, i, o, p
  <2>6. QED
    BY <2>3, <2>4, <2>5
<1>3. QED
  BY <1>1, <1>2

-----------------------------------------------------------------------------
(* Every commit that may spend the reserve needs no more than was needed.  *)

RoomOK(s, l) == Counted(s) /\ (s.retired => l = "idle")

Spending(s, l, x, k) == x \in Session /\ RoomOK(x, k) /\ Need(x, k) <= Need(s, l)

Unsettled(s) == s.prompt \in {"open", "closing"}

(* A change that leaves the log alone.                                     *)
LEMMA KeepsSpends ==
  ASSUME NEW s \in Session, NEW x \in Session, NEW l, NEW k, RoomOK(s, l), Keeps(s, x),
         x.known = s.known, x.mapped = s.mapped, x.retired = s.retired,
         Unsettled(x) = Unsettled(s) \/ ~s.retired, s.retired => k = "idle",
         Creates(x, k) <= Creates(s, l), Identities(x, k) <= Identities(s, l)
  PROVE  Spending(s, l, x, k)
<1>1. LogInv(x)
  BY KeepsInv DEF RoomOK, Counted
<1>2. RoomOK(x, k)
  BY <1>1 DEF RoomOK, Counted, Keeps
<1>3. Operations(x) = Operations(s)
  BY DEF Operations, Keeps
<1>4. AllProofs(x) = AllProofs(s)
  BY IfIs DEF AllProofs, Keeps, Unsettled
<1>5. s.known => Operations(s) \in Nat /\ AllProofs(s) \in Nat
  BY NeedIs DEF RoomOK
<1>6. Need(x, k) <= Need(s, l)
  BY <1>2, <1>3, <1>4, <1>5, Spends DEF RoomOK, Keeps
<1>7. QED
  BY <1>2, <1>6 DEF Spending

(* A request that comes to its end, or stays where it is.                  *)
Later(l, k) == k = l \/ k # "running"

(* Closing the prompt, and marks of an invocation that admit nothing new.  *)
LEMMA MarkSpends ==
  ASSUME NEW s \in Session, NEW l, NEW k, RoomOK(s, l), Later(l, k), s.retired => k = "idle",
         NEW st \in {s.invocation, "rejected", "uncertain", "intent"},
         st = "intent" => s.invocation \in {"reserved", "intent"} \/ k # "running"
  PROVE  /\ Spending(s, l, Closed(s), k)
         /\ Spending(s, l, [s EXCEPT !.invocation = st], k)
         /\ Spending(s, l, [Closed(s) EXCEPT !.invocation = st], k)
<1> DEFINE z == Closed(s)
           x == [s EXCEPT !.invocation = st]
           y == [Closed(s) EXCEPT !.invocation = st]
<1>1. z \in Session /\ Keeps(s, z)
  BY ClosedKeeps
<1>2. st \in {"none", "reserved", "intent", "rejected", "uncertain", "accepted", "completed", "settled"}
  BY DEF Session
<1>3. x \in Session /\ Keeps(s, x)
  BY <1>2 DEF Session, Keeps
<1>4. /\ y \in Session /\ Keeps(s, y)
      /\ y.known = z.known /\ y.mapped = z.mapped /\ y.retired = z.retired /\ y.prompt = z.prompt
      /\ y.create = z.create /\ y.accepted = z.accepted /\ y.invocation = st
  <2> HIDE DEF z
  <2>1. y = [z EXCEPT !.invocation = st]
    BY DEF z
  <2>2. QED
    BY <1>1, <1>2, <2>1 DEF Session, Keeps
<1>5. /\ z.known = s.known /\ z.mapped = s.mapped /\ z.retired = s.retired
      /\ z.create = s.create /\ z.accepted = s.accepted /\ z.invocation = s.invocation
      /\ Unsettled(z) = Unsettled(s)
  BY DEF Closed, Session, Unsettled
<1>6. /\ x.known = s.known /\ x.mapped = s.mapped /\ x.retired = s.retired /\ x.prompt = s.prompt
      /\ x.create = s.create /\ x.accepted = s.accepted /\ x.invocation = st
  BY DEF Session
<1>7. s.accepted \in Nat
  BY DEF Session
<1> HIDE DEF x, y, z
<1>8. Creates(z, k) <= Creates(s, l) /\ Creates(x, k) <= Creates(s, l) /\ Creates(y, k) <= Creates(s, l)
  BY <1>4, <1>5, <1>6 DEF If, Creates, Later
<1>9. /\ Identities(z, k) <= Identities(s, l) /\ Identities(x, k) <= Identities(s, l)
      /\ Identities(y, k) <= Identities(s, l)
  BY <1>4, <1>5, <1>6, <1>7 DEF If, Identities, Later
<1>10. Spending(s, l, z, k)
  BY <1>1, <1>5, <1>8, <1>9, KeepsSpends
<1>11. Spending(s, l, x, k)
  BY <1>3, <1>6, <1>8, <1>9, KeepsSpends DEF Unsettled
<1>12. Spending(s, l, y, k)
  BY <1>4, <1>5, <1>8, <1>9, KeepsSpends DEF Unsettled
<1>13. QED
  BY <1>10, <1>11, <1>12 DEF x, y, z

(* The creation, its answers and the acceptance of an inference.           *)
LEMMA CreationSpends ==
  ASSUME NEW s \in Session, RoomOK(s, "running")
  PROVE  /\ s.create = "none" => Spending(s, "running", Intended(s), "running")
         /\ s.create = "intent" =>
              /\ Spending(s, "running", [s EXCEPT !.create = "known"], "running")
              /\ Spending(s, "running", [s EXCEPT !.create = "none"], "failing")
         /\ s.invocation = "intent" => Spending(s, "running", Accepted(s), "running")
<1>1. ~s.retired /\ s.accepted \in Nat
  BY DEF RoomOK, Session
<1>2. ASSUME NEW c \in {"intent", "known", "none"}, NEW k,
             \/ s.create = "none" /\ c = "intent" /\ k = "running"
             \/ s.create = "intent" /\ c = "known" /\ k = "running"
             \/ s.create = "intent" /\ c = "none" /\ k = "failing"
      PROVE  Spending(s, "running", [s EXCEPT !.create = c], k)
  <2> DEFINE x == [s EXCEPT !.create = c]
  <2>1. x \in Session /\ Keeps(s, x)
    BY DEF Session, Keeps
  <2>2. /\ x.known = s.known /\ x.mapped = s.mapped /\ x.retired = s.retired /\ x.prompt = s.prompt
        /\ x.create = c /\ x.accepted = s.accepted /\ x.invocation = s.invocation
    BY DEF Session
  <2> HIDE DEF x
  <2>3. Creates(x, k) <= Creates(s, "running")
    BY <1>1, <1>2, <2>2 DEF If, Creates
  <2>4. Identities(x, k) <= Identities(s, "running")
    BY <1>1, <1>2, <2>2 DEF If, Identities
  <2>5. Spending(s, "running", x, k)
    BY <1>1, <2>1, <2>2, <2>3, <2>4, KeepsSpends
  <2>6. QED
    BY <2>5 DEF x
<1>3. ASSUME s.invocation = "intent"
      PROVE  Spending(s, "running", Accepted(s), "running")
  <2> DEFINE x == Accepted(s)  n == s.accepted + 1
  <2>1. n \in Nat /\ x = [s EXCEPT !.invocation = "accepted", !.accepted = n]
    BY <1>1 DEF Accepted
  <2>2. n = s.accepted + 1
    OBVIOUS
  <2> HIDE DEF x, n
  <2>3. x \in Session /\ Keeps(s, x)
    BY <2>1 DEF Session, Keeps
  <2>4. /\ x.known = s.known /\ x.mapped = s.mapped /\ x.retired = s.retired /\ x.prompt = s.prompt
        /\ x.create = s.create /\ x.accepted = n /\ x.invocation = "accepted"
    BY <2>1 DEF Session
  <2>5. Creates(x, "running") <= Creates(s, "running")
    BY <1>1, <2>4 DEF If, Creates
  <2>6. Identities(x, "running") <= Identities(s, "running")
    BY <1>1, <1>3, <2>2, <2>4 DEF If, Identities
  <2>7. Spending(s, "running", x, "running")
    BY <1>1, <2>3, <2>4, <2>5, <2>6, KeepsSpends
  <2>8. QED
    BY <2>7 DEF x
<1>4. Intended(s) = [s EXCEPT !.create = "intent"]
  BY DEF Intended
<1>5. QED
  BY <1>2, <1>3, <1>4

(* The settlement of the last prompt spends the slot it was owed.          *)
LEMMA SettledSpends ==
  ASSUME NEW s \in Session, NEW l, RoomOK(s, l), CanSettle(s)
  PROVE  Spending(s, l, Settled(s), l)
<1> DEFINE x == Settled(s)  r == Settlement(s.prompts)
<1>1. /\ s.prompts \in 1..PromptLimit /\ s.known /\ ~s.retired /\ LogInv(s) /\ Members(s)
      /\ s.prompts \in Nat /\ s.accepted \in Nat
  BY LimitsAssumption DEF CanSettle, RoomOK, Counted, Session, LogInv
<1>2. r \in s.ops \/ Recordable(s, r)
  BY DEF CanSettle
<1>3. x \in Session /\ Settles(s, x)
  BY <1>1, <1>2, SettledStep
<1>4. LogInv(x)
  BY <1>1, <1>3, SettlesInv
<1> DEFINE z == Recorded(s, r)
<1>5. r \in Request
  BY <1>1 DEF Settlement, Request, Paths
<1>6. /\ z \in Session /\ z.known /\ z.ops = s.ops \cup {r} /\ z.prompts = s.prompts
      /\ z.prompt = s.prompt /\ z.invocation = s.invocation /\ z.create = s.create
      /\ z.retired = s.retired /\ z.invoked = s.invoked /\ z.accepted = s.accepted
      /\ z.mapped = s.mapped
  BY <1>5 DEF Recorded, Session
<1>7. x = Closed(z)
  BY DEF Settled
<1> HIDE DEF x, z
<1>8. /\ x.known /\ x.ops = s.ops \cup {r} /\ x.prompts = s.prompts
      /\ Unsettled(x) = Unsettled(s) /\ x.invocation = s.invocation /\ x.create = s.create
      /\ ~x.retired /\ x.invoked = s.invoked /\ x.accepted = s.accepted
      /\ x.mapped = s.mapped
  BY <1>1, <1>6, <1>7 DEF Closed, Session, Unsettled
<1>9. RoomOK(x, l)
  BY <1>4, <1>8 DEF RoomOK, Counted
<1>10. Creates(x, l) = Creates(s, l) /\ Identities(x, l) = Identities(s, l) /\ AllProofs(x) = AllProofs(s)
  BY <1>1, <1>8 DEF Creates, Identities, AllProofs, If
<1>11. Operations(x) = Operations(s)
  <2>1. r # Retirement
    BY <1>1, Distinct
  <2>2. Retirement \in x.ops <=> Retirement \in s.ops
    BY <1>8, <2>1
  <2>3. CASE r \in s.ops
    BY <1>1, <1>8, <2>3 DEF Operations
  <2>4. CASE r \notin s.ops
    <3>1. ~Taken(s, r.id)
      BY <1>2, <2>4 DEF Recordable
    <3>2. Cardinality(x.ops) = Cardinality(s.ops) + 1 /\ Cardinality(s.ops) \in Nat
      BY <1>1, <1>3, <1>5, <1>8, <3>1, Grows
    <3>3. r \in x.ops
      BY <1>8
    <3>4. QED
      BY <1>1, <1>8, <2>2, <2>4, <3>2, <3>3 DEF Operations, If
  <2>5. QED
    BY <2>3, <2>4
<1>12. /\ Creates(s, l) \in Nat /\ Identities(s, l) \in Nat /\ Operations(s) \in Nat
       /\ AllProofs(s) \in Nat
  BY <1>1, NeedIs DEF RoomOK
<1>13. Need(x, l) <= Need(s, l)
  <2>1. x.known = s.known
    BY <1>1, <1>3, <1>8 DEF Session
  <2>2. /\ Creates(x, l) <= Creates(s, l) /\ Identities(x, l) <= Identities(s, l)
        /\ Operations(x) <= Operations(s) /\ AllProofs(x) <= AllProofs(s)
    BY <1>10, <1>11, <1>12
  <2>3. QED
    BY <1>3, <1>8, <1>9, <2>1, <2>2, Spends DEF RoomOK
<1>14. QED
  BY <1>3, <1>9, <1>13 DEF Spending, x

(* So does the retirement of an owner that is known.                       *)
LEMMA RetiringSpends ==
  ASSUME NEW s \in Session, NEW l, RoomOK(s, l), s.known, CanRetire(s)
  PROVE  Spending(s, l, Retiring(s), l)
<1> DEFINE x == Retiring(s)
<1>1. /\ LogInv(s) /\ Members(s) /\ Tells(s) /\ s.prompts \in Nat /\ s.accepted \in Nat
  BY LimitsAssumption DEF RoomOK, Counted, Session, LogInv
<1>2. x \in Session /\ Retires(s, x)
  BY RetiringStep
<1>3. LogInv(x)
  BY <1>1, <1>2, RetiresInv
<1> DEFINE z == Recorded(s, Retirement)
<1>4. /\ z \in Session /\ z.known /\ z.ops = s.ops \cup {Retirement} /\ z.prompts = s.prompts
      /\ z.prompt = s.prompt /\ z.invocation = s.invocation /\ z.create = s.create
      /\ z.retired = s.retired /\ z.invoked = s.invoked /\ z.accepted = s.accepted
      /\ z.mapped = s.mapped
  BY RetirementType DEF Recorded, Session
<1>5. x = [Closed(z) EXCEPT !.retiring = TRUE]
  BY DEF Retiring
<1> HIDE DEF x, z
<1>6. /\ x.known /\ x.ops = s.ops \cup {Retirement} /\ x.prompts = s.prompts
      /\ Unsettled(x) = Unsettled(s) /\ x.invocation = s.invocation /\ x.create = s.create
      /\ x.retired = s.retired /\ x.invoked = s.invoked /\ x.accepted = s.accepted
      /\ x.mapped = s.mapped
  BY <1>4, <1>5 DEF Closed, Session, Unsettled
<1>7. RoomOK(x, l)
  BY <1>3, <1>6 DEF RoomOK, Counted
<1>8. Creates(x, l) = Creates(s, l) /\ Identities(x, l) = Identities(s, l) /\ AllProofs(x) = AllProofs(s)
  BY <1>6 DEF Creates, Identities, AllProofs, Unsettled
<1>9. Operations(x) = Operations(s)
  <2>1. CASE Retirement \in s.ops
    <3>1. x.ops = s.ops
      BY <1>6, <2>1
    <3>2. QED
      BY <1>6, <3>1 DEF Operations
  <2>2. CASE Retirement \notin s.ops
    <3>1. ~s.retired /\ ~Taken(s, Retirement.id)
      BY <1>1, <2>2 DEF Tells, CanRetire, Recordable
    <3>2. Cardinality(x.ops) = Cardinality(s.ops) + 1 /\ Cardinality(s.ops) \in Nat
      BY <1>1, <1>2, <1>6, <3>1, RetirementType, Grows
    <3>3. s.prompts > 0 => (Settlement(s.prompts) \in x.ops <=> Settlement(s.prompts) \in s.ops)
      <4>1. s.prompts > 0 => s.prompts \in 1..PromptLimit
        BY LimitsAssumption DEF Session
      <4>2. QED
        BY <1>6, <4>1, Distinct
    <3>4. Retirement \in x.ops
      BY <1>6
    <3>5. QED
      BY <1>6, <2>2, <3>1, <3>2, <3>3, <3>4 DEF Operations, If
  <2>3. QED
    BY <2>1, <2>2
<1>10. /\ Creates(s, l) \in Nat /\ Identities(s, l) \in Nat /\ Operations(s) \in Nat
       /\ AllProofs(s) \in Nat
  BY NeedIs DEF RoomOK
<1>11. Need(x, l) <= Need(s, l)
  <2>1. x.known = s.known
    BY <1>2, <1>6 DEF Session
  <2>2. /\ Creates(x, l) <= Creates(s, l) /\ Identities(x, l) <= Identities(s, l)
        /\ Operations(x) <= Operations(s) /\ AllProofs(x) <= AllProofs(s)
    BY <1>8, <1>9, <1>10
  <2>3. QED
    BY <1>2, <1>6, <1>7, <2>1, <2>2, Spends DEF RoomOK
<1>12. QED
  BY <1>2, <1>7, <1>11 DEF Spending, x

(* Evidence of settlement, and of retirement, of an owner at rest.         *)
LEMMA ProvedSpends ==
  ASSUME NEW s \in Session, NEW l, RoomOK(s, l), l = "idle", ~s.retired
  PROVE  /\ Spending(s, l, Proved(s), l)
         /\ s.retiring => Spending(s, l, Gone(s), l)
<1> DEFINE p == IF s.prompt = "closing" THEN "settled" ELSE s.prompt
           v == IF s.prompt = "closing" /\ s.invocation \notin {"none", "completed"}
                  THEN "settled" ELSE s.invocation
           c == IF s.create = "known" THEN "deleted" ELSE s.create
           z == Proved(s)
           x == Gone(s)
<1>1. s.accepted \in Nat /\ LogInv(s) /\ s.prompts \in Nat
  BY LimitsAssumption DEF Session, RoomOK, Counted
<1>2. z = [s EXCEPT !.prompt = p, !.invocation = v]
  BY DEF Proved
<1>3. /\ p \in {"none", "open", "closing", "settled"} /\ (p = "none" <=> s.prompt = "none")
      /\ v \in {"none", "reserved", "intent", "rejected", "uncertain", "accepted", "completed", "settled"}
      /\ c \in {"none", "intent", "known", "deleted"} /\ (c = "none" <=> s.create = "none")
  BY DEF Session
<1> HIDE DEF p, v, z
<1>4. z \in Session /\ Keeps(s, z)
  BY <1>2, <1>3 DEF Session, Keeps
<1>5. /\ z.known = s.known /\ z.mapped = s.mapped /\ z.retired = s.retired /\ z.create = s.create
      /\ z.accepted = s.accepted
  BY <1>2 DEF Session
<1>6. x = [z EXCEPT !.retired = TRUE, !.create = c]
  BY <1>5 DEF Gone, z
<1> HIDE DEF x, c
<1>7. x \in Session /\ (s.retiring => Keeps(s, x))
  BY <1>3, <1>4, <1>6 DEF Session, Keeps
<1>8. /\ x.known = s.known /\ x.mapped = s.mapped /\ x.retired /\ x.create = c
      /\ x.accepted = s.accepted /\ x.ops = s.ops /\ x.prompts = s.prompts /\ x.invoked = s.invoked
  BY <1>4, <1>5, <1>6 DEF Session, Keeps
<1>9. /\ Creates(z, l) = Creates(s, l) /\ Identities(z, l) = Identities(s, l)
      /\ Creates(x, l) = Creates(s, l) /\ Identities(x, l) = Identities(s, l)
  BY <1>1, <1>3, <1>5, <1>8 DEF Creates, Identities, If
<1>10. s.known => /\ Creates(s, l) \in Nat /\ Identities(s, l) \in Nat /\ Operations(s) \in Nat
                  /\ AllProofs(s) \in Nat
  BY NeedIs DEF RoomOK
<1>11. ~s.known => Creates(s, l) \in Nat /\ Identities(s, l) \in Nat
  BY <1>1 DEF Creates, Identities, If
<1>12. Spending(s, l, z, l)
  BY <1>4, <1>5, <1>9, <1>10, <1>11, KeepsSpends DEF RoomOK
<1>13. ASSUME s.retiring PROVE Spending(s, l, x, l)
  <2>1. LogInv(x)
    BY <1>1, <1>7, <1>13, KeepsInv
  <2>2. RoomOK(x, l)
    BY <1>8, <2>1 DEF RoomOK, Counted
  <2>3. Operations(x) <= Operations(s)
    <3>1. Cardinality(s.ops) \in Nat
      BY <1>1, FS_CardinalityType DEF LogInv, Members
    <3>2. QED
      BY <1>8, <3>1 DEF Operations, If
  <2>4. AllProofs(x) <= AllProofs(s)
    BY <1>1, <1>8 DEF AllProofs, If
  <2>5. Need(x, l) <= Need(s, l)
    BY <1>7, <1>8, <1>9, <1>10, <2>2, <2>3, <2>4, Spends DEF RoomOK
  <2>6. QED
    BY <1>7, <2>2, <2>5 DEF Spending
<1>14. QED
  BY <1>12, <1>13 DEF x, z

-----------------------------------------------------------------------------
(* The bytes of the ledger, and the room the owners need.                  *)

Sizes(ss) == [o \in Owners |-> SizeOf(ss[o])]

Needs(ss, ll) == [o \in Owners |-> Need(ss[o], ll[o])]

\* The fold of Size, as a function of the owners it has summed.
Folded(ss) ==
  LET f[S \in SUBSET Owners] ==
        IF S = {} THEN 0 ELSE SizeOf(ss[Pick(S)]) + f[S \ {Pick(S)}]
  IN f

LEMMA SizeIs ==
  ASSUME NEW ss, NEW p
  PROVE  Size(ss, p) = If(p) * Bytes["principal"] + Total(Sizes(ss))
<1>1. MapThenSumSet(LAMBDA o : SizeOf(ss[o]), Owners) = Folded(ss)[Owners]
  BY DEF MapThenSumSet, MapThenFoldSet, Folded, Pick
<1>2. ASSUME NEW g
      PROVE  IsSum(g, Sizes(ss), Owners) <=>
               g = [S \in SUBSET Owners |->
                      IF S = {} THEN 0 ELSE SizeOf(ss[Pick(S)]) + g[S \ {Pick(S)}]]
  <2>1. \A S \in SUBSET Owners : S # {} => Sizes(ss)[Pick(S)] = SizeOf(ss[Pick(S)])
    BY PickIs DEF Sizes
  <2>2. QED
    BY <2>1 DEF IsSum
<1>3. IsSum(Folded(ss), Sizes(ss), Owners)
  BY <1>2, SumExists DEF Folded
<1>4. QED
  BY <1>1, <1>3, TotalIs DEF Size

Rooms == \A o \in Owners : RoomOK(sessions[o], live[o])

(* The file holds what the ledger records, what every owner is owed and a  *)
(* principal.                                                              *)
Covered == Total(Needs(sessions, live)) + Bytes["principal"] <= LedgerLimit

RoomIInv == LogIInv /\ Rooms /\ Covered

LEMMA Weighed ==
  ASSUME LogIInv, Rooms
  PROVE  /\ Sizes(sessions) \in Weights /\ Needs(sessions, live) \in Weights
         /\ \A o \in Owners :
              /\ sessions[o] \in Session /\ RoomOK(sessions[o], live[o])
              /\ Needs(sessions, live)[o] = Need(sessions[o], live[o])
              /\ Sizes(sessions)[o] = SizeOf(sessions[o])
              /\ SizeOf(sessions[o]) <= Need(sessions[o], live[o])
<1>1. \A o \in Owners : sessions[o] \in Session /\ RoomOK(sessions[o], live[o])
  BY DEF LogIInv, TypeOK, Rooms
<1>2. \A o \in Owners : /\ SizeOf(sessions[o]) \in Nat /\ Need(sessions[o], live[o]) \in Nat
                        /\ SizeOf(sessions[o]) <= Need(sessions[o], live[o])
  BY <1>1, NeedTyped DEF RoomOK
<1>3. QED
  BY <1>1, <1>2 DEF Sizes, Needs, Weights

(* Weights that are pointwise at most others have at most their sum.       *)
LEMMA TotalMonotone ==
  ASSUME NEW F \in Weights, NEW H \in Weights, \A o \in Owners : H[o] <= F[o]
  PROVE  Total(F) \in Nat /\ Total(H) \in Nat /\ Total(H) <= Total(F)
<1>1. \A o \in Owners : H[o] <= F[o] + (IF o \in {} THEN 0 ELSE 0)
  BY DEF Weights
<1>2. Total(F) \in Nat /\ Total(H) \in Nat /\ Total(H) <= Total(F) + 0 * Cardinality({})
  BY <1>1, TotalBound
<1>3. Cardinality({}) = 0
  BY FS_EmptySet
<1>4. QED
  BY <1>2, <1>3

(* A step that spends leaves the file as covered as it was.                *)
LEMMA SpendingStep ==
  ASSUME RoomIInv, LogIInv',
         \A o \in Owners : Spending(sessions[o], live[o], sessions'[o], live'[o])
  PROVE  RoomIInv'
<1>1. Rooms'
  BY DEF Rooms, Spending
<1>2. /\ Needs(sessions, live) \in Weights
      /\ \A o \in Owners : Needs(sessions, live)[o] = Need(sessions[o], live[o])
  BY Weighed DEF RoomIInv
<1>3. /\ Needs(sessions', live') \in Weights
      /\ \A o \in Owners : Needs(sessions', live')[o] = Need(sessions'[o], live'[o])
  <2>1. \A o \in Owners : sessions'[o] \in Session /\ RoomOK(sessions'[o], live'[o])
    BY DEF Spending
  <2>2. \A o \in Owners : Need(sessions'[o], live'[o]) \in Nat
    BY <2>1, NeedTyped DEF RoomOK
  <2>3. QED
    BY <2>2 DEF Needs, Weights
<1>4. /\ Total(Needs(sessions, live)) \in Nat /\ Total(Needs(sessions', live')) \in Nat
      /\ Total(Needs(sessions', live')) <= Total(Needs(sessions, live))
  BY <1>2, <1>3, TotalMonotone DEF Spending
<1>5. Covered'
  BY <1>4, SizesTyped, LimitsAssumption DEF RoomIInv, Covered
<1>6. QED
  BY <1>1, <1>5 DEF RoomIInv

LEMMA StaySpends ==
  ASSUME NEW s \in Session, NEW l, RoomOK(s, l)
  PROVE  Spending(s, l, s, l)
<1>1. Need(s, l) \in Nat
  BY NeedTyped DEF RoomOK
<1>2. QED
  BY <1>1 DEF Spending

(* So does one that changes one owner.                                     *)
LEMMA OneSpends ==
  ASSUME RoomIInv, LogIInv', NEW o \in Owners, NEW x, NEW k,
         Spending(sessions[o], live[o], x, k),
         sessions' = With(o, x), live' = [live EXCEPT ![o] = k]
  PROVE  RoomIInv'
<1>1. /\ \A q \in Owners : sessions[q] \in Session /\ RoomOK(sessions[q], live[q])
      /\ sessions \in [Owners -> Session] /\ DOMAIN live = Owners
  BY Weighed DEF RoomIInv, LogIInv, TypeOK
<1>2. ASSUME NEW q \in Owners
      PROVE  Spending(sessions[q], live[q], sessions'[q], live'[q])
  <2>1. CASE q = o
    <3>1. sessions'[q] = x /\ live'[q] = k
      BY <1>1, <2>1 DEF With
    <3>2. QED
      BY <2>1, <3>1
  <2>2. CASE q # o
    <3>1. sessions'[q] = sessions[q] /\ live'[q] = live[q]
      BY <1>1, <2>2 DEF With
    <3>2. Spending(sessions[q], live[q], sessions[q], live[q])
      BY <1>1, StaySpends
    <3>3. QED
      BY <3>1, <3>2
  <2>3. QED
    BY <2>1, <2>2
<1>3. QED
  BY <1>2, SpendingStep

(* Ordinary growth leaves the reserve of every owner, which covers all     *)
(* that the owner is owed.                                                 *)
LEMMA GrowthStep ==
  ASSUME RoomIInv, LogIInv', NEW o \in Owners, NEW x, NEW k,
         RoomOK(x, k), FitsOrdinary(With(o, x)),
         sessions' = With(o, x), live' = [live EXCEPT ![o] = k]
  PROVE  RoomIInv'
<1>1. /\ \A q \in Owners : RoomOK(sessions[q], live[q])
      /\ sessions \in [Owners -> Session] /\ DOMAIN live = Owners
  BY Weighed DEF RoomIInv, LogIInv, TypeOK
<1>2. \A q \in Owners : sessions'[q] \in Session
  BY DEF LogIInv, TypeOK
<1>3. ASSUME NEW q \in Owners PROVE RoomOK(sessions'[q], live'[q])
  BY <1>1 DEF With
<1>4. Rooms'
  BY <1>3 DEF Rooms
<1> DEFINE K == {q \in Owners : sessions'[q].known /\ ~sessions'[q].retired}
           F == Sizes(sessions')
           H == Needs(sessions', live')
           p == Bytes["principal"]
<1>5. /\ F \in Weights /\ H \in Weights
      /\ \A q \in Owners : H[q] <= F[q] + (IF q \in K THEN Reserve ELSE 0)
  <2>1. ASSUME NEW q \in Owners
        PROVE  /\ SizeOf(sessions'[q]) \in Nat /\ Need(sessions'[q], live'[q]) \in Nat
               /\ Need(sessions'[q], live'[q])
                    <= SizeOf(sessions'[q]) + (IF q \in K THEN Reserve ELSE 0)
    <3>1. /\ SizeOf(sessions'[q]) \in Nat /\ Owed(sessions'[q], live'[q]) \in Nat
          /\ Need(sessions'[q], live'[q]) = SizeOf(sessions'[q]) + Owed(sessions'[q], live'[q])
          /\ Owed(sessions'[q], live'[q]) <= If(sessions'[q].known /\ ~sessions'[q].retired) * Reserve
      BY <1>2, <1>3, NeedTyped DEF RoomOK, Need
    <3>2. If(sessions'[q].known /\ ~sessions'[q].retired) * Reserve = IF q \in K THEN Reserve ELSE 0
      BY LimitsAssumption DEF If
    <3>3. QED
      BY <3>1, <3>2, LimitsAssumption
  <2>2. QED
    BY <2>1 DEF Sizes, Needs, Weights
<1>6. K \in SUBSET Owners /\ Reserve \in Nat
  BY LimitsAssumption
<1>7. Total(F) \in Nat /\ Total(H) \in Nat /\ Total(H) <= Total(F) + Reserve * Cardinality(K)
  <2> HIDE DEF F, H, K
  <2>1. QED
    BY <1>5, <1>6, TotalBound
<1>8. Total(F) + Reserve * Cardinality(K) + p <= LedgerLimit
  <2>1. Size(sessions', principal) + Reserved(sessions', principal) <= LedgerLimit
    BY DEF FitsOrdinary
  <2>2. Size(sessions', principal) = If(principal) * p + Total(F)
    BY SizeIs
  <2>3. Reserved(sessions', principal) = If(~principal) * p + Reserve * Cardinality(K)
    BY DEF Reserved
  <2>4. Cardinality(K) \in Nat
    BY <1>6, OwnersAssumption, FS_Subset, FS_CardinalityType
  <2> DEFINE rk == Reserve * Cardinality(K)
  <2>5. rk \in Nat /\ p \in Nat
    BY <1>6, <2>4, SizesTyped
  <2> HIDE DEF rk, F, K, p
  <2>6. If(principal) * p + If(~principal) * p = p /\ If(principal) * p \in Nat
        /\ If(~principal) * p \in Nat
    BY <2>5 DEF If
  <2> DEFINE a == If(principal) * p  b == If(~principal) * p
  <2>7. (a + Total(F)) + (b + rk) <= LedgerLimit /\ a + b = p /\ a \in Nat /\ b \in Nat
    BY <2>1, <2>2, <2>3, <2>6 DEF rk
  <2> HIDE DEF a, b
  <2>8. Total(F) + rk + p <= LedgerLimit
    BY <1>7, <2>5, <2>7, LimitsAssumption
  <2>9. QED
    BY <2>8 DEF rk
<1>9. Covered'
  <2>1. Cardinality(K) \in Nat
    BY <1>6, OwnersAssumption, FS_Subset, FS_CardinalityType
  <2> DEFINE rk == Reserve * Cardinality(K)
  <2>2. rk \in Nat /\ p \in Nat
    BY <1>6, <2>1, SizesTyped
  <2>3. Total(F) + rk + p <= LedgerLimit /\ Total(H) <= Total(F) + rk
    BY <1>7, <1>8
  <2> HIDE DEF rk, F, K
  <2>4. Total(H) + p <= LedgerLimit
    BY <1>7, <2>2, <2>3, LimitsAssumption
  <2>5. QED
    BY <2>4 DEF Covered
<1>10. QED
  BY <1>4, <1>9 DEF RoomIInv

-----------------------------------------------------------------------------
(* Every action spends, grows or leaves the ledger alone.                  *)

LEMMA InvokeRoom ==
  ASSUME RoomIInv, LogIInv', NEW o \in Owners, NEW id \in Ids, NEW n \in 1..PromptLimit,
         Invoke(o, id, n)
  PROVE  RoomIInv'
<1> DEFINE s == sessions[o]
           r == Responses(id, n)
           y == Ensured(s, n)
           z == Recorded(y, r)
           i == z.invoked + 1
           x == [Recorded(y, r) EXCEPT !.invocation = "reserved", !.invoked = @ + 1]
<1>1. s \in Session /\ RoomOK(s, live[o]) /\ sessions \in [Owners -> Session] /\ sessions'[o] \in Session
  BY Weighed DEF RoomIInv, LogIInv, TypeOK
<1>2. /\ Admits(s, n) /\ FitsOrdinary(With(o, x)) /\ sessions' = With(o, x)
      /\ live' = [live EXCEPT ![o] = "running"]
  BY DEF Invoke, CommitOrdinary
<1>3. sessions'[o] = x
  BY <1>1, <1>2 DEF With
<1>4. y \in Session /\ y.retired = s.retired /\ ~s.retiring
  BY <1>1, <1>2, EnsuredType
<1> HIDE DEF y
<1>5. z \in Session /\ z.known /\ z.retired = s.retired
  BY <1>4, RequestTypes DEF Recorded, Session
<1>6. x = [z EXCEPT !.invocation = "reserved", !.invoked = i]
  OBVIOUS
<1> HIDE DEF x, z, i
<1>7. x.known /\ x.retired = s.retired
  BY <1>5, <1>6 DEF Session
<1>8. LogInv(x)
  BY <1>3 DEF LogIInv
<1>9. ~s.retired
  BY <1>1, <1>4 DEF RoomOK, Counted, LogInv, Tells
<1>10. RoomOK(x, "running")
  BY <1>7, <1>8, <1>9 DEF RoomOK, Counted
<1>11. QED
  BY <1>2, <1>10, GrowthStep

(* Ordinary growth of an owner whose request stays where it is.            *)
LEMMA GrowthInPlace ==
  ASSUME RoomIInv, LogIInv', NEW o \in Owners, NEW x \in Session, x.known,
         x.retired = sessions[o].retired, CommitOrdinary(o, x), UNCHANGED live
  PROVE  RoomIInv'
<1>1. /\ RoomOK(sessions[o], live[o]) /\ sessions \in [Owners -> Session]
      /\ live = [live EXCEPT ![o] = live[o]]
  BY Weighed DEF RoomIInv, LogIInv, TypeOK
<1>2. /\ FitsOrdinary(With(o, x)) /\ sessions' = With(o, x)
      /\ live' = [live EXCEPT ![o] = live[o]]
  BY <1>1 DEF CommitOrdinary
<1>3. sessions'[o] = x
  BY <1>1, <1>2 DEF With
<1>4. LogInv(x)
  BY <1>3 DEF LogIInv
<1>5. RoomOK(x, live[o])
  BY <1>1, <1>4 DEF RoomOK, Counted
<1>6. QED
  BY <1>2, <1>5, GrowthStep

LEMMA RenewRoom ==
  ASSUME RoomIInv, LogIInv', NEW o \in Owners, NEW id \in Ids, NEW n \in 1..PromptLimit,
         Renew(o, id, n)
  PROVE  RoomIInv'
<1> DEFINE s == sessions[o]
           r == Renewal(id, n)
           y == Ensured(s, n)
           z == Recorded(y, r)
           i == z.renewed + 1
           x == [Recorded(y, r) EXCEPT !.renewed = @ + 1]
<1>1. s \in Session
  BY DEF RoomIInv, LogIInv, TypeOK
<1>2. Admits(s, n) /\ CommitOrdinary(o, x) /\ UNCHANGED live
  BY DEF Renew
<1>3. y \in Session /\ y.retired = s.retired
  BY <1>1, <1>2, EnsuredType
<1> HIDE DEF y
<1>4. z \in Session /\ z.known /\ z.retired = s.retired
  BY <1>3, RequestTypes DEF Recorded, Session
<1>5. x = [z EXCEPT !.renewed = i]
  OBVIOUS
<1>6. i \in Nat
  BY <1>4 DEF Session
<1> HIDE DEF x, z, i
<1>7. x \in Session /\ x.known /\ x.retired = s.retired
  BY <1>4, <1>5, <1>6 DEF Session
<1>8. QED
  BY <1>2, <1>7, GrowthInPlace

LEMMA SettleUnknownRoom ==
  ASSUME RoomIInv, LogIInv', NEW o \in Owners, NEW n \in 1..PromptLimit, SettleUnknown(o, n)
  PROVE  RoomIInv'
<1> DEFINE s == sessions[o]
           y == Opened(s, n)
           z == Recorded(y, Settlement(y.prompts))
           x == Settled(y)
<1>1. s \in Session
  BY DEF RoomIInv, LogIInv, TypeOK
<1>2. Opens(s, n) /\ CommitOrdinary(o, x) /\ UNCHANGED live
  BY DEF SettleUnknown
<1>3. y \in Session /\ y.retired = s.retired /\ y.prompts = n
  BY <1>1, <1>2, OpenedType
<1> HIDE DEF y
<1>4. z \in Session /\ z.known /\ z.retired = s.retired
  <2>1. Settlement(y.prompts) \in Request
    BY <1>3, LimitsAssumption DEF Settlement, Request, Paths
  <2>2. QED
    BY <1>3, <2>1 DEF Recorded, Session
<1>5. x = Closed(z)
  BY DEF Settled
<1> HIDE DEF x, z
<1>6. x \in Session /\ x.known /\ x.retired = s.retired
  BY <1>4, <1>5 DEF Closed, Session
<1>7. QED
  BY <1>2, <1>6, GrowthInPlace

(* A commit that spends, of an owner whose request becomes k.              *)
LEMMA CommitSpends ==
  ASSUME RoomIInv, LogIInv', NEW o \in Owners, NEW x, NEW k,
         Spending(sessions[o], live[o], x, k), Commit(o, x),
         live' = [live EXCEPT ![o] = k] \/ (UNCHANGED live /\ k = live[o])
  PROVE  RoomIInv'
<1>1. live = [live EXCEPT ![o] = live[o]]
  BY DEF RoomIInv, LogIInv, TypeOK
<1>2. live' = [live EXCEPT ![o] = k] /\ sessions' = With(o, x)
  BY <1>1 DEF Commit
<1>3. QED
  BY <1>2, OneSpends

LEMMA ControlRoom ==
  ASSUME RoomIInv, LogIInv', NEW o \in Owners, Settle(o) \/ Retire(o)
  PROVE  RoomIInv'
<1> DEFINE s == sessions[o]
<1>1. s \in Session /\ RoomOK(s, live[o])
  BY Weighed DEF RoomIInv
<1>2. CASE Settle(o)
  <2>1. Spending(s, live[o], Settled(s), live[o])
    BY <1>1, <1>2, SettledSpends DEF Settle
  <2>2. QED
    BY <1>2, <2>1, CommitSpends DEF Settle
<1>3. CASE Retire(o) /\ s.known
  <2>1. Spending(s, live[o], Retiring(s), live[o])
    BY <1>1, <1>3, RetiringSpends DEF Retire
  <2>2. QED
    BY <1>3, <2>1, CommitSpends DEF Retire
<1>4. CASE Retire(o) /\ ~s.known
  <2> DEFINE z == Recorded(s, Retirement)  x == Retiring(s)
  <2>1. CommitOrdinary(o, x) /\ UNCHANGED live
    BY <1>4 DEF Retire
  <2>2. z \in Session /\ z.known /\ z.retired = s.retired
    BY <1>1, RetirementType DEF Recorded, Session
  <2>3. x = [Closed(z) EXCEPT !.retiring = TRUE]
    BY DEF Retiring
  <2> HIDE DEF x, z
  <2>4. x \in Session /\ x.known /\ x.retired = s.retired
    BY <2>2, <2>3 DEF Closed, Session
  <2>5. QED
    BY <2>1, <2>4, GrowthInPlace
<1>5. QED
  BY <1>2, <1>3, <1>4

(* The commits of the request in flight.                                   *)
LEMMA FlightRoom ==
  ASSUME RoomIInv, LogIInv', NEW o \in Owners,
         \/ CreateIntent(o) \/ Created(o) \/ InferenceIntent(o) \/ InferenceRejected(o)
         \/ Accept(o) \/ Complete(o)
  PROVE  RoomIInv'
<1> DEFINE s == sessions[o]
<1>1. s \in Session /\ RoomOK(s, live[o]) /\ live[o] = "running"
  BY Weighed DEF RoomIInv, CreateIntent, Created, InferenceIntent, InferenceRejected, Accept, Complete
<1> HIDE DEF s
<1>2. ~s.retired
  BY <1>1 DEF RoomOK
<1>3. CASE CreateIntent(o)
  <2>1. Spending(s, live[o], Intended(s), live[o])
    BY <1>1, <1>3, CreationSpends DEF CreateIntent, CanCreate, s
  <2>2. QED
    BY <1>3, <2>1, CommitSpends DEF CreateIntent, s
<1>4. CASE Created(o)
  <2>1. /\ Spending(s, live[o], [s EXCEPT !.create = "known"], live[o])
        /\ Spending(s, live[o], [s EXCEPT !.create = "none"], "failing")
    BY <1>1, <1>4, CreationSpends DEF Created, s
  <2>2. QED
    BY <1>4, <2>1, CommitSpends DEF Created, s
<1>5. CASE InferenceIntent(o)
  <2>1. Spending(s, live[o], [s EXCEPT !.invocation = "intent"], live[o])
    BY <1>1, <1>2, <1>5, MarkSpends DEF InferenceIntent, Later, s
  <2>2. QED
    BY <1>5, <2>1, CommitSpends DEF InferenceIntent, s
<1>6. CASE InferenceRejected(o)
  <2>1. Spending(s, live[o], [s EXCEPT !.invocation = "rejected"], "failing")
    BY <1>1, <1>2, <1>6, MarkSpends DEF Later
  <2>2. QED
    BY <1>6, <2>1, CommitSpends DEF InferenceRejected, s
<1>7. CASE Accept(o)
  <2>1. Spending(s, live[o], Accepted(s), live[o])
    BY <1>1, <1>7, CreationSpends DEF Accept, s
  <2>2. QED
    BY <1>7, <2>1, CommitSpends DEF Accept, s
<1>8. CASE Complete(o)
  <2> DEFINE m == s.mapped + 1  x == [s EXCEPT !.invocation = "completed", !.mapped = m]
  <2>1. CommitOrdinary(o, x) /\ UNCHANGED live
    BY <1>8 DEF Complete, s
  <2>2. m \in Nat
    BY <1>1 DEF Session
  <2> HIDE DEF m
  <2>3. x \in Session /\ x.retired = s.retired /\ x.known = s.known
    BY <1>1, <2>2 DEF Session
  <2>4. s.known
    <3>1. s.prompt = "open"
      BY <1>8 DEF Complete, s
    <3>2. QED
      BY <1>1, <3>1 DEF RoomOK, Counted, LogInv, Tells
  <2> HIDE DEF x
  <2>5. QED
    BY <2>1, <2>3, <2>4, GrowthInPlace DEF s
<1>9. QED
  BY <1>3, <1>4, <1>5, <1>6, <1>7, <1>8

(* Closing a prompt, the end of a request, and evidence.                   *)
LEMMA ClosingRoom ==
  ASSUME RoomIInv, LogIInv', NEW o \in Owners, ClosePrompt(o) \/ Finish(o) \/ Prove(o)
  PROVE  RoomIInv'
<1> DEFINE s == sessions[o]
<1>1. s \in Session /\ RoomOK(s, live[o])
  BY Weighed DEF RoomIInv
<1> HIDE DEF s
<1>2. CASE ClosePrompt(o)
  <2>1. Spending(s, live[o], Closed(s), live[o])
    <3>1. s.retired => live[o] = "idle"
      BY <1>1 DEF RoomOK
    <3>2. QED
      BY <1>1, <3>1, MarkSpends DEF Later
  <2>2. QED
    BY <1>2, <2>1, CommitSpends DEF ClosePrompt, s
<1>3. CASE Finish(o)
  <2>1. live' = [live EXCEPT ![o] = "idle"]
    BY <1>3 DEF Finish
  <2>2. CASE s.invocation = "completed"
    <3>1. Commit(o, s)
      BY <1>3, <2>2 DEF Finish, s
    <3>2. [s EXCEPT !.invocation = s.invocation] = s
      BY <1>1 DEF Session
    <3>3. Spending(s, live[o], [s EXCEPT !.invocation = s.invocation], "idle")
      BY <1>1, MarkSpends DEF Later
    <3>4. Spending(s, live[o], s, "idle")
      BY <3>2, <3>3
    <3>5. QED
      BY <2>1, <3>1, <3>4, CommitSpends DEF s
  <2>3. CASE s.invocation # "completed"
    <3>1. \E st \in {s.invocation, "rejected", "uncertain"} :
            Commit(o, [Closed(s) EXCEPT !.invocation = st])
      BY <1>3, <2>3 DEF Finish, s
    <3>2. PICK st \in {s.invocation, "rejected", "uncertain"} :
            Commit(o, [Closed(s) EXCEPT !.invocation = st])
      BY <3>1
    <3>3. Spending(s, live[o], [Closed(s) EXCEPT !.invocation = st], "idle")
      BY <1>1, MarkSpends DEF Later
    <3>4. QED
      BY <2>1, <3>2, <3>3, CommitSpends DEF s
  <2>4. QED
    BY <2>2, <2>3
<1>4. CASE Prove(o)
  <2>1. live[o] = "idle" /\ ~s.retired /\ UNCHANGED live
    BY <1>4 DEF Prove, Provable, s
  <2>2. /\ Spending(s, live[o], Proved(s), live[o])
        /\ s.retiring => Spending(s, live[o], Gone(s), live[o])
    BY <1>1, <2>1, ProvedSpends
  <2>3. Commit(o, Proved(s)) \/ (s.retiring /\ Commit(o, Gone(s)))
    BY <1>4 DEF Prove, s
  <2>4. QED
    BY <2>1, <2>2, <2>3, CommitSpends DEF s
<1>5. QED
  BY <1>2, <1>3, <1>4

LEMMA SweepRoom ==
  ASSUME RoomIInv, LogIInv', NEW S \in SUBSET Owners, Sweep(S)
  PROVE  RoomIInv'
<1>1. ASSUME NEW o \in Owners
      PROVE  Spending(sessions[o], live[o], sessions'[o], live'[o])
  <2>1. sessions[o] \in Session /\ RoomOK(sessions[o], live[o])
    BY Weighed DEF RoomIInv
  <2>2. Spending(sessions[o], live[o], sessions[o], live[o])
    BY <2>1, StaySpends
  <2>3. Spending(sessions[o], live[o], Closed(sessions[o]), live[o])
    <3>1. sessions[o].retired => live[o] = "idle"
      BY <2>1 DEF RoomOK
    <3>2. QED
      BY <2>1, <3>1, MarkSpends DEF Later
  <2>4. live' = live /\ sessions'[o] = IF o \in S THEN Closed(sessions[o]) ELSE sessions[o]
    BY DEF Sweep
  <2>5. QED
    BY <2>2, <2>3, <2>4
<1>2. QED
  BY <1>1, SpendingStep

LEMMA RestartRoom ==
  ASSUME RoomIInv, LogIInv', Restart
  PROVE  RoomIInv'
<1>1. ASSUME NEW o \in Owners
      PROVE  Spending(sessions[o], live[o], sessions'[o], live'[o])
  <2>1. sessions[o] \in Session /\ RoomOK(sessions[o], live[o])
    BY Weighed DEF RoomIInv
  <2>2. Spending(sessions[o], live[o], Closed(sessions[o]), "idle")
    BY <2>1, MarkSpends DEF Later
  <2>3. live'[o] = "idle" /\ sessions'[o] = Closed(sessions[o])
    BY DEF Restart
  <2>4. QED
    BY <2>2, <2>3
<1>2. QED
  BY <1>1, SpendingStep

LEMMA NextRoom ==
  ASSUME RoomIInv, LogIInv', [Next]_vars
  PROVE  RoomIInv'
<1>1. CASE UNCHANGED <<sessions, live>>
  BY <1>1 DEF RoomIInv, Rooms, Covered
<1>2. CASE UNCHANGED vars
  BY <1>1, <1>2 DEF vars
<1>3. ASSUME NEW o \in Owners, PinPrincipal(o) PROVE RoomIInv'
  BY <1>1, <1>3 DEF PinPrincipal
<1>4. QED
  BY <1>2, <1>3, InvokeRoom, RenewRoom, SettleUnknownRoom, ControlRoom, FlightRoom,
     ClosingRoom, SweepRoom, RestartRoom DEF Next

(* Nothing is recorded at first.                                           *)
LEMMA InitRoom ==
  ASSUME Init, LogIInv
  PROVE  RoomIInv
<1>1. \A o \in Owners : sessions[o] = NoSession /\ live[o] = "idle"
  BY DEF Init
<1>2. Rooms
  BY <1>1 DEF Rooms, RoomOK, Counted, LogIInv, NoSession
<1> DEFINE F == Needs(sessions, live)  Z == [o \in Owners |-> 0]
<1>3. \A o \in Owners : F[o] = 0
  BY <1>1 DEF Needs, Need, SizeOf, Owed, NoSession
<1>4. F = Z
  BY <1>3 DEF Needs
<1>5. Total(Z) = 0
  <2>1. PICK g : IsSum(g, Z, Owners)
    BY SumExists
  <2> DEFINE Law == {S \in SUBSET Owners : g[S] = 0}
  <2>2. {} \in Law
    BY <2>1, SumIs
  <2>3. ASSUME NEW S \in SUBSET Owners, S # {}, S \ {Pick(S)} \in Law
        PROVE  S \in Law
    <3>1. g[S] = Z[Pick(S)] + g[S \ {Pick(S)}]
      BY <2>1, <2>3, SumIs
    <3>2. Z[Pick(S)] = 0
      BY <2>3, PickIs
    <3>3. QED
      BY <2>3, <3>1, <3>2
  <2>4. Owners \in Law
    <3> HIDE DEF Law
    <3>1. QED
      BY <2>2, <2>3, SumLaw
  <2>5. QED
    BY <2>1, <2>4, TotalIs
<1>6. Covered
  BY <1>4, <1>5, PrincipalAssumption, SizesTyped DEF Covered
<1>7. QED
  BY <1>2, <1>6 DEF RoomIInv

(* The file covers what every owner has and is owed, whatever the others   *)
(* spend.                                                                  *)
THEOREM RoomInvariant == Spec => []RoomIInv
<1>1. Init /\ LogIInv => RoomIInv
  BY InitRoom
<1>2. RoomIInv /\ LogIInv' /\ [Next]_vars => RoomIInv'
  BY NextRoom
<1>3. QED
  BY <1>1, <1>2, LogInvariant, PTL DEF Spec

(* What an owner may spend has room.                                       *)
LEMMA SpendingFits ==
  ASSUME RoomIInv, NEW o \in Owners, NEW x, NEW k, Spending(sessions[o], live[o], x, k)
  PROVE  Fits(With(o, x), principal)
<1>1. /\ Needs(sessions, live) \in Weights /\ sessions \in [Owners -> Session]
      /\ \A q \in Owners : /\ sessions[q] \in Session /\ RoomOK(sessions[q], live[q])
                           /\ Needs(sessions, live)[q] = Need(sessions[q], live[q])
                           /\ SizeOf(sessions[q]) <= Need(sessions[q], live[q])
  BY Weighed DEF RoomIInv, LogIInv, TypeOK
<1> DEFINE F == Needs(sessions, live)  H == Sizes(With(o, x))
<1>2. ASSUME NEW q \in Owners PROVE H[q] \in Nat /\ H[q] <= F[q]
  <2>1. CASE q = o
    <3>1. H[q] = SizeOf(x)
      BY <1>1, <2>1 DEF Sizes, With
    <3>2. /\ SizeOf(x) \in Nat /\ Need(x, k) \in Nat /\ SizeOf(x) <= Need(x, k)
          /\ Need(x, k) <= Need(sessions[o], live[o]) /\ Need(sessions[o], live[o]) \in Nat
      BY <1>1, NeedTyped DEF Spending, RoomOK
    <3>3. QED
      BY <1>1, <2>1, <3>1, <3>2
  <2>2. CASE q # o
    <3>1. H[q] = SizeOf(sessions[q])
      BY <1>1, <2>2 DEF Sizes, With
    <3>2. SizeOf(sessions[q]) \in Nat
      BY <1>1, NeedTyped DEF RoomOK
    <3>3. QED
      BY <1>1, <3>1, <3>2
  <2>3. QED
    BY <2>1, <2>2
<1>3. H \in Weights
  BY <1>2 DEF Weights, Sizes
<1> DEFINE p == Bytes["principal"]
<1>4. Total(F) \in Nat /\ Total(H) \in Nat /\ Total(H) <= Total(F)
  <2> HIDE DEF F, H
  <2>1. QED
    BY <1>1, <1>2, <1>3, TotalMonotone DEF F
<1>5. Size(With(o, x), principal) = If(principal) * p + Total(H)
  BY SizeIs
<1>6. If(principal) * p \in Nat /\ If(principal) * p <= p /\ p \in Nat
  BY SizesTyped DEF If
<1>7. Total(F) + p <= LedgerLimit
  BY DEF RoomIInv, Covered
<1> DEFINE a == If(principal) * p
<1>8. Total(H) + a <= LedgerLimit /\ a + Total(H) = Total(H) + a
  <2>1. a \in Nat /\ a <= p /\ p \in Nat
    BY <1>6
  <2> HIDE DEF F, H, a, p
  <2>2. QED
    BY <1>4, <1>7, <2>1, LimitsAssumption
<1>9. QED
  BY <1>5, <1>8 DEF Fits

(* The file is never too full for what an admitted owner still needs: its  *)
(* creation, the acceptance of its response, settlement, retirement and    *)
(* their proofs (commitCapacityLocked, brokerLedgerReserveBytes).          *)
THEOREM CleanupHasRoom == Spec => []RoomForCleanup
<1>1. RoomIInv => RoomForCleanup
  <2> SUFFICES ASSUME RoomIInv PROVE RoomForCleanup
    OBVIOUS
  <2>1. Fits(sessions, TRUE)
    <3> DEFINE F == Needs(sessions, live)  H == Sizes(sessions)  p == Bytes["principal"]
    <3>1. F \in Weights /\ H \in Weights /\ \A o \in Owners : H[o] <= F[o]
      BY Weighed DEF RoomIInv
    <3>2. Size(sessions, TRUE) = p + Total(H) /\ p \in Nat
      <4>1. If(TRUE) * p = p /\ p \in Nat
        BY SizesTyped DEF If
      <4>2. Size(sessions, TRUE) = If(TRUE) * p + Total(H)
        BY SizeIs
      <4>3. QED
        BY <4>1, <4>2
    <3>3. Total(F) + p <= LedgerLimit
      BY DEF RoomIInv, Covered
    <3> HIDE DEF F, H, p
    <3>4. Total(F) \in Nat /\ Total(H) \in Nat /\ Total(H) <= Total(F)
      BY <3>1, TotalMonotone
    <3>5. p + Total(H) <= LedgerLimit
      BY <3>2, <3>3, <3>4, LimitsAssumption
    <3>6. QED
      BY <3>2, <3>5 DEF Fits
  <2>2. ASSUME NEW o \in Owners
        PROVE  LET s == sessions[o]
                   HasRoom(x) == Fits(With(o, x), principal)
               IN
               /\ live[o] = "running" /\ CanCreate(s) => HasRoom(Intended(s))
               /\ live[o] = "running" /\ s.invocation = "intent" => HasRoom(Accepted(s))
               /\ CanSettle(s) => HasRoom(Settled(s))
               /\ s.known /\ CanRetire(s) => HasRoom(Retiring(s))
               /\ Provable(o) /\ s.prompt = "closing" => HasRoom(Proved(s))
               /\ Provable(o) /\ s.retiring => HasRoom(Gone(s))
    <3> DEFINE s == sessions[o]
    <3>1. s \in Session /\ RoomOK(s, live[o])
      BY Weighed DEF RoomIInv
    <3>2. ASSUME NEW x, NEW k, Spending(s, live[o], x, k) PROVE Fits(With(o, x), principal)
      BY <3>2, SpendingFits
    <3> HIDE DEF s
    <3>3. live[o] = "running" /\ CanCreate(s) => Fits(With(o, Intended(s)), principal)
      BY <3>1, <3>2, CreationSpends DEF CanCreate
    <3>4. live[o] = "running" /\ s.invocation = "intent" => Fits(With(o, Accepted(s)), principal)
      BY <3>1, <3>2, CreationSpends
    <3>5. CanSettle(s) => Fits(With(o, Settled(s)), principal)
      BY <3>1, <3>2, SettledSpends
    <3>6. s.known /\ CanRetire(s) => Fits(With(o, Retiring(s)), principal)
      BY <3>1, <3>2, RetiringSpends
    <3>7. Provable(o) => live[o] = "idle" /\ ~s.retired
      BY DEF Provable, s
    <3>8. Provable(o) => Fits(With(o, Proved(s)), principal)
      BY <3>1, <3>2, <3>7, ProvedSpends
    <3>9. Provable(o) /\ s.retiring => Fits(With(o, Gone(s)), principal)
      BY <3>1, <3>2, <3>7, ProvedSpends
    <3>10. QED
      BY <3>3, <3>4, <3>5, <3>6, <3>8, <3>9 DEF s
  <2>3. QED
    BY <2>1, <2>2 DEF RoomForCleanup
<1>2. QED
  BY <1>1, RoomInvariant, PTL
=============================================================================
