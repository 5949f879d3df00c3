----------------------------- MODULE TurnAdapter -----------------------------
(***************************************************************************)
(* The turn adapter of internal/adapter: turns that live in memory, the    *)
(* goroutine that runs a turn's Foundry invocations one after the other,   *)
(* tool results that Orka sends back, the cancellation, deadline, flush    *)
(* and cleanup timers, and the event streams that clients read.            *)
(*                                                                         *)
(* Every section that holds adapter.mu is one action.  A turn is an        *)
(* instance (a *turnState); the map adapter.turns says which instance a    *)
(* turn id names, since an id may be tried again.  Text is counted in      *)
(* deltas, requests are abstracted to their id: a request that conflicts   *)
(* with an earlier one of its id is refused and changes nothing.           *)
(***************************************************************************)
EXTENDS Naturals, SequencesExt

CONSTANTS
  TurnIds, SessionOf,  \* SessionOf[id]: the runtime session of a turn id
  BrokeredIds,         \* the ids whose requests bring tools
  Calls, WriteCalls,   \* provider call ids, and those of tools that write
  Pinned,              \* is an agent version configured?
  MaxConcurrent, MaxRetained, MaxEvents, MaxOutput, FlushAt,  \* limits
  MaxTurns, MaxRounds, \* bounds on instances and on invocations of one
  Watched,             \* instances whose stream is read
  None

ASSUME TurnAssumption ==
  /\ SessionOf \in [TurnIds -> STRING] /\ BrokeredIds \subseteq TurnIds
  /\ Calls \subseteq Nat /\ IsFiniteSet(Calls) /\ WriteCalls \subseteq Calls
  /\ Pinned \in BOOLEAN
  /\ {MaxConcurrent, MaxRetained, MaxOutput, FlushAt, MaxTurns, MaxRounds} \subseteq Nat \ {0}
  /\ MaxEvents \in Nat /\ MaxEvents > 1
  /\ Watched \subseteq 1..MaxTurns /\ None \notin TurnIds

Turns == 1..MaxTurns
Sessions == {SessionOf[id] : id \in TurnIds}
Responses == Turns \X (1..MaxRounds)

VARIABLES
  turns,    \* adapter.turns: the instance of an id, 0 when there is none
  t,        \* t[i]: the turnState of instance i
  runtime,  \* adapter.runtimeSessions
  tomb,     \* adapter.turnTombstones: ids of turns that ended
  asked,    \* asked[i]: calls of the turn's latest response (external)
  answered, \* answered[i]: the last invocation the provider answered (external)
  resolved, \* responses that completed without calls (external)
  reader    \* reader[i]: the stream that reads instance i

adapterVars == <<turns, t, runtime, tomb, asked, answered, resolved, reader>>

FrameTypes == {"started", "output", "call", "result", "completed", "failed", "cancelled"}
Terminal == {"completed", "failed", "cancelled"}
\* n: the call, or the deltas of an output or result; retry: TurnFailed.Retryable.
Frame == [type: FrameTypes, n: Nat, retry: BOOLEAN]
F(type, n) == [type |-> type, n |-> n, retry |-> FALSE]

(* Where the turn's goroutine is: creating a provider session, about to end*)
(* initialization, about to invoke, invoking, or with an invocation that a *)
(* callback's error will end.                                              *)
Steps == {"unborn", "session", "init", "launch", "invoking", "failing", "none"}

TurnState ==
  [id: TurnIds \cup {None}, pc: Steps, initializing: BOOLEAN, round: 0..MaxRounds,
   frames: Seq(Frame), started: BOOLEAN, text: 0..MaxOutput, pending: 0..MaxOutput,
   tools: SUBSET Calls, buffered: SUBSET Calls, submitted: SUBSET Calls,
   outputs: SUBSET Calls, previous: Responses \cup {None}, response: Responses \cup {None},
   session: BOOLEAN, uncertain: BOOLEAN, exposed: BOOLEAN, waiting: BOOLEAN, continuing: BOOLEAN,
   inFlight: 0..1, late: BOOLEAN, end: 0..MaxTurns,
   cleanup: {"none", "set", "due", "fired"}]

TypeOK ==
  /\ turns \in [TurnIds -> 0..MaxTurns]
  /\ t \in [Turns -> TurnState]
  /\ runtime \in [Sessions -> [known: BOOLEAN, previous: Responses \cup {None}]]
  /\ tomb \subseteq TurnIds /\ asked \in [Turns -> SUBSET Calls]
  /\ answered \in [Turns -> 0..MaxRounds] /\ resolved \subseteq Responses
  /\ reader \in [Turns -> [pos: 0..MaxEvents, idle: BOOLEAN, done: BOOLEAN]]

Unborn ==
  [id |-> None, pc |-> "unborn", initializing |-> FALSE, round |-> 0, frames |-> <<>>,
   started |-> FALSE, text |-> 0, pending |-> 0, tools |-> {},
   buffered |-> {}, submitted |-> {}, outputs |-> {}, previous |-> None, response |-> None,
   session |-> FALSE, uncertain |-> FALSE, exposed |-> FALSE, waiting |-> FALSE, continuing |-> FALSE,
   inFlight |-> 0, late |-> FALSE, end |-> 0, cleanup |-> "none"]
Forgotten == [known |-> FALSE, previous |-> None]

Init ==
  /\ turns = [id \in TurnIds |-> 0] /\ t = [i \in Turns |-> Unborn]
  /\ runtime = [s \in Sessions |-> Forgotten] /\ tomb = {}
  /\ asked = [i \in Turns |-> {}] /\ answered = [i \in Turns |-> 0] /\ resolved = {}
  /\ reader = [i \in Turns |-> [pos |-> 0, idle |-> FALSE, done |-> FALSE]]

-----------------------------------------------------------------------------
(* Frames.  All but the terminal frame leave room for the terminal one.    *)

Completed(x) == x.end # 0

\* Mutant: the last place is given to a nonterminal frame.
Room_ToTheLast(x, k) == Len(x.frames) + k <= MaxEvents
Room(x, k) == Len(x.frames) + k < MaxEvents

Add(x, frame) == [x EXCEPT !.frames = Append(@, frame)]

CanStart(x) == x.started \/ Room(x, 1)
Started(x) == IF x.started THEN x ELSE [Add(x, F("started", 0)) EXCEPT !.started = TRUE]

CanFlush(x) == x.pending = 0 \/ Room(x, 1)
Flushed(x) ==
  IF x.pending = 0 THEN x ELSE [Add(x, F("output", x.pending)) EXCEPT !.pending = 0]

-----------------------------------------------------------------------------
(* The end of a turn.  It cancels the context, sets the tombstone and drops*)
(* what the turn was waiting for; output that finds no room is dropped.    *)

EndRank == 1 + Cardinality({j \in Turns : Completed(t[j])})

Ended(x, frame) ==
  LET y == Started(x)
      z == IF CanFlush(y) THEN Flushed(y) ELSE y
  IN [Add(z, frame) EXCEPT !.end = EndRank, !.text = 0, !.pending = 0, !.tools = {},
                           !.buffered = {}, !.cleanup = "set"]

\* Mutant: an invocation whose outcome is unknown does not forbid a retry.
Failed_IgnoresUncertainty(x, retryable) ==
  Ended(x, [type |-> "failed", n |-> 0,
            retry |-> retryable /\ ~x.exposed /\ x.id \in BrokeredIds])

(* finishFailedLocked: a turn that may have had effects is not retryable.  *)
Failed(x, retryable) ==
  Ended(x, [type |-> "failed", n |-> 0,
            retry |-> retryable /\ ~x.uncertain /\ ~x.exposed /\ x.id \in BrokeredIds])
Cancelled(x) == Ended(x, F("cancelled", 0))
Finished(x) == Ended(x, F("completed", x.text))

Present(i) == \E id \in TurnIds : turns[id] = i
Without(m, D) == [id \in TurnIds |-> IF m[id] \in D THEN 0 ELSE m[id]]

(* pruneRetainedTurnsLocked: of the turns that ended, the MaxRetained that *)
(* ended last are kept; one that still has a provider request is not       *)
(* counted.                                                                *)
Retained(m, s) ==
  LET R == {i \in Turns : (\E id \in TurnIds : m[id] = i) /\ Completed(s[i]) /\ s[i].inFlight = 0}
  IN Without(m, {i \in R : Cardinality({j \in R : s[j].end >= s[i].end}) > MaxRetained})

Expired(x) == Completed(x) /\ x.inFlight = 0 /\ x.cleanup \in {"due", "fired"}

(* pruneLocked.                                                            *)
Pruned == LET m == Retained(turns, t) IN Without(m, {i \in Turns : Expired(t[i])})

\* Mutant: the end of a turn leaves no tombstone.
Tombs_None(i, x) == tomb
Tombs(i, x) == IF Completed(x) /\ ~Completed(t[i]) THEN tomb \cup {x.id} ELSE tomb

(* A section of instance i that leaves x: what finishTerminalLocked does   *)
(* with the maps is part of it.                                            *)
Leaves(i, x) ==
  /\ t' = [t EXCEPT ![i] = x]
  /\ turns' = IF Completed(x) /\ ~Completed(t[i])
                THEN Retained(turns, [t EXCEPT ![i] = x]) ELSE turns
  /\ tomb' = Tombs(i, x)

-----------------------------------------------------------------------------
(* startTurn.                                                              *)

\* Mutant: an ended turn does not count although its request still runs.
Active_IgnoresInFlight(i) == ~Completed(t[i])
Active(i) == ~Completed(t[i]) \/ t[i].initializing \/ t[i].inFlight > 0

Admitted(id, m) ==
  LET A == {i \in Turns : (\E x \in TurnIds : m[x] = i) /\ Active(i)} IN
  /\ id \notin tomb /\ m[id] = 0
  /\ \A i \in A : SessionOf[t[i].id] # SessionOf[id]
  /\ Cardinality(A) < MaxConcurrent

StartTurn(i, id) ==
  LET s == runtime[SessionOf[id]] IN
  /\ t[i].pc = "unborn" /\ \A j \in Turns : j < i => t[j].pc # "unborn"
  /\ Admitted(id, Pruned)
  /\ turns' = [Pruned EXCEPT ![id] = i]
  /\ t' = [t EXCEPT ![i] =
       [Unborn EXCEPT !.id = id, !.initializing = TRUE, !.previous = s.previous,
                      !.session = s.known,
                      !.pc = IF Pinned /\ ~s.known THEN "session" ELSE "init"]]
  /\ UNCHANGED <<runtime, tomb, asked, answered, resolved, reader>>

(* The provider session is there; a turn that ended meanwhile stops.       *)
SessionCreated(i) ==
  /\ t[i].pc = "session"
  /\ t' = [t EXCEPT ![i] =
       IF Completed(@) THEN [@ EXCEPT !.initializing = FALSE, !.pc = "none"]
                       ELSE [@ EXCEPT !.session = TRUE, !.pc = "init"]]
  /\ UNCHANGED <<turns, runtime, tomb, asked, answered, resolved, reader>>

(* failInitialization: the turn never was, unless it ended meanwhile.      *)
SessionFails(i) ==
  /\ t[i].pc = "session"
  /\ t' = [t EXCEPT ![i].initializing = FALSE, ![i].pc = "none"]
  /\ turns' = IF Completed(t[i]) THEN turns ELSE Without(turns, {i})
  /\ UNCHANGED <<runtime, tomb, asked, answered, resolved, reader>>

Initialized(i) ==
  /\ t[i].pc = "init"
  /\ t' = [t EXCEPT ![i].initializing = FALSE,
                    ![i].pc = IF Completed(t[i]) THEN "none" ELSE "launch"]
  /\ UNCHANGED <<turns, runtime, tomb, asked, answered, resolved, reader>>

-----------------------------------------------------------------------------
(* runResponse.                                                            *)

Invoke(i) ==
  /\ t[i].pc = "launch"
  /\ IF Completed(t[i])
       THEN t' = [t EXCEPT ![i].pc = "none"] /\ UNCHANGED asked
       ELSE /\ t' = [t EXCEPT ![i] = [t[i] EXCEPT !.pc = "invoking", !.inFlight = 1,
                                                  !.uncertain = TRUE, !.round = @ + 1]]
            /\ asked' = [asked EXCEPT ![i] = {}]
  /\ UNCHANGED <<turns, runtime, tomb, answered, resolved, reader>>

\* Mutant: a callback that was waiting for the lock does not see the end.
Callback_AfterEnd(i, x) ==
  /\ t[i].pc = "invoking" /\ t' = [t EXCEPT ![i] = x]
  /\ UNCHANGED <<turns, runtime, tomb, answered, resolved, reader>>

(* A callback of the response stream leaves x, unless the turn has ended.  *)
Callback(i, x) ==
  /\ t[i].pc = "invoking"
  /\ t' = IF Completed(t[i]) THEN t ELSE [t EXCEPT ![i] = x]
  /\ UNCHANGED <<turns, runtime, tomb, answered, resolved, reader>>

(* The error that a callback returns ends the invocation.                  *)
Breaking(x) == [x EXCEPT !.pc = "failing"]

OnCreated(i) ==
  /\ Callback(i, IF CanStart(t[i]) THEN Started(t[i]) ELSE Breaking(t[i]))
  /\ UNCHANGED asked

TextFits(x) == x.text < MaxOutput

(* OnTextDelta: output is flushed when there is much of it, and otherwise  *)
(* by a timer.                                                             *)
OnTextDelta(i) ==
  LET x == t[i]
      y == Started(x)
      z == [y EXCEPT !.text = @ + 1, !.pending = @ + 1]
  IN
  /\ \/ ~CanStart(x) /\ Callback(i, Breaking(x))
     \/ CanStart(x) /\ ~TextFits(y) /\ Callback(i, Breaking(y))
     \/ /\ CanStart(x) /\ TextFits(y)
        /\ Callback(i, IF z.pending < FlushAt THEN z
                       ELSE IF CanFlush(z) THEN Flushed(z) ELSE Breaking(z))
  /\ UNCHANGED asked

(* recordFunctionCall: a call must be allowed and new to the turn; it is   *)
(* shown to the client after the output before it.  A repeated call that is*)
(* still open changes nothing, or is an error if it conflicts.  A call over*)
(* the limits is an error, but a write counts as exposed before that.      *)
OnFunctionCall(i, c) ==
  LET x == t[i]
      y == Started(x)
      z == Flushed(y)
      w == [z EXCEPT !.exposed = @ \/ c \in WriteCalls]
      new == x.id \in BrokeredIds /\ c \notin x.submitted \cup x.tools
  IN
  /\ x.round < MaxRounds
  /\ \/ c \in x.tools /\ (Callback(i, x) \/ Callback(i, Breaking(x)))
     \/ ~new /\ c \notin x.tools /\ Callback(i, Breaking(x))
     \/ new /\ ~CanStart(x) /\ Callback(i, Breaking(x))
     \/ new /\ CanStart(x) /\ ~CanFlush(y) /\ Callback(i, Breaking(y))
     \/ new /\ CanStart(x) /\ CanFlush(y) /\ ~Room(z, 1) /\ Callback(i, Breaking(z))
     \/ /\ new /\ CanStart(x) /\ CanFlush(y) /\ Room(z, 1)
        /\ \/ Callback(i, Breaking(w))
           \/ Callback(i, Add([w EXCEPT !.tools = @ \cup {c}], F("call", c)))
  /\ asked' = [asked EXCEPT ![i] = @ \cup {c}]

(* The output flush timer, which is set while output is pending.           *)
FlushTimer(i) ==
  /\ t[i].pending > 0
  /\ Leaves(i, IF CanFlush(t[i]) THEN Flushed(t[i])
               ELSE Failed([t[i] EXCEPT !.pending = 0], FALSE))
  /\ UNCHANGED <<runtime, asked, answered, resolved, reader>>

-----------------------------------------------------------------------------
(* The return of an invocation.                                            *)

Released(x) == [x EXCEPT !.inFlight = 0, !.continuing = FALSE, !.pc = "none"]

\* Mutant: an invocation that outlived its turn leaves the turn to others.
Outlived_Keeps(i) ==
  t' = [t EXCEPT ![i] = Released(@)] /\ UNCHANGED <<turns, runtime, tomb>>

(* An invocation that outlived its turn: a turn whose time has passed      *)
(* meanwhile is deleted.                                                   *)
Outlived(i) ==
  /\ t' = [t EXCEPT ![i] = Released(@)]
  /\ turns' = IF Expired(Released(t[i])) THEN Without(turns, {i}) ELSE turns
  /\ UNCHANGED <<runtime, tomb>>

(* An error: of the transport, a callback, an invalid summary, or the      *)
(* deadline.  A provider that does not know the session or response any    *)
(* more invalidates the checkpoint.                                        *)
ReturnError(i) ==
  LET x == Released(t[i])
      s == SessionOf[x.id]
  IN
  /\ t[i].pc \in {"invoking", "failing"}
  /\ \/ Completed(t[i]) /\ Outlived(i)
     \/ /\ ~Completed(t[i]) /\ UNCHANGED runtime
        /\ \/ \E retryable \in BOOLEAN : (x.late => retryable) /\ Leaves(i, Failed(x, retryable))
           \/ ~x.late /\ Leaves(i, Cancelled(x))
     \/ /\ ~Completed(t[i]) /\ t[i].pc = "invoking" /\ x.session
        /\ runtime' = [runtime EXCEPT ![s] = Forgotten]
        /\ Leaves(i, Failed([x EXCEPT !.previous = None, !.session = FALSE], x.late))
  /\ UNCHANGED <<asked, answered, resolved, reader>>

\* Mutant: a response whose calls are open advances the checkpoint.
Checkpoint_Open(x) == [known |-> TRUE, previous |-> x.response]

(* recordRuntimeSessionLocked, while calls of the response are open.       *)
Checkpoint(x) == [known |-> TRUE, previous |-> x.previous]

\* Mutant: the first result lets the turn continue.
AllBuffered_OnFirst(x) == x.buffered # {}
AllBuffered(x) == Cardinality(x.buffered) >= Cardinality(x.tools)

(* The results of the calls of S, in the order of their ids.               *)
InOrder(S) == [k \in 1..Cardinality(S) |-> CHOOSE c \in S : Cardinality({d \in S : d <= c}) = k]
Results(S) == [k \in DOMAIN InOrder(S) |-> F("result", InOrder(S)[k])]

\* Mutant: the turn still counts as waiting for tools.
Continued_KeepsWaiting(x) ==
  [x EXCEPT !.frames = @ \o Results(x.tools),
            !.outputs = x.tools \cap x.buffered, !.submitted = @ \cup x.tools,
            !.tools = {}, !.buffered = {}, !.continuing = TRUE, !.pc = "launch"]

(* prepareContinuationLocked: the results of all calls become the input of *)
(* the next invocation.                                                    *)
Continued(x) ==
  [x EXCEPT !.frames = @ \o Results(x.tools),
            !.outputs = x.tools \cap x.buffered, !.submitted = @ \cup x.tools,
            !.tools = {}, !.buffered = {}, !.continuing = TRUE, !.pc = "launch",
            !.waiting = FALSE]
Continues(x) ==
  IF ~x.continuing /\ Room(x, Cardinality(x.tools)) THEN Continued(x) ELSE Failed(x, FALSE)

(* A response that completed.                                              *)
ReturnCompleted(i) ==
  LET x == [Released(t[i]) EXCEPT !.uncertain = FALSE]
      y == [x EXCEPT !.response = <<i, x.round>>, !.session = TRUE]
      z == Flushed(Started(y))
      w == [z EXCEPT !.waiting = TRUE]
      s == SessionOf[x.id]
      fits == CanStart(y) /\ CanFlush(Started(y))
  IN
  /\ t[i].pc = "invoking"
  /\ \/ Completed(t[i]) /\ Outlived(i)
     \/ ~Completed(t[i]) /\ x.late /\ Leaves(i, Failed(x, TRUE)) /\ UNCHANGED runtime
     \/ /\ ~Completed(t[i]) /\ ~x.late /\ ~fits /\ UNCHANGED runtime
        /\ Leaves(i, Failed([y EXCEPT !.pending = 0], FALSE))
     \/ /\ ~Completed(t[i]) /\ ~x.late /\ fits /\ z.tools = {}
        /\ runtime' = [runtime EXCEPT ![s] = [known |-> TRUE, previous |-> z.response]]
        /\ Leaves(i, Finished([z EXCEPT !.previous = z.response]))
     \/ /\ ~Completed(t[i]) /\ ~x.late /\ fits /\ z.tools # {}
        /\ runtime' = [runtime EXCEPT ![s] = Checkpoint(w)]
        /\ Leaves(i, IF AllBuffered(w) THEN Continues(w) ELSE w)
  /\ answered' = [answered EXCEPT ![i] = x.round]
  /\ resolved' = IF asked[i] = {} THEN resolved \cup {<<i, x.round>>} ELSE resolved
  /\ UNCHANGED <<asked, reader>>

(* A response that failed, is incomplete or was cancelled by the provider. *)
ReturnEnded(i) ==
  LET x == [Released(t[i]) EXCEPT !.uncertain = FALSE]
      y == [x EXCEPT !.response = <<i, x.round>>]
      fits == CanStart(y) /\ CanFlush(Started(y))
  IN
  /\ t[i].pc = "invoking"
  /\ \/ Completed(t[i]) /\ Outlived(i)
     \/ /\ ~Completed(t[i]) /\ UNCHANGED runtime
        /\ \/ x.late /\ Leaves(i, Failed(x, TRUE))
           \/ ~x.late /\ ~fits /\ Leaves(i, Failed([y EXCEPT !.pending = 0], FALSE))
           \/ ~x.late /\ fits /\ \E retryable \in BOOLEAN : Leaves(i, Failed(y, retryable))
           \/ ~x.late /\ fits /\ Leaves(i, Cancelled(y))
  /\ answered' = [answered EXCEPT ![i] = x.round]
  /\ UNCHANGED <<asked, resolved, reader>>

-----------------------------------------------------------------------------
(* continueTurn, cancelTurn and the deadline.                              *)

(* Tool results for calls C.  Results that were submitted or buffered are  *)
(* accepted again and change nothing; one for a call that is not open is   *)
(* refused with the whole request.                                         *)
ContinueTurn(i, C) ==
  LET x == t[i]
      y == [x EXCEPT !.buffered = @ \cup (C \ x.submitted)]
  IN
  /\ Present(i) /\ ~Completed(x) /\ ~x.initializing
  /\ C \subseteq x.submitted \cup x.tools
  /\ ~(C \subseteq x.submitted \cup x.buffered)
  /\ Leaves(i, IF AllBuffered(y) /\ y.waiting THEN Continues(y) ELSE y)
  /\ UNCHANGED <<runtime, asked, answered, resolved, reader>>

CancelTurn(i) ==
  /\ Present(i) /\ ~Completed(t[i])
  /\ Leaves(i, Cancelled(t[i]))
  /\ UNCHANGED <<runtime, asked, answered, resolved, reader>>

DeadlinePasses(i) ==
  /\ Present(i) /\ ~Completed(t[i]) /\ ~t[i].late
  /\ t' = [t EXCEPT ![i].late = TRUE]
  /\ UNCHANGED <<turns, runtime, tomb, asked, answered, resolved, reader>>

WatchDeadline(i) ==
  /\ Present(i) /\ t[i].late /\ ~t[i].initializing /\ ~Completed(t[i])
  /\ Leaves(i, Failed(t[i], TRUE))
  /\ UNCHANGED <<runtime, asked, answered, resolved, reader>>

-----------------------------------------------------------------------------
(* Cleanup.                                                                *)

(* The time to keep a turn has passed, first for the turn that ended first.*)
RetentionPasses(i) ==
  /\ t[i].cleanup = "set"
  /\ \A j \in Turns : t[j].cleanup = "set" => t[i].end <= t[j].end
  /\ t' = [t EXCEPT ![i].cleanup = "due"]
  /\ UNCHANGED <<turns, runtime, tomb, asked, answered, resolved, reader>>

CleanupTimer(i) ==
  /\ Present(i) /\ t[i].cleanup = "due"
  /\ t' = [t EXCEPT ![i].cleanup = "fired"]
  /\ turns' = IF Expired(t[i]) THEN Without(turns, {i}) ELSE turns
  /\ UNCHANGED <<runtime, tomb, asked, answered, resolved, reader>>

\* Any request for a turn prunes (getTurn, startTurn).
Prune ==
  /\ turns' = Pruned
  /\ UNCHANGED <<t, runtime, tomb, asked, answered, resolved, reader>>

\* pruneRuntimeSessionsLocked, by age or number.
RuntimeExpires(s) ==
  /\ runtime[s].known /\ runtime' = [runtime EXCEPT ![s] = Forgotten]
  /\ UNCHANGED <<turns, t, tomb, asked, answered, resolved, reader>>

-----------------------------------------------------------------------------
(* streamEvents: frames and idleness are read together, written, and the   *)
(* idleness is confirmed before the stream says that it is done.           *)

StreamIdle(x) == Completed(x) \/ x.waiting

ReadFrames(i) ==
  /\ i \in Watched /\ t[i].pc # "unborn" /\ ~t[i].initializing
  /\ ~reader[i].done /\ ~reader[i].idle
  /\ reader' = [reader EXCEPT ![i].pos = Len(t[i].frames), ![i].idle = StreamIdle(t[i])]
  /\ UNCHANGED <<turns, t, runtime, tomb, asked, answered, resolved>>

ConfirmIdle(i) ==
  /\ reader[i].idle /\ ~reader[i].done
  /\ reader' = [reader EXCEPT ![i].idle = FALSE, ![i].done = StreamIdle(t[i])]
  /\ UNCHANGED <<turns, t, runtime, tomb, asked, answered, resolved>>

\* The client reads on with another stream after the last frame it has.
ReadAgain(i) ==
  /\ reader[i].done /\ reader' = [reader EXCEPT ![i].done = FALSE]
  /\ UNCHANGED <<turns, t, runtime, tomb, asked, answered, resolved>>

-----------------------------------------------------------------------------
Invocation(i) ==
  \/ SessionCreated(i) \/ SessionFails(i) \/ Initialized(i) \/ Invoke(i)
  \/ OnCreated(i) \/ OnTextDelta(i) \/ ReturnError(i) \/ ReturnCompleted(i) \/ ReturnEnded(i)
  \/ \E c \in Calls : OnFunctionCall(i, c)

Timers(i) ==
  FlushTimer(i) \/ DeadlinePasses(i) \/ WatchDeadline(i) \/ RetentionPasses(i) \/ CleanupTimer(i)

Requests(i) ==
  \/ \E id \in TurnIds : StartTurn(i, id)
  \/ \E C \in SUBSET Calls : ContinueTurn(i, C)
  \/ CancelTurn(i) \/ ReadFrames(i) \/ ConfirmIdle(i) \/ ReadAgain(i)

Next ==
  \/ \E i \in Turns : Invocation(i) \/ Timers(i) \/ Requests(i)
  \/ Prune
  \/ \E s \in Sessions : RuntimeExpires(s)

Spec == Init /\ [][Next]_adapterVars

(* Time passes, timers fire, CreateSession returns, and a cancelled context*)
(* ends its request.                                                       *)
Fairness ==
  \A i \in Turns :
    /\ WF_adapterVars(SessionCreated(i) \/ SessionFails(i))
    /\ WF_adapterVars(Initialized(i))
    /\ WF_adapterVars(Completed(t[i]) /\ ReturnError(i))
    /\ WF_adapterVars(DeadlinePasses(i))
    /\ WF_adapterVars(WatchDeadline(i))
    /\ WF_adapterVars(RetentionPasses(i))
    /\ WF_adapterVars(CleanupTimer(i))

FairSpec == Spec /\ Fairness

-----------------------------------------------------------------------------
Shown(fs, type) == {fs[k].n : k \in {k \in DOMAIN fs : fs[k].type = type}}
Once(fs, type) == \A k, l \in DOMAIN fs : fs[k] = fs[l] /\ fs[k].type = type => k = l
(* The deltas that the output frames carry, each with the place of its     *)
(* frame; a frame carries what was pending, at most MaxOutput.             *)
Deltas(fs) ==
  {p \in (DOMAIN fs) \X (1..MaxOutput) : fs[p[1]].type = "output" /\ p[2] <= fs[p[1]].n}
OutputOf(fs) == Cardinality(Deltas(fs))
LastOf(fs) == fs[Len(fs)]

(* The frames of a turn are at most MaxEvents; the first says that it      *)
(* started; a frame is terminal iff it is the last of an ended turn; every *)
(* call is shown once and every result once, after its call; and a turn    *)
(* completes with the text that was streamed and with all calls answered.  *)
StreamShape ==
  \A i \in Turns :
    LET fs == t[i].frames IN
    /\ Len(fs) <= MaxEvents
    /\ \A k \in DOMAIN fs :
         /\ fs[k].type = "started" <=> k = 1
         /\ fs[k].type \in Terminal <=> Completed(t[i]) /\ k = Len(fs)
         /\ fs[k].type = "result" => fs[k].n \in Shown(SubSeq(fs, 1, k - 1), "call")
    /\ Once(fs, "call") /\ Once(fs, "result")
    /\ Completed(t[i]) => fs # <<>>
    /\ Completed(t[i]) /\ LastOf(fs).type = "completed" =>
         LastOf(fs).n = OutputOf(fs) /\ Shown(fs, "call") = Shown(fs, "result")

(* What a client reads stays: frames that a stream may have delivered are  *)
(* never taken back, none comes after the end of a turn (not from a        *)
(* callback, a timer, the deadline, a cancellation or an invocation that   *)
(* was already running), and the frames keep their shape.                  *)
FramesStay ==
  \A i \in Turns : IF Completed(t[i]) THEN t'[i].frames = t[i].frames
                   ELSE IsPrefix(t[i].frames, t'[i].frames)

StreamsAreSound == [][FramesStay /\ StreamShape']_adapterVars

(* A failure that may be retried says that nothing is left running and     *)
(* nothing was done: the provider answered every invocation that was       *)
(* started, and no call of a writing tool was shown.                       *)
RetryIsSafe ==
  \A i \in Turns : Completed(t[i]) /\ LastOf(t[i].frames).retry =>
    /\ answered[i] = t[i].round
    /\ Shown(t[i].frames, "call") \cap WriteCalls = {}

(* A continuation answers exactly the calls of the response before it, with*)
(* results that Orka sent, however results and calls were interleaved.     *)
OutputsAnswerCalls ==
  \A i \in Turns : t[i].pc = "launch" /\ t[i].round > 0 => t[i].outputs = asked[i]

(* What the next turn of a session continues from is a completed response  *)
(* that left no call open: a turn that is abandoned between two rounds of  *)
(* tools leaves the session where the turn began (recordRuntimeSession).   *)
CheckpointIsResolved == \A s \in Sessions : runtime[s].previous \in resolved \cup {None}

(* A turn id runs at most once, however often it is tried.                 *)
OneRunPerId ==
  \A i, j \in Turns : t[i].round > 0 /\ t[j].round > 0 /\ t[i].id = t[j].id => i = j

(* At most one request is with the provider for a session, and at most     *)
(* MaxConcurrent in all, those of turns that have ended included.          *)
RequestsAreBounded ==
  LET R == {i \in Turns : t[i].pc \in {"invoking", "failing"}} IN
  /\ \A i, j \in R : SessionOf[t[i].id] = SessionOf[t[j].id] => i = j
  /\ Cardinality(R) <= MaxConcurrent

(* Admission (startTurn) keeps both, over turns that were pruned, failed to*)
(* initialize or ended with a request still out.                           *)
AdmissionIsSound == OneRunPerId /\ RequestsAreBounded

(* A stream that says it is done has delivered the end of the turn, or a   *)
(* call whose result the client has not seen: it leaves no one waiting.    *)
StreamDoneIsHonest ==
  \A i \in Watched : reader[i].done =>
    LET fs == SubSeq(t[i].frames, 1, reader[i].pos) IN
    \/ fs # <<>> /\ LastOf(fs).type \in Terminal
    \/ ~(Shown(fs, "call") \subseteq Shown(fs, "result"))

(* Every turn ends by its deadline at the latest and is deleted after it,  *)
(* also when its request is still running when the cleanup timer fires.    *)
TurnsGoAway == \A i \in Turns : Present(i) ~> ~Present(i)
=============================================================================
