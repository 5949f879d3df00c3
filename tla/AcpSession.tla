------------------------------ MODULE AcpSession ------------------------------
(***************************************************************************)
(* The ACP child (src/internal/acp): one process that speaks line JSON-RPC *)
(* with the supervisor over stdio, holds one session, runs one prompt at a *)
(* time against the model provider and executes the tools the model asks   *)
(* for through the session's MCP server.                                   *)
(*                                                                         *)
(* Actors: the goroutine that reads stdin; the main loop of serveACP, which*)
(* accepts lines and at its end joins the others; the goroutine that writes*)
(* the bounded queue of frames to stdout; the goroutine of the active      *)
(* operation (session/new or session/prompt); one goroutine per tool call  *)
(* of the current batch.  s.mu is held within one action.                  *)
(*                                                                         *)
(* Abstractions.  A line is the request it decodes to and whether its      *)
(* parameters are accepted.  An HTTP exchange with the provider or with    *)
(* the MCP server is a pending state and an outcome; every check of a body *)
(* that refuses it is the failed outcome.  Text is a number of chunks.     *)
(* A line is told from the end of input when it is read, and which request *)
(* it is when it is accepted.  A call to read stdin or write stdout has a  *)
(* beginning and an end; the end is the supervisor's, and may never come.  *)
(***************************************************************************)
EXTENDS Naturals, Sequences, FiniteSets

CONSTANTS
    Keys,        \* response identities of requests (acpRequestKey)
    CallIds,     \* call ids a response may ask for
    QueueCap,    \* capacity of the queue of frames: 32 in the code
    Slots,       \* outstanding MCP calls of a batch: 2 in the code
    MaxRounds,   \* acpMaxResponseRounds: 32 in the code
    MaxCalls,    \* DefaultMaxBrokeredCalls: calls of one prompt, 256 in the code
    MaxBatch,    \* bound: calls in one response
    MaxChunks,   \* bound: text chunks of one answer
    MaxPrompts,  \* bound: prompts admitted
    MaxLines     \* bound: lines read from stdin

NoKey == "none"
Me    == "operation"       \* the active operation as the sender of a frame
NoOne == "nobody"          \* a frame nobody waits for

ASSUME AcpAssumption ==
    /\ {QueueCap, Slots, MaxRounds} \subseteq Nat \ {0}
    /\ {MaxCalls, MaxBatch, MaxChunks, MaxPrompts, MaxLines} \subseteq Nat
    /\ IsFiniteSet(CallIds)
    /\ NoKey \notin Keys
    /\ {Me, NoOne} \cap CallIds = {}

VARIABLES
    alive,        \* s.ctx is not cancelled
    loop,         \* serveACP is "serving", "joining" its goroutines, or has "returned"
    reader,       \* its goroutine is "reading", holds a "line" or the "end", or is "over"
    inbox,        \* reads, of capacity one: "empty", a "line" or the "end" of input
    writer,       \* its goroutine is "waiting" for a frame, "writing" one, or "over"
    writes,       \* the frame being written, if any, then s.writes: the queue of frames
    done,         \* senders whose frame was written, not yet seen by them
    initialized,  \* s.initialized
    session,      \* s.session: [open, poisoned, previous]
    op,           \* s.active and the control state of its goroutine
    request,      \* the foundry.ResponseRequest of the prompt
    seen,         \* call ids of the prompt
    batch,        \* calls of the response being executed
    revoked,      \* the batch's group context is cancelled
    failed,       \* firstError of the batch is set
    calls,        \* the goroutine of each call
    lines,        \* lines read so far
    responses,    \* responses the provider has produced so far
    prompts,      \* prompts admitted so far: names the prompt of a frame
    cards,        \* history: each tool card of the prompt, as written to stdout
    heard,        \* history: the last response of the prompt, its calls and its end
    ended,        \* history: last response of the last prompt that ended its turn
    spoiled       \* history: a prompt of the session did not end its turn

threads == <<loop, writer, reader>>
control == <<alive, threads, inbox>>
stdio   == <<writes, done, cards>>
state   == <<initialized, session>>
work    == <<request, seen, batch, revoked, failed>>
counts  == <<lines, responses, prompts>>
past    == <<heard, ended, spoiled>>
vars    == <<control, stdio, state, op, work, calls, counts, past>>

Senders == CallIds \cup {Me}

\* Frames: the reply to a request that starts nothing, the answer of an
\* operation, a tool card event, or a chunk of text.
Frame(what, of, status, by) ==
    [what |-> what, of |-> of, status |-> status, by |-> by, prompt |-> prompts]
Reply(key, status)       == Frame("reply", key, status, NoOne)
Answer(key, status)      == Frame("answer", key, status, NoOne)
Card(call, status, by)   == Frame("card", call, status, by)
Text                     == Frame("text", NoKey, "chunk", Me)

-----------------------------------------------------------------------------
(***************************************************************************)
(* The queue of frames.  A put never blocks: a full queue cancels the      *)
(* server.  Once the server is cancelled a put may still find room, for    *)
(* select takes either ready case.  The frame in the writer's hands is not *)
(* in the queue any more.                                                  *)
(***************************************************************************)
Waiting == Len(writes) - (IF writer = "writing" THEN 1 ELSE 0)

Put(f) ==
    /\ Waiting < QueueCap
    /\ writes' = Append(writes, f)
    /\ UNCHANGED alive

Refused ==
    /\ ~alive
    /\ UNCHANGED <<writes, alive>>

Flood ==
    /\ alive
    /\ Waiting = QueueCap
    /\ alive' = FALSE
    /\ UNCHANGED writes

\* respond: the frame is queued, or the server is (or becomes) cancelled.
Respond(f) == Put(f) \/ Refused \/ Flood

\* A send that gives up leaves its frame in the queue with no one to wait.
Abandon(by) == [i \in DOMAIN writes |->
                    IF writes[i].by = by THEN [writes[i] EXCEPT !.by = NoOne]
                                         ELSE writes[i]]

\* The wait of send: the frame is written, or the server is cancelled.
Sent(by) ==
    /\ by \in done
    /\ done' = done \ {by}
    /\ UNCHANGED writes

\* mutant: send waits for the write only.
GivesUp_Never(by) == FALSE /\ UNCHANGED <<writes, done>>

GivesUp(by) ==
    /\ ~alive
    /\ writes' = Abandon(by)
    /\ done' = done \ {by}

\* The card of a call, as the supervisor has seen it.
Shown(f) ==
    IF f.what = "card" /\ f.prompt = prompts
    THEN [cards EXCEPT ![f.of] =
            IF f.status = "in_progress" THEN "open" ELSE "closed"]
    ELSE cards

BeginWrite ==
    /\ writer = "waiting"
    /\ writes # <<>>
    /\ loop = "serving"
    /\ writer' = "writing"
    /\ UNCHANGED <<alive, loop, reader, inbox, stdio, state, op, work, calls, counts, past>>

\* output.Write returns: the supervisor has taken the frame.
Write ==
    /\ writer = "writing"
    /\ LET f == Head(writes) IN
        /\ writes' = Tail(writes)
        /\ done' = done \cup ({f.by} \cap Senders)
        /\ cards' = Shown(f)
    /\ writer' = "waiting"
    /\ UNCHANGED <<alive, loop, reader, inbox, state, op, work, calls, counts, past>>

\* The write fails or is short, at once when stdout is closed already: the
\* server is cancelled and the writer ends.
WriteFails ==
    /\ \/ writer = "writing"
       \/ writer = "waiting" /\ writes # <<>> /\ loop = "joining"
    /\ writes' = Tail(writes)
    /\ alive' = FALSE
    /\ writer' = "over"
    /\ UNCHANGED <<loop, reader, inbox, done, cards, state, op, work, calls, counts, past>>

\* mutant: the writer ranges over the queue and ignores the context.
WriterStops_Never == FALSE /\ UNCHANGED vars

\* Between two frames, not while it writes one.
WriterStops ==
    /\ writer = "waiting"
    /\ ~alive
    /\ writer' = "over"
    /\ UNCHANGED <<alive, loop, reader, inbox, stdio, state, op, work, calls, counts, past>>

-----------------------------------------------------------------------------
(***************************************************************************)
(* The reader of stdin, and the end of serveACP.                           *)
(***************************************************************************)

\* acpReadLine returns a line, or the end of input, an error or a broken line.
ReadReturns ==
    /\ reader = "reading"
    /\ \/ reader' = "line" /\ lines < MaxLines /\ lines' = lines + 1
       \/ reader' = "end" /\ UNCHANGED lines
    /\ UNCHANGED <<alive, loop, writer, inbox, stdio, state, op, work, calls,
                   responses, prompts, past>>

\* A read of the closed stdin fails.
HandOver ==
    /\ reader \in {"line", "end"} /\ inbox = "empty"
    /\ inbox' = reader
    /\ reader' = CASE reader = "end"    -> "over"
                   [] loop = "serving" -> "reading"
                   [] OTHER            -> "end"
    /\ UNCHANGED <<alive, loop, writer, stdio, state, op, work, calls, counts, past>>

\* mutant: what was read is handed over without regard to the context.
ReaderStops_Never == FALSE /\ UNCHANGED vars

\* With something in its hands, not while it reads.
ReaderStops ==
    /\ reader \in {"line", "end"}
    /\ ~alive
    /\ reader' = "over"
    /\ UNCHANGED <<alive, loop, writer, inbox, stdio, state, op, work, calls, counts, past>>

\* The cancelled context or the end of input: the loop is left, and the deferred
\* calls cancel what still runs and close stdin and stdout.  A read or a write
\* that has begun is not ended by that.
ServeReturns ==
    /\ loop = "serving"
    /\ \/ ~alive /\ UNCHANGED inbox
       \/ inbox = "end" /\ inbox' = "empty"
    /\ loop' = "joining"
    /\ alive' = FALSE
    /\ UNCHANGED <<writer, reader, stdio, state, op, work, calls, counts, past>>

\* s.wg.Wait, then transport.Wait.
Join ==
    /\ loop = "joining"
    /\ op.pc = "idle" /\ writer = "over" /\ reader = "over"
    /\ loop' = "returned"
    /\ UNCHANGED <<alive, writer, reader, inbox, stdio, state, op, work, calls, counts, past>>

-----------------------------------------------------------------------------
(***************************************************************************)
(* Lines.                                                                  *)
(***************************************************************************)
Idle == op.pc = "idle"

\* The context of the operation, a child of the server's.
Cancelled == op.cancelled \/ ~alive

\* The main loop takes a line from the reader.
NextLine ==
    /\ loop = "serving"
    /\ inbox = "line" /\ inbox' = "empty"

\* mutant: the key of the live operation is not looked at.
Collides_Never(key) == FALSE

\* A live operation and a request share one response identity.
Collides(key) == ~Idle /\ op.key = key

\* A request that is answered at once and changes nothing else.
AnswerAtOnce(key, status) ==
    /\ Respond(Reply(key, status))
    /\ UNCHANGED <<threads, done, cards, state, op, work, calls,
                   counts, past>>

\* An empty line, or a notification that changes nothing.
AcceptNothing ==
    /\ NextLine
    /\ UNCHANGED <<alive, threads, stdio, state, op, work, calls, counts, past>>

\* Bytes that are no JSON, no request, or carry no usable id.
AcceptGarbage ==
    /\ NextLine
    /\ AnswerAtOnce(NoKey, "error")

\* Two live requests cannot share one response identity.
AcceptCollision(key) ==
    /\ NextLine
    /\ Collides(key)
    /\ op' = [op EXCEPT !.cancelled = TRUE]
    /\ alive' = FALSE
    /\ UNCHANGED <<threads, stdio, state, work, calls, counts,
                   past>>

AcceptInitialize(key, valid) ==
    /\ NextLine
    /\ ~Collides(key)
    /\ IF initialized \/ ~valid
       THEN AnswerAtOnce(key, "error")
       ELSE /\ initialized' = TRUE
            /\ Respond(Reply(key, "initialized"))
            /\ UNCHANGED <<threads, done, cards, session, op, work,
                           calls, counts, past>>

AcceptUnsupported(key) ==
    /\ NextLine
    /\ ~Collides(key)
    /\ AnswerAtOnce(key, "error")

NewOperation(key, pc) == [pc |-> pc, key |-> key, cancelled |-> FALSE,
                          error |-> FALSE, at |-> 0, chunks |-> 0]

AcceptNewSession(key, valid) ==
    /\ NextLine
    /\ ~Collides(key)
    /\ IF ~initialized \/ session.open \/ ~Idle \/ ~valid
       THEN AnswerAtOnce(key, "error")
       ELSE /\ op' = NewOperation(key, "handshake")
            /\ UNCHANGED <<alive, threads, stdio, state, work, calls, counts, past>>

NoRequest == [previous |-> 0, outputs |-> {}, round |-> 0]
NoCall    == [pc |-> "none", outcome |-> "none", slot |-> FALSE]
Unheard   == [id |-> 0, calls |-> {}, final |-> FALSE]

AcceptPrompt(key, valid) ==
    /\ NextLine
    /\ ~Collides(key)
    /\ IF ~valid \/ ~session.open \/ session.poisoned \/ ~Idle
       THEN AnswerAtOnce(key, "error")
       ELSE /\ prompts < MaxPrompts
            /\ prompts' = prompts + 1
            /\ op' = NewOperation(key, "discover")
            /\ request' = [NoRequest EXCEPT !.previous = session.previous]
            /\ seen' = {}
            /\ batch' = <<>>
            /\ revoked' = FALSE
            /\ failed' = FALSE
            /\ calls' = [c \in CallIds |-> NoCall]
            /\ cards' = [c \in CallIds |-> "none"]
            /\ heard' = Unheard
            /\ UNCHANGED <<alive, threads, writes, done, state, lines, responses, ended, spoiled>>

\* session/cancel names the session, $/cancel_request the request; anything
\* else a notification carries changes nothing.
AcceptCancel(named) ==
    /\ NextLine
    /\ ~Idle
    /\ named = op.key \/ (named = NoKey /\ session.open)
    /\ op' = [op EXCEPT !.cancelled = TRUE]
    /\ UNCHANGED <<alive, threads, stdio, state, work, calls, counts, past>>

-----------------------------------------------------------------------------
(***************************************************************************)
(* The goroutine of session/new: the MCP handshake, then the answer.       *)
(***************************************************************************)
At(pc) == op.pc = pc

GoesTo(pc) == op' = [op EXCEPT !.pc = pc]

Aborts == op' = [op EXCEPT !.pc = "finish", !.error = TRUE]

IdleOperation == [NewOperation(NoKey, "idle") EXCEPT !.key = NoKey]

\* initialize of the MCP client: the initialize call, then its notification.
Handshake(ok) ==
    /\ op.pc \in {"handshake", "notify"}
    /\ op' = [op EXCEPT !.pc = IF ok /\ @ = "handshake" THEN "notify" ELSE "open",
                        !.error = ~ok]
    /\ UNCHANGED <<control, stdio, state, work, calls, counts, past>>

OpenSession ==
    /\ At("open")
    /\ IF op.error \/ Cancelled
       THEN /\ Respond(Answer(op.key, "error"))
            /\ UNCHANGED session
       ELSE /\ Respond(Answer(op.key, "opened"))
            /\ session' = [session EXCEPT !.open = TRUE]
    /\ op' = IdleOperation
    /\ UNCHANGED <<threads, inbox, done, cards, initialized, work, calls,
                   counts, past>>

-----------------------------------------------------------------------------
(***************************************************************************)
(* The goroutine of session/prompt: runPrompt, then outputText.            *)
(***************************************************************************)

\* tools/list: the names the model may call are read afresh for each prompt.
Discover(ok) ==
    /\ At("discover")
    /\ IF ok THEN GoesTo("round") ELSE Aborts
    /\ UNCHANGED <<control, stdio, state, work, calls, counts, past>>

BeginRound ==
    /\ At("round")
    /\ IF Cancelled \/ request.round = MaxRounds
       THEN Aborts /\ UNCHANGED request
       ELSE GoesTo("model") /\ request' = [request EXCEPT !.round = @ + 1]
    /\ UNCHANGED <<control, stdio, state, seen, batch, revoked, failed, calls,
                   counts, past>>

Elements(s) == {s[i] : i \in DOMAIN s}

\* The whole batch is validated before its first side effect.
Admissible(asked) ==
    /\ Cardinality(seen) + Len(asked) <= MaxCalls
    /\ Cardinality(Elements(asked)) = Len(asked)
    /\ Elements(asked) \cap seen = {}

\* A completed response: some text, and the calls it asks for, each well formed
\* (an allowed name, a usable id, an object of arguments) or not.
ModelAnswers(asked, chunks, wellFormed) ==
    /\ At("model")
    /\ op.chunks + chunks <= MaxChunks
    /\ responses' = responses + 1
    /\ heard' = [id |-> responses + 1, calls |-> Elements(asked),
                 final |-> asked = <<>>]
    /\ IF asked # <<>> /\ ~(wellFormed /\ Admissible(asked))
       THEN Aborts /\ UNCHANGED <<seen, batch>>
       ELSE /\ op' = [op EXCEPT !.pc = IF asked = <<>> THEN "text" ELSE "announce",
                                !.at = 0, !.chunks = @ + chunks]
            /\ seen' = seen \cup Elements(asked)
            /\ batch' = asked
    /\ UNCHANGED <<control, stdio, state, request, revoked, failed, calls,
                   lines, prompts, ended, spoiled>>

\* No completed response, or more text than a prompt may return.
ModelFails ==
    /\ At("model")
    /\ Aborts
    /\ UNCHANGED <<control, stdio, state, work, calls, counts, past>>

\* executeTools announces every call before it starts the first.
Announce ==
    /\ At("announce")
    /\ op.at < Len(batch)
    /\ ~Cancelled
    /\ GoesTo("show")
    /\ UNCHANGED <<control, stdio, state, work, calls, counts, past>>

\* The context was good when it was looked at; it may be cancelled by now.
Show ==
    /\ At("show")
    /\ \/ Put(Card(batch[op.at + 1], "in_progress", Me)) /\ GoesTo("announcing")
       \/ (Refused \/ Flood) /\ Aborts
    /\ UNCHANGED <<threads, inbox, done, cards, state, work, calls, counts, past>>

Announced ==
    /\ At("announcing")
    /\ \/ Sent(Me) /\ op' = [op EXCEPT !.pc = "announce", !.at = @ + 1]
       \/ GivesUp(Me) /\ Aborts
    /\ UNCHANGED <<control, cards, state, work, calls, counts, past>>

\* Cancelled between two announcements: the announced cards are to fail.
\* mutant: announced cards are left open.
Withdraw_Silently ==
    /\ At("announce")
    /\ op.at < Len(batch)
    /\ Cancelled
    /\ batch' = <<>>
    /\ op' = [op EXCEPT !.pc = "withdraw", !.at = 0]
    /\ UNCHANGED <<control, stdio, state, request, seen, revoked, failed, calls,
                   counts, past>>

Withdraw ==
    /\ At("announce")
    /\ op.at < Len(batch)
    /\ Cancelled
    /\ batch' = SubSeq(batch, 1, op.at)
    /\ op' = [op EXCEPT !.pc = "withdraw", !.at = 0]
    /\ UNCHANGED <<control, stdio, state, request, seen, revoked, failed, calls,
                   counts, past>>

FailCard ==
    /\ At("withdraw")
    /\ op.at < Len(batch)
    /\ \/ /\ Put(Card(batch[op.at + 1], "failed", Me))
          /\ GoesTo("withdrawing")
       \/ /\ Refused \/ Flood
          /\ op' = [op EXCEPT !.at = @ + 1]
    /\ UNCHANGED <<threads, inbox, done, cards, state, work, calls, counts, past>>

CardFailed ==
    /\ At("withdrawing")
    /\ Sent(Me) \/ GivesUp(Me)
    /\ op' = [op EXCEPT !.pc = "withdraw", !.at = @ + 1]
    /\ UNCHANGED <<control, cards, state, work, calls, counts, past>>

Withdrawn ==
    /\ At("withdraw")
    /\ op.at = Len(batch)
    /\ Aborts
    /\ UNCHANGED <<control, stdio, state, work, calls, counts, past>>

\* One goroutine per call; the slots of the batch admit the calls.
StartBatch ==
    /\ At("announce")
    /\ op.at = Len(batch)
    /\ GoesTo("tools")
    /\ calls' = [c \in CallIds |-> IF c \in Elements(batch)
                                   THEN [NoCall EXCEPT !.pc = "queued"]
                                   ELSE calls[c]]
    /\ UNCHANGED <<control, stdio, state, work, counts, past>>

\* mutant: the first error returns without waiting for the siblings.
BatchJoined_OrFailed == failed \/ \A c \in Elements(batch) : calls[c].pc = "over"

\* wg.Wait: the goroutine of every call has returned.
BatchJoined == \A c \in Elements(batch) : calls[c].pc = "over"

EndBatch ==
    /\ At("tools")
    /\ BatchJoined
    /\ IF failed \/ Cancelled
       THEN Aborts /\ UNCHANGED request
       ELSE /\ GoesTo("round")
            /\ request' = [request EXCEPT !.previous = heard.id,
                                          !.outputs = Elements(batch)]
    /\ UNCHANGED <<control, stdio, state, seen, batch, revoked, failed, calls,
                   counts, past>>

\* outputText: a chunk at a time, each acknowledged by the writer.
OutputText ==
    /\ At("text")
    /\ op.chunks > 0
    /\ IF Cancelled THEN Aborts ELSE GoesTo("print")
    /\ UNCHANGED <<control, stdio, state, work, calls, counts, past>>

PrintChunk ==
    /\ At("print")
    /\ \/ Put(Text) /\ GoesTo("printing")
       \/ (Refused \/ Flood) /\ Aborts
    /\ UNCHANGED <<threads, inbox, done, cards, state, work, calls, counts, past>>

Printed ==
    /\ At("printing")
    /\ \/ Sent(Me) /\ op' = [op EXCEPT !.pc = "text", !.chunks = @ - 1]
       \/ GivesUp(Me) /\ Aborts
    /\ UNCHANGED <<control, cards, state, work, calls, counts, past>>

EndText ==
    /\ At("text")
    /\ op.chunks = 0
    /\ op' = [op EXCEPT !.pc = "finish", !.error = Cancelled]
    /\ UNCHANGED <<control, stdio, state, work, calls, counts, past>>

\* mutant: the context is not read again under the lock.
StopReason_IgnoresCancel == IF op.error THEN "error" ELSE "end_turn"

\* The outcome of a prompt, read under the lock that also ends the operation:
\* a cancellation accepted before that instant wins over a finished answer.
StopReason ==
    IF Cancelled THEN "cancelled" ELSE IF op.error THEN "error" ELSE "end_turn"

\* mutant: a cancelled prompt leaves the session usable.
SessionAfter_Usable(reason) ==
    IF reason = "end_turn"
    THEN [session EXCEPT !.previous = heard.id]
    ELSE [session EXCEPT !.previous = 0]

\* The session after a prompt: only an ended turn may be continued.
SessionAfter(reason) ==
    IF reason = "end_turn"
    THEN [session EXCEPT !.previous = heard.id]
    ELSE [session EXCEPT !.poisoned = TRUE, !.previous = 0]

FinishPrompt ==
    /\ At("finish")
    /\ session' = SessionAfter(StopReason)
    /\ Respond(Answer(op.key, StopReason))
    /\ op' = IdleOperation
    /\ ended' = IF StopReason = "end_turn" THEN heard.id ELSE ended
    /\ spoiled' = (spoiled \/ StopReason # "end_turn")
    /\ UNCHANGED <<threads, inbox, done, cards, initialized, work, calls,
                   counts, heard>>

-----------------------------------------------------------------------------
(***************************************************************************)
(* The goroutine of one tool call.                                         *)
(***************************************************************************)
\* The group context of the batch, a child of the operation's.
GroupDone == revoked \/ Cancelled

CallGoes(c, pc) == calls' = [calls EXCEPT ![c].pc = pc]

SlotsTaken == Cardinality({c \in CallIds : calls[c].slot})

Acquire(c) ==
    /\ calls[c].pc = "queued"
    /\ SlotsTaken < Slots
    /\ calls' = [calls EXCEPT ![c].pc = "admitted", ![c].slot = TRUE]
    /\ UNCHANGED <<control, stdio, state, op, work, counts, past>>

\* Queued or admitted, the call ends with the context it waits under.
CallCancelled(c) ==
    /\ calls[c].pc \in {"queued", "admitted"}
    /\ GroupDone
    /\ calls' = [calls EXCEPT ![c].pc = "settle", ![c].outcome = "error"]
    /\ UNCHANGED <<control, stdio, state, op, work, counts, past>>

PostCall(c) ==
    /\ calls[c].pc = "admitted"
    /\ ~GroupDone
    /\ CallGoes(c, "posted")
    /\ UNCHANGED <<control, stdio, state, op, work, counts, past>>

\* The answer of tools/call: a result, a result that is an error of the tool,
\* or no usable result (refused, cancelled, timed out, too large in total).
CallReturns(c, outcome) ==
    /\ calls[c].pc = "posted"
    /\ calls' = [calls EXCEPT ![c].pc = "settle", ![c].outcome = outcome]
    /\ UNCHANGED <<control, stdio, state, op, work, counts, past>>

\* mutant: the error is recorded, the batch not revoked before the release.
Settle_KeepsBatch(c) ==
    /\ calls[c].pc = "settle"
    /\ failed' = (failed \/ calls[c].outcome = "error")
    /\ CallGoes(c, IF calls[c].slot THEN "release" ELSE "event")
    /\ UNCHANGED <<control, stdio, state, op, request, seen, batch, revoked, counts, past>>

\* Under the batch's lock: the first error revokes the batch, before the slot
\* of the failed call can admit a queued one.
Settle(c) ==
    /\ calls[c].pc = "settle"
    /\ failed' = (failed \/ calls[c].outcome = "error")
    /\ revoked' = (revoked \/ calls[c].outcome = "error")
    /\ CallGoes(c, IF calls[c].slot THEN "release" ELSE "event")
    /\ UNCHANGED <<control, stdio, state, op, request, seen, batch, counts, past>>

Release(c) ==
    /\ calls[c].pc = "release"
    /\ calls' = [calls EXCEPT ![c].pc = "event", ![c].slot = FALSE]
    /\ UNCHANGED <<control, stdio, state, op, work, counts, past>>

CardStatus(c) == IF calls[c].outcome = "ok" THEN "completed" ELSE "failed"

\* The card's last event could not be written: that fails the batch too.
EventLost(c) ==
    /\ failed' = TRUE
    /\ revoked' = TRUE
    /\ CallGoes(c, "over")

SendEvent(c) ==
    /\ calls[c].pc = "event"
    /\ \/ /\ Put(Card(c, CardStatus(c), c))
          /\ CallGoes(c, "sending")
          /\ UNCHANGED <<failed, revoked>>
       \/ /\ Refused \/ Flood
          /\ EventLost(c)
    /\ UNCHANGED <<threads, inbox, done, cards, state, op, request, seen,
                   batch, counts, past>>

EventSent(c) ==
    /\ calls[c].pc = "sending"
    /\ \/ Sent(c) /\ CallGoes(c, "over") /\ UNCHANGED <<failed, revoked>>
       \/ GivesUp(c) /\ EventLost(c)
    /\ UNCHANGED <<control, cards, state, op, request, seen, batch, counts, past>>

-----------------------------------------------------------------------------
Init ==
    /\ alive = TRUE /\ loop = "serving" /\ writer = "waiting"
    /\ reader = "reading" /\ inbox = "empty"
    /\ writes = <<>> /\ done = {} /\ cards = [c \in CallIds |-> "none"]
    /\ initialized = FALSE
    /\ session = [open |-> FALSE, poisoned |-> FALSE, previous |-> 0]
    /\ op = IdleOperation
    /\ request = NoRequest /\ seen = {} /\ batch = <<>>
    /\ revoked = FALSE /\ failed = FALSE
    /\ calls = [c \in CallIds |-> NoCall]
    /\ lines = 0 /\ responses = 0 /\ prompts = 0
    /\ heard = Unheard /\ ended = 0 /\ spoiled = FALSE

Batches == UNION {[1..n -> CallIds] : n \in 0..MaxBatch}

\* A line from the supervisor.
Accept ==
    \/ AcceptNothing
    \/ AcceptGarbage
    \/ \E key \in Keys :
        \/ AcceptCollision(key)
        \/ AcceptUnsupported(key)
        \/ \E valid \in BOOLEAN :
            \/ AcceptInitialize(key, valid)
            \/ AcceptNewSession(key, valid)
            \/ AcceptPrompt(key, valid)
    \/ \E named \in Keys \cup {NoKey} : AcceptCancel(named)

\* The peers answer, well or not: the MCP server and the model provider.
PeerAnswers ==
    \/ \E ok \in BOOLEAN : Handshake(ok) \/ Discover(ok)
    \/ \E asked \in Batches, chunks \in 0..MaxChunks, wellFormed \in BOOLEAN :
        ModelAnswers(asked, chunks, wellFormed)
    \/ ModelFails

\* The goroutine of the operation.
Operate ==
    \/ OpenSession \/ BeginRound
    \/ Announce \/ Show \/ Announced \/ Withdraw \/ FailCard \/ CardFailed \/ Withdrawn
    \/ StartBatch \/ EndBatch
    \/ OutputText \/ PrintChunk \/ Printed \/ EndText
    \/ FinishPrompt

RunCall(c) ==
    \/ Acquire(c) \/ CallCancelled(c) \/ PostCall(c)
    \/ \E outcome \in {"ok", "toolError", "error"} : CallReturns(c, outcome)
    \/ Settle(c) \/ Release(c) \/ SendEvent(c) \/ EventSent(c)

Next ==
    \/ Accept
    \/ PeerAnswers
    \/ Operate
    \/ \E c \in CallIds : RunCall(c)
    \/ BeginWrite \/ Write \/ WriteFails \/ WriterStops
    \/ ReadReturns \/ HandOver \/ ReaderStops
    \/ ServeReturns \/ Join

Spec == Init /\ [][Next]_vars

(***************************************************************************)
(* Fairness.  Goroutines that can run do run; every HTTP exchange is       *)
(* bounded by acpHTTPTimeout or acpToolCallTimeout, so it has an outcome.  *)
(* Nothing is assumed of the supervisor: a call to read stdin or to write  *)
(* stdout may never return (no fairness of Write, WriteFails, ReadReturns).*)
(***************************************************************************)
Fairness ==
    /\ WF_vars(PeerAnswers)
    /\ WF_vars(Operate)
    /\ \A c \in CallIds : WF_vars(RunCall(c))
    /\ WF_vars(BeginWrite \/ WriterStops)
    /\ WF_vars(HandOver \/ ReaderStops)
    /\ WF_vars(ServeReturns)
    /\ WF_vars(Join)

FairSpec == Spec /\ Fairness

-----------------------------------------------------------------------------
(***************************************************************************)
(* Properties.                                                             *)
(***************************************************************************)
Pcs == {"idle", "handshake", "notify", "open", "discover", "round", "model",
        "announce", "show", "announcing", "withdraw", "withdrawing", "tools",
        "text", "print", "printing", "finish"}

Statuses == {"error", "initialized", "opened", "end_turn", "cancelled",
             "in_progress", "completed", "failed", "chunk"}

\* The shape of the child's state, among it the two limits that only several
\* actors together can break: the queue of frames and the slots of a batch.
TypeOK ==
    /\ {alive, initialized, revoked, failed, spoiled} \subseteq BOOLEAN
    /\ loop \in {"serving", "joining", "returned"}
    /\ writer \in {"waiting", "writing", "over"}
    /\ reader \in {"reading", "line", "end", "over"}
    /\ inbox \in {"empty", "line", "end"}
    /\ writes \in Seq([what : {"reply", "answer", "card", "text"},
                       of : Keys \cup CallIds \cup {NoKey},
                       status : Statuses, by : Senders \cup {NoOne},
                       prompt : 0..prompts])
    /\ Waiting \in 0..QueueCap
    /\ done \subseteq Senders
    /\ session \in [open : BOOLEAN, poisoned : BOOLEAN, previous : 0..responses]
    /\ op \in [pc : Pcs, key : Keys \cup {NoKey}, cancelled : BOOLEAN,
               error : BOOLEAN, at : Nat, chunks : 0..MaxChunks]
    /\ request \in [previous : 0..responses, outputs : SUBSET CallIds,
                    round : 0..MaxRounds]
    /\ seen \subseteq CallIds /\ Cardinality(seen) <= MaxCalls
    /\ batch \in Seq(CallIds)
    /\ calls \in [CallIds ->
            [pc : {"none", "queued", "admitted", "posted", "settle", "release",
                   "event", "sending", "over"},
             outcome : {"none", "ok", "toolError", "error"}, slot : BOOLEAN]]
    /\ SlotsTaken <= Slots
    /\ lines \in Nat /\ responses \in Nat /\ prompts \in Nat
    /\ cards \in [CallIds -> {"none", "open", "closed"}]

\* A frame queued by a step.
Newest == writes'[Len(writes')]
Queued(kinds) == Len(writes') > Len(writes) /\ Newest.what \in kinds
Responses == {"reply", "answer"}

\* While a request is live, no other answer carries its identity: the next
\* answer with that key is its own, and ends it.  (accept refuses a colliding
\* request by closing the channel rather than answer it.)
AnswersAreOwn ==
    [][Queued(Responses) /\ ~Idle /\ Newest.of = op.key => op'.pc = "idle"]_vars

\* Nothing a prompt started outlives it: no tool call runs unless the prompt is
\* waiting for its batch, at most Slots calls are with the MCP server, and while
\* the transport is up every update in the queue belongs to the running prompt,
\* so that none follows the prompt's answer.
NothingOutlivesThePrompt ==
    /\ ~At("tools") => \A c \in CallIds : calls[c].pc \in {"none", "over"}
    /\ Cardinality({c \in CallIds : calls[c].pc = "posted"}) <= Slots
    /\ alive => \A i \in DOMAIN writes : writes[i].what \notin Responses =>
            /\ op.pc \in {"announcing", "withdrawing", "tools", "printing"}
            /\ writes[i].prompt = prompts

\* After the first error of a batch no call of it is sent any more: the failed
\* call revokes the batch before its slot admits a queued one.
RevokedBatchAdmitsNothing ==
    [][\A c \in CallIds : calls[c].pc = "admitted" /\ calls'[c].pc = "posted" =>
            /\ ~failed
            /\ \A d \in CallIds : calls[d].outcome = "error" => calls[d].pc = "settle"]_vars

\* What the supervisor reads, as long as the transport is up: a card opens once,
\* closes once and only after it was opened, and text or an answer never leaves
\* a card of the prompt open.
InOrder(f) ==
    CASE f.what = "card" /\ f.status = "in_progress" -> cards[f.of] = "none"
      [] f.what = "card" /\ f.status # "in_progress" -> cards[f.of] = "open"
      [] f.what = "reply" -> TRUE
      [] OTHER -> f.prompt = prompts => \A c \in CallIds : cards[c] # "open"

CardsOpenAndClose ==
    [][alive /\ alive' /\ writes # <<>> /\ Len(writes') < Len(writes)
            => InOrder(Head(writes))]_vars

\* end_turn is answered only by a prompt that no cancellation reached, whose
\* last response asks for nothing more, and whose whole text and every tool
\* event were written to stdout before.
EndTurnIsEarned ==
    [][Queued({"answer"}) /\ Newest.status = "end_turn" =>
            /\ ~Cancelled
            /\ heard.final /\ op.chunks = 0
            /\ \A c \in CallIds : cards[c] # "open"
            /\ \A i \in DOMAIN writes : writes[i].what \in Responses]_vars

\* Every request to the model continues the conversation where it stands: the
\* first of a prompt the last ended turn, a later one the response that asked
\* for calls, with the outputs of exactly those calls; and once a prompt was
\* cancelled or failed the session asks the model nothing more.
ConversationChains ==
    At("model") =>
        /\ ~spoiled
        /\ IF request.round = 1
           THEN request.previous = ended /\ request.outputs = {}
           ELSE /\ request.previous = heard.id /\ ~heard.final
                /\ request.outputs = heard.calls

\* Every operation ends, so its request is answered or the child stops, if only
\* every write to stdout returns.  A supervisor that does not read holds the
\* operation, cancelled or not, until the server is cancelled: then nothing
\* waits for a frame, a slot or a peer any more.
OperationsEnd ==
    /\ []<>(writer # "writing") => (~Idle ~> Idle)
    /\ ~alive ~> (Idle /\ \A c \in CallIds : calls[c].pc \in {"none", "over"})

\* A cancelled server joins its goroutines and serveACP returns, unless a call
\* that was begun keeps it: the write of a frame nobody takes, or the read of a
\* stdin that stays open and silent.  Both closed descriptors and the cancelled
\* context leave such a call alone.  Nothing else ever holds the join.
ServerStops ==
    ~alive ~> (loop = "returned" \/ writer = "writing" \/ reader = "reading")

\* Nothing waits for ever but for the supervisor, neither an operation nor the
\* child itself.
EverythingEnds == OperationsEnd /\ ServerStops
=============================================================================
