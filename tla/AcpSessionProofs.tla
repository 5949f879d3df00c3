--------------------------- MODULE AcpSessionProofs ---------------------------
(* The ACP child, for all identities of requests and calls and all limits: *)
(* the shape of its state, the conversation with the model, the batch, the *)
(* queue of frames and the cards of the tool calls.                        *)
EXTENDS AcpSession, FiniteSetTheorems, SequenceTheorems, TLAPS

(* The type invariant in parts, with that of the history.                  *)
Frames == [what : {"reply", "answer", "card", "text"}, of : Keys \cup CallIds \cup {NoKey},
           status : Statuses, by : Senders \cup {NoOne}, prompt : 0..prompts]
Calls  == [pc : {"none", "queued", "admitted", "posted", "settle", "release",
                 "event", "sending", "over"},
           outcome : {"none", "ok", "toolError", "error"}, slot : BOOLEAN]

FlagsTyped == /\ alive \in BOOLEAN /\ loop \in {"serving", "joining", "returned"}
              /\ reader \in {"reading", "line", "end", "over"} /\ inbox \in {"empty", "line", "end"}
              /\ initialized \in BOOLEAN /\ revoked \in BOOLEAN /\ failed \in BOOLEAN
              /\ spoiled \in BOOLEAN
QueueTyped == /\ writer \in {"waiting", "writing", "over"}
              /\ writes \in Seq(Frames) /\ Waiting \in 0..QueueCap /\ done \subseteq Senders
              /\ prompts \in Nat /\ lines \in Nat
StateTyped == /\ responses \in Nat /\ ended \in 0..responses
              /\ session \in [open : BOOLEAN, poisoned : BOOLEAN, previous : 0..responses]
              /\ heard \in [id : 0..responses, calls : SUBSET CallIds, final : BOOLEAN]
              /\ request \in [previous : 0..responses, outputs : SUBSET CallIds, round : 0..MaxRounds]
OpTyped    == op \in [pc : Pcs, key : Keys \cup {NoKey}, cancelled : BOOLEAN,
                      error : BOOLEAN, at : Nat, chunks : 0..MaxChunks]
BatchTyped == seen \subseteq CallIds /\ Cardinality(seen) <= MaxCalls /\ batch \in Seq(CallIds)
CallsTyped == calls \in [CallIds -> Calls] /\ SlotsTaken <= Slots
CardsTyped == cards \in [CallIds -> {"none", "open", "closed"}]

Typed == /\ FlagsTyped /\ QueueTyped /\ StateTyped /\ OpTyped /\ BatchTyped
         /\ CallsTyped /\ CardsTyped

PromptPcs  == Pcs \ {"idle", "handshake", "notify", "open"}
ModelPcs   == PromptPcs \ {"discover", "round"}
CardPcs    == {"announce", "show", "announcing", "withdraw", "withdrawing", "tools"}
WaitPcs    == {"announcing", "withdrawing", "printing"}
Over       == {"none", "over"}

(* A request of a prompt continues what the last one left.                 *)
Conversation ==
  /\ ~Idle => op.key \in Keys
  /\ spoiled => session.poisoned
  /\ ~spoiled => session.previous = ended
  /\ op.pc \in PromptPcs => ~spoiled
  /\ op.pc \in {"discover", "round"} /\ request.round = 0 =>
       request.previous = ended /\ request.outputs = {}
  /\ At("discover") => request.round = 0
  /\ At("round") /\ request.round > 0 =>
       request.previous = heard.id /\ ~heard.final /\ request.outputs = heard.calls
  /\ op.pc \in ModelPcs \ {"finish"} => request.round > 0
  /\ At("model") => ConversationChains
  /\ op.pc \in {"announce", "show", "announcing", "tools"} =>
       ~heard.final /\ heard.calls = Elements(batch)
  /\ op.pc \in {"text", "print", "printing"} => heard.final
  /\ op.pc \in {"print", "printing"} => op.chunks > 0
  /\ At("finish") /\ ~op.error => heard.final /\ op.chunks = 0

(* The calls of a batch are different ones, and where the batch stands.    *)
BatchShape ==
  /\ \A i, j \in 1..Len(batch) : batch[i] = batch[j] => i = j
  /\ Elements(batch) \subseteq seen
  /\ op.pc \in {"announce", "withdraw"} => op.at <= Len(batch)
  /\ op.pc \in {"show", "announcing", "withdrawing"} => op.at < Len(batch)

(* Calls run while the prompt waits for them; an error revokes the batch.  *)
CallsRun ==
  /\ \A c \in CallIds :
       /\ At("tools") /\ c \in Elements(batch) => calls[c].pc # "none"
       /\ ~(At("tools") /\ c \in Elements(batch)) => calls[c].pc \in Over
       /\ calls[c].outcome = "error" => calls[c].pc = "settle" \/ failed
       /\ calls[c].pc \in {"admitted", "posted"} => calls[c].slot
  /\ failed => revoked

(* Who waits for which frame, while the transport is up.                   *)
OwnedAt(f, o, k, b, n) ==
  /\ f.what \in Responses => f.by = NoOne
  /\ f.what \notin Responses => f.by \in Senders /\ f.prompt = n
  /\ f.what = "answer" /\ f.prompt = n => o.pc \notin PromptPcs
  /\ f.by \in CallIds =>
       f.what = "card" /\ f.of = f.by /\ f.status # "in_progress" /\ k[f.by].pc = "sending"
  /\ f.by = Me =>
       \/ o.pc = "announcing" /\ f.what = "card" /\ f.of = b[o.at + 1] /\ f.status = "in_progress"
       \/ o.pc = "withdrawing" /\ f.what = "card" /\ f.of = b[o.at + 1] /\ f.status # "in_progress"
       \/ o.pc = "printing" /\ f.what = "text"

Owned(f) == OwnedAt(f, op, calls, batch, prompts)

QueueOwned ==
  alive =>
    /\ \A i \in 1..Len(writes) : Owned(writes[i]) /\ writes[i].by \notin done
    /\ \A i, j \in 1..Len(writes) : writes[i].by = writes[j].by /\ writes[i].by # NoOne => i = j
    /\ Me \in done => op.pc \in WaitPcs
    /\ \A c \in CallIds : c \in done => calls[c].pc = "sending"

(* What the supervisor has seen of each call.                              *)
Card1(i) ==
  /\ op.pc \in {"announce", "show", "announcing"} =>
       /\ i <= op.at => cards[batch[i]] = "open"
       /\ i > op.at + 1 => cards[batch[i]] = "none"
  /\ op.pc \in {"announce", "show"} /\ i = op.at + 1 => cards[batch[i]] = "none"
  /\ At("announcing") /\ i = op.at + 1 => cards[batch[i]] = IF Me \in done THEN "open" ELSE "none"
  /\ op.pc \in {"withdraw", "withdrawing"} =>
       /\ i <= op.at => cards[batch[i]] = "closed"
       /\ i > op.at + 1 => cards[batch[i]] = "open"
  /\ At("withdraw") /\ i = op.at + 1 => cards[batch[i]] = "open"
  /\ At("withdrawing") /\ i = op.at + 1 => cards[batch[i]] = IF Me \in done THEN "closed" ELSE "open"

CardsTold ==
  alive =>
    /\ \A c \in CallIds :
         /\ c \notin seen => cards[c] = "none"
         /\ ~(op.pc \in CardPcs /\ c \in Elements(batch)) => cards[c] # "open"
         /\ At("tools") /\ c \in Elements(batch) =>
              cards[c] = IF calls[c].pc = "over" \/ c \in done THEN "closed" ELSE "open"
    /\ \A i \in 1..Len(batch) : Card1(i)

AcpInv == Typed /\ Conversation /\ BatchShape /\ CallsRun /\ QueueOwned /\ CardsTold

-----------------------------------------------------------------------------
(* The queue of frames.                                                    *)
LEMMA PutAppends ==
  ASSUME writes \in Seq(Frames), NEW f \in Frames, Put(f)
  PROVE  /\ writes' \in Seq(Frames) /\ Len(writes') = Len(writes) + 1
         /\ \A i \in 1..Len(writes) : writes'[i] = writes[i]
         /\ writes'[Len(writes) + 1] = f /\ alive' = alive /\ Len(writes) \in Nat
BY AcpAssumption DEF Put

LEMMA PutFits ==
  ASSUME QueueTyped, NEW f \in Frames, Put(f), UNCHANGED writer
  PROVE  writes' \in Seq(Frames) /\ Waiting' \in 0..QueueCap /\ alive' = alive
<1>1. writes' \in Seq(Frames) /\ Len(writes') = Len(writes) + 1 /\ alive' = alive /\ Len(writes) \in Nat
  BY PutAppends DEF QueueTyped
<1>2. Waiting \in 0..QueueCap /\ Waiting < QueueCap /\ QueueCap \in Nat
  BY AcpAssumption DEF QueueTyped, Put
<1>3. Waiting' = Waiting + 1
  BY <1>1 DEF Waiting
<1>4. QED
  BY <1>1, <1>2, <1>3

LEMMA RespondTyped ==
  ASSUME FlagsTyped, QueueTyped, NEW f \in Frames, Respond(f), done' \subseteq Senders,
         UNCHANGED <<writer, lines, prompts>>
  PROVE  QueueTyped' /\ alive' \in BOOLEAN /\ (alive' => alive /\ Put(f))
<1>0. Frames' = Frames BY DEF Frames
<1>1. CASE Put(f)
  <2>1. writes' \in Seq(Frames) /\ Waiting' \in 0..QueueCap /\ alive' = alive
    BY <1>1, PutFits
  <2>2. QED BY <1>0, <1>1, <2>1 DEF QueueTyped, FlagsTyped
<1>2. CASE Refused
  BY <1>0, <1>2 DEF QueueTyped, FlagsTyped, Refused, Waiting
<1>3. CASE Flood
  BY <1>0, <1>3 DEF QueueTyped, FlagsTyped, Flood, Waiting
<1>4. QED BY <1>1, <1>2, <1>3 DEF Respond

(* A frame joins the queue: nobody waits for it, or somebody who waits for *)
(* no other.                                                               *)
LEMMA PutOwned ==
  ASSUME QueueTyped, QueueOwned, alive, NEW f \in Frames, Put(f), UNCHANGED done,
         \A g \in Frames : Owned(g) =>
           OwnedAt(g, op', calls', batch', prompts') /\ (g.by # f.by \/ f.by = NoOne),
         OwnedAt(f, op', calls', batch', prompts'), f.by \notin done,
         Me \in done => op'.pc \in WaitPcs,
         \A c \in CallIds : c \in done => calls'[c].pc = "sending"
  PROVE  QueueOwned'
<1>1. /\ Len(writes) \in Nat /\ Len(writes') = Len(writes) + 1
      /\ \A i \in 1..Len(writes) : writes'[i] = writes[i]
      /\ writes'[Len(writes) + 1] = f
  BY PutAppends DEF QueueTyped
<1>2. \A i \in 1..Len(writes) : writes[i] \in Frames BY ElementOfSeq DEF QueueTyped
<1>3. \A i \in 1..Len(writes') : i \in 1..Len(writes) \/ i = Len(writes) + 1 BY <1>1
<1>4. \A i \in 1..Len(writes) : Owned(writes[i]) /\ writes[i].by \notin done BY DEF QueueOwned
<1>5. \A i \in 1..Len(writes') : OwnedAt(writes'[i], op', calls', batch', prompts') /\ writes'[i].by \notin done'
  BY <1>1, <1>2, <1>3, <1>4
<1>6. ASSUME NEW i \in 1..Len(writes'), NEW j \in 1..Len(writes'),
             writes'[i].by = writes'[j].by, writes'[i].by # NoOne
      PROVE  i = j
  BY <1>1, <1>2, <1>3, <1>4, <1>6 DEF QueueOwned
<1>7. QED BY <1>5, <1>6 DEF QueueOwned, Owned

LEMMA AbandonTyped ==
  ASSUME QueueTyped, NEW by \in Senders
  PROVE  Abandon(by) \in Seq(Frames) /\ Len(Abandon(by)) = Len(writes)
<1>1. Len(writes) \in Nat /\ DOMAIN writes = 1..Len(writes) /\ \A i \in 1..Len(writes) : writes[i] \in Frames
  BY ElementOfSeq, LenProperties DEF QueueTyped
<1>2. \A f \in Frames : [f EXCEPT !.by = NoOne] \in Frames BY DEF Frames
<1>3. Abandon(by) \in [1..Len(writes) -> Frames] BY <1>1, <1>2 DEF Abandon
<1>4. QED BY <1>1, <1>3

\* The frame somebody waited for is written: it is no longer in the queue.
LEMMA SentOwned ==
  ASSUME QueueTyped, QueueOwned, NEW by \in Senders, Sent(by), alive, UNCHANGED alive,
         \A g \in Frames : Owned(g) /\ g.by # by => OwnedAt(g, op', calls', batch', prompts'),
         Me \in done \ {by} => op'.pc \in WaitPcs,
         \A c \in CallIds : c \in done \ {by} => calls'[c].pc = "sending"
  PROVE  QueueOwned'
<1>1. \A i \in 1..Len(writes) : writes[i] \in Frames BY ElementOfSeq DEF QueueTyped
<1>2. \A i \in 1..Len(writes) : OwnedAt(writes[i], op', calls', batch', prompts') /\ writes[i].by \notin done'
  BY <1>1 DEF QueueOwned, Sent
<1>3. QED BY <1>2 DEF QueueOwned, Sent, Owned

LEMMA SlotsKept ==
  ASSUME CallsTyped, calls' \in [CallIds -> Calls], \A c \in CallIds : calls'[c].slot => calls[c].slot
  PROVE  CallsTyped'
<1> DEFINE Taken == {c \in CallIds : calls[c].slot}
<1> DEFINE Left  == {c \in CallIds : calls'[c].slot}
<1>1. Left \subseteq Taken /\ Taken \subseteq CallIds OBVIOUS
<1>2. IsFiniteSet(Taken) /\ IsFiniteSet(Left) BY <1>1, FS_Subset, AcpAssumption
<1>3. Cardinality(Left) <= Cardinality(Taken) BY <1>1, <1>2, FS_Subset
<1>4. Cardinality(Left) \in Nat /\ Cardinality(Taken) \in Nat BY <1>2, FS_CardinalityType
<1>5. Cardinality(Taken) <= Slots BY DEF CallsTyped, SlotsTaken
<1>6. Cardinality(Left) <= Slots BY <1>3, <1>4, <1>5, AcpAssumption
<1>7. SlotsTaken' = Cardinality(Left) BY DEF SlotsTaken
<1>8. QED BY <1>6, <1>7 DEF CallsTyped

\* The queue stays and so do those who wait for a frame in it.
LEMMA QueueUnmoved ==
  ASSUME QueueOwned, UNCHANGED <<writes, done, op, batch, prompts, alive>>,
         \A c \in CallIds : calls[c].pc = "sending" => calls'[c].pc = "sending"
  PROVE  QueueOwned'
<1>1. \A g : Owned(g) => OwnedAt(g, op', calls', batch', prompts') BY DEF Owned, OwnedAt
<1>2. QED BY <1>1 DEF QueueOwned, Owned

\* Positions around the next one.
LEMMA OneFurther ==
  ASSUME NEW k \in Nat, NEW n \in Nat, NEW m \in Nat, m = n + 1
  PROVE  /\ k <= m => k <= n \/ k = n + 1
         /\ k > m => k > n + 1
         /\ k > m + 1 => k > m
         /\ k = m + 1 => k > m
OBVIOUS

\* The provider has produced another response.
LEMMA ResponseTyped ==
  ASSUME StateTyped, NEW asked \in SUBSET CallIds, NEW last \in BOOLEAN, responses' = responses + 1,
         heard' = [id |-> responses + 1, calls |-> asked, final |-> last],
         UNCHANGED <<session, request, ended>>
  PROVE  StateTyped'
<1>1. responses \in Nat /\ responses' \in Nat /\ 0..responses \subseteq 0..responses' /\ responses + 1 \in 0..responses'
  BY DEF StateTyped
<1>2. heard' \in [id : 0..responses', calls : SUBSET CallIds, final : BOOLEAN] BY <1>1
<1>3. session' \in [open : BOOLEAN, poisoned : BOOLEAN, previous : 0..responses'] BY <1>1 DEF StateTyped
<1>4. request' \in [previous : 0..responses', outputs : SUBSET CallIds, round : 0..MaxRounds]
  BY <1>1 DEF StateTyped
<1>5. ended' \in 0..responses' BY <1>1 DEF StateTyped
<1>6. QED BY <1>1, <1>2, <1>3, <1>4, <1>5 DEF StateTyped

LEMMA BatchesAreSequences ==
  ASSUME NEW asked \in Batches
  PROVE  /\ asked \in Seq(CallIds) /\ Len(asked) \in Nat /\ DOMAIN asked = 1..Len(asked)
         /\ Elements(asked) \subseteq CallIds
<1>1. PICK n \in 0..MaxBatch : asked \in [1..n -> CallIds] BY DEF Batches
<1>2. asked \in Seq(CallIds) BY <1>1, AcpAssumption
<1>3. QED BY <1>2, LenProperties, ElementOfSeq DEF Elements

LEMMA PrefixIs ==
  ASSUME NEW s \in Seq(CallIds), NEW n \in 0..Len(s)
  PROVE  /\ SubSeq(s, 1, n) \in Seq(CallIds) /\ Len(SubSeq(s, 1, n)) = n
         /\ \A i \in 1..n : SubSeq(s, 1, n)[i] = s[i]
<1>1. n \in Int /\ 1 \in Int /\ \A i \in 1..n : s[i] \in CallIds BY ElementOfSeq, LenProperties
<1>2. /\ SubSeq(s, 1, n) \in Seq(CallIds)
      /\ Len(SubSeq(s, 1, n)) = IF 1 <= n THEN n - 1 + 1 ELSE 0
      /\ \A i \in 1..n - 1 + 1 : SubSeq(s, 1, n)[i] = s[1 + i - 1]
  BY <1>1, SubSeqProperties
<1>3. QED BY <1>2

\* As many different calls as there are places: no call twice.
LEMMA DistinctCalls ==
  ASSUME NEW s \in Seq(CallIds), Cardinality(Elements(s)) = Len(s)
  PROVE  \A i, j \in 1..Len(s) : s[i] = s[j] => i = j
<1>1. Len(s) \in Nat /\ s \in [1..Len(s) -> CallIds] /\ DOMAIN s = 1..Len(s) BY LenProperties
<1>2. s \in Surjection(1..Len(s), Elements(s)) BY <1>1 DEF Surjection, Elements
<1>3. IsFiniteSet(1..Len(s)) /\ Cardinality(1..Len(s)) = Len(s)
  <2>1. Len(s) \in Int /\ 1 \in Int BY <1>1
  <2>2. IsFiniteSet(1..Len(s)) /\ Cardinality(1..Len(s)) = IF 1 > Len(s) THEN 0 ELSE Len(s) - 1 + 1
    BY <2>1, FS_Interval
  <2>3. QED BY <1>1, <2>2
<1>4. s \in Injection(1..Len(s), Elements(s)) BY <1>2, <1>3, FS_Surjection
<1>5. QED BY <1>4 DEF Injection, IsInjective


LEMMA WriteHolds == ASSUME AcpInv, Write PROVE AcpInv'
<1> USE AcpAssumption DEF AcpInv, Typed, Waiting, Write, control, threads, stdio, state, work, counts, past, At, Idle, Cancelled
<1>0. /\ Len(writes) \in Nat /\ Len(writes) > 0 /\ Head(writes) = writes[1] /\ writes[1] \in Frames
      /\ Tail(writes) \in Seq(Frames) /\ Len(Tail(writes)) = Len(writes) - 1
      /\ \A i \in 1..Len(Tail(writes)) : Tail(writes)[i] = writes[i + 1] /\ i + 1 \in 1..Len(writes)
  BY HeadTailProperties, EmptySeq, ElementOfSeq, LenProperties DEF QueueTyped
<1>a. writes' = Tail(writes) /\ done' = done \cup ({writes[1].by} \cap Senders) /\ cards' = Shown(writes[1])
  BY <1>0
<1>1. FlagsTyped' BY DEF FlagsTyped
<1>2. QueueTyped'
  BY <1>0, <1>a DEF QueueTyped, Frames
<1>3. StateTyped' BY DEF StateTyped
<1>4. OpTyped' BY DEF OpTyped, Pcs
<1>5. BatchTyped' BY DEF BatchTyped
<1>6. CallsTyped' BY DEF CallsTyped, Calls, SlotsTaken
<1>7. CardsTyped'
  <2>1. writes[1].what = "card" => cards' = [cards EXCEPT ![writes[1].of] = IF writes[1].status = "in_progress" THEN "open" ELSE "closed"] \/ cards' = cards
    BY <1>a DEF Shown
  <2>2. QED BY <1>a, <2>1 DEF CardsTyped, Shown
<1>8. Conversation' BY DEF FlagsTyped, StateTyped, OpTyped, Conversation, ConversationChains, Pcs, PromptPcs, ModelPcs
<1>9. BatchShape' BY DEF OpTyped, BatchTyped, BatchShape, Elements
<1>10. CallsRun' BY DEF OpTyped, CallsTyped, Calls, FlagsTyped, CallsRun, Over, Elements
<1>11. QueueOwned'
  <2>1. SUFFICES ASSUME alive PROVE QueueOwned' BY DEF QueueOwned
  <2>2. Owned(writes[1]) /\ 1 \in 1..Len(writes) BY <1>0, <2>1 DEF QueueOwned
  <2>3. \A i \in 1..Len(writes') : Owned(writes'[i]) /\ writes'[i].by \notin done'
    <3>1. SUFFICES ASSUME NEW i \in 1..Len(writes') PROVE Owned(writes[i + 1]) /\ writes[i + 1].by \notin done'
      BY <1>0, <1>a
    <3>2. i + 1 \in 1..Len(writes) /\ i + 1 # 1 BY <1>0, <1>a
    <3>3. Owned(writes[i + 1]) /\ writes[i + 1].by \notin done BY <2>1, <3>2 DEF QueueOwned
    <3>4. writes[i + 1].by = writes[1].by => writes[1].by = NoOne BY <2>1, <2>2, <3>2 DEF QueueOwned
    <3>5. NoOne \notin Senders BY DEF Senders, Me, NoOne
    <3>6. QED BY <1>a, <3>3, <3>4, <3>5
  <2>4. \A i, j \in 1..Len(writes') : writes'[i].by = writes'[j].by /\ writes'[i].by # NoOne => i = j
    <3>1. SUFFICES ASSUME NEW i \in 1..Len(writes'), NEW j \in 1..Len(writes'),
                          writes'[i].by = writes'[j].by, writes'[i].by # NoOne
                   PROVE  i = j
      OBVIOUS
    <3>2. i + 1 = j + 1 BY <1>0, <1>a, <2>1, <3>1 DEF QueueOwned
    <3>3. i \in Int /\ j \in Int OBVIOUS
    <3>4. QED BY <3>2, <3>3
  <2>5. Me \in done' => op.pc \in WaitPcs
    BY <1>a, <2>1, <2>2 DEF QueueOwned, Owned, OwnedAt, WaitPcs
  <2>6. \A c \in CallIds : c \in done' => calls[c].pc = "sending"
    BY <1>a, <2>1, <2>2 DEF QueueOwned, Owned, OwnedAt
  <2>7. QED BY <2>3, <2>4, <2>5, <2>6 DEF QueueOwned, Owned
<1>12. CardsTold'
  <2>1. SUFFICES ASSUME alive PROVE CardsTold' BY DEF CardsTold
  <2>2. Owned(writes[1]) /\ writes[1].by \notin done BY <1>0, <2>1 DEF QueueOwned
  <2>3. \A i \in 1..Len(batch) : batch[i] \in CallIds /\ batch[i] \in Elements(batch)
    BY ElementOfSeq, LenProperties DEF BatchTyped, Elements
  <2>4. CASE writes[1].what # "card"
    <3>1. cards' = cards BY <1>a, <2>4 DEF Shown
    <3>2. writes[1].by # NoOne => At("printing") /\ writes[1].by = Me
      BY <2>2, <2>4 DEF Owned, OwnedAt, Senders, Responses, QueueOwned
    <3>3. \A c \in CallIds : c \in done' <=> c \in done BY <1>a, <3>2 DEF Senders
    <3>4. Me \in done' /\ Me \notin done => At("printing") BY <1>a, <3>2 DEF Me, NoOne
    <3>5. QED BY <2>1, <3>1, <3>3, <3>4 DEF CardsTold, Card1, CardPcs
  <2>5. CASE writes[1].what = "card" /\ writes[1].by = Me
    <3>1. op.at \in Nat /\ Len(batch) \in Nat /\ op.at + 1 \in 1..Len(batch)
      BY <2>2, <2>5, LenProperties DEF Owned, OwnedAt, OpTyped, BatchTyped, BatchShape
    <3>2. writes[1].of = batch[op.at + 1] /\ writes[1].prompt = prompts
      BY <2>2, <2>5 DEF Owned, OwnedAt, Responses
    <3>3. cards' = [cards EXCEPT ![batch[op.at + 1]] = IF writes[1].status = "in_progress" THEN "open" ELSE "closed"]
      BY <1>a, <2>5, <3>2 DEF Shown
    <3>4. Me \in done' /\ Me \notin done /\ \A c \in CallIds : c \in done' <=> c \in done
      BY <1>a, <2>2, <2>5 DEF Senders
    <3>5. \A c \in CallIds : c # batch[op.at + 1] => cards'[c] = cards[c] BY <3>3 DEF CardsTyped
    <3>6. cards'[batch[op.at + 1]] = IF writes[1].status = "in_progress" THEN "open" ELSE "closed"
      BY <2>3, <3>1, <3>3 DEF CardsTyped
    <3>7. \A i \in 1..Len(batch) : i # op.at + 1 => cards'[batch[i]] = cards[batch[i]]
      BY <2>3, <3>1, <3>5 DEF BatchShape
    <3>8. \/ At("announcing") /\ writes[1].status = "in_progress"
          \/ At("withdrawing") /\ writes[1].status # "in_progress"
      BY <2>2, <2>5 DEF Owned, OwnedAt
    <3>9. \A i \in 1..Len(batch) : Card1(i)'
      <4>1. SUFFICES ASSUME NEW i \in 1..Len(batch) PROVE Card1(i)' OBVIOUS
      <4>2. Card1(i) /\ op' = op /\ batch' = batch /\ i \in Nat BY <2>1 DEF CardsTold
      <4>3. i # op.at + 1 => cards'[batch[i]] = cards[batch[i]] BY <3>7
      <4> HIDE DEF Write, AcpInv, Typed
      <4>4. CASE At("announcing") /\ writes[1].status = "in_progress"
        <5>1. cards'[batch[op.at + 1]] = "open" BY <3>6, <4>4
        <5>2. CASE i = op.at + 1 BY <3>4, <4>2, <4>4, <5>1, <5>2 DEF Card1
        <5>3. CASE i # op.at + 1 BY <3>4, <4>2, <4>3, <4>4, <5>3 DEF Card1
        <5>4. QED BY <5>2, <5>3
      <4>5. CASE At("withdrawing") /\ writes[1].status # "in_progress"
        <5>1. cards'[batch[op.at + 1]] = "closed" BY <3>6, <4>5
        <5>2. CASE i = op.at + 1 BY <3>4, <4>2, <4>5, <5>1, <5>2 DEF Card1
        <5>3. CASE i # op.at + 1 BY <3>4, <4>2, <4>3, <4>5, <5>3 DEF Card1
        <5>4. QED BY <5>2, <5>3
      <4>6. QED BY <3>8, <4>4, <4>5
    <3>10. batch[op.at + 1] \in Elements(batch) /\ batch[op.at + 1] \in seen BY <2>3, <3>1 DEF BatchShape
    <3>11. \A c \in CallIds :
             /\ c \notin seen => cards'[c] = "none"
             /\ ~(op.pc \in CardPcs /\ c \in Elements(batch)) => cards'[c] # "open"
      BY <2>1, <3>5, <3>8, <3>10 DEF CardsTold, CardPcs
    <3>12. QED BY <3>8, <3>9, <3>11 DEF CardsTold, CardPcs
  <2>6. CASE writes[1].what = "card" /\ writes[1].by # Me
    <3>1. PICK c \in CallIds : c = writes[1].by BY <2>2, <2>6 DEF Owned, OwnedAt, Responses, Senders
    <3>2. writes[1].of = c /\ writes[1].prompt = prompts /\ writes[1].status # "in_progress" /\ calls[c].pc = "sending"
      BY <2>2, <2>6, <3>1 DEF Owned, OwnedAt, Responses
    <3>3. cards' = [cards EXCEPT ![c] = "closed"] BY <1>a, <2>6, <3>2 DEF Shown
    <3>4. done' = done \cup {c} BY <1>a, <3>1 DEF Senders
    <3>5. At("tools") /\ c \in Elements(batch) BY <3>2 DEF CallsRun, Over
    <3>6. \A d \in CallIds : cards'[d] = IF d = c THEN "closed" ELSE cards[d] BY <3>3 DEF CardsTyped
    <3>7. c \in seen BY <3>5 DEF BatchShape
    <3>8. QED BY <2>1, <3>4, <3>5, <3>6, <3>7 DEF CardsTold, Card1, CardPcs
  <2>7. QED BY <2>4, <2>5, <2>6
<1>13. QED BY <1>1, <1>2, <1>3, <1>4, <1>5, <1>6, <1>7, <1>8, <1>9, <1>10, <1>11, <1>12

LEMMA WriteFailsHolds == ASSUME AcpInv, WriteFails PROVE AcpInv'
<1> USE AcpAssumption DEF AcpInv, Typed, Waiting, WriteFails, control, threads, stdio, state, work, counts, past, At, Idle, Cancelled
<1>1. FlagsTyped' BY DEF FlagsTyped
<1>2. QueueTyped' BY DEF QueueTyped, Frames
<1>3. StateTyped' BY DEF StateTyped
<1>4. OpTyped' BY DEF OpTyped, Pcs
<1>5. BatchTyped' BY DEF BatchTyped
<1>6. CallsTyped' BY DEF CallsTyped, Calls, SlotsTaken
<1>7. CardsTyped' BY DEF CardsTyped
<1>8. Conversation' BY DEF FlagsTyped, StateTyped, OpTyped, Conversation, ConversationChains, Pcs, PromptPcs, ModelPcs
<1>9. BatchShape' BY DEF OpTyped, BatchTyped, BatchShape, Elements
<1>10. CallsRun' BY DEF OpTyped, CallsTyped, Calls, FlagsTyped, CallsRun, Over, Elements
<1>11. QueueOwned' BY DEF OpTyped, CallsTyped, Calls, CallsRun, QueueOwned, Owned, OwnedAt, Over, WaitPcs, PromptPcs, Pcs, Responses, Elements
<1>12. CardsTold' BY DEF OpTyped, CallsTyped, Calls, BatchTyped, CardsTyped, CardsTold, Card1, CardPcs, Elements
<1>13. QED BY <1>1, <1>2, <1>3, <1>4, <1>5, <1>6, <1>7, <1>8, <1>9, <1>10, <1>11, <1>12

(* A thread of serveACP moves: nobody waits for less, the queue stays.     *)
LEMMA ThreadMoves ==
  ASSUME AcpInv, FlagsTyped', writer' \in {"waiting", "writing", "over"}, Waiting' \in 0..QueueCap,
         lines' \in Nat, alive' => alive,
         UNCHANGED <<stdio, state, op, work, calls, responses, prompts, past>>
  PROVE  AcpInv'
<1> USE AcpAssumption DEF AcpInv, Typed, stdio, state, work, counts, past, At, Idle
<1>1. FlagsTyped' OBVIOUS
<1>2. QueueTyped' BY DEF QueueTyped, Frames
<1>3. StateTyped' BY DEF StateTyped
<1>4. OpTyped' BY DEF OpTyped, Pcs
<1>5. BatchTyped' BY DEF BatchTyped
<1>6. CallsTyped' BY DEF CallsTyped, Calls, SlotsTaken
<1>7. CardsTyped' BY DEF CardsTyped
<1>8. Conversation' BY DEF FlagsTyped, StateTyped, OpTyped, Conversation, ConversationChains, Pcs, PromptPcs, ModelPcs
<1>9. BatchShape' BY DEF OpTyped, BatchTyped, BatchShape, Elements
<1>10. CallsRun' BY DEF OpTyped, CallsTyped, Calls, FlagsTyped, CallsRun, Over, Elements
<1>11. QueueOwned' BY DEF QueueOwned, Owned
<1>12. CardsTold' BY DEF CardsTold, Card1, CardPcs, Elements
<1>13. QED BY <1>1, <1>2, <1>3, <1>4, <1>5, <1>6, <1>7, <1>8, <1>9, <1>10, <1>11, <1>12

ThreadStep == \/ BeginWrite \/ WriterStops \/ ReadReturns \/ HandOver \/ ReaderStops
              \/ ServeReturns \/ Join

LEMMA ThreadStepHolds == ASSUME AcpInv, ThreadStep PROVE AcpInv'
<1> USE DEF counts, AcpInv, Typed, FlagsTyped, QueueTyped
<1>1. writes \in Seq(Frames) /\ Len(writes) \in Nat /\ (writes # <<>> => Len(writes) > 0)
  BY EmptySeq
<1>2. CASE BeginWrite
  <2>1. Waiting' \in 0..QueueCap
    BY <1>1, <1>2, AcpAssumption DEF BeginWrite, stdio, Waiting
  <2>2. FlagsTyped'
    BY <1>2 DEF BeginWrite, state, work, past
  <2>3. /\ UNCHANGED <<stdio, state, op, work, calls, responses, prompts, past, lines, alive>>
        /\ writer' = "writing"
    BY <1>2 DEF BeginWrite
  <2>4. QED
    BY <2>1, <2>2, <2>3, ThreadMoves
<1>3. CASE ~BeginWrite
  <2>1. /\ UNCHANGED <<stdio, state, op, work, calls, responses, prompts, past>>
        /\ lines' \in Nat /\ (alive' => alive)
    BY <1>3
    DEF ThreadStep, WriterStops, ReadReturns, HandOver, ReaderStops, ServeReturns, Join
  <2>a. FlagsTyped'
    <3>1. /\ loop' \in {"serving", "joining", "returned"} /\ alive' \in BOOLEAN
          /\ reader' \in {"reading", "line", "end", "over"} /\ inbox' \in {"empty", "line", "end"}
      BY <1>3
      DEF ThreadStep, WriterStops, ReadReturns, HandOver, ReaderStops, ServeReturns, Join
    <3>2. QED
      BY <2>1, <3>1 DEF state, work, past
  <2>2. /\ writer' \in {"waiting", "writing", "over"}
        /\ writer' = "writing" <=> writer = "writing"
    BY <1>3
    DEF ThreadStep, WriterStops, ReadReturns, HandOver, ReaderStops, ServeReturns, Join
  <2>3. Waiting' \in 0..QueueCap
    BY <2>1, <2>2 DEF Waiting, stdio
  <2>4. QED
    BY <2>1, <2>a, <2>2, <2>3, ThreadMoves
<1>4. QED BY <1>2, <1>3

LEMMA RepliedHolds == ASSUME AcpInv, NEW key \in Keys \cup {NoKey}, NEW status \in Statuses, Respond(Reply(key, status)), initialized' \in BOOLEAN,
  inbox' \in {"empty", "line", "end"}, UNCHANGED <<threads, done, cards, session, op, work, calls, counts, past>> PROVE AcpInv'
<1> USE AcpAssumption DEF AcpInv, Typed, Waiting, control, threads, stdio, state, work, counts, past, At, Idle, Cancelled, Reply, Frame
<1>0. Reply(key, status) \in Frames /\ Reply(key, status).by = NoOne /\ Reply(key, status).what = "reply"
  BY DEF Frames, QueueTyped
<1>a. QueueTyped' /\ alive' \in BOOLEAN /\ (alive' => alive /\ Put(Reply(key, status)))
  BY <1>0, RespondTyped, Zenon DEF QueueTyped
<1>1. FlagsTyped'
  BY <1>a DEF FlagsTyped
<1>2. QueueTyped'
  BY <1>a
<1>3. StateTyped' BY DEF StateTyped
<1>4. OpTyped' BY DEF OpTyped, Pcs
<1>5. BatchTyped' BY DEF BatchTyped
<1>6. CallsTyped' BY DEF CallsTyped, Calls, SlotsTaken
<1>7. CardsTyped' BY DEF CardsTyped
<1>8. Conversation' BY DEF FlagsTyped, StateTyped, OpTyped, Conversation, ConversationChains, Pcs, PromptPcs, ModelPcs
<1>9. BatchShape' BY DEF OpTyped, BatchTyped, BatchShape, Elements
<1>10. CallsRun' BY DEF OpTyped, CallsTyped, Calls, FlagsTyped, CallsRun, Over, Elements
<1>11. QueueOwned'
  <2>1. SUFFICES ASSUME alive' PROVE QueueOwned' BY DEF QueueOwned
  <2>2. \A g : Owned(g) => OwnedAt(g, op', calls', batch', prompts') BY DEF Owned
  <2>3. OwnedAt(Reply(key, status), op', calls', batch', prompts')
    BY <1>0 DEF OwnedAt, Responses, Me, NoOne
  <2>4. NoOne \notin done BY DEF QueueTyped, Senders, Me, NoOne
  <2>5. QED BY <1>0, <1>a, <2>1, <2>2, <2>3, <2>4, PutOwned DEF QueueOwned
<1>12. CardsTold'
  <2>1. CASE alive' BY <1>a, <2>1 DEF CardsTold, Card1, CardPcs, Elements
  <2>2. CASE ~alive' BY <2>2 DEF CardsTold
  <2>3. QED BY <2>1, <2>2
<1>13. QED BY <1>1, <1>2, <1>3, <1>4, <1>5, <1>6, <1>7, <1>8, <1>9, <1>10, <1>11, <1>12

LEMMA AnsweredHolds == ASSUME AcpInv, NEW key \in Keys \cup {NoKey}, NEW status \in Statuses, NextLine, AnswerAtOnce(key, status) PROVE AcpInv'
<1>1. inbox' \in {"empty", "line", "end"} /\ initialized' \in BOOLEAN
  BY DEF NextLine, AnswerAtOnce, AcpInv, Typed, QueueTyped, FlagsTyped, state
<1>2. QED BY <1>1, RepliedHolds DEF AnswerAtOnce, state

LEMMA AcceptNothingHolds == ASSUME AcpInv, AcceptNothing PROVE AcpInv'
<1>1. FlagsTyped' /\ writer' \in {"waiting", "writing", "over"} /\ lines' \in Nat
  BY DEF AcceptNothing, NextLine, AcpInv, Typed, FlagsTyped, QueueTyped, threads, counts, state, work, past
<1>2. Waiting' \in 0..QueueCap
  BY DEF AcceptNothing, AcpInv, Typed, QueueTyped, Waiting, threads, stdio
<1>3. QED
  BY <1>1, <1>2, ThreadMoves DEF AcceptNothing, counts

LEMMA AcceptGarbageHolds == ASSUME AcpInv, AcceptGarbage PROVE AcpInv'
<1>1. NoKey \in Keys \cup {NoKey} /\ "error" \in Statuses BY DEF Statuses
<1>2. QED BY <1>1, AnsweredHolds DEF AcceptGarbage

LEMMA AcceptCollisionHolds == ASSUME AcpInv, NEW key \in Keys, AcceptCollision(key) PROVE AcpInv'
<1> USE AcpAssumption DEF AcpInv, Typed, Waiting, AcceptCollision, control, threads, stdio, state, work, counts, past, At, Idle, Cancelled, NextLine, Collides
<1>1. FlagsTyped' BY DEF FlagsTyped
<1>2. QueueTyped' BY DEF QueueTyped, Frames
<1>3. StateTyped' BY DEF StateTyped
<1>4. OpTyped' BY DEF OpTyped, Pcs
<1>5. BatchTyped' BY DEF BatchTyped
<1>6. CallsTyped' BY DEF CallsTyped, Calls, SlotsTaken
<1>7. CardsTyped' BY DEF CardsTyped
<1>8. Conversation' BY DEF FlagsTyped, StateTyped, OpTyped, Conversation, ConversationChains, Pcs, PromptPcs, ModelPcs
<1>9. BatchShape' BY DEF OpTyped, BatchTyped, BatchShape, Elements
<1>10. CallsRun' BY DEF OpTyped, CallsTyped, Calls, FlagsTyped, CallsRun, Over, Elements
<1>11. QueueOwned' BY DEF OpTyped, CallsTyped, Calls, CallsRun, QueueOwned, Owned, OwnedAt, Over, WaitPcs, PromptPcs, Pcs, Responses, Elements
<1>12. CardsTold' BY DEF OpTyped, CallsTyped, Calls, BatchTyped, CardsTyped, CardsTold, Card1, CardPcs, Elements
<1>13. QED BY <1>1, <1>2, <1>3, <1>4, <1>5, <1>6, <1>7, <1>8, <1>9, <1>10, <1>11, <1>12

LEMMA AcceptInitializeHolds == ASSUME AcpInv, NEW key \in Keys, NEW valid \in BOOLEAN, AcceptInitialize(key, valid) PROVE AcpInv'
<1>1. "error" \in Statuses /\ "initialized" \in Statuses BY DEF Statuses
<1>2. CASE initialized \/ ~valid BY <1>1, <1>2, AnsweredHolds DEF AcceptInitialize
<1>3. CASE ~(initialized \/ ~valid)
  <2>1. inbox' \in {"empty", "line", "end"} BY DEF AcceptInitialize, NextLine
  <2>2. QED BY <1>1, <1>3, <2>1, RepliedHolds DEF AcceptInitialize
<1>4. QED BY <1>2, <1>3

LEMMA AcceptUnsupportedHolds == ASSUME AcpInv, NEW key \in Keys, AcceptUnsupported(key) PROVE AcpInv'
<1>1. "error" \in Statuses BY DEF Statuses
<1>2. QED BY <1>1, AnsweredHolds DEF AcceptUnsupported

LEMMA SessionStartsHolds == ASSUME AcpInv, NEW key \in Keys, NextLine, Idle, op' = NewOperation(key, "handshake"),
  UNCHANGED <<alive, threads, stdio, state, work, calls, counts, past>> PROVE AcpInv'
<1> USE AcpAssumption DEF AcpInv, Typed, Waiting, control, threads, stdio, state, work, counts, past, At, Idle, Cancelled, NextLine, NewOperation
<1>1. FlagsTyped' BY DEF FlagsTyped
<1>2. QueueTyped' BY DEF QueueTyped, Frames
<1>3. StateTyped' BY DEF StateTyped
<1>4. OpTyped' BY DEF OpTyped, Pcs
<1>5. BatchTyped' BY DEF BatchTyped
<1>6. CallsTyped' BY DEF CallsTyped, Calls, SlotsTaken
<1>7. CardsTyped' BY DEF CardsTyped
<1>8. Conversation' BY DEF FlagsTyped, StateTyped, OpTyped, Conversation, ConversationChains, Pcs, PromptPcs, ModelPcs
<1>9. BatchShape' BY DEF OpTyped, BatchTyped, BatchShape, Elements
<1>10. CallsRun' BY DEF OpTyped, CallsTyped, Calls, FlagsTyped, CallsRun, Over, Elements
<1>11. QueueOwned' BY DEF OpTyped, CallsTyped, Calls, CallsRun, QueueOwned, Owned, OwnedAt, Over, WaitPcs, PromptPcs, Pcs, Responses, Elements
<1>12. CardsTold' BY DEF OpTyped, CallsTyped, Calls, BatchTyped, CardsTyped, CardsTold, Card1, CardPcs, Elements
<1>13. QED BY <1>1, <1>2, <1>3, <1>4, <1>5, <1>6, <1>7, <1>8, <1>9, <1>10, <1>11, <1>12

LEMMA AcceptNewSessionHolds == ASSUME AcpInv, NEW key \in Keys, NEW valid \in BOOLEAN, AcceptNewSession(key, valid) PROVE AcpInv'
<1>1. "error" \in Statuses BY DEF Statuses
<1>2. CASE ~initialized \/ session.open \/ ~Idle \/ ~valid BY <1>1, <1>2, AnsweredHolds DEF AcceptNewSession
<1>3. CASE ~(~initialized \/ session.open \/ ~Idle \/ ~valid)
  BY <1>3, SessionStartsHolds DEF AcceptNewSession
<1>4. QED BY <1>2, <1>3

LEMMA PromptStartsHolds == ASSUME AcpInv, NEW key \in Keys, NextLine, Idle, ~session.poisoned, prompts' = prompts + 1, op' = NewOperation(key, "discover"),
  request' = [NoRequest EXCEPT !.previous = session.previous], seen' = {}, batch' = <<>>,
  revoked' = FALSE, failed' = FALSE, calls' = [c \in CallIds |-> NoCall],
  cards' = [c \in CallIds |-> "none"], heard' = Unheard,
  UNCHANGED <<alive, threads, writes, done, state, lines, responses, ended, spoiled>> PROVE AcpInv'
<1> USE AcpAssumption DEF AcpInv, Typed, Waiting, control, threads, stdio, state, work, counts, past, At, Idle, Cancelled, NextLine, NewOperation, NoRequest, NoCall, Unheard
<1>1. FlagsTyped' BY DEF FlagsTyped
<1>2. QueueTyped'
  <2>1. Frames \subseteq Frames' BY DEF Frames, QueueTyped
  <2>2. writes \in Seq(Frames') BY <2>1, SeqMonotonic DEF QueueTyped
  <2>3. QED BY <2>2 DEF QueueTyped
<1>3. StateTyped'
  <2>1. session.previous \in 0..responses /\ responses \in Nat /\ 0 \in 0..MaxRounds BY DEF StateTyped
  <2>2. request' = [previous |-> session.previous, outputs |-> {}, round |-> 0]
    OBVIOUS
  <2>3. request' \in [previous : 0..responses, outputs : SUBSET CallIds, round : 0..MaxRounds] BY <2>1, <2>2
  <2>4. heard' \in [id : 0..responses, calls : SUBSET CallIds, final : BOOLEAN] BY <2>1
  <2>5. QED BY <2>3, <2>4 DEF StateTyped
<1>4. OpTyped' BY DEF OpTyped, Pcs
<1>5. BatchTyped'
  <2>1. Cardinality({}) = 0 BY FS_EmptySet
  <2>2. QED BY <2>1 DEF BatchTyped
<1>6. CallsTyped'
  <2>1. SlotsTaken' = 0
    <3>1. {c \in CallIds : calls'[c].slot} = {} OBVIOUS
    <3>2. QED BY <3>1, FS_EmptySet DEF SlotsTaken
  <2>2. NoCall \in Calls BY DEF Calls
  <2>3. QED BY <2>1, <2>2 DEF CallsTyped
<1>7. CardsTyped' BY DEF CardsTyped
<1>8. Conversation' BY DEF FlagsTyped, StateTyped, OpTyped, Conversation, ConversationChains, Pcs, PromptPcs, ModelPcs
<1>9. BatchShape' BY DEF OpTyped, BatchTyped, BatchShape, Elements
<1>10. CallsRun' BY DEF OpTyped, CallsTyped, Calls, FlagsTyped, CallsRun, Over, Elements
<1>11. QueueOwned'
  <2>1. SUFFICES ASSUME alive PROVE QueueOwned' BY DEF QueueOwned
  <2>2. \A i \in 1..Len(writes) : writes[i] \in Frames BY ElementOfSeq DEF QueueTyped
  <2>3. \A g \in Frames : Owned(g) => OwnedAt(g, op', calls', batch', prompts')
    <3>1. SUFFICES ASSUME NEW g \in Frames, Owned(g) PROVE OwnedAt(g, op', calls', batch', prompts')
      OBVIOUS
    <3>2. g.by # Me /\ g.by \notin CallIds BY <3>1 DEF Owned, OwnedAt, CallsRun, Over
    <3>3. g.what \in Responses /\ g.by = NoOne BY <3>1, <3>2 DEF Owned, OwnedAt, Senders
    <3>4. g.prompt # prompts' BY <3>1 DEF Frames, QueueTyped
    <3>5. QED BY <3>2, <3>3, <3>4 DEF OwnedAt
  <2>4. QED BY <2>1, <2>2, <2>3 DEF QueueOwned, Owned, CallsRun, Over, WaitPcs
<1>12. CardsTold' BY DEF OpTyped, CallsTyped, Calls, BatchTyped, CardsTyped, CardsTold, Card1, CardPcs, Elements
<1>13. QED BY <1>1, <1>2, <1>3, <1>4, <1>5, <1>6, <1>7, <1>8, <1>9, <1>10, <1>11, <1>12

LEMMA AcceptPromptHolds == ASSUME AcpInv, NEW key \in Keys, NEW valid \in BOOLEAN, AcceptPrompt(key, valid) PROVE AcpInv'
<1>1. "error" \in Statuses BY DEF Statuses
<1>2. CASE ~valid \/ ~session.open \/ session.poisoned \/ ~Idle
  BY <1>1, <1>2, AnsweredHolds DEF AcceptPrompt
<1>3. CASE ~(~valid \/ ~session.open \/ session.poisoned \/ ~Idle)
  BY <1>3, PromptStartsHolds DEF AcceptPrompt
<1>4. QED BY <1>2, <1>3

LEMMA AcceptCancelHolds == ASSUME AcpInv, NEW named \in Keys \cup {NoKey}, AcceptCancel(named) PROVE AcpInv'
<1> USE AcpAssumption DEF AcpInv, Typed, Waiting, AcceptCancel, control, threads, stdio, state, work, counts, past, At, Idle, Cancelled, NextLine
<1>1. FlagsTyped' BY DEF FlagsTyped
<1>2. QueueTyped' BY DEF QueueTyped, Frames
<1>3. StateTyped' BY DEF StateTyped
<1>4. OpTyped' BY DEF OpTyped, Pcs
<1>5. BatchTyped' BY DEF BatchTyped
<1>6. CallsTyped' BY DEF CallsTyped, Calls, SlotsTaken
<1>7. CardsTyped' BY DEF CardsTyped
<1>8. Conversation' BY DEF FlagsTyped, StateTyped, OpTyped, Conversation, ConversationChains, Pcs, PromptPcs, ModelPcs
<1>9. BatchShape' BY DEF OpTyped, BatchTyped, BatchShape, Elements
<1>10. CallsRun' BY DEF OpTyped, CallsTyped, Calls, FlagsTyped, CallsRun, Over, Elements
<1>11. QueueOwned' BY DEF OpTyped, CallsTyped, Calls, CallsRun, QueueOwned, Owned, OwnedAt, Over, WaitPcs, PromptPcs, Pcs, Responses, Elements
<1>12. CardsTold' BY DEF OpTyped, CallsTyped, Calls, BatchTyped, CardsTyped, CardsTold, Card1, CardPcs, Elements
<1>13. QED BY <1>1, <1>2, <1>3, <1>4, <1>5, <1>6, <1>7, <1>8, <1>9, <1>10, <1>11, <1>12

LEMMA HandshakeHolds == ASSUME AcpInv, NEW ok \in BOOLEAN, Handshake(ok) PROVE AcpInv'
<1> USE AcpAssumption DEF AcpInv, Typed, Waiting, Handshake, control, threads, stdio, state, work, counts, past, At, Idle, Cancelled, GoesTo, Aborts
<1>1. FlagsTyped' BY DEF FlagsTyped
<1>2. QueueTyped' BY DEF QueueTyped, Frames
<1>3. StateTyped' BY DEF StateTyped
<1>4. OpTyped' BY DEF OpTyped, Pcs
<1>5. BatchTyped' BY DEF BatchTyped
<1>6. CallsTyped' BY DEF CallsTyped, Calls, SlotsTaken
<1>7. CardsTyped' BY DEF CardsTyped
<1>8. Conversation' BY DEF FlagsTyped, StateTyped, OpTyped, Conversation, ConversationChains, Pcs, PromptPcs, ModelPcs
<1>9. BatchShape' BY DEF OpTyped, BatchTyped, BatchShape, Elements
<1>10. CallsRun' BY DEF OpTyped, CallsTyped, Calls, FlagsTyped, CallsRun, Over, Elements
<1>11. QueueOwned' BY DEF OpTyped, CallsTyped, Calls, CallsRun, QueueOwned, Owned, OwnedAt, Over, WaitPcs, PromptPcs, Pcs, Responses, Elements
<1>12. CardsTold' BY DEF OpTyped, CallsTyped, Calls, BatchTyped, CardsTyped, CardsTold, Card1, CardPcs, Elements
<1>13. QED BY <1>1, <1>2, <1>3, <1>4, <1>5, <1>6, <1>7, <1>8, <1>9, <1>10, <1>11, <1>12

LEMMA OpenedHolds == ASSUME AcpInv, NEW status \in Statuses, At("open"), Respond(Answer(op.key, status)), op' = IdleOperation,
  session' \in {session, [session EXCEPT !.open = TRUE]},
  UNCHANGED <<threads, inbox, done, cards, initialized, work, calls, counts, past>> PROVE AcpInv'
<1> USE AcpAssumption DEF AcpInv, Typed, Waiting, control, threads, stdio, state, work, counts, past, At, Idle, Cancelled, IdleOperation, NewOperation, Answer, Frame
<1>0. /\ Answer(op.key, status) \in Frames /\ Answer(op.key, status).by = NoOne
      /\ Answer(op.key, status).what = "answer"
  BY DEF Frames, QueueTyped, OpTyped
<1>a. QueueTyped' /\ alive' \in BOOLEAN /\ (alive' => alive /\ Put(Answer(op.key, status)))
  BY <1>0, RespondTyped, Zenon DEF QueueTyped
<1>1. FlagsTyped'
  BY <1>a DEF FlagsTyped
<1>2. QueueTyped'
  BY <1>a
<1>3. StateTyped' BY DEF StateTyped
<1>4. OpTyped'
  <2>1. "idle" \in Pcs /\ 0 \in 0..MaxChunks BY DEF Pcs
  <2>2. QED BY <2>1 DEF OpTyped
<1>5. BatchTyped' BY DEF BatchTyped
<1>6. CallsTyped' BY DEF CallsTyped, Calls, SlotsTaken
<1>7. CardsTyped' BY DEF CardsTyped
<1>8. Conversation' BY DEF FlagsTyped, StateTyped, OpTyped, Conversation, ConversationChains, Pcs, PromptPcs, ModelPcs
<1>9. BatchShape' BY DEF OpTyped, BatchTyped, BatchShape, Elements
<1>10. CallsRun' BY DEF OpTyped, CallsTyped, Calls, FlagsTyped, CallsRun, Over, Elements
<1>11. QueueOwned'
  <2>1. SUFFICES ASSUME alive' PROVE QueueOwned' BY DEF QueueOwned
  <2>2. \A g : Owned(g) => OwnedAt(g, op', calls', batch', prompts')
    BY DEF Owned, OwnedAt, PromptPcs, OpTyped
  <2>3. OwnedAt(Answer(op.key, status), op', calls', batch', prompts')
    BY <1>0 DEF OwnedAt, Responses, PromptPcs, Me, NoOne, OpTyped
  <2>4. NoOne \notin done BY DEF QueueTyped, Senders, Me, NoOne
  <2>5. QED BY <1>0, <1>a, <2>1, <2>2, <2>3, <2>4, PutOwned DEF QueueOwned, WaitPcs
<1>12. CardsTold'
  BY <1>a DEF OpTyped, CallsTyped, Calls, BatchTyped, CardsTyped, CardsTold, Card1, CardPcs, Elements
<1>13. QED BY <1>1, <1>2, <1>3, <1>4, <1>5, <1>6, <1>7, <1>8, <1>9, <1>10, <1>11, <1>12

LEMMA OpenSessionHolds == ASSUME AcpInv, OpenSession PROVE AcpInv'
<1>1. "error" \in Statuses /\ "opened" \in Statuses BY DEF Statuses
<1>2. CASE op.error \/ Cancelled BY <1>1, <1>2, OpenedHolds DEF OpenSession, state
<1>3. CASE ~(op.error \/ Cancelled) BY <1>1, <1>3, OpenedHolds DEF OpenSession, state
<1>4. QED BY <1>2, <1>3

LEMMA AbortHolds == ASSUME AcpInv, NEW ok \in BOOLEAN, op.pc \in {"discover", "round", "model", "text"}, Aborts, UNCHANGED <<control, stdio, state, work, calls, counts, past>> PROVE AcpInv'
<1> USE AcpAssumption DEF AcpInv, Typed, Waiting, control, threads, stdio, state, work, counts, past, At, Idle, Cancelled, GoesTo, Aborts
<1>1. FlagsTyped' BY DEF FlagsTyped
<1>2. QueueTyped' BY DEF QueueTyped, Frames
<1>3. StateTyped' BY DEF StateTyped
<1>4. OpTyped' BY DEF OpTyped, Pcs
<1>5. BatchTyped' BY DEF BatchTyped
<1>6. CallsTyped' BY DEF CallsTyped, Calls, SlotsTaken
<1>7. CardsTyped' BY DEF CardsTyped
<1>8. Conversation' BY DEF FlagsTyped, StateTyped, OpTyped, Conversation, ConversationChains, Pcs, PromptPcs, ModelPcs
<1>9. BatchShape' BY DEF OpTyped, BatchTyped, BatchShape, Elements
<1>10. CallsRun' BY DEF OpTyped, CallsTyped, Calls, FlagsTyped, CallsRun, Over, Elements
<1>11. QueueOwned'
  <2>1. \A g : Owned(g) => OwnedAt(g, op', calls', batch', prompts')
    BY DEF OpTyped, Owned, OwnedAt, PromptPcs, Pcs
  <2>2. op.pc \notin WaitPcs /\ op'.pc = "finish" BY DEF OpTyped, WaitPcs
  <2>3. QED BY <2>1, <2>2 DEF QueueOwned, Owned
<1>12. CardsTold' BY DEF OpTyped, CallsTyped, Calls, BatchTyped, CardsTyped, CardsTold, Card1, CardPcs, Elements
<1>13. QED BY <1>1, <1>2, <1>3, <1>4, <1>5, <1>6, <1>7, <1>8, <1>9, <1>10, <1>11, <1>12

LEMMA DiscoveredHolds == ASSUME AcpInv, NEW ok \in BOOLEAN, At("discover"), GoesTo("round"), UNCHANGED <<control, stdio, state, work, calls, counts, past>> PROVE AcpInv'
<1> USE AcpAssumption DEF AcpInv, Typed, Waiting, control, threads, stdio, state, work, counts, past, At, Idle, Cancelled, GoesTo, Aborts
<1>1. FlagsTyped' BY DEF FlagsTyped
<1>2. QueueTyped' BY DEF QueueTyped, Frames
<1>3. StateTyped' BY DEF StateTyped
<1>4. OpTyped' BY DEF OpTyped, Pcs
<1>5. BatchTyped' BY DEF BatchTyped
<1>6. CallsTyped' BY DEF CallsTyped, Calls, SlotsTaken
<1>7. CardsTyped' BY DEF CardsTyped
<1>8. Conversation' BY DEF FlagsTyped, StateTyped, OpTyped, Conversation, ConversationChains, Pcs, PromptPcs, ModelPcs
<1>9. BatchShape' BY DEF OpTyped, BatchTyped, BatchShape, Elements
<1>10. CallsRun' BY DEF OpTyped, CallsTyped, Calls, FlagsTyped, CallsRun, Over, Elements
<1>11. QueueOwned' BY DEF OpTyped, CallsTyped, Calls, CallsRun, QueueOwned, Owned, OwnedAt, Over, WaitPcs, PromptPcs, Pcs, Responses, Elements
<1>12. CardsTold' BY DEF OpTyped, CallsTyped, Calls, BatchTyped, CardsTyped, CardsTold, Card1, CardPcs, Elements
<1>13. QED BY <1>1, <1>2, <1>3, <1>4, <1>5, <1>6, <1>7, <1>8, <1>9, <1>10, <1>11, <1>12

LEMMA DiscoverHolds == ASSUME AcpInv, NEW ok \in BOOLEAN, Discover(ok) PROVE AcpInv'
BY AbortHolds, DiscoveredHolds DEF Discover, At

LEMMA RoundBeginsHolds == ASSUME AcpInv, At("round"), ~Cancelled, request.round < MaxRounds, GoesTo("model"),
  request' = [request EXCEPT !.round = @ + 1], UNCHANGED <<control, stdio, state, seen, batch, revoked, failed, calls, counts, past>> PROVE AcpInv'
<1> USE AcpAssumption DEF AcpInv, Typed, Waiting, control, threads, stdio, state, work, counts, past, At, Idle, Cancelled, GoesTo, Aborts
<1>1. FlagsTyped' BY DEF FlagsTyped
<1>2. QueueTyped' BY DEF QueueTyped, Frames
<1>3. StateTyped' BY DEF StateTyped
<1>4. OpTyped' BY DEF OpTyped, Pcs
<1>5. BatchTyped' BY DEF BatchTyped
<1>6. CallsTyped' BY DEF CallsTyped, Calls, SlotsTaken
<1>7. CardsTyped' BY DEF CardsTyped
<1>8. Conversation' BY DEF FlagsTyped, StateTyped, OpTyped, Conversation, ConversationChains, Pcs, PromptPcs, ModelPcs
<1>9. BatchShape' BY DEF OpTyped, BatchTyped, BatchShape, Elements
<1>10. CallsRun' BY DEF OpTyped, CallsTyped, Calls, FlagsTyped, CallsRun, Over, Elements
<1>11. QueueOwned' BY DEF OpTyped, CallsTyped, Calls, CallsRun, QueueOwned, Owned, OwnedAt, Over, WaitPcs, PromptPcs, Pcs, Responses, Elements
<1>12. CardsTold' BY DEF OpTyped, CallsTyped, Calls, BatchTyped, CardsTyped, CardsTold, Card1, CardPcs, Elements
<1>13. QED BY <1>1, <1>2, <1>3, <1>4, <1>5, <1>6, <1>7, <1>8, <1>9, <1>10, <1>11, <1>12

LEMMA BeginRoundHolds == ASSUME AcpInv, BeginRound PROVE AcpInv'
<1>1. request.round \in 0..MaxRounds BY DEF AcpInv, Typed, StateTyped
<1>2. CASE Cancelled \/ request.round = MaxRounds
  BY <1>2, AbortHolds DEF BeginRound, At, work
<1>3. CASE ~(Cancelled \/ request.round = MaxRounds)
  BY <1>1, <1>3, RoundBeginsHolds, AcpAssumption DEF BeginRound
<1>4. QED BY <1>2, <1>3

LEMMA ModelEndsHolds == ASSUME AcpInv, NEW asked \in Batches, NEW chunks \in 0..MaxChunks, At("model"), asked = <<>>, op.chunks + chunks <= MaxChunks, responses' = responses + 1,
  heard' = [id |-> responses + 1, calls |-> {}, final |-> TRUE],
  op' = [op EXCEPT !.pc = "text", !.at = 0, !.chunks = @ + chunks],
  batch' = asked,
  UNCHANGED <<control, stdio, state, request, seen, revoked, failed, calls, lines, prompts, ended, spoiled>> PROVE AcpInv'
<1> USE AcpAssumption DEF AcpInv, Typed, Waiting, control, threads, stdio, state, work, counts, past, At, Idle, Cancelled
<1>0. /\ op' \in [pc : Pcs, key : Keys \cup {NoKey}, cancelled : BOOLEAN,
                  error : BOOLEAN, at : Nat, chunks : 0..MaxChunks]
      /\ op'.pc = "text" /\ op'.key = op.key
  <2>1. op.chunks + chunks \in 0..MaxChunks /\ "text" \in Pcs BY DEF OpTyped, Pcs
  <2>2. QED BY <2>1 DEF OpTyped
<1>a. batch' = <<>> /\ Len(batch') = 0 /\ batch' \in Seq(CallIds) BY EmptySeq
<1>1. FlagsTyped' BY DEF FlagsTyped
<1>2. QueueTyped' BY DEF QueueTyped, Frames
<1>3. StateTyped'
 BY ResponseTyped
<1>4. OpTyped'
  BY <1>0 DEF OpTyped
<1>5. BatchTyped'
  BY <1>a DEF BatchTyped
<1>6. CallsTyped' BY DEF CallsTyped, Calls, SlotsTaken
<1>7. CardsTyped' BY DEF CardsTyped
<1>8. Conversation'
  BY <1>0 DEF FlagsTyped, StateTyped, OpTyped, Conversation, ConversationChains, Pcs, PromptPcs, ModelPcs
<1>9. BatchShape'
  BY <1>0, <1>a DEF BatchShape, Elements
<1>10. CallsRun'
  BY <1>0 DEF OpTyped, CallsTyped, Calls, FlagsTyped, CallsRun, Over, Elements
<1>11. QueueOwned' BY DEF OpTyped, CallsTyped, Calls, CallsRun, QueueOwned, Owned, OwnedAt, Over, WaitPcs, PromptPcs, Pcs, Responses, Elements
<1>12. CardsTold'
  BY <1>0, <1>a DEF OpTyped, CallsTyped, Calls, BatchTyped, CardsTyped, CardsTold, Card1, CardPcs, Elements
<1>13. QED BY <1>1, <1>2, <1>3, <1>4, <1>5, <1>6, <1>7, <1>8, <1>9, <1>10, <1>11, <1>12

LEMMA ModelRefusedHolds == ASSUME AcpInv, NEW asked \in Batches, At("model"), Aborts, responses' = responses + 1,
  heard' = [id |-> responses + 1, calls |-> Elements(asked), final |-> asked = <<>>],
  UNCHANGED <<control, stdio, state, work, calls, lines, prompts, ended, spoiled>> PROVE AcpInv'
<1> USE AcpAssumption DEF AcpInv, Typed, Waiting, control, threads, stdio, state, work, counts, past, At, Idle, Cancelled, Aborts
<1>0. Elements(asked) \subseteq CallIds BY BatchesAreSequences
<1>1. FlagsTyped' BY DEF FlagsTyped
<1>2. QueueTyped' BY DEF QueueTyped, Frames
<1>3. StateTyped'
 BY <1>0, ResponseTyped
<1>4. OpTyped' BY DEF OpTyped, Pcs
<1>5. BatchTyped' BY DEF BatchTyped
<1>6. CallsTyped' BY DEF CallsTyped, Calls, SlotsTaken
<1>7. CardsTyped' BY DEF CardsTyped
<1>8. Conversation' BY DEF FlagsTyped, StateTyped, OpTyped, Conversation, ConversationChains, Pcs, PromptPcs, ModelPcs
<1>9. BatchShape' BY DEF OpTyped, BatchTyped, BatchShape, Elements
<1>10. CallsRun' BY DEF OpTyped, CallsTyped, Calls, FlagsTyped, CallsRun, Over, Elements
<1>11. QueueOwned' BY DEF OpTyped, CallsTyped, Calls, CallsRun, QueueOwned, Owned, OwnedAt, Over, WaitPcs, PromptPcs, Pcs, Responses, Elements
<1>12. CardsTold' BY DEF OpTyped, CallsTyped, Calls, BatchTyped, CardsTyped, CardsTold, Card1, CardPcs, Elements
<1>13. QED BY <1>1, <1>2, <1>3, <1>4, <1>5, <1>6, <1>7, <1>8, <1>9, <1>10, <1>11, <1>12

LEMMA ModelAsksHolds == ASSUME AcpInv, NEW asked \in Batches, NEW chunks \in 0..MaxChunks, At("model"), asked # <<>>, Admissible(asked), op.chunks + chunks <= MaxChunks, responses' = responses + 1,
  heard' = [id |-> responses + 1, calls |-> Elements(asked), final |-> FALSE],
  op' = [op EXCEPT !.pc = "announce", !.at = 0, !.chunks = @ + chunks],
  seen' = seen \cup Elements(asked), batch' = asked,
  UNCHANGED <<control, stdio, state, request, revoked, failed, calls, lines, prompts, ended, spoiled>> PROVE AcpInv'
<1> USE AcpAssumption DEF AcpInv, Typed, Waiting, control, threads, stdio, state, work, counts, past, At, Idle, Cancelled
<1>0. /\ op' \in [pc : Pcs, key : Keys \cup {NoKey}, cancelled : BOOLEAN,
                  error : BOOLEAN, at : Nat, chunks : 0..MaxChunks]
      /\ op'.pc = "announce" /\ op'.at = 0 /\ op'.key = op.key
  <2>1. op.chunks + chunks \in 0..MaxChunks /\ "announce" \in Pcs BY DEF OpTyped, Pcs
  <2>2. QED BY <2>1 DEF OpTyped
<1>a. /\ batch' \in Seq(CallIds) /\ Len(batch') \in Nat /\ DOMAIN batch' = 1..Len(batch')
      /\ Elements(asked) \subseteq CallIds /\ Elements(batch') = Elements(asked)
  BY BatchesAreSequences
<1>b. Elements(asked) \cap seen = {} BY DEF Admissible
<1>1. FlagsTyped' BY DEF FlagsTyped
<1>2. QueueTyped' BY DEF QueueTyped, Frames
<1>3. StateTyped'
 BY <1>a, ResponseTyped
<1>4. OpTyped'
  BY <1>0 DEF OpTyped
<1>5. BatchTyped'
  <2>1. IsFiniteSet(seen) /\ IsFiniteSet(Elements(asked)) BY <1>a, FS_Subset DEF BatchTyped
  <2>2. Cardinality(seen \cap Elements(asked)) = 0
    <3>1. seen \cap Elements(asked) = {} BY <1>b
    <3>2. QED BY <3>1, FS_EmptySet
  <2>3. Cardinality(seen \cup Elements(asked)) =
          Cardinality(seen) + Cardinality(Elements(asked)) - Cardinality(seen \cap Elements(asked))
    BY <2>1, FS_Union
  <2>4. Cardinality(seen) \in Nat /\ Cardinality(Elements(asked)) \in Nat BY <2>1, FS_CardinalityType
  <2>5. Cardinality(seen) + Cardinality(Elements(asked)) <= MaxCalls BY DEF Admissible
  <2>6. Cardinality(seen') <= MaxCalls BY <2>2, <2>3, <2>4, <2>5
  <2>7. QED BY <1>a, <2>6 DEF BatchTyped
<1>6. CallsTyped' BY DEF CallsTyped, Calls, SlotsTaken
<1>7. CardsTyped' BY DEF CardsTyped
<1>8. Conversation'
  BY <1>0, <1>a DEF FlagsTyped, StateTyped, OpTyped, Conversation, Pcs, PromptPcs, ModelPcs, Elements
<1>9. BatchShape'
  <2>1. Cardinality(Elements(asked)) = Len(asked) /\ asked \in Seq(CallIds) BY <1>a DEF Admissible
  <2>2. \A i, j \in 1..Len(asked) : asked[i] = asked[j] => i = j BY <2>1, DistinctCalls
  <2>3. QED BY <1>0, <1>a, <2>2 DEF BatchShape, Elements
<1>10. CallsRun'
  BY <1>0 DEF OpTyped, CallsTyped, Calls, FlagsTyped, CallsRun, Over, Elements
<1>11. QueueOwned' BY DEF OpTyped, CallsTyped, Calls, CallsRun, QueueOwned, Owned, OwnedAt, Over, WaitPcs, PromptPcs, Pcs, Responses, Elements
<1>12. CardsTold'
  <2>1. SUFFICES ASSUME alive PROVE CardsTold' BY DEF CardsTold
  <2>2. \A c \in Elements(asked) : cards[c] = "none" BY <1>a, <1>b, <2>1 DEF CardsTold
  <2>3. \A i \in 1..Len(batch') : batch'[i] \in Elements(asked) BY <1>a DEF Elements
  <2>4. \A c \in CallIds : cards[c] # "open" BY <2>1 DEF CardsTold, CardPcs
  <2>5. \A i \in 1..Len(batch') : Card1(i)' BY <1>0, <2>2, <2>3 DEF Card1
  <2>6. Elements(batch)' = Elements(asked) BY DEF Elements
  <2>7. QED BY <1>0, <2>1, <2>4, <2>5, <2>6 DEF CardsTold, CardPcs
<1>13. QED BY <1>1, <1>2, <1>3, <1>4, <1>5, <1>6, <1>7, <1>8, <1>9, <1>10, <1>11, <1>12

LEMMA ModelAnswersHolds == ASSUME AcpInv, NEW asked \in Batches, NEW chunks \in 0..MaxChunks, NEW wellFormed \in BOOLEAN, ModelAnswers(asked, chunks, wellFormed) PROVE AcpInv'
<1>1. CASE asked = <<>>
  <2>1. Elements(asked) = {} BY <1>1, EmptySeq DEF Elements
  <2>2. QED BY <1>1, <2>1, ModelEndsHolds DEF ModelAnswers
<1>2. CASE asked # <<>> /\ ~(wellFormed /\ Admissible(asked))
  BY <1>2, ModelRefusedHolds DEF ModelAnswers, work
<1>3. CASE asked # <<>> /\ wellFormed /\ Admissible(asked)
  BY <1>3, ModelAsksHolds DEF ModelAnswers
<1>4. QED BY <1>1, <1>2, <1>3

LEMMA ModelFailsHolds == ASSUME AcpInv, ModelFails PROVE AcpInv'
<1> USE AcpAssumption DEF AcpInv, Typed, Waiting, ModelFails, control, threads, stdio, state, work, counts, past, At, Idle, Cancelled, GoesTo, Aborts
<1>1. FlagsTyped' BY DEF FlagsTyped
<1>2. QueueTyped' BY DEF QueueTyped, Frames
<1>3. StateTyped' BY DEF StateTyped
<1>4. OpTyped' BY DEF OpTyped, Pcs
<1>5. BatchTyped' BY DEF BatchTyped
<1>6. CallsTyped' BY DEF CallsTyped, Calls, SlotsTaken
<1>7. CardsTyped' BY DEF CardsTyped
<1>8. Conversation' BY DEF FlagsTyped, StateTyped, OpTyped, Conversation, ConversationChains, Pcs, PromptPcs, ModelPcs
<1>9. BatchShape' BY DEF OpTyped, BatchTyped, BatchShape, Elements
<1>10. CallsRun' BY DEF OpTyped, CallsTyped, Calls, FlagsTyped, CallsRun, Over, Elements
<1>11. QueueOwned' BY DEF OpTyped, CallsTyped, Calls, CallsRun, QueueOwned, Owned, OwnedAt, Over, WaitPcs, PromptPcs, Pcs, Responses, Elements
<1>12. CardsTold' BY DEF OpTyped, CallsTyped, Calls, BatchTyped, CardsTyped, CardsTold, Card1, CardPcs, Elements
<1>13. QED BY <1>1, <1>2, <1>3, <1>4, <1>5, <1>6, <1>7, <1>8, <1>9, <1>10, <1>11, <1>12

LEMMA PutAbortsHolds == ASSUME AcpInv, op.pc \in {"show", "print"}, Refused \/ Flood, Aborts,
  UNCHANGED <<threads, inbox, done, cards, state, work, calls, counts, past>> PROVE AcpInv'
<1> USE AcpAssumption DEF AcpInv, Typed, Waiting, control, threads, stdio, state, work, counts, past, At, Idle, Cancelled, Refused, Flood, Aborts
<1>1. FlagsTyped' BY DEF FlagsTyped
<1>2. QueueTyped' BY DEF QueueTyped, Frames
<1>3. StateTyped' BY DEF StateTyped
<1>4. OpTyped' BY DEF OpTyped, Pcs
<1>5. BatchTyped' BY DEF BatchTyped
<1>6. CallsTyped' BY DEF CallsTyped, Calls, SlotsTaken
<1>7. CardsTyped' BY DEF CardsTyped
<1>8. Conversation' BY DEF FlagsTyped, StateTyped, OpTyped, Conversation, ConversationChains, Pcs, PromptPcs, ModelPcs
<1>9. BatchShape' BY DEF OpTyped, BatchTyped, BatchShape, Elements
<1>10. CallsRun' BY DEF OpTyped, CallsTyped, Calls, FlagsTyped, CallsRun, Over, Elements
<1>11. QueueOwned' BY DEF OpTyped, CallsTyped, Calls, CallsRun, QueueOwned, Owned, OwnedAt, Over, WaitPcs, PromptPcs, Pcs, Responses, Elements
<1>12. CardsTold' BY DEF OpTyped, CallsTyped, Calls, BatchTyped, CardsTyped, CardsTold, Card1, CardPcs, Elements
<1>13. QED BY <1>1, <1>2, <1>3, <1>4, <1>5, <1>6, <1>7, <1>8, <1>9, <1>10, <1>11, <1>12

LEMMA CardPutHolds == ASSUME AcpInv, At("show"), op.at < Len(batch),
  Put(Card(batch[op.at + 1], "in_progress", Me)), GoesTo("announcing"),
  UNCHANGED <<threads, inbox, done, cards, state, work, calls, counts, past>> PROVE AcpInv'
<1> USE AcpAssumption DEF AcpInv, Typed, Waiting, control, threads, stdio, state, work, counts, past, At, Idle, Cancelled, GoesTo, Card, Frame
<1>0. op.at \in Nat /\ Len(batch) \in Nat /\ op.at + 1 \in 1..Len(batch) /\ batch[op.at + 1] \in CallIds
  BY ElementOfSeq, LenProperties DEF OpTyped, BatchTyped
<1>a. Card(batch[op.at + 1], "in_progress", Me) \in Frames
  BY <1>0 DEF Frames, QueueTyped, Statuses, Senders
<1>b. writes' \in Seq(Frames) /\ Waiting' \in 0..QueueCap /\ alive' = alive
  BY <1>a, PutFits
<1>1. FlagsTyped'
  BY <1>b DEF FlagsTyped
<1>2. QueueTyped'
  BY <1>b DEF QueueTyped, Frames
<1>3. StateTyped' BY DEF StateTyped
<1>4. OpTyped' BY DEF OpTyped, Pcs
<1>5. BatchTyped' BY DEF BatchTyped
<1>6. CallsTyped' BY DEF CallsTyped, Calls, SlotsTaken
<1>7. CardsTyped' BY DEF CardsTyped
<1>8. Conversation' BY DEF FlagsTyped, StateTyped, OpTyped, Conversation, ConversationChains, Pcs, PromptPcs, ModelPcs
<1>9. BatchShape' BY DEF OpTyped, BatchTyped, BatchShape, Elements
<1>10. CallsRun' BY DEF OpTyped, CallsTyped, Calls, FlagsTyped, CallsRun, Over, Elements
<1>11. QueueOwned'
  <2>1. SUFFICES ASSUME alive PROVE QueueOwned' BY <1>b DEF QueueOwned
  <2>2. Me \notin done BY <2>1 DEF QueueOwned, WaitPcs
  <2>3. \A g : Owned(g) => g.by # Me BY DEF Owned, OwnedAt
  <2>4. \A g : Owned(g) => OwnedAt(g, op', calls', batch', prompts')
    BY <2>3 DEF Owned, OwnedAt, PromptPcs, Pcs
  <2>5. op'.pc = "announcing" /\ op'.at = op.at BY DEF OpTyped
  <2>6. OwnedAt(Card(batch[op.at + 1], "in_progress", Me), op', calls', batch', prompts')
    BY <2>5 DEF OwnedAt, Responses, Senders
  <2>7. QED BY <1>a, <2>1, <2>2, <2>3, <2>4, <2>5, <2>6, PutOwned DEF QueueOwned, WaitPcs
<1>12. CardsTold'
  <2>1. SUFFICES ASSUME alive PROVE CardsTold' BY <1>b DEF CardsTold
  <2>2. Me \notin done BY <2>1 DEF QueueOwned, WaitPcs
  <2>3. QED BY <2>1, <2>2 DEF OpTyped, CallsTyped, Calls, BatchTyped, CardsTyped, CardsTold, Card1, CardPcs, Elements
<1>13. QED BY <1>1, <1>2, <1>3, <1>4, <1>5, <1>6, <1>7, <1>8, <1>9, <1>10, <1>11, <1>12

LEMMA AnnounceHolds == ASSUME AcpInv, Announce PROVE AcpInv'
<1> USE AcpAssumption DEF AcpInv, Typed, Waiting, Announce, control, threads, stdio, state, work, counts, past, At, Idle, Cancelled, GoesTo, Aborts
<1>1. FlagsTyped' BY DEF FlagsTyped
<1>2. QueueTyped' BY DEF QueueTyped, Frames
<1>3. StateTyped' BY DEF StateTyped
<1>4. OpTyped' BY DEF OpTyped, Pcs
<1>5. BatchTyped' BY DEF BatchTyped
<1>6. CallsTyped' BY DEF CallsTyped, Calls, SlotsTaken
<1>7. CardsTyped' BY DEF CardsTyped
<1>8. Conversation' BY DEF FlagsTyped, StateTyped, OpTyped, Conversation, ConversationChains, Pcs, PromptPcs, ModelPcs
<1>9. BatchShape' BY DEF OpTyped, BatchTyped, BatchShape, Elements
<1>10. CallsRun' BY DEF OpTyped, CallsTyped, Calls, FlagsTyped, CallsRun, Over, Elements
<1>11. QueueOwned' BY DEF OpTyped, CallsTyped, Calls, CallsRun, QueueOwned, Owned, OwnedAt, Over, WaitPcs, PromptPcs, Pcs, Responses, Elements
<1>12. CardsTold' BY DEF OpTyped, CallsTyped, Calls, BatchTyped, CardsTyped, CardsTold, Card1, CardPcs, Elements
<1>13. QED BY <1>1, <1>2, <1>3, <1>4, <1>5, <1>6, <1>7, <1>8, <1>9, <1>10, <1>11, <1>12

LEMMA ShowHolds == ASSUME AcpInv, Show PROVE AcpInv'
<1>1. At("show") => op.at < Len(batch) BY DEF AcpInv, BatchShape, At
<1>2. QED BY <1>1, PutAbortsHolds, CardPutHolds DEF Show, At

LEMMA GaveUpHolds == ASSUME AcpInv, op.pc \in {"announcing", "printing"}, GivesUp(Me), Aborts,
  UNCHANGED <<control, cards, state, work, calls, counts, past>> PROVE AcpInv'
<1> USE AcpAssumption DEF AcpInv, Typed, Waiting, control, threads, stdio, state, work, counts, past, At, Idle, Cancelled, Aborts
<1>1. FlagsTyped' BY DEF FlagsTyped
<1>2. QueueTyped'
  <2>1. Abandon(Me) \in Seq(Frames) /\ Len(Abandon(Me)) = Len(writes) BY AbandonTyped DEF Senders
  <2>2. QED BY <2>1 DEF QueueTyped, Frames, GivesUp
<1>3. StateTyped' BY DEF StateTyped
<1>4. OpTyped' BY DEF OpTyped, Pcs
<1>5. BatchTyped' BY DEF BatchTyped
<1>6. CallsTyped' BY DEF CallsTyped, Calls, SlotsTaken
<1>7. CardsTyped' BY DEF CardsTyped
<1>8. Conversation' BY DEF FlagsTyped, StateTyped, OpTyped, Conversation, ConversationChains, Pcs, PromptPcs, ModelPcs
<1>9. BatchShape' BY DEF OpTyped, BatchTyped, BatchShape, Elements
<1>10. CallsRun' BY DEF OpTyped, CallsTyped, Calls, FlagsTyped, CallsRun, Over, Elements
<1>11. QueueOwned'
  BY DEF QueueOwned, GivesUp
<1>12. CardsTold'
  BY DEF CardsTold, GivesUp
<1>13. QED BY <1>1, <1>2, <1>3, <1>4, <1>5, <1>6, <1>7, <1>8, <1>9, <1>10, <1>11, <1>12

LEMMA CardSentHolds == ASSUME AcpInv, At("announcing"), Sent(Me), op' = [op EXCEPT !.pc = "announce", !.at = @ + 1],
  UNCHANGED <<control, cards, state, work, calls, counts, past>> PROVE AcpInv'
<1> USE AcpAssumption DEF AcpInv, Typed, Waiting, control, threads, stdio, state, work, counts, past, At, Idle, Cancelled
<1>0. /\ op' \in [pc : Pcs, key : Keys \cup {NoKey}, cancelled : BOOLEAN,
                  error : BOOLEAN, at : Nat, chunks : 0..MaxChunks]
      /\ op'.pc = "announce" /\ op'.at = op.at + 1 /\ op'.key = op.key
  <2>1. op.at + 1 \in Nat /\ "announce" \in Pcs BY DEF OpTyped, Pcs
  <2>2. QED BY <2>1 DEF OpTyped
<1>1. FlagsTyped' BY DEF FlagsTyped
<1>2. QueueTyped'
  BY DEF QueueTyped, Frames, Sent
<1>3. StateTyped' BY DEF StateTyped
<1>4. OpTyped'
  BY <1>0 DEF OpTyped
<1>5. BatchTyped' BY DEF BatchTyped
<1>6. CallsTyped' BY DEF CallsTyped, Calls, SlotsTaken
<1>7. CardsTyped' BY DEF CardsTyped
<1>8. Conversation'
  BY <1>0 DEF FlagsTyped, StateTyped, OpTyped, Conversation, ConversationChains, Pcs, PromptPcs, ModelPcs
<1>9. BatchShape'
  <2>1. op.at \in Nat /\ Len(batch) \in Nat BY LenProperties DEF OpTyped, BatchTyped
  <2>2. QED BY <1>0, <2>1 DEF BatchShape, Elements
<1>10. CallsRun'
  BY <1>0 DEF OpTyped, CallsTyped, Calls, FlagsTyped, CallsRun, Over, Elements
<1>11. QueueOwned'
  <2>1. SUFFICES ASSUME alive PROVE QueueOwned' BY DEF QueueOwned
  <2>2. \A g : Owned(g) /\ g.by # Me => OwnedAt(g, op', calls', batch', prompts')
    BY <1>0 DEF Owned, OwnedAt, PromptPcs, Pcs
  <2>3. QED BY <2>1, <2>2, SentOwned DEF QueueOwned, Senders
<1>12. CardsTold'
  <2>1. SUFFICES ASSUME alive PROVE CardsTold' BY DEF CardsTold
  <2>2. Me \in done /\ Me \notin CallIds BY DEF Sent
  <2>3. \A c \in CallIds : c \in done' <=> c \in done BY <2>2 DEF Sent
  <2>4. op.at \in Nat /\ Len(batch) \in Nat BY LenProperties DEF OpTyped, BatchTyped
  <2>5. ASSUME NEW i \in 1..Len(batch) PROVE Card1(i)'
    <3>1. Card1(i) /\ op.pc = "announcing" /\ UNCHANGED <<cards, batch>> /\ op'.pc = "announce" /\ op'.at = op.at + 1
      BY <1>0, <2>1 DEF CardsTold
    <3> HIDE DEF AcpInv, Typed
    <3>2. i \in Nat /\ op'.at \in Nat BY <1>0, <2>4
    <3>3. i <= op.at => cards[batch[i]] = "open" BY <3>1 DEF Card1
    <3>4. i = op.at + 1 => cards[batch[i]] = "open" BY <2>2, <3>1 DEF Card1
    <3>5. i > op.at + 1 => cards[batch[i]] = "none" BY <3>1 DEF Card1
    <3>6. /\ i <= op'.at => i <= op.at \/ i = op.at + 1
          /\ i > op'.at => i > op.at + 1
          /\ i > op'.at + 1 => i > op'.at
          /\ i = op'.at + 1 => i > op'.at
      <4>1. op.at \in Nat /\ i \in Nat /\ op'.at = op.at + 1 BY <2>4, <3>1, <3>2
      <4>2. QED BY <3>2, <4>1, OneFurther
    <3>7. i <= op'.at => cards'[batch'[i]] = "open" BY <3>1, <3>3, <3>4, <3>6
    <3>8. i > op'.at => cards'[batch'[i]] = "none" BY <3>1, <3>5, <3>6
    <3>9. QED BY <3>1, <3>6, <3>7, <3>8 DEF Card1
  <2>6. QED BY <1>0, <2>1, <2>3, <2>5 DEF CardsTold, CardPcs, Elements
<1>13. QED BY <1>1, <1>2, <1>3, <1>4, <1>5, <1>6, <1>7, <1>8, <1>9, <1>10, <1>11, <1>12

LEMMA AnnouncedHolds == ASSUME AcpInv, Announced PROVE AcpInv'
BY GaveUpHolds, CardSentHolds DEF Announced, At

LEMMA WithdrawHolds == ASSUME AcpInv, Withdraw PROVE AcpInv'
<1> USE AcpAssumption DEF AcpInv, Typed, Waiting, Withdraw, control, threads, stdio, state, work, counts, past, At, Idle, Cancelled, GoesTo, Aborts
<1>0. /\ op.at \in Nat /\ Len(batch) \in Nat /\ op.at < Len(batch)
      /\ \A i \in 1..Len(batch) : batch[i] \in CallIds
  BY ElementOfSeq, LenProperties DEF OpTyped, BatchTyped
<1>a. batch' \in Seq(CallIds) /\ Len(batch') = op.at /\ \A i \in 1..op.at : batch'[i] = batch[i]
  <2>1. op.at \in 0..Len(batch) /\ batch \in Seq(CallIds) BY <1>0 DEF BatchTyped
  <2>2. QED BY <2>1, PrefixIs
<1>b. Elements(batch') = {batch[i] : i \in 1..op.at} /\ Elements(batch) = {batch[i] : i \in 1..Len(batch)}
  <2>1. DOMAIN batch = 1..Len(batch) BY LenProperties DEF BatchTyped
  <2>2. DOMAIN batch' = 1..op.at BY <1>a, LenProperties
  <2>3. QED BY <1>a, <2>1, <2>2 DEF Elements
<1>c. op'.pc = "withdraw" /\ op'.at = 0 BY DEF OpTyped
<1>e. 1..op.at \subseteq 1..Len(batch) /\ \A i \in 1..op.at : i > 0
  <2>1. op.at \in Nat /\ Len(batch) \in Nat /\ op.at < Len(batch) BY <1>0
  <2> HIDE DEF Withdraw, AcpInv, Typed
  <2>2. QED BY <2>1
<1>d. /\ UNCHANGED <<alive, cards, done, seen, calls>> /\ op.pc = "announce"
      /\ Typed /\ BatchShape /\ CardsTold
  OBVIOUS
<1>1. FlagsTyped' BY DEF FlagsTyped
<1>2. QueueTyped' BY DEF QueueTyped, Frames
<1>3. StateTyped' BY DEF StateTyped
<1>4. OpTyped' BY DEF OpTyped, Pcs
<1>5. BatchTyped'
  BY <1>a DEF BatchTyped
<1>6. CallsTyped' BY DEF CallsTyped, Calls, SlotsTaken
<1>7. CardsTyped' BY DEF CardsTyped
<1>8. Conversation' BY DEF FlagsTyped, StateTyped, OpTyped, Conversation, ConversationChains, Pcs, PromptPcs, ModelPcs
<1>9. BatchShape'
  <2> HIDE DEF Withdraw, AcpInv, Typed
  <2>1. Elements(batch') \subseteq seen BY <1>0, <1>b, <1>d DEF BatchShape
  <2>2. ASSUME NEW i \in 1..Len(batch'), NEW j \in 1..Len(batch'), batch'[i] = batch'[j] PROVE i = j
    <3>1. i \in 1..op.at /\ j \in 1..op.at /\ batch[i] = batch[j] BY <1>a, <2>2
    <3>2. i \in 1..Len(batch) /\ j \in 1..Len(batch) BY <1>e, <3>1
    <3>3. QED BY <1>d, <3>1, <3>2 DEF BatchShape
  <2>3. Elements(batch)' = Elements(batch') BY DEF Elements
  <2>4. QED BY <1>0, <1>a, <1>c, <1>d, <2>1, <2>2, <2>3 DEF BatchShape
<1>10. CallsRun' BY DEF OpTyped, CallsTyped, Calls, FlagsTyped, CallsRun, Over, Elements
<1>11. QueueOwned' BY DEF OpTyped, CallsTyped, Calls, CallsRun, QueueOwned, Owned, OwnedAt, Over, WaitPcs, PromptPcs, Pcs, Responses, Elements
<1>12. CardsTold'
  <2> HIDE DEF Withdraw, AcpInv, Typed
  <2>1. SUFFICES ASSUME alive PROVE CardsTold' BY <1>d DEF CardsTold
  <2>2. \A i \in 1..Len(batch) : Card1(i) BY <1>d, <2>1 DEF CardsTold
  <2>3. \A i \in 1..Len(batch) : i <= op.at => cards[batch[i]] = "open" BY <1>d, <2>2 DEF Card1
  <2>4. \A i \in 1..Len(batch) : i > op.at => cards[batch[i]] = "none"
    BY <1>0, <1>d, <2>2 DEF Card1
  <2>5. ASSUME NEW c \in Elements(batch), c \notin Elements(batch') PROVE cards[c] = "none"
    <3>1. PICK i \in 1..Len(batch) : c = batch[i] BY <1>b, <2>5
    <3>2. i > op.at BY <1>0, <1>b, <2>5, <3>1
    <3>3. QED BY <2>4, <3>1, <3>2
  <2>6. ASSUME NEW c \in CallIds, c \notin Elements(batch') PROVE cards[c] # "open"
    <3>1. CASE c \in Elements(batch) BY <2>5, <2>6, <3>1
    <3>2. CASE c \notin Elements(batch) BY <1>d, <2>1, <3>2 DEF CardsTold
    <3>3. QED BY <3>1, <3>2
  <2>7. ASSUME NEW i \in 1..Len(batch') PROVE Card1(i)'
    <3>1. i \in 1..op.at /\ batch'[i] = batch[i] BY <1>a
    <3>2. i \in 1..Len(batch) /\ i > 0 BY <1>e, <3>1
    <3>a. i <= op.at /\ cards[batch[i]] = "open" BY <2>3, <3>1, <3>2
    <3>3. QED BY <1>c, <1>d, <3>1, <3>2, <3>a DEF Card1
  <2>8. Elements(batch)' = Elements(batch') BY DEF Elements
  <2>9. \A c \in CallIds : c \notin seen => cards[c] = "none" BY <1>d, <2>1 DEF CardsTold
  <2>10. QED BY <1>c, <1>d, <2>6, <2>7, <2>8, <2>9 DEF CardsTold, CardPcs
<1>13. QED BY <1>1, <1>2, <1>3, <1>4, <1>5, <1>6, <1>7, <1>8, <1>9, <1>10, <1>11, <1>12

LEMMA CardPutBackHolds == ASSUME AcpInv, At("withdraw"), op.at < Len(batch),
  Put(Card(batch[op.at + 1], "failed", Me)), GoesTo("withdrawing"),
  UNCHANGED <<threads, inbox, done, cards, state, work, calls, counts, past>> PROVE AcpInv'
<1> USE AcpAssumption DEF AcpInv, Typed, Waiting, control, threads, stdio, state, work, counts, past, At, Idle, Cancelled, GoesTo, Card, Frame
<1>0. op.at \in Nat /\ Len(batch) \in Nat /\ op.at + 1 \in 1..Len(batch) /\ batch[op.at + 1] \in CallIds
  BY ElementOfSeq, LenProperties DEF OpTyped, BatchTyped
<1>a. Card(batch[op.at + 1], "failed", Me) \in Frames
  BY <1>0 DEF Frames, QueueTyped, Statuses, Senders
<1>b. writes' \in Seq(Frames) /\ Waiting' \in 0..QueueCap /\ alive' = alive
  BY <1>a, PutFits
<1>1. FlagsTyped'
  BY <1>b DEF FlagsTyped
<1>2. QueueTyped'
  BY <1>b DEF QueueTyped, Frames
<1>3. StateTyped' BY DEF StateTyped
<1>4. OpTyped' BY DEF OpTyped, Pcs
<1>5. BatchTyped' BY DEF BatchTyped
<1>6. CallsTyped' BY DEF CallsTyped, Calls, SlotsTaken
<1>7. CardsTyped' BY DEF CardsTyped
<1>8. Conversation' BY DEF FlagsTyped, StateTyped, OpTyped, Conversation, ConversationChains, Pcs, PromptPcs, ModelPcs
<1>9. BatchShape' BY DEF OpTyped, BatchTyped, BatchShape, Elements
<1>10. CallsRun' BY DEF OpTyped, CallsTyped, Calls, FlagsTyped, CallsRun, Over, Elements
<1>11. QueueOwned'
  <2>1. SUFFICES ASSUME alive PROVE QueueOwned' BY <1>b DEF QueueOwned
  <2>2. Me \notin done BY <2>1 DEF QueueOwned, WaitPcs
  <2>3. \A g : Owned(g) => g.by # Me BY DEF Owned, OwnedAt
  <2>4. \A g : Owned(g) => OwnedAt(g, op', calls', batch', prompts')
    BY <2>3 DEF Owned, OwnedAt, PromptPcs, Pcs
  <2>5. op'.pc = "withdrawing" /\ op'.at = op.at BY DEF OpTyped
  <2>6. OwnedAt(Card(batch[op.at + 1], "failed", Me), op', calls', batch', prompts')
    BY <2>5 DEF OwnedAt, Responses, Senders
  <2>7. QED BY <1>a, <2>1, <2>2, <2>3, <2>4, <2>5, <2>6, PutOwned DEF QueueOwned, WaitPcs
<1>12. CardsTold'
  <2>1. SUFFICES ASSUME alive PROVE CardsTold' BY <1>b DEF CardsTold
  <2>2. Me \notin done BY <2>1 DEF QueueOwned, WaitPcs
  <2>3. QED BY <2>1, <2>2 DEF OpTyped, CallsTyped, Calls, BatchTyped, CardsTyped, CardsTold, Card1, CardPcs, Elements
<1>13. QED BY <1>1, <1>2, <1>3, <1>4, <1>5, <1>6, <1>7, <1>8, <1>9, <1>10, <1>11, <1>12

LEMMA CardSkippedHolds == ASSUME AcpInv, At("withdraw"), op.at < Len(batch), Refused \/ Flood, op' = [op EXCEPT !.at = @ + 1],
  UNCHANGED <<threads, inbox, done, cards, state, work, calls, counts, past>> PROVE AcpInv'
<1> USE AcpAssumption DEF AcpInv, Typed, Waiting, control, threads, stdio, state, work, counts, past, At, Idle, Cancelled
<1>0. writes' = writes /\ alive' = FALSE BY DEF Refused, Flood, FlagsTyped
<1>1. FlagsTyped'
  BY <1>0 DEF FlagsTyped
<1>2. QueueTyped'
  BY <1>0 DEF QueueTyped, Frames
<1>3. StateTyped' BY DEF StateTyped
<1>4. OpTyped'
  <2>1. op.at + 1 \in Nat BY DEF OpTyped
  <2>2. QED BY <2>1 DEF OpTyped
<1>5. BatchTyped' BY DEF BatchTyped
<1>6. CallsTyped' BY DEF CallsTyped, Calls, SlotsTaken
<1>7. CardsTyped' BY DEF CardsTyped
<1>8. Conversation' BY DEF FlagsTyped, StateTyped, OpTyped, Conversation, ConversationChains, Pcs, PromptPcs, ModelPcs
<1>9. BatchShape'
  <2>1. op.at \in Nat /\ Len(batch) \in Nat BY LenProperties DEF OpTyped, BatchTyped
  <2>2. QED BY <2>1 DEF BatchShape, Elements, OpTyped
<1>10. CallsRun' BY DEF OpTyped, CallsTyped, Calls, FlagsTyped, CallsRun, Over, Elements
<1>11. QueueOwned'
  BY <1>0 DEF QueueOwned
<1>12. CardsTold'
  BY <1>0 DEF CardsTold
<1>13. QED BY <1>1, <1>2, <1>3, <1>4, <1>5, <1>6, <1>7, <1>8, <1>9, <1>10, <1>11, <1>12

LEMMA FailCardHolds == ASSUME AcpInv, FailCard PROVE AcpInv'
BY CardPutBackHolds, CardSkippedHolds DEF FailCard

LEMMA CardFailedHolds == ASSUME AcpInv, CardFailed PROVE AcpInv'
<1> USE AcpAssumption DEF AcpInv, Typed, Waiting, CardFailed, control, threads, stdio, state, work, counts, past, At, Idle, Cancelled, GoesTo, Aborts, Sent, GivesUp
<1>0. /\ op' \in [pc : Pcs, key : Keys \cup {NoKey}, cancelled : BOOLEAN,
                  error : BOOLEAN, at : Nat, chunks : 0..MaxChunks]
      /\ op'.pc = "withdraw" /\ op'.at = op.at + 1 /\ op'.key = op.key
  <2>1. op.at + 1 \in Nat /\ "withdraw" \in Pcs BY DEF OpTyped, Pcs
  <2>2. QED BY <2>1 DEF OpTyped
<1>1. FlagsTyped' BY DEF FlagsTyped
<1>2. QueueTyped'
  <2>1. CASE Sent(Me) BY <2>1 DEF QueueTyped, Frames
  <2>2. CASE GivesUp(Me)
    <3>1. Abandon(Me) \in Seq(Frames) /\ Len(Abandon(Me)) = Len(writes) BY AbandonTyped DEF Senders
    <3>2. QED BY <2>2, <3>1 DEF QueueTyped, Frames
  <2>3. QED BY <2>1, <2>2
<1>3. StateTyped' BY DEF StateTyped
<1>4. OpTyped'
  BY <1>0 DEF OpTyped
<1>5. BatchTyped' BY DEF BatchTyped
<1>6. CallsTyped' BY DEF CallsTyped, Calls, SlotsTaken
<1>7. CardsTyped' BY DEF CardsTyped
<1>8. Conversation' BY DEF FlagsTyped, StateTyped, OpTyped, Conversation, ConversationChains, Pcs, PromptPcs, ModelPcs
<1>9. BatchShape'
  <2>1. op.at \in Nat /\ Len(batch) \in Nat BY LenProperties DEF OpTyped, BatchTyped
  <2>2. QED BY <1>0, <2>1 DEF BatchShape, Elements
<1>10. CallsRun' BY DEF OpTyped, CallsTyped, Calls, FlagsTyped, CallsRun, Over, Elements
<1>11. QueueOwned'
  <2>1. SUFFICES ASSUME alive PROVE QueueOwned' BY DEF QueueOwned
  <2>2. \A g : Owned(g) /\ g.by # Me => OwnedAt(g, op', calls', batch', prompts')
    BY <1>0 DEF Owned, OwnedAt, PromptPcs, Pcs
  <2>3. QED BY <2>1, <2>2, SentOwned DEF QueueOwned, Senders
<1>12. CardsTold'
  <2>1. SUFFICES ASSUME alive PROVE CardsTold' BY DEF CardsTold
  <2>2. Me \in done /\ Me \notin CallIds BY <2>1
  <2>3. \A c \in CallIds : c \in done' <=> c \in done BY <2>1, <2>2
  <2>4. op.at \in Nat /\ Len(batch) \in Nat BY LenProperties DEF OpTyped, BatchTyped
  <2>5. ASSUME NEW i \in 1..Len(batch) PROVE Card1(i)'
    <3>1. Card1(i) /\ op.pc = "withdrawing" /\ UNCHANGED <<cards, batch>> /\ op'.pc = "withdraw" /\ op'.at = op.at + 1
      BY <1>0, <2>1 DEF CardsTold
    <3> HIDE DEF AcpInv, Typed
    <3>2. i \in Nat /\ op'.at \in Nat BY <1>0, <2>4
    <3>3. i <= op.at => cards[batch[i]] = "closed" BY <3>1 DEF Card1
    <3>4. i = op.at + 1 => cards[batch[i]] = "closed" BY <2>2, <3>1 DEF Card1
    <3>5. i > op.at + 1 => cards[batch[i]] = "open" BY <3>1 DEF Card1
    <3>6. /\ i <= op'.at => i <= op.at \/ i = op.at + 1
          /\ i > op'.at => i > op.at + 1
          /\ i > op'.at + 1 => i > op'.at
          /\ i = op'.at + 1 => i > op'.at
      <4>1. op.at \in Nat /\ i \in Nat /\ op'.at = op.at + 1 BY <2>4, <3>1, <3>2
      <4>2. QED BY <3>2, <4>1, OneFurther
    <3>7. i <= op'.at => cards'[batch'[i]] = "closed" BY <3>1, <3>3, <3>4, <3>6
    <3>8. i > op'.at => cards'[batch'[i]] = "open" BY <3>1, <3>5, <3>6
    <3>9. QED BY <3>1, <3>6, <3>7, <3>8 DEF Card1
  <2>6. QED BY <1>0, <2>1, <2>3, <2>5 DEF CardsTold, CardPcs, Elements
<1>13. QED BY <1>1, <1>2, <1>3, <1>4, <1>5, <1>6, <1>7, <1>8, <1>9, <1>10, <1>11, <1>12

LEMMA WithdrawnHolds == ASSUME AcpInv, Withdrawn PROVE AcpInv'
<1> USE AcpAssumption DEF AcpInv, Typed, Waiting, Withdrawn, control, threads, stdio, state, work, counts, past, At, Idle, Cancelled, GoesTo, Aborts
<1>1. FlagsTyped' BY DEF FlagsTyped
<1>2. QueueTyped' BY DEF QueueTyped, Frames
<1>3. StateTyped' BY DEF StateTyped
<1>4. OpTyped' BY DEF OpTyped, Pcs
<1>5. BatchTyped' BY DEF BatchTyped
<1>6. CallsTyped' BY DEF CallsTyped, Calls, SlotsTaken
<1>7. CardsTyped' BY DEF CardsTyped
<1>8. Conversation' BY DEF FlagsTyped, StateTyped, OpTyped, Conversation, ConversationChains, Pcs, PromptPcs, ModelPcs
<1>9. BatchShape' BY DEF OpTyped, BatchTyped, BatchShape, Elements
<1>10. CallsRun' BY DEF OpTyped, CallsTyped, Calls, FlagsTyped, CallsRun, Over, Elements
<1>11. QueueOwned' BY DEF OpTyped, CallsTyped, Calls, CallsRun, QueueOwned, Owned, OwnedAt, Over, WaitPcs, PromptPcs, Pcs, Responses, Elements
<1>12. CardsTold' BY DEF OpTyped, CallsTyped, Calls, BatchTyped, CardsTyped, CardsTold, Card1, CardPcs, Elements
<1>13. QED BY <1>1, <1>2, <1>3, <1>4, <1>5, <1>6, <1>7, <1>8, <1>9, <1>10, <1>11, <1>12

LEMMA StartBatchHolds == ASSUME AcpInv, StartBatch PROVE AcpInv'
<1> USE AcpAssumption DEF AcpInv, Typed, Waiting, StartBatch, control, threads, stdio, state, work, counts, past, At, Idle, Cancelled, GoesTo, Aborts, NoCall
<1>1. FlagsTyped' BY DEF FlagsTyped
<1>2. QueueTyped' BY DEF QueueTyped, Frames
<1>3. StateTyped' BY DEF StateTyped
<1>4. OpTyped' BY DEF OpTyped, Pcs
<1>5. BatchTyped' BY DEF BatchTyped
<1>6. CallsTyped'
  <2>1. [NoCall EXCEPT !.pc = "queued"] \in Calls BY DEF Calls
  <2>2. calls' \in [CallIds -> Calls] BY <2>1 DEF CallsTyped
  <2>3. \A c \in CallIds : calls'[c].slot => calls[c].slot OBVIOUS
  <2>4. QED BY <2>2, <2>3, SlotsKept
<1>7. CardsTyped' BY DEF CardsTyped
<1>8. Conversation' BY DEF FlagsTyped, StateTyped, OpTyped, Conversation, ConversationChains, Pcs, PromptPcs, ModelPcs
<1>9. BatchShape' BY DEF OpTyped, BatchTyped, BatchShape, Elements
<1>10. CallsRun' BY DEF OpTyped, CallsTyped, Calls, FlagsTyped, CallsRun, Over, Elements
<1>11. QueueOwned' BY DEF OpTyped, CallsTyped, Calls, CallsRun, QueueOwned, Owned, OwnedAt, Over, WaitPcs, PromptPcs, Pcs, Responses, Elements
<1>12. CardsTold'
  <2>1. SUFFICES ASSUME alive PROVE CardsTold' BY DEF CardsTold
  <2>2. \A i \in 1..Len(batch) : cards[batch[i]] = "open" BY <2>1 DEF CardsTold, Card1, BatchTyped, OpTyped
  <2>3. \A c \in Elements(batch) : cards[c] = "open" BY <2>2 DEF Elements, BatchTyped
  <2>4. \A c \in CallIds : c \notin done BY <2>1 DEF CallsRun, QueueOwned, Over
  <2>5. \A c \in Elements(batch) : c \in CallIds /\ calls'[c].pc = "queued" BY DEF Elements, BatchTyped
  <2>6. QED BY <2>1, <2>3, <2>4, <2>5 DEF CardsTold, Card1, CardPcs, OpTyped
<1>13. QED BY <1>1, <1>2, <1>3, <1>4, <1>5, <1>6, <1>7, <1>8, <1>9, <1>10, <1>11, <1>12

LEMMA BatchFailsHolds == ASSUME AcpInv, At("tools"), BatchJoined, Aborts, UNCHANGED <<control, stdio, state, work, calls, counts, past>> PROVE AcpInv'
<1> USE AcpAssumption DEF AcpInv, Typed, Waiting, control, threads, stdio, state, work, counts, past, At, Idle, Cancelled, GoesTo, Aborts, BatchJoined
<1>1. FlagsTyped' BY DEF FlagsTyped
<1>2. QueueTyped' BY DEF QueueTyped, Frames
<1>3. StateTyped' BY DEF StateTyped
<1>4. OpTyped' BY DEF OpTyped, Pcs
<1>5. BatchTyped' BY DEF BatchTyped
<1>6. CallsTyped' BY DEF CallsTyped, Calls, SlotsTaken
<1>7. CardsTyped' BY DEF CardsTyped
<1>8. Conversation' BY DEF FlagsTyped, StateTyped, OpTyped, Conversation, ConversationChains, Pcs, PromptPcs, ModelPcs
<1>9. BatchShape' BY DEF OpTyped, BatchTyped, BatchShape, Elements
<1>10. CallsRun' BY DEF OpTyped, CallsTyped, Calls, FlagsTyped, CallsRun, Over, Elements
<1>11. QueueOwned' BY DEF OpTyped, CallsTyped, Calls, CallsRun, QueueOwned, Owned, OwnedAt, Over, WaitPcs, PromptPcs, Pcs, Responses, Elements
<1>12. CardsTold' BY DEF OpTyped, CallsTyped, Calls, BatchTyped, CardsTyped, CardsTold, Card1, CardPcs, Elements
<1>13. QED BY <1>1, <1>2, <1>3, <1>4, <1>5, <1>6, <1>7, <1>8, <1>9, <1>10, <1>11, <1>12

LEMMA BatchEndsHolds == ASSUME AcpInv, At("tools"), BatchJoined, GoesTo("round"),
  request' = [request EXCEPT !.previous = heard.id, !.outputs = Elements(batch)], UNCHANGED <<control, stdio, state, seen, batch, revoked, failed, calls, counts, past>> PROVE AcpInv'
<1> USE AcpAssumption DEF AcpInv, Typed, Waiting, control, threads, stdio, state, work, counts, past, At, Idle, Cancelled, GoesTo, Aborts, BatchJoined
<1>1. FlagsTyped' BY DEF FlagsTyped
<1>2. QueueTyped' BY DEF QueueTyped, Frames
<1>3. StateTyped'
  <2>1. Elements(batch) \subseteq CallIds BY DEF BatchTyped, Elements
  <2>2. QED BY <2>1 DEF StateTyped
<1>4. OpTyped' BY DEF OpTyped, Pcs
<1>5. BatchTyped' BY DEF BatchTyped
<1>6. CallsTyped' BY DEF CallsTyped, Calls, SlotsTaken
<1>7. CardsTyped' BY DEF CardsTyped
<1>8. Conversation' BY DEF FlagsTyped, StateTyped, OpTyped, Conversation, ConversationChains, Pcs, PromptPcs, ModelPcs
<1>9. BatchShape' BY DEF OpTyped, BatchTyped, BatchShape, Elements
<1>10. CallsRun' BY DEF OpTyped, CallsTyped, Calls, FlagsTyped, CallsRun, Over, Elements
<1>11. QueueOwned' BY DEF OpTyped, CallsTyped, Calls, CallsRun, QueueOwned, Owned, OwnedAt, Over, WaitPcs, PromptPcs, Pcs, Responses, Elements
<1>12. CardsTold' BY DEF OpTyped, CallsTyped, Calls, BatchTyped, CardsTyped, CardsTold, Card1, CardPcs, Elements
<1>13. QED BY <1>1, <1>2, <1>3, <1>4, <1>5, <1>6, <1>7, <1>8, <1>9, <1>10, <1>11, <1>12

LEMMA EndBatchHolds == ASSUME AcpInv, EndBatch PROVE AcpInv'
BY BatchFailsHolds, BatchEndsHolds DEF EndBatch, work

LEMMA TextPutHolds == ASSUME AcpInv, At("print"), Put(Text), GoesTo("printing"),
  UNCHANGED <<threads, inbox, done, cards, state, work, calls, counts, past>> PROVE AcpInv'
<1> USE AcpAssumption DEF AcpInv, Typed, Waiting, control, threads, stdio, state, work, counts, past, At, Idle, Cancelled, GoesTo, Text, Frame
<1>a. Text \in Frames BY DEF Frames, QueueTyped, Statuses, Senders
<1>b. writes' \in Seq(Frames) /\ Waiting' \in 0..QueueCap /\ alive' = alive
  BY <1>a, PutFits
<1>1. FlagsTyped'
  BY <1>b DEF FlagsTyped
<1>2. QueueTyped'
  BY <1>b DEF QueueTyped, Frames
<1>3. StateTyped' BY DEF StateTyped
<1>4. OpTyped' BY DEF OpTyped, Pcs
<1>5. BatchTyped' BY DEF BatchTyped
<1>6. CallsTyped' BY DEF CallsTyped, Calls, SlotsTaken
<1>7. CardsTyped' BY DEF CardsTyped
<1>8. Conversation' BY DEF FlagsTyped, StateTyped, OpTyped, Conversation, ConversationChains, Pcs, PromptPcs, ModelPcs
<1>9. BatchShape' BY DEF OpTyped, BatchTyped, BatchShape, Elements
<1>10. CallsRun' BY DEF OpTyped, CallsTyped, Calls, FlagsTyped, CallsRun, Over, Elements
<1>11. QueueOwned'
  <2>1. SUFFICES ASSUME alive PROVE QueueOwned' BY <1>b DEF QueueOwned
  <2>2. Me \notin done BY <2>1 DEF QueueOwned, WaitPcs
  <2>3. \A g : Owned(g) => g.by # Me BY DEF Owned, OwnedAt
  <2>4. \A g : Owned(g) => OwnedAt(g, op', calls', batch', prompts')
    BY <2>3 DEF Owned, OwnedAt, PromptPcs, Pcs
  <2>5. op'.pc = "printing" BY DEF OpTyped
  <2>6. OwnedAt(Text, op', calls', batch', prompts') BY <2>5 DEF OwnedAt, Responses, Senders
  <2>7. QED BY <1>a, <2>1, <2>2, <2>3, <2>4, <2>5, <2>6, PutOwned DEF QueueOwned, WaitPcs
<1>12. CardsTold'
  BY <1>b DEF OpTyped, CallsTyped, Calls, BatchTyped, CardsTyped, CardsTold, Card1, CardPcs, Elements
<1>13. QED BY <1>1, <1>2, <1>3, <1>4, <1>5, <1>6, <1>7, <1>8, <1>9, <1>10, <1>11, <1>12

LEMMA OutputTextHolds == ASSUME AcpInv, OutputText PROVE AcpInv'
<1> USE AcpAssumption DEF AcpInv, Typed, Waiting, OutputText, control, threads, stdio, state, work, counts, past, At, Idle, Cancelled, GoesTo, Aborts
<1>0. op' = [op EXCEPT !.pc = "finish", !.error = TRUE] \/ op' = [op EXCEPT !.pc = "print"]
  OBVIOUS
<1>1. FlagsTyped' BY DEF FlagsTyped
<1>2. QueueTyped' BY DEF QueueTyped, Frames
<1>3. StateTyped' BY DEF StateTyped
<1>4. OpTyped' BY DEF OpTyped, Pcs
<1>5. BatchTyped' BY DEF BatchTyped
<1>6. CallsTyped' BY DEF CallsTyped, Calls, SlotsTaken
<1>7. CardsTyped' BY DEF CardsTyped
<1>8. Conversation'
  <2>1. CASE op' = [op EXCEPT !.pc = "finish", !.error = TRUE]
    BY <2>1 DEF FlagsTyped, StateTyped, OpTyped, Conversation, ConversationChains, Pcs, PromptPcs, ModelPcs
  <2>2. CASE op' = [op EXCEPT !.pc = "print"]
    BY <2>2 DEF FlagsTyped, StateTyped, OpTyped, Conversation, ConversationChains, Pcs, PromptPcs, ModelPcs
  <2>3. QED BY <1>0, <2>1, <2>2
<1>9. BatchShape' BY DEF OpTyped, BatchTyped, BatchShape, Elements
<1>10. CallsRun' BY DEF OpTyped, CallsTyped, Calls, FlagsTyped, CallsRun, Over, Elements
<1>11. QueueOwned' BY DEF OpTyped, CallsTyped, Calls, CallsRun, QueueOwned, Owned, OwnedAt, Over, WaitPcs, PromptPcs, Pcs, Responses, Elements
<1>12. CardsTold'
  <2>1. op'.pc \in {"finish", "print"} /\ op'.at = op.at BY <1>0 DEF OpTyped
  <2>2. QED BY <2>1 DEF CardsTold, Card1, CardPcs, Elements
<1>13. QED BY <1>1, <1>2, <1>3, <1>4, <1>5, <1>6, <1>7, <1>8, <1>9, <1>10, <1>11, <1>12

LEMMA PrintChunkHolds == ASSUME AcpInv, PrintChunk PROVE AcpInv'
BY PutAbortsHolds, TextPutHolds DEF PrintChunk, At

LEMMA TextSentHolds == ASSUME AcpInv, At("printing"), Sent(Me), op' = [op EXCEPT !.pc = "text", !.chunks = @ - 1],
  UNCHANGED <<control, cards, state, work, calls, counts, past>> PROVE AcpInv'
<1> USE AcpAssumption DEF AcpInv, Typed, Waiting, control, threads, stdio, state, work, counts, past, At, Idle, Cancelled
<1>0. /\ op' \in [pc : Pcs, key : Keys \cup {NoKey}, cancelled : BOOLEAN,
                  error : BOOLEAN, at : Nat, chunks : 0..MaxChunks]
      /\ op'.pc = "text" /\ op'.key = op.key
  <2>1. op.chunks - 1 \in 0..MaxChunks /\ "text" \in Pcs BY DEF OpTyped, Pcs, Conversation
  <2>2. QED BY <2>1 DEF OpTyped
<1>1. FlagsTyped' BY DEF FlagsTyped
<1>2. QueueTyped'
  BY DEF QueueTyped, Frames, Sent
<1>3. StateTyped' BY DEF StateTyped
<1>4. OpTyped'
  BY <1>0 DEF OpTyped
<1>5. BatchTyped' BY DEF BatchTyped
<1>6. CallsTyped' BY DEF CallsTyped, Calls, SlotsTaken
<1>7. CardsTyped' BY DEF CardsTyped
<1>8. Conversation'
  BY <1>0 DEF FlagsTyped, StateTyped, OpTyped, Conversation, ConversationChains, Pcs, PromptPcs, ModelPcs
<1>9. BatchShape'
  BY <1>0 DEF BatchShape, Elements
<1>10. CallsRun'
  BY <1>0 DEF OpTyped, CallsTyped, Calls, FlagsTyped, CallsRun, Over, Elements
<1>11. QueueOwned'
  <2>1. SUFFICES ASSUME alive PROVE QueueOwned' BY DEF QueueOwned
  <2>2. \A g : Owned(g) /\ g.by # Me => OwnedAt(g, op', calls', batch', prompts')
    BY <1>0 DEF Owned, OwnedAt, PromptPcs, Pcs
  <2>3. QED BY <2>1, <2>2, SentOwned DEF QueueOwned, Senders
<1>12. CardsTold'
  BY <1>0 DEF OpTyped, CallsTyped, Calls, BatchTyped, CardsTyped, CardsTold, Card1, CardPcs, Elements, Sent
<1>13. QED BY <1>1, <1>2, <1>3, <1>4, <1>5, <1>6, <1>7, <1>8, <1>9, <1>10, <1>11, <1>12

LEMMA PrintedHolds == ASSUME AcpInv, Printed PROVE AcpInv'
BY GaveUpHolds, TextSentHolds DEF Printed, At

LEMMA EndTextHolds == ASSUME AcpInv, EndText PROVE AcpInv'
<1> USE AcpAssumption DEF AcpInv, Typed, Waiting, EndText, control, threads, stdio, state, work, counts, past, At, Idle, Cancelled, GoesTo, Aborts
<1>1. FlagsTyped' BY DEF FlagsTyped
<1>2. QueueTyped' BY DEF QueueTyped, Frames
<1>3. StateTyped' BY DEF StateTyped
<1>4. OpTyped' BY DEF OpTyped, Pcs
<1>5. BatchTyped' BY DEF BatchTyped
<1>6. CallsTyped' BY DEF CallsTyped, Calls, SlotsTaken
<1>7. CardsTyped' BY DEF CardsTyped
<1>8. Conversation' BY DEF FlagsTyped, StateTyped, OpTyped, Conversation, ConversationChains, Pcs, PromptPcs, ModelPcs
<1>9. BatchShape' BY DEF OpTyped, BatchTyped, BatchShape, Elements
<1>10. CallsRun' BY DEF OpTyped, CallsTyped, Calls, FlagsTyped, CallsRun, Over, Elements
<1>11. QueueOwned' BY DEF OpTyped, CallsTyped, Calls, CallsRun, QueueOwned, Owned, OwnedAt, Over, WaitPcs, PromptPcs, Pcs, Responses, Elements
<1>12. CardsTold' BY DEF OpTyped, CallsTyped, Calls, BatchTyped, CardsTyped, CardsTold, Card1, CardPcs, Elements
<1>13. QED BY <1>1, <1>2, <1>3, <1>4, <1>5, <1>6, <1>7, <1>8, <1>9, <1>10, <1>11, <1>12

LEMMA FinishedHolds == ASSUME AcpInv, NEW reason \in Statuses, At("finish"), Respond(Answer(op.key, reason)), op' = IdleOperation,
  reason = "end_turn" => heard.final, session' = SessionAfter(reason),
  ended' = IF reason = "end_turn" THEN heard.id ELSE ended,
  spoiled' = (spoiled \/ reason # "end_turn"),
  UNCHANGED <<threads, inbox, done, cards, initialized, work, calls, counts, heard>> PROVE AcpInv'
<1> USE AcpAssumption DEF AcpInv, Typed, Waiting, control, threads, stdio, state, work, counts, past, At, Idle, Cancelled, IdleOperation, NewOperation, Answer, Frame, SessionAfter
<1>0. /\ Answer(op.key, reason) \in Frames /\ Answer(op.key, reason).by = NoOne
      /\ Answer(op.key, reason).what = "answer"
  BY DEF Frames, QueueTyped, OpTyped
<1>a. QueueTyped' /\ alive' \in BOOLEAN /\ (alive' => alive /\ Put(Answer(op.key, reason)))
  BY <1>0, RespondTyped, Zenon DEF QueueTyped
<1>1. FlagsTyped'
  BY <1>a DEF FlagsTyped
<1>2. QueueTyped'
  BY <1>a
<1>3. StateTyped'
  <2>1. CASE reason = "end_turn" BY <2>1 DEF StateTyped
  <2>2. CASE reason # "end_turn"
    <3>1. 0 \in 0..responses BY DEF StateTyped
    <3>2. session' = [session EXCEPT !.poisoned = TRUE, !.previous = 0] BY <2>2
    <3>3. session' \in [open : BOOLEAN, poisoned : BOOLEAN, previous : 0..responses]
      BY <3>1, <3>2 DEF StateTyped
    <3>4. QED BY <2>2, <3>3 DEF StateTyped
  <2>3. QED BY <2>1, <2>2
<1>4. OpTyped'
  <2>1. "idle" \in Pcs /\ 0 \in 0..MaxChunks BY DEF Pcs
  <2>2. QED BY <2>1 DEF OpTyped
<1>5. BatchTyped' BY DEF BatchTyped
<1>6. CallsTyped' BY DEF CallsTyped, Calls, SlotsTaken
<1>7. CardsTyped' BY DEF CardsTyped
<1>8. Conversation' BY DEF FlagsTyped, StateTyped, OpTyped, Conversation, ConversationChains, Pcs, PromptPcs, ModelPcs
<1>9. BatchShape' BY DEF OpTyped, BatchTyped, BatchShape, Elements
<1>10. CallsRun' BY DEF OpTyped, CallsTyped, Calls, FlagsTyped, CallsRun, Over, Elements
<1>11. QueueOwned'
  <2>1. SUFFICES ASSUME alive' PROVE QueueOwned' BY DEF QueueOwned
  <2>2. \A g : Owned(g) => OwnedAt(g, op', calls', batch', prompts')
    BY DEF Owned, OwnedAt, PromptPcs, OpTyped
  <2>3. OwnedAt(Answer(op.key, reason), op', calls', batch', prompts')
    BY <1>0 DEF OwnedAt, Responses, PromptPcs, Me, NoOne, OpTyped
  <2>4. NoOne \notin done BY DEF QueueTyped, Senders, Me, NoOne
  <2>5. QED BY <1>0, <1>a, <2>1, <2>2, <2>3, <2>4, PutOwned DEF QueueOwned, WaitPcs
<1>12. CardsTold'
  BY <1>a DEF OpTyped, CallsTyped, Calls, BatchTyped, CardsTyped, CardsTold, Card1, CardPcs, Elements
<1>13. QED BY <1>1, <1>2, <1>3, <1>4, <1>5, <1>6, <1>7, <1>8, <1>9, <1>10, <1>11, <1>12

LEMMA FinishPromptHolds == ASSUME AcpInv, FinishPrompt PROVE AcpInv'
<1>1. StopReason \in Statuses BY DEF StopReason, Statuses
<1>2. StopReason = "end_turn" => heard.final
  BY DEF StopReason, FinishPrompt, AcpInv, Conversation, At
<1>3. QED BY <1>1, <1>2, FinishedHolds DEF FinishPrompt

LEMMA AcquireHolds == ASSUME AcpInv, NEW c \in CallIds, Acquire(c) PROVE AcpInv'
<1> USE AcpAssumption DEF AcpInv, Typed, Waiting, Acquire, control, threads, stdio, state, work, counts, past, At, Idle, Cancelled, CallGoes, GroupDone
<1>1. FlagsTyped' BY DEF FlagsTyped
<1>2. QueueTyped' BY DEF QueueTyped, Frames
<1>3. StateTyped' BY DEF StateTyped
<1>4. OpTyped' BY DEF OpTyped, Pcs
<1>5. BatchTyped' BY DEF BatchTyped
<1>6. CallsTyped'
  <2> DEFINE Taken == {d \in CallIds : calls[d].slot}
  <2> DEFINE Now   == {d \in CallIds : calls'[d].slot}
  <2>1. [calls[c] EXCEPT !.pc = "admitted", !.slot = TRUE] \in Calls BY DEF CallsTyped, Calls
  <2>2. calls' = [calls EXCEPT ![c] = [calls[c] EXCEPT !.pc = "admitted", !.slot = TRUE]] BY DEF CallsTyped
  <2>3. calls' \in [CallIds -> Calls] BY <2>1, <2>2 DEF CallsTyped
  <2>4. Now = Taken \cup {c} BY <2>2 DEF CallsTyped
  <2>5. IsFiniteSet(Taken) BY FS_Subset
  <2>6. Cardinality(Taken) \in Nat BY <2>5, FS_CardinalityType
  <2>a. /\ c \notin Taken => Cardinality(Taken \cup {c}) = Cardinality(Taken) + 1
        /\ c \in Taken => Taken \cup {c} = Taken
    BY <2>5, FS_AddElement
  <2>7. Cardinality(Now) <= Cardinality(Taken) + 1
    <3>1. CASE c \in Taken
      <4>1. Cardinality(Now) = Cardinality(Taken) BY <2>4, <2>a, <3>1
      <4> HIDE DEF Now, Taken
      <4>2. QED BY <2>6, <4>1
    <3>2. CASE c \notin Taken
      <4>1. Cardinality(Now) = Cardinality(Taken) + 1 BY <2>4, <2>a, <3>2
      <4> HIDE DEF Now, Taken
      <4>2. QED BY <2>6, <4>1
    <3>3. QED BY <3>1, <3>2
  <2>8. Cardinality(Taken) < Slots BY DEF SlotsTaken
  <2>9. Cardinality(Now) \in Nat BY <2>4, <2>5, FS_AddElement, FS_CardinalityType
  <2>10. Cardinality(Now) <= Slots BY <2>6, <2>7, <2>8, <2>9
  <2>11. SlotsTaken' = Cardinality(Now) BY DEF SlotsTaken
  <2>12. QED BY <2>3, <2>10, <2>11 DEF CallsTyped
<1>7. CardsTyped' BY DEF CardsTyped
<1>8. Conversation' BY DEF FlagsTyped, StateTyped, OpTyped, Conversation, ConversationChains, Pcs, PromptPcs, ModelPcs
<1>9. BatchShape' BY DEF OpTyped, BatchTyped, BatchShape, Elements
<1>10. CallsRun' BY DEF OpTyped, CallsTyped, Calls, FlagsTyped, CallsRun, Over, Elements
<1>11. QueueOwned'
  <2>1. \A d \in CallIds : calls[d].pc = "sending" => calls'[d].pc = "sending" BY DEF CallsTyped, Calls
  <2>2. QED BY <2>1, QueueUnmoved
<1>12. CardsTold' BY DEF OpTyped, CallsTyped, Calls, BatchTyped, CardsTyped, CardsTold, Card1, CardPcs, Elements
<1>13. QED BY <1>1, <1>2, <1>3, <1>4, <1>5, <1>6, <1>7, <1>8, <1>9, <1>10, <1>11, <1>12

LEMMA CallCancelledHolds == ASSUME AcpInv, NEW c \in CallIds, CallCancelled(c) PROVE AcpInv'
<1> USE AcpAssumption DEF AcpInv, Typed, Waiting, CallCancelled, control, threads, stdio, state, work, counts, past, At, Idle, Cancelled, CallGoes, GroupDone
<1>1. FlagsTyped' BY DEF FlagsTyped
<1>2. QueueTyped' BY DEF QueueTyped, Frames
<1>3. StateTyped' BY DEF StateTyped
<1>4. OpTyped' BY DEF OpTyped, Pcs
<1>5. BatchTyped' BY DEF BatchTyped
<1>6. CallsTyped'
  <2> DEFINE x == [calls[c] EXCEPT !.pc = "settle", !.outcome = "error"]
  <2>1. calls[c] \in Calls BY DEF CallsTyped
  <2>2. x \in Calls /\ (x.slot => calls[c].slot) BY <2>1 DEF Calls
  <2>3. calls' = [calls EXCEPT ![c] = x] BY DEF CallsTyped
  <2> HIDE DEF x
  <2>4. calls' \in [CallIds -> Calls] BY <2>2, <2>3 DEF CallsTyped
  <2>5. \A d \in CallIds : calls'[d].slot => calls[d].slot BY <2>2, <2>3 DEF CallsTyped
  <2>6. QED BY <2>4, <2>5, SlotsKept
<1>7. CardsTyped' BY DEF CardsTyped
<1>8. Conversation' BY DEF FlagsTyped, StateTyped, OpTyped, Conversation, ConversationChains, Pcs, PromptPcs, ModelPcs
<1>9. BatchShape' BY DEF OpTyped, BatchTyped, BatchShape, Elements
<1>10. CallsRun' BY DEF OpTyped, CallsTyped, Calls, FlagsTyped, CallsRun, Over, Elements
<1>11. QueueOwned'
  <2>1. \A d \in CallIds : calls[d].pc = "sending" => calls'[d].pc = "sending" BY DEF CallsTyped, Calls
  <2>2. QED BY <2>1, QueueUnmoved
<1>12. CardsTold' BY DEF OpTyped, CallsTyped, Calls, BatchTyped, CardsTyped, CardsTold, Card1, CardPcs, Elements
<1>13. QED BY <1>1, <1>2, <1>3, <1>4, <1>5, <1>6, <1>7, <1>8, <1>9, <1>10, <1>11, <1>12

LEMMA PostCallHolds == ASSUME AcpInv, NEW c \in CallIds, PostCall(c) PROVE AcpInv'
<1> USE AcpAssumption DEF AcpInv, Typed, Waiting, PostCall, control, threads, stdio, state, work, counts, past, At, Idle, Cancelled, CallGoes, GroupDone
<1>1. FlagsTyped' BY DEF FlagsTyped
<1>2. QueueTyped' BY DEF QueueTyped, Frames
<1>3. StateTyped' BY DEF StateTyped
<1>4. OpTyped' BY DEF OpTyped, Pcs
<1>5. BatchTyped' BY DEF BatchTyped
<1>6. CallsTyped' BY DEF CallsTyped, Calls, SlotsTaken
<1>7. CardsTyped' BY DEF CardsTyped
<1>8. Conversation' BY DEF FlagsTyped, StateTyped, OpTyped, Conversation, ConversationChains, Pcs, PromptPcs, ModelPcs
<1>9. BatchShape' BY DEF OpTyped, BatchTyped, BatchShape, Elements
<1>10. CallsRun' BY DEF OpTyped, CallsTyped, Calls, FlagsTyped, CallsRun, Over, Elements
<1>11. QueueOwned'
  <2>1. \A d \in CallIds : calls[d].pc = "sending" => calls'[d].pc = "sending" BY DEF CallsTyped, Calls
  <2>2. QED BY <2>1, QueueUnmoved
<1>12. CardsTold' BY DEF OpTyped, CallsTyped, Calls, BatchTyped, CardsTyped, CardsTold, Card1, CardPcs, Elements
<1>13. QED BY <1>1, <1>2, <1>3, <1>4, <1>5, <1>6, <1>7, <1>8, <1>9, <1>10, <1>11, <1>12

LEMMA CallReturnsHolds == ASSUME AcpInv, NEW c \in CallIds, NEW outcome \in {"ok", "toolError", "error"}, CallReturns(c, outcome) PROVE AcpInv'
<1> USE AcpAssumption DEF AcpInv, Typed, Waiting, CallReturns, control, threads, stdio, state, work, counts, past, At, Idle, Cancelled, CallGoes, GroupDone
<1>1. FlagsTyped' BY DEF FlagsTyped
<1>2. QueueTyped' BY DEF QueueTyped, Frames
<1>3. StateTyped' BY DEF StateTyped
<1>4. OpTyped' BY DEF OpTyped, Pcs
<1>5. BatchTyped' BY DEF BatchTyped
<1>6. CallsTyped'
  <2> DEFINE x == [calls[c] EXCEPT !.pc = "settle", !.outcome = outcome]
  <2>1. calls[c] \in Calls BY DEF CallsTyped
  <2>2. x \in Calls /\ (x.slot => calls[c].slot) BY <2>1 DEF Calls
  <2>3. calls' = [calls EXCEPT ![c] = x] BY DEF CallsTyped
  <2> HIDE DEF x
  <2>4. calls' \in [CallIds -> Calls] BY <2>2, <2>3 DEF CallsTyped
  <2>5. \A d \in CallIds : calls'[d].slot => calls[d].slot BY <2>2, <2>3 DEF CallsTyped
  <2>6. QED BY <2>4, <2>5, SlotsKept
<1>7. CardsTyped' BY DEF CardsTyped
<1>8. Conversation' BY DEF FlagsTyped, StateTyped, OpTyped, Conversation, ConversationChains, Pcs, PromptPcs, ModelPcs
<1>9. BatchShape' BY DEF OpTyped, BatchTyped, BatchShape, Elements
<1>10. CallsRun' BY DEF OpTyped, CallsTyped, Calls, FlagsTyped, CallsRun, Over, Elements
<1>11. QueueOwned'
  <2>1. \A d \in CallIds : calls[d].pc = "sending" => calls'[d].pc = "sending" BY DEF CallsTyped, Calls
  <2>2. QED BY <2>1, QueueUnmoved
<1>12. CardsTold' BY DEF OpTyped, CallsTyped, Calls, BatchTyped, CardsTyped, CardsTold, Card1, CardPcs, Elements
<1>13. QED BY <1>1, <1>2, <1>3, <1>4, <1>5, <1>6, <1>7, <1>8, <1>9, <1>10, <1>11, <1>12

LEMMA SettleHolds == ASSUME AcpInv, NEW c \in CallIds, Settle(c) PROVE AcpInv'
<1> USE AcpAssumption DEF AcpInv, Typed, Waiting, Settle, control, threads, stdio, state, work, counts, past, At, Idle, Cancelled, CallGoes, GroupDone
<1>1. FlagsTyped' BY DEF FlagsTyped
<1>2. QueueTyped' BY DEF QueueTyped, Frames
<1>3. StateTyped' BY DEF StateTyped
<1>4. OpTyped' BY DEF OpTyped, Pcs
<1>5. BatchTyped' BY DEF BatchTyped
<1>6. CallsTyped'
  <2> DEFINE x == [calls[c] EXCEPT !.pc = IF calls[c].slot THEN "release" ELSE "event"]
  <2>1. calls[c] \in Calls BY DEF CallsTyped
  <2>2. x \in Calls /\ (x.slot => calls[c].slot) BY <2>1 DEF Calls
  <2>3. calls' = [calls EXCEPT ![c] = x] BY DEF CallsTyped
  <2> HIDE DEF x
  <2>4. calls' \in [CallIds -> Calls] BY <2>2, <2>3 DEF CallsTyped
  <2>5. \A d \in CallIds : calls'[d].slot => calls[d].slot BY <2>2, <2>3 DEF CallsTyped
  <2>6. QED BY <2>4, <2>5, SlotsKept
<1>7. CardsTyped' BY DEF CardsTyped
<1>8. Conversation' BY DEF FlagsTyped, StateTyped, OpTyped, Conversation, ConversationChains, Pcs, PromptPcs, ModelPcs
<1>9. BatchShape' BY DEF OpTyped, BatchTyped, BatchShape, Elements
<1>10. CallsRun'
  <2>1. At("tools") /\ c \in Elements(batch) BY DEF CallsRun, Over
  <2>2. \A d \in CallIds : d # c => calls'[d] = calls[d] BY DEF CallsTyped
  <2>3. calls'[c].pc \in {"release", "event"} /\ calls'[c].outcome = calls[c].outcome BY DEF CallsTyped, Calls
  <2>4. (failed' => revoked') /\ (failed => failed') /\ (calls[c].outcome = "error" => failed') BY DEF CallsRun
  <2>5. QED BY <2>1, <2>2, <2>3, <2>4 DEF CallsRun, Over, Elements
<1>11. QueueOwned'
  <2>1. \A d \in CallIds : calls[d].pc = "sending" => calls'[d].pc = "sending" BY DEF CallsTyped, Calls
  <2>2. QED BY <2>1, QueueUnmoved
<1>12. CardsTold' BY DEF OpTyped, CallsTyped, Calls, BatchTyped, CardsTyped, CardsTold, Card1, CardPcs, Elements
<1>13. QED BY <1>1, <1>2, <1>3, <1>4, <1>5, <1>6, <1>7, <1>8, <1>9, <1>10, <1>11, <1>12

LEMMA ReleaseHolds == ASSUME AcpInv, NEW c \in CallIds, Release(c) PROVE AcpInv'
<1> USE AcpAssumption DEF AcpInv, Typed, Waiting, Release, control, threads, stdio, state, work, counts, past, At, Idle, Cancelled, CallGoes, GroupDone
<1>1. FlagsTyped' BY DEF FlagsTyped
<1>2. QueueTyped' BY DEF QueueTyped, Frames
<1>3. StateTyped' BY DEF StateTyped
<1>4. OpTyped' BY DEF OpTyped, Pcs
<1>5. BatchTyped' BY DEF BatchTyped
<1>6. CallsTyped'
  <2> DEFINE x == [calls[c] EXCEPT !.pc = "event", !.slot = FALSE]
  <2>1. calls[c] \in Calls BY DEF CallsTyped
  <2>2. x \in Calls /\ (x.slot => calls[c].slot) BY <2>1 DEF Calls
  <2>3. calls' = [calls EXCEPT ![c] = x] BY DEF CallsTyped
  <2> HIDE DEF x
  <2>4. calls' \in [CallIds -> Calls] BY <2>2, <2>3 DEF CallsTyped
  <2>5. \A d \in CallIds : calls'[d].slot => calls[d].slot BY <2>2, <2>3 DEF CallsTyped
  <2>6. QED BY <2>4, <2>5, SlotsKept
<1>7. CardsTyped' BY DEF CardsTyped
<1>8. Conversation' BY DEF FlagsTyped, StateTyped, OpTyped, Conversation, ConversationChains, Pcs, PromptPcs, ModelPcs
<1>9. BatchShape' BY DEF OpTyped, BatchTyped, BatchShape, Elements
<1>10. CallsRun' BY DEF OpTyped, CallsTyped, Calls, FlagsTyped, CallsRun, Over, Elements
<1>11. QueueOwned'
  <2>1. \A d \in CallIds : calls[d].pc = "sending" => calls'[d].pc = "sending" BY DEF CallsTyped, Calls
  <2>2. QED BY <2>1, QueueUnmoved
<1>12. CardsTold' BY DEF OpTyped, CallsTyped, Calls, BatchTyped, CardsTyped, CardsTold, Card1, CardPcs, Elements
<1>13. QED BY <1>1, <1>2, <1>3, <1>4, <1>5, <1>6, <1>7, <1>8, <1>9, <1>10, <1>11, <1>12

LEMMA EventPutHolds == ASSUME AcpInv, NEW c \in CallIds, calls[c].pc = "event", Put(Card(c, CardStatus(c), c)), CallGoes(c, "sending"),
  UNCHANGED <<threads, inbox, done, cards, state, op, work, counts, past>> PROVE AcpInv'
<1> USE AcpAssumption DEF AcpInv, Typed, Waiting, control, threads, stdio, state, work, counts, past, At, Idle, Cancelled, CallGoes, Frame, Card
<1>0. CardStatus(c) \in {"completed", "failed"} BY DEF CardStatus
<1>a. Card(c, CardStatus(c), c) \in Frames BY <1>0 DEF Frames, QueueTyped, Statuses, Senders
<1>b. writes' \in Seq(Frames) /\ Waiting' \in 0..QueueCap /\ alive' = alive
  BY <1>a, PutFits
<1>c. calls'[c].pc = "sending" /\ \A d \in CallIds : d # c => calls'[d] = calls[d] BY DEF CallsTyped, Calls
<1>d. At("tools") /\ c \in Elements(batch) BY DEF CallsRun, Over
<1>1. FlagsTyped'
  BY <1>b DEF FlagsTyped
<1>2. QueueTyped'
  BY <1>b DEF QueueTyped, Frames
<1>3. StateTyped' BY DEF StateTyped
<1>4. OpTyped' BY DEF OpTyped, Pcs
<1>5. BatchTyped' BY DEF BatchTyped
<1>6. CallsTyped'
  <2>1. calls' \in [CallIds -> Calls] BY DEF CallsTyped, Calls
  <2>2. \A d \in CallIds : calls'[d].slot => calls[d].slot BY DEF CallsTyped, Calls
  <2>3. QED BY <2>1, <2>2, SlotsKept
<1>7. CardsTyped' BY DEF CardsTyped
<1>8. Conversation' BY DEF FlagsTyped, StateTyped, OpTyped, Conversation, ConversationChains, Pcs, PromptPcs, ModelPcs
<1>9. BatchShape' BY DEF OpTyped, BatchTyped, BatchShape, Elements
<1>10. CallsRun' BY DEF OpTyped, CallsTyped, Calls, FlagsTyped, CallsRun, Over, Elements
<1>11. QueueOwned'
  <2>1. SUFFICES ASSUME alive PROVE QueueOwned' BY <1>b DEF QueueOwned
  <2>2. c \notin done BY <2>1 DEF QueueOwned
  <2>3. \A g : Owned(g) => g.by # c BY DEF Owned, OwnedAt
  <2>4. \A g : Owned(g) => OwnedAt(g, op', calls', batch', prompts') BY <1>c, <2>3 DEF Owned, OwnedAt
  <2>5. OwnedAt(Card(c, CardStatus(c), c), op', calls', batch', prompts')
    BY <1>0, <1>c DEF OwnedAt, Responses, Senders
  <2>6. \A d \in CallIds : d \in done => calls'[d].pc = "sending" BY <1>c, <2>1 DEF QueueOwned
  <2>7. QED BY <1>a, <2>1, <2>2, <2>3, <2>4, <2>5, <2>6, PutOwned DEF QueueOwned
<1>12. CardsTold'
  <2>1. SUFFICES ASSUME alive PROVE CardsTold' BY <1>b DEF CardsTold
  <2>2. c \notin done BY <2>1 DEF QueueOwned
  <2>3. QED BY <1>c, <1>d, <2>1, <2>2 DEF OpTyped, CallsTyped, Calls, BatchTyped, CardsTyped, CardsTold, Card1, CardPcs, Elements
<1>13. QED BY <1>1, <1>2, <1>3, <1>4, <1>5, <1>6, <1>7, <1>8, <1>9, <1>10, <1>11, <1>12

LEMMA EventSkippedHolds == ASSUME AcpInv, NEW c \in CallIds, calls[c].pc = "event", Refused \/ Flood, EventLost(c),
  UNCHANGED <<threads, inbox, done, cards, state, op, request, seen, batch, counts, past>> PROVE AcpInv'
<1> USE AcpAssumption DEF AcpInv, Typed, Waiting, control, threads, stdio, state, work, counts, past, At, Idle, Cancelled, CallGoes, EventLost
<1>0. writes' = writes /\ alive' = FALSE BY DEF Refused, Flood, FlagsTyped
<1>1. FlagsTyped'
  BY <1>0 DEF FlagsTyped
<1>2. QueueTyped'
  BY <1>0 DEF QueueTyped, Frames
<1>3. StateTyped' BY DEF StateTyped
<1>4. OpTyped' BY DEF OpTyped, Pcs
<1>5. BatchTyped' BY DEF BatchTyped
<1>6. CallsTyped'
  <2>1. calls' \in [CallIds -> Calls] BY DEF CallsTyped, Calls
  <2>2. \A d \in CallIds : calls'[d].slot => calls[d].slot BY DEF CallsTyped, Calls
  <2>3. QED BY <2>1, <2>2, SlotsKept
<1>7. CardsTyped' BY DEF CardsTyped
<1>8. Conversation' BY DEF FlagsTyped, StateTyped, OpTyped, Conversation, ConversationChains, Pcs, PromptPcs, ModelPcs
<1>9. BatchShape' BY DEF OpTyped, BatchTyped, BatchShape, Elements
<1>10. CallsRun' BY DEF OpTyped, CallsTyped, Calls, FlagsTyped, CallsRun, Over, Elements
<1>11. QueueOwned'
  BY <1>0 DEF QueueOwned
<1>12. CardsTold'
  BY <1>0 DEF CardsTold
<1>13. QED BY <1>1, <1>2, <1>3, <1>4, <1>5, <1>6, <1>7, <1>8, <1>9, <1>10, <1>11, <1>12

LEMMA SendEventHolds == ASSUME AcpInv, NEW c \in CallIds, SendEvent(c) PROVE AcpInv'
BY EventPutHolds, EventSkippedHolds DEF SendEvent, work

LEMMA EventWrittenHolds == ASSUME AcpInv, NEW c \in CallIds, calls[c].pc = "sending", Sent(c), CallGoes(c, "over"),
  UNCHANGED <<control, cards, state, op, work, counts, past>> PROVE AcpInv'
<1> USE AcpAssumption DEF AcpInv, Typed, Waiting, control, threads, stdio, state, work, counts, past, At, Idle, Cancelled, CallGoes
<1>0. calls'[c].pc = "over" /\ \A d \in CallIds : d # c => calls'[d] = calls[d] BY DEF CallsTyped, Calls
<1>a. At("tools") /\ c \in Elements(batch) BY DEF CallsRun, Over
<1>b. writes' = writes /\ done' = done \ {c} /\ c \in done BY DEF Sent
<1>1. FlagsTyped' BY DEF FlagsTyped
<1>2. QueueTyped'
  BY <1>b DEF QueueTyped, Frames
<1>3. StateTyped' BY DEF StateTyped
<1>4. OpTyped' BY DEF OpTyped, Pcs
<1>5. BatchTyped' BY DEF BatchTyped
<1>6. CallsTyped'
  <2>1. calls' \in [CallIds -> Calls] BY DEF CallsTyped, Calls
  <2>2. \A d \in CallIds : calls'[d].slot => calls[d].slot BY DEF CallsTyped, Calls
  <2>3. QED BY <2>1, <2>2, SlotsKept
<1>7. CardsTyped' BY DEF CardsTyped
<1>8. Conversation' BY DEF FlagsTyped, StateTyped, OpTyped, Conversation, ConversationChains, Pcs, PromptPcs, ModelPcs
<1>9. BatchShape' BY DEF OpTyped, BatchTyped, BatchShape, Elements
<1>10. CallsRun'
  <2>1. calls'[c].outcome = calls[c].outcome BY DEF CallsTyped, Calls
  <2>2. QED BY <1>0, <1>a, <2>1 DEF CallsRun, Over, Elements
<1>11. QueueOwned'
  <2>1. SUFFICES ASSUME alive PROVE QueueOwned' BY DEF QueueOwned
  <2>2. \A g : Owned(g) /\ g.by # c => OwnedAt(g, op', calls', batch', prompts')
    BY <1>0 DEF Owned, OwnedAt
  <2>3. \A d \in CallIds : d \in done \ {c} => calls'[d].pc = "sending" BY <1>0, <2>1 DEF QueueOwned
  <2>4. QED BY <2>1, <2>2, <2>3, SentOwned DEF QueueOwned, Senders
<1>12. CardsTold'
  <2>1. SUFFICES ASSUME alive PROVE CardsTold' BY DEF CardsTold
  <2>2. cards[c] = "closed" BY <1>a, <1>b, <2>1 DEF CardsTold
  <2>3. Me # c BY AcpAssumption
  <2>4. QED BY <1>0, <1>a, <1>b, <2>1, <2>2, <2>3 DEF CardsTold, Card1, CardPcs, Elements
<1>13. QED BY <1>1, <1>2, <1>3, <1>4, <1>5, <1>6, <1>7, <1>8, <1>9, <1>10, <1>11, <1>12

LEMMA EventAbandonedHolds == ASSUME AcpInv, NEW c \in CallIds, calls[c].pc = "sending", GivesUp(c), EventLost(c),
  UNCHANGED <<control, cards, state, op, request, seen, batch, counts, past>> PROVE AcpInv'
<1> USE AcpAssumption DEF AcpInv, Typed, Waiting, control, threads, stdio, state, work, counts, past, At, Idle, Cancelled, CallGoes, EventLost
<1>1. FlagsTyped' BY DEF FlagsTyped
<1>2. QueueTyped'
  <2>1. Abandon(c) \in Seq(Frames) /\ Len(Abandon(c)) = Len(writes) BY AbandonTyped DEF Senders
  <2>2. QED BY <2>1 DEF QueueTyped, Frames, GivesUp
<1>3. StateTyped' BY DEF StateTyped
<1>4. OpTyped' BY DEF OpTyped, Pcs
<1>5. BatchTyped' BY DEF BatchTyped
<1>6. CallsTyped'
  <2>1. calls' \in [CallIds -> Calls] BY DEF CallsTyped, Calls
  <2>2. \A d \in CallIds : calls'[d].slot => calls[d].slot BY DEF CallsTyped, Calls
  <2>3. QED BY <2>1, <2>2, SlotsKept
<1>7. CardsTyped' BY DEF CardsTyped
<1>8. Conversation' BY DEF FlagsTyped, StateTyped, OpTyped, Conversation, ConversationChains, Pcs, PromptPcs, ModelPcs
<1>9. BatchShape' BY DEF OpTyped, BatchTyped, BatchShape, Elements
<1>10. CallsRun' BY DEF OpTyped, CallsTyped, Calls, FlagsTyped, CallsRun, Over, Elements
<1>11. QueueOwned'
  BY DEF QueueOwned, GivesUp
<1>12. CardsTold'
  BY DEF CardsTold, GivesUp
<1>13. QED BY <1>1, <1>2, <1>3, <1>4, <1>5, <1>6, <1>7, <1>8, <1>9, <1>10, <1>11, <1>12

LEMMA EventSentHolds == ASSUME AcpInv, NEW c \in CallIds, EventSent(c) PROVE AcpInv'
BY EventWrittenHolds, EventAbandonedHolds DEF EventSent, work

-----------------------------------------------------------------------------
LEMMA TypedIsTypeOK == ASSUME Typed PROVE TypeOK
<1>1. /\ {alive, initialized, revoked, failed, spoiled} \subseteq BOOLEAN
      /\ loop \in {"serving", "joining", "returned"}
      /\ writer \in {"waiting", "writing", "over"}
      /\ reader \in {"reading", "line", "end", "over"}
      /\ inbox \in {"empty", "line", "end"}
      /\ writes \in Seq([what : {"reply", "answer", "card", "text"},
                         of : Keys \cup CallIds \cup {NoKey},
                         status : Statuses, by : Senders \cup {NoOne},
                         prompt : 0..prompts])
      /\ Waiting \in 0..QueueCap /\ done \subseteq Senders
  BY DEF Typed, FlagsTyped, QueueTyped, Frames
<1>2. /\ session \in [open : BOOLEAN, poisoned : BOOLEAN, previous : 0..responses]
      /\ op \in [pc : Pcs, key : Keys \cup {NoKey}, cancelled : BOOLEAN,
                 error : BOOLEAN, at : Nat, chunks : 0..MaxChunks]
      /\ request \in [previous : 0..responses, outputs : SUBSET CallIds,
                      round : 0..MaxRounds]
      /\ seen \subseteq CallIds /\ Cardinality(seen) <= MaxCalls
      /\ batch \in Seq(CallIds)
  BY DEF Typed, StateTyped, OpTyped, BatchTyped
<1>3. /\ calls \in [CallIds -> [pc : {"none", "queued", "admitted", "posted", "settle", "release",
                                      "event", "sending", "over"},
                                outcome : {"none", "ok", "toolError", "error"}, slot : BOOLEAN]]
      /\ SlotsTaken <= Slots
      /\ lines \in Nat /\ responses \in Nat /\ prompts \in Nat
      /\ cards \in [CallIds -> {"none", "open", "closed"}]
  BY DEF Typed, CallsTyped, Calls, QueueTyped, StateTyped, CardsTyped
<1>4. QED BY <1>1, <1>2, <1>3 DEF TypeOK

LEMMA InitHolds == ASSUME Init PROVE AcpInv
<1> USE AcpAssumption DEF Init, Waiting
<1>1. FlagsTyped BY DEF FlagsTyped
<1>2. QueueTyped BY EmptySeq DEF QueueTyped
<1>3. StateTyped BY DEF StateTyped, NoRequest, Unheard
<1>4. OpTyped
  <2>1. "idle" \in Pcs /\ 0 \in 0..MaxChunks /\ 0 \in Nat BY DEF Pcs
  <2>2. op = [pc |-> "idle", key |-> NoKey, cancelled |-> FALSE,
              error |-> FALSE, at |-> 0, chunks |-> 0]
    BY DEF IdleOperation, NewOperation
  <2>3. QED BY <2>1, <2>2 DEF OpTyped
<1>5. BatchTyped BY EmptySeq, FS_EmptySet DEF BatchTyped
<1>6. CallsTyped
  <2>1. {c \in CallIds : calls[c].slot} = {} BY DEF NoCall
  <2>2. SlotsTaken = 0 BY <2>1, FS_EmptySet DEF SlotsTaken
  <2>3. NoCall \in Calls BY DEF Calls, NoCall
  <2>4. QED BY <2>2, <2>3 DEF CallsTyped
<1>7. CardsTyped BY DEF CardsTyped
<1>8. Conversation BY DEF Conversation, Idle, IdleOperation, NewOperation, At, PromptPcs, ModelPcs
<1>9. BatchShape BY DEF BatchShape, IdleOperation, NewOperation, Elements
<1>10. CallsRun BY DEF CallsRun, NoCall, Over, At, IdleOperation, NewOperation
<1>11. QueueOwned BY DEF QueueOwned
<1>12. CardsTold BY DEF CardsTold, Card1, CardPcs, IdleOperation, NewOperation, At
<1>13. QED BY <1>1, <1>2, <1>3, <1>4, <1>5, <1>6, <1>7, <1>8, <1>9, <1>10, <1>11, <1>12
       DEF AcpInv, Typed

LEMMA StepHolds == ASSUME AcpInv, [Next]_vars PROVE AcpInv'
<1>1. CASE UNCHANGED vars
  <2> USE <1>1 DEF vars, control, threads, Waiting, stdio, state, work, counts, past
  <2>1. Typed'
    BY DEF AcpInv, Typed, FlagsTyped, QueueTyped, Frames, StateTyped, OpTyped, BatchTyped, CallsTyped,
           SlotsTaken, CardsTyped
  <2>2. Conversation' /\ BatchShape'
    BY DEF AcpInv, Conversation, ConversationChains, BatchShape, Elements, At, Idle
  <2>3. CallsRun' /\ QueueOwned' /\ CardsTold'
    BY DEF AcpInv, CallsRun, QueueOwned, Owned, CardsTold, Card1, Elements, At
  <2>4. QED BY <2>1, <2>2, <2>3 DEF AcpInv
<1>2. CASE Accept
  BY <1>2, AcceptNothingHolds, AcceptGarbageHolds, AcceptCollisionHolds, AcceptUnsupportedHolds, AcceptInitializeHolds,
     AcceptNewSessionHolds, AcceptPromptHolds, AcceptCancelHolds
  DEF Accept
<1>3. CASE PeerAnswers
  BY <1>3, HandshakeHolds, DiscoverHolds, ModelAnswersHolds, ModelFailsHolds DEF PeerAnswers
<1>4. CASE Operate
  BY <1>4, OpenSessionHolds, BeginRoundHolds, AnnounceHolds, ShowHolds, AnnouncedHolds, WithdrawHolds,
     FailCardHolds, CardFailedHolds, WithdrawnHolds, StartBatchHolds, EndBatchHolds,
     OutputTextHolds, PrintChunkHolds, PrintedHolds, EndTextHolds, FinishPromptHolds
  DEF Operate
<1>5. ASSUME NEW c \in CallIds, RunCall(c) PROVE AcpInv'
  BY <1>5, AcquireHolds, CallCancelledHolds, PostCallHolds, CallReturnsHolds, SettleHolds,
     ReleaseHolds, SendEventHolds, EventSentHolds
  DEF RunCall
<1>6. CASE Write \/ WriteFails \/ ThreadStep
  BY <1>6, WriteHolds, WriteFailsHolds, ThreadStepHolds
<1>7. QED BY <1>1, <1>2, <1>3, <1>4, <1>5, <1>6 DEF Next, ThreadStep

(* The parts of the child's state fit together.                            *)
THEOREM AcpInvariant == Spec => []AcpInv
BY InitHolds, StepHolds, PTL DEF Spec

(* The queue never exceeds its capacity, a batch never its slots, a prompt *)
(* never its calls or rounds.                                              *)
THEOREM AcpTyped == Spec => []TypeOK
<1>1. AcpInv => TypeOK BY TypedIsTypeOK DEF AcpInv
<1>2. QED BY <1>1, AcpInvariant, PTL

(* No tool call and no update of a prompt outlives it.                     *)
THEOREM PromptLeavesNothing == Spec => []NothingOutlivesThePrompt
<1>1. AcpInv => NothingOutlivesThePrompt
  <2> SUFFICES ASSUME AcpInv PROVE NothingOutlivesThePrompt OBVIOUS
  <2>1. ~At("tools") => \A c \in CallIds : calls[c].pc \in {"none", "over"}
    BY DEF AcpInv, CallsRun, Over
  <2>2. Cardinality({c \in CallIds : calls[c].pc = "posted"}) <= Slots
    <3> DEFINE Posted == {c \in CallIds : calls[c].pc = "posted"}
    <3> DEFINE Taken  == {c \in CallIds : calls[c].slot}
    <3>1. Posted \subseteq Taken /\ Taken \subseteq CallIds BY DEF AcpInv, CallsRun
    <3>2. IsFiniteSet(Taken) BY <3>1, FS_Subset, AcpAssumption
    <3>3. IsFiniteSet(Posted) /\ Cardinality(Posted) <= Cardinality(Taken) BY <3>1, <3>2, FS_Subset
    <3>4. Cardinality(Posted) \in Nat /\ Cardinality(Taken) \in Nat BY <3>2, <3>3, FS_CardinalityType
    <3>5. Cardinality(Taken) <= Slots BY DEF AcpInv, Typed, CallsTyped, SlotsTaken
    <3>6. QED BY <3>3, <3>4, <3>5, AcpAssumption
  <2>3. ASSUME alive, NEW i \in DOMAIN writes, writes[i].what \notin Responses
        PROVE  /\ op.pc \in {"announcing", "withdrawing", "tools", "printing"}
               /\ writes[i].prompt = prompts
    <3>1. i \in 1..Len(writes) BY LenProperties DEF AcpInv, Typed, QueueTyped
    <3>2. Owned(writes[i]) BY <2>3, <3>1 DEF AcpInv, QueueOwned
    <3>3. writes[i].by \in CallIds => At("tools") BY <2>1, <3>2 DEF Owned, OwnedAt
    <3>4. QED BY <2>3, <3>2, <3>3 DEF Owned, OwnedAt, Senders, At
  <2>4. QED BY <2>1, <2>2, <2>3 DEF NothingOutlivesThePrompt
<1>2. QED BY <1>1, AcpInvariant, PTL

(* Every request to the model continues the conversation where it stands.  *)
THEOREM ConversationIsChained == Spec => []ConversationChains
<1>1. AcpInv => ConversationChains BY DEF AcpInv, Conversation, ConversationChains, At
<1>2. QED BY <1>1, AcpInvariant, PTL


-----------------------------------------------------------------------------
(* What a step does to the queue of frames.                                *)
LEMMA RespondAdds ==
  ASSUME QueueTyped, NEW f, Respond(f)
  PROVE  \/ Len(writes') = Len(writes) /\ Len(writes) \in Nat
         \/ Put(f) /\ Len(writes') = Len(writes) + 1 /\ Newest = f /\ Len(writes) \in Nat
<1>1. Len(writes) \in Nat BY DEF QueueTyped
<1>2. ASSUME Put(f) PROVE Len(writes') = Len(writes) + 1 /\ writes'[Len(writes) + 1] = f
  BY <1>1, <1>2 DEF Put, QueueTyped
<1>3. QED BY <1>1, <1>2 DEF Respond, Refused, Flood, Newest

\* Everything a step may do to the queue.
Quiet    == Len(writes') = Len(writes)
Told     == Newest.what \in {"card", "text"}
Replied  == Newest.what = "reply" /\ (Newest.of = NoKey \/ (Newest.of \in Keys /\ ~Collides(Newest.of)))
Opened   == Newest.what = "answer" /\ Newest.status # "end_turn" /\ op'.pc = "idle"
Finished == FinishPrompt /\ Newest = Answer(op.key, StopReason) /\ op'.pc = "idle"
QueueStep ==
  /\ Len(writes) \in Nat
  /\ \/ Quiet
     \/ Write \/ WriteFails
     \/ Len(writes') = Len(writes) + 1 /\ (Told \/ Replied \/ Opened \/ Finished)

LEMMA AcceptQueues == ASSUME AcpInv, Accept PROVE QueueStep
<1>1. QueueTyped /\ Len(writes) \in Nat BY DEF AcpInv, Typed, QueueTyped
<1>2. ASSUME NEW key \in Keys \cup {NoKey}, NEW status, AnswerAtOnce(key, status),
             key = NoKey \/ ~Collides(key)
      PROVE  QueueStep
  <2>1. Respond(Reply(key, status)) BY <1>2 DEF AnswerAtOnce
  <2>2. Reply(key, status).what = "reply" /\ Reply(key, status).of = key BY DEF Reply, Frame
  <2>3. QED BY <1>1, <1>2, <2>1, <2>2, RespondAdds DEF QueueStep, Quiet, Replied
<1>3. ASSUME UNCHANGED writes PROVE QueueStep BY <1>1, <1>3 DEF QueueStep, Quiet
<1>4. CASE AcceptNothing \/ AcceptGarbage
  BY <1>2, <1>3, <1>4 DEF AcceptNothing, AcceptGarbage, stdio
<1>5. ASSUME NEW key \in Keys,
             \/ AcceptCollision(key) \/ AcceptUnsupported(key)
             \/ \E valid \in BOOLEAN : \/ AcceptInitialize(key, valid) \/ AcceptNewSession(key, valid)
                                       \/ AcceptPrompt(key, valid)
      PROVE  QueueStep
  <2>1. CASE AcceptCollision(key) BY <1>3, <2>1 DEF AcceptCollision, stdio
  <2>2. CASE AcceptUnsupported(key) BY <1>2, <2>2 DEF AcceptUnsupported
  <2>3. ASSUME NEW valid \in BOOLEAN, AcceptInitialize(key, valid) PROVE QueueStep
    <3>1. ~Collides(key) BY <2>3 DEF AcceptInitialize
    <3>2. CASE AnswerAtOnce(key, "error") BY <1>2, <3>1, <3>2
    <3>3. CASE Respond(Reply(key, "initialized"))
      <4>1. Reply(key, "initialized").what = "reply" /\ Reply(key, "initialized").of = key
        BY DEF Reply, Frame
      <4>2. QED BY <1>1, <3>1, <3>3, <4>1, RespondAdds DEF QueueStep, Quiet, Replied
    <3>4. QED BY <2>3, <3>2, <3>3 DEF AcceptInitialize
  <2>4. ASSUME NEW valid \in BOOLEAN, AcceptNewSession(key, valid) PROVE QueueStep
    BY <1>2, <1>3, <2>4 DEF AcceptNewSession, stdio
  <2>5. ASSUME NEW valid \in BOOLEAN, AcceptPrompt(key, valid) PROVE QueueStep
    BY <1>2, <1>3, <2>5 DEF AcceptPrompt
  <2>6. QED BY <1>5, <2>1, <2>2, <2>3, <2>4, <2>5
<1>6. ASSUME NEW named \in Keys \cup {NoKey}, AcceptCancel(named) PROVE QueueStep
  BY <1>3, <1>6 DEF AcceptCancel, stdio
<1>7. QED BY <1>4, <1>5, <1>6 DEF Accept

LEMMA OperateQueues == ASSUME AcpInv, Operate PROVE QueueStep
<1>1. QueueTyped /\ Len(writes) \in Nat BY DEF AcpInv, Typed, QueueTyped
<1>2. ASSUME NEW f, Respond(f), f.what \in {"card", "text"} PROVE QueueStep
  BY <1>1, <1>2, RespondAdds DEF QueueStep, Quiet, Told
<1>3. ASSUME UNCHANGED writes PROVE QueueStep BY <1>1, <1>3 DEF QueueStep, Quiet
<1>4. ASSUME Sent(Me) \/ GivesUp(Me) PROVE QueueStep
  <2>1. Len(Abandon(Me)) = Len(writes) BY <1>1, AbandonTyped DEF Senders
  <2>2. QED BY <1>1, <1>4, <2>1 DEF QueueStep, Quiet, Sent, GivesUp
<1>5. CASE OpenSession
  <2>1. op'.pc = "idle" BY <1>5 DEF OpenSession, IdleOperation, NewOperation
  <2>2. PICK status \in {"error", "opened"} : Respond(Answer(op.key, status))
    BY <1>5 DEF OpenSession
  <2>3. Answer(op.key, status).what = "answer" /\ Answer(op.key, status).status = status
    BY DEF Answer, Frame
  <2>4. QED BY <1>1, <2>1, <2>2, <2>3, RespondAdds DEF QueueStep, Quiet, Opened
<1>6. CASE FinishPrompt
  <2>1. op'.pc = "idle" /\ Respond(Answer(op.key, StopReason))
    BY <1>6 DEF FinishPrompt, IdleOperation, NewOperation
  <2>2. QED BY <1>1, <1>6, <2>1, RespondAdds DEF QueueStep, Quiet, Finished
<1>7. CASE Show \/ FailCard
  <2>1. \A status : Card(batch[op.at + 1], status, Me).what = "card" BY DEF Card, Frame
  <2>2. QED BY <1>2, <1>3, <1>7, <2>1 DEF Show, FailCard, Respond, Flood, Refused
<1>8. CASE PrintChunk
  <2>1. Text.what = "text" BY DEF Text, Frame
  <2>2. QED BY <1>2, <1>3, <1>8, <2>1 DEF PrintChunk, Respond, Flood, Refused
<1>9. CASE Announced \/ CardFailed \/ Printed BY <1>4, <1>9 DEF Announced, CardFailed, Printed
<1>10. CASE \/ BeginRound \/ Announce \/ Withdraw \/ Withdrawn \/ StartBatch \/ EndBatch
             \/ OutputText \/ EndText
  BY <1>3, <1>10
  DEF BeginRound, Announce, Withdraw, Withdrawn, StartBatch, EndBatch, OutputText, EndText, stdio
<1>11. QED BY <1>5, <1>6, <1>7, <1>8, <1>9, <1>10 DEF Operate

LEMMA StepQueues == ASSUME AcpInv, [Next]_vars PROVE QueueStep
<1>1. QueueTyped /\ Len(writes) \in Nat BY DEF AcpInv, Typed, QueueTyped
<1>2. ASSUME UNCHANGED writes PROVE QueueStep BY <1>1, <1>2 DEF QueueStep, Quiet
<1>3. CASE UNCHANGED vars \/ PeerAnswers \/ ThreadStep
  BY <1>2, <1>3 DEF vars, stdio, PeerAnswers, Handshake, Discover, ModelAnswers, ModelFails,
                    ThreadStep, BeginWrite, WriterStops, ReadReturns, HandOver, ReaderStops,
                    ServeReturns, Join
<1>4. ASSUME NEW c \in CallIds, RunCall(c) PROVE QueueStep
  <2>1. CASE SendEvent(c)
    <3>1. Card(c, CardStatus(c), c).what = "card" BY DEF Card, Frame
    <3>2. Respond(Card(c, CardStatus(c), c)) BY <2>1 DEF SendEvent, Respond
    <3>3. QED BY <1>1, <3>1, <3>2, RespondAdds DEF QueueStep, Quiet, Told
  <2>2. CASE EventSent(c)
    <3>1. Len(Abandon(c)) = Len(writes) BY <1>1, AbandonTyped DEF Senders
    <3>2. QED BY <1>1, <2>2, <3>1 DEF EventSent, QueueStep, Quiet, Sent, GivesUp
  <2>3. QED
    BY <1>2, <1>4, <2>1, <2>2
    DEF RunCall, Acquire, CallCancelled, PostCall, CallReturns, Settle, Release, stdio
<1>5. CASE Write \/ WriteFails BY <1>1, <1>5 DEF QueueStep
<1>6. QED BY <1>3, <1>4, <1>5, AcceptQueues, OperateQueues DEF Next, ThreadStep

\* A frame leaves the queue at its head.
LEMMA WriteShrinks ==
  ASSUME AcpInv, Write \/ WriteFails
  PROVE  Len(writes') < Len(writes) /\ ~(Len(writes') > Len(writes))
<1>1. writes \in Seq(Frames) /\ writes # <<>>
  <2>1. writes \in Seq(Frames) /\ Len(writes) \in Nat BY DEF AcpInv, Typed, QueueTyped
  <2>2. writer = "writing" => Len(writes) > 0 BY <2>1 DEF AcpInv, Typed, QueueTyped, Waiting
  <2>3. QED BY <2>1, <2>2, EmptySeq DEF Write, WriteFails
<1>2. writes' = Tail(writes) BY DEF Write, WriteFails
<1>3. QED BY <1>1, <1>2

(* While a request is live, the next answer under its identity is its own. *)
THEOREM AnswersBelong == Spec => AnswersAreOwn
<1>1. AcpInv /\ [Next]_vars =>
        [Queued(Responses) /\ ~Idle /\ Newest.of = op.key => op'.pc = "idle"]_vars
  <2> SUFFICES ASSUME AcpInv, [Next]_vars, Len(writes') > Len(writes),
                      Newest.what \in Responses, ~Idle, Newest.of = op.key
               PROVE  op'.pc = "idle"
    BY DEF Queued
  <2>1. op.key \in Keys BY DEF AcpInv, Conversation
  <2>2. op.key # NoKey BY <2>1, AcpAssumption
  <2>3. ~Told BY DEF Told, Responses
  <2>4. ~Replied BY <2>2 DEF Replied, Collides
  <2>5. ~Quiet /\ ~Write /\ ~WriteFails BY WriteShrinks, StepQueues DEF Quiet, QueueStep
  <2>6. QED BY <2>3, <2>4, <2>5, StepQueues DEF QueueStep, Opened, Finished
<1>2. QED BY <1>1, AcpInvariant, PTL DEF Spec, AnswersAreOwn

(* end_turn is answered only when everything of the prompt has been told.  *)
THEOREM EndTurnIsTrue == Spec => EndTurnIsEarned
<1>1. AcpInv /\ [Next]_vars =>
        [Queued({"answer"}) /\ Newest.status = "end_turn" =>
            /\ ~Cancelled
            /\ heard.final /\ op.chunks = 0
            /\ \A c \in CallIds : cards[c] # "open"
            /\ \A i \in DOMAIN writes : writes[i].what \in Responses]_vars
  <2> SUFFICES ASSUME AcpInv, [Next]_vars, Len(writes') > Len(writes),
                      Newest.what = "answer", Newest.status = "end_turn"
               PROVE  /\ ~Cancelled
                      /\ heard.final /\ op.chunks = 0
                      /\ \A c \in CallIds : cards[c] # "open"
                      /\ \A i \in DOMAIN writes : writes[i].what \in Responses
    BY DEF Queued
  <2>1. ~Quiet /\ ~Write /\ ~WriteFails BY WriteShrinks, StepQueues DEF Quiet, QueueStep
  <2>2. Finished BY <2>1, StepQueues DEF QueueStep, Told, Replied, Opened
  <2>3. Answer(op.key, StopReason).status = StopReason BY DEF Answer, Frame
  <2>4. StopReason = "end_turn" /\ At("finish") BY <2>2, <2>3 DEF Finished, FinishPrompt
  <2>5. ~Cancelled /\ ~op.error /\ alive BY <2>4 DEF StopReason, Cancelled
  <2>6. heard.final /\ op.chunks = 0 BY <2>4, <2>5 DEF AcpInv, Conversation
  <2>7. \A c \in CallIds : cards[c] # "open"
    BY <2>4, <2>5 DEF AcpInv, CardsTold, CardPcs, At
  <2>8. ASSUME NEW i \in DOMAIN writes PROVE writes[i].what \in Responses
    <3>1. i \in 1..Len(writes) BY LenProperties DEF AcpInv, Typed, QueueTyped
    <3>2. Owned(writes[i]) BY <2>5, <3>1 DEF AcpInv, QueueOwned
    <3>3. \A c \in CallIds : calls[c].pc # "sending" BY <2>4 DEF AcpInv, CallsRun, Over, At
    <3>4. QED BY <2>4, <3>2, <3>3 DEF Owned, OwnedAt, Senders, At
  <2>9. QED BY <2>5, <2>6, <2>7, <2>8
<1>2. QED BY <1>1, AcpInvariant, PTL DEF Spec, EndTurnIsEarned

(* A card opens once, then closes once; nothing else is written over it.   *)
THEOREM CardsAreTold == Spec => CardsOpenAndClose
<1>1. AcpInv /\ [Next]_vars =>
        [alive /\ alive' /\ writes # <<>> /\ Len(writes') < Len(writes)
            => InOrder(Head(writes))]_vars
  <2> SUFFICES ASSUME AcpInv, [Next]_vars, alive, alive', writes # <<>>,
                      Len(writes') < Len(writes)
               PROVE  InOrder(Head(writes))
    OBVIOUS
  <2> DEFINE f == writes[1]
  <2>1. writes \in Seq(Frames) BY DEF AcpInv, Typed, QueueTyped
  <2>2. 1 \in 1..Len(writes) /\ Head(writes) = f /\ f \in Frames
    BY <2>1, EmptySeq, ElementOfSeq, LenProperties
  <2>3. Owned(f) /\ f.by \notin done BY <2>2 DEF AcpInv, QueueOwned
  <2>4. \A i \in 1..Len(batch) : Card1(i) BY DEF AcpInv, CardsTold
  <2>5. f.what = "reply" => InOrder(f) BY DEF InOrder
  <2>6. op.pc \notin CardPcs => \A c \in CallIds : cards[c] # "open" BY DEF AcpInv, CardsTold
  <2>7. f.by = Me /\ op.pc \in {"announcing", "withdrawing"} => op.at + 1 \in 1..Len(batch)
    BY DEF AcpInv, BatchShape, BatchTyped, OpTyped, Typed
  <2>8. ASSUME f.what = "card" PROVE InOrder(f)
    <3>1. f.by \in Senders BY <2>3, <2>8 DEF Owned, OwnedAt, Responses
    <3>2. CASE f.by \in CallIds
      <4>1. f.of = f.by /\ f.status # "in_progress" /\ calls[f.by].pc = "sending"
        BY <2>3, <3>2 DEF Owned, OwnedAt
      <4>2. At("tools") /\ f.by \in Elements(batch) BY <3>2, <4>1 DEF AcpInv, CallsRun, Over
      <4>3. cards[f.by] = "open" BY <2>3, <3>2, <4>1, <4>2 DEF AcpInv, CardsTold
      <4>4. QED BY <2>8, <4>1, <4>3 DEF InOrder
    <3>3. CASE f.by = Me
      <4>1. \/ At("announcing") /\ f.of = batch[op.at + 1] /\ f.status = "in_progress"
            \/ At("withdrawing") /\ f.of = batch[op.at + 1] /\ f.status # "in_progress"
        BY <2>3, <2>8, <3>3 DEF Owned, OwnedAt, At
      <4>2. op.at + 1 \in 1..Len(batch) BY <2>7, <3>3, <4>1 DEF At
      <4>3. Card1(op.at + 1) BY <2>4, <4>2
      <4>4. Me \notin done BY <2>3, <3>3
      <4>5. \/ f.status = "in_progress" /\ cards[f.of] = "none"
            \/ f.status # "in_progress" /\ cards[f.of] = "open"
        BY <4>1, <4>3, <4>4 DEF Card1, At
      <4>6. QED BY <2>8, <4>5 DEF InOrder
    <3>4. QED BY <3>1, <3>2, <3>3 DEF Senders
  <2>9. ASSUME f.what \in {"answer", "text"} PROVE InOrder(f)
    <3>1. ASSUME f.prompt = prompts PROVE op.pc \notin CardPcs
      <4>1. CASE f.what = "answer"
        BY <2>3, <3>1, <4>1 DEF Owned, OwnedAt, CardPcs, PromptPcs, Pcs
      <4>2. CASE f.what = "text"
        BY <2>3, <4>2 DEF Owned, OwnedAt, Senders, Responses, CardPcs
      <4>3. QED BY <2>9, <4>1, <4>2
    <3>2. QED BY <2>6, <2>9, <3>1 DEF InOrder
  <2>10. f.what \in {"reply", "answer", "card", "text"} BY <2>2 DEF Frames
  <2>11. QED BY <2>2, <2>5, <2>8, <2>9, <2>10
<1>2. QED BY <1>1, AcpInvariant, PTL DEF Spec, CardsOpenAndClose

(* No call is sent after the first error of its batch.                     *)
THEOREM RevokedBatchIsOver == Spec => RevokedBatchAdmitsNothing
<1>1. AcpInv /\ [Next]_vars =>
        [\A c \in CallIds : calls[c].pc = "admitted" /\ calls'[c].pc = "posted" =>
            /\ ~failed
            /\ \A d \in CallIds : calls[d].outcome = "error" => calls[d].pc = "settle"]_vars
  <2> SUFFICES ASSUME AcpInv, [Next]_vars, NEW c \in CallIds,
                      calls[c].pc = "admitted", calls'[c].pc = "posted"
               PROVE  /\ ~failed
                      /\ \A d \in CallIds : calls[d].outcome = "error" => calls[d].pc = "settle"
    OBVIOUS
  <2>1. calls \in [CallIds -> Calls] BY DEF AcpInv, Typed, CallsTyped
  <2>2. ~UNCHANGED calls OBVIOUS
  <2>3. ~Accept
    BY <2>2 DEF Accept, AcceptNothing, AcceptGarbage, AnswerAtOnce, AcceptCollision, AcceptUnsupported,
       AcceptInitialize, AcceptNewSession, AcceptPrompt, AcceptCancel, work, NoCall
  <2>4. ~PeerAnswers /\ ~Write /\ ~WriteFails /\ ~ThreadStep
    BY <2>2 DEF PeerAnswers, Handshake, Discover, ModelAnswers, ModelFails, work,
       Write, WriteFails, ThreadStep, BeginWrite, WriterStops, ReadReturns, HandOver, ReaderStops,
       ServeReturns, Join
  <2>5. ~Operate
    <3>1. ~StartBatch BY <2>1 DEF StartBatch, NoCall
    <3>2. QED
      BY <2>2, <3>1 DEF Operate, OpenSession, BeginRound, Announce, Show, Announced, Withdraw, FailCard,
         CardFailed, Withdrawn, EndBatch, OutputText, PrintChunk, Printed, EndText, FinishPrompt, work
  <2>6. PICK b \in CallIds : RunCall(b) BY <2>2, <2>3, <2>4, <2>5 DEF Next, ThreadStep, vars
  <2>7. b = c /\ PostCall(b)
    <3>1. CASE Acquire(b) BY <2>1, <3>1 DEF Acquire
    <3>2. CASE CallCancelled(b) BY <2>1, <3>2 DEF CallCancelled
    <3>3. CASE PostCall(b) BY <2>1, <3>3 DEF PostCall, CallGoes
    <3>4. ASSUME NEW outcome \in {"ok", "toolError", "error"}, CallReturns(b, outcome)
          PROVE  FALSE
      BY <2>1, <3>4 DEF CallReturns
    <3>5. CASE Settle(b) BY <2>1, <3>5 DEF Settle, CallGoes
    <3>6. CASE Release(b) BY <2>1, <3>6 DEF Release
    <3>7. CASE SendEvent(b) BY <2>1, <3>7 DEF SendEvent, CallGoes, EventLost
    <3>8. CASE EventSent(b) BY <2>1, <3>8 DEF EventSent, CallGoes, EventLost
    <3>9. QED BY <2>6, <3>1, <3>2, <3>3, <3>4, <3>5, <3>6, <3>7, <3>8 DEF RunCall
  <2>8. ~failed BY <2>7 DEF AcpInv, CallsRun, PostCall, GroupDone
  <2>9. QED BY <2>8 DEF AcpInv, CallsRun
<1>2. QED BY <1>1, AcpInvariant, PTL DEF Spec, RevokedBatchAdmitsNothing
===============================================================================
