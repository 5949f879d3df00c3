-------------------------- MODULE TurnAdapterProofs --------------------------
(***************************************************************************)
(* Theorems about the turn adapter: type correctness, the shape of event   *)
(* streams, admission, the checkpoint of a session, and what is sent to    *)
(* the provider and told to the client.                                    *)
(***************************************************************************)
EXTENDS TurnAdapter, FiniteSetTheorems, SequenceTheorems, TLAPS

-----------------------------------------------------------------------------
(* The inductive invariant.  First the frames: those of a turn that goes   *)
(* on, which show the calls C and the results R, and those of a turn that  *)
(* ended.                                                                  *)
FrameAt(fs, k) ==
  /\ fs[k].type = "started" <=> k = 1
  /\ fs[k].type = "result" => fs[k].n \in Shown(SubSeq(fs, 1, k - 1), "call")

Ordered(fs) ==
  /\ fs \in Seq(Frame) /\ \A k \in DOMAIN fs : FrameAt(fs, k)
  /\ Once(fs, "call") /\ Once(fs, "result")

Growing(fs, C, R) ==
  /\ Ordered(fs) /\ Len(fs) < MaxEvents
  /\ \A k \in DOMAIN fs : fs[k].type \notin Terminal
  /\ Shown(fs, "call") = C /\ Shown(fs, "result") = R

Over(fs) ==
  /\ Ordered(fs) /\ fs # <<>> /\ Len(fs) <= MaxEvents
  /\ \A k \in DOMAIN fs : fs[k].type \in Terminal <=> k = Len(fs)
  /\ LastOf(fs).type = "completed" =>
       LastOf(fs).n = OutputOf(fs) /\ Shown(fs, "call") = Shown(fs, "result")

(* Where the turn is.                                                      *)
StageInv(x) ==
  /\ x.pc = "unborn" <=> x.id = None
  /\ x.pc = "unborn" => x = Unborn
  /\ x.initializing <=> x.pc \in {"session", "init"}
  /\ x.inFlight = 1 <=> x.pc \in {"invoking", "failing"}
  /\ x.pc \in {"unborn", "session", "init"} => x.round = 0
  /\ x.pc \in {"invoking", "failing"} => x.round > 0

(* A turn that goes on: what its frames show is what it has recorded.  Text *)
(* that was streamed has been shown or is pending.                          *)
FrameInv(x) ==
  /\ Growing(x.frames, x.submitted \cup x.tools, x.submitted)
  /\ x.started <=> x.frames # <<>>
  /\ x.pending > 0 => x.started
  /\ x.submitted \cap x.tools = {} /\ x.buffered \subseteq x.tools
  /\ ~x.exposed => (x.submitted \cup x.tools) \cap WriteCalls = {}
TextInv(x) == OutputOf(x.frames) + x.pending = x.text

(* Its control, with the calls a of its latest response, and the last      *)
(* invocation n that the provider answered.                                *)
ControlInv(x, a, n) ==
  /\ x.round = 0 => x.text = 0 /\ a = {}
  /\ x.tools # {} => x.round < MaxRounds /\ x.round > 0
  /\ x.pc \in {"session", "init", "launch"} => x.tools = {} /\ x.round < MaxRounds
  /\ x.waiting => x.tools # {} /\ x.pc = "none"
  /\ x.pc = "none" /\ x.round > 0 => x.waiting
  /\ x.pc \in {"invoking", "none"} => a = x.tools
  /\ ~x.uncertain => n = x.round

OpenInv(x, a, n) == FrameInv(x) /\ TextInv(x) /\ ControlInv(x, a, n)

ClosedInv(x, n) ==
  /\ Over(x.frames) /\ x.pending = 0
  /\ LastOf(x.frames).retry =>
       n = x.round /\ Shown(x.frames, "call") \cap WriteCalls = {}

TurnInv(x, a, n) ==
  /\ x \in TurnState /\ StageInv(x)
  /\ Completed(x) => ClosedInv(x, n)
  /\ ~Completed(x) => OpenInv(x, a, n)
  /\ x.pc = "launch" /\ x.round > 0 => x.outputs = a

(* A turn that failed to initialize; turns that hold a place of their      *)
(* session.                                                                *)
Dead(x) == x.pc = "none" /\ x.round = 0 /\ ~Completed(x)
Ran(x) == x.pc # "unborn" /\ ~Dead(x)
Holds(x) == Ran(x) /\ (~Completed(x) \/ x.inFlight = 1)
Holders == {i \in Turns : Holds(t[i])}

MapInv ==
  /\ \A id \in TurnIds : turns[id] # 0 => Ran(t[turns[id]]) /\ t[turns[id]].id = id
  /\ \A i \in Holders : turns[t[i].id] = i
  /\ \A i \in Turns : Completed(t[i]) => t[i].id \in tomb

PlaceInv ==
  /\ \A i, j \in Turns : Ran(t[i]) /\ Ran(t[j]) /\ t[i].id = t[j].id => i = j
  /\ \A i, j \in Holders : SessionOf[t[i].id] = SessionOf[t[j].id] => i = j
  /\ Cardinality(Holders) <= MaxConcurrent

CheckpointInv ==
  /\ \A s \in Sessions : runtime[s].previous \in resolved \cup {None}
  /\ \A i \in Turns : t[i].previous \in resolved \cup {None}

Honest(fs) ==
  \/ fs # <<>> /\ LastOf(fs).type \in Terminal
  \/ ~(Shown(fs, "call") \subseteq Shown(fs, "result"))

ReaderInv ==
  \A i \in Turns :
    /\ reader[i].pos <= Len(t[i].frames)
    /\ reader[i].idle \/ reader[i].done => Honest(SubSeq(t[i].frames, 1, reader[i].pos))

AdapterInv ==
  /\ TypeOK /\ \A i \in Turns : TurnInv(t[i], asked[i], answered[i])
  /\ MapInv /\ PlaceInv /\ CheckpointInv /\ ReaderInv
-----------------------------------------------------------------------------
(* Lemmas about frames.                                                    *)

(* The assumptions on the constants, one by one.                           *)
LEMMA Constants ==
  /\ SessionOf \in [TurnIds -> STRING] /\ BrokeredIds \subseteq TurnIds
  /\ Calls \subseteq Nat /\ IsFiniteSet(Calls) /\ WriteCalls \subseteq Calls
  /\ Pinned \in BOOLEAN
  /\ MaxConcurrent \in Nat \ {0} /\ MaxRetained \in Nat \ {0} /\ MaxOutput \in Nat \ {0}
  /\ FlushAt \in Nat \ {0} /\ MaxTurns \in Nat \ {0} /\ MaxRounds \in Nat \ {0}
  /\ MaxEvents \in Nat /\ MaxEvents > 1
  /\ Watched \subseteq Turns /\ None \notin TurnIds
  /\ Turns \subseteq Nat \ {0} /\ IsFiniteSet(Turns) /\ Cardinality(Turns) = MaxTurns
<1>1. /\ SessionOf \in [TurnIds -> STRING] /\ BrokeredIds \subseteq TurnIds
      /\ Calls \subseteq Nat /\ IsFiniteSet(Calls) /\ WriteCalls \subseteq Calls
      /\ Pinned \in BOOLEAN
      /\ MaxConcurrent \in Nat \ {0} /\ MaxRetained \in Nat \ {0} /\ MaxOutput \in Nat \ {0}
      /\ FlushAt \in Nat \ {0} /\ MaxTurns \in Nat \ {0} /\ MaxRounds \in Nat \ {0}
      /\ MaxEvents \in Nat /\ MaxEvents > 1
      /\ Watched \subseteq Turns /\ None \notin TurnIds
  BY TurnAssumption DEF TurnAssumption, Turns
<1>2. IsFiniteSet(Turns) /\ Cardinality(Turns) = MaxTurns
  BY <1>1, FS_Interval DEF Turns
<1> QED BY <1>1, <1>2 DEF Turns

(* A sequence that goes on where another one ends.                         *)
Ext(fs, gs) == Len(fs) <= Len(gs) /\ \A k \in 1..Len(fs) : gs[k] = fs[k]

(* A frame is a record of its three fields.                                *)
LEMMA FrameFields ==
  /\ \A f \in Frame : f.type \in FrameTypes /\ f.n \in Nat /\ f.retry \in BOOLEAN
  /\ \A type \in FrameTypes, n \in Nat :
       F(type, n) \in Frame /\ F(type, n).type = type /\ F(type, n).n = n /\ ~F(type, n).retry
  BY DEF Frame, F

(* What a prefix shows.                                                    *)
LEMMA PrefixShows ==
  ASSUME NEW fs \in Seq(Frame), NEW m \in 0..Len(fs), NEW type
  PROVE  Shown(SubSeq(fs, 1, m), type) = {fs[k].n : k \in {k \in 1..m : fs[k].type = type}}
<1> DEFINE p == SubSeq(fs, 1, m)
<1>1. Len(p) = m /\ p \in Seq(Frame) /\ \A k \in 1..m : p[k] = fs[k]
  OBVIOUS
<1>2. DOMAIN p = 1..m
  BY <1>1
<1> HIDE DEF p
<1>3. Shown(p, type) = {fs[k].n : k \in {k \in 1..m : fs[k].type = type}}
  BY <1>1, <1>2 DEF Shown
<1> QED BY <1>3 DEF p

(* The places of a concatenation.                                          *)
LEMMA Joined ==
  ASSUME NEW fs \in Seq(Frame), NEW gs \in Seq(Frame)
  PROVE  /\ fs \o gs \in Seq(Frame) /\ Len(fs \o gs) = Len(fs) + Len(gs)
         /\ \A k \in 1..Len(fs) : (fs \o gs)[k] = fs[k]
         /\ \A k \in 1..Len(gs) : (fs \o gs)[Len(fs) + k] = gs[k]
         /\ \A k \in 1..Len(fs \o gs) : k \notin 1..Len(fs) =>
              k - Len(fs) \in 1..Len(gs) /\ (fs \o gs)[k] = gs[k - Len(fs)]
         /\ Ext(fs, fs \o gs)
  BY DEF Ext

(* What a concatenation shows.                                             *)
LEMMA JoinedShows ==
  ASSUME NEW fs \in Seq(Frame), NEW gs \in Seq(Frame), NEW type
  PROVE  Shown(fs \o gs, type) = Shown(fs, type) \cup Shown(gs, type)
<1> DEFINE h == fs \o gs
<1>1. /\ h \in Seq(Frame) /\ Len(h) = Len(fs) + Len(gs)
      /\ \A k \in 1..Len(fs) : h[k] = fs[k]
      /\ \A k \in 1..Len(gs) : h[Len(fs) + k] = gs[k]
      /\ \A k \in 1..Len(h) : k \notin 1..Len(fs) =>
           k - Len(fs) \in 1..Len(gs) /\ h[k] = gs[k - Len(fs)]
  BY Joined
<1>2. DOMAIN h = 1..Len(h) /\ DOMAIN fs = 1..Len(fs) /\ DOMAIN gs = 1..Len(gs)
  BY <1>1
<1>3. Len(fs) \in Nat /\ Len(gs) \in Nat
  OBVIOUS
<1> HIDE DEF h
<1>4. ASSUME NEW c \in Shown(h, type) PROVE c \in Shown(fs, type) \cup Shown(gs, type)
  <2>1. PICK k \in 1..Len(h) : h[k].type = type /\ h[k].n = c
    BY <1>2, <1>4 DEF Shown
  <2> QED BY <1>1, <1>2, <2>1 DEF Shown
<1>5. Shown(fs, type) \subseteq Shown(h, type)
  BY <1>1, <1>2, <1>3 DEF Shown
<1>6. ASSUME NEW c \in Shown(gs, type) PROVE c \in Shown(h, type)
  <2>1. PICK k \in 1..Len(gs) : gs[k].type = type /\ gs[k].n = c
    BY <1>2, <1>6 DEF Shown
  <2>2. Len(fs) + k \in 1..Len(h) /\ h[Len(fs) + k] = gs[k]
    BY <1>1, <1>3, <2>1
  <2> QED BY <1>2, <2>1, <2>2 DEF Shown
<1>7. Shown(h, type) = Shown(fs, type) \cup Shown(gs, type)
  BY <1>4, <1>5, <1>6
<1> QED BY <1>7 DEF h

(* No frame of a concatenation is shown twice if none of its parts is and  *)
(* they share none.                                                        *)
LEMMA JoinedOnce ==
  ASSUME NEW fs \in Seq(Frame), NEW gs \in Seq(Frame), NEW type,
         Once(fs, type), Once(gs, type), Shown(fs, type) \cap Shown(gs, type) = {}
  PROVE  Once(fs \o gs, type)
<1> DEFINE h == fs \o gs
<1>1. /\ h \in Seq(Frame) /\ Len(h) = Len(fs) + Len(gs)
      /\ \A k \in 1..Len(fs) : h[k] = fs[k]
      /\ \A k \in 1..Len(h) : k \notin 1..Len(fs) =>
           k - Len(fs) \in 1..Len(gs) /\ h[k] = gs[k - Len(fs)]
  BY Joined
<1>2. DOMAIN h = 1..Len(h) /\ DOMAIN fs = 1..Len(fs) /\ DOMAIN gs = 1..Len(gs)
  BY <1>1
<1> HIDE DEF h
<1>3. ASSUME NEW k \in DOMAIN h, NEW l \in DOMAIN h, h[k] = h[l], h[k].type = type
      PROVE  k = l
  <2>1. CASE k \in 1..Len(fs) /\ l \in 1..Len(fs)
    BY <1>1, <1>2, <1>3, <2>1 DEF Once
  <2>2. CASE k \in 1..Len(fs) /\ l \notin 1..Len(fs)
    <3>1. h[k].n \in Shown(fs, type) /\ h[l].n \in Shown(gs, type)
      BY <1>1, <1>2, <1>3, <2>2 DEF Shown
    <3> QED BY <1>3, <3>1
  <2>3. CASE k \notin 1..Len(fs) /\ l \in 1..Len(fs)
    <3>1. h[l].n \in Shown(fs, type) /\ h[k].n \in Shown(gs, type)
      BY <1>1, <1>2, <1>3, <2>3 DEF Shown
    <3> QED BY <1>3, <3>1
  <2>4. CASE k \notin 1..Len(fs) /\ l \notin 1..Len(fs)
    <3>1. /\ k - Len(fs) \in DOMAIN gs /\ h[k] = gs[k - Len(fs)]
          /\ l - Len(fs) \in DOMAIN gs /\ h[l] = gs[l - Len(fs)]
      BY <1>1, <1>2, <1>3, <2>4
    <3>2. k - Len(fs) = l - Len(fs)
      BY <1>3, <3>1 DEF Once
    <3> QED BY <1>1, <1>2, <1>3, <3>2
  <2> QED BY <2>1, <2>2, <2>3, <2>4
<1>4. Once(h, type)
  BY <1>3 DEF Once
<1> QED BY <1>4 DEF h

(* Frames gs may follow frames fs.                                         *)
LEMMA JoinedOrdered ==
  ASSUME NEW fs, Ordered(fs), fs # <<>>, NEW gs \in Seq(Frame),
         Once(gs, "call"), Once(gs, "result"),
         \A k \in 1..Len(gs) : /\ gs[k].type # "started"
                               /\ gs[k].type = "result" => gs[k].n \in Shown(fs, "call"),
         Shown(fs, "call") \cap Shown(gs, "call") = {},
         Shown(fs, "result") \cap Shown(gs, "result") = {}
  PROVE  Ordered(fs \o gs)
<1> DEFINE h == fs \o gs
<1>1. fs \in Seq(Frame) /\ Len(fs) \in Nat /\ Len(fs) > 0 /\ Once(fs, "call") /\ Once(fs, "result")
  BY DEF Ordered
<1>2. /\ h \in Seq(Frame) /\ Len(h) = Len(fs) + Len(gs)
      /\ \A k \in 1..Len(fs) : h[k] = fs[k]
      /\ \A k \in 1..Len(h) : k \notin 1..Len(fs) =>
           k - Len(fs) \in 1..Len(gs) /\ h[k] = gs[k - Len(fs)]
  BY <1>1, Joined
<1>3. DOMAIN h = 1..Len(h) /\ DOMAIN fs = 1..Len(fs) /\ DOMAIN gs = 1..Len(gs)
  BY <1>1, <1>2
<1>4. Once(h, "call") /\ Once(h, "result")
  BY <1>1, JoinedOnce
<1> HIDE DEF h
<1>5. ASSUME NEW k \in DOMAIN h PROVE FrameAt(h, k)
  <2>1. CASE k \in 1..Len(fs)
    <3>1. k - 1 \in 0..Len(fs) /\ k - 1 \in 0..Len(h)
      BY <1>1, <1>2, <2>1
    <3>2. Shown(SubSeq(h, 1, k - 1), "call") = {h[l].n : l \in {l \in 1..(k - 1) : h[l].type = "call"}}
      BY <1>2, <3>1, PrefixShows
    <3>3. Shown(SubSeq(fs, 1, k - 1), "call") = {fs[l].n : l \in {l \in 1..(k - 1) : fs[l].type = "call"}}
      BY <1>1, <3>1, PrefixShows
    <3>4. \A l \in 1..(k - 1) : h[l] = fs[l]
      BY <1>1, <1>2, <2>1
    <3>5. {h[l].n : l \in {l \in 1..(k - 1) : h[l].type = "call"}}
            = {fs[l].n : l \in {l \in 1..(k - 1) : fs[l].type = "call"}}
      BY <3>4
    <3>6. FrameAt(fs, k)
      BY <1>3, <2>1 DEF Ordered
    <3> QED BY <1>2, <2>1, <3>2, <3>3, <3>5, <3>6 DEF FrameAt
  <2>2. CASE k \notin 1..Len(fs)
    <3>1. k - 1 \in 0..Len(h) /\ k # 1 /\ Len(fs) <= k - 1
      BY <1>1, <1>2, <1>3, <2>2
    <3>2. Shown(SubSeq(h, 1, k - 1), "call") = {h[l].n : l \in {l \in 1..(k - 1) : h[l].type = "call"}}
      BY <1>2, <3>1, PrefixShows
    <3>3. \A l \in 1..Len(fs) : l \in 1..(k - 1) /\ h[l] = fs[l]
      BY <1>1, <1>2, <1>3, <3>1
    <3>4. Shown(fs, "call") \subseteq Shown(SubSeq(h, 1, k - 1), "call")
      BY <1>3, <3>2, <3>3 DEF Shown
    <3>5. h[k].type # "started" /\ (h[k].type = "result" => h[k].n \in Shown(fs, "call"))
      BY <1>2, <1>3, <2>2
    <3> QED BY <3>1, <3>4, <3>5 DEF FrameAt
  <2> QED BY <2>1, <2>2
<1>6. Ordered(h)
  BY <1>2, <1>4, <1>5 DEF Ordered
<1> QED BY <1>6 DEF h

-----------------------------------------------------------------------------
(* Lemmas about the text that frames carry.                                *)

LEMMA OutputType ==
  ASSUME NEW fs \in Seq(Frame)
  PROVE  IsFiniteSet(Deltas(fs)) /\ OutputOf(fs) \in Nat
<1>1. IsFiniteSet(DOMAIN fs) /\ IsFiniteSet(1..MaxOutput)
  BY Constants, FS_Interval
<1>2. IsFiniteSet((DOMAIN fs) \X (1..MaxOutput))
  BY <1>1, FS_Product
<1>3. Deltas(fs) \in SUBSET ((DOMAIN fs) \X (1..MaxOutput))
  BY DEF Deltas
<1>4. IsFiniteSet(Deltas(fs))
  BY <1>2, <1>3, FS_Subset
<1> QED BY <1>4, FS_CardinalityType DEF OutputOf

(* Frames that carry no output.                                            *)
LEMMA SilentOutput ==
  ASSUME NEW fs \in Seq(Frame), NEW gs \in Seq(Frame),
         \A k \in 1..Len(gs) : gs[k].type # "output"
  PROVE  OutputOf(fs \o gs) = OutputOf(fs)
<1> DEFINE h == fs \o gs
<1>1. /\ h \in Seq(Frame) /\ Len(h) = Len(fs) + Len(gs)
      /\ \A k \in 1..Len(fs) : h[k] = fs[k]
      /\ \A k \in 1..Len(h) : k \notin 1..Len(fs) =>
           k - Len(fs) \in 1..Len(gs) /\ h[k] = gs[k - Len(fs)]
  BY Joined
<1>2. DOMAIN h = 1..Len(h) /\ DOMAIN fs = 1..Len(fs) /\ Len(fs) \in Nat /\ Len(gs) \in Nat
  BY <1>1
<1> HIDE DEF h
<1>3. ASSUME NEW p \in Deltas(h) PROVE p \in Deltas(fs)
  <2>1. p \in (1..Len(h)) \X (1..MaxOutput) /\ h[p[1]].type = "output" /\ p[2] <= h[p[1]].n
    BY <1>2, <1>3 DEF Deltas
  <2>2. p[1] \in 1..Len(fs) /\ h[p[1]] = fs[p[1]]
    BY <1>1, <2>1
  <2>3. p \in (1..Len(fs)) \X (1..MaxOutput)
    BY <2>1, <2>2
  <2> QED BY <1>2, <2>1, <2>2, <2>3 DEF Deltas
<1>4. ASSUME NEW p \in Deltas(fs) PROVE p \in Deltas(h)
  <2>1. p \in (1..Len(fs)) \X (1..MaxOutput) /\ fs[p[1]].type = "output" /\ p[2] <= fs[p[1]].n
    BY <1>2, <1>4 DEF Deltas
  <2>2. p[1] \in 1..Len(h) /\ h[p[1]] = fs[p[1]]
    BY <1>1, <1>2, <2>1
  <2>3. p \in (1..Len(h)) \X (1..MaxOutput)
    BY <2>1, <2>2
  <2> QED BY <1>2, <2>1, <2>2, <2>3 DEF Deltas
<1>5. Deltas(h) = Deltas(fs)
  BY <1>3, <1>4
<1> QED BY <1>5 DEF h, OutputOf

(* A frame that carries m deltas.                                          *)
LEMMA AddedOutput ==
  ASSUME NEW fs \in Seq(Frame), NEW m \in 0..MaxOutput
  PROVE  OutputOf(fs \o <<F("output", m)>>) = OutputOf(fs) + m
<1> DEFINE f == F("output", m)
           h == fs \o <<f>>
           l == Len(fs) + 1
           D == {l} \X (1..m)
<1>1. f \in Frame /\ f.type = "output" /\ f.n = m
  BY Constants, FrameFields DEF FrameTypes
<1>2. /\ h \in Seq(Frame) /\ Len(h) = l /\ Len(fs) \in Nat
      /\ \A k \in 1..Len(fs) : h[k] = fs[k]
      /\ h[l] = f
  BY <1>1
<1>3. DOMAIN h = 1..l /\ DOMAIN fs = 1..Len(fs) /\ m <= MaxOutput /\ m \in Nat
  BY <1>2, Constants
<1> HIDE DEF h, f
<1>4. ASSUME NEW p \in Deltas(h) PROVE p \in Deltas(fs) \cup D
  <2>1. p \in (1..l) \X (1..MaxOutput) /\ h[p[1]].type = "output" /\ p[2] <= h[p[1]].n
    BY <1>3, <1>4 DEF Deltas
  <2>2. CASE p[1] = l
    <3>1. p[2] \in 1..m
      BY <1>1, <1>2, <1>3, <2>1, <2>2
    <3> QED BY <2>1, <2>2, <3>1
  <2>3. CASE p[1] # l
    <3>1. p[1] \in 1..Len(fs)
      BY <1>2, <2>1, <2>3
    <3>2. p \in (1..Len(fs)) \X (1..MaxOutput) /\ h[p[1]] = fs[p[1]]
      BY <1>2, <2>1, <3>1
    <3> QED BY <1>3, <2>1, <3>2 DEF Deltas
  <2> QED BY <2>2, <2>3
<1>5. ASSUME NEW p \in Deltas(fs) PROVE p \in Deltas(h) /\ p \notin D
  <2>1. p \in (1..Len(fs)) \X (1..MaxOutput) /\ fs[p[1]].type = "output" /\ p[2] <= fs[p[1]].n
    BY <1>3, <1>5 DEF Deltas
  <2>2. p[1] \in 1..l /\ p[1] # l /\ h[p[1]] = fs[p[1]]
    BY <1>2, <2>1
  <2>3. p \in (1..l) \X (1..MaxOutput) /\ p \notin D
    BY <2>1, <2>2
  <2> QED BY <1>3, <2>1, <2>2, <2>3 DEF Deltas
<1>6. ASSUME NEW p \in D PROVE p \in Deltas(h)
  <2>1. p[1] = l /\ p[2] \in 1..m /\ p = <<p[1], p[2]>>
    BY <1>6
  <2>2. p[1] \in 1..l /\ p[2] \in 1..MaxOutput /\ p \in (1..l) \X (1..MaxOutput)
    BY <1>2, <1>3, <2>1, Constants
  <2>3. h[p[1]].type = "output" /\ p[2] <= h[p[1]].n
    BY <1>1, <1>2, <2>1, <1>3
  <2> QED BY <1>3, <2>2, <2>3 DEF Deltas
<1>7. Deltas(h) = Deltas(fs) \cup D /\ Deltas(fs) \cap D = {}
  BY <1>4, <1>5, <1>6
<1>8. IsFiniteSet(D) /\ Cardinality(D) = m
  <2>1. IsFiniteSet({l}) /\ Cardinality({l}) = 1
    BY FS_Singleton
  <2>2. IsFiniteSet(1..m) /\ Cardinality(1..m) = m
    BY <1>3, FS_Interval
  <2>3. IsFiniteSet(D) /\ Cardinality(D) = 1 * m
    BY <2>1, <2>2, FS_Product
  <2> QED BY <1>3, <2>3
<1>9. IsFiniteSet(Deltas(fs)) /\ Cardinality(Deltas(fs)) \in Nat
  BY OutputType DEF OutputOf
<1> HIDE DEF D
<1>10. Cardinality(Deltas(h)) = Cardinality(Deltas(fs)) + Cardinality(D) - Cardinality({})
  BY <1>7, <1>8, <1>9, FS_Union
<1>11. Cardinality(Deltas(h)) = Cardinality(Deltas(fs)) + m
  BY <1>8, <1>9, <1>10, <1>3, FS_EmptySet
<1> QED BY <1>11 DEF h, f, OutputOf

-----------------------------------------------------------------------------
(* The results of calls, in order: each once.                              *)
LEMMA InOrderIs ==
  ASSUME NEW S \in SUBSET Calls
  PROVE  /\ IsFiniteSet(S) /\ Cardinality(S) \in Nat
         /\ InOrder(S) \in [1..Cardinality(S) -> S]
         /\ \A k, l \in 1..Cardinality(S) : InOrder(S)[k] = InOrder(S)[l] => k = l
         /\ \A c \in S : \E k \in 1..Cardinality(S) : InOrder(S)[k] = c
<1> DEFINE n == Cardinality(S)
           Upto(c) == {d \in S : d <= c}
           rank == [c \in S |-> Cardinality(Upto(c))]
<1>1. S \subseteq Nat /\ IsFiniteSet(S) /\ n \in Nat
  BY Constants, FS_Subset, FS_CardinalityType
<1>2. ASSUME NEW c \in S
      PROVE  IsFiniteSet(Upto(c)) /\ Cardinality(Upto(c)) \in 1..n
  <2>1. Upto(c) \in SUBSET S
    OBVIOUS
  <2>2. IsFiniteSet(Upto(c)) /\ Cardinality(Upto(c)) <= n
    BY <1>1, <2>1, FS_Subset
  <2>3. c \in Upto(c)
    BY <1>1
  <2>4. Cardinality(Upto(c)) \in Nat /\ Cardinality(Upto(c)) # 0
    BY <2>2, <2>3, FS_EmptySet, FS_CardinalityType
  <2> QED BY <1>1, <2>2, <2>4
<1>3. ASSUME NEW c \in S, NEW d \in S, c < d
      PROVE  Cardinality(Upto(c)) < Cardinality(Upto(d))
  <2>0. c \in Nat /\ d \in Nat /\ d <= d /\ ~(d <= c) /\ \A e \in S : e <= c => e <= d
    BY <1>1, <1>3
  <2>1. Upto(c) \in SUBSET Upto(d) /\ d \in Upto(d) /\ d \notin Upto(c)
    BY <2>0
  <2>2. Cardinality(Upto(c)) <= Cardinality(Upto(d)) /\ Cardinality(Upto(c)) # Cardinality(Upto(d))
    BY <1>2, <2>1, FS_Subset
  <2> QED BY <1>2, <2>2
<1>4. \A c, d \in S : Cardinality(Upto(c)) = Cardinality(Upto(d)) => c = d
  <2> SUFFICES ASSUME NEW c \in S, NEW d \in S, Cardinality(Upto(c)) = Cardinality(Upto(d)), c # d
               PROVE  FALSE
    OBVIOUS
  <2>1. c < d \/ d < c
    BY <1>1
  <2> QED BY <1>2, <1>3, <2>1
<1>5. rank \in Injection(S, 1..n)
  BY <1>2, <1>4 DEF Injection, IsInjective
<1>6. IsFiniteSet(1..n) /\ Cardinality(1..n) = n
  BY <1>1, FS_Interval
<1>7. rank \in Surjection(S, 1..n)
  BY <1>1, <1>5, <1>6, FS_Injection
<1>8. \A k \in 1..n : \E c \in S : Cardinality(Upto(c)) = k
  BY <1>7 DEF Surjection
<1>9. \A k \in 1..n : InOrder(S)[k] \in S /\ Cardinality(Upto(InOrder(S)[k])) = k
  BY <1>8 DEF InOrder
<1>10. InOrder(S) \in [1..n -> S]
  BY <1>9 DEF InOrder
<1>11. \A k, l \in 1..n : InOrder(S)[k] = InOrder(S)[l] => k = l
  BY <1>9
<1>12. \A c \in S : InOrder(S)[Cardinality(Upto(c))] = c /\ Cardinality(Upto(c)) \in 1..n
  BY <1>2, <1>4, <1>9
<1> QED BY <1>1, <1>10, <1>11, <1>12

LEMMA ResultsShow ==
  ASSUME NEW S \in SUBSET Calls
  PROVE  /\ Results(S) \in Seq(Frame) /\ Len(Results(S)) = Cardinality(S)
         /\ IsFiniteSet(S) /\ Cardinality(S) \in Nat
         /\ \A k \in 1..Cardinality(S) : Results(S)[k].type = "result" /\ Results(S)[k].n \in S
         /\ Shown(Results(S), "call") = {} /\ Shown(Results(S), "result") = S
         /\ Once(Results(S), "call") /\ Once(Results(S), "result")
<1> DEFINE n == Cardinality(S)
<1>1. /\ IsFiniteSet(S) /\ n \in Nat /\ S \subseteq Nat
      /\ InOrder(S) \in [1..n -> S]
      /\ \A k, l \in 1..n : InOrder(S)[k] = InOrder(S)[l] => k = l
      /\ \A c \in S : \E k \in 1..n : InOrder(S)[k] = c
  BY InOrderIs, Constants
<1>2. Results(S) = [k \in 1..n |-> F("result", InOrder(S)[k])]
  BY <1>1 DEF Results
<1>3. \A k \in 1..n : F("result", InOrder(S)[k]) \in Frame
  BY <1>1, FrameFields DEF FrameTypes
<1>4. Results(S) \in Seq(Frame) /\ Len(Results(S)) = n
  <2>1. Results(S) \in [1..n -> Frame]
    BY <1>2, <1>3
  <2>2. Results(S) \in Seq(Frame)
    BY <1>1, <2>1, SeqDef
  <2>3. DOMAIN Results(S) = 1..n
    BY <2>1
  <2> QED BY <1>1, <2>2, <2>3, LenProperties
<1>5. \A k \in 1..n : Results(S)[k].type = "result" /\ Results(S)[k].n = InOrder(S)[k]
  BY <1>2 DEF F
<1>6. DOMAIN Results(S) = 1..n
  BY <1>2
<1>7. Shown(Results(S), "call") = {}
  BY <1>5, <1>6 DEF Shown
<1>8. Shown(Results(S), "result") = S
  <2>1. Shown(Results(S), "result") = {InOrder(S)[k] : k \in 1..n}
    <3>1. {k \in DOMAIN Results(S) : Results(S)[k].type = "result"} = 1..n
      BY <1>5, <1>6
    <3> QED BY <1>5, <3>1 DEF Shown
  <2> DEFINE g == InOrder(S)
  <2>2. /\ \A k \in 1..n : g[k] \in S
        /\ \A c \in S : \E k \in 1..n : g[k] = c
        /\ Shown(Results(S), "result") = {g[k] : k \in 1..n}
    BY <1>1, <2>1
  <2> HIDE DEF n, g
  <2>3. \A c \in Shown(Results(S), "result") : c \in S
    BY <2>2
  <2>4. \A c \in S : c \in Shown(Results(S), "result")
    BY <2>2
  <2> QED BY <2>3, <2>4
<1>9. Once(Results(S), "call") /\ Once(Results(S), "result")
  BY <1>1, <1>5, <1>6 DEF Once
<1> QED BY <1>1, <1>4, <1>5, <1>7, <1>8, <1>9

-----------------------------------------------------------------------------
(* Frames that are appended.                                               *)

LEMMA OneFrame ==
  ASSUME NEW f \in Frame
  PROVE  /\ <<f>> \in Seq(Frame) /\ Len(<<f>>) = 1 /\ DOMAIN <<f>> = 1..1 /\ <<f>>[1] = f
         /\ \A type : Shown(<<f>>, type) = IF f.type = type THEN {f.n} ELSE {}
         /\ \A type : Once(<<f>>, type)
         /\ \A fs \in Seq(Frame) : Append(fs, f) = fs \o <<f>>
<1>1. <<f>> \in Seq(Frame) /\ Len(<<f>>) = 1 /\ DOMAIN <<f>> = 1..1 /\ <<f>>[1] = f
  OBVIOUS
<1>2. \A type : Shown(<<f>>, type) = IF f.type = type THEN {f.n} ELSE {}
  <2> TAKE type
  <2>1. \A k \in DOMAIN <<f>> : k = 1
    BY <1>1
  <2> QED BY <1>1, <2>1 DEF Shown
<1>3. \A type : Once(<<f>>, type)
  BY <1>1 DEF Once
<1>4. \A fs \in Seq(Frame) : Append(fs, f) = fs \o <<f>>
  BY AppendIsConcat
<1> QED BY <1>1, <1>2, <1>3, <1>4

LEMMA EmptyShows ==
  /\ <<>> \in Seq(Frame) /\ \A type : Shown(<<>>, type) = {}
  /\ OutputOf(<<>>) = 0
<1>1. <<>> \in Seq(Frame) /\ DOMAIN <<>> = {}
  OBVIOUS
<1>2. \A type : Shown(<<>>, type) = {}
  BY <1>1 DEF Shown
<1>3. Deltas(<<>>) = {}
  BY <1>1 DEF Deltas
<1> QED BY <1>1, <1>2, <1>3, FS_EmptySet DEF OutputOf

(* The first frame.                                                        *)
LEMMA AddStarted ==
  /\ Growing(<<>>, {}, {})
  /\ Growing(Append(<<>>, F("started", 0)), {}, {})
  /\ OutputOf(Append(<<>>, F("started", 0))) = 0
<1> DEFINE f == F("started", 0)
<1>1. f \in Frame /\ f.type = "started"
  BY FrameFields DEF FrameTypes
<1>2. Growing(<<>>, {}, {})
  <2>1. DOMAIN <<>> = {} /\ Len(<<>>) = 0
    OBVIOUS
  <2> QED BY <2>1, EmptyShows, Constants DEF Growing, Ordered, Once
<1> HIDE DEF f
<1>3. /\ <<f>> \in Seq(Frame) /\ Len(<<f>>) = 1 /\ DOMAIN <<f>> = 1..1 /\ <<f>>[1] = f
      /\ Shown(<<f>>, "call") = {} /\ Shown(<<f>>, "result") = {}
      /\ Once(<<f>>, "call") /\ Once(<<f>>, "result")
  BY <1>1, OneFrame
<1>4. Growing(<<f>>, {}, {})
  <2>1. \A k \in DOMAIN <<f>> : k = 1 /\ <<f>>[k].type = "started"
    BY <1>1, <1>3
  <2> QED BY <1>3, <2>1, Constants DEF Growing, Ordered, FrameAt, Terminal
<1>5. <<>> \o <<f>> = <<f>> /\ Append(<<>>, f) = <<f>>
  OBVIOUS
<1>6. OutputOf(<<f>>) = 0
  <2>1. \A k \in 1..Len(<<f>>) : <<f>>[k].type # "output"
    BY <1>1, <1>3
  <2>2. OutputOf(<<>> \o <<f>>) = OutputOf(<<>>)
    BY <1>3, <2>1, EmptyShows, SilentOutput
  <2> QED BY <1>5, <2>2, EmptyShows
<1> QED BY <1>2, <1>4, <1>5, <1>6 DEF f

(* Frames that go on.                                                      *)
LEMMA AddFrames ==
  ASSUME NEW fs, NEW C, NEW R, Growing(fs, C, R), fs # <<>>, NEW gs \in Seq(Frame),
         Once(gs, "call"), Once(gs, "result"), Len(fs) + Len(gs) < MaxEvents,
         \A k \in 1..Len(gs) : /\ gs[k].type \notin Terminal \cup {"started"}
                               /\ gs[k].type = "result" => gs[k].n \in C,
         C \cap Shown(gs, "call") = {}, R \cap Shown(gs, "result") = {}
  PROVE  /\ Growing(fs \o gs, C \cup Shown(gs, "call"), R \cup Shown(gs, "result"))
         /\ Ext(fs, fs \o gs)
<1> DEFINE h == fs \o gs
<1>1. Ordered(fs) /\ fs \in Seq(Frame) /\ Shown(fs, "call") = C /\ Shown(fs, "result") = R
  BY DEF Growing, Ordered
<1>2. Ordered(h)
  BY <1>1, JoinedOrdered
<1>3. /\ h \in Seq(Frame) /\ Len(h) = Len(fs) + Len(gs)
      /\ \A k \in 1..Len(fs) : h[k] = fs[k]
      /\ \A k \in 1..Len(h) : k \notin 1..Len(fs) =>
           k - Len(fs) \in 1..Len(gs) /\ h[k] = gs[k - Len(fs)]
      /\ Ext(fs, h)
  BY <1>1, Joined
<1>4. \A k \in DOMAIN h : h[k].type \notin Terminal
  <2>1. DOMAIN h = 1..Len(h) /\ DOMAIN fs = 1..Len(fs)
    BY <1>1, <1>3
  <2>2. \A k \in 1..Len(fs) : fs[k].type \notin Terminal
    BY <2>1 DEF Growing
  <2> QED BY <1>3, <2>1, <2>2
<1>5. Shown(h, "call") = C \cup Shown(gs, "call") /\ Shown(h, "result") = R \cup Shown(gs, "result")
  BY <1>1, JoinedShows
<1> QED BY <1>2, <1>3, <1>4, <1>5 DEF Growing

LEMMA AddOutput ==
  ASSUME NEW fs, NEW C, NEW R, Growing(fs, C, R), fs # <<>>, Len(fs) + 1 < MaxEvents,
         NEW m \in 0..MaxOutput
  PROVE  /\ Growing(Append(fs, F("output", m)), C, R)
         /\ Ext(fs, Append(fs, F("output", m)))
         /\ OutputOf(Append(fs, F("output", m))) = OutputOf(fs) + m
<1> DEFINE f == F("output", m)
<1>1. f \in Frame /\ f.type = "output"
  BY FrameFields, Constants DEF FrameTypes
<1>2. fs \in Seq(Frame)
  BY DEF Growing, Ordered
<1>3. OutputOf(fs \o <<f>>) = OutputOf(fs) + m
  BY <1>2, AddedOutput
<1> HIDE DEF f
<1>4. /\ <<f>> \in Seq(Frame) /\ Len(<<f>>) = 1 /\ <<f>>[1] = f
      /\ Shown(<<f>>, "call") = {} /\ Shown(<<f>>, "result") = {}
      /\ Once(<<f>>, "call") /\ Once(<<f>>, "result") /\ Append(fs, f) = fs \o <<f>>
  BY <1>1, <1>2, OneFrame
<1>5. \A k \in 1..Len(<<f>>) : <<f>>[k].type \notin Terminal \cup {"started", "result"}
  BY <1>1, <1>4 DEF Terminal
<1>6. Growing(fs \o <<f>>, C \cup {}, R \cup {}) /\ Ext(fs, fs \o <<f>>)
  BY <1>4, <1>5, AddFrames
<1>7. C \cup {} = C /\ R \cup {} = R
  OBVIOUS
<1>8. Growing(fs \o <<f>>, C, R)
  BY <1>6, <1>7
<1> QED BY <1>3, <1>4, <1>6, <1>8 DEF f

LEMMA AddCall ==
  ASSUME NEW fs, NEW C, NEW R, Growing(fs, C, R), fs # <<>>, Len(fs) + 1 < MaxEvents,
         NEW c \in Nat, c \notin C
  PROVE  /\ Growing(Append(fs, F("call", c)), C \cup {c}, R)
         /\ Ext(fs, Append(fs, F("call", c)))
         /\ OutputOf(Append(fs, F("call", c))) = OutputOf(fs)
<1> DEFINE f == F("call", c)
<1>1. f \in Frame /\ f.type = "call" /\ f.n = c
  BY FrameFields DEF FrameTypes
<1>2. fs \in Seq(Frame)
  BY DEF Growing, Ordered
<1> HIDE DEF f
<1>3. /\ <<f>> \in Seq(Frame) /\ Len(<<f>>) = 1 /\ <<f>>[1] = f
      /\ Shown(<<f>>, "call") = {c} /\ Shown(<<f>>, "result") = {}
      /\ Once(<<f>>, "call") /\ Once(<<f>>, "result") /\ Append(fs, f) = fs \o <<f>>
  BY <1>1, <1>2, OneFrame
<1>4. \A k \in 1..Len(<<f>>) : <<f>>[k].type \notin Terminal \cup {"started", "result", "output"}
  BY <1>1, <1>3 DEF Terminal
<1>5. Growing(fs \o <<f>>, C \cup {c}, R \cup {}) /\ Ext(fs, fs \o <<f>>)
  <2>1. C \cap Shown(<<f>>, "call") = {} /\ R \cap Shown(<<f>>, "result") = {}
    BY <1>3
  <2>2. \A k \in 1..Len(<<f>>) : /\ <<f>>[k].type \notin Terminal \cup {"started"}
                                 /\ <<f>>[k].type = "result" => <<f>>[k].n \in C
    BY <1>4
  <2>3. /\ Growing(fs \o <<f>>, C \cup Shown(<<f>>, "call"), R \cup Shown(<<f>>, "result"))
        /\ Ext(fs, fs \o <<f>>)
    BY <1>3, <2>1, <2>2, AddFrames
  <2> QED BY <1>3, <2>3
<1>6. R \cup {} = R
  OBVIOUS
<1>7. Growing(fs \o <<f>>, C \cup {c}, R)
  BY <1>5, <1>6
<1>8. OutputOf(fs \o <<f>>) = OutputOf(fs)
  BY <1>2, <1>3, <1>4, SilentOutput
<1> QED BY <1>3, <1>5, <1>7, <1>8 DEF f

LEMMA AddResults ==
  ASSUME NEW fs, NEW C, NEW R, Growing(fs, C, R), fs # <<>>, NEW S \in SUBSET Calls,
         Len(fs) + Cardinality(S) < MaxEvents, S \subseteq C, S \cap R = {}
  PROVE  /\ Growing(fs \o Results(S), C, R \cup S)
         /\ Ext(fs, fs \o Results(S))
         /\ OutputOf(fs \o Results(S)) = OutputOf(fs)
<1> DEFINE gs == Results(S)
<1>1. /\ gs \in Seq(Frame) /\ Len(gs) = Cardinality(S)
      /\ \A k \in 1..Len(gs) : gs[k].type = "result" /\ gs[k].n \in S
      /\ Shown(gs, "call") = {} /\ Shown(gs, "result") = S
      /\ Once(gs, "call") /\ Once(gs, "result")
  BY ResultsShow
<1>2. fs \in Seq(Frame)
  BY DEF Growing, Ordered
<1> HIDE DEF gs
<1>3. \A k \in 1..Len(gs) : /\ gs[k].type \notin Terminal \cup {"started"}
                            /\ gs[k].type = "result" => gs[k].n \in C
  BY <1>1 DEF Terminal
<1>4. Growing(fs \o gs, C \cup {}, R \cup S) /\ Ext(fs, fs \o gs)
  BY <1>1, <1>3, AddFrames
<1>5. C \cup {} = C
  OBVIOUS
<1>6. Growing(fs \o gs, C, R \cup S)
  BY <1>4, <1>5
<1>7. OutputOf(fs \o gs) = OutputOf(fs)
  BY <1>1, <1>2, SilentOutput
<1> QED BY <1>4, <1>6, <1>7 DEF gs

(* The last frame.                                                         *)
LEMMA AddTerminal ==
  ASSUME NEW fs, NEW C, NEW R, Growing(fs, C, R), fs # <<>>, NEW f \in Frame,
         f.type \in Terminal, f.type = "completed" => f.n = OutputOf(fs) /\ C = R
  PROVE  /\ Over(Append(fs, f)) /\ LastOf(Append(fs, f)) = f
         /\ Shown(Append(fs, f), "call") = C /\ Ext(fs, Append(fs, f))
<1> DEFINE h == Append(fs, f)
<1>1. /\ Ordered(fs) /\ fs \in Seq(Frame) /\ Len(fs) < MaxEvents /\ Len(fs) \in Nat
      /\ Shown(fs, "call") = C /\ Shown(fs, "result") = R
  BY DEF Growing, Ordered
<1>2. /\ <<f>> \in Seq(Frame) /\ Len(<<f>>) = 1 /\ <<f>>[1] = f
      /\ Shown(<<f>>, "call") = {} /\ Shown(<<f>>, "result") = {}
      /\ Once(<<f>>, "call") /\ Once(<<f>>, "result") /\ h = fs \o <<f>>
  BY <1>1, OneFrame DEF Terminal
<1> HIDE DEF h
<1>3. \A k \in 1..Len(<<f>>) : <<f>>[k].type \notin {"started", "result", "output"}
  BY <1>2 DEF Terminal
<1>4. Ordered(h)
  <2>1. Ordered(fs \o <<f>>)
    BY <1>1, <1>2, <1>3, JoinedOrdered
  <2> QED BY <1>2, <2>1
<1>5. /\ h \in Seq(Frame) /\ Len(h) = Len(fs) + 1
      /\ \A k \in 1..Len(fs) : h[k] = fs[k]
      /\ h[Len(fs) + 1] = f
      /\ Ext(fs, h)
  BY <1>1, AppendProperties DEF h, Ext
<1>6. \A k \in DOMAIN h : h[k].type \in Terminal <=> k = Len(h)
  <2>1. DOMAIN h = 1..Len(h) /\ DOMAIN fs = 1..Len(fs)
    BY <1>1, <1>5
  <2>2. \A k \in 1..Len(fs) : fs[k].type \notin Terminal
    BY <2>1 DEF Growing
  <2> QED BY <1>1, <1>5, <2>1, <2>2
<1>7. Shown(h, "call") = C /\ Shown(h, "result") = R
  <2>1. \A type : Shown(fs \o <<f>>, type) = Shown(fs, type) \cup Shown(<<f>>, type)
    BY <1>1, <1>2, JoinedShows
  <2> QED BY <1>1, <1>2, <2>1
<1>8. OutputOf(h) = OutputOf(fs)
  BY <1>1, <1>2, <1>3, SilentOutput
<1>9. LastOf(h) = f /\ h # <<>> /\ Len(h) <= MaxEvents
  BY <1>1, <1>5, Constants DEF LastOf
<1> QED BY <1>4, <1>5, <1>6, <1>7, <1>8, <1>9 DEF Over, h

-----------------------------------------------------------------------------
(* Lemmas about what a section writes to a turn.                           *)

(* Turns that differ in their frames and their pending output at most.     *)
Alike(x, y) ==
  /\ y.id = x.id /\ y.pc = x.pc /\ y.initializing = x.initializing /\ y.round = x.round
  /\ y.text = x.text /\ y.tools = x.tools /\ y.buffered = x.buffered
  /\ y.submitted = x.submitted /\ y.outputs = x.outputs /\ y.previous = x.previous
  /\ y.response = x.response /\ y.session = x.session /\ y.uncertain = x.uncertain
  /\ y.exposed = x.exposed /\ y.waiting = x.waiting /\ y.continuing = x.continuing
  /\ y.inFlight = x.inFlight /\ y.late = x.late /\ y.end = x.end /\ y.cleanup = x.cleanup

LEMMA StartedKeeps ==
  ASSUME NEW x \in TurnState, FrameInv(x)
  PROVE  /\ CanStart(x) /\ Started(x) \in TurnState /\ FrameInv(Started(x))
         /\ Started(x).started /\ Started(x).frames # <<>>
         /\ Started(x).pending = x.pending /\ Alike(x, Started(x))
         /\ OutputOf(Started(x).frames) = OutputOf(x.frames)
         /\ Ext(x.frames, Started(x).frames)
<1>1. CASE x.started
  <2>1. x.frames # <<>> /\ Ext(x.frames, x.frames)
    <3>1. Len(x.frames) \in Nat
      BY DEF TurnState
    <3> QED BY <1>1, <3>1 DEF FrameInv, Ext
  <2>2. Started(x) = x /\ CanStart(x)
    BY <1>1 DEF Started, CanStart
  <2> QED BY <1>1, <2>1, <2>2 DEF Alike
<1>2. CASE ~x.started
  <2> DEFINE fs == Append(<<>>, F("started", 0))
             y == [x EXCEPT !.frames = fs, !.started = TRUE]
  <2>1. x.frames = <<>> /\ Len(x.frames) = 0
    BY <1>2 DEF FrameInv
  <2>2. CanStart(x)
    BY <2>1, Constants DEF CanStart, Room
  <2>3. Started(x) = y
    BY <1>2, <2>1 DEF Started, Add
  <2>4. /\ Growing(fs, {}, {}) /\ OutputOf(fs) = 0
        /\ x.submitted \cup x.tools = {} /\ x.submitted = {} /\ OutputOf(x.frames) = 0
    BY <2>1, AddStarted, EmptyShows DEF FrameInv, Growing
  <2>5. fs \in Seq(Frame) /\ fs # <<>> /\ Ext(x.frames, fs)
    <3>1. Len(<<>>) = 0
      OBVIOUS
    <3> QED BY <2>1, <2>4, <3>1 DEF Ext, Growing, Ordered
  <2> HIDE DEF fs
  <2>6. y \in TurnState /\ Alike(x, y) /\ y.frames = fs /\ y.started /\ y.pending = x.pending
    BY <2>5 DEF TurnState, Alike
  <2>7. FrameInv(y)
    BY <2>4, <2>5, <2>6 DEF FrameInv, Alike
  <2> QED BY <2>2, <2>3, <2>4, <2>5, <2>6, <2>7
<1> QED BY <1>1, <1>2

LEMMA FlushedKeeps ==
  ASSUME NEW x \in TurnState, FrameInv(x), CanFlush(x)
  PROVE  /\ Flushed(x) \in TurnState /\ FrameInv(Flushed(x))
         /\ Flushed(x).started = x.started /\ (x.frames # <<>> => Flushed(x).frames # <<>>)
         /\ Flushed(x).pending = 0 /\ Alike(x, Flushed(x))
         /\ TextInv(x) => TextInv(Flushed(x))
         /\ Ext(x.frames, Flushed(x).frames)
<1>0. x.frames \in Seq(Frame) /\ x.pending \in 0..MaxOutput
  BY DEF TurnState
<1>1. CASE x.pending = 0
  <2>1. Flushed(x) = x /\ Ext(x.frames, x.frames)
    <3>1. Len(x.frames) \in Nat
      BY <1>0
    <3> QED BY <1>1, <3>1 DEF Flushed, Ext
  <2> QED BY <1>1, <2>1 DEF Alike
<1>2. CASE x.pending # 0
  <2> DEFINE fs == Append(x.frames, F("output", x.pending))
             y == [x EXCEPT !.frames = fs, !.pending = 0]
  <2>1. x.started /\ x.frames # <<>>
    BY <1>0, <1>2, Constants DEF FrameInv
  <2>2. Len(x.frames) + 1 < MaxEvents
    BY <1>2 DEF CanFlush, Room
  <2>3. Flushed(x) = y
    BY <1>2 DEF Flushed, Add
  <2>4. /\ Growing(fs, x.submitted \cup x.tools, x.submitted)
        /\ OutputOf(fs) = OutputOf(x.frames) + x.pending /\ Ext(x.frames, fs)
    BY <1>0, <2>1, <2>2, AddOutput DEF FrameInv
  <2>5. fs \in Seq(Frame) /\ fs # <<>>
    <3>1. fs \in Seq(Frame)
      BY <2>4 DEF Growing, Ordered
    <3> QED BY <1>0, <2>1, <2>4, <3>1 DEF Ext
  <2> HIDE DEF fs
  <2>6. /\ y \in TurnState /\ Alike(x, y) /\ y.frames = fs /\ y.started = x.started
        /\ y.pending = 0
    <3>1. 0 \in 0..MaxOutput
      BY Constants
    <3>2. y \in TurnState
      BY <2>5, <3>1 DEF TurnState
    <3> QED BY <2>5, <3>2 DEF TurnState, Alike
  <2>7. FrameInv(y)
    BY <2>1, <2>4, <2>5, <2>6 DEF FrameInv, Alike
  <2>8. TextInv(x) => TextInv(y)
    <3>1. OutputOf(x.frames) \in Nat
      BY <1>0, OutputType
    <3> QED BY <1>0, <2>4, <2>6, <3>1, Constants DEF TextInv, Alike
  <2> QED BY <2>3, <2>4, <2>5, <2>6, <2>7, <2>8
<1> QED BY <1>1, <1>2

(* What an ended turn keeps of the turn.                                   *)
Outlives(x, y) ==
  /\ y.id = x.id /\ y.pc = x.pc /\ y.initializing = x.initializing /\ y.round = x.round
  /\ y.outputs = x.outputs /\ y.previous = x.previous /\ y.exposed = x.exposed
  /\ y.inFlight = x.inFlight /\ y.uncertain = x.uncertain

LEMMA EndedKeeps ==
  ASSUME NEW x \in TurnState, FrameInv(x), EndRank \in 1..MaxTurns,
         NEW f \in Frame, f.type \in Terminal,
         f.type = "completed" =>
           x.started /\ x.pending = 0 /\ x.tools = {} /\ f.n = OutputOf(x.frames)
  PROVE  /\ Ended(x, f) \in TurnState /\ Completed(Ended(x, f)) /\ Outlives(x, Ended(x, f))
         /\ Over(Ended(x, f).frames) /\ Ended(x, f).pending = 0
         /\ LastOf(Ended(x, f).frames) = f
         /\ Shown(Ended(x, f).frames, "call") = x.submitted \cup x.tools
         /\ Ext(x.frames, Ended(x, f).frames)
<1> DEFINE y == Started(x)
           z == IF CanFlush(y) THEN Flushed(y) ELSE y
           fs == Append(z.frames, f)
           w == [z EXCEPT !.frames = fs, !.end = EndRank, !.text = 0, !.pending = 0,
                          !.tools = {}, !.buffered = {}, !.cleanup = "set"]
<1>1. /\ y \in TurnState /\ FrameInv(y) /\ y.frames # <<>> /\ Alike(x, y)
      /\ Ext(x.frames, y.frames)
  BY StartedKeeps
<1>2. z \in TurnState /\ FrameInv(z) /\ z.frames # <<>> /\ Alike(y, z) /\ Ext(y.frames, z.frames)
  <2>1. CASE CanFlush(y)
    BY <1>1, <2>1, FlushedKeeps
  <2>2. CASE ~CanFlush(y)
    <3>1. Len(y.frames) \in Nat
      BY <1>1 DEF TurnState
    <3> QED BY <1>1, <2>2, <3>1 DEF Alike, Ext
  <2> QED BY <2>1, <2>2
<1>3. f.type = "completed" => z.frames = x.frames
  BY DEF Started, Flushed, CanFlush
<1>4. Ended(x, f) = w
  <2>1. Add(z, f) = [z EXCEPT !.frames = fs]
    BY DEF Add
  <2>2. Ended(x, f) = [Add(z, f) EXCEPT !.end = EndRank, !.text = 0, !.pending = 0,
                          !.tools = {}, !.buffered = {}, !.cleanup = "set"]
    BY DEF Ended
  <2> HIDE DEF z, fs
  <2> QED BY <1>2, <2>1, <2>2 DEF TurnState
<1> HIDE DEF y, z
<1>5. /\ Growing(z.frames, x.submitted \cup x.tools, x.submitted)
      /\ f.type = "completed" => f.n = OutputOf(z.frames) /\ x.submitted \cup x.tools = x.submitted
  BY <1>1, <1>2, <1>3 DEF FrameInv, Alike
<1>6. /\ Over(fs) /\ LastOf(fs) = f /\ Shown(fs, "call") = x.submitted \cup x.tools
      /\ Ext(z.frames, fs)
  <2> DEFINE C == x.submitted \cup x.tools
             R == x.submitted
             gs == z.frames
  <2>1. Growing(gs, C, R) /\ gs # <<>> /\ (f.type = "completed" => f.n = OutputOf(gs) /\ C = R)
    BY <1>2, <1>5
  <2>2. Over(Append(gs, f)) /\ LastOf(Append(gs, f)) = f
        /\ Shown(Append(gs, f), "call") = C /\ Ext(gs, Append(gs, f))
    <3> HIDE DEF C, R, gs
    <3> QED BY <2>1, AddTerminal
  <2> QED BY <2>2
<1>7. fs \in Seq(Frame)
  BY <1>6 DEF Over, Ordered
<1>8. Ext(x.frames, fs)
  <2>1. /\ x.frames \in Seq(Frame) /\ y.frames \in Seq(Frame) /\ z.frames \in Seq(Frame)
    BY <1>1, <1>2 DEF TurnState
  <2> HIDE DEF fs
  <2> QED BY <1>1, <1>2, <1>6, <1>7, <2>1 DEF Ext
<1> HIDE DEF fs
<1>9. /\ w \in TurnState /\ w.end = EndRank /\ w.pending = 0 /\ w.frames = fs /\ Outlives(z, w)
  <2>1. 0 \in 0..MaxOutput /\ EndRank \in 0..MaxTurns
    BY Constants
  <2>2. w \in TurnState
    BY <1>2, <1>7, <2>1 DEF TurnState
  <2> QED BY <1>2, <1>7, <2>2 DEF TurnState, Outlives
<1>10. Outlives(x, w) /\ Completed(w)
  BY <1>1, <1>2, <1>9 DEF Alike, Outlives, Completed
<1> QED BY <1>4, <1>6, <1>8, <1>9, <1>10

(* A turn that ends leaves a stream that is over, and may be tried again   *)
(* only if the provider answered and nothing was shown to write.           *)
LEMMA EndsWell ==
  ASSUME NEW x \in TurnState, FrameInv(x), StageInv(x), x.pc # "unborn",
         EndRank \in 1..MaxTurns, NEW a, NEW n,
         NEW f \in Frame, f.type \in Terminal,
         f.type = "completed" =>
           x.started /\ x.pending = 0 /\ x.tools = {} /\ f.n = OutputOf(x.frames),
         f.retry => n = x.round /\ ~x.exposed,
         x.pc = "launch" /\ x.round > 0 => x.outputs = a
  PROVE  /\ TurnInv(Ended(x, f), a, n) /\ Completed(Ended(x, f))
         /\ Outlives(x, Ended(x, f)) /\ Ext(x.frames, Ended(x, f).frames)
<1> DEFINE y == Ended(x, f)
<1>1. /\ y \in TurnState /\ Completed(y) /\ Outlives(x, y) /\ Over(y.frames) /\ y.pending = 0
      /\ LastOf(y.frames) = f /\ Shown(y.frames, "call") = x.submitted \cup x.tools
      /\ Ext(x.frames, y.frames)
  BY EndedKeeps
<1> HIDE DEF y
<1>2. f.retry => Shown(y.frames, "call") \cap WriteCalls = {}
  BY <1>1 DEF FrameInv
<1>3. ClosedInv(y, n)
  BY <1>1, <1>2 DEF ClosedInv, Outlives
<1>4. StageInv(y)
  BY <1>1 DEF StageInv, Outlives
<1>5. y.pc = "launch" /\ y.round > 0 => y.outputs = a
  BY <1>1 DEF Outlives
<1>6. TurnInv(y, a, n)
  BY <1>1, <1>3, <1>4, <1>5 DEF TurnInv
<1> QED BY <1>1, <1>6 DEF y

LEMMA FailsWell ==
  ASSUME NEW x \in TurnState, FrameInv(x), StageInv(x), x.pc # "unborn",
         EndRank \in 1..MaxTurns, NEW a, NEW n, ~x.uncertain => n = x.round,
         x.pc = "launch" /\ x.round > 0 => x.outputs = a, NEW retryable \in BOOLEAN
  PROVE  /\ TurnInv(Failed(x, retryable), a, n) /\ Completed(Failed(x, retryable))
         /\ Outlives(x, Failed(x, retryable)) /\ Ext(x.frames, Failed(x, retryable).frames)
<1> DEFINE r == retryable /\ ~x.uncertain /\ ~x.exposed /\ x.id \in BrokeredIds
           f == [type |-> "failed", n |-> 0, retry |-> r]
<1>1. r \in BOOLEAN /\ (r => ~x.uncertain /\ ~x.exposed)
  BY DEF TurnState
<1>2. Failed(x, retryable) = Ended(x, f)
  BY DEF Failed
<1> HIDE DEF r
<1>3. f \in Frame /\ f.type = "failed" /\ (f.retry => n = x.round /\ ~x.exposed)
  BY <1>1 DEF Frame, FrameTypes
<1> HIDE DEF f
<1>4. f.type \in Terminal /\ f.type # "completed"
  BY <1>3 DEF Terminal
<1>5. /\ TurnInv(Ended(x, f), a, n) /\ Completed(Ended(x, f))
      /\ Outlives(x, Ended(x, f)) /\ Ext(x.frames, Ended(x, f).frames)
  BY <1>3, <1>4, EndsWell
<1> QED BY <1>2, <1>5

LEMMA CancelsWell ==
  ASSUME NEW x \in TurnState, FrameInv(x), StageInv(x), x.pc # "unborn",
         EndRank \in 1..MaxTurns, NEW a, NEW n,
         x.pc = "launch" /\ x.round > 0 => x.outputs = a
  PROVE  /\ TurnInv(Cancelled(x), a, n) /\ Completed(Cancelled(x))
         /\ Outlives(x, Cancelled(x)) /\ Ext(x.frames, Cancelled(x).frames)
<1> DEFINE f == F("cancelled", 0)
<1>1. f \in Frame /\ f.type = "cancelled" /\ ~f.retry
  BY FrameFields DEF FrameTypes
<1>2. Cancelled(x) = Ended(x, f)
  BY DEF Cancelled
<1> HIDE DEF f
<1>3. f.type \in Terminal /\ f.type # "completed"
  BY <1>1 DEF Terminal
<1>4. /\ TurnInv(Ended(x, f), a, n) /\ Completed(Ended(x, f))
      /\ Outlives(x, Ended(x, f)) /\ Ext(x.frames, Ended(x, f).frames)
  BY <1>1, <1>3, EndsWell
<1> QED BY <1>2, <1>4

LEMMA FinishesWell ==
  ASSUME NEW x \in TurnState, FrameInv(x), TextInv(x), StageInv(x),
         x.pc \notin {"unborn", "launch"}, EndRank \in 1..MaxTurns, NEW a, NEW n,
         x.started, x.pending = 0, x.tools = {}
  PROVE  /\ TurnInv(Finished(x), a, n) /\ Completed(Finished(x))
         /\ Outlives(x, Finished(x)) /\ Ext(x.frames, Finished(x).frames)
<1> DEFINE f == F("completed", x.text)
<1>1. x.text \in Nat
  BY Constants DEF TurnState
<1>2. f \in Frame /\ f.type = "completed" /\ ~f.retry /\ f.n = x.text
  BY <1>1, FrameFields DEF FrameTypes
<1>3. Finished(x) = Ended(x, f)
  BY DEF Finished
<1> HIDE DEF f
<1>4. f.type \in Terminal /\ f.n = OutputOf(x.frames)
  <2>1. OutputOf(x.frames) \in Nat
    BY OutputType DEF TurnState
  <2> QED BY <1>2, <2>1 DEF Terminal, TextInv
<1>5. /\ TurnInv(Ended(x, f), a, n) /\ Completed(Ended(x, f))
      /\ Outlives(x, Ended(x, f)) /\ Ext(x.frames, Ended(x, f).frames)
  BY <1>2, <1>4, EndsWell
<1> QED BY <1>3, <1>5

(* The calls of a turn are finite sets, and all buffered means all.        *)
LEMMA BufferedAll ==
  ASSUME NEW x \in TurnState, FrameInv(x), AllBuffered(x)
  PROVE  x.buffered = x.tools
<1>1. x.tools \subseteq Calls /\ IsFiniteSet(x.tools) /\ Cardinality(x.tools) \in Nat
  BY Constants, FS_Subset, FS_CardinalityType DEF TurnState
<1>2. x.buffered \in SUBSET x.tools
  BY DEF FrameInv
<1>3. IsFiniteSet(x.buffered) /\ Cardinality(x.buffered) <= Cardinality(x.tools)
  BY <1>1, <1>2, FS_Subset
<1>4. Cardinality(x.buffered) \in Nat
  BY <1>3, FS_CardinalityType
<1>5. Cardinality(x.buffered) = Cardinality(x.tools)
  BY <1>1, <1>3, <1>4 DEF AllBuffered
<1> QED BY <1>1, <1>2, <1>5, FS_Subset

(* A turn that goes on with the results of its calls.                      *)
LEMMA ContinuesWell ==
  ASSUME NEW x \in TurnState, FrameInv(x), TextInv(x), StageInv(x), x.pc = "none",
         EndRank \in 1..MaxTurns, NEW n, ~x.uncertain => n = x.round, ~Completed(x),
         x.tools # {}, x.round > 0, x.round < MaxRounds, AllBuffered(x)
  PROVE  /\ TurnInv(Continues(x), x.tools, n)
         /\ Continues(x).id = x.id /\ Continues(x).pc # "unborn"
         /\ Continues(x).inFlight = 0 /\ Continues(x).previous = x.previous
         /\ Ext(x.frames, Continues(x).frames)
<1>1. x.inFlight = 0
  BY DEF StageInv, TurnState
<1>2. CASE ~(~x.continuing /\ Room(x, Cardinality(x.tools)))
  <2>1. Continues(x) = Failed(x, FALSE)
    BY <1>2 DEF Continues
  <2>2. /\ TurnInv(Failed(x, FALSE), x.tools, n) /\ Outlives(x, Failed(x, FALSE))
        /\ Ext(x.frames, Failed(x, FALSE).frames)
    BY FailsWell
  <2> QED BY <1>1, <2>1, <2>2 DEF Outlives
<1>3. CASE ~x.continuing /\ Room(x, Cardinality(x.tools))
  <2> DEFINE S == x.tools
             fs == x.frames \o Results(S)
             y == [x EXCEPT !.frames = fs, !.outputs = S \cap x.buffered,
                            !.submitted = x.submitted \cup S, !.tools = {}, !.buffered = {},
                            !.continuing = TRUE, !.pc = "launch", !.waiting = FALSE]
  <2>1. Continues(x) = y
    BY <1>3 DEF Continues, Continued
  <2>2. S \in SUBSET Calls /\ S \subseteq Nat /\ S \subseteq x.submitted \cup S /\ S \cap x.submitted = {}
    BY Constants DEF TurnState, FrameInv
  <2>3. x.frames # <<>> /\ x.started
    <3>1. Shown(x.frames, "call") # {}
      BY DEF FrameInv, Growing
    <3> QED BY <3>1, EmptyShows DEF FrameInv
  <2>4. /\ Growing(fs, x.submitted \cup S, x.submitted \cup S)
        /\ Ext(x.frames, fs) /\ OutputOf(fs) = OutputOf(x.frames)
    <3>1. Len(x.frames) + Cardinality(S) < MaxEvents
      BY <1>3 DEF Room
    <3> DEFINE C == x.submitted \cup S
               R == x.submitted
    <3>2. Growing(x.frames, C, R) /\ S \subseteq C /\ S \cap R = {}
      BY <2>2 DEF FrameInv
    <3> HIDE DEF C, R
    <3>3. Growing(fs, C, R \cup S) /\ Ext(x.frames, fs) /\ OutputOf(fs) = OutputOf(x.frames)
      BY <2>2, <2>3, <3>1, <3>2, AddResults
    <3> QED BY <3>3 DEF C, R
  <2>5. fs \in Seq(Frame) /\ fs # <<>>
    <3>1. fs \in Seq(Frame) /\ Len(x.frames) > 0 /\ Len(x.frames) \in Nat
      BY <2>3, <2>4 DEF Growing, Ordered, TurnState
    <3> QED BY <2>4, <3>1 DEF Ext
  <2>6. S \cap x.buffered = S /\ x.submitted \cup S \in SUBSET Calls
    BY BufferedAll DEF TurnState
  <2> HIDE DEF fs
  <2>7. y \in TurnState
    BY <2>2, <2>5, <2>6 DEF TurnState, Steps
  <2>8. /\ y.frames = fs /\ y.outputs = S /\ y.submitted = x.submitted \cup S /\ y.tools = {}
        /\ y.buffered = {} /\ y.pc = "launch" /\ y.waiting = FALSE
        /\ y.started = x.started /\ y.pending = x.pending /\ y.text = x.text
        /\ y.exposed = x.exposed /\ y.round = x.round /\ y.uncertain = x.uncertain
        /\ y.id = x.id /\ y.initializing = x.initializing /\ y.inFlight = x.inFlight
        /\ y.end = x.end /\ y.previous = x.previous
    BY <2>6 DEF TurnState
  <2> HIDE DEF y, S
  <2>9. FrameInv(y)
    <3>1. y.submitted \cup y.tools = x.submitted \cup S
      BY <2>8
    <3>2. ~x.exposed => (x.submitted \cup S) \cap WriteCalls = {}
      BY DEF FrameInv, S
    <3> QED BY <2>3, <2>4, <2>5, <2>8, <3>1, <3>2 DEF FrameInv
  <2>10. TextInv(y)
    BY <2>4, <2>8 DEF TextInv
  <2>11. ControlInv(y, S, n)
    BY <2>8 DEF ControlInv
  <2>12. StageInv(y)
    BY <1>1, <2>8 DEF StageInv
  <2>13. TurnInv(y, S, n)
    BY <2>7, <2>8, <2>9, <2>10, <2>11, <2>12 DEF TurnInv, OpenInv, Completed
  <2> QED BY <1>1, <2>1, <2>4, <2>8, <2>13 DEF S
<1> QED BY <1>2, <1>3

-----------------------------------------------------------------------------
(* Lemmas about the map of turns.                                          *)

LEMMA EndRankIs ==
  ASSUME NEW i \in Turns, ~Completed(t[i])
  PROVE  EndRank \in 1..MaxTurns
<1> DEFINE E == {j \in Turns : Completed(t[j])}
<1>1. E \in SUBSET (Turns \ {i})
  OBVIOUS
<1>2. IsFiniteSet(Turns \ {i}) /\ Cardinality(Turns \ {i}) = MaxTurns - 1
  BY Constants, FS_RemoveElement
<1>3. IsFiniteSet(E) /\ Cardinality(E) <= MaxTurns - 1
  BY <1>1, <1>2, FS_Subset
<1>4. Cardinality(E) \in Nat
  BY <1>3, FS_CardinalityType
<1> QED BY <1>3, <1>4, Constants DEF EndRank

(* Pruning takes turns that ended and have no request out.                 *)
Gone(s, m, k) ==
  /\ k \in [TurnIds -> 0..MaxTurns]
  /\ \A id \in TurnIds : \/ k[id] = m[id]
                         \/ /\ k[id] = 0 /\ m[id] \in Turns
                            /\ Completed(s[m[id]]) /\ s[m[id]].inFlight = 0

LEMMA RetainedGone ==
  ASSUME NEW m \in [TurnIds -> 0..MaxTurns], NEW s
  PROVE  Gone(s, m, Retained(m, s))
<1> DEFINE R == {i \in Turns : (\E id \in TurnIds : m[id] = i) /\ Completed(s[i]) /\ s[i].inFlight = 0}
           D == {i \in R : Cardinality({j \in R : s[j].end >= s[i].end}) > MaxRetained}
<1>1. Retained(m, s) = [id \in TurnIds |-> IF m[id] \in D THEN 0 ELSE m[id]]
  BY DEF Retained, Without
<1>2. \A i \in D : i \in Turns /\ Completed(s[i]) /\ s[i].inFlight = 0
  OBVIOUS
<1>3. 0 \in 0..MaxTurns
  BY Constants
<1> HIDE DEF D
<1> QED BY <1>1, <1>2, <1>3 DEF Gone

LEMMA PrunedGone ==
  ASSUME turns \in [TurnIds -> 0..MaxTurns]
  PROVE  Gone(t, turns, Pruned)
<1> DEFINE m == Retained(turns, t)
           D == {i \in Turns : Expired(t[i])}
<1>1. Gone(t, turns, m)
  BY RetainedGone
<1>2. Pruned = [id \in TurnIds |-> IF m[id] \in D THEN 0 ELSE m[id]]
  BY DEF Pruned, Without
<1>3. \A i \in D : i \in Turns /\ Completed(t[i]) /\ t[i].inFlight = 0
  BY DEF Expired
<1>4. 0 \in 0..MaxTurns
  BY Constants
<1> HIDE DEF D, m
<1> QED BY <1>1, <1>2, <1>3, <1>4 DEF Gone

LEMMA WithoutGone ==
  ASSUME turns \in [TurnIds -> 0..MaxTurns], NEW i \in Turns, NEW k \in {turns, Without(turns, {i})}
  PROVE  /\ k \in [TurnIds -> 0..MaxTurns]
         /\ \A id \in TurnIds : k[id] = turns[id] \/ (k[id] = 0 /\ turns[id] = i)
         /\ k = Without(turns, {i}) => \A id \in TurnIds : k[id] # i
<1>1. 0 \in 0..MaxTurns /\ i # 0
  BY Constants
<1>2. Without(turns, {i}) = [id \in TurnIds |-> IF turns[id] = i THEN 0 ELSE turns[id]]
  BY DEF Without
<1>3. k \in [TurnIds -> 0..MaxTurns] /\ \A id \in TurnIds : k[id] = turns[id] \/ (k[id] = 0 /\ turns[id] = i)
  BY <1>1, <1>2
<1>4. ASSUME k = Without(turns, {i}) PROVE \A id \in TurnIds : k[id] # i
  BY <1>1, <1>2, <1>4
<1> QED BY <1>3, <1>4

-----------------------------------------------------------------------------
(* A section of one turn.  What it makes of the turn, and of the rest.     *)

Follows(x, y) ==
  /\ x.pc # "unborn" /\ y.pc # "unborn" /\ y.id = x.id
  /\ Ext(x.frames, y.frames)
  /\ Completed(x) => Completed(y) /\ y.frames = x.frames
  /\ Holds(y) => Holds(x)
  /\ Ran(y) => Ran(x)

MapFollows(i) ==
  /\ turns' \in [TurnIds -> 0..MaxTurns] /\ tomb' \subseteq TurnIds /\ tomb \subseteq tomb'
  /\ \A id \in TurnIds : turns'[id] = turns[id] \/ (turns'[id] = 0 /\ ~Holds(t'[turns[id]]))
  /\ \A id \in TurnIds : turns'[id] = i => Ran(t'[i])
  /\ Completed(t'[i]) => t'[i].id \in tomb'

RestFollows(i) ==
  /\ asked' = [asked EXCEPT ![i] = asked'[i]] /\ asked'[i] \subseteq Calls
  /\ answered' = [answered EXCEPT ![i] = answered'[i]] /\ answered'[i] \in 0..MaxRounds
  /\ resolved \subseteq resolved' /\ resolved' \subseteq Responses
  /\ runtime' \in [Sessions -> [known: BOOLEAN, previous: Responses \cup {None}]]
  /\ \A s \in Sessions : runtime'[s].previous \in resolved' \cup {None}
  /\ t'[i].previous \in resolved' \cup {None}
  /\ reader' = reader

Moves(i) ==
  /\ t' = [t EXCEPT ![i] = t'[i]]
  /\ Follows(t[i], t'[i]) /\ TurnInv(t'[i], asked'[i], answered'[i])
  /\ MapFollows(i) /\ RestFollows(i)

(* Frames that were delivered stay, and what they say stays.               *)
LEMMA ExtPrefix ==
  ASSUME NEW fs \in Seq(Frame), NEW gs \in Seq(Frame), Ext(fs, gs)
  PROVE  /\ IsPrefix(fs, gs) /\ Len(fs) <= Len(gs)
         /\ \A m \in 0..Len(fs) : SubSeq(gs, 1, m) = SubSeq(fs, 1, m)
<1>1. Len(fs) \in Nat /\ Len(gs) \in Nat /\ Len(fs) <= Len(gs)
  BY DEF Ext
<1>2. ASSUME NEW m \in 0..Len(fs)
      PROVE  SubSeq(gs, 1, m) = SubSeq(fs, 1, m)
  <2> DEFINE p == SubSeq(fs, 1, m)
             q == SubSeq(gs, 1, m)
  <2>1. p \in Seq(Frame) /\ Len(p) = m /\ \A k \in 1..m : p[k] = fs[k]
    BY <1>1, <1>2
  <2>2. q \in Seq(Frame) /\ Len(q) = m /\ \A k \in 1..m : q[k] = gs[k]
    BY <1>1, <1>2
  <2>3. \A k \in 1..m : gs[k] = fs[k]
    BY <1>1, <1>2 DEF Ext
  <2> HIDE DEF p, q
  <2>4. p = q
    BY <2>1, <2>2, <2>3, SeqEqual
  <2> QED BY <2>4 DEF p, q
<1>3. SubSeq(gs, 1, Len(fs)) = SubSeq(fs, 1, Len(fs))
  BY <1>1, <1>2
<1> QED BY <1>1, <1>2, <1>3 DEF IsPrefix

LEMMA MovesKeep ==
  ASSUME AdapterInv, NEW i \in Turns, Moves(i)
  PROVE  AdapterInv' /\ FramesStay
<1>1. /\ TypeOK /\ \A j \in Turns : TurnInv(t[j], asked[j], answered[j])
      /\ MapInv /\ PlaceInv /\ CheckpointInv /\ ReaderInv
  BY DEF AdapterInv
<1>2. /\ t' = [t EXCEPT ![i] = t'[i]] /\ Follows(t[i], t'[i])
      /\ TurnInv(t'[i], asked'[i], answered'[i]) /\ MapFollows(i) /\ RestFollows(i)
  BY DEF Moves
<1>3. t'[i] \in TurnState /\ t \in [Turns -> TurnState]
  BY <1>1, <1>2 DEF TurnInv, TypeOK
<1>4. /\ \A j \in Turns \ {i} : t'[j] = t[j] /\ asked'[j] = asked[j] /\ answered'[j] = answered[j]
      /\ t' \in [Turns -> TurnState]
  BY <1>1, <1>2, <1>3 DEF RestFollows, TypeOK
<1>5. TypeOK'
  BY <1>1, <1>2, <1>4 DEF TypeOK, MapFollows, RestFollows
<1>6. \A j \in Turns : TurnInv(t'[j], asked'[j], answered'[j])
  BY <1>1, <1>2, <1>4
<1>7. /\ \A j \in Turns : t'[j].id = t[j].id /\ (t'[j].pc = "unborn" <=> t[j].pc = "unborn")
      /\ \A j \in Turns : (Holds(t'[j]) => Holds(t[j])) /\ (Ran(t'[j]) => Ran(t[j]))
  BY <1>2, <1>4 DEF Follows
<1>8. MapInv'
  <2>1. ASSUME NEW id \in TurnIds, turns'[id] # 0
        PROVE  Ran(t'[turns'[id]]) /\ t'[turns'[id]].id = id
    <3>1. turns'[id] = turns[id] /\ turns[id] \in Turns
      BY <1>1, <1>2, <2>1 DEF MapFollows, TypeOK, Turns
    <3>2. Ran(t[turns[id]]) /\ t[turns[id]].id = id
      BY <1>1, <2>1, <3>1 DEF MapInv
    <3>3. Ran(t'[turns'[id]])
      BY <1>2, <1>4, <3>1, <3>2 DEF MapFollows
    <3> QED BY <1>7, <3>1, <3>2, <3>3
  <2>2. ASSUME NEW j \in Turns, Holds(t'[j]) PROVE turns'[t'[j].id] = j
    <3>1. Holds(t[j]) /\ t'[j].id = t[j].id /\ turns[t[j].id] = j
      BY <1>1, <1>7, <2>2 DEF MapInv, Holders
    <3>2. t[j].id \in TurnIds
      <4>1. t[j].pc # "unborn"
        BY <3>1 DEF Holds, Ran
      <4> QED BY <1>1, <4>1 DEF TurnInv, StageInv, TurnState
    <3> QED BY <1>2, <2>2, <3>1, <3>2 DEF MapFollows
  <2>3. ASSUME NEW j \in Turns, Completed(t'[j]) PROVE t'[j].id \in tomb'
    BY <1>1, <1>2, <1>4, <2>3 DEF MapInv, MapFollows
  <2> QED BY <2>1, <2>2, <2>3 DEF MapInv, Holders
<1>9. PlaceInv'
  <2>1. Holders' \subseteq Holders
    BY <1>7 DEF Holders
  <2>2. IsFiniteSet(Holders) /\ Cardinality(Holders) \in Nat
    BY Constants, FS_Subset, FS_CardinalityType DEF Holders
  <2>3. IsFiniteSet(Holders') /\ Cardinality(Holders') <= Cardinality(Holders)
    BY <2>1, <2>2, FS_Subset
  <2>4. Cardinality(Holders') \in Nat
    BY <2>3, FS_CardinalityType
  <2>5. Cardinality(Holders') <= MaxConcurrent
    BY <1>1, <2>2, <2>3, <2>4, Constants DEF PlaceInv
  <2>6. \A j, k \in Turns : Ran(t'[j]) /\ Ran(t'[k]) /\ t'[j].id = t'[k].id => j = k
    BY <1>1, <1>7 DEF PlaceInv
  <2>7. \A j, k \in Holders' : SessionOf[t'[j].id] = SessionOf[t'[k].id] => j = k
    BY <1>1, <1>7, <2>1 DEF PlaceInv, Holders
  <2> QED BY <2>5, <2>6, <2>7 DEF PlaceInv
<1>10. CheckpointInv'
  BY <1>1, <1>2, <1>4 DEF CheckpointInv, RestFollows
<1>11. \A j \in Turns : /\ t[j].frames \in Seq(Frame) /\ t'[j].frames \in Seq(Frame)
                        /\ Ext(t[j].frames, t'[j].frames)
                        /\ Completed(t[j]) => t'[j].frames = t[j].frames
  <2>1. \A j \in Turns : t[j].frames \in Seq(Frame) /\ t'[j].frames \in Seq(Frame)
    BY <1>3, <1>4 DEF TurnState
  <2> QED BY <1>2, <1>4, <2>1 DEF Follows, Ext
<1>12. \A j \in Turns : /\ IsPrefix(t[j].frames, t'[j].frames)
                        /\ Len(t[j].frames) <= Len(t'[j].frames)
                        /\ \A m \in 0..Len(t[j].frames) :
                             SubSeq(t'[j].frames, 1, m) = SubSeq(t[j].frames, 1, m)
  BY <1>11, ExtPrefix
<1>13. ReaderInv'
  <2> SUFFICES ASSUME NEW j \in Turns
               PROVE  /\ reader[j].pos <= Len(t'[j].frames)
                      /\ reader[j].idle \/ reader[j].done =>
                           Honest(SubSeq(t'[j].frames, 1, reader[j].pos))
    BY <1>2 DEF ReaderInv, RestFollows
  <2>1. reader[j].pos \in Nat /\ reader[j].pos <= Len(t[j].frames) /\ Len(t[j].frames) \in Nat
        /\ Len(t'[j].frames) \in Nat
    BY <1>1, <1>11, Constants DEF ReaderInv, TypeOK
  <2>2. reader[j].pos <= Len(t'[j].frames)
    BY <1>12, <2>1
  <2>3. SubSeq(t'[j].frames, 1, reader[j].pos) = SubSeq(t[j].frames, 1, reader[j].pos)
    BY <1>12, <2>1
  <2> QED BY <1>1, <2>2, <2>3 DEF ReaderInv
<1>14. FramesStay
  BY <1>11, <1>12 DEF FramesStay
<1> QED BY <1>5, <1>6, <1>8, <1>9, <1>10, <1>13, <1>14 DEF AdapterInv

-----------------------------------------------------------------------------
(* Lemmas about sections.                                                  *)

LEMMA TurnFacts ==
  ASSUME AdapterInv, NEW i \in Turns
  PROVE  /\ TypeOK /\ t[i] \in TurnState /\ StageInv(t[i])
         /\ Completed(t[i]) => ClosedInv(t[i], answered[i])
         /\ ~Completed(t[i]) =>
              /\ FrameInv(t[i]) /\ TextInv(t[i]) /\ ControlInv(t[i], asked[i], answered[i])
              /\ EndRank \in 1..MaxTurns
         /\ t[i].pc = "launch" /\ t[i].round > 0 => t[i].outputs = asked[i]
         /\ TurnInv(t[i], asked[i], answered[i])
         /\ asked[i] \subseteq Calls /\ answered[i] \in 0..MaxRounds
         /\ t[i].previous \in resolved \cup {None}
         /\ Ext(t[i].frames, t[i].frames)
<1>1. TypeOK /\ TurnInv(t[i], asked[i], answered[i]) /\ t[i].previous \in resolved \cup {None}
  BY DEF AdapterInv, CheckpointInv
<1>2. t[i] \in TurnState /\ asked[i] \subseteq Calls /\ answered[i] \in 0..MaxRounds
  BY <1>1 DEF TypeOK
<1>3. Ext(t[i].frames, t[i].frames)
  <2>1. Len(t[i].frames) \in Nat
    BY <1>2 DEF TurnState
  <2> QED BY <2>1 DEF Ext
<1>4. ~Completed(t[i]) => EndRank \in 1..MaxTurns
  BY EndRankIs
<1> QED BY <1>1, <1>2, <1>3, <1>4 DEF TurnInv, OpenInv

LEMMA RestStays ==
  ASSUME AdapterInv, NEW i \in Turns, UNCHANGED <<runtime, asked, answered, resolved, reader>>,
         t'[i].previous = t[i].previous
  PROVE  RestFollows(i)
<1>1. TypeOK /\ CheckpointInv
  BY DEF AdapterInv
<1> QED BY <1>1 DEF RestFollows, TypeOK, CheckpointInv

LEMMA LeavesMoves ==
  ASSUME AdapterInv, NEW i \in Turns, NEW y, Leaves(i, y), Follows(t[i], y), Ran(y),
         TurnInv(y, asked'[i], answered'[i]), RestFollows(i)
  PROVE  Moves(i)
<1>1. TypeOK /\ MapInv /\ t[i] \in TurnState /\ StageInv(t[i])
  BY TurnFacts DEF AdapterInv
<1>2. t' = [t EXCEPT ![i] = y] /\ t'[i] = y /\ t' = [t EXCEPT ![i] = t'[i]]
  BY <1>1 DEF Leaves, TypeOK
<1>3. y.id \in TurnIds /\ y.id = t[i].id
  BY <1>1 DEF Follows, StageInv, TurnState
<1>4. tomb' \subseteq TurnIds /\ tomb \subseteq tomb' /\ (Completed(y) => y.id \in tomb')
  BY <1>1, <1>3 DEF Leaves, Tombs, MapInv, TypeOK
<1>5. CASE Completed(y) /\ ~Completed(t[i])
  <2>1. turns' = Retained(turns, t')
    BY <1>2, <1>5 DEF Leaves
  <2>2. Gone(t', turns, turns')
    BY <1>1, <2>1, RetainedGone DEF TypeOK
  <2>3. \A id \in TurnIds : turns'[id] = turns[id] \/ (turns'[id] = 0 /\ ~Holds(t'[turns[id]]))
    BY <2>2 DEF Gone, Holds
  <2>4. MapFollows(i)
    BY <1>2, <1>4, <2>2, <2>3 DEF MapFollows, Gone
  <2> QED BY <1>2, <2>4 DEF Moves
<1>6. CASE ~(Completed(y) /\ ~Completed(t[i]))
  <2>1. turns' = turns
    BY <1>6 DEF Leaves
  <2>2. MapFollows(i)
    BY <1>1, <1>2, <1>4, <2>1 DEF MapFollows, TypeOK
  <2> QED BY <1>2, <2>2 DEF Moves
<1> QED BY <1>5, <1>6

LEMMA StaysMoves ==
  ASSUME AdapterInv, NEW i \in Turns, NEW y, t' = [t EXCEPT ![i] = y], tomb' = tomb,
         \/ turns' = turns /\ (Ran(t[i]) => Ran(y))
         \/ turns' = Without(turns, {i}) /\ ~Holds(y),
         Completed(y) => Completed(t[i]), Follows(t[i], y),
         TurnInv(y, asked'[i], answered'[i]), RestFollows(i)
  PROVE  Moves(i)
<1>1. TypeOK /\ MapInv
  BY DEF AdapterInv
<1>2. t'[i] = y /\ t' = [t EXCEPT ![i] = t'[i]]
  BY <1>1 DEF TypeOK
<1>3. Completed(y) => y.id \in tomb'
  BY <1>1 DEF MapInv, Follows
<1>4. turns \in [TurnIds -> 0..MaxTurns]
  BY <1>1 DEF TypeOK
<1>5. /\ turns' \in [TurnIds -> 0..MaxTurns]
      /\ \A id \in TurnIds : turns'[id] = turns[id] \/ (turns'[id] = 0 /\ turns[id] = i)
      /\ turns' = Without(turns, {i}) => \A id \in TurnIds : turns'[id] # i
  <2>1. turns' \in {turns, Without(turns, {i})}
    OBVIOUS
  <2> QED BY <1>4, <2>1, WithoutGone
<1>6. \A id \in TurnIds : turns'[id] = turns[id] \/ (turns'[id] = 0 /\ ~Holds(t'[turns[id]]))
  BY <1>2, <1>5
<1>7. \A id \in TurnIds : turns'[id] = i => Ran(t'[i])
  <2>1. CASE turns' = turns /\ (Ran(t[i]) => Ran(y))
    <3>1. i # 0
      BY Constants
    <3> QED BY <1>1, <1>2, <2>1, <3>1 DEF MapInv
  <2>2. CASE turns' = Without(turns, {i})
    BY <1>5, <2>2
  <2> QED BY <2>1, <2>2
<1>8. MapFollows(i)
  BY <1>1, <1>2, <1>3, <1>5, <1>6, <1>7 DEF MapFollows, TypeOK
<1> QED BY <1>2, <1>8 DEF Moves

(* What FrameInv and TextInv are about.                                    *)
Shows(x, y) ==
  /\ y.frames = x.frames /\ y.started = x.started /\ y.text = x.text /\ y.pending = x.pending
  /\ y.tools = x.tools /\ y.buffered = x.buffered /\ y.submitted = x.submitted
  /\ y.exposed = x.exposed

LEMMA ShowsKeeps ==
  ASSUME NEW x, NEW y, Shows(x, y), FrameInv(x)
  PROVE  FrameInv(y) /\ (TextInv(x) => TextInv(y))
BY DEF Shows, FrameInv, TextInv

(* A turn that goes on, changed by a section.                              *)
LEMMA OpenFollows ==
  ASSUME NEW x \in TurnState, x.pc # "unborn", ~Dead(x), ~Completed(x),
         NEW y \in TurnState, y.id = x.id, y.end = x.end, y.pc # "unborn",
         FrameInv(y), TextInv(y), StageInv(y), NEW a, NEW n, ControlInv(y, a, n),
         y.pc = "launch" /\ y.round > 0 => y.outputs = a, Ext(x.frames, y.frames)
  PROVE  /\ Follows(x, y) /\ TurnInv(y, a, n) /\ ~Completed(y)
         /\ y.pc # "none" \/ y.round > 0 => Ran(y)
<1>1. ~Completed(y)
  BY DEF Completed
<1>2. Ran(x) /\ Holds(x)
  BY DEF Ran, Holds
<1>3. Follows(x, y)
  BY <1>1, <1>2 DEF Follows
<1>4. TurnInv(y, a, n)
  BY <1>1 DEF TurnInv, OpenInv
<1>5. y.pc # "none" \/ y.round > 0 => Ran(y)
  BY DEF Ran, Dead
<1> QED BY <1>1, <1>3, <1>4, <1>5

(* A turn that a section ends.                                             *)
LEMMA EndFollows ==
  ASSUME NEW x \in TurnState, x.pc # "unborn", ~Dead(x), ~Completed(x),
         NEW y, y.id = x.id, y.pc # "unborn", Ext(x.frames, y.frames), Completed(y)
  PROVE  Follows(x, y) /\ Ran(y)
BY DEF Follows, Ran, Dead, Holds

(* A turn that has ended, when a section leaves it.                        *)
LEMMA ClosedFollows ==
  ASSUME NEW x \in TurnState, x.pc # "unborn", Completed(x), NEW m, ClosedInv(x, m),
         NEW y \in TurnState, y.id = x.id, y.end = x.end, y.pc # "unborn", StageInv(y),
         y.frames = x.frames, y.pending = x.pending, y.round = x.round,
         y.inFlight = x.inFlight \/ y.inFlight = 0, NEW a, NEW n, n = m \/ n = y.round,
         y.pc = "launch" /\ y.round > 0 => y.outputs = a
  PROVE  Follows(x, y) /\ TurnInv(y, a, n) /\ Completed(y) /\ Ran(y)
<1>1. Completed(y)
  BY DEF Completed
<1>2. ClosedInv(y, n)
  BY DEF ClosedInv
<1>3. Ran(x) /\ Ran(y) /\ (Holds(y) => Holds(x))
  BY <1>1 DEF Ran, Dead, Holds
<1>4. Ext(x.frames, y.frames)
  <2>1. Len(x.frames) \in Nat
    BY DEF TurnState
  <2> QED BY <2>1 DEF Ext
<1>5. Follows(x, y)
  BY <1>1, <1>3, <1>4 DEF Follows
<1>6. TurnInv(y, a, n)
  BY <1>1, <1>2 DEF TurnInv
<1> QED BY <1>1, <1>3, <1>5, <1>6

-----------------------------------------------------------------------------
(* The initialization of a turn, and its launch.                           *)

(* What the steps of the turn's goroutine write.                           *)
Others(x, y) ==
  /\ Shows(x, y) /\ y.id = x.id /\ y.end = x.end /\ y.outputs = x.outputs
  /\ y.waiting = x.waiting /\ y.previous = x.previous

LEMMA WrittenStep ==
  ASSUME NEW x \in TurnState, NEW p \in Steps \ {"unborn"},
         NEW y \in {[x EXCEPT !.pc = p], [x EXCEPT !.initializing = FALSE, !.pc = p]}
  PROVE  /\ y \in TurnState /\ Others(x, y) /\ y.pc = p
         /\ y.initializing = x.initializing \/ y.initializing = FALSE
         /\ y = [x EXCEPT !.initializing = FALSE, !.pc = p] => y.initializing = FALSE
         /\ y.round = x.round /\ y.inFlight = x.inFlight /\ y.uncertain = x.uncertain
<1>1. y \in TurnState
  <2>1. CASE y = [x EXCEPT !.pc = p]
    BY <2>1 DEF TurnState
  <2>2. CASE y = [x EXCEPT !.initializing = FALSE, !.pc = p]
    BY <2>2 DEF TurnState
  <2> QED BY <2>1, <2>2
<1>2. Others(x, y)
  BY DEF TurnState, Others, Shows
<1>3. /\ y.pc = p /\ (y.initializing = x.initializing \/ y.initializing = FALSE)
      /\ y = [x EXCEPT !.initializing = FALSE, !.pc = p] => y.initializing = FALSE
      /\ y.round = x.round /\ y.inFlight = x.inFlight /\ y.uncertain = x.uncertain
  BY DEF TurnState
<1> QED BY <1>1, <1>2, <1>3

(* The end of an initialization.                                           *)
LEMMA InitializationEnds ==
  ASSUME AdapterInv, NEW i \in Turns, t[i].pc \in {"session", "init"},
         NEW p \in {"none", "launch"}, Completed(t[i]) => p = "none", 
         t' = [t EXCEPT ![i] = [t[i] EXCEPT !.initializing = FALSE, !.pc = p]],
         IF p = "none" /\ ~Completed(t[i]) THEN turns' = Without(turns, {i}) ELSE turns' = turns,
         UNCHANGED <<runtime, tomb, asked, answered, resolved, reader>>
  PROVE  Moves(i)
<1> DEFINE x == t[i]
           a == asked[i]
           n == answered[i]
<1>1. /\ x \in TurnState /\ StageInv(x) /\ x.pc \in {"session", "init"} /\ x.round = 0
      /\ x.inFlight = 0 /\ x.id # None /\ Ext(x.frames, x.frames)
  BY TurnFacts DEF StageInv, TurnState
<1>2. /\ Completed(x) => ClosedInv(x, n)
      /\ ~Completed(x) => FrameInv(x) /\ TextInv(x) /\ ControlInv(x, a, n)
  BY TurnFacts
<1>3. PICK y : y = [x EXCEPT !.initializing = FALSE, !.pc = p]
  OBVIOUS
<1>4. t' = [t EXCEPT ![i] = y] /\ t'[i] = y
  BY <1>3, TurnFacts DEF TypeOK
<1> HIDE DEF x, a, n
<1>5. /\ y \in TurnState /\ Others(x, y) /\ y.pc = p /\ y.initializing = FALSE
      /\ y.round = x.round /\ y.inFlight = x.inFlight /\ y.uncertain = x.uncertain
  <2>1. p \in Steps \ {"unborn"}
    BY DEF Steps
  <2> QED BY <1>1, <1>3, <2>1, WrittenStep
<1>6. StageInv(y) /\ (Completed(y) <=> Completed(x))
  BY <1>1, <1>5 DEF StageInv, Others, Completed
<1>7. CASE Completed(x)
  <2>1. Follows(x, y) /\ TurnInv(y, a, n) /\ Ran(y)
    BY <1>1, <1>2, <1>5, <1>6, <1>7, ClosedFollows DEF Others, Shows
  <2>2. turns' = turns
    BY <1>7 DEF x
  <2>3. RestFollows(i)
    BY <1>4, <1>5, RestStays DEF Others, x
  <2> QED BY <1>4, <1>6, <2>1, <2>2, <2>3, StaysMoves DEF x, a, n
<1>8. CASE ~Completed(x)
  <2>1. ControlInv(y, a, n)
    BY <1>1, <1>2, <1>5, <1>8 DEF ControlInv, Others, Shows
  <2>2. FrameInv(y) /\ TextInv(y)
    BY <1>2, <1>5, <1>8, ShowsKeeps DEF Others
  <2>3. Follows(x, y) /\ TurnInv(y, a, n) /\ ~Completed(y)
    BY <1>1, <1>5, <1>6, <1>8, <2>1, <2>2, OpenFollows DEF Others, Shows, Dead
  <2>4. (turns' = turns /\ Ran(y)) \/ (turns' = Without(turns, {i}) /\ ~Holds(y))
    BY <1>1, <1>5, <1>8, <2>3 DEF Holds, Ran, Dead, x
  <2>5. RestFollows(i)
    BY <1>4, <1>5, RestStays DEF Others, x
  <2> QED BY <1>4, <2>3, <2>4, <2>5, StaysMoves DEF x, a, n
<1> QED BY <1>7, <1>8

LEMMA SessionCreatedMoves ==
  ASSUME AdapterInv, NEW i \in Turns, SessionCreated(i)
  PROVE  Moves(i)
<1> DEFINE x == t[i]
           a == asked[i]
           n == answered[i]
<1>1. /\ x \in TurnState /\ StageInv(x) /\ x.pc = "session" /\ x.round = 0
      /\ Ext(x.frames, x.frames)
  BY TurnFacts DEF SessionCreated, StageInv
<1>2. UNCHANGED <<turns, runtime, tomb, asked, answered, resolved, reader>>
  BY DEF SessionCreated
<1>3. CASE Completed(x)
  <2>1. t' = [t EXCEPT ![i] = [x EXCEPT !.initializing = FALSE, !.pc = "none"]]
    BY <1>3, TurnFacts DEF SessionCreated, TypeOK
  <2> QED BY <1>1, <1>2, <1>3, <2>1, InitializationEnds
<1>4. CASE ~Completed(x)
  <2>1. PICK y : y = [x EXCEPT !.session = TRUE, !.pc = "init"]
    OBVIOUS
  <2>2. t' = [t EXCEPT ![i] = y] /\ t'[i] = y
    BY <1>4, <2>1, TurnFacts DEF SessionCreated, TypeOK
  <2>3. FrameInv(x) /\ TextInv(x) /\ ControlInv(x, a, n)
    BY <1>4, TurnFacts
  <2> HIDE DEF x, a, n
  <2>4. y \in TurnState
    <3>1. x \in TurnState
      BY <1>1
    <3> QED BY <2>1, <3>1 DEF TurnState, Steps
  <2>5. /\ Others(x, y) /\ y.pc = "init" /\ y.initializing = x.initializing
        /\ y.round = x.round /\ y.inFlight = x.inFlight /\ y.uncertain = x.uncertain
    BY <1>1, <2>1 DEF TurnState, Others, Shows
  <2>6. StageInv(y) /\ ControlInv(y, a, n)
    BY <1>1, <2>3, <2>5 DEF StageInv, ControlInv, Others, Shows
  <2>7. FrameInv(y) /\ TextInv(y)
    BY <2>3, <2>5, ShowsKeeps DEF Others
  <2>8. Follows(x, y) /\ TurnInv(y, a, n) /\ ~Completed(y) /\ Ran(y)
    BY <1>1, <1>4, <2>4, <2>5, <2>6, <2>7, OpenFollows DEF Others, Shows, Dead
  <2>9. RestFollows(i)
    BY <1>2, <2>2, <2>5, RestStays DEF Others, x
  <2> QED BY <1>2, <2>2, <2>8, <2>9, StaysMoves DEF x, a, n
<1> QED BY <1>3, <1>4

LEMMA SessionFailsMoves ==
  ASSUME AdapterInv, NEW i \in Turns, SessionFails(i)
  PROVE  Moves(i)
<1>1. t' = [t EXCEPT ![i] = [t[i] EXCEPT !.initializing = FALSE, !.pc = "none"]]
  BY TurnFacts DEF SessionFails, TypeOK
<1>2. turns' = IF Completed(t[i]) THEN turns ELSE Without(turns, {i})
  BY DEF SessionFails
<1> QED BY <1>1, <1>2, InitializationEnds DEF SessionFails

LEMMA InitializedMoves ==
  ASSUME AdapterInv, NEW i \in Turns, Initialized(i)
  PROVE  Moves(i)
<1>1. PICK p \in {"none", "launch"} : p = IF Completed(t[i]) THEN "none" ELSE "launch"
  OBVIOUS
<1>2. t' = [t EXCEPT ![i] = [t[i] EXCEPT !.initializing = FALSE, !.pc = p]]
  BY <1>1, TurnFacts DEF Initialized, TypeOK
<1> QED BY <1>1, <1>2, InitializationEnds DEF Initialized

LEMMA InvokeMoves ==
  ASSUME AdapterInv, NEW i \in Turns, Invoke(i)
  PROVE  Moves(i)
<1> DEFINE x == t[i]
           a == asked[i]
           n == answered[i]
<1>1. /\ x \in TurnState /\ StageInv(x) /\ x.pc = "launch" /\ x.id # None /\ x.inFlight = 0
      /\ Ext(x.frames, x.frames) /\ a \subseteq Calls /\ n \in 0..MaxRounds
  BY TurnFacts DEF Invoke, StageInv, TurnState
<1>2. UNCHANGED <<turns, runtime, tomb, answered, resolved, reader>>
  BY DEF Invoke
<1>3. CASE Completed(x)
  <2>1. PICK y : y = [x EXCEPT !.pc = "none"]
    OBVIOUS
  <2>2. t' = [t EXCEPT ![i] = y] /\ t'[i] = y /\ asked' = asked
    BY <1>3, <2>1, TurnFacts DEF Invoke, TypeOK
  <2>3. ClosedInv(x, n)
    BY <1>3, TurnFacts
  <2> HIDE DEF x, a, n
  <2>4. /\ y \in TurnState /\ Others(x, y) /\ y.pc = "none" /\ y.initializing \in {x.initializing, FALSE}
        /\ y.round = x.round /\ y.inFlight = x.inFlight /\ y.uncertain = x.uncertain
    <3>1. "none" \in Steps \ {"unborn"}
      BY DEF Steps
    <3> QED BY <1>1, <2>1, <3>1, WrittenStep
  <2>5. StageInv(y)
    BY <1>1, <2>4 DEF StageInv, Others
  <2>6. Follows(x, y) /\ TurnInv(y, a, n) /\ Completed(y) /\ Ran(y)
    BY <1>1, <1>3, <2>3, <2>4, <2>5, ClosedFollows DEF Others, Shows
  <2>7. RestFollows(i)
    BY <1>2, <2>2, <2>4, RestStays DEF Others, x
  <2> QED BY <1>2, <1>3, <2>2, <2>6, <2>7, StaysMoves DEF x, a, n
<1>4. CASE ~Completed(x)
  <2>1. PICK y : y = [x EXCEPT !.pc = "invoking", !.inFlight = 1, !.uncertain = TRUE, !.round = @ + 1]
    OBVIOUS
  <2>2. t' = [t EXCEPT ![i] = y] /\ t'[i] = y /\ asked' = [asked EXCEPT ![i] = {}]
    BY <1>4, <2>1, TurnFacts DEF Invoke, TypeOK
  <2>3. FrameInv(x) /\ TextInv(x) /\ ControlInv(x, a, n) /\ asked'[i] = {}
    BY <1>4, <2>2, TurnFacts DEF TypeOK
  <2> HIDE DEF x, a, n
  <2>4. x \in TurnState /\ x.round + 1 \in 0..MaxRounds /\ x.round \in Nat
    <3>1. x.round \in 0..MaxRounds /\ x \in TurnState
      BY <1>1 DEF TurnState
    <3>2. x.round < MaxRounds
      BY <1>1, <2>3 DEF ControlInv
    <3> QED BY <3>1, <3>2, Constants
  <2>5. y \in TurnState
    <3>1. PICK r \in 0..MaxRounds : r = x.round + 1
      BY <2>4
    <3>2. y = [x EXCEPT !.pc = "invoking", !.inFlight = 1, !.uncertain = TRUE, !.round = r]
      BY <2>1, <3>1
    <3>3. "invoking" \in Steps /\ 1 \in 0..1
      BY DEF Steps
    <3> QED BY <2>4, <3>1, <3>2, <3>3 DEF TurnState
  <2>6. /\ Others(x, y) /\ y.pc = "invoking" /\ y.initializing = x.initializing
        /\ y.round = x.round + 1 /\ y.inFlight = 1 /\ y.uncertain = TRUE
    BY <2>1, <2>4 DEF TurnState, Others, Shows
  <2>7. StageInv(y) /\ ControlInv(y, {}, n)
    BY <1>1, <2>3, <2>4, <2>6 DEF StageInv, ControlInv, Others, Shows
  <2>8. FrameInv(y) /\ TextInv(y)
    BY <2>3, <2>6, ShowsKeeps DEF Others
  <2>9. Follows(x, y) /\ TurnInv(y, {}, n) /\ ~Completed(y) /\ Ran(y)
    BY <1>1, <1>4, <2>5, <2>6, <2>7, <2>8, OpenFollows DEF Others, Shows, Dead
  <2>10. RestFollows(i)
    BY <1>2, <2>2, <2>3, <2>6, TurnFacts DEF RestFollows, Others, x, TypeOK, CheckpointInv, AdapterInv
  <2> QED BY <1>2, <2>2, <2>3, <2>9, <2>10, StaysMoves DEF x, n
<1> QED BY <1>3, <1>4

-----------------------------------------------------------------------------
(* The callbacks of an invocation.  What they may make of turn x.          *)

Going(x, y) ==
  /\ y \in TurnState /\ FrameInv(y) /\ TextInv(y) /\ Ext(x.frames, y.frames)
  /\ y.id = x.id /\ y.initializing = x.initializing /\ y.round = x.round
  /\ y.uncertain = x.uncertain /\ y.waiting = x.waiting /\ y.inFlight = x.inFlight
  /\ y.end = x.end /\ y.previous = x.previous /\ y.outputs = x.outputs
  /\ y.submitted = x.submitted /\ y.pc \in {"invoking", "failing"}

LEMMA ExtTransitive ==
  ASSUME NEW fs \in Seq(Frame), NEW gs \in Seq(Frame), NEW hs \in Seq(Frame), Ext(fs, gs), Ext(gs, hs)
  PROVE  Ext(fs, hs)
BY DEF Ext

LEMMA GoingOn ==
  ASSUME NEW x \in TurnState, NEW y, Going(x, y), NEW z \in TurnState, Alike(y, z),
         FrameInv(z), TextInv(z), Ext(y.frames, z.frames)
  PROVE  Going(x, z) /\ z.pc = y.pc /\ z.tools = y.tools
<1>1. Ext(x.frames, z.frames)
  BY ExtTransitive DEF TurnState, Going
<1> QED BY <1>1 DEF Going, Alike

LEMMA GoingStarted ==
  ASSUME NEW x \in TurnState, NEW y, Going(x, y)
  PROVE  /\ Going(x, Started(y)) /\ Started(y).pc = y.pc /\ Started(y).tools = y.tools
         /\ CanStart(y) /\ Started(y).started /\ Started(y).frames # <<>>
<1>1. y \in TurnState /\ FrameInv(y) /\ TextInv(y)
  BY DEF Going
<1>2. /\ CanStart(y) /\ Started(y) \in TurnState /\ FrameInv(Started(y))
      /\ Started(y).started /\ Started(y).frames # <<>> /\ Alike(y, Started(y))
      /\ Ext(y.frames, Started(y).frames) /\ TextInv(Started(y))
  BY <1>1, StartedKeeps DEF TextInv, Alike
<1> QED BY <1>2, GoingOn

LEMMA GoingFlushed ==
  ASSUME NEW x \in TurnState, NEW y, Going(x, y), CanFlush(y)
  PROVE  /\ Going(x, Flushed(y)) /\ Flushed(y).pc = y.pc /\ Flushed(y).tools = y.tools
         /\ y.frames # <<>> => Flushed(y).frames # <<>>
<1>1. y \in TurnState /\ FrameInv(y) /\ TextInv(y)
  BY DEF Going
<1>2. /\ Flushed(y) \in TurnState /\ FrameInv(Flushed(y)) /\ TextInv(Flushed(y))
      /\ Alike(y, Flushed(y)) /\ Ext(y.frames, Flushed(y).frames)
      /\ (y.frames # <<>> => Flushed(y).frames # <<>>)
  BY <1>1, FlushedKeeps
<1> QED BY <1>2, GoingOn

LEMMA GoingBroken ==
  ASSUME NEW x \in TurnState, NEW y, Going(x, y)
  PROVE  Going(x, Breaking(y)) /\ Breaking(y).pc = "failing" /\ Breaking(y).tools = y.tools
<1>1. y \in TurnState /\ FrameInv(y) /\ TextInv(y)
  BY DEF Going
<1>2. PICK z : z = [y EXCEPT !.pc = "failing"]
  OBVIOUS
<1>3. z \in TurnState /\ Others(y, z) /\ z.pc = "failing" /\ z.round = y.round
      /\ z.inFlight = y.inFlight /\ z.uncertain = y.uncertain
  <2>1. "failing" \in Steps \ {"unborn"}
    BY DEF Steps
  <2> QED BY <1>1, <1>2, <2>1, WrittenStep
<1>4. z.initializing = y.initializing
  BY <1>1, <1>2 DEF TurnState
<1>5. FrameInv(z) /\ TextInv(z)
  BY <1>1, <1>3, ShowsKeeps DEF Others
<1>6. Going(x, z) /\ z.tools = y.tools
  BY <1>3, <1>4, <1>5 DEF Going, Others, Shows
<1> QED BY <1>2, <1>3, <1>6 DEF Breaking

LEMMA GoingText ==
  ASSUME NEW x \in TurnState, NEW y, Going(x, y), y.started, TextFits(y)
  PROVE  LET z == [y EXCEPT !.text = @ + 1, !.pending = @ + 1] IN
         Going(x, z) /\ z.pc = y.pc /\ z.tools = y.tools
<1>1. y \in TurnState /\ FrameInv(y) /\ TextInv(y)
  BY DEF Going
<1>2. PICK z : z = [y EXCEPT !.text = @ + 1, !.pending = @ + 1]
  OBVIOUS
<1>3. OutputOf(y.frames) \in Nat /\ y.text \in Nat /\ y.pending \in Nat
  BY <1>1, OutputType, Constants DEF TurnState
<1>4. y.text + 1 \in 0..MaxOutput /\ y.pending + 1 \in 0..MaxOutput
  <2>1. y.text < MaxOutput /\ OutputOf(y.frames) + y.pending = y.text
    BY <1>1 DEF TextFits, TextInv
  <2> QED BY <1>3, <2>1, Constants
<1>5. z \in TurnState
  BY <1>1, <1>2, <1>4 DEF TurnState
<1>6. /\ z.text = y.text + 1 /\ z.pending = y.pending + 1 /\ z.frames = y.frames
      /\ z.started = y.started /\ z.tools = y.tools /\ z.buffered = y.buffered
      /\ z.submitted = y.submitted /\ z.exposed = y.exposed
  BY <1>1, <1>2 DEF TurnState
<1>7. /\ z.id = y.id /\ z.initializing = y.initializing /\ z.round = y.round
      /\ z.uncertain = y.uncertain /\ z.waiting = y.waiting /\ z.inFlight = y.inFlight
      /\ z.end = y.end /\ z.previous = y.previous /\ z.outputs = y.outputs /\ z.pc = y.pc
  BY <1>1, <1>2 DEF TurnState
<1>8. FrameInv(z)
  BY <1>1, <1>6 DEF FrameInv
<1>9. TextInv(z)
  BY <1>1, <1>3, <1>6 DEF TextInv
<1>10. Going(x, z)
  BY <1>5, <1>6, <1>7, <1>8, <1>9 DEF Going
<1> QED BY <1>2, <1>6, <1>7, <1>10

LEMMA GoingExposed ==
  ASSUME NEW x \in TurnState, NEW y, Going(x, y), NEW c
  PROVE  LET z == [y EXCEPT !.exposed = @ \/ c \in WriteCalls] IN
         /\ Going(x, z) /\ z.pc = y.pc /\ z.tools = y.tools /\ z.frames = y.frames
         /\ z.started = y.started /\ (c \in WriteCalls => z.exposed)
<1>1. y \in TurnState /\ FrameInv(y) /\ TextInv(y) /\ y.exposed \in BOOLEAN
  BY DEF Going, TurnState
<1> DEFINE b == c \in WriteCalls
<1>2. PICK u \in BOOLEAN : u = (y.exposed \/ b)
  OBVIOUS
<1>3. PICK z : z = [y EXCEPT !.exposed = u]
  OBVIOUS
<1>4. z \in TurnState
  BY <1>1, <1>3 DEF TurnState
<1>5. /\ z.text = y.text /\ z.pending = y.pending /\ z.frames = y.frames
      /\ z.started = y.started /\ z.tools = y.tools /\ z.buffered = y.buffered
      /\ z.submitted = y.submitted /\ z.exposed = u
  BY <1>1, <1>3 DEF TurnState
<1>6. /\ z.id = y.id /\ z.initializing = y.initializing /\ z.round = y.round
      /\ z.uncertain = y.uncertain /\ z.waiting = y.waiting /\ z.inFlight = y.inFlight
      /\ z.end = y.end /\ z.previous = y.previous /\ z.outputs = y.outputs /\ z.pc = y.pc
  BY <1>1, <1>3 DEF TurnState
<1>7. (b => u) /\ (y.exposed => u)
  BY <1>1, <1>2
<1>8. FrameInv(z)
  BY <1>1, <1>5, <1>7 DEF FrameInv
<1>9. TextInv(z)
  BY <1>1, <1>5 DEF TextInv
<1>10. Going(x, z)
  BY <1>4, <1>5, <1>6, <1>8, <1>9 DEF Going
<1>11. [y EXCEPT !.exposed = @ \/ c \in WriteCalls] = z
  BY <1>2, <1>3
<1> QED BY <1>5, <1>6, <1>7, <1>10, <1>11

LEMMA GoingCall ==
  ASSUME NEW x \in TurnState, NEW y, Going(x, y), y.frames # <<>>, Room(y, 1),
         NEW c \in Calls, c \notin y.submitted \cup y.tools, c \in WriteCalls => y.exposed
  PROVE  LET z == Add([y EXCEPT !.tools = @ \cup {c}], F("call", c)) IN
         Going(x, z) /\ z.pc = y.pc /\ z.tools = y.tools \cup {c}
<1>1. y \in TurnState /\ FrameInv(y) /\ TextInv(y)
  BY DEF Going
<1> DEFINE fs == Append(y.frames, F("call", c))
           C == y.submitted \cup y.tools
<1>2. c \in Nat /\ Len(y.frames) + 1 < MaxEvents
  BY Constants DEF Room
<1>3. Growing(y.frames, C, y.submitted) /\ c \notin C
  BY <1>1 DEF FrameInv
<1>4. Growing(fs, C \cup {c}, y.submitted) /\ Ext(y.frames, fs) /\ OutputOf(fs) = OutputOf(y.frames)
  <2> HIDE DEF C
  <2> QED BY <1>2, <1>3, AddCall
<1>5. fs \in Seq(Frame) /\ fs # <<>>
  <2>1. fs \in Seq(Frame)
    BY <1>4 DEF Growing, Ordered
  <2>2. Len(y.frames) \in Nat /\ Len(y.frames) > 0
    BY <1>1 DEF TurnState
  <2> QED BY <1>4, <2>1, <2>2 DEF Ext
<1> HIDE DEF fs
<1>6. PICK z : z = [y EXCEPT !.tools = y.tools \cup {c}, !.frames = fs]
  OBVIOUS
<1>7. Add([y EXCEPT !.tools = @ \cup {c}], F("call", c)) = z
  BY <1>1, <1>6 DEF Add, fs, TurnState
<1>8. z \in TurnState
  BY <1>1, <1>5, <1>6 DEF TurnState
<1>9. /\ z.text = y.text /\ z.pending = y.pending /\ z.frames = fs
      /\ z.started = y.started /\ z.tools = y.tools \cup {c} /\ z.buffered = y.buffered
      /\ z.submitted = y.submitted /\ z.exposed = y.exposed
  BY <1>1, <1>6 DEF TurnState
<1>10. /\ z.id = y.id /\ z.initializing = y.initializing /\ z.round = y.round
       /\ z.uncertain = y.uncertain /\ z.waiting = y.waiting /\ z.inFlight = y.inFlight
       /\ z.end = y.end /\ z.previous = y.previous /\ z.outputs = y.outputs /\ z.pc = y.pc
  BY <1>1, <1>6 DEF TurnState
<1>11. FrameInv(z)
  <2>1. z.submitted \cup z.tools = C \cup {c}
    BY <1>9
  <2>2. y.started
    BY <1>1 DEF FrameInv
  <2>3. ~z.exposed => (z.submitted \cup z.tools) \cap WriteCalls = {}
    BY <1>1, <1>9 DEF FrameInv
  <2>4. z.submitted \cap z.tools = {} /\ z.buffered \subseteq z.tools
    BY <1>1, <1>9 DEF FrameInv
  <2> QED BY <1>4, <1>5, <1>9, <2>1, <2>2, <2>3, <2>4 DEF FrameInv
<1>12. TextInv(z)
  BY <1>1, <1>4, <1>9 DEF TextInv
<1>13. Ext(x.frames, fs)
  BY <1>1, <1>4, <1>5, ExtTransitive DEF Going, TurnState
<1>14. Going(x, z)
  BY <1>8, <1>9, <1>10, <1>11, <1>12, <1>13 DEF Going
<1> QED BY <1>7, <1>9, <1>10, <1>14

LEMMA CallbackMoves ==
  ASSUME AdapterInv, NEW i \in Turns, NEW y, Callback(i, y),
         asked' = [asked EXCEPT ![i] = asked'[i]], asked'[i] \subseteq Calls,
         ~Completed(t[i]) =>
           /\ Going(t[i], y) /\ (y.pc = "invoking" => asked'[i] = y.tools)
           /\ y.tools # {} => y.round < MaxRounds
  PROVE  Moves(i)
<1> DEFINE x == t[i]
           a == asked'[i]
           n == answered[i]
<1>1. /\ x \in TurnState /\ StageInv(x) /\ x.pc = "invoking" /\ x.id # None /\ x.round > 0
      /\ Ext(x.frames, x.frames) /\ n \in 0..MaxRounds
  BY TurnFacts DEF Callback, StageInv, TurnState
<1>2. UNCHANGED <<turns, runtime, tomb, answered, resolved, reader>> /\ TypeOK /\ CheckpointInv
  BY DEF Callback, AdapterInv
<1>3. CASE Completed(x)
  <2>1. t' = [t EXCEPT ![i] = x] /\ t'[i] = x
    BY <1>2, <1>3 DEF Callback, TypeOK
  <2>2. ClosedInv(x, n)
    BY <1>3, TurnFacts
  <2>3. RestFollows(i)
    BY <1>1, <1>2, <2>1 DEF RestFollows, TypeOK, CheckpointInv
  <2> HIDE DEF x, a, n
  <2>4. Follows(x, x) /\ TurnInv(x, a, n) /\ Completed(x) /\ Ran(x)
    BY <1>1, <1>3, <2>2, ClosedFollows
  <2> QED BY <1>2, <1>3, <2>1, <2>3, <2>4, StaysMoves DEF x, a, n
<1>4. CASE ~Completed(x)
  <2>1. t' = [t EXCEPT ![i] = y] /\ t'[i] = y
    BY <1>2, <1>4 DEF Callback, TypeOK
  <2>2. Going(x, y) /\ (y.pc = "invoking" => a = y.tools) /\ (y.tools # {} => y.round < MaxRounds)
    BY <1>4
  <2>3. ControlInv(x, asked[i], n)
    BY <1>4, TurnFacts
  <2>4. RestFollows(i)
    BY <1>1, <1>2, <2>1, <2>2 DEF RestFollows, TypeOK, CheckpointInv, Going
  <2> HIDE DEF x, a, n
  <2>5. StageInv(y) /\ y.pc # "unborn"
    BY <1>1, <2>2 DEF StageInv, Going
  <2>6. ControlInv(y, a, n)
    BY <1>1, <2>2, <2>3 DEF ControlInv, Going
  <2>7. Follows(x, y) /\ TurnInv(y, a, n) /\ ~Completed(y) /\ Ran(y)
    BY <1>1, <1>4, <2>2, <2>5, <2>6, OpenFollows DEF Going, Dead
  <2> QED BY <1>2, <2>1, <2>4, <2>7, StaysMoves DEF x, a, n
<1> QED BY <1>3, <1>4

(* A turn in an invocation, as a callback finds it.                        *)
LEMMA GoingSelf ==
  ASSUME AdapterInv, NEW i \in Turns, t[i].pc = "invoking", ~Completed(t[i])
  PROVE  /\ Going(t[i], t[i]) /\ t[i] \in TurnState /\ asked[i] = t[i].tools
         /\ t[i].tools # {} => t[i].round < MaxRounds
BY TurnFacts DEF Going, ControlInv

LEMMA OnCreatedMoves ==
  ASSUME AdapterInv, NEW i \in Turns, OnCreated(i)
  PROVE  Moves(i)
<1> DEFINE x == t[i]
           y == IF CanStart(x) THEN Started(x) ELSE Breaking(x)
<1>1. Callback(i, y) /\ asked' = asked /\ x.pc = "invoking"
  BY DEF OnCreated, Callback
<1>2. asked' = [asked EXCEPT ![i] = asked'[i]] /\ asked'[i] \subseteq Calls
  BY <1>1, TurnFacts DEF TypeOK
<1>3. ASSUME ~Completed(x)
      PROVE  /\ Going(x, y) /\ (y.pc = "invoking" => asked'[i] = y.tools)
             /\ y.tools # {} => y.round < MaxRounds
  <2>1. /\ Going(x, x) /\ x \in TurnState /\ asked[i] = x.tools
        /\ x.tools # {} => x.round < MaxRounds
    BY <1>1, <1>3, GoingSelf
  <2>2. Going(x, y) /\ y.tools = x.tools
    <3> HIDE DEF x
    <3> QED BY <2>1, GoingStarted, GoingBroken
  <2> QED BY <1>1, <2>1, <2>2 DEF Going
<1> HIDE DEF y
<1> QED BY <1>1, <1>2, <1>3, CallbackMoves

LEMMA OnTextDeltaMoves ==
  ASSUME AdapterInv, NEW i \in Turns, OnTextDelta(i)
  PROVE  Moves(i)
<1> DEFINE x == t[i]
           y == Started(x)
           z == [y EXCEPT !.text = @ + 1, !.pending = @ + 1]
           v == IF z.pending < FlushAt THEN z
                ELSE IF CanFlush(z) THEN Flushed(z) ELSE Breaking(z)
<1>1. PICK w : /\ Callback(i, w)
               /\ \/ ~CanStart(x) /\ w = Breaking(x)
                  \/ CanStart(x) /\ ~TextFits(y) /\ w = Breaking(y)
                  \/ CanStart(x) /\ TextFits(y) /\ w = v
  BY DEF OnTextDelta
<1>2. asked' = asked /\ x.pc = "invoking"
  BY <1>1 DEF OnTextDelta, Callback
<1>3. asked' = [asked EXCEPT ![i] = asked'[i]] /\ asked'[i] \subseteq Calls
  BY <1>2, TurnFacts DEF TypeOK
<1>4. ASSUME ~Completed(x)
      PROVE  /\ Going(x, w) /\ (w.pc = "invoking" => asked'[i] = w.tools)
             /\ w.tools # {} => w.round < MaxRounds
  <2>1. /\ Going(x, x) /\ x \in TurnState /\ asked[i] = x.tools
        /\ x.tools # {} => x.round < MaxRounds
    BY <1>2, <1>4, GoingSelf
  <2> HIDE DEF x
  <2>2. /\ Going(x, y) /\ y.tools = x.tools /\ CanStart(x) /\ y.started
    BY <2>1, GoingStarted
  <2> HIDE DEF y
  <2>3. CASE ~TextFits(y)
    <3>1. w = Breaking(y)
      BY <1>1, <2>2, <2>3
    <3>2. Going(x, w) /\ w.tools = x.tools
      BY <2>1, <2>2, <3>1, GoingBroken
    <3> QED BY <1>2, <2>1, <3>2 DEF Going
  <2>4. CASE TextFits(y)
    <3>1. w = v
      <4> HIDE DEF v
      <4> QED BY <1>1, <2>2, <2>4
    <3>2. Going(x, z) /\ z.tools = x.tools
      BY <2>1, <2>2, <2>4, GoingText
    <3> HIDE DEF z
    <3>3. Going(x, v) /\ v.tools = x.tools
      BY <2>1, <3>2, GoingFlushed, GoingBroken
    <3> HIDE DEF v
    <3> QED BY <1>2, <2>1, <3>1, <3>3 DEF Going
  <2> QED BY <2>3, <2>4
<1> QED BY <1>1, <1>3, <1>4, CallbackMoves

LEMMA OnFunctionCallMoves ==
  ASSUME AdapterInv, NEW i \in Turns, NEW c \in Calls, OnFunctionCall(i, c)
  PROVE  Moves(i)
<1> DEFINE x == t[i]
           y == Started(x)
           z == Flushed(y)
           w == [z EXCEPT !.exposed = @ \/ c \in WriteCalls]
           u == Add([w EXCEPT !.tools = @ \cup {c}], F("call", c))
           new == x.id \in BrokeredIds /\ c \notin x.submitted \cup x.tools
<1>1. PICK v : /\ Callback(i, v)
               /\ \/ c \in x.tools /\ (v = x \/ v = Breaking(x))
                  \/ ~new /\ c \notin x.tools /\ v = Breaking(x)
                  \/ new /\ ~CanStart(x) /\ v = Breaking(x)
                  \/ new /\ CanStart(x) /\ ~CanFlush(y) /\ v = Breaking(y)
                  \/ new /\ CanStart(x) /\ CanFlush(y) /\ ~Room(z, 1) /\ v = Breaking(z)
                  \/ /\ new /\ CanStart(x) /\ CanFlush(y) /\ Room(z, 1)
                     /\ v = Breaking(w) \/ v = u
  BY DEF OnFunctionCall
<1>2. asked' = [asked EXCEPT ![i] = @ \cup {c}] /\ x.pc = "invoking" /\ x.round < MaxRounds
  BY <1>1 DEF OnFunctionCall, Callback
<1>3. /\ asked' = [asked EXCEPT ![i] = asked'[i]] /\ asked'[i] = asked[i] \cup {c}
      /\ asked'[i] \subseteq Calls
  BY <1>2, TurnFacts DEF TypeOK
<1>4. ASSUME ~Completed(x)
      PROVE  /\ Going(x, v) /\ (v.pc = "invoking" => asked'[i] = v.tools)
             /\ v.tools # {} => v.round < MaxRounds
  <2>1. Going(x, x) /\ x \in TurnState /\ asked[i] = x.tools
    BY <1>2, <1>4, GoingSelf
  <2> HIDE DEF x
  <2>2. Going(x, Breaking(x)) /\ Breaking(x).pc = "failing"
    BY <2>1, GoingBroken
  <2>3. Going(x, y) /\ y.tools = x.tools /\ y.pc = x.pc /\ CanStart(x) /\ y.frames # <<>>
    BY <2>1, GoingStarted
  <2> HIDE DEF y
  <2>4. Going(x, Breaking(y)) /\ Breaking(y).pc = "failing"
    BY <2>1, <2>3, GoingBroken
  <2>5. ASSUME CanFlush(y)
        PROVE  /\ Going(x, z) /\ z.tools = x.tools /\ z.pc = x.pc /\ z.frames # <<>>
               /\ Going(x, Breaking(z)) /\ Breaking(z).pc = "failing"
    <3>1. Going(x, z) /\ z.tools = x.tools /\ z.pc = x.pc /\ z.frames # <<>>
      BY <2>1, <2>3, <2>5, GoingFlushed
    <3> QED BY <2>1, <3>1, GoingBroken
  <2> HIDE DEF z
  <2>6. ASSUME new, CanFlush(y), Room(z, 1)
        PROVE  /\ Going(x, Breaking(w)) /\ Breaking(w).pc = "failing"
               /\ Going(x, u) /\ u.pc = x.pc /\ u.tools = x.tools \cup {c}
    <3>2. /\ Going(x, w) /\ w.pc = z.pc /\ w.tools = z.tools /\ w.frames = z.frames
          /\ c \in WriteCalls => w.exposed
      <4>1. Going(x, z)
        BY <2>5, <2>6
      <4> QED BY <2>1, <4>1, GoingExposed
    <3> HIDE DEF w
    <3>3. Going(x, Breaking(w)) /\ Breaking(w).pc = "failing"
      BY <2>1, <3>2, GoingBroken
    <3>4. w.frames # <<>> /\ Room(w, 1) /\ c \notin w.submitted \cup w.tools
      BY <2>5, <2>6, <3>2 DEF Room, Going
    <3>5. Going(x, u) /\ u.pc = w.pc /\ u.tools = w.tools \cup {c}
      BY <2>1, <3>2, <3>4, GoingCall
    <3> QED BY <2>5, <2>6, <3>2, <3>3, <3>5
  <2> HIDE DEF u, w
  <2>7. Going(x, v) /\ (v.pc = "invoking" => v.tools = x.tools \cup {c})
    <3>1. CASE c \in x.tools
      <4>1. x.tools \cup {c} = x.tools /\ ~new
        BY <3>1
      <4> QED BY <1>1, <2>1, <2>2, <3>1, <4>1
    <3>2. CASE c \notin x.tools /\ ~new
      BY <1>1, <2>2, <3>2
    <3>3. CASE new
      <4> HIDE DEF new
      <4>1. c \notin x.tools
        BY <3>3 DEF new
      <4> QED BY <1>1, <2>3, <2>4, <2>5, <2>6, <3>3, <4>1
    <3> QED BY <3>1, <3>2, <3>3
  <2> QED BY <1>2, <1>3, <2>1, <2>7 DEF Going
<1> QED BY <1>1, <1>3, <1>4, CallbackMoves

-----------------------------------------------------------------------------
(* The timers, the deadline and the cancellation.                          *)

LEMMA PresentRan ==
  ASSUME AdapterInv, NEW i \in Turns, Present(i)
  PROVE  Ran(t[i])
<1>1. PICK id \in TurnIds : turns[id] = i
  BY DEF Present
<1>2. i # 0
  BY Constants
<1> QED BY <1>1, <1>2 DEF AdapterInv, MapInv

LEMMA EndMoves ==
  ASSUME AdapterInv, NEW i \in Turns, Ran(t[i]), ~Completed(t[i]), NEW y, Leaves(i, y),
         TurnInv(y, asked'[i], answered'[i]), Completed(y), y.id = t[i].id,
         y.pc # "unborn", Ext(t[i].frames, y.frames), RestFollows(i)
  PROVE  Moves(i)
<1>1. t[i] \in TurnState
  BY TurnFacts
<1>2. Follows(t[i], y) /\ Ran(y)
  BY <1>1, EndFollows DEF Ran
<1> QED BY <1>2, LeavesMoves

(* A turn whose pending output is dropped.                                 *)
LEMMA SilencedKeeps ==
  ASSUME NEW x \in TurnState, FrameInv(x)
  PROVE  LET y == [x EXCEPT !.pending = 0] IN
         /\ y \in TurnState /\ FrameInv(y) /\ Outlives(x, y) /\ y.frames = x.frames
         /\ (StageInv(x) => StageInv(y) \/ x.pc = "unborn")
<1>1. PICK y : y = [x EXCEPT !.pending = 0]
  OBVIOUS
<1>2. y \in TurnState
  <2>1. 0 \in 0..MaxOutput
    BY Constants
  <2> QED BY <1>1, <2>1 DEF TurnState
<1>3. /\ y.frames = x.frames /\ y.started = x.started /\ y.pending = 0 /\ y.tools = x.tools
      /\ y.buffered = x.buffered /\ y.submitted = x.submitted /\ y.exposed = x.exposed
      /\ Outlives(x, y)
  BY <1>1 DEF TurnState, Outlives
<1>4. FrameInv(y)
  BY <1>3 DEF FrameInv
<1>5. StageInv(x) => StageInv(y) \/ x.pc = "unborn"
  BY <1>3 DEF StageInv, Outlives
<1> QED BY <1>1, <1>2, <1>3, <1>4, <1>5

LEMMA FlushTimerMoves ==
  ASSUME AdapterInv, NEW i \in Turns, FlushTimer(i)
  PROVE  Moves(i)
<1> DEFINE x == t[i]
           a == asked[i]
           n == answered[i]
           v == [x EXCEPT !.pending = 0]
<1>1. x \in TurnState /\ StageInv(x) /\ x.pending > 0 /\ TypeOK
  BY TurnFacts DEF FlushTimer
<1>2. ~Completed(x)
  BY <1>1, TurnFacts, Constants DEF ClosedInv, TurnState
<1>3. /\ FrameInv(x) /\ TextInv(x) /\ ControlInv(x, a, n) /\ EndRank \in 1..MaxTurns
      /\ x.pc = "launch" /\ x.round > 0 => x.outputs = a
  BY <1>2, TurnFacts
<1>4. x.round # 0
  <2>1. OutputOf(x.frames) \in Nat /\ x.pending \in Nat
    BY <1>1, OutputType, Constants DEF TurnState
  <2> QED BY <1>1, <1>3, <2>1 DEF TextInv, ControlInv
<1>5. x.pc # "unborn" /\ Ran(x) /\ ~Dead(x) /\ x.round > 0
  BY <1>1, <1>4, Constants DEF Ran, Dead, StageInv, TurnState
<1>6. UNCHANGED <<runtime, asked, answered, resolved, reader>>
  BY DEF FlushTimer
<1>7. CASE CanFlush(x)
  <2>1. PICK y : y = Flushed(x)
    OBVIOUS
  <2>2. Leaves(i, y) /\ t'[i] = y
    BY <1>1, <1>7, <2>1 DEF FlushTimer, Leaves, TypeOK
  <2> HIDE DEF x, a, n
  <2>3. /\ y \in TurnState /\ FrameInv(y) /\ TextInv(y) /\ Alike(x, y) /\ Ext(x.frames, y.frames)
    BY <1>1, <1>3, <1>7, <2>1, FlushedKeeps
  <2>4. StageInv(y) /\ ControlInv(y, a, n) /\ y.pc # "unborn"
    BY <1>1, <1>3, <1>5, <2>3 DEF StageInv, ControlInv, Alike
  <2>5. Follows(x, y) /\ TurnInv(y, a, n) /\ Ran(y)
    BY <1>1, <1>2, <1>3, <1>5, <2>3, <2>4, OpenFollows DEF Alike
  <2>6. RestFollows(i)
    BY <1>6, <2>2, <2>3, RestStays DEF Alike, x
  <2> QED BY <1>6, <2>2, <2>5, <2>6, LeavesMoves DEF x, a, n
<1>8. CASE ~CanFlush(x)
  <2>1. PICK y : y = Failed(v, FALSE)
    OBVIOUS
  <2>2. Leaves(i, y) /\ t'[i] = y
    BY <1>1, <1>8, <2>1 DEF FlushTimer, Leaves, TypeOK
  <2> HIDE DEF x, a, n
  <2>3. v \in TurnState /\ FrameInv(v) /\ StageInv(v) /\ Outlives(x, v) /\ v.frames = x.frames
    BY <1>1, <1>3, <1>5, SilencedKeeps
  <2> HIDE DEF v
  <2>4. /\ TurnInv(y, a, n) /\ Completed(y) /\ Outlives(v, y) /\ Ext(v.frames, y.frames)
    <3>1. ~v.uncertain => n = v.round
      BY <1>3, <2>3 DEF ControlInv, Outlives
    <3>2. v.pc # "unborn" /\ (v.pc = "launch" /\ v.round > 0 => v.outputs = a)
      BY <1>3, <1>5, <2>3 DEF Outlives
    <3> QED BY <1>3, <2>1, <2>3, <3>1, <3>2, FailsWell
  <2>5. y.id = x.id /\ y.pc # "unborn" /\ y.previous = x.previous /\ Ext(x.frames, y.frames)
    BY <1>5, <2>3, <2>4 DEF Outlives
  <2>6. RestFollows(i)
    BY <1>6, <2>2, <2>5, RestStays DEF x
  <2> QED BY <1>2, <1>5, <1>6, <2>2, <2>4, <2>5, <2>6, EndMoves DEF x, a, n
<1> QED BY <1>7, <1>8

LEMMA CancelTurnMoves ==
  ASSUME AdapterInv, NEW i \in Turns, CancelTurn(i)
  PROVE  Moves(i)
<1>1. Ran(t[i]) /\ ~Completed(t[i]) /\ Leaves(i, Cancelled(t[i]))
      /\ UNCHANGED <<runtime, asked, answered, resolved, reader>>
  BY PresentRan DEF CancelTurn
<1>2. PICK y : y = Cancelled(t[i])
  OBVIOUS
<1>3. t'[i] = y
  BY <1>1, <1>2, TurnFacts DEF Leaves, TypeOK
<1>4. /\ TurnInv(y, asked[i], answered[i]) /\ Completed(y) /\ Outlives(t[i], y)
      /\ Ext(t[i].frames, y.frames)
  BY <1>1, <1>2, TurnFacts, CancelsWell DEF Ran
<1>5. y.id = t[i].id /\ y.pc # "unborn" /\ y.previous = t[i].previous
  BY <1>1, <1>4 DEF Outlives, Ran
<1>6. RestFollows(i)
  BY <1>1, <1>3, <1>5, RestStays
<1> QED BY <1>1, <1>2, <1>4, <1>5, <1>6, EndMoves

LEMMA WatchDeadlineMoves ==
  ASSUME AdapterInv, NEW i \in Turns, WatchDeadline(i)
  PROVE  Moves(i)
<1>1. Ran(t[i]) /\ ~Completed(t[i]) /\ Leaves(i, Failed(t[i], TRUE))
      /\ UNCHANGED <<runtime, asked, answered, resolved, reader>>
  BY PresentRan DEF WatchDeadline
<1>2. PICK y : y = Failed(t[i], TRUE)
  OBVIOUS
<1>3. t'[i] = y
  BY <1>1, <1>2, TurnFacts DEF Leaves, TypeOK
<1>4. /\ TurnInv(y, asked[i], answered[i]) /\ Completed(y) /\ Outlives(t[i], y)
      /\ Ext(t[i].frames, y.frames)
  <2>1. ~t[i].uncertain => answered[i] = t[i].round
    BY <1>1, TurnFacts DEF ControlInv
  <2> QED BY <1>1, <1>2, <2>1, TurnFacts, FailsWell DEF Ran
<1>5. y.id = t[i].id /\ y.pc # "unborn" /\ y.previous = t[i].previous
  BY <1>1, <1>4 DEF Outlives, Ran
<1>6. RestFollows(i)
  BY <1>1, <1>3, <1>5, RestStays
<1> QED BY <1>1, <1>2, <1>4, <1>5, <1>6, EndMoves

(* A section that touches only what the invariant does not look at.        *)
LEMMA TouchMoves ==
  ASSUME AdapterInv, NEW i \in Turns, t[i].pc # "unborn", NEW y \in TurnState,
         Others(t[i], y), y.pc = t[i].pc, y.initializing = t[i].initializing,
         y.round = t[i].round, y.inFlight = t[i].inFlight, y.uncertain = t[i].uncertain,
         t' = [t EXCEPT ![i] = y], UNCHANGED <<runtime, tomb, asked, answered, resolved, reader>>,
         \/ turns' = turns
         \/ turns' = Without(turns, {i}) /\ ~Holds(t[i])
  PROVE  Moves(i)
<1> DEFINE x == t[i]
           a == asked[i]
           n == answered[i]
<1>1. /\ x \in TurnState /\ StageInv(x) /\ Ext(x.frames, x.frames) /\ TypeOK
      /\ Completed(x) => ClosedInv(x, n)
      /\ ~Completed(x) => FrameInv(x) /\ TextInv(x) /\ ControlInv(x, a, n)
      /\ x.pc = "launch" /\ x.round > 0 => x.outputs = a
  BY TurnFacts
<1>2. t'[i] = y
  BY <1>1 DEF TypeOK
<1>3. RestFollows(i)
  BY <1>2, RestStays DEF Others
<1> HIDE DEF x, a, n
<1>4. /\ Others(x, y) /\ y.pc = x.pc /\ y.initializing = x.initializing /\ x.pc # "unborn"
      /\ y.round = x.round /\ y.inFlight = x.inFlight /\ y.uncertain = x.uncertain
  BY DEF x
<1>5. (Completed(y) <=> Completed(x)) /\ (Holds(y) <=> Holds(x)) /\ (Ran(y) <=> Ran(x))
  BY <1>4 DEF Others, Completed, Holds, Ran, Dead
<1>6. Follows(x, y)
  BY <1>1, <1>4, <1>5 DEF Follows, Others, Shows
<1>7. TurnInv(y, a, n)
  <2>1. StageInv(y)
    BY <1>1, <1>4 DEF StageInv, Others
  <2>2. Completed(y) => ClosedInv(y, n)
    BY <1>1, <1>4, <1>5 DEF ClosedInv, Others, Shows
  <2>3. ~Completed(y) => FrameInv(y) /\ TextInv(y)
    BY <1>1, <1>4, <1>5, ShowsKeeps DEF Others
  <2>4. ~Completed(y) => ControlInv(y, a, n)
    BY <1>1, <1>4, <1>5 DEF ControlInv, Others, Shows
  <2>5. y.pc = "launch" /\ y.round > 0 => y.outputs = a
    BY <1>1, <1>4 DEF Others
  <2> QED BY <2>1, <2>2, <2>3, <2>4, <2>5 DEF TurnInv, OpenInv
<1>8. TurnInv(y, asked'[i], answered'[i]) /\ Follows(t[i], y)
  BY <1>6, <1>7 DEF x, a, n
<1>9. \/ turns' = turns /\ (Ran(t[i]) => Ran(y))
      \/ turns' = Without(turns, {i}) /\ ~Holds(y)
  BY <1>5 DEF x
<1>10. Completed(y) => Completed(t[i])
  BY <1>5 DEF x
<1> QED BY <1>3, <1>8, <1>9, <1>10, StaysMoves

LEMMA TouchedFields ==
  ASSUME NEW x \in TurnState, NEW c \in {"none", "set", "due", "fired"},
         NEW y \in {[x EXCEPT !.late = TRUE], [x EXCEPT !.cleanup = c]}
  PROVE  /\ y \in TurnState /\ Others(x, y) /\ y.pc = x.pc /\ y.initializing = x.initializing
         /\ y.round = x.round /\ y.inFlight = x.inFlight /\ y.uncertain = x.uncertain
<1>1. y \in TurnState
  <2>1. CASE y = [x EXCEPT !.late = TRUE]
    BY <2>1 DEF TurnState
  <2>2. CASE y = [x EXCEPT !.cleanup = c]
    BY <2>2 DEF TurnState
  <2> QED BY <2>1, <2>2
<1>2. Others(x, y)
  BY DEF TurnState, Others, Shows
<1>3. /\ y.pc = x.pc /\ y.initializing = x.initializing
      /\ y.round = x.round /\ y.inFlight = x.inFlight /\ y.uncertain = x.uncertain
  BY DEF TurnState
<1> QED BY <1>1, <1>2, <1>3

LEMMA DeadlinePassesMoves ==
  ASSUME AdapterInv, NEW i \in Turns, DeadlinePasses(i)
  PROVE  Moves(i)
<1>1. t[i].pc # "unborn"
  BY PresentRan DEF DeadlinePasses, Ran
<1>2. PICK y : y = [t[i] EXCEPT !.late = TRUE]
  OBVIOUS
<1>3. t' = [t EXCEPT ![i] = y] /\ UNCHANGED <<turns, runtime, tomb, asked, answered, resolved, reader>>
  BY <1>2 DEF DeadlinePasses
<1>4. /\ y \in TurnState /\ Others(t[i], y) /\ y.pc = t[i].pc /\ y.initializing = t[i].initializing
      /\ y.round = t[i].round /\ y.inFlight = t[i].inFlight /\ y.uncertain = t[i].uncertain
  BY <1>2, TurnFacts, TouchedFields
<1> QED BY <1>1, <1>3, <1>4, TouchMoves

LEMMA RetentionPassesMoves ==
  ASSUME AdapterInv, NEW i \in Turns, RetentionPasses(i)
  PROVE  Moves(i)
<1>1. t[i].pc # "unborn"
  BY TurnFacts DEF RetentionPasses, StageInv, Unborn
<1>2. PICK y : y = [t[i] EXCEPT !.cleanup = "due"]
  OBVIOUS
<1>3. t' = [t EXCEPT ![i] = y] /\ UNCHANGED <<turns, runtime, tomb, asked, answered, resolved, reader>>
  BY <1>2 DEF RetentionPasses
<1>4. /\ y \in TurnState /\ Others(t[i], y) /\ y.pc = t[i].pc /\ y.initializing = t[i].initializing
      /\ y.round = t[i].round /\ y.inFlight = t[i].inFlight /\ y.uncertain = t[i].uncertain
  BY <1>2, TurnFacts, TouchedFields
<1> QED BY <1>1, <1>3, <1>4, TouchMoves

LEMMA CleanupTimerMoves ==
  ASSUME AdapterInv, NEW i \in Turns, CleanupTimer(i)
  PROVE  Moves(i)
<1>1. t[i].pc # "unborn"
  BY PresentRan DEF CleanupTimer, Ran
<1>2. PICK y : y = [t[i] EXCEPT !.cleanup = "fired"]
  OBVIOUS
<1>3. t' = [t EXCEPT ![i] = y] /\ UNCHANGED <<runtime, tomb, asked, answered, resolved, reader>>
  BY <1>2 DEF CleanupTimer
<1>4. /\ y \in TurnState /\ Others(t[i], y) /\ y.pc = t[i].pc /\ y.initializing = t[i].initializing
      /\ y.round = t[i].round /\ y.inFlight = t[i].inFlight /\ y.uncertain = t[i].uncertain
  BY <1>2, TurnFacts, TouchedFields
<1>5. turns' = turns \/ (turns' = Without(turns, {i}) /\ ~Holds(t[i]))
  BY DEF CleanupTimer, Expired, Holds
<1> QED BY <1>1, <1>3, <1>4, <1>5, TouchMoves

(* Tool results, of which the last ones let the turn go on.                *)
LEMMA ContinueTurnMoves ==
  ASSUME AdapterInv, NEW i \in Turns, NEW C \in SUBSET Calls, ContinueTurn(i, C)
  PROVE  Moves(i)
<1> DEFINE x == t[i]
           a == asked[i]
           n == answered[i]
           y == [x EXCEPT !.buffered = @ \cup (C \ x.submitted)]
<1>1. /\ x \in TurnState /\ StageInv(x) /\ TypeOK /\ Ran(x) /\ ~Completed(x)
      /\ FrameInv(x) /\ TextInv(x) /\ ControlInv(x, a, n) /\ EndRank \in 1..MaxTurns
      /\ x.pc = "launch" /\ x.round > 0 => x.outputs = a
      /\ C \subseteq x.submitted \cup x.tools /\ Ext(x.frames, x.frames)
  BY TurnFacts, PresentRan DEF ContinueTurn
<1>2. UNCHANGED <<runtime, asked, answered, resolved, reader>>
  BY DEF ContinueTurn
<1>3. PICK z : z = IF AllBuffered(y) /\ y.waiting THEN Continues(y) ELSE y
  OBVIOUS
<1>4. Leaves(i, z) /\ t'[i] = z
  BY <1>1, <1>3 DEF ContinueTurn, Leaves, TypeOK
<1> HIDE DEF x, a, n
<1>5. y \in TurnState
  <2>1. x.buffered \cup (C \ x.submitted) \in SUBSET Calls
    BY <1>1 DEF TurnState
  <2> QED BY <1>1, <2>1 DEF TurnState
<1>6. /\ y.frames = x.frames /\ y.started = x.started /\ y.text = x.text /\ y.pending = x.pending
      /\ y.tools = x.tools /\ y.submitted = x.submitted /\ y.exposed = x.exposed
      /\ y.buffered = x.buffered \cup (C \ x.submitted)
      /\ y.id = x.id /\ y.pc = x.pc /\ y.initializing = x.initializing /\ y.round = x.round
      /\ y.inFlight = x.inFlight /\ y.end = x.end /\ y.outputs = x.outputs
      /\ y.waiting = x.waiting /\ y.previous = x.previous /\ y.uncertain = x.uncertain
  BY <1>1 DEF TurnState
<1> HIDE DEF y
<1>7. FrameInv(y) /\ TextInv(y) /\ StageInv(y) /\ ~Completed(y) /\ y.pc # "unborn"
  <2>1. y.buffered \subseteq y.tools
    BY <1>1, <1>6 DEF FrameInv
  <2>2. y.pc # "unborn"
    BY <1>1, <1>6 DEF Ran
  <2> QED BY <1>1, <1>6, <2>1, <2>2 DEF FrameInv, TextInv, StageInv, Completed
<1>8. ControlInv(y, a, n)
  BY <1>1, <1>6 DEF ControlInv
<1>9. CASE AllBuffered(y) /\ y.waiting
  <2>1. /\ y.tools # {} /\ y.pc = "none" /\ y.round > 0 /\ y.round < MaxRounds
        /\ a = y.tools /\ (~y.uncertain => n = y.round)
    BY <1>8, <1>9 DEF ControlInv
  <2>2. /\ TurnInv(z, a, n) /\ z.id = y.id /\ z.pc # "unborn" /\ z.inFlight = 0
        /\ z.previous = y.previous /\ Ext(y.frames, z.frames)
    BY <1>1, <1>3, <1>5, <1>7, <1>9, <2>1, ContinuesWell
  <2>3. RestFollows(i)
    BY <1>2, <1>4, <1>6, <2>2, RestStays DEF x
  <2>4. TurnInv(z, asked'[i], answered'[i])
    BY <1>2, <2>2 DEF a, n
  <2>5. CASE Completed(z)
    BY <1>1, <1>4, <1>6, <2>2, <2>3, <2>4, <2>5, EndMoves DEF x
  <2>6. CASE ~Completed(z)
    <3>1. OpenInv(z, a, n) /\ z \in TurnState /\ StageInv(z)
      BY <2>2, <2>6 DEF TurnInv
    <3>2. z.pc # "none" \/ z.round > 0
      <4>1. Continues(y) = Continued(y) \/ Continues(y) = Failed(y, FALSE)
        BY DEF Continues
      <4> QED BY <1>3, <1>5, <1>9, <2>1, <2>6, <4>1, <1>1, <1>7, FailsWell DEF Continued, TurnState
    <3>3. Ran(z)
      BY <2>2, <3>2, <3>1, Constants DEF Ran, Dead, TurnState
    <3>4. Follows(x, z)
      BY <1>1, <1>6, <1>7, <2>2, <2>6 DEF Follows, Holds
    <3> QED BY <1>4, <2>3, <2>4, <3>3, <3>4, LeavesMoves DEF x
  <2> QED BY <2>5, <2>6
<1>10. CASE ~(AllBuffered(y) /\ y.waiting)
  <2>1. z = y
    BY <1>3, <1>10
  <2>2. Follows(x, y) /\ TurnInv(y, a, n) /\ Ran(y)
    <3>1. Follows(x, y) /\ TurnInv(y, a, n)
      BY <1>1, <1>5, <1>6, <1>7, <1>8, OpenFollows DEF Ran
    <3>2. Ran(y)
      BY <1>1, <1>6, <1>7 DEF Ran, Dead
    <3> QED BY <3>1, <3>2
  <2>3. RestFollows(i)
    BY <1>2, <1>4, <1>6, <2>1, RestStays DEF x
  <2>4. TurnInv(z, asked'[i], answered'[i])
    BY <1>2, <2>1, <2>2 DEF a, n
  <2> QED BY <1>4, <2>1, <2>2, <2>3, <2>4, LeavesMoves DEF x
<1> QED BY <1>9, <1>10

-----------------------------------------------------------------------------
(* The return of an invocation.  What it may make of turn x before the turn*)
(* ends, waits or goes on.                                                 *)
Returned(x, y) ==
  /\ y \in TurnState /\ FrameInv(y) /\ StageInv(y) /\ Ext(x.frames, y.frames)
  /\ y.id = x.id /\ y.round = x.round /\ y.end = x.end /\ y.pc = "none" /\ y.inFlight = 0
  /\ y.tools = x.tools /\ y.late = x.late

(* What RestFollows says of the other variables.                           *)
RestReturns(i) ==
  /\ asked' = [asked EXCEPT ![i] = asked'[i]] /\ asked'[i] \subseteq Calls
  /\ answered' = [answered EXCEPT ![i] = answered'[i]] /\ answered'[i] \in 0..MaxRounds
  /\ resolved \subseteq resolved' /\ resolved' \subseteq Responses
  /\ runtime' \in [Sessions -> [known: BOOLEAN, previous: Responses \cup {None}]]
  /\ \A s \in Sessions : runtime'[s].previous \in resolved' \cup {None}
  /\ reader' = reader

LEMMA ReleasedFields ==
  ASSUME NEW x \in TurnState, StageInv(x), x.pc \in {"invoking", "failing"}
  PROVE  LET y == Released(x) IN
         /\ y \in TurnState /\ Others(x, y) /\ StageInv(y) /\ y.pc = "none" /\ y.inFlight = 0
         /\ y.round = x.round /\ y.uncertain = x.uncertain /\ y.late = x.late
         /\ y.session = x.session
<1>1. PICK y : y = [x EXCEPT !.inFlight = 0, !.continuing = FALSE, !.pc = "none"]
  OBVIOUS
<1>2. y \in TurnState
  <2>1. 0 \in 0..1 /\ "none" \in Steps
    BY DEF Steps
  <2> QED BY <1>1, <2>1 DEF TurnState
<1>3. Others(x, y)
  BY <1>1 DEF TurnState, Others, Shows
<1>4. /\ y.pc = "none" /\ y.inFlight = 0 /\ y.initializing = x.initializing
      /\ y.round = x.round /\ y.uncertain = x.uncertain /\ y.late = x.late
      /\ y.session = x.session
  BY <1>1 DEF TurnState
<1>5. StageInv(y)
  BY <1>3, <1>4 DEF StageInv, Others
<1> QED BY <1>1, <1>2, <1>3, <1>4, <1>5 DEF Released

(* An invocation that outlived its turn.                                   *)
LEMMA OutlivedMoves ==
  ASSUME AdapterInv, NEW i \in Turns, t[i].pc \in {"invoking", "failing"}, Completed(t[i]),
         Outlived(i), RestReturns(i), runtime' = runtime,
         answered'[i] = answered[i] \/ answered'[i] = t[i].round
  PROVE  Moves(i)
<1> DEFINE x == t[i]
<1>1. PICK y : y = Released(x)
  OBVIOUS
<1>2. /\ x \in TurnState /\ StageInv(x) /\ ClosedInv(x, answered[i]) /\ TypeOK
      /\ x.previous \in resolved \cup {None}
  BY TurnFacts
<1>3. t' = [t EXCEPT ![i] = y] /\ t'[i] = y /\ tomb' = tomb
      /\ turns' = IF Expired(y) THEN Without(turns, {i}) ELSE turns
  BY <1>1, <1>2 DEF Outlived, TypeOK
<1>4. /\ y \in TurnState /\ Others(x, y) /\ StageInv(y) /\ y.pc = "none" /\ y.inFlight = 0
      /\ y.round = x.round
  <2> HIDE DEF x
  <2> QED BY <1>1, <1>2, ReleasedFields DEF x
<1>5. RestFollows(i)
  BY <1>2, <1>3, <1>4 DEF RestFollows, RestReturns, Others
<1> DEFINE m == answered[i]
           n == answered'[i]
           a == asked'[i]
<1>6. ClosedInv(x, m) /\ (n = m \/ n = y.round)
  BY <1>2, <1>4
<1> HIDE DEF m, n, a, x
<1>7. Follows(x, y) /\ TurnInv(y, a, n) /\ Completed(y) /\ Ran(y)
  BY <1>2, <1>4, <1>6, ClosedFollows DEF Others, Shows, x
<1>8. ~Holds(y)
  BY <1>4, <1>7 DEF Holds
<1> QED BY <1>3, <1>5, <1>7, <1>8, StaysMoves DEF x, a, n

(* A return that finds its turn going on.                                  *)
LEMMA ReleasedReturns ==
  ASSUME NEW x \in TurnState, StageInv(x), FrameInv(x), x.pc \in {"invoking", "failing"}
  PROVE  /\ Returned(x, Released(x)) /\ (TextInv(x) => TextInv(Released(x)))
         /\ Released(x).uncertain = x.uncertain /\ Released(x).previous = x.previous
         /\ Released(x).session = x.session
<1> DEFINE y == Released(x)
<1>1. /\ y \in TurnState /\ Others(x, y) /\ StageInv(y) /\ y.pc = "none" /\ y.inFlight = 0
      /\ y.round = x.round /\ y.uncertain = x.uncertain /\ y.late = x.late
      /\ y.session = x.session
  BY ReleasedFields
<1> HIDE DEF y
<1>2. FrameInv(y) /\ (TextInv(x) => TextInv(y))
  BY <1>1, ShowsKeeps DEF Others
<1>3. Ext(x.frames, y.frames)
  <2>1. Len(x.frames) \in Nat
    BY DEF TurnState
  <2> QED BY <1>1, <2>1 DEF Ext, Others, Shows
<1>4. Returned(x, y)
  BY <1>1, <1>2, <1>3 DEF Returned, Others, Shows
<1> QED BY <1>1, <1>2, <1>4 DEF y, Others

(* The fields that a return sets.                                          *)
Refit(y, z) ==
  /\ z \in TurnState /\ Shows(y, z) /\ z.id = y.id /\ z.pc = y.pc /\ z.round = y.round
  /\ z.initializing = y.initializing /\ z.inFlight = y.inFlight /\ z.end = y.end
  /\ z.late = y.late

LEMMA RefitReturns ==
  ASSUME NEW x, NEW y, Returned(x, y), NEW z, Refit(y, z)
  PROVE  Returned(x, z) /\ (TextInv(y) => TextInv(z))
<1>1. FrameInv(z) /\ (TextInv(y) => TextInv(z))
  BY ShowsKeeps DEF Refit, Returned
<1>2. StageInv(z)
  BY DEF Refit, Returned, StageInv
<1> QED BY <1>1, <1>2 DEF Returned, Refit, Shows

LEMMA RefitFields ==
  ASSUME NEW x \in TurnState, NEW r \in Responses
  PROVE  /\ LET y == [x EXCEPT !.uncertain = FALSE] IN
            Refit(x, y) /\ ~y.uncertain /\ y.previous = x.previous
         /\ LET y == [x EXCEPT !.response = r] IN
            Refit(x, y) /\ y.uncertain = x.uncertain /\ y.previous = x.previous
         /\ LET y == [x EXCEPT !.response = r, !.session = TRUE] IN
            /\ Refit(x, y) /\ y.uncertain = x.uncertain /\ y.previous = x.previous
            /\ y.response = r
         /\ LET y == [x EXCEPT !.previous = r] IN
            Refit(x, y) /\ y.uncertain = x.uncertain /\ y.previous = r
         /\ LET y == [x EXCEPT !.previous = None, !.session = FALSE] IN
            Refit(x, y) /\ y.uncertain = x.uncertain /\ y.previous = None
<1>1. PICK y : y = [x EXCEPT !.uncertain = FALSE]
  OBVIOUS
<1>2. y \in TurnState
  BY <1>1 DEF TurnState
<1>3. Refit(x, y) /\ ~y.uncertain /\ y.previous = x.previous
  BY <1>1, <1>2 DEF TurnState, Refit, Shows
<1>4. PICK z : z = [x EXCEPT !.response = r]
  OBVIOUS
<1>5. z \in TurnState
  BY <1>4 DEF TurnState
<1>6. Refit(x, z) /\ z.uncertain = x.uncertain /\ z.previous = x.previous
  BY <1>4, <1>5 DEF TurnState, Refit, Shows
<1>7. PICK u : u = [x EXCEPT !.response = r, !.session = TRUE]
  OBVIOUS
<1>8. u \in TurnState
  BY <1>7 DEF TurnState
<1>9. /\ Refit(x, u) /\ u.uncertain = x.uncertain /\ u.previous = x.previous /\ u.response = r
  BY <1>7, <1>8 DEF TurnState, Refit, Shows
<1>10. PICK v : v = [x EXCEPT !.previous = r]
  OBVIOUS
<1>11. v \in TurnState
  BY <1>10 DEF TurnState
<1>12. Refit(x, v) /\ v.uncertain = x.uncertain /\ v.previous = r
  BY <1>10, <1>11 DEF TurnState, Refit, Shows
<1>13. PICK w : w = [x EXCEPT !.previous = None, !.session = FALSE]
  OBVIOUS
<1>14. w \in TurnState
  BY <1>13 DEF TurnState
<1>15. Refit(x, w) /\ w.uncertain = x.uncertain /\ w.previous = None
  BY <1>13, <1>14 DEF TurnState, Refit, Shows
<1> QED BY <1>1, <1>3, <1>4, <1>6, <1>7, <1>9, <1>10, <1>12, <1>13, <1>15

(* The ends of a turn that a return may bring about.                       *)
LEMMA ReturnFails ==
  ASSUME AdapterInv, NEW i \in Turns, Ran(t[i]), ~Completed(t[i]), NEW y, Returned(t[i], y),
         ~y.uncertain => answered'[i] = y.round, NEW retryable \in BOOLEAN,
         Leaves(i, Failed(y, retryable)), RestReturns(i), y.previous \in resolved' \cup {None}
  PROVE  Moves(i)
<1> DEFINE a == asked'[i]
           n == answered'[i]
<1>1. PICK z : z = Failed(y, retryable)
  OBVIOUS
<1>2. t'[i] = z
  BY <1>1, TurnFacts DEF Leaves, TypeOK
<1>3. /\ y \in TurnState /\ FrameInv(y) /\ StageInv(y) /\ y.pc = "none"
      /\ Ext(t[i].frames, y.frames) /\ y.id = t[i].id /\ EndRank \in 1..MaxTurns
  BY TurnFacts DEF Returned
<1>4. ~y.uncertain => n = y.round
  OBVIOUS
<1> HIDE DEF a, n
<1>5. /\ TurnInv(z, a, n) /\ Completed(z) /\ Outlives(y, z) /\ Ext(y.frames, z.frames)
  BY <1>1, <1>3, <1>4, FailsWell
<1>6. z.id = t[i].id /\ z.pc # "unborn" /\ Ext(t[i].frames, z.frames)
  <2>1. /\ t[i].frames \in Seq(Frame) /\ y.frames \in Seq(Frame) /\ z.frames \in Seq(Frame)
    BY <1>3, <1>5, TurnFacts DEF TurnState, TurnInv
  <2> QED BY <1>3, <1>5, <2>1, ExtTransitive DEF Outlives
<1>7. RestFollows(i)
  BY <1>2, <1>5 DEF RestFollows, RestReturns, Outlives
<1> QED BY <1>1, <1>5, <1>6, <1>7, EndMoves DEF a, n

LEMMA ReturnCancels ==
  ASSUME AdapterInv, NEW i \in Turns, Ran(t[i]), ~Completed(t[i]), NEW y, Returned(t[i], y),
         Leaves(i, Cancelled(y)), RestReturns(i), y.previous \in resolved' \cup {None}
  PROVE  Moves(i)
<1> DEFINE a == asked'[i]
           n == answered'[i]
<1>1. PICK z : z = Cancelled(y)
  OBVIOUS
<1>2. t'[i] = z
  BY <1>1, TurnFacts DEF Leaves, TypeOK
<1>3. /\ y \in TurnState /\ FrameInv(y) /\ StageInv(y) /\ y.pc = "none"
      /\ Ext(t[i].frames, y.frames) /\ y.id = t[i].id /\ EndRank \in 1..MaxTurns
  BY TurnFacts DEF Returned
<1> HIDE DEF a, n
<1>5. /\ TurnInv(z, a, n) /\ Completed(z) /\ Outlives(y, z) /\ Ext(y.frames, z.frames)
  BY <1>1, <1>3, CancelsWell
<1>6. z.id = t[i].id /\ z.pc # "unborn" /\ Ext(t[i].frames, z.frames)
  <2>1. /\ t[i].frames \in Seq(Frame) /\ y.frames \in Seq(Frame) /\ z.frames \in Seq(Frame)
    BY <1>3, <1>5, TurnFacts DEF TurnState, TurnInv
  <2> QED BY <1>3, <1>5, <2>1, ExtTransitive DEF Outlives
<1>7. RestFollows(i)
  BY <1>2, <1>5 DEF RestFollows, RestReturns, Outlives
<1> QED BY <1>1, <1>5, <1>6, <1>7, EndMoves DEF a, n

LEMMA ReturnFinishes ==
  ASSUME AdapterInv, NEW i \in Turns, Ran(t[i]), ~Completed(t[i]), NEW y, Returned(t[i], y),
         TextInv(y), y.started, y.pending = 0, y.tools = {},
         Leaves(i, Finished(y)), RestReturns(i), y.previous \in resolved' \cup {None}
  PROVE  Moves(i)
<1> DEFINE a == asked'[i]
           n == answered'[i]
<1>1. PICK z : z = Finished(y)
  OBVIOUS
<1>2. t'[i] = z
  BY <1>1, TurnFacts DEF Leaves, TypeOK
<1>3. /\ y \in TurnState /\ FrameInv(y) /\ StageInv(y) /\ y.pc = "none"
      /\ Ext(t[i].frames, y.frames) /\ y.id = t[i].id /\ EndRank \in 1..MaxTurns
  BY TurnFacts DEF Returned
<1> HIDE DEF a, n
<1>5. /\ TurnInv(z, a, n) /\ Completed(z) /\ Outlives(y, z) /\ Ext(y.frames, z.frames)
  BY <1>1, <1>3, FinishesWell
<1>6. z.id = t[i].id /\ z.pc # "unborn" /\ Ext(t[i].frames, z.frames)
  <2>1. /\ t[i].frames \in Seq(Frame) /\ y.frames \in Seq(Frame) /\ z.frames \in Seq(Frame)
    BY <1>3, <1>5, TurnFacts DEF TurnState, TurnInv
  <2> QED BY <1>3, <1>5, <2>1, ExtTransitive DEF Outlives
<1>7. RestFollows(i)
  BY <1>2, <1>5 DEF RestFollows, RestReturns, Outlives
<1> QED BY <1>1, <1>5, <1>6, <1>7, EndMoves DEF a, n

(* A turn whose calls all have results goes on.                            *)
LEMMA ReturnContinues ==
  ASSUME AdapterInv, NEW i \in Turns, Ran(t[i]), ~Completed(t[i]), NEW y, Returned(t[i], y),
         TextInv(y), y.tools # {}, y.round > 0, y.round < MaxRounds, AllBuffered(y),
         ~y.uncertain => answered'[i] = y.round, asked'[i] = y.tools,
         Leaves(i, Continues(y)), RestReturns(i), y.previous \in resolved' \cup {None}
  PROVE  Moves(i)
<1> DEFINE a == asked'[i]
           n == answered'[i]
           x == t[i]
<1>1. PICK z : z = Continues(y)
  OBVIOUS
<1>2. t'[i] = z
  BY <1>1, TurnFacts DEF Leaves, TypeOK
<1>3. /\ y \in TurnState /\ FrameInv(y) /\ StageInv(y) /\ y.pc = "none" /\ ~Completed(y)
      /\ Ext(x.frames, y.frames) /\ y.id = x.id /\ EndRank \in 1..MaxTurns
  BY TurnFacts DEF Returned, Completed
<1>4. (~y.uncertain => n = y.round) /\ a = y.tools /\ Ran(x) /\ ~Completed(x) /\ x \in TurnState
  BY TurnFacts
<1> HIDE DEF a, n, x
<1>5. /\ TurnInv(z, a, n) /\ z.id = y.id /\ z.pc # "unborn" /\ z.inFlight = 0
      /\ z.previous = y.previous /\ Ext(y.frames, z.frames)
  BY <1>1, <1>3, <1>4, ContinuesWell
<1>6. Ext(x.frames, z.frames)
  <2>1. /\ x.frames \in Seq(Frame) /\ y.frames \in Seq(Frame) /\ z.frames \in Seq(Frame)
    BY <1>3, <1>4, <1>5 DEF TurnState, TurnInv
  <2> QED BY <1>3, <1>5, <2>1, ExtTransitive
<1>7. RestFollows(i)
  BY <1>2, <1>5 DEF RestFollows, RestReturns
<1>8. CASE Completed(z)
  BY <1>1, <1>3, <1>4, <1>5, <1>6, <1>7, <1>8, EndMoves DEF a, n, x
<1>9. CASE ~Completed(z)
  <2>1. Continues(y) = Continued(y)
    BY <1>1, <1>3, <1>4, <1>9, FailsWell DEF Continues
  <2>2. z.pc = "launch"
    BY <1>1, <1>3, <2>1 DEF Continued, TurnState
  <2>3. Ran(z) /\ Follows(x, z)
    BY <1>3, <1>4, <1>5, <1>6, <1>9, <2>2 DEF Ran, Dead, Follows, Holds
  <2> QED BY <1>1, <1>5, <1>7, <2>3, LeavesMoves DEF a, n, x
<1> QED BY <1>8, <1>9

(* A turn that has calls without a result waits for them.                  *)
LEMMA ReturnWaits ==
  ASSUME AdapterInv, NEW i \in Turns, Ran(t[i]), ~Completed(t[i]), NEW y, Returned(t[i], y),
         TextInv(y), y.waiting, y.tools # {}, y.round > 0, y.round < MaxRounds,
         ~y.uncertain => answered'[i] = y.round, asked'[i] = y.tools,
         Leaves(i, y), RestReturns(i), y.previous \in resolved' \cup {None}
  PROVE  Moves(i)
<1> DEFINE a == asked'[i]
           n == answered'[i]
           x == t[i]
<1>1. t'[i] = y
  BY TurnFacts DEF Leaves, TypeOK
<1>2. /\ y \in TurnState /\ FrameInv(y) /\ StageInv(y) /\ y.pc = "none" /\ y.end = x.end
      /\ Ext(x.frames, y.frames) /\ y.id = x.id
  BY DEF Returned
<1>3. (~y.uncertain => n = y.round) /\ a = y.tools /\ x.pc # "unborn" /\ ~Dead(x)
      /\ ~Completed(x) /\ x \in TurnState
  BY TurnFacts DEF Ran
<1> HIDE DEF a, n, x
<1>4. ControlInv(y, a, n)
  BY <1>2, <1>3 DEF ControlInv
<1>5. Follows(x, y) /\ TurnInv(y, a, n) /\ Ran(y)
  BY <1>2, <1>3, <1>4, OpenFollows
<1>6. RestFollows(i)
  BY <1>1 DEF RestFollows, RestReturns
<1> QED BY <1>5, <1>6, LeavesMoves DEF a, n, x

LEMMA ReturnFacts ==
  ASSUME AdapterInv, NEW i \in Turns, t[i].pc \in {"invoking", "failing"}
  PROVE  /\ t[i] \in TurnState /\ StageInv(t[i]) /\ Ran(t[i]) /\ t[i].round \in 1..MaxRounds
         /\ SessionOf[t[i].id] \in Sessions /\ <<i, t[i].round>> \in Responses
         /\ ~Completed(t[i]) =>
              /\ FrameInv(t[i]) /\ TextInv(t[i]) /\ ControlInv(t[i], asked[i], answered[i])
              /\ Returned(t[i], Released(t[i])) /\ TextInv(Released(t[i]))
              /\ Released(t[i]).uncertain = t[i].uncertain
              /\ Released(t[i]).previous = t[i].previous
<1>1. t[i] \in TurnState /\ StageInv(t[i]) /\ t[i].round > 0 /\ t[i].id # None
  BY TurnFacts DEF StageInv
<1>2. t[i].round \in 1..MaxRounds /\ t[i].id \in TurnIds
  <2>1. t[i].round \in 0..MaxRounds /\ t[i].id \in TurnIds \cup {None}
    BY <1>1 DEF TurnState
  <2> QED BY <1>1, <2>1, Constants
<1>3. Ran(t[i])
  BY <1>1 DEF Ran, Dead
<1>4. SessionOf[t[i].id] \in Sessions /\ <<i, t[i].round>> \in Responses
  BY <1>2 DEF Sessions, Responses
<1>5. ~Completed(t[i]) =>
        FrameInv(t[i]) /\ TextInv(t[i]) /\ ControlInv(t[i], asked[i], answered[i])
  BY TurnFacts
<1> QED BY <1>1, <1>2, <1>3, <1>4, <1>5, ReleasedReturns

LEMMA ReturnErrorMoves ==
  ASSUME AdapterInv, NEW i \in Turns, ReturnError(i)
  PROVE  Moves(i)
<1> DEFINE x == Released(t[i])
<1>1. t[i].pc \in {"invoking", "failing"} /\ UNCHANGED <<asked, answered, resolved, reader>>
  BY DEF ReturnError
<1>2. TypeOK /\ CheckpointInv /\ answered[i] \in 0..MaxRounds /\ asked[i] \subseteq Calls
      /\ t[i].previous \in resolved \cup {None}
  BY TurnFacts DEF AdapterInv
<1>3. ASSUME runtime' = runtime PROVE RestReturns(i)
  BY <1>1, <1>2, <1>3 DEF RestReturns, TypeOK, CheckpointInv
<1>4. CASE Completed(t[i])
  <2>1. Outlived(i) /\ runtime' = runtime
    BY <1>4 DEF ReturnError, Outlived
  <2>2. answered'[i] = answered[i]
    BY <1>1
  <2> QED BY <1>1, <1>3, <1>4, <2>1, <2>2, OutlivedMoves
<1>5. CASE ~Completed(t[i])
  <2>1. /\ Returned(t[i], x) /\ Ran(t[i]) /\ (~x.uncertain => answered'[i] = x.round)
        /\ x.previous \in resolved' \cup {None} /\ x \in TurnState /\ x.late \in BOOLEAN
    <3>1. /\ Returned(t[i], x) /\ Ran(t[i]) /\ x.uncertain = t[i].uncertain
          /\ x.previous = t[i].previous /\ ControlInv(t[i], asked[i], answered[i])
      BY <1>1, <1>5, ReturnFacts
    <3>2. x \in TurnState /\ x.round = t[i].round
      BY <3>1 DEF Returned
    <3> HIDE DEF x
    <3> QED BY <1>1, <1>2, <3>1, <3>2 DEF ControlInv, TurnState
  <2>2. ASSUME runtime' = runtime, NEW retryable \in BOOLEAN, Leaves(i, Failed(x, retryable))
        PROVE  Moves(i)
    <3> HIDE DEF x
    <3> QED BY <1>3, <1>5, <2>1, <2>2, ReturnFails
  <2>3. ASSUME runtime' = runtime, Leaves(i, Cancelled(x)) PROVE Moves(i)
    <3> HIDE DEF x
    <3> QED BY <1>3, <1>5, <2>1, <2>3, ReturnCancels
  <2>4. ASSUME runtime' = [runtime EXCEPT ![SessionOf[x.id]] = Forgotten],
               Leaves(i, Failed([x EXCEPT !.previous = None, !.session = FALSE], x.late))
        PROVE  Moves(i)
    <3> HIDE DEF x
    <3>1. PICK y : y = [x EXCEPT !.previous = None, !.session = FALSE]
      OBVIOUS
    <3>2. Refit(x, y) /\ y.uncertain = x.uncertain /\ y.previous = None
      <4>1. PICK r : r \in Responses
        BY <1>1, ReturnFacts
      <4> QED BY <2>1, <3>1, <4>1, RefitFields
    <3>3. Returned(t[i], y) /\ y.round = x.round
      BY <2>1, <3>2, RefitReturns DEF Refit
    <3>4. RestReturns(i)
      <4>1. Forgotten \in [known: BOOLEAN, previous: Responses \cup {None}] /\ Forgotten.previous = None
        BY DEF Forgotten
      <4>2. runtime' \in [Sessions -> [known: BOOLEAN, previous: Responses \cup {None}]]
        BY <1>2, <2>4, <4>1 DEF TypeOK
      <4>3. \A s \in Sessions : runtime'[s] = runtime[s] \/ runtime'[s] = Forgotten
        BY <1>2, <2>4 DEF TypeOK
      <4>4. \A s \in Sessions : runtime'[s].previous \in resolved' \cup {None}
        BY <1>1, <1>2, <4>1, <4>3 DEF CheckpointInv
      <4> QED BY <1>1, <1>2, <4>2, <4>4 DEF RestReturns, TypeOK
    <3> QED BY <1>5, <2>1, <2>4, <3>1, <3>2, <3>3, <3>4, ReturnFails
  <2> QED BY <1>5, <2>2, <2>3, <2>4 DEF ReturnError
<1> QED BY <1>4, <1>5

LEMMA ReturnEndedMoves ==
  ASSUME AdapterInv, NEW i \in Turns, ReturnEnded(i)
  PROVE  Moves(i)
<1> DEFINE v == Released(t[i])
           x == [v EXCEPT !.uncertain = FALSE]
           y == [x EXCEPT !.response = <<i, x.round>>]
           z == [y EXCEPT !.pending = 0]
<1>1. /\ t[i].pc \in {"invoking", "failing"} /\ UNCHANGED <<asked, resolved, reader>>
      /\ answered' = [answered EXCEPT ![i] = x.round]
  BY DEF ReturnEnded
<1>2. TypeOK /\ CheckpointInv /\ asked[i] \subseteq Calls /\ t[i].previous \in resolved \cup {None}
  BY TurnFacts DEF AdapterInv
<1>3. x.round = t[i].round /\ t[i].round \in 0..MaxRounds
  <2>1. v \in TurnState /\ v.round = t[i].round
    BY <1>1, ReturnFacts, ReleasedFields
  <2> HIDE DEF v
  <2> QED BY <1>1, <2>1, ReturnFacts DEF TurnState
<1>4. answered'[i] = t[i].round
  BY <1>1, <1>2, <1>3 DEF TypeOK
<1>5. ASSUME runtime' = runtime PROVE RestReturns(i)
  BY <1>1, <1>2, <1>3, <1>4, <1>5 DEF RestReturns, TypeOK, CheckpointInv
<1>6. CASE Completed(t[i])
  <2>1. Outlived(i) /\ runtime' = runtime
    BY <1>6 DEF ReturnEnded, Outlived
  <2> QED BY <1>1, <1>4, <1>5, <1>6, <2>1, OutlivedMoves
<1>7. CASE ~Completed(t[i])
  <2>1. Returned(t[i], v) /\ Ran(t[i]) /\ v.previous = t[i].previous
        /\ <<i, t[i].round>> \in Responses
    BY <1>1, <1>7, ReturnFacts
  <2> HIDE DEF v
  <2>2. /\ Refit(v, x) /\ x.previous = v.previous /\ Returned(t[i], x)
    <3>1. v \in TurnState
      BY <2>1 DEF Returned
    <3>2. Refit(v, x) /\ x.previous = v.previous
      BY <2>1, <3>1, RefitFields
    <3> HIDE DEF x
    <3> QED BY <2>1, <3>2, RefitReturns
  <2>3. x \in TurnState /\ x.previous \in resolved' \cup {None}
    BY <1>1, <1>2, <2>1, <2>2 DEF Returned
  <2> HIDE DEF x
  <2>4. /\ Refit(x, y) /\ y.previous = x.previous /\ Returned(t[i], y)
    BY <1>3, <2>1, <2>2, <2>3, RefitFields, RefitReturns
  <2>5. y \in TurnState /\ y.previous \in resolved' \cup {None}
    BY <2>3, <2>4 DEF Returned
  <2> HIDE DEF y
  <2>6. z \in TurnState /\ z.previous = y.previous /\ Returned(t[i], z)
    <3>1. z \in TurnState /\ FrameInv(z) /\ Outlives(y, z) /\ z.frames = y.frames /\ StageInv(z)
      BY <2>4, <2>5, SilencedKeeps DEF Returned
    <3>2. z.end = y.end /\ z.tools = y.tools /\ z.late = y.late
      BY <2>5 DEF TurnState
    <3> HIDE DEF z
    <3> QED BY <2>4, <3>1, <3>2 DEF Returned, Outlives
  <2> HIDE DEF z
  <2>7. /\ answered'[i] = x.round /\ answered'[i] = y.round /\ answered'[i] = z.round
    BY <1>4, <2>2, <2>4, <2>6 DEF Returned
  <2>8. runtime' = runtime
    BY <1>7 DEF ReturnEnded
  <2>9. RestReturns(i)
    BY <1>5, <2>8
  <2>10. \/ \E retryable \in BOOLEAN : Leaves(i, Failed(x, retryable))
         \/ \E retryable \in BOOLEAN : Leaves(i, Failed(y, retryable))
         \/ \E retryable \in BOOLEAN : Leaves(i, Failed(z, retryable))
         \/ Leaves(i, Cancelled(y))
    BY <1>7 DEF ReturnEnded, v, x, y, z
  <2>11. ASSUME NEW retryable \in BOOLEAN, Leaves(i, Failed(x, retryable)) PROVE Moves(i)
    BY <1>7, <2>1, <2>2, <2>3, <2>7, <2>9, <2>11, ReturnFails
  <2>12. ASSUME NEW retryable \in BOOLEAN, Leaves(i, Failed(y, retryable)) PROVE Moves(i)
    BY <1>7, <2>1, <2>4, <2>5, <2>7, <2>9, <2>12, ReturnFails
  <2>13. ASSUME NEW retryable \in BOOLEAN, Leaves(i, Failed(z, retryable)) PROVE Moves(i)
    BY <1>7, <2>1, <2>5, <2>6, <2>7, <2>9, <2>13, ReturnFails
  <2>14. ASSUME Leaves(i, Cancelled(y)) PROVE Moves(i)
    BY <1>7, <2>1, <2>4, <2>5, <2>9, <2>14, ReturnCancels
  <2> QED BY <2>10, <2>11, <2>12, <2>13, <2>14
<1> QED BY <1>6, <1>7

(* A response that completed: its output is shown.                         *)
LEMMA ReturnedShown ==
  ASSUME NEW x, NEW y, Returned(x, y), TextInv(y)
  PROVE  /\ CanStart(y) /\ Returned(x, Started(y)) /\ TextInv(Started(y))
         /\ CanFlush(Started(y)) =>
              LET z == Flushed(Started(y)) IN
              /\ Returned(x, z) /\ TextInv(z) /\ z.started /\ z.pending = 0
              /\ z.previous = y.previous /\ z.response = y.response /\ z.uncertain = y.uncertain
<1> DEFINE u == Started(y)
           z == Flushed(u)
<1>1. y \in TurnState /\ FrameInv(y) /\ StageInv(y) /\ Ext(x.frames, y.frames)
  BY DEF Returned
<1>2. /\ CanStart(y) /\ u \in TurnState /\ FrameInv(u) /\ u.started /\ Alike(y, u)
      /\ OutputOf(u.frames) = OutputOf(y.frames) /\ u.pending = y.pending
      /\ Ext(y.frames, u.frames)
  BY <1>1, StartedKeeps
<1> HIDE DEF u
<1>3. TextInv(u)
  BY <1>2 DEF TextInv, Alike
<1>4. Ext(x.frames, u.frames)
  BY <1>1, <1>2 DEF Ext
<1>5. Returned(x, u)
  BY <1>1, <1>2, <1>4 DEF Returned, Alike, StageInv
<1>6. ASSUME CanFlush(u)
      PROVE  /\ Returned(x, z) /\ TextInv(z) /\ z.started /\ z.pending = 0
             /\ z.previous = y.previous /\ z.response = y.response /\ z.uncertain = y.uncertain
  <2>1. /\ z \in TurnState /\ FrameInv(z) /\ TextInv(z) /\ z.started /\ z.pending = 0
        /\ Alike(u, z) /\ Ext(u.frames, z.frames)
    BY <1>2, <1>3, <1>6, FlushedKeeps
  <2> HIDE DEF z
  <2>2. Ext(x.frames, z.frames)
    BY <1>2, <1>4, <2>1 DEF Ext, TurnState
  <2>3. Returned(x, z)
    BY <1>5, <2>1, <2>2 DEF Returned, Alike, StageInv
  <2> QED BY <1>2, <2>1, <2>3 DEF Alike
<1> QED BY <1>2, <1>3, <1>5, <1>6 DEF u

LEMMA WaitingFields ==
  ASSUME NEW x \in TurnState
  PROVE  LET y == [x EXCEPT !.waiting = TRUE] IN
         Refit(x, y) /\ y.previous = x.previous /\ y.uncertain = x.uncertain /\ y.waiting
<1>1. PICK y : y = [x EXCEPT !.waiting = TRUE]
  OBVIOUS
<1>2. y \in TurnState
  BY <1>1 DEF TurnState
<1> QED BY <1>1, <1>2 DEF TurnState, Refit, Shows

LEMMA ReturnCompletedMoves ==
  ASSUME AdapterInv, NEW i \in Turns, ReturnCompleted(i)
  PROVE  Moves(i)
<1> DEFINE v == Released(t[i])
           x == [v EXCEPT !.uncertain = FALSE]
           y == [x EXCEPT !.response = <<i, x.round>>, !.session = TRUE]
           z == Flushed(Started(y))
           w == [z EXCEPT !.waiting = TRUE]
           f == [z EXCEPT !.previous = z.response]
           q == [y EXCEPT !.pending = 0]
           r == <<i, t[i].round>>
           s == SessionOf[x.id]
<1>1. /\ t[i].pc = "invoking" /\ t[i].pc \in {"invoking", "failing"} /\ UNCHANGED <<asked, reader>>
      /\ answered' = [answered EXCEPT ![i] = x.round]
      /\ resolved' = IF asked[i] = {} THEN resolved \cup {<<i, x.round>>} ELSE resolved
  BY DEF ReturnCompleted
<1>2. TypeOK /\ CheckpointInv /\ asked[i] \subseteq Calls /\ t[i].previous \in resolved \cup {None}
  BY TurnFacts DEF AdapterInv
<1>3. x.round = t[i].round /\ t[i].round \in 1..MaxRounds /\ x.id = t[i].id
      /\ r \in Responses /\ SessionOf[t[i].id] \in Sessions
  <2>1. v \in TurnState /\ v.round = t[i].round /\ v.id = t[i].id
    BY <1>1, ReturnFacts, ReleasedFields DEF Others
  <2> HIDE DEF v
  <2>2. x.round = v.round /\ x.id = v.id
    BY <2>1 DEF TurnState
  <2> QED BY <1>1, <2>1, <2>2, ReturnFacts
<1>4. answered'[i] = t[i].round /\ resolved' \subseteq Responses /\ resolved \subseteq resolved'
      /\ (asked[i] = {} => r \in resolved')
  BY <1>1, <1>2, <1>3 DEF TypeOK
<1>5. ASSUME runtime' \in [Sessions -> [known: BOOLEAN, previous: Responses \cup {None}]],
             \A u \in Sessions : runtime'[u].previous \in resolved' \cup {None}
      PROVE  RestReturns(i)
  BY <1>1, <1>2, <1>3, <1>4, <1>5 DEF RestReturns, TypeOK
<1>6. ASSUME runtime' = runtime PROVE RestReturns(i)
  BY <1>2, <1>4, <1>5, <1>6 DEF TypeOK, CheckpointInv
<1>7. ASSUME NEW c \in [known: BOOLEAN, previous: Responses \cup {None}],
             c.previous \in resolved' \cup {None}, runtime' = [runtime EXCEPT ![s] = c]
      PROVE  RestReturns(i)
  <2>1. runtime' \in [Sessions -> [known: BOOLEAN, previous: Responses \cup {None}]]
    BY <1>2, <1>7 DEF TypeOK
  <2>2. \A u \in Sessions : runtime'[u] = runtime[u] \/ runtime'[u] = c
    BY <1>2, <1>7 DEF TypeOK
  <2> QED BY <1>2, <1>4, <1>5, <1>7, <2>1, <2>2 DEF CheckpointInv
<1>8. CASE Completed(t[i])
  <2>1. Outlived(i) /\ runtime' = runtime
    BY <1>8 DEF ReturnCompleted, Outlived
  <2> QED BY <1>1, <1>4, <1>6, <1>8, <2>1, OutlivedMoves
<1>9. CASE ~Completed(t[i])
  <2> DEFINE fits == CanStart(y) /\ CanFlush(Started(y))
  <2>1. \/ Leaves(i, Failed(x, TRUE)) /\ runtime' = runtime
        \/ Leaves(i, Failed(q, FALSE)) /\ runtime' = runtime
        \/ /\ fits /\ z.tools = {} /\ Leaves(i, Finished(f))
           /\ runtime' = [runtime EXCEPT ![s] = [known |-> TRUE, previous |-> z.response]]
        \/ /\ fits /\ z.tools # {} /\ Leaves(i, IF AllBuffered(w) THEN Continues(w) ELSE w)
           /\ runtime' = [runtime EXCEPT ![s] = Checkpoint(w)]
    BY <1>9 DEF ReturnCompleted
  <2>2. /\ Returned(t[i], v) /\ TextInv(v) /\ Ran(t[i]) /\ v.previous = t[i].previous
        /\ ControlInv(t[i], asked[i], answered[i])
    BY <1>1, <1>9, ReturnFacts
  <2> HIDE DEF v
  <2>3. Refit(v, x) /\ x.previous = v.previous /\ Returned(t[i], x) /\ TextInv(x)
    <3>1. v \in TurnState
      BY <2>2 DEF Returned
    <3>2. Refit(v, x) /\ x.previous = v.previous
      BY <1>3, <3>1, RefitFields
    <3> HIDE DEF x
    <3> QED BY <2>2, <3>2, RefitReturns
  <2>4. x \in TurnState /\ x.previous \in resolved' \cup {None} /\ x.previous = t[i].previous
    BY <1>2, <1>4, <2>2, <2>3 DEF Returned
  <2> HIDE DEF x
  <2>5. Refit(x, y) /\ y.previous = x.previous /\ y.response = r /\ Returned(t[i], y) /\ TextInv(y)
    <3>1. y = [x EXCEPT !.response = r, !.session = TRUE]
      BY <1>3
    <3> HIDE DEF y
    <3>2. Refit(x, y) /\ y.previous = x.previous /\ y.response = r
      <4> HIDE DEF r
      <4> QED BY <1>3, <2>4, <3>1, RefitFields
    <3> QED BY <2>3, <3>2, RefitReturns
  <2>6. y \in TurnState /\ y.previous \in resolved' \cup {None}
    BY <2>4, <2>5 DEF Returned
  <2> HIDE DEF y
  <2>7. q \in TurnState /\ q.previous = y.previous /\ Returned(t[i], q)
    <3>1. q \in TurnState /\ FrameInv(q) /\ Outlives(y, q) /\ q.frames = y.frames /\ StageInv(q)
      BY <2>5, <2>6, SilencedKeeps DEF Returned
    <3>2. q.end = y.end /\ q.tools = y.tools /\ q.late = y.late
      BY <2>6 DEF TurnState
    <3> HIDE DEF q
    <3> QED BY <2>5, <3>1, <3>2 DEF Returned, Outlives
  <2>8. answered'[i] = x.round /\ answered'[i] = q.round /\ answered'[i] = t[i].round
    BY <1>4, <2>3, <2>7 DEF Returned
  <2> HIDE DEF q
  <2>9. ASSUME Leaves(i, Failed(x, TRUE)), runtime' = runtime PROVE Moves(i)
    BY <1>6, <1>9, <2>2, <2>3, <2>4, <2>8, <2>9, ReturnFails
  <2>10. ASSUME Leaves(i, Failed(q, FALSE)), runtime' = runtime PROVE Moves(i)
    BY <1>6, <1>9, <2>2, <2>6, <2>7, <2>8, <2>10, ReturnFails
  <2>11. ASSUME fits
         PROVE  /\ Returned(t[i], z) /\ TextInv(z) /\ z.started /\ z.pending = 0 /\ z \in TurnState
                /\ z.previous = y.previous /\ z.response = r
    <3>1. /\ Returned(t[i], z) /\ TextInv(z) /\ z.started /\ z.pending = 0
          /\ z.previous = y.previous /\ z.response = r
      BY <2>5, <2>11, ReturnedShown
    <3> HIDE DEF z
    <3> QED BY <3>1 DEF Returned
  <2> HIDE DEF z
  <2>12. asked'[i] = t[i].tools
    BY <1>1, <2>2 DEF ControlInv
  <2>13. ASSUME fits, z.tools = {}, Leaves(i, Finished(f)),
                runtime' = [runtime EXCEPT ![s] = [known |-> TRUE, previous |-> z.response]]
         PROVE  Moves(i)
    <3>1. r \in resolved'
      BY <1>1, <1>4, <2>11, <2>12, <2>13 DEF Returned
    <3>2. RestReturns(i)
      <4>1. PICK c : c = [known |-> TRUE, previous |-> r]
        OBVIOUS
      <4>2. c \in [known: BOOLEAN, previous: Responses \cup {None}] /\ c.previous = r
        BY <1>3, <4>1
      <4> QED BY <1>7, <2>11, <2>13, <3>1, <4>1, <4>2
    <3>3. Refit(z, f) /\ f.previous = r
      <4>1. z \in TurnState /\ f = [z EXCEPT !.previous = r]
        BY <2>11, <2>13
      <4> HIDE DEF f, r
      <4> QED BY <1>3, <4>1, RefitFields
    <3> HIDE DEF f
    <3>4. Returned(t[i], f) /\ TextInv(f) /\ f.started /\ f.pending = 0 /\ f.tools = {}
      BY <2>11, <2>13, <3>3, RefitReturns DEF Refit, Shows
    <3> QED BY <1>9, <2>2, <2>13, <3>1, <3>2, <3>3, <3>4, ReturnFinishes
  <2>14. ASSUME fits, z.tools # {}, Leaves(i, IF AllBuffered(w) THEN Continues(w) ELSE w),
                runtime' = [runtime EXCEPT ![s] = Checkpoint(w)]
         PROVE  Moves(i)
    <3>1. Refit(z, w) /\ w.previous = z.previous /\ w.uncertain = z.uncertain /\ w.waiting
      BY <2>11, <2>14, WaitingFields
    <3> HIDE DEF w
    <3>2. Returned(t[i], w) /\ TextInv(w) /\ w.previous = t[i].previous /\ w \in TurnState
      BY <2>4, <2>5, <2>11, <2>14, <3>1, RefitReturns DEF Refit
    <3>3. RestReturns(i)
      <4>1. PICK c : c = [known |-> TRUE, previous |-> w.previous]
        OBVIOUS
      <4>2. c \in [known: BOOLEAN, previous: Responses \cup {None}] /\ c.previous = w.previous
        BY <3>2, <4>1 DEF TurnState
      <4>3. c.previous \in resolved' \cup {None}
        BY <1>2, <1>4, <3>2, <4>2
      <4> QED BY <1>7, <2>14, <4>1, <4>2, <4>3 DEF Checkpoint
    <3>4. /\ w.tools = t[i].tools /\ w.tools # {} /\ w.round = t[i].round
      BY <2>11, <2>14, <3>2 DEF Returned
    <3>5. w.round > 0 /\ w.round < MaxRounds /\ answered'[i] = w.round /\ asked'[i] = w.tools
          /\ w.previous \in resolved' \cup {None}
      BY <1>2, <1>4, <2>2, <2>12, <3>2, <3>4 DEF ControlInv
    <3>6. CASE AllBuffered(w)
      BY <1>9, <2>2, <2>14, <3>2, <3>3, <3>4, <3>5, <3>6, ReturnContinues
    <3>7. CASE ~AllBuffered(w)
      BY <1>9, <2>2, <2>14, <3>1, <3>2, <3>3, <3>4, <3>5, <3>7, ReturnWaits
    <3> QED BY <3>6, <3>7
  <2> HIDE DEF f, w
  <2> QED BY <2>1, <2>9, <2>10, <2>13, <2>14
<1> QED BY <1>8, <1>9

-----------------------------------------------------------------------------
(* Admission.                                                              *)

(* The turn that startTurn makes.                                          *)
Newborn(id, p, known, pc) ==
  [Unborn EXCEPT !.id = id, !.initializing = TRUE, !.previous = p, !.session = known, !.pc = pc]

LEMMA NewTurn ==
  ASSUME NEW id \in TurnIds, NEW p \in Responses \cup {None}, NEW known \in BOOLEAN,
         NEW pc \in {"session", "init"}, NEW y, y = Newborn(id, p, known, pc)
  PROVE  /\ y \in TurnState /\ TurnInv(y, {}, 0) /\ Ran(y) /\ ~Completed(y) /\ Holds(y)
         /\ y.id = id /\ y.previous = p /\ y.frames = <<>>
<1>1. y \in TurnState
  <2>1. Unborn \in TurnState
    <3>1. /\ 0 \in 0..MaxRounds /\ 0 \in 0..MaxOutput /\ 0 \in 0..1 /\ 0 \in 0..MaxTurns
          /\ <<>> \in Seq(Frame) /\ {} \in SUBSET Calls /\ "unborn" \in Steps
      BY Constants DEF Steps
    <3> QED BY <3>1 DEF TurnState, Unborn
  <2>2. pc \in Steps
    BY DEF Steps
  <2>3. PICK u \in TurnState : u = Unborn
    BY <2>1
  <2> QED BY <2>2, <2>3 DEF TurnState, Newborn
<1>2. /\ y.id = id /\ y.previous = p /\ y.frames = <<>> /\ y.pc = pc /\ y.initializing = TRUE
      /\ y.round = 0 /\ y.started = FALSE /\ y.text = 0 /\ y.pending = 0 /\ y.tools = {}
      /\ y.buffered = {} /\ y.submitted = {} /\ y.uncertain = FALSE /\ y.exposed = FALSE
      /\ y.waiting = FALSE /\ y.inFlight = 0 /\ y.end = 0
  BY DEF Unborn, Newborn
<1>3. ~Completed(y) /\ Ran(y) /\ Holds(y)
  BY <1>2 DEF Completed, Ran, Dead, Holds
<1>4. StageInv(y)
  BY <1>2, Constants DEF StageInv
<1>5. FrameInv(y) /\ TextInv(y)
  <2>1. Growing(y.frames, y.submitted \cup y.tools, y.submitted)
    <3>1. y.submitted \cup y.tools = {}
      BY <1>2
    <3> QED BY <1>2, <3>1, AddStarted
  <2> QED BY <1>2, <2>1, EmptyShows DEF FrameInv, TextInv
<1>6. ControlInv(y, {}, 0)
  BY <1>2, Constants DEF ControlInv
<1> QED BY <1>1, <1>2, <1>3, <1>4, <1>5, <1>6 DEF TurnInv, OpenInv

LEMMA UnbornFacts ==
  ASSUME AdapterInv, NEW i \in Turns, t[i].pc = "unborn"
  PROVE  t[i].frames = <<>> /\ ~Completed(t[i]) /\ asked[i] = {} /\ answered[i] = 0
<1>1. t[i] = Unborn /\ StageInv(t[i])
  BY TurnFacts DEF StageInv
<1>2. /\ t[i].frames = <<>> /\ ~Completed(t[i]) /\ t[i].round = 0 /\ t[i].uncertain = FALSE
  BY <1>1 DEF Unborn, Completed
<1>3. ControlInv(t[i], asked[i], answered[i])
  BY <1>2, TurnFacts
<1> QED BY <1>2, <1>3 DEF ControlInv

(* Turns that hold a place are in the map and are counted.                 *)
LEMMA HoldersCount ==
  ASSUME AdapterInv, NEW id \in TurnIds, Admitted(id, Pruned)
  PROVE  /\ \A j \in Holders : Pruned[t[j].id] = j /\ SessionOf[t[j].id] # SessionOf[id]
         /\ IsFiniteSet(Holders) /\ Cardinality(Holders) < MaxConcurrent
         /\ \A j \in Turns : Ran(t[j]) => t[j].id # id
<1> DEFINE A == {i \in Turns : (\E x \in TurnIds : Pruned[x] = i) /\ Active(i)}
<1>1. TypeOK /\ MapInv /\ Gone(t, turns, Pruned)
  <2>1. TypeOK /\ MapInv
    BY DEF AdapterInv
  <2> QED BY <2>1, PrunedGone DEF TypeOK
<1>2. /\ id \notin tomb /\ Pruned[id] = 0 /\ \A i \in A : SessionOf[t[i].id] # SessionOf[id]
      /\ Cardinality(A) < MaxConcurrent
  BY DEF Admitted
<1>3. ASSUME NEW j \in Holders
      PROVE  Pruned[t[j].id] = j /\ t[j].id \in TurnIds /\ j \in A
  <2>1. j \in Turns /\ Holds(t[j]) /\ turns[t[j].id] = j /\ t[j].pc # "unborn"
    BY <1>1 DEF Holders, MapInv, Holds, Ran
  <2>2. t[j].id \in TurnIds
    BY <2>1, TurnFacts DEF StageInv, TurnState
  <2>3. Pruned[t[j].id] = j
    BY <1>1, <2>1, <2>2 DEF Gone, Holds
  <2>4. Active(j)
    BY <2>1 DEF Active, Holds
  <2> QED BY <2>1, <2>2, <2>3, <2>4
<1>4. IsFiniteSet(A)
  BY Constants, FS_Subset
<1> HIDE DEF A
<1>5. Holders \subseteq A
  BY <1>3
<1>6. IsFiniteSet(Holders) /\ Cardinality(Holders) <= Cardinality(A)
  BY <1>4, <1>5, FS_Subset
<1>7. Cardinality(Holders) \in Nat /\ Cardinality(A) \in Nat
  BY <1>4, <1>6, FS_CardinalityType
<1>8. Cardinality(Holders) < MaxConcurrent
  BY <1>2, <1>6, <1>7, Constants
<1>9. ASSUME NEW j \in Turns, Ran(t[j]), t[j].id = id PROVE FALSE
  <2>1. ~Completed(t[j])
    BY <1>1, <1>2, <1>9 DEF MapInv
  <2>2. j \in Holders
    BY <1>9, <2>1 DEF Holders, Holds
  <2>3. Pruned[id] = j
    BY <1>3, <1>9, <2>2
  <2> QED BY <1>2, <2>3, Constants
<1> QED BY <1>2, <1>3, <1>6, <1>8, <1>9

LEMMA StartTurnKeeps ==
  ASSUME AdapterInv, NEW i \in Turns, NEW id \in TurnIds, StartTurn(i, id)
  PROVE  AdapterInv' /\ FramesStay
<1> DEFINE s == runtime[SessionOf[id]]
<1>1. /\ TypeOK /\ \A j \in Turns : TurnInv(t[j], asked[j], answered[j])
      /\ MapInv /\ PlaceInv /\ CheckpointInv /\ ReaderInv
  BY DEF AdapterInv
<1>2. /\ t[i].pc = "unborn" /\ Admitted(id, Pruned)
      /\ turns' = [Pruned EXCEPT ![id] = i]
      /\ UNCHANGED <<runtime, tomb, asked, answered, resolved, reader>>
  BY DEF StartTurn
<1>3. /\ s.previous \in Responses \cup {None} /\ s.known \in BOOLEAN
      /\ s.previous \in resolved \cup {None}
  <2>1. SessionOf[id] \in Sessions
    BY DEF Sessions
  <2> QED BY <1>1, <2>1 DEF TypeOK, CheckpointInv
<1>4. PICK y : /\ y \in TurnState /\ TurnInv(y, {}, 0) /\ Ran(y) /\ ~Completed(y) /\ Holds(y)
               /\ y.id = id /\ y.previous = s.previous /\ y.frames = <<>>
               /\ t' = [t EXCEPT ![i] = y]
  <2>1. PICK pc \in {"session", "init"} : pc = IF Pinned /\ ~s.known THEN "session" ELSE "init"
    OBVIOUS
  <2>2. PICK y : y = [Unborn EXCEPT !.id = id, !.initializing = TRUE, !.previous = s.previous,
                                    !.session = s.known, !.pc = pc]
    OBVIOUS
  <2>3. t' = [t EXCEPT ![i] = y]
    BY <2>1, <2>2 DEF StartTurn
  <2>4. /\ y \in TurnState /\ TurnInv(y, {}, 0) /\ Ran(y) /\ ~Completed(y) /\ Holds(y)
        /\ y.id = id /\ y.previous = s.previous /\ y.frames = <<>>
    <3>1. PICK p \in Responses \cup {None} : p = s.previous
      BY <1>3
    <3>2. PICK known \in BOOLEAN : known = s.known
      BY <1>3
    <3>3. y = Newborn(id, p, known, pc)
      BY <2>2, <3>1, <3>2 DEF Newborn
    <3> HIDE DEF s
    <3>4. /\ y \in TurnState /\ TurnInv(y, {}, 0) /\ Ran(y) /\ ~Completed(y) /\ Holds(y)
          /\ y.id = id /\ y.previous = p /\ y.frames = <<>>
      BY <2>1, <3>1, <3>2, <3>3, NewTurn
    <3> QED BY <3>1, <3>4
  <2> QED BY <2>3, <2>4
<1> HIDE DEF s
<1>5. /\ t'[i] = y /\ t' \in [Turns -> TurnState] /\ \A j \in Turns \ {i} : t'[j] = t[j]
  BY <1>1, <1>4 DEF TypeOK
<1>6. /\ \A j \in Holders : Pruned[t[j].id] = j /\ SessionOf[t[j].id] # SessionOf[id]
      /\ IsFiniteSet(Holders) /\ Cardinality(Holders) < MaxConcurrent
      /\ \A j \in Turns : Ran(t[j]) => t[j].id # id
  BY <1>2, HoldersCount
<1>7. Gone(t, turns, Pruned) /\ i # 0 /\ i \in 0..MaxTurns
  BY <1>1, PrunedGone, Constants DEF TypeOK, Turns
<1>8. i \notin Holders /\ ~Ran(t[i])
  BY <1>2 DEF Holders, Holds, Ran
<1>9. Holders' = Holders \cup {i}
  BY <1>4, <1>5 DEF Holders
<1>10. turns' \in [TurnIds -> 0..MaxTurns] /\ turns'[id] = i
       /\ \A k \in TurnIds \ {id} : turns'[k] = Pruned[k]
  BY <1>2, <1>7 DEF Gone
<1>11. TypeOK'
  BY <1>1, <1>2, <1>5, <1>10 DEF TypeOK
<1>12. \A j \in Turns : TurnInv(t'[j], asked'[j], answered'[j])
  <2>1. asked[i] = {} /\ answered[i] = 0
    BY <1>2, UnbornFacts
  <2> QED BY <1>1, <1>2, <1>4, <1>5, <2>1
<1>13. MapInv'
  <2>1. ASSUME NEW k \in TurnIds, turns'[k] # 0
        PROVE  Ran(t'[turns'[k]]) /\ t'[turns'[k]].id = k
    <3>1. CASE k = id
      BY <1>4, <1>5, <1>10, <3>1
    <3>2. CASE k # id
      <4>1. turns'[k] = turns[k] /\ turns[k] \in Turns
        BY <1>1, <1>7, <1>10, <2>1, <3>2 DEF Gone, TypeOK, Turns
      <4>2. Ran(t[turns[k]]) /\ t[turns[k]].id = k
        BY <1>1, <2>1, <4>1 DEF MapInv
      <4> QED BY <1>5, <1>8, <4>1, <4>2
    <3> QED BY <3>1, <3>2
  <2>2. ASSUME NEW j \in Holders' PROVE turns'[t'[j].id] = j
    <3>1. CASE j = i
      BY <1>4, <1>5, <1>10, <3>1
    <3>2. CASE j # i
      <4>1. j \in Holders /\ j \in Turns /\ t'[j] = t[j] /\ t[j].pc # "unborn"
        BY <1>5, <1>9, <2>2, <3>2 DEF Holders, Holds, Ran
      <4>2. t[j].id \in TurnIds /\ t[j].id # id
        BY <1>6, <4>1, TurnFacts DEF StageInv, TurnState
      <4> QED BY <1>6, <1>10, <4>1, <4>2
    <3> QED BY <3>1, <3>2
  <2>3. ASSUME NEW j \in Turns, Completed(t'[j]) PROVE t'[j].id \in tomb'
    BY <1>1, <1>2, <1>4, <1>5, <2>3 DEF MapInv
  <2> QED BY <2>1, <2>2, <2>3 DEF MapInv
<1>14. PlaceInv'
  <2>1. \A j, k \in Turns : Ran(t'[j]) /\ Ran(t'[k]) /\ t'[j].id = t'[k].id => j = k
    BY <1>1, <1>4, <1>5, <1>6 DEF PlaceInv
  <2>2. \A j, k \in Holders' : SessionOf[t'[j].id] = SessionOf[t'[k].id] => j = k
    <3>1. \A j \in Holders : j \in Turns \ {i}
      BY <1>8 DEF Holders
    <3> QED BY <1>1, <1>4, <1>5, <1>6, <1>9, <3>1 DEF PlaceInv
  <2>3. Cardinality(Holders') <= MaxConcurrent
    <3>1. Cardinality(Holders \cup {i}) = Cardinality(Holders) + 1
      BY <1>6, <1>8, FS_AddElement
    <3>2. Cardinality(Holders) \in Nat
      BY <1>6, FS_CardinalityType
    <3> QED BY <1>6, <1>9, <3>1, <3>2, Constants
  <2> QED BY <2>1, <2>2, <2>3 DEF PlaceInv
<1>15. CheckpointInv'
  BY <1>1, <1>2, <1>3, <1>4, <1>5 DEF CheckpointInv
<1>16. \A j \in Turns : t'[j].frames = t[j].frames
  <2>1. t[i].frames = <<>>
    BY <1>2, UnbornFacts
  <2> QED BY <1>4, <1>5, <2>1
<1>17. ReaderInv'
  BY <1>1, <1>2, <1>16 DEF ReaderInv
<1>18. FramesStay
  <2>1. \A j \in Turns : t[j].frames \in Seq(Frame) /\ Ext(t[j].frames, t[j].frames)
    BY TurnFacts DEF TurnState
  <2>2. \A j \in Turns : IsPrefix(t[j].frames, t[j].frames)
    BY <2>1, ExtPrefix
  <2> QED BY <1>16, <2>2 DEF FramesStay
<1> QED BY <1>11, <1>12, <1>13, <1>14, <1>15, <1>17, <1>18 DEF AdapterInv

-----------------------------------------------------------------------------
(* The steps that leave every turn alone.                                  *)

LEMMA RestingTurns ==
  ASSUME AdapterInv, t' = t, asked' = asked, answered' = answered, resolved' = resolved,
         tomb' = tomb, Gone(t, turns, turns'),
         runtime' \in [Sessions -> [known: BOOLEAN, previous: Responses \cup {None}]],
         \A s \in Sessions : runtime'[s].previous \in resolved \cup {None},
         reader' \in [Turns -> [pos: 0..MaxEvents, idle: BOOLEAN, done: BOOLEAN]],
         ReaderInv'
  PROVE  AdapterInv' /\ FramesStay
<1>1. /\ TypeOK /\ \A j \in Turns : TurnInv(t[j], asked[j], answered[j])
      /\ MapInv /\ PlaceInv /\ CheckpointInv
  BY DEF AdapterInv
<1>2. TypeOK'
  BY <1>1 DEF TypeOK, Gone
<1>3. \A j \in Turns : TurnInv(t'[j], asked'[j], answered'[j])
  BY <1>1
<1>4. Holders' = Holders
  BY DEF Holders
<1>5. MapInv'
  <2>1. ASSUME NEW k \in TurnIds, turns'[k] # 0
        PROVE  Ran(t'[turns'[k]]) /\ t'[turns'[k]].id = k
    BY <1>1, <2>1 DEF Gone, MapInv
  <2>2. ASSUME NEW j \in Holders' PROVE turns'[t'[j].id] = j
    <3>1. j \in Turns /\ Holds(t[j]) /\ turns[t[j].id] = j /\ t[j].pc # "unborn"
      BY <1>1, <1>4, <2>2 DEF Holders, MapInv, Holds, Ran
    <3>2. t[j].id \in TurnIds
      BY <3>1, TurnFacts DEF StageInv, TurnState
    <3> QED BY <3>1, <3>2 DEF Gone, Holds
  <2>3. ASSUME NEW j \in Turns, Completed(t'[j]) PROVE t'[j].id \in tomb'
    BY <1>1, <2>3 DEF MapInv
  <2> QED BY <2>1, <2>2, <2>3 DEF MapInv
<1>6. PlaceInv'
  BY <1>1, <1>4 DEF PlaceInv
<1>7. CheckpointInv'
  BY <1>1 DEF CheckpointInv
<1>8. FramesStay
  <2>1. \A j \in Turns : t[j].frames \in Seq(Frame) /\ Ext(t[j].frames, t[j].frames)
    BY TurnFacts DEF TurnState
  <2>2. \A j \in Turns : IsPrefix(t[j].frames, t[j].frames)
    BY <2>1, ExtPrefix
  <2> QED BY <2>2 DEF FramesStay
<1> QED BY <1>2, <1>3, <1>5, <1>6, <1>7, <1>8 DEF AdapterInv

LEMMA MapGone ==
  ASSUME TypeOK
  PROVE  Gone(t, turns, turns)
BY DEF TypeOK, Gone

LEMMA PruneKeeps ==
  ASSUME AdapterInv, Prune
  PROVE  AdapterInv' /\ FramesStay
<1>1. TypeOK /\ CheckpointInv /\ ReaderInv
  BY DEF AdapterInv
<1>2. Gone(t, turns, turns')
  BY <1>1, PrunedGone DEF Prune, TypeOK
<1>3. ReaderInv'
  BY <1>1 DEF Prune, ReaderInv
<1> QED BY <1>1, <1>2, <1>3, RestingTurns DEF Prune, TypeOK, CheckpointInv

LEMMA RuntimeExpiresKeeps ==
  ASSUME AdapterInv, NEW s \in Sessions, RuntimeExpires(s)
  PROVE  AdapterInv' /\ FramesStay
<1>1. TypeOK /\ CheckpointInv /\ ReaderInv
  BY DEF AdapterInv
<1>2. UNCHANGED <<turns, t, tomb, asked, answered, resolved, reader>>
      /\ runtime' = [runtime EXCEPT ![s] = Forgotten]
  BY DEF RuntimeExpires
<1>3. Forgotten \in [known: BOOLEAN, previous: Responses \cup {None}] /\ Forgotten.previous = None
  BY DEF Forgotten
<1>4. /\ runtime' \in [Sessions -> [known: BOOLEAN, previous: Responses \cup {None}]]
      /\ \A u \in Sessions : runtime'[u].previous \in resolved \cup {None}
  BY <1>1, <1>2, <1>3 DEF TypeOK, CheckpointInv
<1>5. Gone(t, turns, turns') /\ ReaderInv'
  BY <1>1, <1>2, MapGone DEF ReaderInv
<1> QED BY <1>1, <1>2, <1>4, <1>5, RestingTurns DEF TypeOK

(* A turn that leaves its stream idle has ended or waits for a result.     *)
LEMMA IdleIsHonest ==
  ASSUME AdapterInv, NEW i \in Turns
  PROVE  /\ t[i].frames \in Seq(Frame) /\ Len(t[i].frames) \in 0..MaxEvents
         /\ StreamIdle(t[i]) => Honest(t[i].frames)
         /\ SubSeq(t[i].frames, 1, Len(t[i].frames)) = t[i].frames
<1> DEFINE fs == t[i].frames
<1>1. t[i] \in TurnState /\ fs \in Seq(Frame) /\ Len(fs) \in Nat /\ DOMAIN fs = 1..Len(fs)
  BY TurnFacts DEF TurnState
<1>2. SubSeq(fs, 1, Len(fs)) = fs
  BY <1>1, SubSeqProperties, SeqEqual
<1>3. CASE Completed(t[i])
  <2>1. Over(fs)
    BY <1>3, TurnFacts DEF ClosedInv
  <2>2. Len(fs) <= MaxEvents /\ fs # <<>>
    BY <2>1 DEF Over
  <2>3. Len(fs) \in DOMAIN fs
    BY <1>1, <2>2
  <2>4. LastOf(fs).type \in Terminal
    BY <2>1, <2>3 DEF Over, LastOf
  <2> QED BY <1>1, <1>2, <2>2, <2>4, Constants DEF Honest
<1>4. CASE ~Completed(t[i])
  <2>1. FrameInv(t[i]) /\ ControlInv(t[i], asked[i], answered[i])
    BY <1>4, TurnFacts
  <2>2. Len(fs) < MaxEvents
    BY <2>1 DEF FrameInv, Growing
  <2>3. ASSUME StreamIdle(t[i]) PROVE ~(Shown(fs, "call") \subseteq Shown(fs, "result"))
    <3>1. t[i].tools # {}
      BY <1>4, <2>1, <2>3 DEF StreamIdle, ControlInv
    <3> QED BY <2>1, <3>1 DEF FrameInv, Growing
  <2> QED BY <1>1, <1>2, <2>2, <2>3, Constants DEF Honest
<1> QED BY <1>3, <1>4

LEMMA ReadFramesKeeps ==
  ASSUME AdapterInv, NEW i \in Turns, ReadFrames(i)
  PROVE  AdapterInv' /\ FramesStay
<1>1. TypeOK /\ CheckpointInv /\ ReaderInv
  BY DEF AdapterInv
<1>2. /\ reader' = [reader EXCEPT ![i].pos = Len(t[i].frames), ![i].idle = StreamIdle(t[i])]
      /\ UNCHANGED <<turns, t, runtime, tomb, asked, answered, resolved>>
      /\ ~reader[i].done
  BY DEF ReadFrames
<1>3. /\ Len(t[i].frames) \in 0..MaxEvents /\ (StreamIdle(t[i]) => Honest(t[i].frames))
      /\ SubSeq(t[i].frames, 1, Len(t[i].frames)) = t[i].frames /\ Len(t[i].frames) \in Nat
  BY IdleIsHonest, Constants
<1>4. StreamIdle(t[i]) \in BOOLEAN
  BY TurnFacts DEF StreamIdle, Completed, TurnState
<1>5. PICK n, b : n = Len(t[i].frames) /\ b = StreamIdle(t[i])
  OBVIOUS
<1>6. /\ reader' = [reader EXCEPT ![i].pos = n, ![i].idle = b]
      /\ n \in 0..MaxEvents /\ b \in BOOLEAN
  BY <1>2, <1>3, <1>4, <1>5
<1>7. reader \in [Turns -> [pos: 0..MaxEvents, idle: BOOLEAN, done: BOOLEAN]]
  BY <1>1 DEF TypeOK
<1>8. /\ reader' \in [Turns -> [pos: 0..MaxEvents, idle: BOOLEAN, done: BOOLEAN]]
      /\ \A j \in Turns \ {i} : reader'[j] = reader[j]
      /\ reader'[i].pos = n /\ (reader'[i].idle => b) /\ (reader'[i].done => reader[i].done)
  BY <1>6, <1>7
<1>9. ReaderInv'
  <2> SUFFICES ASSUME NEW j \in Turns
               PROVE  /\ reader'[j].pos <= Len(t[j].frames)
                      /\ reader'[j].idle \/ reader'[j].done =>
                           Honest(SubSeq(t[j].frames, 1, reader'[j].pos))
    BY <1>2 DEF ReaderInv
  <2>1. CASE j = i
    <3>1. reader'[i].pos = Len(t[i].frames) /\ ~reader'[i].done
      BY <1>2, <1>5, <1>8
    <3>2. b => StreamIdle(t[i])
      BY <1>5, Zenon
    <3>3. reader'[i].idle => StreamIdle(t[i])
      BY <1>8, <3>2
    <3>4. reader'[i].idle => Honest(SubSeq(t[i].frames, 1, reader'[i].pos))
      BY <1>3, <3>1, <3>3
    <3>5. reader'[i].pos <= Len(t[i].frames)
      BY <1>3, <3>1
    <3> QED BY <2>1, <3>1, <3>4, <3>5
  <2>2. CASE j # i
    BY <1>1, <1>8, <2>2 DEF ReaderInv
  <2> QED BY <2>1, <2>2
<1>10. Gone(t, turns, turns')
  BY <1>1, <1>2, MapGone
<1> QED BY <1>1, <1>2, <1>8, <1>9, <1>10, RestingTurns DEF TypeOK, CheckpointInv

LEMMA ConfirmIdleKeeps ==
  ASSUME AdapterInv, NEW i \in Turns, ConfirmIdle(i)
  PROVE  AdapterInv' /\ FramesStay
<1>1. TypeOK /\ CheckpointInv /\ ReaderInv
  BY DEF AdapterInv
<1>2. /\ reader' = [reader EXCEPT ![i].idle = FALSE, ![i].done = StreamIdle(t[i])]
      /\ UNCHANGED <<turns, t, runtime, tomb, asked, answered, resolved>>
      /\ reader[i].idle
  BY DEF ConfirmIdle
<1>3. StreamIdle(t[i]) \in BOOLEAN
  BY TurnFacts DEF StreamIdle, Completed, TurnState
<1>4. PICK b \in BOOLEAN : b = StreamIdle(t[i])
  BY <1>3
<1>5. reader' = [reader EXCEPT ![i].idle = FALSE, ![i].done = b]
  BY <1>2, <1>4
<1>6. reader \in [Turns -> [pos: 0..MaxEvents, idle: BOOLEAN, done: BOOLEAN]]
  BY <1>1 DEF TypeOK
<1>7. /\ reader' \in [Turns -> [pos: 0..MaxEvents, idle: BOOLEAN, done: BOOLEAN]]
      /\ \A j \in Turns : reader'[j].pos = reader[j].pos
      /\ \A j \in Turns : reader'[j].idle \/ reader'[j].done => reader[j].idle \/ reader[j].done
  <2>1. /\ reader' \in [Turns -> [pos: 0..MaxEvents, idle: BOOLEAN, done: BOOLEAN]]
        /\ \A j \in Turns \ {i} : reader'[j] = reader[j]
        /\ reader'[i].pos = reader[i].pos
    BY <1>5, <1>6
  <2> QED BY <1>2, <2>1
<1>8. ReaderInv'
  BY <1>1, <1>2, <1>7 DEF ReaderInv
<1>9. Gone(t, turns, turns')
  BY <1>1, <1>2, MapGone
<1> QED BY <1>1, <1>2, <1>7, <1>8, <1>9, RestingTurns DEF TypeOK, CheckpointInv

LEMMA ReadAgainKeeps ==
  ASSUME AdapterInv, NEW i \in Turns, ReadAgain(i)
  PROVE  AdapterInv' /\ FramesStay
<1>1. TypeOK /\ CheckpointInv /\ ReaderInv
  BY DEF AdapterInv
<1>2. /\ reader' = [reader EXCEPT ![i].done = FALSE]
      /\ UNCHANGED <<turns, t, runtime, tomb, asked, answered, resolved>>
  BY DEF ReadAgain
<1>3. reader \in [Turns -> [pos: 0..MaxEvents, idle: BOOLEAN, done: BOOLEAN]]
  BY <1>1 DEF TypeOK
<1>4. /\ reader' \in [Turns -> [pos: 0..MaxEvents, idle: BOOLEAN, done: BOOLEAN]]
      /\ \A j \in Turns : reader'[j].pos = reader[j].pos
      /\ \A j \in Turns : reader'[j].idle \/ reader'[j].done => reader[j].idle \/ reader[j].done
  BY <1>2, <1>3
<1>5. ReaderInv'
  BY <1>1, <1>2, <1>4 DEF ReaderInv
<1>6. Gone(t, turns, turns')
  BY <1>1, <1>2, MapGone
<1> QED BY <1>1, <1>2, <1>4, <1>5, <1>6, RestingTurns DEF TypeOK, CheckpointInv

-----------------------------------------------------------------------------
(* The invariant.                                                          *)

LEMMA AdapterStarts ==
  ASSUME Init
  PROVE  AdapterInv
<1>1. /\ turns = [id \in TurnIds |-> 0] /\ t = [i \in Turns |-> Unborn]
      /\ runtime = [s \in Sessions |-> Forgotten] /\ tomb = {}
      /\ asked = [i \in Turns |-> {}] /\ answered = [i \in Turns |-> 0] /\ resolved = {}
      /\ reader = [i \in Turns |-> [pos |-> 0, idle |-> FALSE, done |-> FALSE]]
  BY DEF Init
<1>2. /\ Unborn \in TurnState /\ ~Completed(Unborn) /\ ~Ran(Unborn) /\ Unborn.frames = <<>>
      /\ Unborn.previous = None
  <2>1. /\ 0 \in 0..MaxRounds /\ 0 \in 0..MaxOutput /\ 0 \in 0..1 /\ 0 \in 0..MaxTurns
        /\ <<>> \in Seq(Frame) /\ {} \in SUBSET Calls /\ "unborn" \in Steps
    BY Constants DEF Steps
  <2>2. Unborn \in TurnState
    BY <2>1 DEF TurnState, Unborn
  <2> QED BY <2>2 DEF Unborn, Completed, Ran
<1>3. TurnInv(Unborn, {}, 0)
  <2>1. PICK y : y = Unborn
    OBVIOUS
  <2>2. /\ y.id = None /\ y.frames = <<>> /\ y.pc = "unborn" /\ y.initializing = FALSE
        /\ y.round = 0 /\ y.started = FALSE /\ y.text = 0 /\ y.pending = 0 /\ y.tools = {}
        /\ y.buffered = {} /\ y.submitted = {} /\ y.uncertain = FALSE /\ y.exposed = FALSE
        /\ y.waiting = FALSE /\ y.inFlight = 0 /\ y.end = 0
    BY <2>1 DEF Unborn
  <2>3. StageInv(y)
    BY <2>1, <2>2 DEF StageInv
  <2>4. FrameInv(y) /\ TextInv(y)
    <3>1. Growing(y.frames, y.submitted \cup y.tools, y.submitted)
      <4>1. y.submitted \cup y.tools = {}
        BY <2>2
      <4> QED BY <2>2, <4>1, AddStarted
    <3> QED BY <2>2, <3>1, EmptyShows DEF FrameInv, TextInv
  <2>5. ControlInv(y, {}, 0)
    BY <2>2, Constants DEF ControlInv
  <2>6. TurnInv(y, {}, 0)
    BY <1>2, <2>1, <2>2, <2>3, <2>4, <2>5 DEF TurnInv, OpenInv
  <2> QED BY <2>1, <2>6
<1>4. TypeOK
  <2>1. /\ Forgotten \in [known: BOOLEAN, previous: Responses \cup {None}]
        /\ [pos |-> 0, idle |-> FALSE, done |-> FALSE]
             \in [pos: 0..MaxEvents, idle: BOOLEAN, done: BOOLEAN]
        /\ 0 \in 0..MaxTurns /\ 0 \in 0..MaxRounds
    BY Constants DEF Forgotten
  <2> HIDE DEF Unborn, Forgotten
  <2> QED BY <1>1, <1>2, <2>1 DEF TypeOK
<1>5. \A i \in Turns : TurnInv(t[i], asked[i], answered[i])
  <2> HIDE DEF Unborn
  <2> QED BY <1>1, <1>3
<1>6. Holders = {}
  BY <1>1, <1>2 DEF Holders, Holds
<1>7. MapInv /\ PlaceInv
  <2>1. Cardinality(Holders) <= MaxConcurrent
    BY <1>6, FS_EmptySet, Constants
  <2> QED BY <1>1, <1>2, <1>6, <2>1 DEF MapInv, PlaceInv
<1>8. CheckpointInv
  BY <1>1, <1>2 DEF CheckpointInv, Forgotten
<1>9. ReaderInv
  <2>1. Len(<<>>) = 0
    OBVIOUS
  <2> QED BY <1>1, <1>2, <2>1 DEF ReaderInv
<1> QED BY <1>4, <1>5, <1>7, <1>8, <1>9 DEF AdapterInv

LEMMA AdapterSteps ==
  ASSUME AdapterInv, [Next]_adapterVars
  PROVE  AdapterInv' /\ FramesStay
<1>1. ASSUME NEW i \in Turns, Invocation(i) PROVE AdapterInv' /\ FramesStay
  <2>1. Moves(i)
    BY <1>1, SessionCreatedMoves, SessionFailsMoves, InitializedMoves, InvokeMoves,
       OnCreatedMoves, OnTextDeltaMoves, OnFunctionCallMoves, ReturnErrorMoves,
       ReturnCompletedMoves, ReturnEndedMoves DEF Invocation
  <2> QED BY <2>1, MovesKeep
<1>2. ASSUME NEW i \in Turns, Timers(i) PROVE AdapterInv' /\ FramesStay
  <2>1. Moves(i)
    BY <1>2, FlushTimerMoves, DeadlinePassesMoves, WatchDeadlineMoves, RetentionPassesMoves,
       CleanupTimerMoves DEF Timers
  <2> QED BY <2>1, MovesKeep
<1>3. ASSUME NEW i \in Turns, Requests(i) PROVE AdapterInv' /\ FramesStay
  <2>1. CASE (\E C \in SUBSET Calls : ContinueTurn(i, C)) \/ CancelTurn(i)
    <3>1. Moves(i)
      BY <2>1, ContinueTurnMoves, CancelTurnMoves
    <3> QED BY <3>1, MovesKeep
  <2> QED BY <1>3, <2>1, StartTurnKeeps, ReadFramesKeeps, ConfirmIdleKeeps, ReadAgainKeeps
          DEF Requests
<1>4. CASE UNCHANGED adapterVars
  <2>1. TypeOK /\ CheckpointInv /\ ReaderInv
    BY DEF AdapterInv
  <2>2. /\ t' = t /\ asked' = asked /\ answered' = answered /\ resolved' = resolved
        /\ tomb' = tomb /\ turns' = turns /\ runtime' = runtime /\ reader' = reader
    BY <1>4 DEF adapterVars
  <2>3. Gone(t, turns, turns') /\ ReaderInv'
    BY <2>1, <2>2, MapGone DEF ReaderInv
  <2> QED BY <2>1, <2>2, <2>3, RestingTurns DEF TypeOK, CheckpointInv
<1> QED BY <1>1, <1>2, <1>3, <1>4, PruneKeeps, RuntimeExpiresKeeps DEF Next

(* Whatever happens, the adapter is in a state its types allow; the frames *)
(* of every turn show what the turn recorded, a turn that is not done holds*)
(* its place, and what a session or a client was told stays true.          *)
THEOREM AdapterInvariant == Spec => []AdapterInv
<1>1. Init => AdapterInv
  BY AdapterStarts
<1>2. AdapterInv /\ [Next]_adapterVars => AdapterInv'
  BY AdapterSteps
<1> QED BY <1>1, <1>2, PTL DEF Spec

-----------------------------------------------------------------------------
(* What follows from the invariant.                                        *)

LEMMA ShapeHolds ==
  ASSUME AdapterInv
  PROVE  StreamShape
<1> SUFFICES ASSUME NEW i \in Turns
             PROVE  LET fs == t[i].frames IN
                    /\ Len(fs) <= MaxEvents
                    /\ \A k \in DOMAIN fs :
                         /\ fs[k].type = "started" <=> k = 1
                         /\ fs[k].type \in Terminal <=> Completed(t[i]) /\ k = Len(fs)
                         /\ fs[k].type = "result" => fs[k].n \in Shown(SubSeq(fs, 1, k - 1), "call")
                    /\ Once(fs, "call") /\ Once(fs, "result")
                    /\ Completed(t[i]) => fs # <<>>
                    /\ Completed(t[i]) /\ LastOf(fs).type = "completed" =>
                         LastOf(fs).n = OutputOf(fs) /\ Shown(fs, "call") = Shown(fs, "result")
  BY DEF StreamShape
<1> DEFINE fs == t[i].frames
<1>1. Len(fs) \in 0..MaxEvents
  BY IdleIsHonest
<1>2. CASE Completed(t[i])
  <2>1. Over(fs)
    BY <1>2, TurnFacts DEF ClosedInv
  <2> HIDE DEF fs
  <2> QED BY <1>1, <1>2, <2>1, Constants DEF Over, Ordered, FrameAt, fs
<1>3. CASE ~Completed(t[i])
  <2>1. Growing(fs, t[i].submitted \cup t[i].tools, t[i].submitted)
    BY <1>3, TurnFacts DEF FrameInv
  <2>2. Ordered(fs) /\ \A k \in DOMAIN fs : fs[k].type \notin Terminal
    BY <2>1 DEF Growing
  <2> HIDE DEF fs
  <2> QED BY <1>1, <1>3, <2>2, Constants DEF Ordered, FrameAt, fs
<1> QED BY <1>2, <1>3

LEMMA AdmissionHolds ==
  ASSUME AdapterInv
  PROVE  AdmissionIsSound
<1> DEFINE R == {i \in Turns : t[i].pc \in {"invoking", "failing"}}
<1>1. PlaceInv /\ TypeOK
  BY DEF AdapterInv
<1>2. ASSUME NEW i \in Turns, t[i].round > 0 PROVE Ran(t[i])
  <2>1. StageInv(t[i])
    BY TurnFacts
  <2> QED BY <1>2, <2>1 DEF StageInv, Ran, Dead
<1>3. OneRunPerId
  BY <1>1, <1>2 DEF OneRunPerId, PlaceInv
<1>4. R \subseteq Holders
  <2> SUFFICES ASSUME NEW i \in Turns, t[i].pc \in {"invoking", "failing"} PROVE Holds(t[i])
    BY DEF Holders
  <2>1. StageInv(t[i])
    BY TurnFacts
  <2> QED BY <2>1 DEF StageInv, Holds, Ran, Dead
<1>5. IsFiniteSet(Holders)
  BY Constants, FS_Subset DEF Holders
<1>6. IsFiniteSet(R) /\ Cardinality(R) <= Cardinality(Holders)
  BY <1>4, <1>5, FS_Subset
<1>7. Cardinality(R) \in Nat /\ Cardinality(Holders) \in Nat
  BY <1>5, <1>6, FS_CardinalityType
<1>8. Cardinality(R) <= MaxConcurrent
  BY <1>1, <1>6, <1>7, Constants DEF PlaceInv
<1>9. \A i, j \in R : SessionOf[t[i].id] = SessionOf[t[j].id] => i = j
  <2> HIDE DEF R
  <2> QED BY <1>1, <1>4 DEF PlaceInv
<1>10. RequestsAreBounded
  BY <1>8, <1>9 DEF RequestsAreBounded
<1> QED BY <1>3, <1>10 DEF AdmissionIsSound

(* The state of the adapter keeps its types: limits on rounds, text and    *)
(* stored frames hold in every field that the code bounds.                 *)
THEOREM AdapterTypes == Spec => []TypeOK
<1>1. AdapterInv => TypeOK
  BY DEF AdapterInv
<1> QED BY <1>1, AdapterInvariant, PTL

(* startTurn admits a turn only if no other holds its session's place: at  *)
(* most one request is with the provider for a session, MaxConcurrent in   *)
(* all, and a turn id runs once although turns are pruned and ids retried. *)
THEOREM AdmissionStaysSound == Spec => []AdmissionIsSound
<1>1. AdapterInv => AdmissionIsSound
  BY AdmissionHolds
<1> QED BY <1>1, AdapterInvariant, PTL

(* recordRuntimeSessionLocked: the next turn of a session continues from a *)
(* response that completed and left no call open.                          *)
THEOREM CheckpointStaysResolved == Spec => []CheckpointIsResolved
<1>1. AdapterInv => CheckpointIsResolved
  BY DEF AdapterInv, CheckpointInv, CheckpointIsResolved
<1> QED BY <1>1, AdapterInvariant, PTL

(* prepareContinuationLocked: a turn goes on with results for exactly the  *)
(* calls of the response before it.                                        *)
THEOREM OutputsAlwaysAnswer == Spec => []OutputsAnswerCalls
<1>1. AdapterInv => OutputsAnswerCalls
  BY DEF AdapterInv, TurnInv, OutputsAnswerCalls
<1> QED BY <1>1, AdapterInvariant, PTL

(* finishFailedLocked: a turn is marked retryable only when the provider   *)
(* answered every invocation and no call of a writing tool was shown.      *)
THEOREM RetryStaysSafe == Spec => []RetryIsSafe
<1>1. AdapterInv => RetryIsSafe
  BY DEF AdapterInv, TurnInv, ClosedInv, RetryIsSafe
<1> QED BY <1>1, AdapterInvariant, PTL

(* streamEvents: a stream says that it is done only after the end of the   *)
(* turn, or a call without its result, was written to it.                  *)
THEOREM StreamDoneStaysHonest == Spec => []StreamDoneIsHonest
<1>1. ASSUME AdapterInv PROVE StreamDoneIsHonest
  <2>1. ReaderInv /\ Watched \subseteq Turns
    BY <1>1, Constants DEF AdapterInv
  <2> QED BY <2>1 DEF ReaderInv, Honest, StreamDoneIsHonest
<1> QED BY <1>1, AdapterInvariant, PTL

(* What was stored as a turn's event stays, nothing follows the end of a   *)
(* turn, and every stream keeps its shape: its bound, its one start, its   *)
(* end, calls before their results, and the text of a turn that completes. *)
THEOREM StreamsStaySound == Spec => StreamsAreSound
<1>1. AdapterInv => StreamShape
  BY ShapeHolds
<1>2. AdapterInv /\ [Next]_adapterVars => AdapterInv' /\ FramesStay
  BY AdapterSteps
<1>3. AdapterInv' => StreamShape'
  BY <1>1, PTL
<1>4. AdapterInv /\ [Next]_adapterVars => [FramesStay /\ StreamShape']_adapterVars
  BY <1>2, <1>3
<1> QED BY <1>4, AdapterInvariant, PTL DEF Spec, StreamsAreSound
=============================================================================
