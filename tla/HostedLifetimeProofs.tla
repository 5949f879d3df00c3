------------------------ MODULE HostedLifetimeProofs ------------------------
(***************************************************************************)
(* The safety of HostedLifetime for any number of gateway and wrapper      *)
(* processes: its inductive invariant, one exposure and one supervisor per *)
(* deployment, one creation, and relays that outlive a shutdown.           *)
(***************************************************************************)
EXTENDS HostedLifetime, TLAPS

(* Where the gateway has not recorded an exposure yet, where it has, and   *)
(* where it knows that the session was asked for.                          *)
Unexposed == {"session", "create", "creating", "dialForward", "dialReverse",
              "helloForward", "ackForward", "helloReverse", "ackReverse", "expose"}
Recorded == {"seed", "awaitReady", "capabilities", "markReady", "ready"}
Dialed == {"helloForward", "ackForward", "helloReverse", "ackReverse", "expose"} \cup Recorded
Requested == {"create", "dialForward", "dialReverse"} \cup Dialed

(* The gateway's ledger and the file agree until a save fails, and on the  *)
(* exposure also after that.                                               *)
GatewayInv ==
  /\ gw.pc # "down" => gw.attempt # 0
  /\ gw.pc \notin {"down", "closing"} => gw.ledger = file
  /\ gw.pc \in Unexposed => file.exposed = 0
  /\ gw.pc \in Recorded => file.exposed = gw.boot /\ file.pair = gw.attempt
  /\ gw.ledger.exposed # 0 =>
       /\ file.exposed = gw.ledger.exposed /\ file.pair = gw.ledger.pair
       /\ gw.ledger.attempted
  /\ gw.pc \in Requested => gw.ledger.attempted
  /\ gw.pc = "ready" => file.ready

(* A creation that may be under way was recorded before it was sent.       *)
SessionInv ==
  /\ session \in {"creating", "active"} => file.attempted
  /\ gw.pc = "create" => session \in {"absent", "refused"}

(* The channels of attempts to come, and those of this one that it has not *)
(* opened yet, are unopened.                                               *)
Untouched(a, r) ==
  \/ a > gw.attempt
  \/ a = gw.attempt /\ gw.pc \in {"session", "create", "creating", "dialForward"}
  \/ a = gw.attempt /\ gw.pc = "dialReverse" /\ r = "reverse"

ChannelInv ==
  /\ \A a \in Attempts, r \in Roles :
       /\ Untouched(a, r) => conn[a][r].boot = 0 /\ conn[a][r].sent = "none"
       /\ conn[a][r].sent # "none" => conn[a][r].boot # 0
  /\ gw.pc = "dialReverse" => gw.boot # 0 /\ conn[gw.attempt]["forward"].boot = gw.boot
  /\ gw.pc \in Dialed => gw.boot # 0 /\ \A r \in Roles : conn[gw.attempt][r].boot = gw.boot

(* What a wrapper claimed was opened to it, and what it started came from  *)
(* the bootstrap of its pair.                                              *)
WrapperInv ==
  \A b \in Boots :
    /\ \A r \in wr[b].claimed : conn[wr[b].pair][r].boot = b
    /\ wr[b].bootstrap =>
         "forward" \in wr[b].acked /\ conn[wr[b].pair]["forward"].sent = "bootstrap"
    /\ wr[b].supervisor # "none" =>
         /\ wr[b].pair # 0 /\ conn[wr[b].pair]["forward"].sent = "bootstrap"
         /\ \A r \in Roles : conn[wr[b].pair][r].boot = b
    /\ wr[b].left # {} => wr[b].running

(* A gateway that saw the capabilities saw a healthy supervisor.           *)
HealthInv ==
  gw.pc \in {"markReady", "ready"} => wr[gw.boot].supervisor \notin {"none", "starting"}

HostedInv ==
  /\ TypeOK /\ GatewayInv /\ SessionInv /\ ChannelInv /\ WrapperInv /\ HealthInv
  /\ ExposureIsRecorded

-----------------------------------------------------------------------------
(* What the steps leave alone.                                             *)

(* Only dialling and sending change where a channel goes and what the      *)
(* gateway wrote to it.                                                    *)
SameCalls ==
  \A a \in Attempts, r \in Roles :
    conn'[a][r].boot = conn[a][r].boot /\ conn'[a][r].sent = conn[a][r].sent

(* The invariants of the gateway, its calls and its record survive a step  *)
(* of somebody else that keeps them.                                       *)
LEMMA OthersKeepGateway ==
  ASSUME HostedInv, UNCHANGED <<gw, file, session>>, SameCalls
  PROVE  GatewayInv' /\ SessionInv' /\ ChannelInv' /\ ExposureIsRecorded'
<1>1. GatewayInv' /\ SessionInv'
  BY DEF HostedInv, GatewayInv, SessionInv
<1>2. gw.pc \in Dialed \cup {"dialReverse"} => gw.attempt \in Attempts
  BY HostedAssumption DEF HostedInv, GatewayInv, TypeOK, Dialed, Recorded, Attempts
<1>3. ChannelInv'
  BY <1>2 DEF HostedInv, ChannelInv, SameCalls, Untouched, Roles
<1>4. ExposureIsRecorded'
  BY DEF HostedInv, ExposureIsRecorded, SameCalls, Roles
<1>5. QED
  BY <1>1, <1>3, <1>4

(* A step that leaves the wrappers and the channels they use alone keeps   *)
(* their invariant.                                                        *)
LEMMA OthersKeepWrappers ==
  ASSUME HostedInv, UNCHANGED wr,
         \A a \in Attempts :
           /\ \A r \in Roles : conn[a][r].boot # 0 => conn'[a][r].boot = conn[a][r].boot
           /\ conn[a]["forward"].sent = "bootstrap" => conn'[a]["forward"].sent = "bootstrap"
  PROVE  WrapperInv'
<1>1. ASSUME NEW b \in Boots
      PROVE  /\ wr[b].pair \in Attempts \cup {0}
             /\ wr[b].claimed # {} => wr[b].pair # 0
             /\ wr[b].claimed \subseteq Roles
             /\ wr[b].acked \subseteq wr[b].claimed
             /\ b # 0
  BY HostedAssumption DEF HostedInv, TypeOK, Wrapper, Attempts, Boots
<1>2. "forward" \in Roles
  BY DEF Roles
<1>3. QED
  BY <1>1, <1>2 DEF HostedInv, WrapperInv

LEMMA ForwardIsRole == "forward" \in Roles
BY DEF Roles

(* Writing one field of one channel.                                       *)
LEMMA ChannelWritten ==
  ASSUME TypeOK, NEW a \in Attempts, NEW r \in Roles, NEW c \in Channel,
         conn' = [conn EXCEPT ![a][r] = c]
  PROVE  /\ conn' \in [Attempts -> [Roles -> Channel]]
         /\ \A x \in Attempts, q \in Roles :
              conn'[x][q] = IF x = a /\ q = r THEN c ELSE conn[x][q]
BY DEF TypeOK

LEMMA ChannelFields ==
  ASSUME NEW c \in Channel
  PROVE  /\ \A m \in {"none", "hello", "bootstrap"} :
              /\ [c EXCEPT !.sent = m] \in Channel /\ [c EXCEPT !.sent = m].sent = m
              /\ [c EXCEPT !.sent = m].boot = c.boot
         /\ \A m \in {"none", "ack", "ready"} :
              /\ [c EXCEPT !.answer = m] \in Channel
              /\ [c EXCEPT !.answer = m].boot = c.boot /\ [c EXCEPT !.answer = m].sent = c.sent
         /\ \A v \in BOOLEAN :
              /\ [c EXCEPT !.gateway = v] \in Channel
              /\ [c EXCEPT !.gateway = v].boot = c.boot /\ [c EXCEPT !.gateway = v].sent = c.sent
              /\ [c EXCEPT !.wrapper = v] \in Channel
              /\ [c EXCEPT !.wrapper = v].boot = c.boot /\ [c EXCEPT !.wrapper = v].sent = c.sent
BY DEF Channel

-----------------------------------------------------------------------------
(* The steps of the gateway.                                               *)

LEMMA GatewayTyped ==
  ASSUME HostedInv
  PROVE  /\ gw.pc \in GatewaySteps /\ gw.attempt \in 0..MaxAttempts /\ gw.boot \in 0..MaxWrappers
         /\ gw.ledger \in Ledger /\ file \in Ledger
         /\ gw = [pc |-> gw.pc, attempt |-> gw.attempt, ledger |-> gw.ledger, boot |-> gw.boot]
         /\ gw.pc # "down" => gw.attempt \in Attempts
BY HostedAssumption DEF HostedInv, GatewayInv, TypeOK, Attempts

(* A step that only moves the gateway on, or may save what it recorded.    *)
Saving(next, pc) ==
  /\ UNCHANGED <<session, conn, wr>> /\ next \in Ledger /\ pc \in GatewaySteps
  /\ SaveAnd(next, pc)

(* A step from here to there that records next keeps the invariant.        *)
MayMove(next, pc) ==
  /\ gw.pc \notin {"down", "closing"} /\ pc \notin {"down", "dialReverse"}
  /\ next.exposed = file.exposed /\ next.pair = file.pair
  /\ next.attempted \/ (session \notin {"creating", "active"} /\ next.exposed = 0)
  /\ pc = "create" => session \in {"absent", "refused"}
  /\ pc \in Requested => next.attempted
  /\ pc = "ready" => next.ready
  /\ pc \in Unexposed => gw.pc \in Unexposed
  /\ pc \in Recorded => gw.pc \in Recorded
  /\ pc \in Dialed => gw.pc \in Dialed
  /\ pc \in {"session", "create", "creating", "dialForward"} =>
       gw.pc \in {"session", "create", "creating", "dialForward"}
  /\ pc \in {"markReady", "ready"} => wr[gw.boot].supervisor \notin {"none", "starting"}

LEMMA SavingKeeps ==
  ASSUME HostedInv, NEW next, NEW pc, Saving(next, pc), MayMove(next, pc)
  PROVE  HostedInv'
<1> USE DEF MayMove
<1>1. /\ file' \in {file, next} /\ gw'.attempt = gw.attempt /\ gw'.boot = gw.boot
      /\ \/ file' = next /\ gw'.ledger = next /\ gw'.pc = pc
         \/ gw'.ledger = gw.ledger /\ gw'.pc = "closing"
  BY GatewayTyped DEF Saving, SaveAnd, Goto
<1>2. gw.ledger = file
  BY DEF HostedInv, GatewayInv
<1>3. TypeOK'
  BY GatewayTyped DEF HostedInv, TypeOK, Saving, SaveAnd, Goto, GatewaySteps
<1>4. GatewayInv'
  BY <1>1, <1>2, GatewayTyped DEF HostedInv, GatewayInv, Unexposed, Recorded, Requested, Dialed
<1>5. SessionInv'
  BY <1>1, <1>2 DEF HostedInv, SessionInv, Saving
<1>6. ChannelInv'
  BY <1>1 DEF HostedInv, ChannelInv, Untouched, Saving, Dialed, Recorded
<1>7. WrapperInv'
  BY OthersKeepWrappers DEF Saving
<1>8. HealthInv'
  BY <1>1 DEF HostedInv, HealthInv, Saving
<1>9. ExposureIsRecorded'
  BY <1>1 DEF HostedInv, ExposureIsRecorded, Saving
<1>10. QED
  BY <1>3, <1>4, <1>5, <1>6, <1>7, <1>8, <1>9 DEF HostedInv

LEMMA SavesKeep ==
  ASSUME HostedInv,
         CreateIntent \/ CreateRejected \/ CreateAcknowledged \/ MarkReady
  PROVE  HostedInv'
<1>1. gw.pc \notin {"down", "closing"} => gw.ledger = file
  BY DEF HostedInv, GatewayInv
<1> USE DEF Unexposed, Recorded, Dialed, Requested, GatewaySteps
<1>2. CASE CreateIntent
  <2> DEFINE next == [gw.ledger EXCEPT !.attempted = TRUE]
  <2>1. Saving(next, "create")
    BY <1>2, GatewayTyped DEF CreateIntent, Saving, Ledger
  <2>2. session \in {"absent", "refused"}
    BY <1>1, <1>2 DEF CreateIntent, MayCreate, HostedInv, SessionInv, TypeOK, SessionStatus
  <2>3. next.exposed = file.exposed /\ next.pair = file.pair /\ next.attempted
    BY <1>1, <1>2, GatewayTyped DEF CreateIntent, Ledger
  <2> HIDE DEF next
  <2>4. MayMove(next, "create")
    BY <1>2, <2>2, <2>3 DEF MayMove, CreateIntent
  <2>5. QED
    BY <2>1, <2>4, SavingKeeps
<1>3. CASE CreateRejected
  <2> DEFINE next == [gw.ledger EXCEPT !.attempted = FALSE]
  <2>1. Saving(next, "closing")
    BY <1>3, GatewayTyped DEF CreateRejected, Saving, Ledger
  <2>2. next.exposed = file.exposed /\ next.pair = file.pair /\ next.exposed = 0
    BY <1>1, <1>3, GatewayTyped DEF CreateRejected, Ledger, HostedInv, GatewayInv
  <2> HIDE DEF next
  <2>3. MayMove(next, "closing")
    BY <1>3, <2>2 DEF MayMove, CreateRejected
  <2>4. QED
    BY <2>1, <2>3, SavingKeeps
<1>4. CASE CreateAcknowledged
  <2> DEFINE next == [gw.ledger EXCEPT !.created = TRUE]
  <2>1. Saving(next, "dialForward")
    BY <1>4, GatewayTyped DEF CreateAcknowledged, Saving, Ledger
  <2>2. next.exposed = file.exposed /\ next.pair = file.pair /\ next.attempted
    BY <1>1, <1>4, GatewayTyped DEF CreateAcknowledged, Ledger, HostedInv, SessionInv
  <2> HIDE DEF next
  <2>3. MayMove(next, "dialForward")
    BY <1>4, <2>2 DEF MayMove, CreateAcknowledged
  <2>4. QED
    BY <2>1, <2>3, SavingKeeps
<1>5. CASE MarkReady
  <2> DEFINE next == [gw.ledger EXCEPT !.ready = TRUE]
  <2>1. Saving(next, "ready")
    BY <1>5, GatewayTyped DEF MarkReady, Saving, Ledger
  <2>2. next.exposed = file.exposed /\ next.pair = file.pair /\ next.attempted /\ next.ready
    BY <1>1, <1>5, GatewayTyped DEF MarkReady, Ledger, HostedInv, GatewayInv
  <2> HIDE DEF next
  <2>3. MayMove(next, "ready")
    BY <1>5, <2>2 DEF MayMove, MarkReady, HostedInv, HealthInv
  <2>4. QED
    BY <2>1, <2>3, SavingKeeps
<1>6. QED
  BY <1>2, <1>3, <1>4, <1>5

(* Possible exposure is recorded once: before it no bootstrap was sent.    *)
LEMMA ExposeKeeps ==
  ASSUME HostedInv, Expose
  PROVE  HostedInv'
<1>1. /\ gw.ledger = file /\ file.exposed = 0 /\ gw.ledger.attempted
      /\ gw.boot # 0 /\ gw.attempt # 0 /\ gw.pc = "expose"
  BY DEF Expose, HostedInv, GatewayInv, ChannelInv, Unexposed, Requested, Dialed
<1>2. /\ Exposed(gw.ledger) \in Ledger
      /\ Exposed(gw.ledger).exposed = gw.boot /\ Exposed(gw.ledger).pair = gw.attempt
      /\ Exposed(gw.ledger).attempted
  BY <1>1, GatewayTyped DEF Exposed, Ledger
<1>3. /\ file' \in {file, Exposed(gw.ledger)} /\ gw'.attempt = gw.attempt /\ gw'.boot = gw.boot
      /\ \/ file' = Exposed(gw.ledger) /\ gw'.ledger = Exposed(gw.ledger) /\ gw'.pc = "seed"
         \/ gw'.ledger = gw.ledger /\ gw'.pc = "closing"
      /\ UNCHANGED <<session, conn, wr>>
  BY GatewayTyped DEF Expose, SaveAnd, Goto
<1>4. ASSUME NEW a \in Attempts PROVE conn[a]["forward"].sent # "bootstrap"
  BY <1>1, HostedAssumption DEF HostedInv, ExposureIsRecorded, ChannelInv, Roles
<1>5. TypeOK'
  BY <1>2, GatewayTyped DEF HostedInv, TypeOK, Expose, SaveAnd, Goto, GatewaySteps
<1>6. GatewayInv'
  BY <1>1, <1>2, <1>3 DEF HostedInv, GatewayInv, Unexposed, Recorded, Requested, Dialed
<1>7. SessionInv'
  BY <1>1, <1>2, <1>3 DEF HostedInv, SessionInv
<1>8. ChannelInv'
  BY <1>1, <1>3 DEF HostedInv, ChannelInv, Untouched, Dialed, Recorded
<1>9. WrapperInv'
  BY <1>3, OthersKeepWrappers
<1>10. HealthInv' /\ ExposureIsRecorded'
  BY <1>3, <1>4 DEF HealthInv, ExposureIsRecorded
<1>11. QED
  BY <1>5, <1>6, <1>7, <1>8, <1>9, <1>10 DEF HostedInv

(* A step that only moves on is one that saves the ledger it has.          *)
LEMMA MovesKeep ==
  ASSUME HostedInv,
         SessionKnown \/ ReadAck \/ ReadReady \/ CheckCapabilities
         \/ InitializationFails \/ LeaveReady
  PROVE  HostedInv'
<1>1. ASSUME NEW pc \in GatewaySteps, Goto(pc), UNCHANGED <<file, session, conn, wr>>,
             gw.pc \notin {"down", "closing"}, pc \notin {"down", "dialReverse", "create"},
             pc \in Requested => gw.pc \in Requested \/ session = "active",
             pc = "ready" => gw.pc = "ready",
             pc \in Unexposed => gw.pc \in Unexposed,
             pc \in Recorded => gw.pc \in Recorded,
             pc \in Dialed => gw.pc \in Dialed,
             pc \in {"session", "create", "creating", "dialForward"} =>
               gw.pc \in {"session", "create", "creating", "dialForward"},
             pc \in {"markReady", "ready"} => wr[gw.boot].supervisor \notin {"none", "starting"}
      PROVE  HostedInv'
  <2>1. gw.ledger = file
    BY <1>1 DEF HostedInv, GatewayInv
  <2>2. Saving(gw.ledger, pc)
    BY <1>1, <2>1, GatewayTyped DEF Saving, SaveAnd, Goto
  <2>3. gw.ledger.attempted \/ (session \notin {"creating", "active"} /\ gw.ledger.exposed = 0)
    BY <2>1 DEF HostedInv, GatewayInv, SessionInv
  <2>4. pc \in Requested => gw.ledger.attempted
    BY <1>1, <2>1 DEF HostedInv, GatewayInv, SessionInv
  <2>5. pc = "ready" => gw.ledger.ready
    BY <1>1, <2>1 DEF HostedInv, GatewayInv
  <2>6. MayMove(gw.ledger, pc)
    BY <1>1, <2>1, <2>3, <2>4, <2>5 DEF MayMove
  <2>7. QED
    BY <2>2, <2>6, SavingKeeps
<1> USE DEF Unexposed, Recorded, Dialed, Requested, GatewaySteps
<1>2. CASE SessionKnown
  BY <1>1, <1>2 DEF SessionKnown
<1>3. CASE ReadAck
  BY <1>1, <1>3 DEF ReadAck, Reads
<1>4. CASE ReadReady
  BY <1>1, <1>4 DEF ReadReady, Reads
<1>5. CASE CheckCapabilities
  BY <1>1, <1>5 DEF CheckCapabilities
<1>6. CASE InitializationFails
  BY <1>1, <1>6, GatewayTyped DEF InitializationFails
<1>7. CASE LeaveReady
  BY <1>1, <1>7 DEF LeaveReady
<1>8. QED
  BY <1>2, <1>3, <1>4, <1>5, <1>6, <1>7

(* The creation that is sent is the one that was recorded.                 *)
LEMMA SendCreateKeeps ==
  ASSUME HostedInv, SendCreate
  PROVE  HostedInv'
<1>1. /\ gw.pc = "create" /\ gw.ledger = file /\ file.attempted
      /\ gw'.pc = "creating" /\ gw'.ledger = gw.ledger
      /\ gw'.attempt = gw.attempt /\ gw'.boot = gw.boot /\ UNCHANGED <<file, conn, wr>>
  BY GatewayTyped DEF SendCreate, Goto, HostedInv, GatewayInv, Requested
<1>2. TypeOK'
  BY GatewayTyped DEF HostedInv, TypeOK, SendCreate, Goto, GatewaySteps, SessionStatus
<1>3. GatewayInv'
  BY <1>1 DEF HostedInv, GatewayInv, Unexposed, Recorded, Requested, Dialed
<1>4. SessionInv'
  BY <1>1 DEF SessionInv
<1>5. ChannelInv'
  BY <1>1 DEF HostedInv, ChannelInv, Untouched, Dialed, Recorded
<1>6. WrapperInv'
  BY <1>1, OthersKeepWrappers
<1>7. HealthInv' /\ ExposureIsRecorded'
  BY <1>1 DEF HostedInv, HealthInv, ExposureIsRecorded
<1>8. QED
  BY <1>2, <1>3, <1>4, <1>5, <1>6, <1>7 DEF HostedInv

(* A new process starts from the file, and has no channels.                *)
LEMMA StartKeeps ==
  ASSUME HostedInv, StartGateway
  PROVE  HostedInv'
<1>1. /\ gw'.pc = "session" /\ gw'.ledger = file /\ gw'.attempt = gw.attempt + 1
      /\ gw'.boot = 0 /\ UNCHANGED <<file, session, conn, wr>>
      /\ gw.pc = "down" /\ file.exposed = 0
  BY DEF StartGateway, MayStart
<1>2. TypeOK'
  BY <1>1, GatewayTyped, HostedAssumption DEF HostedInv, TypeOK, StartGateway, GatewaySteps
<1>3. GatewayInv'
  BY <1>1, GatewayTyped, HostedAssumption
     DEF HostedInv, GatewayInv, Unexposed, Recorded, Requested, Dialed
<1>4. SessionInv'
  BY <1>1 DEF HostedInv, SessionInv
<1>5. ChannelInv'
  <2>1. \A a \in Attempts, r \in Roles : Untouched(a, r)' => Untouched(a, r)
    BY <1>1, GatewayTyped, HostedAssumption DEF Untouched, Attempts
  <2>2. QED
    BY <1>1, <2>1 DEF HostedInv, ChannelInv, Dialed, Recorded
<1>6. WrapperInv'
  BY <1>1, OthersKeepWrappers
<1>7. HealthInv' /\ ExposureIsRecorded'
  BY <1>1 DEF HostedInv, HealthInv, ExposureIsRecorded
<1>8. QED
  BY <1>2, <1>3, <1>4, <1>5, <1>6, <1>7 DEF HostedInv

(* A message is written to an opened channel, and a bootstrap only after   *)
(* its exposure was recorded.                                              *)
LEMMA SendsKeep ==
  ASSUME HostedInv, SendHello \/ Seed
  PROVE  HostedInv'
<1>1. ASSUME NEW r \in Roles, NEW m \in {"hello", "bootstrap"}, NEW to,
             conn' = [conn EXCEPT ![gw.attempt][r].sent = m], Goto(to),
             UNCHANGED <<file, session, wr>>,
             gw.pc \in Dialed, to \in Dialed,
             to \in Unexposed => gw.pc \in Unexposed,
             to \in Recorded <=> gw.pc \in Recorded, to \notin {"markReady", "ready"},
             m = "bootstrap" <=> gw.pc = "seed", m = "bootstrap" => r = "forward",
             m = "hello" => gw.pc \in Unexposed
      PROVE  HostedInv'
  <2>1. /\ gw.attempt \in Attempts /\ gw.boot # 0
        /\ conn[gw.attempt][r].boot = gw.boot /\ conn[gw.attempt]["forward"].boot = gw.boot
    BY <1>1, GatewayTyped DEF HostedInv, ChannelInv, Roles, Dialed, Recorded
  <2>2. /\ gw'.pc = to /\ gw'.attempt = gw.attempt /\ gw'.boot = gw.boot
        /\ gw'.ledger = gw.ledger
    BY <1>1, GatewayTyped DEF Goto
  <2>3. /\ conn[gw.attempt][r] \in Channel
        /\ conn' = [conn EXCEPT ![gw.attempt][r] = [conn[gw.attempt][r] EXCEPT !.sent = m]]
    BY <1>1, <2>1 DEF HostedInv, TypeOK
  <2>4. /\ conn' \in [Attempts -> [Roles -> Channel]]
        /\ \A a \in Attempts, q \in Roles :
             /\ conn'[a][q].boot = conn[a][q].boot
             /\ conn'[a][q].sent = IF a = gw.attempt /\ q = r THEN m ELSE conn[a][q].sent
    <3> DEFINE c == [conn[gw.attempt][r] EXCEPT !.sent = m]
    <3>1. c \in Channel /\ c.boot = conn[gw.attempt][r].boot /\ c.sent = m
      BY <1>1, <2>3 DEF Channel
    <3>2. conn' = [conn EXCEPT ![gw.attempt][r] = c]
      BY <2>3
    <3> HIDE DEF c
    <3>3. /\ conn' \in [Attempts -> [Roles -> Channel]]
          /\ \A a \in Attempts, q \in Roles :
               conn'[a][q] = IF a = gw.attempt /\ q = r THEN c ELSE conn[a][q]
      BY <2>1, <3>1, <3>2, ChannelWritten DEF HostedInv
    <3>4. QED
      BY <2>1, <3>1, <3>3
  <2>5. m = "hello" => conn[gw.attempt]["forward"].sent # "bootstrap"
    BY <1>1, <2>1 DEF HostedInv, ExposureIsRecorded, GatewayInv
  <2>6. TypeOK'
    BY <1>1, <2>2, <2>4, GatewayTyped DEF HostedInv, TypeOK, Goto, GatewaySteps, Dialed, Recorded
  <2>7. GatewayInv'
    BY <1>1, <2>2 DEF HostedInv, GatewayInv, Unexposed, Recorded, Requested, Dialed
  <2>8. SessionInv'
    BY <1>1, <2>2 DEF HostedInv, SessionInv, Dialed, Recorded
  <2>9. ChannelInv'
    BY <1>1, <2>1, <2>2, <2>4 DEF HostedInv, ChannelInv, Untouched, Dialed, Recorded
  <2>10. HealthInv'
    BY <1>1, <2>2 DEF HealthInv
  <2>11. ExposureIsRecorded'
    BY <1>1, <2>1, <2>4 DEF HostedInv, ExposureIsRecorded, GatewayInv, Recorded, Roles
  <2>12. WrapperInv'
    <3>1. ASSUME NEW a \in Attempts, conn[a]["forward"].sent = "bootstrap"
          PROVE  conn'[a]["forward"].sent = "bootstrap"
      BY <1>1, <2>4, <2>5, <3>1 DEF Roles
    <3>2. QED
      BY <1>1, <2>4, <3>1, OthersKeepWrappers
  <2>13. QED
    BY <2>6, <2>7, <2>8, <2>9, <2>10, <2>11, <2>12 DEF HostedInv
<1> USE DEF Unexposed, Recorded, Dialed, Roles
<1>2. CASE Sends("forward", "hello", "helloForward", "ackForward")
  BY <1>1, <1>2 DEF Sends
<1>3. CASE Sends("reverse", "hello", "helloReverse", "ackReverse")
  BY <1>1, <1>3 DEF Sends
<1>4. CASE Seed
  BY <1>1, <1>4 DEF Seed, Sends
<1>5. QED
  BY <1>2, <1>3, <1>4 DEF SendHello

(* A dialled channel was unopened, so nobody used it.                      *)
LEMMA DialKeeps ==
  ASSUME HostedInv, NEW b \in Boots, Dial(b)
  PROVE  HostedInv'
<1>1. /\ gw.attempt \in Attempts /\ gw.pc \in {"dialForward", "dialReverse"}
      /\ b # 0 /\ b \in 0..MaxWrappers /\ Opened(b) \in Channel
      /\ Opened(b).boot = b /\ Opened(b).sent = "none"
  <2>1. gw.attempt \in Attempts /\ gw.pc \in {"dialForward", "dialReverse"}
    BY GatewayTyped DEF Dial
  <2>2. b # 0 /\ b \in 0..MaxWrappers
    BY HostedAssumption DEF Boots
  <2>3. Unopened \in Channel
    BY HostedAssumption DEF Unopened, Channel
  <2>4. Opened(b) \in Channel /\ Opened(b).boot = b /\ Opened(b).sent = Unopened.sent
    BY <2>2, <2>3 DEF Opened, Channel
  <2>5. QED
    BY <2>1, <2>2, <2>4 DEF Unopened
<1>2. PICK r \in Roles :
        /\ r = IF gw.pc = "dialForward" THEN "forward" ELSE "reverse"
        /\ conn' = [conn EXCEPT ![gw.attempt][r] = Opened(b)]
  BY DEF Dial, Roles
<1>3. /\ gw'.attempt = gw.attempt /\ gw'.ledger = gw.ledger
      /\ UNCHANGED <<file, session, wr>>
      /\ IF gw.pc = "dialForward"
           THEN gw'.pc = "dialReverse" /\ gw'.boot = b
           ELSE /\ gw'.pc = IF b = gw.boot THEN "helloForward" ELSE "closing"
                /\ gw'.boot = gw.boot
  BY <1>1, GatewayTyped DEF Dial, Goto
<1>4. /\ conn \in [Attempts -> [Roles -> Channel]]
      /\ conn' \in [Attempts -> [Roles -> Channel]]
  BY <1>1, <1>2 DEF HostedInv, TypeOK
<1>5. \A a \in Attempts, q \in Roles :
        conn'[a][q] = IF a = gw.attempt /\ q = r THEN Opened(b) ELSE conn[a][q]
  BY <1>1, <1>2, <1>4
<1>6. conn[gw.attempt][r].boot = 0 /\ conn[gw.attempt][r].sent = "none"
  BY <1>1, <1>2 DEF HostedInv, ChannelInv, Untouched
<1>7. TypeOK'
  BY <1>1, <1>3, <1>4, GatewayTyped DEF HostedInv, TypeOK, Dial, Goto, GatewaySteps
<1>8. GatewayInv'
  BY <1>1, <1>3 DEF HostedInv, GatewayInv, Unexposed, Recorded, Requested, Dialed
<1>9. SessionInv'
  BY <1>1, <1>3 DEF HostedInv, SessionInv
<1>10. ChannelInv'
  <2>1. \A a \in Attempts, q \in Roles :
          Untouched(a, q)' => Untouched(a, q) /\ ~(a = gw.attempt /\ q = r)
    BY <1>1, <1>2, <1>3, HostedAssumption DEF Untouched, Attempts
  <2>2. \A a \in Attempts, q \in Roles :
          /\ Untouched(a, q)' => conn'[a][q].boot = 0 /\ conn'[a][q].sent = "none"
          /\ conn'[a][q].sent # "none" => conn'[a][q].boot # 0
    BY <1>1, <1>5, <2>1 DEF HostedInv, ChannelInv
  <2>3. gw'.pc = "dialReverse" => gw'.boot # 0 /\ conn'[gw'.attempt]["forward"].boot = gw'.boot
    BY <1>1, <1>2, <1>3, <1>5 DEF Roles
  <2>4. gw'.pc \in Dialed => gw'.boot # 0 /\ \A q \in Roles : conn'[gw'.attempt][q].boot = gw'.boot
    BY <1>1, <1>2, <1>3, <1>5 DEF HostedInv, ChannelInv, Roles, Dialed, Recorded
  <2>5. QED
    BY <2>2, <2>3, <2>4 DEF ChannelInv
<1>11. WrapperInv'
  BY <1>3, <1>5, <1>6, ForwardIsRole, OthersKeepWrappers
<1>12. HealthInv'
  BY <1>1, <1>3 DEF HealthInv
<1>13. ExposureIsRecorded'
  BY <1>1, <1>3, <1>5, <1>6 DEF HostedInv, ExposureIsRecorded, Roles
<1>14. QED
  BY <1>7, <1>8, <1>9, <1>10, <1>11, <1>12, <1>13 DEF HostedInv

(* A process that closes may note it, and never forgets the exposure.      *)
LEMMA DownKeeps ==
  ASSUME HostedInv, CloseGateway \/ CrashGateway
  PROVE  HostedInv'
<1>1. /\ gw.pc # "down" /\ gw.attempt \in Attempts /\ UNCHANGED <<session, wr>>
      /\ gw'.pc = "down" /\ gw'.attempt = gw.attempt /\ gw'.ledger = FreshLedger /\ gw'.boot = 0
  BY GatewayTyped DEF CloseGateway, CrashGateway, Down
<1>2. /\ file' \in Ledger /\ file'.exposed = file.exposed /\ file'.pair = file.pair
      /\ file.attempted => file'.attempted
  <2>1. CASE file' = file
    BY <2>1, GatewayTyped
  <2>2. CASE gw.ledger.exposed # 0 /\ file' = ClosedLedger(gw.ledger)
    BY <2>2, GatewayTyped DEF ClosedLedger, Ledger, HostedInv, GatewayInv
  <2>3. QED
    BY <2>1, <2>2 DEF CloseGateway, CrashGateway
<1>3. /\ conn \in [Attempts -> [Roles -> Channel]]
      /\ conn' = [conn EXCEPT ![gw.attempt] = [r \in Roles |-> [@[r] EXCEPT !.gateway = FALSE]]]
  BY DEF HostedInv, TypeOK, CloseGateway, CrashGateway, Down
<1>4. conn' \in [Attempts -> [Roles -> Channel]] /\ SameCalls
  <2>1. ASSUME NEW a \in Attempts, NEW r \in Roles
        PROVE  conn'[a][r] \in {conn[a][r], [conn[a][r] EXCEPT !.gateway = FALSE]}
    BY <1>1, <1>3
  <2>2. ASSUME NEW a \in Attempts, NEW r \in Roles
        PROVE  /\ conn'[a][r] \in Channel
               /\ conn'[a][r].boot = conn[a][r].boot /\ conn'[a][r].sent = conn[a][r].sent
    <3>1. conn[a][r] \in Channel BY <1>3
    <3>2. [conn[a][r] EXCEPT !.gateway = FALSE] \in Channel BY <3>1 DEF Channel
    <3>3. QED BY <2>1, <3>1, <3>2 DEF Channel
  <2>3. \A a \in Attempts : conn'[a] \in [Roles -> Channel]
    <3>1. ASSUME NEW a \in Attempts PROVE conn'[a] = [r \in Roles |-> conn'[a][r]]
      BY <1>1, <1>3
    <3>2. QED BY <2>2, <3>1
  <2>4. QED
    BY <1>3, <2>2, <2>3 DEF SameCalls
<1>5. TypeOK'
  <2>1. FreshLedger \in Ledger
    BY HostedAssumption DEF FreshLedger, Ledger
  <2>2. gw' = [pc |-> "down", attempt |-> gw.attempt, ledger |-> FreshLedger, boot |-> 0]
    BY DEF CloseGateway, CrashGateway, Down
  <2>3. QED
    BY <1>1, <1>2, <1>4, <2>1, <2>2, GatewayTyped, HostedAssumption DEF HostedInv, TypeOK, GatewaySteps
<1>6. GatewayInv'
  BY <1>1 DEF GatewayInv, Unexposed, Recorded, Requested, Dialed, FreshLedger
<1>7. SessionInv'
  BY <1>1, <1>2 DEF HostedInv, SessionInv
<1>8. ChannelInv'
  <2>1. \A a \in Attempts, r \in Roles : Untouched(a, r)' => Untouched(a, r)
    BY <1>1 DEF Untouched
  <2>2. QED
    BY <1>1, <1>4, <2>1 DEF HostedInv, ChannelInv, SameCalls, Dialed, Recorded
<1>9. WrapperInv'
  BY <1>1, <1>4, ForwardIsRole, OthersKeepWrappers DEF SameCalls
<1>10. HealthInv'
  BY <1>1 DEF HealthInv
<1>11. ExposureIsRecorded'
  BY <1>2, <1>4 DEF HostedInv, ExposureIsRecorded, SameCalls, Roles
<1>12. QED
  BY <1>5, <1>6, <1>7, <1>8, <1>9, <1>10, <1>11 DEF HostedInv

LEMMA GatewayKeeps ==
  ASSUME HostedInv, Gateway
  PROVE  HostedInv'
BY SavesKeep, ExposeKeeps, MovesKeep, SendCreateKeeps, StartKeeps, SendsKeep, DialKeeps, DownKeeps
   DEF Gateway, ObserveLoss

-----------------------------------------------------------------------------
(* The steps of a wrapper.  They leave the gateway and what it sent alone. *)

LEMMA WrapperTyped ==
  ASSUME HostedInv, NEW b \in Boots
  PROVE  /\ wr \in [Boots -> Wrapper] /\ wr[b] \in Wrapper /\ b # 0
         /\ wr[b].pair \in Attempts \cup {0}
         /\ wr[b].claimed \subseteq Roles /\ wr[b].acked \subseteq wr[b].claimed
         /\ wr[b].claimed # {} => wr[b].pair \in Attempts
         /\ wr[b].running => wr[b].acked = Roles /\ wr[b].bootstrap
BY HostedAssumption DEF HostedInv, TypeOK, Wrapper, Attempts, Boots

(* What a wrapper record may be, given the channels.                       *)
WrapperOK(w, b) ==
  /\ w \in Wrapper
  /\ w.claimed # {} => w.pair # 0
  /\ w.acked \subseteq w.claimed
  /\ w.running => w.acked = Roles /\ w.bootstrap
  /\ \A r \in w.claimed : conn[w.pair][r].boot = b
  /\ w.bootstrap => "forward" \in w.acked /\ conn[w.pair]["forward"].sent = "bootstrap"
  /\ w.supervisor # "none" =>
       /\ w.pair # 0 /\ conn[w.pair]["forward"].sent = "bootstrap"
       /\ \A r \in Roles : conn[w.pair][r].boot = b
  /\ w.left # {} => w.running

LEMMA WrapperIsOK ==
  ASSUME HostedInv, NEW b \in Boots
  PROVE  WrapperOK(wr[b], b)
BY WrapperTyped DEF HostedInv, TypeOK, WrapperInv, WrapperOK

(* A step that replaces one wrapper's record and closes ends of channels.  *)
LEMMA WrapperStepKeeps ==
  ASSUME HostedInv, NEW b \in Boots, NEW w, WrapperOK(w, b),
         wr' = [wr EXCEPT ![b] = w],
         wr[b].supervisor \notin {"none", "starting"} => w.supervisor \notin {"none", "starting"},
         UNCHANGED <<gw, file, session>>,
         conn' \in [Attempts -> [Roles -> Channel]], SameCalls
  PROVE  HostedInv'
<1>1. GatewayInv' /\ SessionInv' /\ ChannelInv' /\ ExposureIsRecorded'
  BY OthersKeepGateway
<1>2. wr' \in [Boots -> Wrapper] /\ \A x \in Boots : wr'[x] = IF x = b THEN w ELSE wr[x]
  BY WrapperTyped DEF WrapperOK
<1>3. ASSUME NEW x \in Boots PROVE WrapperOK(wr'[x], x)
  BY <1>2, WrapperIsOK
<1>4. TypeOK'
  BY <1>2, <1>3 DEF HostedInv, TypeOK, WrapperOK
<1>5. ASSUME NEW x \in Boots PROVE wr'[x].pair \in Attempts \cup {0}
  BY <1>2, HostedAssumption DEF Wrapper, Attempts
<1>6. WrapperInv'
  <2>1. SUFFICES ASSUME NEW x \in Boots
                 PROVE  /\ \A r \in wr'[x].claimed : conn'[wr'[x].pair][r].boot = x
                        /\ wr'[x].bootstrap => "forward" \in wr'[x].acked
                             /\ conn'[wr'[x].pair]["forward"].sent = "bootstrap"
                        /\ wr'[x].supervisor # "none" =>
                             /\ wr'[x].pair # 0 /\ conn'[wr'[x].pair]["forward"].sent = "bootstrap"
                             /\ \A r \in Roles : conn'[wr'[x].pair][r].boot = x
                        /\ wr'[x].left # {} => wr'[x].running
    BY DEF WrapperInv
  <2>2. CASE wr'[x].pair = 0
    BY <1>3, <2>2 DEF WrapperOK
  <2>3. CASE wr'[x].pair \in Attempts
    <3>1. wr'[x].claimed \subseteq Roles
      BY <1>2 DEF Wrapper
    <3>2. \A r \in Roles : /\ conn'[wr'[x].pair][r].boot = conn[wr'[x].pair][r].boot
                             /\ conn'[wr'[x].pair][r].sent = conn[wr'[x].pair][r].sent
      BY <2>3 DEF SameCalls
    <3>3. WrapperOK(wr'[x], x)
      BY <1>3
    <3>4. QED
      BY <3>1, <3>2, <3>3, ForwardIsRole DEF WrapperOK
  <2>4. QED
    BY <1>5, <2>2, <2>3
<1>7. HealthInv'
  BY <1>2 DEF HostedInv, HealthInv
<1>8. QED
  BY <1>1, <1>4, <1>6, <1>7 DEF HostedInv

(* Steps that change a wrapper and no channel.                             *)
LEMMA WrapperAloneKeeps ==
  ASSUME HostedInv, NEW b \in Boots, NEW w, WrapperOK(w, b),
         wr' = [wr EXCEPT ![b] = w],
         wr[b].supervisor \notin {"none", "starting"} => w.supervisor \notin {"none", "starting"},
         UNCHANGED <<gw, file, session, conn>>
  PROVE  HostedInv'
BY WrapperStepKeeps DEF SameCalls, HostedInv, TypeOK

(* Steps that change channels and no wrapper.                              *)
LEMMA ChannelStepKeeps ==
  ASSUME HostedInv, UNCHANGED <<gw, file, session, wr>>,
         conn' \in [Attempts -> [Roles -> Channel]], SameCalls
  PROVE  HostedInv'
<1>1. GatewayInv' /\ SessionInv' /\ ChannelInv' /\ ExposureIsRecorded'
  BY OthersKeepGateway
<1>2. WrapperInv'
  BY OthersKeepWrappers, ForwardIsRole DEF SameCalls
<1>3. TypeOK' /\ HealthInv'
  BY DEF HostedInv, TypeOK, HealthInv
<1>4. QED
  BY <1>1, <1>2, <1>3 DEF HostedInv

(* The wrapper's own progress, channels apart.                             *)
LEMMA ProgressKeeps ==
  ASSUME HostedInv, NEW b \in Boots,
         \/ BootWrapper(b) \/ ReadBootstrap(b) \/ MaybeStart(b) \/ LaunchSupervisor(b)
         \/ SupervisorHealthy(b) \/ CancelLifetime(b) \/ TerminateSupervisor(b)
         \/ KillTimesOut(b) \/ SupervisorExits(b)
         \/ \E r \in Roles : NoteAck(b, r) \/ HandlerSeesStart(b, r)
  PROVE  HostedInv'
<1>1. WrapperOK(wr[b], b) /\ wr[b] \in Wrapper /\ wr \in [Boots -> Wrapper]
  BY WrapperIsOK, WrapperTyped
<1>2. UNCHANGED <<gw, file, session, conn>>
  BY DEF BootWrapper, ReadBootstrap, MaybeStart, LaunchSupervisor, SupervisorHealthy,
         CancelLifetime, TerminateSupervisor, KillTimesOut, SupervisorExits, NoteAck, HandlerSeesStart
<1>3. ASSUME NEW l \in {"up", "closing"}, wr' = [wr EXCEPT ![b].life = l]
      PROVE  HostedInv'
  <2> DEFINE w == [wr[b] EXCEPT !.life = l]
  <2>1. wr' = [wr EXCEPT ![b] = w]
    BY <1>3
  <2>2. WrapperOK(w, b) /\ w.supervisor = wr[b].supervisor
    BY <1>1, <1>3 DEF WrapperOK, Wrapper
  <2> HIDE DEF w
  <2>3. QED
    BY <1>2, <2>1, <2>2, WrapperAloneKeeps
<1>4. ASSUME NEW v \in Supervisors, wr' = [wr EXCEPT ![b].supervisor = v],
             v \in {"none", "starting"} => wr[b].supervisor = "none",
             wr[b].supervisor = "none" => wr[b].running, v # "none"
      PROVE  HostedInv'
  <2>1. /\ wr[b].pair # 0 /\ conn[wr[b].pair]["forward"].sent = "bootstrap"
        /\ \A r \in Roles : conn[wr[b].pair][r].boot = b
    BY <1>1, <1>4, ForwardIsRole DEF WrapperOK
  <2>2. WrapperOK([wr[b] EXCEPT !.supervisor = v], b)
    BY <1>1, <1>4, <2>1 DEF WrapperOK, Wrapper
  <2>3. [wr[b] EXCEPT !.supervisor = v].supervisor = v
    BY <1>1 DEF Wrapper
  <2>4. wr' = [wr EXCEPT ![b] = [wr[b] EXCEPT !.supervisor = v]]
    BY <1>4
  <2>5. QED
    BY <1>2, <1>4, <2>2, <2>3, <2>4, WrapperAloneKeeps
<1>5. CASE BootWrapper(b) \/ CancelLifetime(b)
  BY <1>3, <1>5 DEF BootWrapper, CancelLifetime
<1>6. CASE \/ LaunchSupervisor(b) \/ SupervisorHealthy(b) \/ TerminateSupervisor(b)
           \/ KillTimesOut(b) \/ SupervisorExits(b)
  BY <1>4, <1>6 DEF LaunchSupervisor, SupervisorHealthy, TerminateSupervisor,
       KillTimesOut, SupervisorExits, Supervisors
<1>7. CASE ReadBootstrap(b)
  <2> DEFINE w == [wr[b] EXCEPT !.bootstrap = TRUE]
  <2>1. wr' = [wr EXCEPT ![b] = w]
    BY <1>7 DEF ReadBootstrap
  <2>2. WrapperOK(w, b) /\ w.supervisor = wr[b].supervisor
    BY <1>1, <1>7 DEF ReadBootstrap, WrapperOK, Wrapper
  <2> HIDE DEF w
  <2>3. QED
    BY <1>2, <2>1, <2>2, WrapperAloneKeeps
<1>8. CASE MaybeStart(b)
  <2> DEFINE w == [wr[b] EXCEPT !.running = TRUE]
  <2>1. wr' = [wr EXCEPT ![b] = w]
    BY <1>8 DEF MaybeStart
  <2>2. WrapperOK(w, b) /\ w.supervisor = wr[b].supervisor
    BY <1>1, <1>8 DEF MaybeStart, StartReady, WrapperOK, Wrapper
  <2> HIDE DEF w
  <2>3. QED
    BY <1>2, <2>1, <2>2, WrapperAloneKeeps
<1>9. ASSUME NEW r \in Roles, NoteAck(b, r)
      PROVE  HostedInv'
  <2> DEFINE w == [wr[b] EXCEPT !.acked = @ \cup {r}]
  <2>1. wr' = [wr EXCEPT ![b] = w]
    BY <1>9 DEF NoteAck
  <2>2. WrapperOK(w, b) /\ w.supervisor = wr[b].supervisor
    BY <1>1, <1>9 DEF NoteAck, WrapperOK, Wrapper
  <2> HIDE DEF w
  <2>3. QED
    BY <1>2, <2>1, <2>2, WrapperAloneKeeps
<1>10. ASSUME NEW r \in Roles, HandlerSeesStart(b, r)
      PROVE  HostedInv'
  <2> DEFINE w == [wr[b] EXCEPT !.left = @ \cup {r}]
  <2>1. wr' = [wr EXCEPT ![b] = w]
    BY <1>10 DEF HandlerSeesStart
  <2>2. WrapperOK(w, b) /\ w.supervisor = wr[b].supervisor
    BY <1>1, <1>10 DEF HandlerSeesStart, WrapperOK, Wrapper
  <2> HIDE DEF w
  <2>3. QED
    BY <1>2, <2>1, <2>2, WrapperAloneKeeps
<1>11. QED
  BY <1>5, <1>6, <1>7, <1>8, <1>9, <1>10

(* A step that changes the ends of channels, or an answer, keeps calls.    *)
LEMMA OneChannelKeeps ==
  ASSUME HostedInv, UNCHANGED <<gw, file, session, wr>>,
         NEW a \in Attempts, NEW r \in Roles, NEW c \in Channel,
         conn' = [conn EXCEPT ![a][r] = c],
         c.boot = conn[a][r].boot, c.sent = conn[a][r].sent
  PROVE  HostedInv'
<1>1. /\ conn' \in [Attempts -> [Roles -> Channel]]
      /\ \A x \in Attempts, q \in Roles :
           conn'[x][q] = IF x = a /\ q = r THEN c ELSE conn[x][q]
  BY ChannelWritten DEF HostedInv
<1>2. SameCalls
  BY <1>1 DEF SameCalls
<1>3. QED
  BY <1>1, <1>2, ChannelStepKeeps

(* A claim is of a hello that reached this wrapper.                        *)
LEMMA ClaimKeeps ==
  ASSUME HostedInv, NEW b \in Boots, NEW a \in Attempts, NEW r \in Roles, Claim(b, a, r)
  PROVE  HostedInv'
<1>1. WrapperOK(wr[b], b) /\ wr[b] \in Wrapper /\ wr \in [Boots -> Wrapper] /\ conn[a][r] \in Channel
  BY WrapperIsOK, WrapperTyped DEF HostedInv, TypeOK
<1>2. CASE Claimable(b, a, r)
  <2> DEFINE w == [wr[b] EXCEPT !.pair = a, !.claimed = @ \cup {r}]
  <2>1. wr' = [wr EXCEPT ![b] = w] /\ UNCHANGED <<gw, file, session, conn>>
    BY <1>1, <1>2 DEF Claim
  <2>2. /\ conn[a][r].boot = b /\ wr[b].pair \in {0, a} /\ ~wr[b].running
        /\ a \in 0..MaxAttempts /\ a # 0
    BY <1>2, HostedAssumption DEF Claim, Claimable, Attempts
  <2>3. wr[b].pair = 0 => wr[b].claimed = {} /\ wr[b].acked = {} /\ ~wr[b].bootstrap
                          /\ wr[b].supervisor = "none"
    BY <1>1 DEF WrapperOK
  <2>4. /\ w \in Wrapper /\ w.pair = a /\ w.claimed = wr[b].claimed \cup {r}
        /\ w.acked = wr[b].acked /\ w.bootstrap = wr[b].bootstrap
        /\ w.running = wr[b].running /\ w.left = wr[b].left /\ w.supervisor = wr[b].supervisor
    BY <1>1, <2>2 DEF Wrapper
  <2> HIDE DEF w
  <2>5. WrapperOK(w, b)
    BY <1>1, <2>2, <2>3, <2>4 DEF WrapperOK
  <2>6. QED
    BY <2>1, <2>4, <2>5, WrapperAloneKeeps
<1>3. CASE ~Claimable(b, a, r)
  <2> DEFINE c == [conn[a][r] EXCEPT !.wrapper = FALSE]
  <2>1. conn' = [conn EXCEPT ![a][r] = c] /\ UNCHANGED <<gw, file, session, wr>>
    BY <1>3 DEF Claim
  <2>2. c \in Channel /\ c.boot = conn[a][r].boot /\ c.sent = conn[a][r].sent
    BY <1>1 DEF Channel
  <2> HIDE DEF c
  <2>3. QED
    BY <2>1, <2>2, OneChannelKeeps
<1>4. QED
  BY <1>2, <1>3

LEMMA AnswersKeep ==
  ASSUME HostedInv, NEW b \in Boots,
         SendReady(b) \/ \E r \in Roles : WriteAck(b, r)
  PROVE  HostedInv'
<1>1. ASSUME NEW r \in Roles, NEW m \in {"ack", "ready"}, wr[b].pair \in Attempts,
             conn' = [conn EXCEPT ![wr[b].pair][r].answer = m],
             UNCHANGED <<gw, file, session, wr>>
      PROVE  HostedInv'
  <2> DEFINE c == [conn[wr[b].pair][r] EXCEPT !.answer = m]
  <2>1. conn' = [conn EXCEPT ![wr[b].pair][r] = c] /\ conn[wr[b].pair][r] \in Channel
    BY <1>1 DEF HostedInv, TypeOK
  <2>2. c \in Channel /\ c.boot = conn[wr[b].pair][r].boot /\ c.sent = conn[wr[b].pair][r].sent
    BY <1>1, <2>1 DEF Channel
  <2> HIDE DEF c
  <2>3. QED
    BY <1>1, <2>1, <2>2, OneChannelKeeps
<1>2. CASE SendReady(b)
  <2>1. wr[b].pair \in Attempts
    BY <1>2, WrapperTyped, WrapperIsOK DEF SendReady, WrapperOK
  <2>2. QED
    BY <1>1, <1>2, <2>1, ForwardIsRole DEF SendReady
<1>3. ASSUME NEW r \in Roles, WriteAck(b, r) PROVE HostedInv'
  <2>1. wr[b].pair \in Attempts
    BY <1>3, WrapperTyped DEF WriteAck
  <2>2. QED
    BY <1>1, <1>3, <2>1 DEF WriteAck
<1>4. QED
  BY <1>2, <1>3

LEMMA Narrowed ==
  ASSUME NEW c \in Channel, NEW v \in BOOLEAN
  PROVE  /\ [c EXCEPT !.wrapper = @ /\ v] \in Channel
         /\ [c EXCEPT !.wrapper = @ /\ v].boot = c.boot
         /\ [c EXCEPT !.wrapper = @ /\ v].sent = c.sent
<1> DEFINE w == c.wrapper /\ v
<1>1. w \in BOOLEAN
  OBVIOUS
<1> HIDE DEF w
<1>2. [c EXCEPT !.wrapper = w] \in Channel
      /\ [c EXCEPT !.wrapper = w].boot = c.boot /\ [c EXCEPT !.wrapper = w].sent = c.sent
  BY <1>1, ChannelFields
<1>3. QED
  BY <1>2 DEF w

(* Closing the pair ends the lifetime and the wrapper's ends.              *)
LEMMA ClosePairKeeps ==
  ASSUME HostedInv, NEW b \in Boots, ClosePair(b)
  PROVE  HostedInv'
<1>1. /\ WrapperOK(wr[b], b) /\ wr[b] \in Wrapper /\ wr \in [Boots -> Wrapper]
      /\ wr[b].pair \in Attempts \cup {0} /\ conn \in [Attempts -> [Roles -> Channel]]
  BY WrapperIsOK, WrapperTyped DEF HostedInv, TypeOK
<1> DEFINE w == [wr[b] EXCEPT !.life = IF @ = "up" THEN "closing" ELSE @]
<1>2. wr' = [wr EXCEPT ![b] = w] /\ UNCHANGED <<gw, file, session>>
  BY <1>1 DEF ClosePair
<1>3. WrapperOK(w, b) /\ w.supervisor = wr[b].supervisor
  BY <1>1 DEF WrapperOK, Wrapper
<1>4. conn' \in [Attempts -> [Roles -> Channel]] /\ SameCalls
  <2>1. CASE wr[b].pair = 0
    BY <1>1, <2>1 DEF ClosePair, SameCalls
  <2>2. CASE wr[b].pair \in Attempts
    <3>1. conn' = [conn EXCEPT ![wr[b].pair] = [r \in Roles |->
                     [conn[wr[b].pair][r] EXCEPT !.wrapper = @ /\ r \notin wr[b].claimed]]]
      <4>1. wr[b].pair # 0 BY <2>2, HostedAssumption DEF Attempts
      <4>2. QED BY <4>1 DEF ClosePair
    <3>2. ASSUME NEW a \in Attempts, NEW r \in Roles
          PROVE  /\ conn'[a][r] \in Channel
                 /\ conn'[a][r].boot = conn[a][r].boot /\ conn'[a][r].sent = conn[a][r].sent
      <4>1. CASE a = wr[b].pair
        <5> DEFINE u == r \notin wr[b].claimed
        <5>1. conn'[a][r] = [conn[a][r] EXCEPT !.wrapper = @ /\ u]
          <6>1. conn'[wr[b].pair] = [q \in Roles |->
                  [conn[wr[b].pair][q] EXCEPT !.wrapper = @ /\ q \notin wr[b].claimed]]
            BY <1>1, <2>2, <3>1
          <6>2. QED
            BY <4>1, <6>1, Zenon
        <5>2. conn[a][r] \in Channel /\ u \in BOOLEAN
          BY <1>1
        <5> HIDE DEF u
        <5>3. QED
          BY <5>1, <5>2, Narrowed
      <4>2. CASE a # wr[b].pair
        BY <1>1, <2>2, <3>1, <4>2
      <4>3. QED
        BY <4>1, <4>2
    <3>3. ASSUME NEW a \in Attempts PROVE conn'[a] \in [Roles -> Channel]
      <4>1. conn'[a] = [r \in Roles |-> conn'[a][r]]
        BY <1>1, <2>2, <3>1
      <4>2. QED
        BY <3>2, <4>1
    <3>4. QED
      BY <1>1, <3>1, <3>2, <3>3 DEF SameCalls
  <2>3. QED
    BY <1>1, <2>1, <2>2
<1> HIDE DEF w
<1>5. QED
  BY <1>2, <1>3, <1>4, WrapperStepKeeps

(* A wrapper that ended remembers whose supervisor it had.                 *)
LEMMA ExitKeeps ==
  ASSUME HostedInv, NEW b \in Boots, ExitWrapper(b) \/ CrashWrapper(b)
  PROVE  HostedInv'
<1>1. /\ WrapperOK(wr[b], b) /\ wr[b] \in Wrapper /\ wr \in [Boots -> Wrapper]
      /\ conn \in [Attempts -> [Roles -> Channel]]
  BY WrapperIsOK, WrapperTyped DEF HostedInv, TypeOK
<1>2. /\ wr' = [wr EXCEPT ![b] = Exited(wr[b])] /\ UNCHANGED <<gw, file, session>>
      /\ conn' = Disconnected(b)
  BY DEF ExitWrapper, CrashWrapper
<1>3. /\ Exited(wr[b]) \in Wrapper /\ Exited(wr[b]).pair = wr[b].pair
      /\ Exited(wr[b]).claimed = {} /\ Exited(wr[b]).acked = {} /\ Exited(wr[b]).left = {}
      /\ Exited(wr[b]).bootstrap = FALSE /\ Exited(wr[b]).running = FALSE
      /\ Exited(wr[b]).supervisor = IF wr[b].supervisor = "none" THEN "none" ELSE "exited"
  BY <1>1, HostedAssumption DEF Exited, Unborn, Wrapper, Supervisors
<1>4. WrapperOK(Exited(wr[b]), b)
  BY <1>1, <1>3 DEF WrapperOK
<1>5. ASSUME NEW a \in Attempts, NEW r \in Roles
      PROVE  /\ [conn[a][r] EXCEPT !.wrapper = @ /\ conn[a][r].boot # b] \in Channel
             /\ [conn[a][r] EXCEPT !.wrapper = @ /\ conn[a][r].boot # b].boot = conn[a][r].boot
             /\ [conn[a][r] EXCEPT !.wrapper = @ /\ conn[a][r].boot # b].sent = conn[a][r].sent
  <2> DEFINE u == conn[a][r].boot # b
  <2>1. conn[a][r] \in Channel /\ u \in BOOLEAN
    BY <1>1
  <2> HIDE DEF u
  <2>2. /\ [conn[a][r] EXCEPT !.wrapper = @ /\ u] \in Channel
        /\ [conn[a][r] EXCEPT !.wrapper = @ /\ u].boot = conn[a][r].boot
        /\ [conn[a][r] EXCEPT !.wrapper = @ /\ u].sent = conn[a][r].sent
    BY <2>1, Narrowed
  <2>3. QED
    BY <2>2 DEF u
<1>6. conn' \in [Attempts -> [Roles -> Channel]] /\ SameCalls
  BY <1>2, <1>5 DEF Disconnected, SameCalls
<1>7. QED
  BY <1>2, <1>3, <1>4, <1>6, WrapperStepKeeps

LEMMA HostedKeeps ==
  ASSUME HostedInv, NEW b \in Boots, Hosted(b)
  PROVE  HostedInv'
BY ProgressKeeps, ClaimKeeps, AnswersKeep, ClosePairKeeps, ExitKeeps
   DEF Hosted, SetupFails, LaunchFails, ObserveSevered, JoinSupervisor

-----------------------------------------------------------------------------
(* The network and the provider, and the whole system.                     *)

LEMMA OutsideKeeps ==
  ASSUME HostedInv, CreateLands \/ \E a \in Attempts, r \in Roles : BreakChannel(a, r)
  PROVE  HostedInv'
<1>1. CASE CreateLands
  <2>1. TypeOK'
    BY <1>1 DEF CreateLands, HostedInv, TypeOK, SessionStatus
  <2>2. GatewayInv' /\ SessionInv' /\ HealthInv' /\ ExposureIsRecorded'
    BY <1>1 DEF CreateLands, HostedInv, GatewayInv, SessionInv, HealthInv, ExposureIsRecorded
  <2>3. ChannelInv'
    BY <1>1 DEF CreateLands, HostedInv, ChannelInv, Untouched
  <2>4. WrapperInv'
    BY <1>1 DEF CreateLands, HostedInv, WrapperInv
  <2>5. QED
    BY <2>1, <2>2, <2>3, <2>4 DEF HostedInv
<1>2. ASSUME NEW a \in Attempts, NEW r \in Roles, BreakChannel(a, r)
      PROVE  HostedInv'
  <2>1. conn[a][r] \in Channel /\ UNCHANGED <<gw, file, session, wr>>
    BY <1>2 DEF BreakChannel, HostedInv, TypeOK
  <2>2. CASE conn' = [conn EXCEPT ![a][r]["gateway"] = FALSE]
    <3>1. [conn[a][r] EXCEPT !.gateway = FALSE] \in Channel
          /\ [conn[a][r] EXCEPT !.gateway = FALSE].boot = conn[a][r].boot
          /\ [conn[a][r] EXCEPT !.gateway = FALSE].sent = conn[a][r].sent
      BY <2>1 DEF Channel
    <3>2. QED
      BY <2>1, <2>2, <3>1, OneChannelKeeps
  <2>3. CASE conn' = [conn EXCEPT ![a][r]["wrapper"] = FALSE]
    <3>1. [conn[a][r] EXCEPT !.wrapper = FALSE] \in Channel
          /\ [conn[a][r] EXCEPT !.wrapper = FALSE].boot = conn[a][r].boot
          /\ [conn[a][r] EXCEPT !.wrapper = FALSE].sent = conn[a][r].sent
      BY <2>1 DEF Channel
    <3>2. QED
      BY <2>1, <2>3, <3>1, OneChannelKeeps
  <2>4. QED
    BY <1>2, <2>2, <2>3 DEF BreakChannel
<1>3. QED
  BY <1>1, <1>2

LEMMA HostedInit ==
  ASSUME Init
  PROVE  HostedInv
<1> USE HostedAssumption DEF Init
<1>1. FreshLedger \in Ledger /\ Unopened \in Channel /\ Unborn \in Wrapper
  BY DEF FreshLedger, Ledger, Unopened, Channel, Unborn, Wrapper, Supervisors
<1>2. TypeOK
  BY <1>1 DEF TypeOK, GatewaySteps, SessionStatus, Unborn
<1>3. GatewayInv /\ SessionInv /\ HealthInv
  BY DEF GatewayInv, SessionInv, HealthInv, Unexposed, Recorded, Requested, Dialed, FreshLedger
<1>4. ChannelInv
  BY DEF ChannelInv, Untouched, Unopened, Dialed, Recorded
<1>5. WrapperInv /\ ExposureIsRecorded
  BY ForwardIsRole DEF WrapperInv, ExposureIsRecorded, Unborn, Unopened
<1>6. QED
  BY <1>2, <1>3, <1>4, <1>5 DEF HostedInv

LEMMA HostedStep ==
  ASSUME HostedInv, [Next]_hostedVars
  PROVE  HostedInv'
<1>1. CASE UNCHANGED hostedVars
  <2>1. UNCHANGED <<gw, file, session, conn, wr>>
    BY <1>1 DEF hostedVars
  <2>2. TypeOK' /\ WrapperInv'
    BY <2>1 DEF HostedInv, TypeOK, WrapperInv
  <2>3. GatewayInv' /\ SessionInv' /\ ChannelInv' /\ ExposureIsRecorded' /\ HealthInv'
    BY <2>1 DEF HostedInv, GatewayInv, SessionInv, ChannelInv, Untouched, ExposureIsRecorded, HealthInv
  <2>4. QED
    BY <2>2, <2>3 DEF HostedInv
<1>2. QED
  BY <1>1, GatewayKeeps, HostedKeeps, OutsideKeeps DEF Next

(* The invariant of the hosted lifetime holds in every reachable state,    *)
(* whatever crashes, saves or channels fail.                               *)
THEOREM HostedInvariant == Spec => []HostedInv
<1>1. Init => HostedInv
  BY HostedInit
<1>2. HostedInv /\ [Next]_hostedVars => HostedInv'
  BY HostedStep
<1>3. QED
  BY <1>1, <1>2, PTL DEF Spec

LEMMA InvOneLifetime ==
  ASSUME HostedInv
  PROVE  OneLifetime
<1>1. ExposureIsRecorded
  BY DEF HostedInv
<1>2. OneSupervisor
  <2>1. SUFFICES ASSUME NEW b \in Boots, wr[b].supervisor # "none"
                 PROVE  /\ file.exposed = b /\ file.pair = wr[b].pair
                        /\ \A r \in Roles : conn[wr[b].pair][r].boot = b
    BY DEF OneSupervisor
  <2>2. /\ wr[b].pair \in Attempts /\ conn[wr[b].pair]["forward"].sent = "bootstrap"
        /\ \A r \in Roles : conn[wr[b].pair][r].boot = b
    BY <2>1, WrapperTyped, WrapperIsOK DEF WrapperOK
  <2>3. QED
    BY <1>1, <2>2, ForwardIsRole DEF ExposureIsRecorded
<1>3. ReadyIsEarned
  <2>1. SUFFICES ASSUME gw.pc = "ready"
                 PROVE  /\ wr[gw.boot].supervisor \notin {"none", "starting"}
                        /\ wr[gw.boot].pair = gw.attempt
                        /\ file.ready /\ file.exposed = gw.boot
    BY DEF ReadyIsEarned
  <2>2. file.ready /\ file.exposed = gw.boot /\ file.pair = gw.attempt
    BY <2>1 DEF HostedInv, GatewayInv, Recorded
  <2>3. gw.boot \in Boots
    BY <2>1, GatewayTyped, HostedAssumption DEF HostedInv, ChannelInv, Dialed, Recorded, Boots
  <2>4. wr[gw.boot].supervisor \notin {"none", "starting"}
    BY <2>1 DEF HostedInv, HealthInv
  <2>5. QED
    BY <1>2, <2>2, <2>3, <2>4 DEF OneSupervisor
<1>4. QED
  BY <1>1, <1>2, <1>3 DEF OneLifetime

(* At most one bootstrap is ever sent and one supervisor started for a     *)
(* deployment, the file names them, and a gateway serves only behind it.   *)
THEOREM OneLifetimePerDeployment == Spec => []OneLifetime
BY HostedInvariant, InvOneLifetime, PTL

(* No creation is sent while an earlier one may still make the session.    *)
THEOREM SessionIsCreatedOnce == Spec => OneCreation
<1>1. HostedInv /\ [Next]_hostedVars =>
        [gw.pc = "create" /\ gw'.pc = "creating" => session \in {"absent", "refused"}]_hostedVars
  BY DEF HostedInv, SessionInv
<1>2. QED
  BY <1>1, HostedInvariant, PTL DEF Spec, OneCreation

-----------------------------------------------------------------------------
(* The relays of a lifetime that is shut down.                             *)

(* A wrapper whose lifetime is cancelled while its supervisor still runs,  *)
(* with both handlers past their setup and both channels healthy.          *)
ShuttingDown(b) ==
  /\ wr[b].life = "closing" /\ wr[b].left = Roles /\ ~Severed(wr[b].pair)
  /\ wr[b].supervisor \in {"starting", "healthy", "stopping"}

LEMMA ShuttingDownIs ==
  ASSUME HostedInv, NEW b \in Boots, ShuttingDown(b)
  PROVE  /\ wr[b].pair \in Attempts /\ wr[b].claimed = Roles
         /\ conn \in [Attempts -> [Roles -> Channel]]
         /\ \A r \in Roles : conn[wr[b].pair][r].boot = b /\ conn[wr[b].pair][r].wrapper
<1>1. wr[b].running /\ wr[b].claimed = Roles /\ wr[b].pair \in Attempts
  <2>1. wr[b].left # {} /\ WrapperOK(wr[b], b)
    BY WrapperIsOK, ForwardIsRole DEF ShuttingDown
  <2>2. wr[b].running /\ wr[b].acked = Roles
    BY <2>1 DEF WrapperOK
  <2>3. wr[b].claimed = Roles
    BY <2>2, WrapperTyped
  <2>4. QED
    BY <2>2, <2>3, WrapperTyped, ForwardIsRole
<1>2. \A r \in Roles : conn[wr[b].pair][r].boot = b
  BY <1>1, WrapperIsOK DEF WrapperOK
<1>3. \A r \in Roles : conn[wr[b].pair][r].wrapper
  BY DEF ShuttingDown, Severed
<1>4. QED
  BY <1>1, <1>2, <1>3 DEF HostedInv, TypeOK

LEMMA RelaysStay ==
  ASSUME HostedInv, [Next]_hostedVars, NEW b \in Boots, ShuttingDown(b), wr'[b].life # "exited"
  PROVE  \E r \in Roles : conn'[wr[b].pair][r].wrapper
<1> DEFINE p == wr[b].pair
<1>1. /\ p \in Attempts /\ wr[b].claimed = Roles
      /\ conn \in [Attempts -> [Roles -> Channel]]
      /\ \A r \in Roles : conn[p][r].boot = b /\ conn[p][r].wrapper
  BY ShuttingDownIs
<1>2. CASE UNCHANGED conn
  BY <1>1, <1>2, ForwardIsRole
<1>3. ASSUME NEW a \in Attempts, NEW r \in Roles, NEW c \in Channel,
             conn' = [conn EXCEPT ![a][r] = c], a = p => c.wrapper
      PROVE  conn'[p]["forward"].wrapper
  BY <1>1, <1>3, ForwardIsRole
<1>4. CASE SendHello \/ Seed
  <2>1. PICK r \in Roles, m \in {"hello", "bootstrap"} : conn' = [conn EXCEPT ![gw.attempt][r].sent = m]
    BY <1>4, ForwardIsRole DEF SendHello, Seed, Sends, Roles
  <2>2. gw.attempt \in Attempts
    BY <1>4, GatewayTyped DEF SendHello, Seed, Sends
  <2>3. conn[gw.attempt][r] \in Channel
    BY <1>1, <2>2
  <2> DEFINE c == [conn[gw.attempt][r] EXCEPT !.sent = m]
  <2>4. c \in Channel /\ c.wrapper = conn[gw.attempt][r].wrapper
    BY <2>3 DEF Channel
  <2>5. conn' = [conn EXCEPT ![gw.attempt][r] = c]
    BY <2>1
  <2> HIDE DEF c
  <2>6. QED
    BY <1>1, <1>3, <2>2, <2>4, <2>5, ForwardIsRole
<1>5. ASSUME NEW x \in Boots, Dial(x)
      PROVE  conn'[p]["forward"].wrapper
  <2>1. Opened(x) \in Channel /\ Opened(x).wrapper
    <3>1. Unopened \in Channel
      BY HostedAssumption DEF Unopened, Channel
    <3>2. QED
      <4>1. x \in 0..MaxWrappers
        BY HostedAssumption DEF Boots
      <4>2. QED
        BY <3>1, <4>1 DEF Opened, Channel
  <2>2. gw.attempt \in Attempts
    BY <1>5, GatewayTyped DEF Dial
  <2>3. PICK r \in Roles : conn' = [conn EXCEPT ![gw.attempt][r] = Opened(x)]
    BY <1>5 DEF Dial, Roles
  <2>4. QED
    BY <1>3, <2>1, <2>2, <2>3
<1>6. CASE CloseGateway \/ CrashGateway
  <2>1. conn' = [conn EXCEPT ![gw.attempt] = [r \in Roles |-> [@[r] EXCEPT !.gateway = FALSE]]]
    BY <1>6 DEF CloseGateway, CrashGateway, Down
  <2>2. conn'[p]["forward"] = conn[p]["forward"]
        \/ conn'[p]["forward"] = [conn[p]["forward"] EXCEPT !.gateway = FALSE]
    BY <1>1, <2>1, ForwardIsRole
  <2>3. conn[p]["forward"] \in Channel /\ conn[p]["forward"].wrapper
    BY <1>1, ForwardIsRole
  <2>4. [conn[p]["forward"] EXCEPT !.gateway = FALSE].wrapper = conn[p]["forward"].wrapper
    BY <2>3 DEF Channel
  <2>5. conn'[p]["forward"].wrapper
    BY <2>2, <2>3, <2>4
  <2>6. QED
    BY <2>5, ForwardIsRole
<1>7. ASSUME NEW x \in Boots, NEW a \in Attempts, NEW r \in Roles, Claim(x, a, r)
      PROVE  UNCHANGED conn \/ conn'[p]["forward"].wrapper
  <2>1. CASE Claimable(x, a, r)
    BY <1>7, <2>1 DEF Claim
  <2>2. CASE ~Claimable(x, a, r)
    <3>1. a # p
      BY <1>1, <1>7 DEF Claim
    <3>2. conn' = [conn EXCEPT ![a][r].wrapper = FALSE]
      BY <1>7, <2>2 DEF Claim
    <3>3. QED
      BY <1>1, <3>1, <3>2, ForwardIsRole
  <2>3. QED
    BY <2>1, <2>2
<1>8. ASSUME NEW x \in Boots, SendReady(x) \/ \E r \in Roles : WriteAck(x, r)
      PROVE  conn'[p]["forward"].wrapper
  <2>1. PICK r \in Roles, m \in {"ack", "ready"} : conn' = [conn EXCEPT ![wr[x].pair][r].answer = m]
    BY <1>8, ForwardIsRole DEF SendReady, WriteAck
  <2>2. wr[x].pair \in Attempts
    BY <1>8, WrapperTyped, WrapperIsOK DEF SendReady, WriteAck, WrapperOK
  <2> DEFINE c == [conn[wr[x].pair][r] EXCEPT !.answer = m]
  <2>3. conn[wr[x].pair][r] \in Channel
    BY <1>1, <2>2
  <2>4. c \in Channel /\ c.wrapper = conn[wr[x].pair][r].wrapper
    BY <2>3 DEF Channel
  <2>5. conn' = [conn EXCEPT ![wr[x].pair][r] = c]
    BY <2>1
  <2> HIDE DEF c
  <2>6. QED
    BY <1>1, <1>3, <2>2, <2>4, <2>5, ForwardIsRole
<1>9. ASSUME NEW x \in Boots, ClosePair(x), x # b
      PROVE  conn'[p]["forward"].wrapper
  <2>1. wr[x].pair = p => "forward" \notin wr[x].claimed
    BY <1>1, <1>9, WrapperIsOK, ForwardIsRole DEF WrapperOK
  <2>2. CASE wr[x].pair # p
    BY <1>1, <1>9, <2>2, ForwardIsRole DEF ClosePair
  <2>3. CASE wr[x].pair = p
    <3>1. p # 0
      BY <1>1, HostedAssumption DEF Attempts
    <3>2. conn' = [conn EXCEPT ![p] = [r \in Roles |->
                     [conn[p][r] EXCEPT !.wrapper = @ /\ r \notin wr[x].claimed]]]
      BY <1>9, <2>3, <3>1 DEF ClosePair
    <3>3. conn'[p] = [r \in Roles |-> [conn[p][r] EXCEPT !.wrapper = @ /\ r \notin wr[x].claimed]]
      BY <1>1, <3>2
    <3>4. conn'[p]["forward"] =
            [conn[p]["forward"] EXCEPT !.wrapper = @ /\ "forward" \notin wr[x].claimed]
      BY <3>3, ForwardIsRole, Zenon
    <3>5. conn[p]["forward"] \in Channel
      BY <1>1, ForwardIsRole
    <3>6. QED
      BY <1>1, <2>1, <2>3, <3>4, <3>5, ForwardIsRole DEF Channel
  <2>4. QED
    BY <2>2, <2>3
<1>10. ASSUME SetupFails(b) \/ LaunchFails(b) \/ ObserveSevered(b) \/ JoinSupervisor(b)
       PROVE  FALSE
  BY <1>10 DEF ShuttingDown, SetupFails, SetupOver, LaunchFails, ObserveSevered, WrapperObserves,
               JoinSupervisor
<1>11. ASSUME NEW x \in Boots, ExitWrapper(x) \/ CrashWrapper(x)
       PROVE  conn'[p]["forward"].wrapper
  <2>1. wr' = [wr EXCEPT ![x] = Exited(wr[x])] /\ conn' = Disconnected(x)
    BY <1>11 DEF ExitWrapper, CrashWrapper
  <2>2. x # b
    BY <2>1, WrapperTyped DEF Exited, Unborn
  <2>3. conn'[p]["forward"] =
          [conn[p]["forward"] EXCEPT !.wrapper = @ /\ conn[p]["forward"].boot # x]
    BY <1>1, <2>1, ForwardIsRole, Zenon DEF Disconnected
  <2>4. conn[p]["forward"] \in Channel /\ conn[p]["forward"].boot # x
    BY <1>1, <2>2, ForwardIsRole
  <2>5. QED
    BY <1>1, <2>3, <2>4, ForwardIsRole DEF Channel
<1>12. ASSUME NEW a \in Attempts, NEW r \in Roles, BreakChannel(a, r)
       PROVE  \E q \in Roles : conn'[p][q].wrapper
  <2>1. PICK q \in Roles : q # r
    BY DEF Roles
  <2>2. conn'[p][q] = conn[p][q]
    BY <1>1, <1>12, <2>1 DEF BreakChannel
  <2>3. QED
    BY <1>1, <2>2
<1>13. CASE Gateway
  <2>1. \/ UNCHANGED conn \/ SendHello \/ Seed \/ CloseGateway \/ CrashGateway
        \/ \E x \in Boots : Dial(x)
    BY <1>13 DEF Gateway, StartGateway, CreateIntent, SendCreate, CreateRejected, CreateAcknowledged,
         SessionKnown, ReadAck, Reads, Expose, ReadReady, CheckCapabilities, MarkReady,
         InitializationFails, ObserveLoss, LeaveReady
  <2>2. QED
    BY <1>2, <1>4, <1>5, <1>6, <2>1, ForwardIsRole
<1>14. ASSUME NEW x \in Boots, Hosted(x)
       PROVE  \E r \in Roles : conn'[p][r].wrapper
  <2>1. \/ UNCHANGED conn \/ SendReady(x) \/ \E r \in Roles : WriteAck(x, r)
        \/ SetupFails(x) \/ LaunchFails(x) \/ ObserveSevered(x) \/ JoinSupervisor(x)
        \/ ExitWrapper(x) \/ CrashWrapper(x) \/ \E a \in Attempts, r \in Roles : Claim(x, a, r)
    BY <1>14 DEF Hosted, BootWrapper, ReadBootstrap, MaybeStart, LaunchSupervisor, SupervisorHealthy,
         CancelLifetime, TerminateSupervisor, KillTimesOut, SupervisorExits, NoteAck, HandlerSeesStart
  <2>2. CASE SetupFails(x) \/ LaunchFails(x) \/ ObserveSevered(x) \/ JoinSupervisor(x)
    <3>1. x # b
      BY <1>10, <2>2
    <3>2. ClosePair(x)
      BY <2>2 DEF SetupFails, LaunchFails, ObserveSevered, JoinSupervisor
    <3>3. QED
      BY <1>9, <3>1, <3>2, ForwardIsRole
  <2>3. QED
    BY <1>2, <1>7, <1>8, <1>11, <2>1, <2>2, ForwardIsRole
<1>15. CASE CreateLands \/ UNCHANGED hostedVars
  BY <1>2, <1>15 DEF CreateLands, hostedVars
<1>16. QED
  BY <1>12, <1>13, <1>14, <1>15 DEF Next

(* A shutdown leaves a channel to a supervisor that still runs, whatever   *)
(* other attempts, wrappers or a breaking channel do.                      *)
THEOREM ShutdownKeepsRelays == Spec => RelaysOutliveShutdown
<1>1. HostedInv /\ [Next]_hostedVars =>
        [\A b \in Boots :
           /\ wr[b].life = "closing" /\ wr[b].left = Roles /\ ~Severed(wr[b].pair)
           /\ wr[b].supervisor \in {"starting", "healthy", "stopping"}
           /\ wr'[b].life # "exited"
           => \E r \in Roles : conn'[wr[b].pair][r].wrapper]_hostedVars
  BY RelaysStay DEF ShuttingDown
<1>2. QED
  BY <1>1, HostedInvariant, PTL DEF Spec, RelaysOutliveShutdown
=============================================================================
