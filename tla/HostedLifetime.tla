--------------------------- MODULE HostedLifetime ---------------------------
(***************************************************************************)
(* The one-shot lifetime of a Foundry-hosted supervisor (internal/hosted): *)
(* the gateway process with its ledger file, the wrapper process in the    *)
(* hosted container with its pair of channels and its one supervisor, and  *)
(* (external) the provider's session, its containers and the network.      *)
(*                                                                         *)
(* A gateway attempt is a gateway process; its number stands for the pair  *)
(* id it signs.  A boot is a wrapper process; its number stands for the    *)
(* challenge.  Signatures, digests and HTTP relaying are left out: a hello *)
(* or bootstrap that reaches a wrapper was made for its challenge.         *)
(***************************************************************************)
EXTENDS Naturals, FiniteSets

CONSTANTS MaxAttempts,  \* bound on gateway processes
          MaxWrappers   \* bound on wrapper processes

ASSUME HostedAssumption == MaxAttempts \in Nat \ {0} /\ MaxWrappers \in Nat \ {0}

Attempts == 1..MaxAttempts
Boots == 1..MaxWrappers
Roles == {"forward", "reverse"}

VARIABLES
  gw,       \* the gateway process: step, attempt, ledger in memory, boot it dialed
  file,     \* its state.json
  session,  \* the provider's session (external)
  conn,     \* conn[a][r]: the channel of role r that attempt a opened
  wr        \* wr[b]: the wrapper process, its hostedPair and its supervisor

hostedVars == <<gw, file, session, conn, wr>>

GatewaySteps ==
  {"down", "session", "create", "creating", "dialForward", "dialReverse",
   "helloForward", "ackForward", "helloReverse", "ackReverse", "expose", "seed",
   "awaitReady", "capabilities", "markReady", "ready", "closing"}

(* hostedGatewayLedger: exposed is the boot named by the recorded          *)
(* challenge, 0 when ExposurePossible is false.                            *)
Ledger == [attempted: BOOLEAN, created: BOOLEAN, exposed: 0..MaxWrappers,
           pair: 0..MaxAttempts, ready: BOOLEAN, closed: BOOLEAN]

SessionStatus == {"absent", "creating", "refused", "active"}

(* sent and answer are the last messages written to the wrapper and to the *)
(* gateway; gateway and wrapper tell which end still has it open.          *)
Channel == [boot: 0..MaxWrappers, gateway: BOOLEAN, wrapper: BOOLEAN,
            sent: {"none", "hello", "bootstrap"}, answer: {"none", "ack", "ready"}]

(* claimed, acked: the roles whose hello was claimed and acknowledged; left*)
(* those whose handlers have seen the start and wait for the end alone.    *)
Supervisors == {"none", "starting", "healthy", "stopping", "stuck", "exited"}
Wrapper == [life: {"unborn", "up", "closing", "exited"}, pair: 0..MaxAttempts,
            claimed: SUBSET Roles, acked: SUBSET Roles, bootstrap: BOOLEAN,
            running: BOOLEAN, left: SUBSET Roles, supervisor: Supervisors]

TypeOK ==
  /\ gw \in [pc: GatewaySteps, attempt: 0..MaxAttempts, ledger: Ledger, boot: 0..MaxWrappers]
  /\ file \in Ledger
  /\ session \in SessionStatus
  /\ conn \in [Attempts -> [Roles -> Channel]]
  /\ wr \in [Boots -> Wrapper]
  /\ \A b \in Boots :
       /\ wr[b].claimed # {} => wr[b].pair # 0
       /\ wr[b].acked \subseteq wr[b].claimed
       /\ wr[b].running => wr[b].acked = Roles /\ wr[b].bootstrap

FreshLedger == [attempted |-> FALSE, created |-> FALSE, exposed |-> 0,
                pair |-> 0, ready |-> FALSE, closed |-> FALSE]
Unopened == [boot |-> 0, gateway |-> FALSE, wrapper |-> FALSE,
             sent |-> "none", answer |-> "none"]
Unborn == [life |-> "unborn", pair |-> 0, claimed |-> {}, acked |-> {},
           bootstrap |-> FALSE, running |-> FALSE, left |-> {},
           supervisor |-> "none"]

Init ==
  /\ gw = [pc |-> "down", attempt |-> 0, ledger |-> FreshLedger, boot |-> 0]
  /\ file = FreshLedger
  /\ session = "absent"
  /\ conn = [a \in Attempts |-> [r \in Roles |-> Unopened]]
  /\ wr = [b \in Boots |-> Unborn]

-----------------------------------------------------------------------------
(* The gateway: newHostedGateway, initialize, ensureSession, close.        *)

(* hostedGatewayLedgerValid.                                               *)
LedgerValid(l) ==
  /\ l.created => l.attempted
  /\ l.ready => l.exposed # 0
  /\ IF l.exposed = 0 THEN l.pair = 0 /\ ~l.closed ELSE l.created /\ l.pair # 0

Goto(pc) == gw' = [gw EXCEPT !.pc = pc]

\* Mutant: a failed save is ignored.
SaveAnd_IgnoresFailure(next, pc) ==
  file' \in {file, next} /\ gw' = [gw EXCEPT !.ledger = next, !.pc = pc]

(* store.save: a failed save leaves the old or the new file, keeps the old *)
(* ledger in memory and ends the attempt.                                  *)
SaveAnd(next, pc) ==
  \/ file' = next /\ gw' = [gw EXCEPT !.ledger = next, !.pc = pc]
  \/ file' \in {file, next} /\ Goto("closing")

MayStart == LedgerValid(file) /\ file.exposed = 0

StartGateway ==
  /\ gw.pc = "down" /\ gw.attempt < MaxAttempts /\ MayStart
  /\ gw' = [pc |-> "session", attempt |-> gw.attempt + 1, ledger |-> file, boot |-> 0]
  /\ UNCHANGED <<file, session, conn, wr>>

\* Mutant: an attempted creation that GET does not show is tried again.
MayCreate_Again(l) == ~l.created
MayCreate(l) == ~l.attempted

(* The session answered 404 and the request is prepared: its intent is     *)
(* saved before it is sent.                                                *)
CreateIntent ==
  /\ gw.pc = "session" /\ MayCreate(gw.ledger) /\ session # "active"
  /\ SaveAnd([gw.ledger EXCEPT !.attempted = TRUE], "create")
  /\ UNCHANGED <<session, conn, wr>>

SendCreate ==
  /\ gw.pc = "create"
  /\ session' = "creating" /\ Goto("creating")
  /\ UNCHANGED <<file, conn, wr>>

(* A definite rejection is saved, and ends this attempt.                   *)
CreateRejected ==
  /\ gw.pc = "creating" /\ session = "refused"
  /\ SaveAnd([gw.ledger EXCEPT !.attempted = FALSE], "closing")
  /\ UNCHANGED <<session, conn, wr>>

CreateAcknowledged ==
  /\ gw.pc = "creating" /\ session = "active"
  /\ SaveAnd([gw.ledger EXCEPT !.created = TRUE], "dialForward")
  /\ UNCHANGED <<session, conn, wr>>

\* A session whose creation was acknowledged to an earlier attempt.
SessionKnown ==
  /\ gw.pc = "session" /\ gw.ledger.created /\ session = "active"
  /\ Goto("dialForward")
  /\ UNCHANGED <<file, session, conn, wr>>

Opened(b) == [Unopened EXCEPT !.boot = b, !.gateway = TRUE, !.wrapper = TRUE]


(* openChannel: the provider routes the channel to a wrapper, whose        *)
(* challenge is read.                                                      *)
Dial(b) ==
  /\ wr[b].life = "up" /\ session = "active"
  /\ \/ /\ gw.pc = "dialForward"
        /\ conn' = [conn EXCEPT ![gw.attempt]["forward"] = Opened(b)]
        /\ gw' = [gw EXCEPT !.pc = "dialReverse", !.boot = b]
     \/ /\ gw.pc = "dialReverse"
        /\ conn' = [conn EXCEPT ![gw.attempt]["reverse"] = Opened(b)]
        /\ Goto(IF b = gw.boot THEN "helloForward" ELSE "closing")
  /\ UNCHANGED <<file, session, wr>>

Sends(r, message, from, to) ==
  /\ gw.pc = from /\ Goto(to)
  /\ conn' = [conn EXCEPT ![gw.attempt][r].sent = message]
  /\ UNCHANGED <<file, session, wr>>

Reads(r, message, from, to) ==
  /\ gw.pc = from /\ Goto(to)
  /\ conn[gw.attempt][r].gateway /\ conn[gw.attempt][r].answer = message
  /\ UNCHANGED <<file, session, conn, wr>>

SendHello == Sends("forward", "hello", "helloForward", "ackForward")
             \/ Sends("reverse", "hello", "helloReverse", "ackReverse")
ReadAck == Reads("forward", "ack", "ackForward", "helloReverse")
           \/ Reads("reverse", "ack", "ackReverse", "expose")

Exposed(l) == [l EXCEPT !.exposed = gw.boot, !.pair = gw.attempt]

(* Possible exposure is recorded before the first bootstrap byte.          *)
Expose ==
  /\ gw.pc = "expose"
  /\ SaveAnd(Exposed(gw.ledger), "seed")
  /\ UNCHANGED <<session, conn, wr>>

Seed == Sends("forward", "bootstrap", "seed", "awaitReady")
ReadReady == Reads("forward", "ready", "awaitReady", "capabilities")

\* The supervisor answers through the forward channel.
CheckCapabilities ==
  /\ gw.pc = "capabilities" /\ Goto("markReady")
  /\ conn[gw.attempt]["forward"].gateway /\ conn[gw.attempt]["forward"].wrapper
  /\ wr[gw.boot].supervisor = "healthy"
  /\ UNCHANGED <<file, session, conn, wr>>

MarkReady ==
  /\ gw.pc = "markReady"
  /\ SaveAnd([gw.ledger EXCEPT !.ready = TRUE], "ready")
  /\ UNCHANGED <<session, conn, wr>>

(* Any step of initialization may fail or time out.                        *)
InitializationFails ==
  /\ gw.pc \notin {"down", "ready", "closing"} /\ Goto("closing")
  /\ UNCHANGED <<file, session, conn, wr>>

Severed(a) == \E r \in Roles : ~conn[a][r].gateway \/ ~conn[a][r].wrapper

\* Mutant: an end that the wrapper closed does not count as a loss.
GatewayObserves_OwnEnds == \E r \in Roles : ~conn[gw.attempt][r].gateway
GatewayObserves == Severed(gw.attempt)

(* A ready gateway closes when it is stopped or either channel is lost.    *)
LeaveReady ==
  /\ gw.pc = "ready" /\ Goto("closing")
  /\ UNCHANGED <<file, session, conn, wr>>

ObserveLoss == LeaveReady /\ GatewayObserves

\* The process ends: its memory goes, and its ends of the channels close.
Down ==
  /\ gw' = [pc |-> "down", attempt |-> gw.attempt, ledger |-> FreshLedger, boot |-> 0]
  /\ conn' = [conn EXCEPT ![gw.attempt] =
                [r \in Roles |-> [@[r] EXCEPT !.gateway = FALSE]]]

\* Mutant: closing forgets the exposure.
ClosedLedger_Forgets(l) == FreshLedger
ClosedLedger(l) == [l EXCEPT !.closed = TRUE]

CloseGateway ==
  /\ gw.pc = "closing"
  /\ IF gw.ledger.exposed # 0
       THEN file' \in {file, ClosedLedger(gw.ledger)} ELSE UNCHANGED file
  /\ Down
  /\ UNCHANGED <<session, wr>>

CrashGateway ==
  /\ gw.pc # "down" /\ Down
  /\ UNCHANGED <<file, session, wr>>

Gateway ==
  \/ StartGateway \/ CreateIntent \/ SendCreate \/ CreateRejected \/ CreateAcknowledged
  \/ SessionKnown \/ SendHello \/ ReadAck \/ Expose \/ Seed \/ ReadReady
  \/ CheckCapabilities \/ MarkReady \/ InitializationFails \/ ObserveLoss \/ LeaveReady
  \/ CloseGateway \/ CrashGateway
  \/ \E b \in Boots : Dial(b)

-----------------------------------------------------------------------------
(* The wrapper: hostedServer and hostedPair.                               *)

Alive(b) == wr[b].life \in {"up", "closing"}

BootWrapper(b) ==
  /\ session = "active" /\ wr[b].life = "unborn"
  /\ \A x \in Boots : x < b => wr[x].life # "unborn"
  /\ wr' = [wr EXCEPT ![b].life = "up"]
  /\ UNCHANGED <<gw, file, session, conn>>

Claimable(b, a, r) ==
  /\ wr[b].life = "up" /\ wr[b].pair \in {0, a} /\ ~wr[b].running
  /\ r \notin wr[b].claimed

(* claim: the first hello makes the lifetime's only pair; a hello of       *)
(* another pair, for a claimed role or after closing loses its channel.    *)
Claim(b, a, r) ==
  LET c == conn[a][r] IN
  /\ Alive(b) /\ c.boot = b /\ c.wrapper /\ c.sent = "hello"
  /\ ~(wr[b].pair = a /\ r \in wr[b].claimed)
  /\ IF Claimable(b, a, r)
       THEN /\ wr' = [wr EXCEPT ![b].pair = a, ![b].claimed = @ \cup {r}]
            /\ UNCHANGED conn
       ELSE /\ conn' = [conn EXCEPT ![a][r].wrapper = FALSE]
            /\ UNCHANGED wr
  /\ UNCHANGED <<gw, file, session>>

\* The acknowledgement is written and then noted.
WriteAck(b, r) ==
  LET c == conn[wr[b].pair][r] IN
  /\ Alive(b) /\ r \in wr[b].claimed /\ c.wrapper /\ c.answer = "none"
  /\ conn' = [conn EXCEPT ![wr[b].pair][r].answer = "ack"]
  /\ UNCHANGED <<gw, file, session, wr>>

NoteAck(b, r) ==
  /\ Alive(b) /\ r \in wr[b].claimed \ wr[b].acked /\ conn[wr[b].pair][r].answer = "ack"
  /\ wr' = [wr EXCEPT ![b].acked = @ \cup {r}]
  /\ UNCHANGED <<gw, file, session, conn>>

ReadBootstrap(b) ==
  /\ Alive(b) /\ "forward" \in wr[b].acked /\ ~wr[b].bootstrap
  /\ conn[wr[b].pair]["forward"].wrapper /\ conn[wr[b].pair]["forward"].sent = "bootstrap"
  /\ wr' = [wr EXCEPT ![b].bootstrap = TRUE]
  /\ UNCHANGED <<gw, file, session, conn>>

\* Mutant: the start does not wait for the bootstrap.
StartReady_Unseeded(b) == wr[b].acked = Roles
StartReady(b) == wr[b].acked = Roles /\ wr[b].bootstrap

(* maybeStart, which the handlers of both channels call.                   *)
MaybeStart(b) ==
  /\ wr[b].life = "up" /\ ~wr[b].running /\ StartReady(b)
  /\ wr' = [wr EXCEPT ![b].running = TRUE]
  /\ UNCHANGED <<gw, file, session, conn>>

(* close: ends the lifetime and both channels.                             *)
ClosePair(b) ==
  /\ wr' = [wr EXCEPT ![b].life = IF @ = "up" THEN "closing" ELSE @]
  /\ conn' = IF wr[b].pair = 0 THEN conn
             ELSE [conn EXCEPT ![wr[b].pair] = [r \in Roles |->
                     [conn[wr[b].pair][r] EXCEPT !.wrapper = @ /\ r \notin wr[b].claimed]]]
  /\ UNCHANGED <<gw, file, session>>

\* Mutant: a handler closes the pair on shutdown although it runs.
SetupOver_EvenRunning(b) == wr[b].pair # 0
SetupOver(b) == wr[b].pair # 0 /\ wr[b].left # Roles

(* A handler gives up before the supervisor was started: a failed write or *)
(* read, an invalid bootstrap, shutdown, or the setup deadline, which may  *)
(* also win against a start that the handler has not seen yet.             *)
SetupFails(b) ==
  /\ Alive(b) /\ SetupOver(b) /\ ClosePair(b)

HandlerSeesStart(b, r) ==
  /\ Alive(b) /\ wr[b].running
  /\ wr' = [wr EXCEPT ![b].left = @ \cup {r}]
  /\ UNCHANGED <<gw, file, session, conn>>

(* run: the relays and the supervisor process are started, or a local      *)
(* failure or a cancelled lifetime closes the pair.                        *)
LaunchSupervisor(b) ==
  /\ wr[b].life = "up" /\ wr[b].running /\ wr[b].supervisor = "none"
  /\ wr' = [wr EXCEPT ![b].supervisor = "starting"]
  /\ UNCHANGED <<gw, file, session, conn>>

LaunchFails(b) ==
  /\ Alive(b) /\ wr[b].running /\ wr[b].supervisor = "none"
  /\ ClosePair(b)

SupervisorHealthy(b) ==
  /\ wr[b].supervisor = "starting"
  /\ wr' = [wr EXCEPT ![b].supervisor = "healthy"]
  /\ UNCHANGED <<gw, file, session, conn>>

SendReady(b) ==
  /\ Alive(b) /\ wr[b].supervisor = "healthy"
  /\ conn[wr[b].pair]["forward"].wrapper
  /\ conn' = [conn EXCEPT ![wr[b].pair]["forward"].answer = "ready"]
  /\ UNCHANGED <<gw, file, session, wr>>

(* Shutdown of the container, or health that never comes: the lifetime is  *)
(* cancelled and the channels stay.                                        *)
CancelLifetime(b) ==
  /\ wr[b].life = "up"
  /\ wr' = [wr EXCEPT ![b].life = "closing"]
  /\ UNCHANGED <<gw, file, session, conn>>

\* Mutant: the wrapper watches the forward channel alone.
WrapperObserves_ForwardOnly(b) == ~conn[wr[b].pair]["forward"].gateway
WrapperObserves(b) == Severed(wr[b].pair)

(* A lost channel closes the pair at once.                                 *)
ObserveSevered(b) ==
  /\ Alive(b) /\ wr[b].running /\ WrapperObserves(b) /\ ClosePair(b)

(* waitHostedSupervisorProcess: SIGTERM, after the grace SIGKILL, and a    *)
(* process that survives even that is given up.                            *)
TerminateSupervisor(b) ==
  /\ wr[b].life = "closing" /\ wr[b].supervisor \in {"starting", "healthy"}
  /\ wr' = [wr EXCEPT ![b].supervisor = "stopping"]
  /\ UNCHANGED <<gw, file, session, conn>>

KillTimesOut(b) ==
  /\ wr[b].supervisor = "stopping"
  /\ wr' = [wr EXCEPT ![b].supervisor = "stuck"]
  /\ UNCHANGED <<gw, file, session, conn>>

SupervisorExits(b) ==
  /\ wr[b].supervisor \in {"starting", "healthy", "stopping", "stuck"}
  /\ wr' = [wr EXCEPT ![b].supervisor = "exited"]
  /\ UNCHANGED <<gw, file, session, conn>>

Over == {"none", "stuck", "exited"}

\* Mutant: the wait for the supervisor is not bounded.
JoinSupervisor_WaitsForExit(b) ==
  /\ Alive(b) /\ wr[b].supervisor = "exited" /\ ClosePair(b)

(* joinSupervisor: once the supervisor ended or was given up the pair is   *)
(* closed.                                                                 *)
JoinSupervisor(b) ==
  /\ Alive(b) /\ wr[b].supervisor \in {"stuck", "exited"} /\ ClosePair(b)

PairClosed(b) ==
  wr[b].pair # 0 => \A r \in wr[b].claimed : ~conn[wr[b].pair][r].wrapper

\* Its memory goes; pair and supervisor stay as what it was.
Exited(w) ==
  [Unborn EXCEPT !.life = "exited", !.pair = w.pair,
                 !.supervisor = IF w.supervisor = "none" THEN "none" ELSE "exited"]

Disconnected(b) ==
  [a \in Attempts |-> [r \in Roles |->
     [conn[a][r] EXCEPT !.wrapper = @ /\ conn[a][r].boot # b]]]

(* The wrapper ends; its supervisor dies with it (Pdeathsig).              *)
ExitWrapper(b) ==
  /\ wr[b].life = "closing" /\ wr[b].supervisor \in Over /\ PairClosed(b)
  /\ wr' = [wr EXCEPT ![b] = Exited(@)] /\ conn' = Disconnected(b)
  /\ UNCHANGED <<gw, file, session>>

CrashWrapper(b) ==
  /\ Alive(b)
  /\ wr' = [wr EXCEPT ![b] = Exited(@)] /\ conn' = Disconnected(b)
  /\ UNCHANGED <<gw, file, session>>

Hosted(b) ==
  \/ BootWrapper(b) \/ ReadBootstrap(b) \/ MaybeStart(b) \/ SetupFails(b)
  \/ LaunchSupervisor(b) \/ LaunchFails(b) \/ SupervisorHealthy(b) \/ SendReady(b)
  \/ CancelLifetime(b) \/ ObserveSevered(b) \/ TerminateSupervisor(b) \/ KillTimesOut(b)
  \/ SupervisorExits(b) \/ JoinSupervisor(b) \/ ExitWrapper(b) \/ CrashWrapper(b)
  \/ \E r \in Roles : WriteAck(b, r) \/ NoteAck(b, r) \/ HandlerSeesStart(b, r)
  \/ \E a \in Attempts, r \in Roles : Claim(b, a, r)

-----------------------------------------------------------------------------
(* The provider and the network (external).                                *)

CreateLands ==
  /\ session = "creating" /\ session' \in {"active", "refused"}
  /\ UNCHANGED <<gw, file, conn, wr>>

(* A channel breaks: one end loses it, and the other finds it severed.     *)
BreakChannel(a, r) ==
  /\ conn[a][r].gateway /\ conn[a][r].wrapper
  /\ \E end \in {"gateway", "wrapper"} : conn' = [conn EXCEPT ![a][r][end] = FALSE]
  /\ UNCHANGED <<gw, file, session, wr>>

Next ==
  \/ Gateway
  \/ \E b \in Boots : Hosted(b)
  \/ CreateLands
  \/ \E a \in Attempts, r \in Roles : BreakChannel(a, r)

Spec == Init /\ [][Next]_hostedVars

(* Fairness.  Watchers, deadlines and the signals of the process supervisor*)
(* are not put off for ever; nothing is assumed of the gateway's own steps *)
(* but that it observes a loss, nor of the provider or the network.        *)
HandlersMove(b) == SetupFails(b) \/ \E r \in Roles : HandlerSeesStart(b, r)

Fairness ==
  /\ WF_hostedVars(ObserveLoss)
  /\ \A b \in Boots :
       /\ WF_hostedVars(HandlersMove(b)) /\ WF_hostedVars(ObserveSevered(b))
       /\ WF_hostedVars(LaunchSupervisor(b) \/ LaunchFails(b))
       /\ WF_hostedVars(TerminateSupervisor(b))
       /\ WF_hostedVars(wr[b].supervisor = "stopping" /\ (KillTimesOut(b) \/ SupervisorExits(b)))
       /\ WF_hostedVars(JoinSupervisor(b)) /\ WF_hostedVars(ExitWrapper(b))

FairSpec == Spec /\ Fairness

-----------------------------------------------------------------------------
(* Safety.                                                                 *)

(* A bootstrap that may have left the gateway is named by the file, with   *)
(* the attempt and the boot it was sent to, whatever was saved or lost     *)
(* since (initialize, close): so at most one was ever sent.                *)
ExposureIsRecorded ==
  \A a \in Attempts :
    conn[a]["forward"].sent = "bootstrap" =>
      file.exposed = conn[a]["forward"].boot /\ file.pair = a

(* Every supervisor that was ever started is the one the file names, over  *)
(* all gateway and wrapper processes, and both channels of its pair were   *)
(* opened by that attempt to that wrapper (claim, maybeStart).             *)
OneSupervisor ==
  \A b \in Boots :
    wr[b].supervisor # "none" =>
      /\ file.exposed = b /\ file.pair = wr[b].pair
      /\ \A r \in Roles : conn[wr[b].pair][r].boot = b

(* The gateway serves only behind the supervisor that its own bootstrap    *)
(* started and that was healthy, with the record of it in the file.        *)
ReadyIsEarned ==
  gw.pc = "ready" =>
    /\ wr[gw.boot].supervisor \notin {"none", "starting"}
    /\ wr[gw.boot].pair = gw.attempt
    /\ file.ready /\ file.exposed = gw.boot

(* The session is created again only when no earlier creation can still    *)
(* have made it (ensureSession).                                           *)
OneCreation ==
  [][gw.pc = "create" /\ gw'.pc = "creating" => session \in {"absent", "refused"}]_hostedVars

(* At most one supervisor lives behind the record, and a gateway serves    *)
(* only behind it: the three links of the chain from exposure to service.  *)
OneLifetime == ExposureIsRecorded /\ OneSupervisor /\ ReadyIsEarned

(* A local shutdown leaves both healthy channels to the supervisor until it*)
(* has ended or could not be killed: its cleanup needs the relays (run,    *)
(* ServeHTTP, joinSupervisor).                                             *)
RelaysOutliveShutdown ==
  [][\A b \in Boots :
       /\ wr[b].life = "closing" /\ wr[b].left = Roles /\ ~Severed(wr[b].pair)
       /\ wr[b].supervisor \in {"starting", "healthy", "stopping"}
       /\ wr'[b].life # "exited"
       => \E r \in Roles : conn'[wr[b].pair][r].wrapper]_hostedVars

-----------------------------------------------------------------------------
(* Liveness, under FairSpec.                                               *)

(* The loss of either channel ends the lifetime and its supervisor.        *)
LossEndsSupervisor ==
  \A b \in Boots :
    wr[b].running /\ Severed(wr[b].pair) ~> wr[b].life # "up" /\ wr[b].supervisor \in Over

(* A gateway does not serve for ever behind a lost channel.                *)
LossEndsGateway == gw.pc = "ready" /\ Severed(gw.attempt) ~> gw.pc # "ready"

(* A cancelled lifetime ends, also when its supervisor cannot be killed.   *)
ShutdownEnds == \A b \in Boots : wr[b].life = "closing" ~> wr[b].life = "exited"

(* Both ends of a lifetime come down, whichever of them is told first.     *)
LifetimeEnds == LossEndsSupervisor /\ LossEndsGateway /\ ShutdownEnds
=============================================================================
