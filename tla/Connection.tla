----------------------------- MODULE Connection -----------------------------
(***************************************************************************)
(* One WebSocket connection of the library: a TlsStream under a            *)
(* WebSocketClient under a WsSession.  The layers call each other          *)
(* synchronously, so a handler is modelled as a function from the          *)
(* connection before it to the connection after the whole chain of calls;  *)
(* the definitions follow the calls from the inside out.  An action is one *)
(* thing the event loop dispatches (a readiness event, a timer) or one     *)
(* call of the owner.                                                      *)
(*                                                                         *)
(* Bytes are abstracted to what they do: a write goes out or fails the     *)
(* stream (peer gone, send buffer limit), a read is a message, a close, or *)
(* the end of the connection.  Time is abstracted to the order in which    *)
(* timers fire, and silence to the number of heartbeats it has lasted.     *)
(***************************************************************************)
EXTENDS Integers, FiniteSets

CONSTANTS
  Topics,      \* subscriptions an owner may hold
  Secure,      \* wss:// or ws://
  Addresses,   \* addresses the host name resolves to
  MinDelay,    \* options_.reconnectMinDelayMs
  MaxDelay,    \* options_.reconnectMaxDelayMs
  StaleBeats,  \* heartbeats that fit in options_.staleTimeoutMs
  Faults,      \* what may go wrong (see FaultKinds)
  MaxFaults,   \* bound: how often something goes wrong
  MaxCalls     \* bound: calls of the owner

\* "unresolved": the name does not resolve.  "unreachable": connect(2) fails at
\* once for the first addresses tried; "noRoute": also for the ones tried after an
\* address that did not answer.  "refused", "timeout", "handshake", "badUpgrade",
\* "reset" and "closed" end an attempt or a connection.  "mute": the peer of
\* an open WebSocket stops talking; "muteUpgrade": it never answers the upgrade.
\* "writes": the next write fails.
FaultKinds == {"unresolved", "unreachable", "noRoute", "refused", "handshake", "badUpgrade",
               "timeout", "reset", "closed", "mute", "muteUpgrade", "writes"}

ASSUME ConnectionAssumption ==
  /\ Secure \in BOOLEAN
  /\ Addresses \in Nat \ {0}
  /\ MinDelay \in Nat \ {0} /\ MaxDelay \in Nat /\ MinDelay <= MaxDelay
  /\ StaleBeats \in Nat
  /\ Faults \subseteq FaultKinds
  /\ MaxFaults \in Nat /\ MaxCalls \in Nat

VARIABLES
  conn,    \* the three objects
  peer,    \* what the other end does with this socket
  faults,  \* faults left
  calls    \* calls of the owner left

vars == <<conn, peer, faults, calls>>

TlsStates == {"Idle", "Connecting", "Handshaking", "Open", "Closed"}
WsStates  == {"Idle", "Connecting", "Upgrading", "Open", "Closed"}

Connections ==
  [ tls            : TlsStates,        \* TlsStream::state_
    connectTimer   : BOOLEAN,          \* TlsStream::connectTimer_ # 0
    attemptsLeft   : 0 .. Addresses,   \* TlsStream::attemptsLeft_
    ws             : WsStates,         \* WebSocketClient::state_
    running        : BOOLEAN,          \* WsSession::running_
    reconnectTimer : BOOLEAN,          \* WsSession::reconnectTimer_ # 0
    heartbeatTimer : BOOLEAN,          \* WsSession::heartbeatTimer_ # 0
    beats          : Nat,              \* heartbeat timers armed in the event loop
    nextDelay      : MinDelay .. MaxDelay,
    quiet          : 0 .. StaleBeats,  \* heartbeats since lastRxMs_
    subscriptions  : SUBSET Topics,
    up             : BOOLEAN ]         \* the listener was told onSessionOpen last

\* jammed: the next write fails.  mute: nothing comes back.  topics: what the peer
\* was asked to send over this socket.
Peers == [jammed : BOOLEAN, mute : BOOLEAN, topics : SUBSET Topics]

FreshPeer == [jammed |-> FALSE, mute |-> FALSE, topics |-> {}]

-----------------------------------------------------------------------------
(***************************************************************************)
(* The way down: how the end of a stream reaches the owner.                *)
(***************************************************************************)

\* WsSession::disarm cancels the timers it has the ids of.
Disarm(c) ==
  [c EXCEPT !.reconnectTimer = FALSE, !.heartbeatTimer = FALSE,
            !.beats = IF c.heartbeatTimer THEN @ - 1 ELSE @]

\* Mutant: the delay doubles without limit.
UncappedReconnect(c) ==
  IF ~c.running \/ c.reconnectTimer THEN c
  ELSE [c EXCEPT !.reconnectTimer = TRUE, !.nextDelay = 2 * @]

ScheduleReconnect(c) ==
  IF ~c.running \/ c.reconnectTimer THEN c
  ELSE [c EXCEPT !.reconnectTimer = TRUE,
                 !.nextDelay = IF 2 * @ < MaxDelay THEN 2 * @ ELSE MaxDelay]

\* Mutant: the timers are canceled after the retry was armed.
DisarmLast(c) == Disarm([ScheduleReconnect(c) EXCEPT !.up = FALSE])

\* WsSession::onWsClosed.
OnWsClosed(c) == ScheduleReconnect([Disarm(c) EXCEPT !.up = FALSE])

\* WebSocketClient::onTlsClosed.
OnTlsClosed(c) ==
  IF c.ws \in {"Closed", "Idle"} THEN c ELSE OnWsClosed([c EXCEPT !.ws = "Closed"])

\* TlsStream::close, with release().
CloseStream(c) == [c EXCEPT !.connectTimer = FALSE, !.tls = "Closed"]

\* Mutant: the layer above is not told.
FailQuietly(c) == CloseStream(c)

\* TlsStream::fail.
FailStream(c) == IF c.tls = "Closed" THEN c ELSE OnTlsClosed(CloseStream(c))

\* WebSocketClient::fail.
FailWs(c) ==
  IF c.ws = "Closed" THEN c ELSE OnWsClosed([CloseStream(c) EXCEPT !.ws = "Closed"])

\* WebSocketClient::sendFrame: what a write leaves behind.
AfterWrite(c) == IF c.ws = "Open" /\ peer.jammed THEN FailStream(c) ELSE c

\* WebSocketClient::close says goodbye first.
CloseWs(c) == [CloseStream(AfterWrite(c)) EXCEPT !.ws = "Closed"]

-----------------------------------------------------------------------------
(***************************************************************************)
(* The way up: addresses, handshake, upgrade.                              *)
(***************************************************************************)

\* TlsStream::startAttempt when connect(2) fails at once for the first k addresses.
StartAttempt(c, k) ==
  IF k < c.attemptsLeft
    THEN [c EXCEPT !.attemptsLeft = @ - k - 1, !.tls = "Connecting", !.connectTimer = TRUE]
    ELSE [c EXCEPT !.attemptsLeft = 0, !.tls = "Closed"]

\* TlsStream::nextAddress.
NextAddress(c, k) ==
  LET closed  == [c EXCEPT !.connectTimer = FALSE]
      started == StartAttempt(closed, k)
  IN  IF c.attemptsLeft = 0 THEN FailStream(closed)
      ELSE IF started.tls = "Connecting" THEN started
      ELSE FailStream(started)

\* Mutant: a connect() that fails at once is not retried.
ConnectOnce(c, resolved, k) ==
  LET fresh == [CloseStream(c) EXCEPT !.attemptsLeft = Addresses]
      t     == IF resolved THEN StartAttempt(fresh, k) ELSE fresh
  IN  [t EXCEPT !.ws = IF t.tls = "Connecting" THEN "Connecting" ELSE "Closed"]

\* WsSession::connect through the layers; `resolved` is what getaddrinfo says.
Connect(c, resolved, k) ==
  LET fresh == [CloseStream(c) EXCEPT !.attemptsLeft = Addresses]
      t     == IF resolved THEN StartAttempt(fresh, k) ELSE fresh
  IN  IF t.tls = "Connecting" THEN [t EXCEPT !.ws = "Connecting"]
      ELSE ScheduleReconnect([t EXCEPT !.ws = "Closed"])

\* WebSocketClient::onTlsConnected sends the upgrade request.
OnTlsConnected(c) ==
  [c EXCEPT !.tls = "Open", !.connectTimer = FALSE, !.ws = "Upgrading"]

ArmHeartbeat(c) == [c EXCEPT !.heartbeatTimer = TRUE, !.beats = @ + 1]

\* WsSession::onWsOpen sends every subscription, arms the heartbeat and tells the owner.
OnWsOpen(c) ==
  LET open == [c EXCEPT !.ws = "Open", !.nextDelay = MinDelay, !.quiet = 0]
      sent == IF c.subscriptions = {} THEN open ELSE AfterWrite(open)
  IN  [ArmHeartbeat(sent) EXCEPT !.up = TRUE]

-----------------------------------------------------------------------------
(***************************************************************************)
(* What the event loop dispatches.                                         *)
(***************************************************************************)

Smooth == UNCHANGED faults

Fault(kind) ==
  /\ kind \in Faults
  /\ faults > 0
  /\ faults' = faults - 1

\* The connection becomes c; a new socket has a new peer.
Become(c) ==
  /\ conn' = c
  /\ peer' = IF c.tls = "Open" /\ conn.tls = "Open" THEN peer ELSE FreshPeer

\* The same, after asking the peer for exactly these topics.
BecomeSending(c, topics) ==
  /\ conn' = c
  /\ peer' = IF c.tls = "Open" THEN [peer EXCEPT !.topics = topics] ELSE FreshPeer

\* How a connect() from c goes: an attempt is under way, the name does not
\* resolve, or connect(2) fails at once for some or all addresses.
Attempting(c) ==
  \/ Smooth /\ Become(Connect(c, TRUE, 0))
  \/ Fault("unresolved") /\ Become(Connect(c, FALSE, 0))
  \/ \E k \in 1 .. Addresses : Fault("unreachable") /\ Become(Connect(c, TRUE, k))

\* TlsStream::onConnectReady without an error.
ConnectReady ==
  /\ conn.tls = "Connecting"
  /\ Become(IF Secure THEN [conn EXCEPT !.tls = "Handshaking", !.connectTimer = TRUE]
            ELSE OnTlsConnected(conn))
  /\ Smooth
  /\ UNCHANGED calls

\* How many of the remaining addresses fail at once after this one failed.
Unroutable == 0 .. (IF "noRoute" \in Faults THEN conn.attemptsLeft ELSE 0)

ConnectRefused ==
  /\ conn.tls = "Connecting"
  /\ Fault("refused")
  /\ \E k \in Unroutable : Become(NextAddress(conn, k))
  /\ UNCHANGED calls

\* The timer startAttempt() and onConnectReady() arm.
ConnectTimeout ==
  LET c == [conn EXCEPT !.connectTimer = FALSE]
  IN  /\ conn.connectTimer
      /\ Fault("timeout")
      /\ \/ conn.tls = "Connecting" /\ \E k \in Unroutable : Become(NextAddress(c, k))
         \/ conn.tls = "Handshaking" /\ Become(FailStream(c))
      /\ UNCHANGED calls

\* TlsStream::doHandshake.
HandshakeDone ==
  /\ conn.tls = "Handshaking"
  /\ Become(OnTlsConnected(conn))
  /\ Smooth
  /\ UNCHANGED calls

HandshakeFails ==
  /\ conn.tls = "Handshaking"
  /\ Fault("handshake")
  /\ Become(FailStream(conn))
  /\ UNCHANGED calls

\* WebSocketClient::handleUpgradeResponse.
UpgradeAnswered ==
  /\ conn.ws = "Upgrading"
  /\ ~peer.mute
  /\ BecomeSending(OnWsOpen(conn), conn.subscriptions)
  /\ Smooth
  /\ UNCHANGED calls

UpgradeRefused ==
  /\ conn.ws = "Upgrading"
  /\ ~peer.mute
  /\ Fault("badUpgrade")
  /\ Become(FailWs(conn))
  /\ UNCHANGED calls

\* TlsStream::doRead meets the end of the stream, whatever is above.
StreamEnds ==
  /\ conn.tls = "Open"
  /\ Fault("reset")
  /\ Become(FailStream(conn))
  /\ UNCHANGED calls

\* WebSocketClient::onWsControl: a close frame, answered in kind; a protocol error
\* ends the same way without the answer.
PeerCloses ==
  /\ conn.ws = "Open"
  /\ Fault("closed")
  /\ Become(FailWs(AfterWrite(conn)))
  /\ UNCHANGED calls

\* WebSocketClient::onWsControl: a ping is answered.
PeerPings ==
  /\ conn.ws = "Open"
  /\ ~peer.mute
  /\ peer.jammed
  /\ Become(AfterWrite(conn))
  /\ Smooth
  /\ UNCHANGED calls

PeerGoesMute ==
  /\ conn.ws \in {"Open", "Upgrading"}
  /\ ~peer.mute
  /\ Fault(IF conn.ws = "Open" THEN "mute" ELSE "muteUpgrade")
  /\ peer' = [peer EXCEPT !.mute = TRUE]
  /\ UNCHANGED <<conn, calls>>

WritesJam ==
  /\ conn.tls = "Open"
  /\ ~peer.jammed
  /\ Fault("writes")
  /\ peer' = [peer EXCEPT !.jammed = TRUE]
  /\ UNCHANGED <<conn, calls>>

\* The timer armHeartbeat() arms: silence closes the socket, a ping goes out
\* otherwise and is answered unless the peer is mute.
HeartbeatFires ==
  LET c == [conn EXCEPT !.beats = @ - 1, !.heartbeatTimer = FALSE]
  IN  /\ conn.beats > 0
      /\ Become(IF c.ws # "Open" THEN c
                ELSE IF c.quiet = StaleBeats THEN OnWsClosed(CloseWs(c))
                ELSE ArmHeartbeat(AfterWrite([c EXCEPT !.quiet = IF peer.mute THEN @ + 1 ELSE 0])))
      /\ Smooth
      /\ UNCHANGED calls

\* The timer scheduleReconnect() arms.
ReconnectFires ==
  LET c == [conn EXCEPT !.reconnectTimer = FALSE]
  IN  /\ conn.reconnectTimer
      /\ IF c.running /\ c.ws # "Open" THEN Attempting(c) ELSE Become(c) /\ Smooth
      /\ UNCHANGED calls

-----------------------------------------------------------------------------
(***************************************************************************)
(* What the owner calls.                                                   *)
(***************************************************************************)

Call ==
  /\ calls > 0
  /\ calls' = calls - 1

Start ==
  /\ Call
  /\ ~conn.running
  /\ Attempting([conn EXCEPT !.running = TRUE, !.nextDelay = MinDelay])

\* Mutant: the timers survive.
StopWithTimers ==
  /\ Call
  /\ Become(CloseWs([conn EXCEPT !.running = FALSE]))
  /\ Smooth

Stop ==
  /\ Call
  /\ Become(CloseWs(Disarm([conn EXCEPT !.running = FALSE])))
  /\ Smooth

\* Mutant: the topic is stored for the next connection only.
SubscribeLater(t) ==
  /\ Call
  /\ t \notin conn.subscriptions
  /\ Become([conn EXCEPT !.subscriptions = @ \cup {t}])
  /\ Smooth

Subscribe(t) ==
  LET c == [conn EXCEPT !.subscriptions = @ \cup {t}]
  IN  /\ Call
      /\ t \notin conn.subscriptions
      /\ IF conn.ws = "Open" THEN BecomeSending(AfterWrite(c), c.subscriptions) ELSE Become(c)
      /\ Smooth

Unsubscribe(t) ==
  LET c == [conn EXCEPT !.subscriptions = @ \ {t}]
  IN  /\ Call
      /\ t \in conn.subscriptions
      /\ IF conn.ws = "Open" THEN BecomeSending(AfterWrite(c), c.subscriptions) ELSE Become(c)
      /\ Smooth

ClearSubscriptions ==
  LET c == [conn EXCEPT !.subscriptions = {}]
  IN  /\ Call
      /\ IF conn.ws = "Open" /\ conn.subscriptions # {}
           THEN BecomeSending(AfterWrite(c), {})
           ELSE Become(c)
      /\ Smooth

\* send(): any other text frame.
SendText ==
  /\ Call
  /\ Become(AfterWrite(conn))
  /\ Smooth

\* Mutant: the socket is replaced behind the owner's back.
ReconnectSilently ==
  /\ Call
  /\ conn.running
  /\ Become(ScheduleReconnect(Disarm(CloseWs([conn EXCEPT !.nextDelay = MinDelay]))))
  /\ Smooth

ReconnectNow ==
  LET c == [conn EXCEPT !.nextDelay = MinDelay]
  IN  /\ Call
      /\ conn.running
      /\ Become(IF conn.ws = "Open" THEN OnWsClosed(CloseWs(c))
                ELSE ScheduleReconnect(Disarm(CloseWs(c))))
      /\ Smooth

-----------------------------------------------------------------------------

Init ==
  /\ conn = [ tls |-> "Idle", connectTimer |-> FALSE, attemptsLeft |-> 0, ws |-> "Idle",
              running |-> FALSE, reconnectTimer |-> FALSE, heartbeatTimer |-> FALSE, beats |-> 0,
              nextDelay |-> MinDelay, quiet |-> 0, subscriptions |-> {}, up |-> FALSE ]
  /\ peer = FreshPeer
  /\ faults = MaxFaults
  /\ calls = MaxCalls

\* The event loop keeps dispatching, and a peer that works answers.
Progress ==
  ConnectReady \/ HandshakeDone \/ UpgradeAnswered \/ HeartbeatFires \/ ReconnectFires

Misfortune ==
  \/ ConnectRefused \/ ConnectTimeout \/ HandshakeFails \/ UpgradeRefused
  \/ StreamEnds \/ PeerCloses \/ PeerPings \/ PeerGoesMute \/ WritesJam

OwnerStep ==
  \/ Start \/ Stop \/ ReconnectNow \/ SendText
  \/ \E t \in Topics : Subscribe(t) \/ Unsubscribe(t)
  \/ ClearSubscriptions

Next == Progress \/ Misfortune \/ OwnerStep

Spec == Init /\ [][Next]_vars

\* Heartbeats alone must not count as progress: each kind of step is served.
FairSpec ==
  /\ Spec
  /\ WF_vars(ConnectReady) /\ WF_vars(HandshakeDone) /\ WF_vars(UpgradeAnswered)
  /\ WF_vars(HeartbeatFires) /\ WF_vars(ReconnectFires)

-----------------------------------------------------------------------------
(***************************************************************************)
(* Properties.                                                             *)
(***************************************************************************)

\* The members keep their types, and the backoff its limits.
TypeOK ==
  /\ conn \in Connections
  /\ peer \in Peers
  /\ faults \in 0 .. MaxFaults
  /\ calls \in 0 .. MaxCalls

\* The end of a stream is reported to the layer above, whatever ended it: nobody
\* waits on a stream that is closed (TlsStream::fail, nextAddress).
DeathReported == conn.tls = "Closed" => conn.ws \in {"Closed", "Idle"}

\* A session that is running and not in the middle of the upgrade has a timer that
\* gets it out of the state it is in: the retry when it is down, the connect
\* timeout while it connects, the heartbeat while it is open.
NoSilentWait ==
  conn.running =>
    /\ conn.ws = "Closed" => conn.reconnectTimer
    /\ conn.tls \in {"Connecting", "Handshaking"} => conn.connectTimer
    /\ conn.ws = "Open" => conn.beats >= 1

\* An open session has asked its peer for exactly the topics its owner holds now,
\* however subscriptions and reconnects interleave (subscribe, onWsOpen).
SubscriptionsReplayed == conn.ws = "Open" => peer.topics = conn.subscriptions

\* A stopped session stays down: nothing is left that would connect it again.
StopIsFinal ==
  ~conn.running =>
    /\ ~conn.reconnectTimer /\ ~conn.connectTimer
    /\ conn.tls \in {"Idle", "Closed"}

\* Every way to lose an open session but stop() tells the owner, who must give up
\* on what it sent over it (onWsClosed; ExchangeClient::onSessionClosed).
LossReported ==
  [][ conn.ws = "Open" /\ conn'.ws # "Open" /\ conn'.running => ~conn'.up ]_vars

\* The session heals itself: while it runs, it is open again and again.
Recovers == conn.running ~> (conn.ws = "Open" \/ ~conn.running)

=============================================================================
