-------------------------- MODULE ConnectionProofs --------------------------
(***************************************************************************)
(* The safety properties of Connection, for any number of addresses,       *)
(* topics, faults and calls.  None of them is inductive: that a retry is   *)
(* pending depends on what the layers below have told, so the invariant    *)
(* says which states of the stream and of the WebSocket go together        *)
(* (Layers) and which timers each of them implies (Timers).                *)
(***************************************************************************)
EXTENDS Connection, TLAPS

\* The states the three layers can be in at the same time.
Layers(c) ==
  /\ c.tls = "Idle" => c.ws = "Idle"
  /\ c.tls \in {"Connecting", "Handshaking"} => c.ws = "Connecting" /\ c.connectTimer
  /\ c.tls = "Open" => c.ws \in {"Upgrading", "Open"}
  /\ c.tls = "Closed" => c.ws = "Closed" \/ (c.ws = "Connecting" /\ "noRoute" \in Faults)
  /\ c.connectTimer => c.tls \in {"Connecting", "Handshaking"}

\* The timers that go with them.
Timers(c) ==
  /\ c.running /\ c.ws = "Closed" => c.reconnectTimer
  /\ c.running => c.ws # "Idle"
  /\ c.ws \notin {"Idle", "Closed"} => c.running
  /\ c.reconnectTimer => c.running
  /\ c.heartbeatTimer \/ c.ws = "Open" => c.beats >= 1

Sound(c) == c \in Connections /\ Layers(c) /\ Timers(c)

\* What going down leaves behind.
Down(c, d) ==
  /\ d.ws = "Closed" /\ d.tls = "Closed" /\ ~d.connectTimer /\ ~d.up
  /\ d.running = c.running /\ d.subscriptions = c.subscriptions

-----------------------------------------------------------------------------
\* WsSession::disarm cancels both timers and touches nothing else.
LEMMA Disarmed ==
  ASSUME NEW c \in Connections, c.heartbeatTimer => c.beats >= 1
  PROVE  LET d == Disarm(c) IN
         /\ d \in Connections /\ ~d.reconnectTimer /\ ~d.heartbeatTimer
         /\ d.tls = c.tls /\ d.connectTimer = c.connectTimer /\ d.ws = c.ws
         /\ d.running = c.running /\ d.subscriptions = c.subscriptions /\ d.up = c.up
<1>. DEFINE n == IF c.heartbeatTimer THEN c.beats - 1 ELSE c.beats
<1>1. n \in Nat
  BY DEF Connections
<1>2. Disarm(c) = [c EXCEPT !.reconnectTimer = FALSE, !.heartbeatTimer = FALSE, !.beats = n]
  BY DEF Disarm
<1>. HIDE DEF n
<1>. QED
  BY <1>1, <1>2 DEF Connections

\* WsSession::scheduleReconnect: a running session has a retry pending, with a delay
\* within the limits.
LEMMA Scheduled ==
  ASSUME NEW c \in Connections
  PROVE  LET d == ScheduleReconnect(c) IN
         /\ d \in Connections
         /\ c.running => d.reconnectTimer
         /\ ~c.running => d.reconnectTimer = c.reconnectTimer
         /\ d.tls = c.tls /\ d.connectTimer = c.connectTimer /\ d.ws = c.ws
         /\ d.running = c.running /\ d.subscriptions = c.subscriptions /\ d.up = c.up
         /\ d.heartbeatTimer = c.heartbeatTimer /\ d.beats = c.beats
<1>. DEFINE n == IF 2 * c.nextDelay < MaxDelay THEN 2 * c.nextDelay ELSE MaxDelay
<1>1. n \in MinDelay .. MaxDelay
  BY ConnectionAssumption DEF Connections
<1>2. ScheduleReconnect(c) = IF ~c.running \/ c.reconnectTimer THEN c
                             ELSE [c EXCEPT !.reconnectTimer = TRUE, !.nextDelay = n]
  BY DEF ScheduleReconnect
<1>. HIDE DEF n
<1>3. CASE ~c.running \/ c.reconnectTimer
  BY <1>2, <1>3
<1>4. CASE c.running /\ ~c.reconnectTimer
  BY <1>1, <1>2, <1>4 DEF Connections
<1>. QED
  BY <1>3, <1>4 DEF Connections

\* WsSession::onWsClosed, of a session whose socket is gone.
LEMMA SessionClosed ==
  ASSUME NEW c \in Connections, c.heartbeatTimer => c.beats >= 1
  PROVE  LET d == OnWsClosed(c) IN
         /\ d \in Connections /\ ~d.up /\ ~d.heartbeatTimer
         /\ d.reconnectTimer <=> c.running
         /\ d.tls = c.tls /\ d.connectTimer = c.connectTimer /\ d.ws = c.ws
         /\ d.running = c.running /\ d.subscriptions = c.subscriptions
<1>. DEFINE e == Disarm(c)
            f == [e EXCEPT !.up = FALSE]
<1>1. /\ e \in Connections /\ ~e.reconnectTimer /\ ~e.heartbeatTimer
      /\ e.tls = c.tls /\ e.connectTimer = c.connectTimer /\ e.ws = c.ws
      /\ e.running = c.running /\ e.subscriptions = c.subscriptions
  BY Disarmed
<1>2. OnWsClosed(c) = ScheduleReconnect(f)
  BY DEF OnWsClosed
<1>. HIDE DEF e
<1>3. /\ f \in Connections /\ ~f.reconnectTimer /\ ~f.heartbeatTimer /\ ~f.up
      /\ f.tls = c.tls /\ f.connectTimer = c.connectTimer /\ f.ws = c.ws
      /\ f.running = c.running /\ f.subscriptions = c.subscriptions
  BY <1>1 DEF Connections
<1>. HIDE DEF f
<1>. QED
  BY <1>2, <1>3, Scheduled DEF Connections

\* A socket that goes down under a session, told or not, with every timer settled.
LEMMA WentDown ==
  ASSUME NEW c \in Connections, c.heartbeatTimer => c.beats >= 1,
         NEW d, d = OnWsClosed([CloseStream(c) EXCEPT !.ws = "Closed"])
  PROVE  Sound(d) /\ Down(c, d)
<1>. DEFINE e == [CloseStream(c) EXCEPT !.ws = "Closed"]
<1>1. /\ e \in Connections /\ e.tls = "Closed" /\ e.ws = "Closed" /\ ~e.connectTimer
      /\ e.running = c.running /\ e.subscriptions = c.subscriptions
      /\ e.heartbeatTimer = c.heartbeatTimer /\ e.beats = c.beats
  BY DEF CloseStream, Connections, TlsStates, WsStates
<1>. HIDE DEF e
<1>2. /\ d \in Connections /\ ~d.up /\ ~d.heartbeatTimer
      /\ d.reconnectTimer <=> c.running
      /\ d.tls = "Closed" /\ ~d.connectTimer /\ d.ws = "Closed"
      /\ d.running = c.running /\ d.subscriptions = c.subscriptions
  BY <1>1, SessionClosed DEF e
<1>. QED
  BY <1>2 DEF Sound, Layers, Timers, Down

\* TlsStream::fail of a stream with a live WebSocket above it.
LEMMA StreamFailed ==
  ASSUME NEW c \in Connections, c.heartbeatTimer => c.beats >= 1,
         c.tls # "Closed", c.ws \notin {"Closed", "Idle"}
  PROVE  Sound(FailStream(c)) /\ Down(c, FailStream(c))
<1>1. [[c EXCEPT !.connectTimer = FALSE, !.tls = "Closed"] EXCEPT !.ws = "Closed"]
        = [CloseStream(c) EXCEPT !.ws = "Closed"]
  BY DEF CloseStream
<1>2. CloseStream(c).ws = c.ws
  BY DEF CloseStream, Connections
<1>3. FailStream(c) = OnWsClosed([CloseStream(c) EXCEPT !.ws = "Closed"])
  BY <1>2 DEF FailStream, OnTlsClosed
<1>. QED
  BY <1>3, WentDown

\* WebSocketClient::fail.
LEMMA WsFailed ==
  ASSUME NEW c \in Connections, c.heartbeatTimer => c.beats >= 1, c.ws # "Closed"
  PROVE  Sound(FailWs(c)) /\ Down(c, FailWs(c))
  BY WentDown DEF FailWs

\* A write goes out, or ends the connection and the owner has been told.
LEMMA Written ==
  ASSUME NEW c \in Connections, c.heartbeatTimer => c.beats >= 1,
         c.ws = "Open" => c.tls # "Closed"
  PROVE  \/ AfterWrite(c) = c
         \/ c.ws = "Open" /\ Sound(AfterWrite(c)) /\ Down(c, AfterWrite(c))
<1>1. CASE c.ws = "Open" /\ peer.jammed
  BY <1>1, StreamFailed DEF AfterWrite
<1>2. CASE ~(c.ws = "Open" /\ peer.jammed)
  BY <1>2 DEF AfterWrite
<1>. QED
  BY <1>1, <1>2

\* WebSocketClient::close leaves the retry to its caller.
LEMMA WsClosed ==
  ASSUME NEW c \in Connections, c.heartbeatTimer => c.beats >= 1,
         c.ws = "Open" => c.tls # "Closed", c.reconnectTimer => c.running
  PROVE  LET d == CloseWs(c) IN
         /\ d \in Connections
         /\ d.ws = "Closed" /\ d.tls = "Closed" /\ ~d.connectTimer
         /\ d.running = c.running /\ d.subscriptions = c.subscriptions
         /\ d.heartbeatTimer => d.beats >= 1
         /\ d.reconnectTimer => c.running
         /\ d.up => c.up
<1>. DEFINE e == AfterWrite(c)
<1>1. /\ e \in Connections /\ e.running = c.running /\ e.subscriptions = c.subscriptions
      /\ e.heartbeatTimer => e.beats >= 1
      /\ e.reconnectTimer => c.running
      /\ e.up => c.up
  BY Written DEF Sound, Down, Timers
<1>2. CloseWs(c) = [CloseStream(e) EXCEPT !.ws = "Closed"]
  BY DEF CloseWs
<1>. HIDE DEF e
<1>. QED
  BY <1>1, <1>2 DEF CloseStream, Connections, TlsStates, WsStates

-----------------------------------------------------------------------------
\* connect(2) is under way, or has failed for every address.
LEMMA AttemptStarted ==
  ASSUME NEW c \in Connections, NEW k \in Nat
  PROVE  LET d == StartAttempt(c, k) IN
         /\ d \in Connections
         /\ \/ d.tls = "Connecting" /\ d.connectTimer
            \/ d.tls = "Closed" /\ d.connectTimer = c.connectTimer
         /\ d.ws = c.ws /\ d.running = c.running /\ d.subscriptions = c.subscriptions
         /\ d.heartbeatTimer = c.heartbeatTimer /\ d.beats = c.beats
         /\ d.reconnectTimer = c.reconnectTimer /\ d.up = c.up
<1>1. CASE k < c.attemptsLeft
  <2>. DEFINE n == c.attemptsLeft - k - 1
  <2>1. n \in 0 .. Addresses
    BY <1>1, ConnectionAssumption DEF Connections
  <2>2. StartAttempt(c, k) = [c EXCEPT !.attemptsLeft = n, !.tls = "Connecting", !.connectTimer = TRUE]
    BY <1>1 DEF StartAttempt
  <2>. HIDE DEF n
  <2>. QED
    BY <2>1, <2>2 DEF Connections, TlsStates
<1>2. CASE ~(k < c.attemptsLeft)
  <2>1. StartAttempt(c, k) = [c EXCEPT !.attemptsLeft = 0, !.tls = "Closed"]
    BY <1>2 DEF StartAttempt
  <2>2. 0 \in 0 .. Addresses
    BY ConnectionAssumption
  <2>. QED
    BY <2>1, <2>2 DEF Connections, TlsStates
<1>. QED
  BY <1>1, <1>2

\* WsSession::connect leaves an attempt under way or a retry pending.
LEMMA Connected ==
  ASSUME NEW c \in Connections, NEW resolved \in BOOLEAN, NEW k \in Nat,
         c.heartbeatTimer => c.beats >= 1, c.running
  PROVE  LET d == Connect(c, resolved, k) IN
         /\ Sound(d) /\ d.ws \in {"Connecting", "Closed"} /\ d.tls \in {"Connecting", "Closed"}
         /\ d.up = c.up
<1>. DEFINE f == [CloseStream(c) EXCEPT !.attemptsLeft = Addresses]
            t == IF resolved THEN StartAttempt(f, k) ELSE f
<1>1. /\ f \in Connections /\ f.tls = "Closed" /\ ~f.connectTimer /\ f.running
      /\ f.heartbeatTimer = c.heartbeatTimer /\ f.beats = c.beats /\ f.up = c.up
      /\ f.ws = c.ws
  <2>1. Addresses \in 0 .. Addresses
    BY ConnectionAssumption
  <2>. QED
    BY <2>1 DEF CloseStream, Connections, TlsStates
<1>2. Connect(c, resolved, k) = IF t.tls = "Connecting" THEN [t EXCEPT !.ws = "Connecting"]
                                ELSE ScheduleReconnect([t EXCEPT !.ws = "Closed"])
  BY DEF Connect
<1>. HIDE DEF f
<1>3. /\ t \in Connections /\ t.running
      /\ \/ t.tls = "Connecting" /\ t.connectTimer
         \/ t.tls = "Closed" /\ ~t.connectTimer
      /\ t.heartbeatTimer => t.beats >= 1
      /\ t.up = c.up
  BY <1>1, AttemptStarted
<1>. HIDE DEF t
<1>4. CASE t.tls = "Connecting"
  <2>. DEFINE d == [t EXCEPT !.ws = "Connecting"]
  <2>1. /\ d \in Connections /\ d.tls = "Connecting" /\ d.ws = "Connecting" /\ d.connectTimer
        /\ d.running /\ (d.heartbeatTimer => d.beats >= 1) /\ d.up = c.up
    BY <1>3, <1>4 DEF Connections, WsStates
  <2>. HIDE DEF d
  <2>2. Sound(d)
    BY <2>1 DEF Sound, Layers, Timers
  <2>. QED
    BY <1>2, <1>4, <2>1, <2>2 DEF d
<1>5. CASE t.tls # "Connecting"
  <2>. DEFINE e == [t EXCEPT !.ws = "Closed"]
              d == ScheduleReconnect(e)
  <2>1. /\ e \in Connections /\ e.tls = "Closed" /\ e.ws = "Closed" /\ ~e.connectTimer
        /\ e.running /\ (e.heartbeatTimer => e.beats >= 1) /\ e.up = c.up
    BY <1>3, <1>5 DEF Connections, WsStates
  <2>. HIDE DEF e
  <2>2. /\ d \in Connections /\ d.tls = "Closed" /\ d.ws = "Closed" /\ ~d.connectTimer
        /\ d.running /\ d.reconnectTimer /\ (d.heartbeatTimer => d.beats >= 1) /\ d.up = c.up
    BY <2>1, Scheduled
  <2>. HIDE DEF d
  <2>3. Sound(d)
    BY <2>2 DEF Sound, Layers, Timers
  <2>. QED
    BY <1>2, <1>5, <2>2, <2>3 DEF d, e
<1>. QED
  BY <1>4, <1>5

\* The next address is tried, or the stream is down; only without a route can the
\* stream end with nobody told.
LEMMA AddressTried ==
  ASSUME NEW c, Sound(c), c.tls = "Connecting",
         NEW k \in 0 .. (IF "noRoute" \in Faults THEN c.attemptsLeft ELSE 0)
  PROVE  Sound(NextAddress(c, k)) /\ NextAddress(c, k).ws # "Open"
<1>. DEFINE closed  == [c EXCEPT !.connectTimer = FALSE]
            started == StartAttempt(closed, k)
<1>1. /\ closed \in Connections /\ closed.tls = "Connecting" /\ closed.ws = "Connecting"
      /\ ~closed.connectTimer /\ closed.running
      /\ closed.heartbeatTimer => closed.beats >= 1
      /\ closed.attemptsLeft = c.attemptsLeft
  BY DEF Sound, Layers, Timers, Connections
<1>2. c.attemptsLeft \in Nat /\ k \in Nat
  BY DEF Sound, Connections
<1>3. NextAddress(c, k) = IF c.attemptsLeft = 0 THEN FailStream(closed)
                          ELSE IF started.tls = "Connecting" THEN started
                          ELSE FailStream(started)
  BY DEF NextAddress
<1>. HIDE DEF closed
<1>4. CASE c.attemptsLeft = 0
  BY <1>1, <1>3, <1>4, StreamFailed DEF Down
<1>5. CASE c.attemptsLeft # 0
  <2>1. /\ started \in Connections
        /\ \/ started.tls = "Connecting" /\ started.connectTimer
           \/ started.tls = "Closed" /\ ~started.connectTimer
        /\ started.ws = "Connecting" /\ started.running
        /\ started.heartbeatTimer => started.beats >= 1
    <3>1. /\ started \in Connections
          /\ \/ started.tls = "Connecting" /\ started.connectTimer
             \/ started.tls = "Closed" /\ started.connectTimer = closed.connectTimer
          /\ started.ws = closed.ws /\ started.running = closed.running
          /\ started.heartbeatTimer = closed.heartbeatTimer /\ started.beats = closed.beats
      BY <1>1, <1>2, AttemptStarted
    <3>. HIDE DEF started
    <3>. QED
      BY <1>1, <3>1
  <2>2. k < closed.attemptsLeft => started.tls = "Connecting"
    BY <1>1 DEF StartAttempt, Connections
  <2>3. started.tls = "Closed" => "noRoute" \in Faults
    BY <1>1, <1>2, <1>5, <2>2
  <2>. HIDE DEF started
  <2>4. NextAddress(c, k) = started
    BY <1>3, <1>5, <2>1 DEF FailStream
  <2>. QED
    BY <2>1, <2>3, <2>4 DEF Sound, Layers, Timers
<1>. QED
  BY <1>4, <1>5

\* Arming the heartbeat settles nothing else.
LEMMA Armed ==
  ASSUME NEW c, Sound(c)
  PROVE  LET d == ArmHeartbeat(c) IN
         /\ Sound(d) /\ d.ws = c.ws /\ d.up = c.up /\ d.subscriptions = c.subscriptions
         /\ d.tls = c.tls /\ d.running = c.running
<1>1. c.beats \in Nat
  BY DEF Sound, Connections
<1>. DEFINE n == c.beats + 1
            d == [c EXCEPT !.heartbeatTimer = TRUE, !.beats = n]
<1>2. ArmHeartbeat(c) = d
  BY DEF ArmHeartbeat
<1>3. n \in Nat /\ n >= 1
  BY <1>1
<1>. HIDE DEF n
<1>4. /\ d \in Connections /\ d.beats = n
      /\ d.tls = c.tls /\ d.connectTimer = c.connectTimer /\ d.ws = c.ws
      /\ d.running = c.running /\ d.reconnectTimer = c.reconnectTimer
      /\ d.up = c.up /\ d.subscriptions = c.subscriptions
  BY <1>3 DEF Sound, Connections
<1>. HIDE DEF d
<1>. QED
  BY <1>2, <1>3, <1>4 DEF Sound, Layers, Timers

-----------------------------------------------------------------------------
(***************************************************************************)
(* The inductive invariant, and what a step makes of it.                   *)
(***************************************************************************)

Inv == TypeOK /\ Layers(conn) /\ Timers(conn) /\ SubscriptionsReplayed

\* A loss of the open session is told, unless stop() caused it.
LossTold == conn.ws = "Open" /\ conn'.ws # "Open" /\ conn'.running => ~conn'.up

\* A connection a step may turn conn into without writing to the peer.
Fit(d) ==
  /\ Sound(d)
  /\ d.ws = "Open" => conn.ws = "Open" /\ d.subscriptions = conn.subscriptions
  /\ conn.ws = "Open" => d.ws = "Open" \/ ~d.up \/ ~d.running

\* The counters of faults and calls stay within their bounds.
LEMMA Counted ==
  ASSUME TypeOK, Smooth \/ \E kind \in FaultKinds : Fault(kind), UNCHANGED calls \/ Call
  PROVE  faults' \in 0 .. MaxFaults /\ calls' \in 0 .. MaxCalls
  BY ConnectionAssumption DEF TypeOK, Smooth, Fault, Call

\* An open session is running over an open stream.
LEMMA OpenBelow ==
  ASSUME NEW c, Sound(c), c.ws = "Open" PROVE c.tls = "Open" /\ c.running
  BY DEF Sound, Layers, Timers, Connections, TlsStates

\* A step to a fit connection keeps the invariant.
LEMMA BecameFit ==
  ASSUME Inv, NEW d, Fit(d), Become(d),
         Smooth \/ \E kind \in FaultKinds : Fault(kind), UNCHANGED calls \/ Call
  PROVE  Inv' /\ LossTold
<1>1. conn' = d
  BY DEF Become
<1>2. peer' = IF d.tls = "Open" /\ conn.tls = "Open" THEN peer ELSE FreshPeer
  BY DEF Become
<1>3. peer' \in Peers
  BY <1>2 DEF Inv, TypeOK, Peers, FreshPeer
<1>4. SubscriptionsReplayed'
  <2>1. SUFFICES ASSUME d.ws = "Open" PROVE peer'.topics = d.subscriptions
    BY <1>1 DEF SubscriptionsReplayed
  <2>2. conn.ws = "Open" /\ d.subscriptions = conn.subscriptions
    BY <2>1 DEF Fit
  <2>3. d.tls = "Open" /\ conn.tls = "Open"
    BY <2>1, <2>2, OpenBelow DEF Fit, Inv, TypeOK, Sound
  <2>. QED
    BY <1>2, <2>2, <2>3 DEF Inv, SubscriptionsReplayed
<1>5. TypeOK'
  BY <1>1, <1>3, Counted DEF Inv, TypeOK, Fit, Sound
<1>. QED
  BY <1>1, <1>4, <1>5 DEF Inv, Fit, Sound, LossTold, Layers, Timers

\* So does a step that asks the peer for the topics held.
LEMMA BecameSending ==
  ASSUME Inv, NEW d, Sound(d), NEW topics \in SUBSET Topics, BecomeSending(d, topics),
         d.ws = "Open" => topics = d.subscriptions,
         conn.ws = "Open" => d.ws = "Open" \/ ~d.up \/ ~d.running,
         Smooth, UNCHANGED calls \/ Call
  PROVE  Inv' /\ LossTold
<1>1. conn' = d
  BY DEF BecomeSending
<1>2. peer' = IF d.tls = "Open" THEN [peer EXCEPT !.topics = topics] ELSE FreshPeer
  BY DEF BecomeSending
<1>3. peer' \in Peers
  BY <1>2 DEF Inv, TypeOK, Peers, FreshPeer
<1>4. SubscriptionsReplayed'
  <2>1. SUFFICES ASSUME d.ws = "Open" PROVE peer'.topics = d.subscriptions
    BY <1>1 DEF SubscriptionsReplayed
  <2>2. d.tls = "Open"
    BY <2>1, OpenBelow
  <2>. QED
    BY <1>2, <2>1, <2>2 DEF Inv, TypeOK, Peers
<1>5. TypeOK'
  BY <1>1, <1>3, Counted DEF Inv, TypeOK, Sound
<1>. QED
  BY <1>1, <1>4, <1>5 DEF Inv, Sound, LossTold, Layers, Timers

-----------------------------------------------------------------------------
(***************************************************************************)
(* One lemma per action.                                                   *)
(***************************************************************************)

\* What the invariant says of the connection itself.
LEMMA ConnSound ==
  ASSUME Inv
  PROVE  /\ Sound(conn) /\ conn \in Connections
         /\ conn.heartbeatTimer => conn.beats >= 1
         /\ conn.ws = "Open" => conn.tls = "Open" /\ conn.running
         /\ conn.reconnectTimer => conn.running
<1>1. Sound(conn)
  BY DEF Inv, TypeOK, Sound
<1>. QED
  BY <1>1, OpenBelow DEF Sound, Timers

\* A session that went down fits, whatever it was.
LEMMA DownFits ==
  ASSUME NEW c, NEW d, Sound(d), Down(c, d)
  PROVE  Fit(d)
  BY DEF Fit, Down

\* onConnectReady.
LEMMA StepConnectReady == ASSUME Inv, ConnectReady PROVE Inv' /\ LossTold
<1>1. Sound(conn) /\ conn.tls = "Connecting" /\ conn.ws = "Connecting" /\ conn.running
  BY ConnSound DEF ConnectReady, Sound, Layers, Timers
<1>2. CASE Secure
  <2>. DEFINE d == [conn EXCEPT !.tls = "Handshaking", !.connectTimer = TRUE]
  <2>1. Fit(d)
    BY <1>1 DEF Fit, Sound, Layers, Timers, Connections, TlsStates
  <2>2. Become(d)
    BY <1>2 DEF ConnectReady
  <2>. QED
    BY <2>1, <2>2, BecameFit DEF ConnectReady
<1>3. CASE ~Secure
  <2>1. Fit(OnTlsConnected(conn))
    BY <1>1 DEF OnTlsConnected, Fit, Sound, Layers, Timers, Connections, TlsStates, WsStates
  <2>2. Become(OnTlsConnected(conn))
    BY <1>3 DEF ConnectReady
  <2>. QED
    BY <2>1, <2>2, BecameFit DEF ConnectReady
<1>. QED
  BY <1>2, <1>3

\* doHandshake succeeds.
LEMMA StepHandshakeDone == ASSUME Inv, HandshakeDone PROVE Inv' /\ LossTold
<1>1. Sound(conn) /\ conn.tls = "Handshaking" /\ conn.ws = "Connecting" /\ conn.running
  BY ConnSound DEF HandshakeDone, Sound, Layers, Timers
<1>2. Fit(OnTlsConnected(conn))
  BY <1>1 DEF OnTlsConnected, Fit, Sound, Layers, Timers, Connections, TlsStates, WsStates
<1>. QED
  BY <1>2, BecameFit DEF HandshakeDone

\* connect(2) fails late: the next address.
LEMMA StepConnectRefused == ASSUME Inv, ConnectRefused PROVE Inv' /\ LossTold
<1>1. Sound(conn) /\ conn.tls = "Connecting" /\ conn.ws = "Connecting"
  BY ConnSound DEF ConnectRefused, Sound, Layers
<1>2. PICK k \in Unroutable : Become(NextAddress(conn, k))
  BY DEF ConnectRefused
<1>3. Fit(NextAddress(conn, k))
  BY <1>1, AddressTried DEF Unroutable, Fit
<1>4. "refused" \in FaultKinds
  BY DEF FaultKinds
<1>. QED
  BY <1>2, <1>3, <1>4, BecameFit DEF ConnectRefused

\* doHandshake fails.
LEMMA StepHandshakeFails == ASSUME Inv, HandshakeFails PROVE Inv' /\ LossTold
<1>1. conn.tls = "Handshaking" /\ conn.ws = "Connecting"
  BY ConnSound DEF HandshakeFails, Sound, Layers
<1>2. Fit(FailStream(conn))
  BY <1>1, ConnSound, StreamFailed, DownFits
<1>3. "handshake" \in FaultKinds
  BY DEF FaultKinds
<1>. QED
  BY <1>2, <1>3, BecameFit DEF HandshakeFails

\* The peer refuses the upgrade.
LEMMA StepUpgradeRefused == ASSUME Inv, UpgradeRefused PROVE Inv' /\ LossTold
<1>1. Fit(FailWs(conn))
  BY ConnSound, WsFailed, DownFits DEF UpgradeRefused
<1>2. "badUpgrade" \in FaultKinds
  BY DEF FaultKinds
<1>. QED
  BY <1>1, <1>2, BecameFit DEF UpgradeRefused

\* doRead meets the end of the stream.
LEMMA StepStreamEnds == ASSUME Inv, StreamEnds PROVE Inv' /\ LossTold
<1>1. conn.ws \notin {"Closed", "Idle"}
  BY ConnSound DEF StreamEnds, Sound, Layers
<1>2. Fit(FailStream(conn))
  BY <1>1, ConnSound, StreamFailed, DownFits DEF StreamEnds
<1>3. "reset" \in FaultKinds
  BY DEF FaultKinds
<1>. QED
  BY <1>2, <1>3, BecameFit DEF StreamEnds

\* A write of an unchanged connection fits.
LEMMA WriteFits == ASSUME Inv PROVE Fit(AfterWrite(conn))
<1>1. AfterWrite(conn) = conn \/ (Sound(AfterWrite(conn)) /\ Down(conn, AfterWrite(conn)))
  BY ConnSound, Written
<1>2. Fit(conn)
  BY ConnSound DEF Fit
<1>. QED
  BY <1>1, <1>2, DownFits

\* A close frame, and the answer that may fail.
LEMMA StepPeerCloses == ASSUME Inv, PeerCloses PROVE Inv' /\ LossTold
<1>. DEFINE e == AfterWrite(conn)
<1>1. \/ e = conn
      \/ Sound(e) /\ Down(conn, e)
  BY ConnSound, Written
<1>2. Become(FailWs(e)) /\ conn.ws = "Open"
  BY DEF PeerCloses
<1>. HIDE DEF e
<1>3. e = conn => Fit(FailWs(e))
  BY <1>2, ConnSound, WsFailed, DownFits
<1>4. Sound(e) /\ Down(conn, e) => Fit(FailWs(e))
  BY DownFits DEF FailWs, Down
<1>5. Fit(FailWs(e))
  BY <1>1, <1>3, <1>4
<1>6. "closed" \in FaultKinds
  BY DEF FaultKinds
<1>. QED
  BY <1>2, <1>5, <1>6, BecameFit DEF PeerCloses

\* A pong that may fail.
LEMMA StepPeerPings == ASSUME Inv, PeerPings PROVE Inv' /\ LossTold
  BY WriteFits, BecameFit DEF PeerPings

\* send() that may fail.
LEMMA StepSendText == ASSUME Inv, SendText PROVE Inv' /\ LossTold
  BY WriteFits, BecameFit DEF SendText

\* The peer changes and the client cannot see it yet.
LEMMA StepPeerTurns == ASSUME Inv, PeerGoesMute \/ WritesJam PROVE Inv' /\ LossTold
<1>1. conn' = conn
  BY DEF PeerGoesMute, WritesJam
<1>2. peer' \in Peers /\ peer'.topics = peer.topics
  BY DEF Inv, TypeOK, Peers, PeerGoesMute, WritesJam
<1>3. faults' \in 0 .. MaxFaults /\ calls' \in 0 .. MaxCalls
  BY Counted DEF Inv, PeerGoesMute, WritesJam, FaultKinds
<1>. QED
  BY <1>1, <1>2, <1>3 DEF Inv, TypeOK, SubscriptionsReplayed, LossTold, Layers, Timers

\* The connect timer, during connect(2) and during the handshake.
LEMMA StepConnectTimeout == ASSUME Inv, ConnectTimeout PROVE Inv' /\ LossTold
<1>. DEFINE c == [conn EXCEPT !.connectTimer = FALSE]
<1>1. /\ conn.tls \in {"Connecting", "Handshaking"} /\ conn.ws = "Connecting"
      /\ Sound(conn) /\ conn \in Connections /\ (conn.heartbeatTimer => conn.beats >= 1)
  BY ConnSound DEF ConnectTimeout, Sound, Layers
<1>2. /\ c \in Connections /\ (c.heartbeatTimer => c.beats >= 1)
      /\ c.tls = conn.tls /\ c.ws = conn.ws
  BY <1>1 DEF Connections
<1>3. "timeout" \in FaultKinds
  BY DEF FaultKinds
<1>4. CASE conn.tls = "Connecting"
  <2>1. PICK k \in Unroutable : Become(NextAddress(c, k))
    BY <1>4 DEF ConnectTimeout
  <2>2. NextAddress(c, k) = NextAddress(conn, k)
    <3>1. [c EXCEPT !.connectTimer = FALSE] = c
      BY <1>1 DEF Connections
    <3>2. c.attemptsLeft = conn.attemptsLeft
      BY <1>1 DEF Connections
    <3>. QED
      BY <3>1, <3>2 DEF NextAddress
  <2>3. Fit(NextAddress(c, k))
    BY <1>1, <1>4, <2>2, AddressTried DEF Unroutable, Fit
  <2>. QED
    BY <1>3, <2>1, <2>3, BecameFit DEF ConnectTimeout
<1>5. CASE conn.tls = "Handshaking"
  <2>1. Become(FailStream(c))
    BY <1>5 DEF ConnectTimeout
  <2>2. Fit(FailStream(c))
    BY <1>1, <1>2, <1>5, StreamFailed, DownFits
  <2>. QED
    BY <1>3, <2>1, <2>2, BecameFit DEF ConnectTimeout
<1>. QED
  BY <1>1, <1>4, <1>5

\* onWsOpen: the replay may fail, and the heartbeat is armed all the same.
LEMMA StepUpgradeAnswered == ASSUME Inv, UpgradeAnswered PROVE Inv' /\ LossTold
<1>. DEFINE open == [conn EXCEPT !.ws = "Open", !.nextDelay = MinDelay, !.quiet = 0]
            sent == IF conn.subscriptions = {} THEN open ELSE AfterWrite(open)
            d    == [ArmHeartbeat(sent) EXCEPT !.up = TRUE]
<1>1. /\ Sound(conn) /\ conn.ws = "Upgrading" /\ conn.tls = "Open" /\ ~conn.connectTimer
      /\ conn.running
  BY ConnSound DEF UpgradeAnswered, Sound, Layers, Timers, Connections, TlsStates
<1>2. MinDelay \in MinDelay .. MaxDelay /\ 0 \in 0 .. StaleBeats
  BY ConnectionAssumption
<1>3. /\ open \in Connections /\ open.ws = "Open" /\ open.tls = "Open" /\ ~open.connectTimer
      /\ open.running /\ (open.heartbeatTimer => open.beats >= 1)
      /\ open.subscriptions = conn.subscriptions /\ open.reconnectTimer = conn.reconnectTimer
  BY <1>1, <1>2 DEF Sound, Timers, Connections, WsStates
<1>4. OnWsOpen(conn) = d
  BY DEF OnWsOpen
<1>. HIDE DEF open
<1>5. sent = open \/ (Sound(sent) /\ Down(open, sent))
  BY <1>3, Written
<1>. HIDE DEF sent
<1>6. Sound(d) /\ (d.ws = "Open" => d.subscriptions = conn.subscriptions)
  <2>1. CASE sent = open
    <3>. DEFINE n == open.beats + 1
    <3>1. n \in Nat /\ n >= 1
      BY <1>3 DEF Connections
    <3>2. d = [[open EXCEPT !.heartbeatTimer = TRUE, !.beats = n] EXCEPT !.up = TRUE]
      BY <2>1 DEF ArmHeartbeat
    <3>. HIDE DEF n
    <3>3. /\ d \in Connections /\ d.beats = n /\ d.ws = "Open" /\ d.tls = "Open"
          /\ ~d.connectTimer /\ d.running /\ d.subscriptions = conn.subscriptions
      BY <1>3, <3>1, <3>2 DEF Connections
    <3>. HIDE DEF d
    <3>. QED
      BY <3>1, <3>3 DEF Sound, Layers, Timers
  <2>2. CASE Sound(sent) /\ Down(open, sent)
    <3>. DEFINE a == ArmHeartbeat(sent)
    <3>1. Sound(a) /\ a.ws = "Closed"
      BY <2>2, Armed DEF Down
    <3>2. d = [a EXCEPT !.up = TRUE]
      OBVIOUS
    <3>. HIDE DEF a, d
    <3>. QED
      BY <3>1, <3>2 DEF Sound, Layers, Timers, Connections
  <2>. QED
    BY <1>5, <2>1, <2>2
<1>7. conn.subscriptions \in SUBSET Topics
  BY <1>1 DEF Sound, Connections
<1>. HIDE DEF d
<1>. QED
  BY <1>1, <1>4, <1>6, <1>7, BecameSending DEF UpgradeAnswered

\* A heartbeat, of this connection or one left over from an earlier one.
LEMMA StepHeartbeatFires == ASSUME Inv, HeartbeatFires PROVE Inv' /\ LossTold
<1>. DEFINE b == conn.beats - 1
            c == [conn EXCEPT !.beats = b, !.heartbeatTimer = FALSE]
            q == IF peer.mute THEN c.quiet + 1 ELSE 0
            p == [c EXCEPT !.quiet = q]
            d == IF c.ws # "Open" THEN c
                 ELSE IF c.quiet = StaleBeats THEN OnWsClosed(CloseWs(c))
                 ELSE ArmHeartbeat(AfterWrite(p))
<1>1. Become(d)
  BY DEF HeartbeatFires
<1>2. b \in Nat
  BY ConnSound DEF HeartbeatFires, Connections
<1>. HIDE DEF b
<1>3. /\ c \in Connections /\ ~c.heartbeatTimer
      /\ c.tls = conn.tls /\ c.connectTimer = conn.connectTimer /\ c.ws = conn.ws
      /\ c.running = conn.running /\ c.reconnectTimer = conn.reconnectTimer
      /\ c.subscriptions = conn.subscriptions /\ c.quiet = conn.quiet
  BY <1>2, ConnSound DEF Connections
<1>. HIDE DEF c
<1>4. CASE c.ws # "Open"
  <2>1. Fit(c)
    BY <1>3, <1>4, ConnSound DEF Fit, Sound, Layers, Timers
  <2>. QED
    BY <1>1, <1>4, <2>1, BecameFit DEF HeartbeatFires
<1>5. CASE c.ws = "Open" /\ c.quiet = StaleBeats
  <2>. DEFINE e == CloseWs(c)
              f == OnWsClosed(e)
  <2>1. /\ e \in Connections /\ e.ws = "Closed" /\ e.tls = "Closed" /\ ~e.connectTimer
        /\ e.heartbeatTimer => e.beats >= 1
    BY <1>3, <1>5, ConnSound, WsClosed
  <2>. HIDE DEF e
  <2>2. /\ f \in Connections /\ ~f.up /\ ~f.heartbeatTimer
        /\ f.reconnectTimer <=> f.running
        /\ f.tls = "Closed" /\ ~f.connectTimer /\ f.ws = "Closed"
    BY <2>1, SessionClosed
  <2>. HIDE DEF f
  <2>3. Fit(f)
    BY <2>2 DEF Fit, Sound, Layers, Timers
  <2>4. Become(f)
    BY <1>1, <1>5 DEF f, e
  <2>. QED
    BY <2>3, <2>4, BecameFit DEF HeartbeatFires
<1>6. CASE c.ws = "Open" /\ c.quiet # StaleBeats
  <2>1. q \in 0 .. StaleBeats
    BY <1>3, <1>6, ConnectionAssumption DEF Connections
  <2>. HIDE DEF q
  <2>2. /\ p \in Connections /\ ~p.heartbeatTimer
        /\ p.tls = conn.tls /\ p.connectTimer = conn.connectTimer /\ p.ws = conn.ws
        /\ p.running = conn.running /\ p.reconnectTimer = conn.reconnectTimer
        /\ p.subscriptions = conn.subscriptions
    BY <1>3, <2>1 DEF Connections
  <2>. HIDE DEF p
  <2>. DEFINE w == AfterWrite(p)
  <2>3. w = p \/ (Sound(w) /\ Down(p, w))
    BY <1>3, <1>6, <2>2, ConnSound, Written
  <2>. HIDE DEF w
  <2>4. Fit(ArmHeartbeat(w))
    <3>1. CASE Sound(w) /\ Down(p, w)
      BY <3>1, Armed DEF Fit, Down
    <3>2. CASE w = p
      <4>. DEFINE n == p.beats + 1
                  a == [p EXCEPT !.heartbeatTimer = TRUE, !.beats = n]
      <4>1. n \in Nat /\ n >= 1
        BY <2>2 DEF Connections
      <4>2. ArmHeartbeat(w) = a
        BY <3>2 DEF ArmHeartbeat
      <4>. HIDE DEF n
      <4>3. /\ a \in Connections /\ a.beats = n
            /\ a.tls = conn.tls /\ a.connectTimer = conn.connectTimer /\ a.ws = conn.ws
            /\ a.running = conn.running /\ a.reconnectTimer = conn.reconnectTimer
            /\ a.subscriptions = conn.subscriptions
        BY <2>2, <4>1 DEF Connections
      <4>. HIDE DEF a
      <4>4. Sound(a)
        BY <4>1, <4>3, ConnSound DEF Sound, Layers, Timers
      <4>. QED
        BY <1>3, <1>6, <4>2, <4>3, <4>4 DEF Fit
    <3>. QED
      BY <2>3, <3>1, <3>2
  <2>5. Become(ArmHeartbeat(w))
    BY <1>1, <1>6 DEF w
  <2>. QED
    BY <2>4, <2>5, BecameFit DEF HeartbeatFires
<1>. QED
  BY <1>4, <1>5, <1>6

\* A connect() of a running session that is not open.
LEMMA Attempted ==
  ASSUME Inv, NEW c \in Connections, c.heartbeatTimer => c.beats >= 1, c.running,
         conn.ws # "Open", Attempting(c), UNCHANGED calls \/ Call
  PROVE  Inv' /\ LossTold
<1>1. ASSUME NEW resolved \in BOOLEAN, NEW k \in Nat PROVE Fit(Connect(c, resolved, k))
  BY <1>1, Connected DEF Fit
<1>2. CASE Smooth /\ Become(Connect(c, TRUE, 0))
  BY <1>1, <1>2, BecameFit
<1>3. CASE Fault("unresolved") /\ Become(Connect(c, FALSE, 0))
  <2>1. "unresolved" \in FaultKinds
    BY DEF FaultKinds
  <2>. QED
    BY <1>1, <1>3, <2>1, BecameFit
<1>4. CASE \E k \in 1 .. Addresses : Fault("unreachable") /\ Become(Connect(c, TRUE, k))
  <2>1. PICK k \in 1 .. Addresses : Fault("unreachable") /\ Become(Connect(c, TRUE, k))
    BY <1>4
  <2>2. "unreachable" \in FaultKinds /\ k \in Nat
    BY DEF FaultKinds
  <2>. QED
    BY <1>1, <2>1, <2>2, BecameFit
<1>. QED
  BY <1>2, <1>3, <1>4 DEF Attempting

\* The retry.
LEMMA StepReconnectFires == ASSUME Inv, ReconnectFires PROVE Inv' /\ LossTold
<1>. DEFINE c == [conn EXCEPT !.reconnectTimer = FALSE]
<1>1. /\ c \in Connections /\ c.beats = conn.beats /\ c.heartbeatTimer = conn.heartbeatTimer
      /\ c.tls = conn.tls /\ c.connectTimer = conn.connectTimer /\ c.ws = conn.ws
      /\ c.running = conn.running /\ ~c.reconnectTimer
      /\ c.subscriptions = conn.subscriptions
  BY ConnSound DEF Connections
<1>2. IF c.running /\ c.ws # "Open" THEN Attempting(c) ELSE Become(c) /\ Smooth
  BY DEF ReconnectFires
<1>. HIDE DEF c
<1>3. c.running
  BY <1>1, ConnSound DEF ReconnectFires
<1>4. CASE c.ws # "Open"
  BY <1>1, <1>2, <1>3, <1>4, ConnSound, Attempted DEF ReconnectFires
<1>5. CASE c.ws = "Open"
  <2>1. Fit(c)
    BY <1>1, <1>5, ConnSound DEF Fit, Sound, Layers, Timers
  <2>. QED
    BY <1>2, <1>5, <2>1, BecameFit DEF ReconnectFires
<1>. QED
  BY <1>4, <1>5

\* start().
LEMMA StepStart == ASSUME Inv, Start PROVE Inv' /\ LossTold
<1>. DEFINE c == [conn EXCEPT !.running = TRUE, !.nextDelay = MinDelay]
<1>1. MinDelay \in MinDelay .. MaxDelay
  BY ConnectionAssumption
<1>2. /\ c \in Connections /\ c.running
      /\ c.beats = conn.beats /\ c.heartbeatTimer = conn.heartbeatTimer
  BY <1>1, ConnSound DEF Connections
<1>3. Attempting(c)
  BY DEF Start
<1>. HIDE DEF c
<1>4. conn.ws # "Open"
  BY ConnSound DEF Start
<1>. QED
  BY <1>2, <1>3, <1>4, ConnSound, Attempted DEF Start

\* stop(), with the goodbye that may fail.
LEMMA StepStop == ASSUME Inv, Stop PROVE Inv' /\ LossTold
<1>. DEFINE c == [conn EXCEPT !.running = FALSE]
            e == Disarm(c)
            d == CloseWs(e)
<1>1. /\ c \in Connections /\ ~c.running /\ c.tls = conn.tls /\ c.ws = conn.ws
      /\ c.beats = conn.beats /\ c.heartbeatTimer = conn.heartbeatTimer
  BY ConnSound DEF Connections
<1>2. Become(d)
  BY DEF Stop
<1>. HIDE DEF c
<1>3. /\ e \in Connections /\ ~e.running /\ e.tls = conn.tls /\ e.ws = conn.ws
      /\ ~e.heartbeatTimer /\ ~e.reconnectTimer
  BY <1>1, ConnSound, Disarmed
<1>. HIDE DEF e
<1>4. /\ d \in Connections /\ d.ws = "Closed" /\ d.tls = "Closed" /\ ~d.connectTimer
      /\ ~d.running /\ ~d.reconnectTimer
      /\ d.heartbeatTimer => d.beats >= 1
  BY <1>3, ConnSound, WsClosed
<1>. HIDE DEF d
<1>5. Fit(d)
  BY <1>4 DEF Fit, Sound, Layers, Timers
<1>. QED
  BY <1>2, <1>5, BecameFit DEF Stop

\* reconnectNow(), open or not.
LEMMA StepReconnectNow == ASSUME Inv, ReconnectNow PROVE Inv' /\ LossTold
<1>. DEFINE c == [conn EXCEPT !.nextDelay = MinDelay]
            e == CloseWs(c)
<1>1. MinDelay \in MinDelay .. MaxDelay
  BY ConnectionAssumption
<1>2. /\ c \in Connections /\ c.running /\ c.tls = conn.tls /\ c.ws = conn.ws
      /\ c.beats = conn.beats /\ c.heartbeatTimer = conn.heartbeatTimer
  BY <1>1, ConnSound DEF ReconnectNow, Connections
<1>3. Become(IF conn.ws = "Open" THEN OnWsClosed(e) ELSE ScheduleReconnect(Disarm(e)))
  BY DEF ReconnectNow
<1>. HIDE DEF c
<1>4. /\ e \in Connections /\ e.ws = "Closed" /\ e.tls = "Closed" /\ ~e.connectTimer
      /\ e.running
      /\ e.heartbeatTimer => e.beats >= 1
  BY <1>2, ConnSound, WsClosed
<1>. HIDE DEF e
<1>5. CASE conn.ws = "Open"
  <2>. DEFINE d == OnWsClosed(e)
  <2>1. /\ d \in Connections /\ d.ws = "Closed" /\ d.tls = "Closed" /\ ~d.connectTimer
        /\ d.running /\ d.reconnectTimer /\ ~d.heartbeatTimer /\ ~d.up
    BY <1>4, SessionClosed
  <2>2. Become(d)
    BY <1>3, <1>5
  <2>. HIDE DEF d
  <2>3. Fit(d)
    BY <2>1 DEF Fit, Sound, Layers, Timers
  <2>. QED
    BY <2>2, <2>3, BecameFit DEF ReconnectNow
<1>6. CASE conn.ws # "Open"
  <2>. DEFINE f == Disarm(e)
              d == ScheduleReconnect(f)
  <2>1. /\ f \in Connections /\ f.ws = "Closed" /\ f.tls = "Closed" /\ ~f.connectTimer
        /\ f.running /\ ~f.heartbeatTimer
    BY <1>4, Disarmed
  <2>2. Become(d)
    BY <1>3, <1>6
  <2>. HIDE DEF f
  <2>3. /\ d \in Connections /\ d.ws = "Closed" /\ d.tls = "Closed" /\ ~d.connectTimer
        /\ d.running /\ d.reconnectTimer /\ ~d.heartbeatTimer
    BY <2>1, Scheduled
  <2>. HIDE DEF d
  <2>4. Fit(d)
    BY <1>6, <2>3 DEF Fit, Sound, Layers, Timers
  <2>. QED
    BY <2>2, <2>4, BecameFit DEF ReconnectNow
<1>. QED
  BY <1>5, <1>6

\* The owner changes its topics to S and, while open, says so to the peer.
LEMMA Resubscribed ==
  ASSUME Inv, NEW S \in SUBSET Topics, NEW c, c = [conn EXCEPT !.subscriptions = S],
         \/ conn.ws = "Open" /\ BecomeSending(AfterWrite(c), S)
         \/ (conn.ws # "Open" \/ S = conn.subscriptions) /\ Become(c),
         Smooth, Call
  PROVE  Inv' /\ LossTold
<1>1. /\ c \in Connections /\ c.subscriptions = S
      /\ c.tls = conn.tls /\ c.connectTimer = conn.connectTimer /\ c.ws = conn.ws
      /\ c.running = conn.running /\ c.reconnectTimer = conn.reconnectTimer
      /\ c.heartbeatTimer = conn.heartbeatTimer /\ c.beats = conn.beats
  BY ConnSound DEF Connections
<1>2. Sound(c)
  BY <1>1, ConnSound DEF Sound, Layers, Timers
<1>3. CASE conn.ws = "Open" /\ BecomeSending(AfterWrite(c), S)
  <2>. DEFINE w == AfterWrite(c)
  <2>1. w = c \/ (Sound(w) /\ Down(c, w))
    BY <1>1, ConnSound, Written
  <2>2. BecomeSending(w, S)
    BY <1>3
  <2>. HIDE DEF w
  <2>3. /\ Sound(w) /\ (w.ws = "Open" => S = w.subscriptions)
        /\ w.ws = "Open" \/ ~w.up
    BY <1>1, <1>2, <1>3, <2>1 DEF Down
  <2>. QED
    BY <2>2, <2>3, BecameSending
<1>4. CASE (conn.ws # "Open" \/ S = conn.subscriptions) /\ Become(c)
  <2>1. Fit(c)
    BY <1>1, <1>2, <1>4 DEF Fit
  <2>. QED
    BY <1>4, <2>1, BecameFit
<1>. QED
  BY <1>3, <1>4

\* subscribe(), unsubscribe() and clearSubscriptions().
LEMMA StepSubscriptions ==
  ASSUME Inv, ClearSubscriptions \/ \E t \in Topics : Subscribe(t) \/ Unsubscribe(t)
  PROVE  Inv' /\ LossTold
<1>1. conn.subscriptions \in SUBSET Topics /\ conn \in Connections
  BY ConnSound DEF Connections
<1>2. CASE ClearSubscriptions
  <2>. DEFINE c == [conn EXCEPT !.subscriptions = {}]
  <2>1. IF conn.ws = "Open" /\ conn.subscriptions # {}
          THEN BecomeSending(AfterWrite(c), {}) ELSE Become(c)
    BY <1>2 DEF ClearSubscriptions
  <2>2. Smooth /\ Call
    BY <1>2 DEF ClearSubscriptions
  <2>. HIDE DEF c
  <2>. QED
    BY <2>1, <2>2, Resubscribed DEF c
<1>3. ASSUME NEW t \in Topics, Subscribe(t) PROVE Inv' /\ LossTold
  <2>. DEFINE S == conn.subscriptions \cup {t}
              c == [conn EXCEPT !.subscriptions = S]
  <2>1. S \in SUBSET Topics /\ c.subscriptions = S
    BY <1>1 DEF Connections
  <2>2. IF conn.ws = "Open" THEN BecomeSending(AfterWrite(c), S) ELSE Become(c)
    BY <1>3, <2>1 DEF Subscribe
  <2>3. Smooth /\ Call
    BY <1>3 DEF Subscribe
  <2>. HIDE DEF S
  <2>. QED
    BY <2>1, <2>2, <2>3, Resubscribed
<1>4. ASSUME NEW t \in Topics, Unsubscribe(t) PROVE Inv' /\ LossTold
  <2>. DEFINE S == conn.subscriptions \ {t}
              c == [conn EXCEPT !.subscriptions = S]
  <2>1. S \in SUBSET Topics /\ c.subscriptions = S
    BY <1>1 DEF Connections
  <2>2. IF conn.ws = "Open" THEN BecomeSending(AfterWrite(c), S) ELSE Become(c)
    BY <1>4, <2>1 DEF Unsubscribe
  <2>3. Smooth /\ Call
    BY <1>4 DEF Unsubscribe
  <2>. HIDE DEF S
  <2>. QED
    BY <2>1, <2>2, <2>3, Resubscribed
<1>. QED
  BY <1>2, <1>3, <1>4

-----------------------------------------------------------------------------
(***************************************************************************)
(* The theorems.                                                           *)
(***************************************************************************)

\* A session that was never started satisfies the invariant.
LEMMA InvInit == Init => Inv
  BY ConnectionAssumption
  DEF Init, Inv, TypeOK, Connections, Peers, FreshPeer, TlsStates, WsStates, Layers, Timers,
      SubscriptionsReplayed

\* Every step keeps it and tells every loss.
LEMMA InvStep == Inv /\ [Next]_vars => Inv' /\ (LossTold \/ UNCHANGED vars)
<1>1. SUFFICES ASSUME Inv, [Next]_vars PROVE Inv' /\ (LossTold \/ UNCHANGED vars)
  OBVIOUS
<1>2. CASE Progress
  BY <1>1, <1>2, StepConnectReady, StepHandshakeDone, StepUpgradeAnswered, StepHeartbeatFires,
     StepReconnectFires DEF Progress
<1>3. CASE Misfortune
  BY <1>1, <1>3, StepConnectRefused, StepConnectTimeout, StepHandshakeFails,
     StepUpgradeRefused, StepStreamEnds, StepPeerCloses, StepPeerPings, StepPeerTurns
  DEF Misfortune
<1>4. CASE OwnerStep
  BY <1>1, <1>4, StepStart, StepStop, StepReconnectNow, StepSendText, StepSubscriptions
  DEF OwnerStep
<1>5. CASE UNCHANGED vars
  BY <1>1, <1>5 DEF vars, Inv, TypeOK, Layers, Timers, SubscriptionsReplayed
<1>. QED
  BY <1>1, <1>2, <1>3, <1>4, <1>5 DEF Next

\* The inductive invariant holds.
LEMMA Invariant == Spec => []Inv
  BY InvInit, InvStep, PTL DEF Spec

\* The members keep their types and the backoff its limits, for any number of
\* addresses, topics, faults and calls (scheduleReconnect, startAttempt).
THEOREM TypesCorrect == Spec => []TypeOK
  BY Invariant, PTL DEF Inv

\* Whatever fails and whenever the owner calls, a running session that is not in the
\* middle of the upgrade has a timer pending that gets it out of where it is.
THEOREM NeverWaitsSilently == Spec => []NoSilentWait
<1>1. Inv => NoSilentWait
  BY DEF Inv, Layers, Timers, NoSilentWait
<1>. QED
  BY <1>1, Invariant, PTL

\* After stop() no timer and no socket is left that would connect again.
THEOREM StopLasts == Spec => []StopIsFinal
<1>1. Inv => StopIsFinal
  BY DEF Inv, TypeOK, Connections, TlsStates, WsStates, Layers, Timers, StopIsFinal
<1>. QED
  BY <1>1, Invariant, PTL

\* An open session has asked its peer for exactly the topics its owner holds.
THEOREM TopicsReplayed == Spec => []SubscriptionsReplayed
  BY Invariant, PTL DEF Inv

\* Every loss of an open session but the one stop() causes is told to the owner.
THEOREM LossesReported == Spec => LossReported
<1>1. Inv /\ [Next]_vars
        => [conn.ws = "Open" /\ conn'.ws # "Open" /\ conn'.running => ~conn'.up]_vars
  BY InvStep DEF LossTold
<1>. QED
  BY <1>1, Invariant, PTL DEF Spec, LossReported

\* A stream that ended was reported to the layer above, except when every remaining
\* address failed at once after an earlier one had failed (TlsStream::nextAddress).
THEOREM DeathsReported ==
  ASSUME "noRoute" \notin Faults
  PROVE  Spec => []DeathReported
<1>1. Inv => DeathReported
  BY DEF Inv, Layers, DeathReported
<1>. QED
  BY <1>1, Invariant, PTL

=============================================================================
