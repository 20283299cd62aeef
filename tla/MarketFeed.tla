----------------------------- MODULE MarketFeed ------------------------------
(***************************************************************************)
(* From the socket to the quotes: WebSocketClient, WsSession, the parser   *)
(* and MarketDataClient on one side, the quoter and what it sees of        *)
(* ExchangeClient on the other, against a server that frames messages as   *)
(* it likes and an exchange that answers when it likes.  Everything one    *)
(* read sets off runs to its end inside that read.  How a session comes    *)
(* and goes is the subject of Connection; here it is up or down.           *)
(***************************************************************************)
EXTENDS Quoter, SequencesExt

CONSTANTS
  MaxMessage,    \* WebSocketOptions::maxMessageBytes, in units
  MaxControl,    \* the 125 bytes of a control frame, in units
  Snapshots,     \* [bids, asks] of the l2Book messages, levels as [px, sz]
  Tops,          \* [bids, asks] of the bbo messages
  FillSize,      \* what one trade fills
  FailingWrites, \* a pong may fail and take the connection with it
  Scenarios      \* the bounded budgets a behaviour starts with

ASSUME FeedAssumption ==
  /\ FillSize \in Nat \ {0}
  /\ FailingWrites \in BOOLEAN
  /\ \A s \in Snapshots \cup Tops : /\ s.bids \in Seq([px : Nat, sz : Nat])
                                    /\ s.asks \in Seq([px : Nat, sz : Nat])
  \* "Levels are assumed sorted best-first, as the venue sends them."
  /\ \A s \in Snapshots : Sorted(s.bids, TRUE) /\ Sorted(s.asks, FALSE) /\ Uncrossed(s)
  /\ \A t \in Tops : Len(t.bids) <= 1 /\ Len(t.asks) <= 1
  /\ \A s \in Scenarios : s.tops \subseteq Tops /\ s.maxTime \in Nat

VARIABLES
  client,  \* the process
  wire,    \* units on their way to it
  server,  \* the other end of the session
  budget   \* what is left of the scenario

vars == <<client, wire, server, budget>>

\* The subscriptions of the coin: to its book, plain or fast, and to other channels.
BookSubscriptions == {"l2Book", "fast l2Book"}
OtherSubscriptions == {"bbo", "trades"}

\* A message as text: two units, so that it can be split and cut.
Text(msg) == <<[msg |-> msg, part |-> 1], [msg |-> msg, part |-> 2]>>

-----------------------------------------------------------------------------
(* MarketDataClient, and the parser under it. *)

\* WsFrameDecoder::reset.
ResetDecoder(d) ==
  [d EXCEPT !.epoch = @ + 1, !.buffer = <<>>, !.fragments = <<>>, !.inFragmentedMessage = FALSE]

OnSessionClosed(c) == [c EXCEPT !.book = Clear(@)]

\* stop(), if the application calls it from the callback: the session is closed,
\* the decoder reset, and nobody is told.
Application(c) ==
  IF ~c.stopNext THEN c
  ELSE [c EXCEPT !.stopNext = FALSE, !.running = FALSE, !.ws = "Closed",
                 !.decoder = ResetDecoder(@), !.stopped = @ \cup {c.session}]

\* findBook: books_ holds a book for the coin, with the subscription that feeds it.
HasBook(c) == c.fedBy # "none"

OnL2Book(c, msg) ==
  IF ~HasBook(c) THEN Application(c)
  ELSE Application(OnBookUpdate([c EXCEPT !.book = ApplySnapshot(@, msg)]))

\* A best price means nothing before the first snapshot.
OnBbo(c, msg) ==
  IF ~HasBook(c) \/ c.book.snapshotTimeMs = 0 \/ ~TakesBbo(c.book, msg) THEN Application(c)
  ELSE Application(OnBookUpdate([c EXCEPT !.book = Overlay(@, msg)]))

\* The other channels are passed on to the application.
Forward(c) == Application(c)

\* subscribeL2Book: the first subscription of a coin brings the book; one with
\* other options feeds the same book.
SubscribeL2Book(c, sub) ==
  [c EXCEPT !.fedBy = IF HasBook(c) THEN @ ELSE sub, !.subs = @ \cup {sub}]

SubscribeOther(c, sub) == [c EXCEPT !.subs = @ \cup {sub}]

\* Dropping the book only when a plain subscription goes.
UnsubscribePlain(c, sub) ==
  IF sub = c.fedBy /\ sub = "l2Book"
    THEN [c EXCEPT !.subs = @ \ {sub}, !.fedBy = "none", !.book = EmptyBook]
    ELSE [c EXCEPT !.subs = @ \ {sub}]

\* unsubscribeRaw: a book goes with the subscription that brought it.
UnsubscribeRaw(c, sub) ==
  IF sub = c.fedBy
    THEN [c EXCEPT !.subs = @ \ {sub}, !.fedBy = "none", !.book = EmptyBook]
    ELSE [c EXCEPT !.subs = @ \ {sub}]

\* readLevel and the loops over the fields of a message: one that cannot be read,
\* and nothing of the message is delivered.
Readable(msg) == ~msg.bad

\* WsMessageParser::parse: text that is not one whole message is dropped.
OnSessionMessage(c, text) ==
  IF text = <<>> \/ text # Text(text[1].msg) \/ ~Readable(text[1].msg) THEN c
  ELSE LET msg == text[1].msg
       IN  CASE msg.channel = "l2Book" -> OnL2Book(c, msg)
             [] msg.channel = "bbo"    -> OnBbo(c, msg)
             [] OTHER                  -> Forward(c)

-----------------------------------------------------------------------------
(* WebSocketClient: the decoder's sink. *)

OnWsText(c, text) == OnSessionMessage([c EXCEPT !.given = Append(@, text)], text)

OnWsMessage(c, op, body) == IF op = "Text" THEN OnWsText(c, body) ELSE c

\* The stream failed under the client: the owner is told.
OnTlsClosed(c) == IF c.ws = "Closed" THEN c ELSE OnSessionClosed([c EXCEPT !.ws = "Closed"])

SendFrame(c) == IF c.ws = "Open" /\ c.writesFail THEN OnTlsClosed(c) ELSE c

Fail(c) ==
  IF c.ws = "Closed" THEN c
  ELSE OnSessionClosed([c EXCEPT !.ws = "Closed", !.decoder = ResetDecoder(@)])

OnWsControl(c, op) ==
  CASE op = "Ping"  -> SendFrame(c)
    [] op = "Close" -> Fail(SendFrame(c))
    [] OTHER        -> c

Codec == INSTANCE WsCodec

\* onTlsData, of an open WebSocket.
OnTlsData(c, units) ==
  LET fed == Codec!Feed(c, units)
  IN  IF fed.status # "Ok" /\ fed.c.ws = "Open" THEN Fail(fed.c) ELSE fed.c
-----------------------------------------------------------------------------
(* The session, and the server at its other end. *)

Spend(what) == budget[what] > 0 /\ budget' = [budget EXCEPT ![what] = @ - 1]

Init ==
  /\ \E s \in Scenarios : budget = s
  /\ client =
       [ws |-> "Closed", running |-> TRUE, session |-> 0, decoder |-> Codec!NewDecoder,
        book |-> EmptyBook, fedBy |-> "l2Book", subs |-> {"l2Book", "bbo"},
        stopNext |-> FALSE, writesFail |-> FALSE, given |-> <<>>,
        stopped |-> {}, now |-> MinInterval, slots |-> NewQuoter, halted |-> FALSE,
        shuttingDown |-> FALSE, orders |-> <<>>, ready |-> TRUE, position |-> 0,
        unbooked |-> [s \in Sides |-> 0]]
  /\ wire = <<>>
  /\ server = [times |-> [l2Book |-> 1, bbo |-> 1], rest |-> <<>>, sent |-> <<>>]

\* The retry timer, the connection and the upgrade: a session with a fresh decoder.
SessionOpens ==
  /\ client.running /\ client.ws = "Closed"
  /\ Spend("sessions")
  /\ client' = [client EXCEPT !.ws = "Open", !.session = @ + 1, !.given = <<>>,
                              !.decoder = ResetDecoder(@)]
  /\ wire' = <<>>
  /\ server' = [server EXCEPT !.rest = <<>>, !.sent = <<>>]

\* start(), after the application's stop().
Start ==
  /\ ~client.running
  /\ client' = [client EXCEPT !.running = TRUE]
  /\ UNCHANGED <<wire, server, budget>>

\* The application changes its subscriptions.  What the server sent before it heard
\* of it still arrives.
ChangesSubscriptions ==
  /\ Spend("calls")
  /\ \/ \E sub \in BookSubscriptions : client' = SubscribeL2Book(client, sub)
     \/ \E sub \in OtherSubscriptions : client' = SubscribeOther(client, sub)
     \/ \E sub \in client.subs : client' = UnsubscribeRaw(client, sub)
  /\ UNCHANGED <<wire, server>>

\* The connection dies; what it carried is lost.
ConnectionLost ==
  /\ client.ws = "Open"
  /\ Spend("drops")
  /\ client' = OnTlsClosed(client)
  /\ wire' = <<>>
  /\ UNCHANGED server

\* Without `split`, a message is one frame and is read as it comes.
MaySend == client.ws = "Open" /\ (budget.split > 0 \/ wire = <<>>)

Puts(frame) == wire' = wire \o frame /\ UNCHANGED client

\* A message goes out in one frame, or the first part of it in a frame of its own.
Sends(msg) ==
  /\ MaySend
  /\ server.rest = <<>>
  /\ \/ /\ Puts(Codec!Frame(TRUE, "Text", Text(msg)))
        /\ server' = [server EXCEPT !.sent = Append(@, Text(msg)), !.times[msg.clock] = msg.time]
     \/ /\ budget.split > 0
        /\ Puts(Codec!Frame(FALSE, "Text", <<Text(msg)[1]>>))
        /\ server' = [server EXCEPT !.rest = Text(msg), !.times[msg.clock] = msg.time]

SendsRest ==
  /\ MaySend
  /\ server.rest # <<>>
  /\ Puts(Codec!Frame(TRUE, "Continuation", <<server.rest[2]>>))
  /\ server' = [server EXCEPT !.sent = Append(@, server.rest), !.rest = <<>>]
  /\ UNCHANGED budget

Stamped(levels, time) ==
  [i \in DOMAIN levels |-> [px |-> levels[i].px, sz |-> levels[i].sz,
                            time |-> time, session |-> client.session]]

Message(channel, clock, time, content, bad) ==
  [channel |-> channel, clock |-> clock, time |-> time, bad |-> bad,
   bids |-> Stamped(content.bids, time), asks |-> Stamped(content.asks, time)]

\* The times of a channel do not go back; the two channels are not in step.
SendsBook ==
  /\ Spend("messages")
  /\ \E bad \in BOOLEAN :
       \/ \E s \in Snapshots, t \in server.times.l2Book .. budget.maxTime :
            Sends(Message("l2Book", "l2Book", t, s, bad))
       \/ \E s \in budget.tops, t \in server.times.bbo .. budget.maxTime :
            Sends(Message("bbo", "bbo", t, s, bad))

\* A channel without a book behind it.
SendsOther ==
  /\ Spend("others")
  /\ Sends(Message("other", "bbo", server.times.bbo, [bids |-> <<>>, asks |-> <<>>], FALSE))

SendsControl ==
  /\ MaySend
  /\ Spend("controls")
  /\ \/ \E op \in {"Ping", "Pong", "Close"} : Puts(Codec!Frame(TRUE, op, <<>>))
     \/ server.rest = <<>> /\ Puts(Codec!Frame(TRUE, "Binary", <<[msg |-> <<>>, part |-> 1]>>))
  /\ UNCHANGED server

\* Frames a server should not send: cut short, too long, out of place, or unknown.
Misframed ==
  LET unit == [msg |-> <<>>, part |-> 1]
      Long(n) == [i \in 1 .. n |-> unit]
  IN  {Codec!Frame(FALSE, "Ping", <<>>), Codec!Frame(TRUE, "Ping", Long(MaxControl + 1)),
       Codec!Frame(TRUE, "Reserved", <<>>), Codec!Frame(TRUE, "Text", Long(MaxMessage + 1)),
       IF server.rest = <<>> THEN Codec!Frame(TRUE, "Continuation", <<unit>>)
       ELSE Codec!Frame(TRUE, "Text", <<unit>>)}
        \cup (IF server.rest = <<>> THEN {}
              ELSE {Codec!Frame(FALSE, "Continuation", Long(MaxMessage))})

Misbehaves ==
  /\ MaySend
  /\ Spend("misframed")
  /\ \E f \in Misframed : Puts(f)
  /\ UNCHANGED server

\* What the parser was given and what was sent cancel out, as far as they agree.
Matched(c) ==
  IF IsPrefix(c.given, server.sent)
    THEN /\ client' = [c EXCEPT !.given = <<>>]
         /\ server' = [server EXCEPT !.sent = SubSeq(@, Len(c.given) + 1, Len(@))]
    ELSE client' = c /\ UNCHANGED server

\* One read: some of what is on the wire, or all of it.  What follows the end of
\* the connection is dropped with it.
Reads ==
  /\ client.ws = "Open" /\ wire # <<>>
  /\ \E n \in (IF budget.split > 0 THEN 1 .. Len(wire) ELSE {Len(wire)}),
        fails \in (IF FailingWrites THEN BOOLEAN ELSE {FALSE}),
        stops \in (IF budget.stops > 0 THEN BOOLEAN ELSE {FALSE}) :
       \E read \in {OnTlsData([client EXCEPT !.writesFail = fails, !.stopNext = stops],
                              SubSeq(wire, 1, n))} :
         /\ Matched([read EXCEPT !.writesFail = FALSE, !.stopNext = FALSE])
         /\ wire' = IF read.ws = "Open" THEN SubSeq(wire, n + 1, Len(wire)) ELSE <<>>
         /\ budget' = IF read.running THEN budget ELSE [budget EXCEPT !.stops = @ - 1]

-----------------------------------------------------------------------------
(***************************************************************************)
(* The exchange, as ExchangeClient reports it: an order moves as           *)
(* OrderLifecycle allows.  `revived` marks an order that was pronounced    *)
(* ended and then turned up in a listing after all.                        *)
(***************************************************************************)

Becomes(o, state) ==
  [o EXCEPT !.state = state, !.acked = @ \/ state # "Rejected",
            !.cancelPending = @ /\ state \notin Ended, !.modifyPending = @ /\ state \notin Ended]

\* The order trades `sz` more.  One pronounced ended is thereby filled.
Traded(o, sz) ==
  Becomes([o EXCEPT !.filled = @ + sz],
          IF o.filled + sz = o.sz THEN "Filled" ELSE "PartiallyFilled")

\* What the next update may say of an order.  An amendment that was accepted put a
\* new order in place of the old one.
News(o) ==
  (IF o.state = "PendingNew" THEN {Becomes(o, "Open"), Becomes(o, "Rejected")} ELSE {})
    \cup (IF IsLive(o) THEN {Becomes(o, "Canceled")} ELSE {})
    \cup (IF o.cancelPending THEN {[o EXCEPT !.cancelPending = FALSE]} ELSE {})
    \cup (IF o.modifyPending
            THEN {[o EXCEPT !.modifyPending = FALSE, !.targetPx = o.px, !.targetSz = o.sz],
                  [o EXCEPT !.modifyPending = FALSE, !.px = o.targetPx, !.sz = o.targetSz,
                            !.filled = 0, !.state = "Open"]}
            ELSE {})
    \cup (IF o.state \in {"Canceled", "Rejected"}
            THEN {[Becomes(o, "Open") EXCEPT !.revived = TRUE]} ELSE {})

\* ExchangeClient::emit.
Tells(i, o) == OnOrderUpdate([client EXCEPT !.orders[i] = o], i)

OrderNews ==
  /\ Spend("news")
  /\ \E i \in DOMAIN client.orders : \E o \in News(client.orders[i]) : client' = Tells(i, o)
  /\ UNCHANGED <<wire, server>>

\* A trade is told by two streams: the position follows the userFills one, which
\* may be the later of the two.  An order pronounced canceled may have traded.
Trade ==
  /\ Spend("trades")
  /\ \E i \in DOMAIN client.orders :
       LET o    == client.orders[i]
           rest == o.sz - o.filled
       IN  \E sz \in (IF IsLive(o) THEN {FillSize, rest} ELSE {rest}) :
             /\ o.state # "Filled" /\ sz > 0 /\ sz <= rest
             /\ client' = [Tells(i, Traded(o, sz)) EXCEPT !.unbooked[o.side] = @ + sz]
  /\ UNCHANGED <<wire, server>>

OnUserFills(side) ==
  /\ client.unbooked[side] > 0
  /\ client' = [client EXCEPT !.unbooked[side] = 0,
                              !.position = IF side = "Buy" THEN @ + client.unbooked[side]
                                           ELSE @ - client.unbooked[side]]
  /\ UNCHANGED <<wire, server, budget>>

ExchangeDrops ==
  /\ client.ready
  /\ Spend("exchangeDrops")
  /\ client' = [client EXCEPT !.ready = FALSE]
  /\ UNCHANGED <<wire, server>>

OnReady ==
  /\ ~client.ready
  /\ client' = [client EXCEPT !.ready = TRUE]
  /\ UNCHANGED <<wire, server, budget>>

Tick ==
  /\ Spend("ticks")
  /\ client' = [client EXCEPT !.now = @ + 1]
  /\ UNCHANGED <<wire, server>>

ShutsDown ==
  /\ ~client.shuttingDown
  /\ Spend("shutdowns")
  /\ client' = Shutdown(client)
  /\ UNCHANGED <<wire, server>>

Exchange ==
  OrderNews \/ Trade \/ (\E s \in Sides : OnUserFills(s)) \/ ExchangeDrops \/ OnReady

Next ==
  \/ SessionOpens \/ Start \/ ConnectionLost \/ ChangesSubscriptions
  \/ SendsRest \/ SendsBook \/ SendsOther \/ SendsControl \/ Misbehaves
  \/ Reads
  \/ Exchange \/ Tick \/ ShutsDown

Spec == Init /\ [][Next]_vars

-----------------------------------------------------------------------------
(* Properties. *)

\* However the server fragments its messages, whatever it sends between the
\* fragments and wherever the reads cut the stream, the parser is given the
\* messages of this connection, whole, in order and once (WsFrameDecoder::feed);
\* and once everything was read it has been given all of them.  `given` and `sent`
\* keep what has not been matched.
FramesIntact ==
  /\ client.given = <<>>
  /\ client.ws = "Open" /\ wire = <<>> => server.sent = <<>>

\* The book is one that could exist: both sides sorted, no bid at or above an
\* ask, no more levels than the arrays hold, whatever locked, crossed, one-sided
\* or late updates went into it (OrderBook::applyBbo).
BookSound ==
  /\ Sorted(client.book.bids, TRUE) /\ Sorted(client.book.asks, FALSE)
  /\ Uncrossed(client.book)
  /\ Len(client.book.bids) <= MaxLevels /\ Len(client.book.asks) <= MaxLevels

Levels == Range(client.book.bids) \cup Range(client.book.asks)

\* No level is older than the snapshot under it, and none comes from a session
\* before this one, unless it was the application that ended that session.
BookFresh ==
  \A l \in Levels :
    /\ l.time >= client.book.snapshotTimeMs
    /\ l.session = client.session \/ l.session \in client.stopped

\* "On disconnect every book is cleared", and unsubscribing from what feeds a book
\* drops it: while the session is lost, and while no subscription in force brings
\* the book its snapshots, there are no levels to act on
\* (MarketDataClient::onSessionClosed, unsubscribeRaw).
ClearedWhenLost ==
  \/ client.ws = "Closed" /\ client.session \notin client.stopped
  \/ client.subs \cap BookSubscriptions = {}
  => Levels = {}

\* The orders a step sends or amends.
SentNow ==
  {i \in DOMAIN client'.orders :
     \/ i \notin DOMAIN client.orders
     \/ client'.orders[i].modifyPending /\ ~client.orders[i].modifyPending}

\* A quote that goes out does not cross the book it was made from, does not add
\* to a position at its limit, and is not sent after the halt or the shutdown;
\* and no quote is made that the client's own checks refuse (computeQuotes).
QuotesSafe ==
  [][ /\ \A i \in SentNow :
           LET o    == client'.orders[i]
               b    == client'.book
               fair == IF UseMicroprice THEN Microprice(b) ELSE MidPrice(b)
               held == client'.position * fair
           IN  /\ ~client.halted /\ ~client.shuttingDown
               /\ o.side = "Buy"  => o.targetPx < b.asks[1].px /\ held < MaxUsd
               /\ o.side = "Sell" => o.targetPx > b.bids[1].px /\ held > -MaxUsd
      /\ \A s \in Sides :
           client'.slots[s].lastAction # client.slots[s].lastAction =>
             \E i \in SentNow : client'.orders[i].side = s
    ]_vars

\* "One order per side": whatever the order of updates, fills and amendments, two
\* orders of a side are never live together, short of one that the exchange
\* client had pronounced ended (Quoter::manageSide, onOrderUpdate).
OneOrderPerSide ==
  \A i, j \in DOMAIN client.orders :
    LET o == client.orders[i]
        p == client.orders[j]
    IN  i < j /\ o.side = p.side /\ ~o.revived /\ ~p.revived => ~(IsLive(o) /\ IsLive(p))
=============================================================================
