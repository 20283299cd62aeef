------------------------------- MODULE Startup ------------------------------
(***************************************************************************)
(* How an ExchangeClient becomes ready: the requests bootstrap() makes     *)
(* over the HttpClient of its InfoClient, the subscriptions of its         *)
(* WsSession, and the conditions under which maybeReady() calls            *)
(* ExchangeListener::onReady.                                              *)
(*                                                                         *)
(* The client trades for one account.  When the signing key is an agent    *)
(* wallet the account is the master the venue reports, and the client has  *)
(* subscribed to the wrong address by the time it knows.  The account      *)
(* trades while all this goes on: a fill moves the position by one.        *)
(*                                                                         *)
(* The WebSocket is a pair of queues; Connection models what is below it.  *)
(***************************************************************************)
EXTENDS Integers, Sequences, FiniteSets

CONSTANTS
  Scenarios,   \* the configurations and accounts to start with
  RetryLimit,  \* connection attempts an unwritten request survives
  Variants,    \* the responses a server gives besides the plain one
  OldTrades,   \* fills of the account before the client starts
  SnapshotSize, \* how many fills the snapshot of a subscription holds
  Window,      \* kMaxRememberedTids
  MaxTrades,   \* bound: fills while it runs
  MaxFaults,   \* bound: things that go wrong with HTTP
  MaxDrops,    \* bound: losses of the WebSocket
  MaxStarts    \* bound: calls of start()

VARIABLES
  scenario,  \* [agent, spot, adopt, resets]: the role of the signer, two settings, and
             \* whether a peer may reset the HTTP connection before a write to it
  http,      \* the HttpClient of the InfoClient; its owner is the ExchangeClient
  up, feed,  \* the WebSocket, from and to the client
  subs,      \* the venue's side of it: the subscriptions in force
  trades,    \* fills of the account so far
  left       \* what remains of the bounds

vars == <<scenario, http, up, feed, subs, trades, left>>

Users  == {"signer", "master"}
Topics == {"orderUpdates", "userFills"}
Kinds  == {"meta", "spotMeta", "userRole", "spotBalances", "clearinghouseState", "openOrders",
           "reconcile"}

ASSUME StartupAssumption ==
  /\ Scenarios \subseteq [agent : BOOLEAN, spot : BOOLEAN, adopt : BOOLEAN, resets : BOOLEAN]
  /\ SnapshotSize \in Nat /\ Window \in Nat /\ SnapshotSize <= Window
  /\ RetryLimit \in Nat /\ OldTrades \in Nat /\ MaxTrades \in Nat /\ MaxFaults \in Nat
  /\ MaxDrops \in Nat /\ MaxStarts \in Nat

\* The account whose orders the signer's actions are.
Account == IF scenario.agent THEN "master" ELSE "signer"

NoPosition == [known |-> FALSE, size |-> 0, lastFill |-> 0]

\* The members of the ExchangeClient that start-up is about (tokens and spotPos hold
\* whose balances they are), what it wrote to its socket in this step, and, for the
\* properties, the newest fill of the first snapshot, the fills reported to the
\* listener, and the users whom the last clearinghouseState and openOrders were of.
NewOwner(sc) ==
  [config |-> sc, started |-> FALSE, ready |-> FALSE, wasReady |-> FALSE, assets |-> FALSE,
   positions |-> FALSE, spot |-> FALSE, adopted |-> FALSE, adopting |-> FALSE, user |-> "signer",
   open |-> FALSE, acked |-> {}, snapshotSeen |-> FALSE, tids |-> <<>>, pos |-> NoPosition,
   tokens |-> "none", spotPos |-> "none", retries |-> 0, sends |-> <<>>,
   seeded |-> 0, reported |-> <<>>, stateOf |-> "none", listOf |-> "none"]

Request(kind, user) == [kind |-> kind, user |-> user]

\* A handler yields the client and the requests it posts, in order.
Does(c, posts) == [owner |-> c, posts |-> posts]

-----------------------------------------------------------------------------
(* ExchangeClient *)

Bootstrap(c) ==
  Does(c, <<Request("meta", c.user), Request("userRole", "signer")>>
          \o (IF c.config.spot /\ ~c.spot THEN <<Request("spotBalances", c.user)>> ELSE <<>>)
          \o (IF c.positions THEN <<>> ELSE <<Request("clearinghouseState", c.user)>>))

\* Mutant: readiness does not wait for the streams to be acknowledged.
ReadyUnsubscribed(c) ==
  IF c.ready \/ ~c.started \/ ~c.assets \/ ~c.positions \/ ~c.open \/ (c.config.spot /\ ~c.spot)
  THEN Does(c, <<>>)
  ELSE IF ~c.wasReady /\ c.config.adopt /\ ~c.adopted
  THEN IF c.adopting THEN Does(c, <<>>)
       ELSE Does([c EXCEPT !.adopting = TRUE], <<Request("openOrders", c.user)>>)
  ELSE Does([c EXCEPT !.ready = TRUE, !.wasReady = TRUE], <<>>)

\* The end of maybeReady, and the listing the first ready waits for.
MaybeReady(c) ==
  IF \/ c.ready \/ ~c.started \/ ~c.assets \/ ~c.positions \/ ~c.open \/ c.acked # Topics
     \/ c.config.spot /\ ~c.spot
  THEN Does(c, <<>>)
  ELSE IF ~c.wasReady /\ c.config.adopt /\ ~c.adopted
  THEN IF c.adopting THEN Does(c, <<>>)
       ELSE Does([c EXCEPT !.adopting = TRUE], <<Request("openOrders", c.user)>>)
  ELSE Does([c EXCEPT !.ready = TRUE, !.wasReady = TRUE],
            IF c.wasReady /\ c.config.adopt THEN <<Request("reconcile", c.user)>> ELSE <<>>)

\* Positions are per market; a spot market starts from the balance of its token,
\* once both the markets and the balances are there.
SeedSpotPositions(c) ==
  IF c.spot /\ c.assets /\ c.config.spot /\ c.spotPos = "none"
  THEN [c EXCEPT !.spotPos = c.tokens] ELSE c

\* positions_.try_emplace: what a fill has said already stands.
SeedPosition(c, size) ==
  IF c.pos.known \/ size = 0 THEN c ELSE [c EXCEPT !.pos = [NoPosition EXCEPT !.known = TRUE,
                                                                             !.size = size]]

Subscribe(c, user) ==
  IF c.open THEN [c EXCEPT !.sends = @ \o <<<<"subscribe", "orderUpdates", user>>,
                                           <<"subscribe", "userFills", user>>>>]
  ELSE c

Unsubscribe(c, user) ==
  IF c.open THEN [c EXCEPT !.sends = @ \o <<<<"unsubscribe", "orderUpdates", user>>,
                                           <<"unsubscribe", "userFills", user>>>>]
  ELSE c

\* The signer is an agent of `master`: the streams and the positions are its.
ResubscribeUser(c, master) ==
  LET c1 == Subscribe(Unsubscribe(c, c.user), master)
  IN Does([c1 EXCEPT !.user = master, !.acked = {}, !.ready = FALSE, !.pos = NoPosition,
                     !.spotPos = "none", !.snapshotSeen = FALSE, !.positions = FALSE,
                     !.spot = ~c.config.spot],
          <<Request("clearinghouseState", master)>>)


\* The callbacks of the InfoClient's requests; value is what the answer says.
OnMeta(c, ok) ==
  IF ~ok THEN Does([c EXCEPT !.retries = @ + 1], <<>>)
  ELSE IF c.config.spot THEN Does(c, <<Request("spotMeta", c.user)>>)
  ELSE MaybeReady(SeedSpotPositions([c EXCEPT !.assets = TRUE]))

OnSpotMeta(c, ok) ==
  IF ~ok THEN Does([c EXCEPT !.retries = @ + 1], <<>>)
  ELSE MaybeReady(SeedSpotPositions([c EXCEPT !.assets = TRUE]))

OnUserRole(c, ok, isAgent) ==
  IF ok /\ isAgent /\ c.user # "master" THEN ResubscribeUser(c, "master") ELSE Does(c, <<>>)

OnSpotBalances(c, ok, user) ==
  MaybeReady(SeedSpotPositions([c EXCEPT !.spot = TRUE, !.tokens = IF ok THEN user ELSE @]))

OnClearinghouseState(c, ok, user, size) ==
  MaybeReady([(IF ok THEN SeedPosition(c, size) ELSE c) EXCEPT !.positions = TRUE,
                                                               !.stateOf = user])

OnOpenOrders(c, user) ==
  MaybeReady([c EXCEPT !.adopting = FALSE, !.adopted = TRUE, !.listOf = user])

\* InfoClient::request: an error, or a body that is not the whole answer, is a
\* failure of the call.
OnAnswer(c, what, answer) ==
  LET ok    == answer.outcome = "ok" /\ answer.status = "ok"
                 /\ answer.body # <<>> /\ answer.body[Len(answer.body)].last
      value == IF ok THEN answer.body[1].value ELSE 0
  IN CASE what.kind = "meta"               -> OnMeta(c, ok)
       [] what.kind = "spotMeta"           -> OnSpotMeta(c, ok)
       [] what.kind = "userRole"           -> OnUserRole(c, ok, value = 1)
       [] what.kind = "spotBalances"       -> OnSpotBalances(c, ok, what.user)
       [] what.kind = "clearinghouseState" -> OnClearinghouseState(c, ok, what.user, value)
       [] what.kind = "openOrders"         -> OnOpenOrders(c, what.user)
       [] what.kind = "reconcile"          -> Does(c, <<>>)

Http == INSTANCE HttpClient WITH Callback <- OnAnswer

\* One fill of a userFills message.  The trade ids of the last Window fills are
\* remembered; a fill of the first snapshot only joins them.
ApplyFill(c, tid, historical) ==
  LET known == \E i \in DOMAIN c.tids : c.tids[i] = tid
      tids  == Append(c.tids, tid)
      c1    == [c EXCEPT !.tids = IF Len(tids) > Window THEN Tail(tids) ELSE tids]
  IN IF known THEN c
     ELSE IF historical THEN c1
     ELSE [c1 EXCEPT !.reported = Append(@, tid),
                     !.pos = IF tid >= @.lastFill
                             THEN [known |-> TRUE, size |-> tid, lastFill |-> tid]
                             ELSE [@ EXCEPT !.known = TRUE]]

TakeSnapshot(c, msg) ==
  [c EXCEPT !.snapshotSeen = @ \/ msg.snapshot,
            !.seeded = IF msg.snapshot /\ ~c.snapshotSeen /\ msg.tids # <<>>
                       THEN msg.tids[Len(msg.tids)] ELSE @]


\* onUserFills: the first snapshot is history, all else is news.
OnUserFills(c, msg) ==
  LET historical == msg.snapshot /\ ~c.snapshotSeen
      fill[n \in 0 .. Len(msg.tids)] ==
        IF n = 0 THEN TakeSnapshot(c, msg)
        ELSE ApplyFill(fill[n - 1], msg.tids[n], historical)
  IN Does(fill[Len(msg.tids)], <<>>)

\* A response to unsubscribe is taken for one to subscribe.
OnSubscriptionResponse(c, topic) == MaybeReady([c EXCEPT !.acked = @ \cup {topic}])

OnSessionOpen(c) == [c EXCEPT !.open = TRUE, !.acked = {}]

OnSessionClosed(c) == [c EXCEPT !.open = FALSE, !.ready = FALSE, !.acked = {}]

-----------------------------------------------------------------------------
(* The steps.  Each is one event the loop dispatches, one call of the owner, *)
(* or one thing the venue or the network does.                               *)

client == http.owner

\* The HTTP client after a handler, with what the handlers wrote to the socket.
Becomes(h) ==
  \E new \in {h} :
    /\ http' = [new EXCEPT !.owner.sends = <<>>]
    /\ up' = up \o new.owner.sends

\* A handler of the ExchangeClient that the HttpClient did not call.
Handles(r) == Becomes(Http!PostAll([http EXCEPT !.owner = r.owner], r.posts))

Spend(what) == left[what] > 0 /\ left' = [left EXCEPT ![what] = @ - 1]

Start ==
  /\ ~client.started
  /\ Spend("starts")
  /\ Handles(Bootstrap([client EXCEPT !.started = TRUE]))
  /\ UNCHANGED <<scenario, feed, subs, trades>>

\* stop(): session_.stop() closes the socket and calls nobody back; the requests
\* under way go on.
Stop ==
  /\ client.started
  /\ http' = [http EXCEPT !.owner.started = FALSE, !.owner.ready = FALSE, !.owner.open = FALSE]
  /\ up' = <<>> /\ feed' = <<>> /\ subs' = {}
  /\ UNCHANGED <<scenario, trades, left>>

\* The 2 s timer after a failed load of the assets.  A host that is still
\* not there after that time is one more fault.
RetryTimer ==
  /\ client.retries > 0
  /\ IF http.host = "up" THEN UNCHANGED left ELSE Spend("faults")
  /\ LET c == [client EXCEPT !.retries = @ - 1]
     IN Handles(IF c.started /\ ~c.assets THEN Bootstrap(c) ELSE Does(c, <<>>))
  /\ UNCHANGED <<scenario, feed, subs, trades>>

\* The session replays its subscriptions before it tells its listener.
SessionOpens ==
  /\ client.started /\ ~client.open
  /\ Handles(Does(Subscribe(OnSessionOpen(client), client.user), <<>>))
  /\ UNCHANGED <<scenario, feed, subs, trades, left>>

SessionDrops ==
  /\ client.open
  /\ Spend("drops")
  /\ http' = [http EXCEPT !.owner = OnSessionClosed(client)]
  /\ up' = <<>> /\ feed' = <<>> /\ subs' = {}
  /\ UNCHANGED <<scenario, trades>>

MessageArrives ==
  /\ feed # <<>>
  /\ LET msg == Head(feed)
     IN Handles(IF msg.t = "ack" THEN OnSubscriptionResponse(client, msg.topic)
                ELSE OnUserFills(client, msg))
  /\ feed' = Tail(feed)
  /\ UNCHANGED <<scenario, subs, trades, left>>

Ack(topic) == [t |-> "ack", topic |-> topic, snapshot |-> FALSE, tids |-> <<>>]
Fills(snapshot, tids) == [t |-> "fills", topic |-> "userFills", snapshot |-> snapshot, tids |-> tids]

\* The last fills of a user, oldest first.
Recent(user) ==
  LET all == IF user = Account THEN [k \in 1 .. trades |-> k] ELSE <<>>
  IN IF Len(all) <= SnapshotSize THEN all ELSE SubSeq(all, Len(all) - SnapshotSize + 1, Len(all))

\* The venue acts on a command: it acknowledges it, and a subscription to fills
\* starts with a snapshot.
VenueServes ==
  /\ up # <<>>
  /\ LET method == Head(up)[1]
         topic  == Head(up)[2]
         user   == Head(up)[3]
     IN /\ subs' = IF method = "subscribe" THEN subs \cup {<<topic, user>>}
                   ELSE subs \ {<<topic, user>>}
        /\ feed' = feed \o <<Ack(topic)>>
                        \o IF method = "subscribe" /\ topic = "userFills"
                           THEN <<Fills(TRUE, Recent(user))>> ELSE <<>>
  /\ up' = Tail(up)
  /\ UNCHANGED <<scenario, http, trades, left>>

AccountTrades ==
  /\ Spend("trades")
  /\ trades' = trades + 1
  /\ feed' = IF <<"userFills", Account>> \in subs THEN Append(feed, Fills(FALSE, <<trades'>>))
             ELSE feed
  /\ UNCHANGED <<scenario, http, up, subs>>

-----------------------------------------------------------------------------
(* HTTP: the loop's events, the server and the network. *)

HttpStep(h) == Becomes(h) /\ UNCHANGED <<scenario, feed, subs, trades>>

HttpConnects ==
  /\ http.stream = "connecting" /\ http.host = "up"
  /\ HttpStep(Http!OnTlsConnected(http))
  /\ UNCHANGED left

\* Refused, timed out or failed in the handshake.
HttpConnectFails ==
  /\ http.stream = "connecting"
  /\ IF http.host = "up" THEN Spend("faults") ELSE UNCHANGED left
  /\ HttpStep(Http!OnStreamLost(http))

\* What the venue answers to a request.
Value(what) ==
  CASE what.kind = "userRole"           -> IF scenario.agent THEN 1 ELSE 0
    [] what.kind = "clearinghouseState" -> IF what.user = Account THEN trades ELSE 0
    [] OTHER                            -> 0

\* The response with head `head` to the request the server holds.
Respond(head) ==
  LET req  == Head(http.srv)
      body == [k \in 1 .. head.length |->
                 [of |-> req.id, value |-> Value(req.what), last |-> k = head.length]]
  IN HttpStep([http EXCEPT !.srv = Tail(@), !.down = @ \o Http!Wire(head, body)])

PlainHead == [status |-> "ok", keep |-> TRUE, framing |-> "length", length |-> 1]

ServerAnswers ==
  /\ http.srv # <<>>
  /\ Respond(PlainHead)
  /\ UNCHANGED left

ServerAnswersOtherwise ==
  /\ http.srv # <<>>
  /\ Spend("faults")
  /\ \E head \in Variants : Respond(head)

ServerKeepsSilent ==
  /\ http.srv # <<>>
  /\ Spend("faults")
  /\ HttpStep([http EXCEPT !.srv = Tail(@)])

\* A response to nothing: the server gives up on a connection that carries no
\* request (a 408), as far as it knows.
ServerSpeaksUnasked ==
  /\ http.stream = "open" /\ http.srv = <<>> /\ http.down = <<>> /\ ~http.dead
  /\ ~Http!Awaiting(http)
  /\ Spend("faults")
  /\ HttpStep([http EXCEPT !.down = Http!Wire([status |-> "error", keep |-> FALSE,
                                              framing |-> "length", length |-> 0], <<>>)])

HttpDataArrives ==
  /\ http.down # <<>>
  /\ HttpStep(Http!OnTlsData(http))
  /\ UNCHANGED left

\* The peer closes or resets the connection and the client is told.
HttpConnectionLost ==
  /\ http.stream = "open"
  /\ IF http.dead THEN UNCHANGED left ELSE Spend("faults")
  /\ HttpStep(Http!OnStreamLost(http))

\* The peer resets the connection; the client is told when the loop gets to it.
PeerResets ==
  /\ scenario.resets
  /\ http.stream = "open" /\ ~http.dead
  /\ Spend("faults")
  /\ HttpStep([http EXCEPT !.dead = TRUE, !.srv = <<>>, !.down = <<>>])

\* A deadline passes.  It may race an answer that is under way; nothing is under
\* way when the server keeps silent.
HttpRequestTimer ==
  \E id \in http.deadlines :
    /\ IF http.srv = <<>> /\ http.down = <<>> THEN UNCHANGED left ELSE Spend("faults")
    /\ HttpStep(Http!OnRequestTimeout(http, id))

HttpPauseTimer ==
  /\ http.pauseTimer
  /\ HttpStep(Http!OnPauseTimer(http))
  /\ UNCHANGED left

\* A pause that no timer watches ends by the clock.
PauseElapses ==
  /\ http.paused # "no" /\ ~http.pauseTimer
  /\ HttpStep([http EXCEPT !.paused = "no"])
  /\ UNCHANGED left

HttpIdleTimer ==
  /\ http.idleTimer
  /\ HttpStep(Http!OnIdleTimer(http))
  /\ UNCHANGED left

\* The application cancels the requests of info().http().
CancelsRequests ==
  /\ http.queue # <<>>
  /\ Spend("faults")
  /\ HttpStep(Http!CancelAll(http))

HostGoes ==
  /\ http.host = "up"
  /\ Spend("faults")
  /\ \E host \in {"down", "unknown"} : HttpStep([http EXCEPT !.host = host])

HostReturns ==
  /\ http.host # "up"
  /\ HttpStep([http EXCEPT !.host = "up"])
  /\ UNCHANGED left

-----------------------------------------------------------------------------
Init ==
  /\ scenario \in Scenarios
  /\ http = Http!NewClient(NewOwner(scenario))
  /\ up = <<>> /\ feed = <<>> /\ subs = {}
  /\ trades = OldTrades
  /\ left = [faults |-> MaxFaults, drops |-> MaxDrops, starts |-> MaxStarts, trades |-> MaxTrades]

Venue == VenueServes \/ AccountTrades

Server == ServerAnswers \/ ServerAnswersOtherwise \/ ServerKeepsSilent \/ ServerSpeaksUnasked

Loop ==
  \/ RetryTimer \/ SessionOpens \/ MessageArrives \/ HttpConnects \/ HttpDataArrives
  \/ HttpRequestTimer \/ HttpPauseTimer \/ HttpIdleTimer

Network ==
  \/ SessionDrops \/ HttpConnectFails \/ HttpConnectionLost \/ PeerResets
  \/ HostGoes \/ HostReturns \/ PauseElapses

Next == Start \/ Stop \/ CancelsRequests \/ Venue \/ Server \/ Loop \/ Network

Spec == Init /\ [][Next]_vars

\* What happens by itself: the loop runs, the venue and its server answer, and a
\* host that went returns.
Progress ==
  \/ RetryTimer \/ SessionOpens \/ MessageArrives \/ VenueServes \/ HttpConnects
  \/ ServerAnswers \/ HttpDataArrives \/ HttpRequestTimer \/ HttpPauseTimer \/ HostReturns

FairSpec == Spec /\ WF_vars(Progress)

-----------------------------------------------------------------------------
(* Properties *)

\* HttpClient promises submission order and that a written request is never
\* replayed: each request that reaches the wire was queued after the one before
\* it, across timeouts, lost connections, reconnects and callbacks that post.
SentOnceInOrder == http.inOrder /\ Len(http.srv) <= 1


\* onReady is earned: the assets are there and, unless the account was found out
\* late, its positions were asked for, its open orders listed, its balances seeded,
\* and this very connection carries both its streams.
ReadyIsEarned ==
  client.ready =>
    /\ client.started /\ client.open /\ client.assets
    /\ ~scenario.agent =>
         /\ client.stateOf = client.user
         /\ client.config.adopt => client.listOf = client.user
         /\ client.config.spot /\ client.tokens # "none" => client.spotPos = client.user
         /\ subs = Topics \X {client.user}


\* The position of a ready client whose streams are drained is the venue's: what the
\* first snapshot holds back is in the clearinghouseState the position started from.
PositionSeeded ==
  client.ready /\ feed = <<>> /\ up = <<>> => client.pos.size = trades

\* Every request is answered, however the connection was lost and whichever deadline
\* raced its answer, as long as no write fails at once: HttpClient::pump() leaves a
\* deadline behind when one does.
RequestsAnswered == []<>(http.queue = <<>> \/ scenario.resets)


=============================================================================
