----------------------------- MODULE OrderFlow ------------------------------
(***************************************************************************)
(* ExchangeClient against the venue and the network.  The client's actions *)
(* are those of ExchangeClient; what they are fed is no longer arbitrary   *)
(* but what a venue with one coin produces from the requests it received.  *)
(*                                                                         *)
(* The venue is not part of the repository.  It is modelled from what the  *)
(* code and its comments expect of it: oids increase, modify replaces an   *)
(* order by a new oid under the same cloid, a cancel by cloid reaches the  *)
(* live generation, orderStatus by cloid answers about the first order     *)
(* ever placed under it, a reconnect re-sends every fill.  Each stream is  *)
(* ordered; acknowledgements, updates, fills and /info answers overtake    *)
(* each other freely.  Requests of a dropped socket may still arrive.      *)
(***************************************************************************)
EXTENDS ExchangeClient

CONSTANTS
  PatientModify,  \* the application amends an order only once its placement is answered
  InOrder,        \* requests and their responses do not overtake each other
  AmendErrors,    \* what the venue may do to a resting order when it answers a modify with an error
  MayReject,      \* the venue may refuse an order
  MayCancel,      \* the venue may cancel an order on its own
  Scenarios       \* the budgets a behaviour may start with (see Budgets)

\* sizes and amendSizes: what an order or a modify may ask for.  The rest are
\* bounds: orders placed outside this client, requests the client gives up waiting
\* for, /info requests that fail, times the socket drops, calls of stop().
Budgets == [sizes : SUBSET Sizes, amendSizes : SUBSET Sizes, foreign : Nat, timeouts : Nat,
            infoFails : Nat, drops : Nat, stops : 0 .. MaxStops]

ASSUME VenueAssumption ==
  /\ Oids = 1 .. Cardinality(Oids)
  /\ MaxBatch = 1 /\ \A b \in Batches : Len(b) = 1
  /\ PatientModify \in BOOLEAN
  /\ InOrder \in BOOLEAN
  /\ AmendErrors \subseteq {"kept", "canceled"}
  /\ MayReject \in BOOLEAN
  /\ MayCancel \in BOOLEAN
  /\ Scenarios \subseteq Budgets

VARIABLES
  book,      \* the venue's orders, by oid
  fillLog,   \* every fill so far, oldest first
  flight,    \* requests the venue has not processed
  acks,      \* responses on their way to the client
  updQ,      \* the orderUpdates stream
  fillQ,     \* the userFills stream
  eventQ,    \* the userEvents stream
  answer,    \* the /info answer on its way, or Unanswered
  budget     \* what is left of the scenario

venueVars == <<book, fillLog>>
netVars   == <<flight, acks, updQ, fillQ, eventQ, answer>>
flowVars  == <<vars, venueVars, netVars, budget>>

Unanswered == [kind |-> "unanswered"]

Unissued == [cloid |-> NoCloid, sz |-> 0, filled |-> 0, status |-> "none"]

Issued   == {o \in Oids : book[o].status # "none"}
Resting  == {o \in Oids : book[o].status = "resting"}
FreshOid == Cardinality(Issued) + 1

-----------------------------------------------------------------------------
(***************************************************************************)
(* What the venue sends.                                                   *)
(***************************************************************************)

UpdateOf(o, b) ==
  [cloid |-> b[o].cloid, oid |-> o, origSz |-> b[o].sz,
   status |-> CASE b[o].status = "resting" -> "open"
                [] b[o].status = "filled" -> "filled"
                [] b[o].status = "canceled" -> "canceled"]

Ok(st)        == [ok |-> TRUE, transport |-> FALSE, statuses |-> <<st>>]
Status(k, o, sz) == [kind |-> k, oid |-> o, totalSz |-> sz]
WholeError    == [ok |-> FALSE, transport |-> FALSE, statuses |-> << >>]

\* The streams reach a client whose subscriptions are acknowledged.
Push(q, msgs) == IF ready THEN q \o msgs ELSE q

\* A response finds nobody once the client has given up on its request.
Respond(r, res) ==
  acks' = IF r \in pending THEN acks \cup {[req |-> r, res |-> res]} ELSE acks

FillMsg(o, b, sz) ==
  LET n == Len(fillLog) + 1
  IN  [cloid |-> b[o].cloid, oid |-> o, sz |-> sz, tid |-> n, time |-> n,
       endPos |-> sz + (IF n = 1 THEN 0 ELSE fillLog[n - 1].endPos)]

\* The venue carries `b` as its book and publishes the orders `os`, in that order.
Publish(b, os) ==
  /\ book' = b
  /\ updQ' = Push(updQ, [i \in DOMAIN os |-> UpdateOf(os[i], b)])

NoFill == UNCHANGED <<fillLog, fillQ>>

RecordFill(o, b, sz) ==
  /\ fillLog' = Append(fillLog, FillMsg(o, b, sz))
  /\ fillQ' = Push(fillQ, <<FillMsg(o, b, sz)>>)

-----------------------------------------------------------------------------
(***************************************************************************)
(* The venue processes a request.                                          *)
(***************************************************************************)

Take(r, kind) ==
  /\ r \in flight
  /\ r.kind = kind
  /\ InOrder => \A q \in flight : r.id <= q.id
  /\ flight' = flight \ {r}
  /\ UNCHANGED <<vars, eventQ, answer, budget>>

NewOrder(c, sz, filled) ==
  [cloid |-> c, sz |-> sz, filled |-> filled,
   status |-> IF filled = sz THEN "filled" ELSE "resting"]

VenueAccepts(r) ==
  LET o == FreshOid
  IN  /\ Take(r, "Order")
      /\ o \in Oids
      /\ \/ LET b == [book EXCEPT ![o] = NewOrder(r.cloids[1], r.sz, 0)]
            IN  Publish(b, <<o>>) /\ NoFill /\ Respond(r, Ok(Status("resting", o, 0)))
         \/ LET b == [book EXCEPT ![o] = NewOrder(r.cloids[1], r.sz, r.sz)]
            IN  /\ Publish(b, <<o>>)
                /\ RecordFill(o, b, r.sz)
                /\ Respond(r, Ok(Status("filled", o, r.sz)))

VenueRefuses(r) ==
  /\ MayReject
  /\ Take(r, "Order")
  /\ \/ Respond(r, Ok(Status("error", NoOid, 0)))
     \/ Respond(r, WholeError)
  /\ UNCHANGED <<venueVars, updQ, fillQ>>

\* The order a cancel names: by oid, or the live generation of a cloid.
CancelVictims(r) ==
  {o \in Resting : IF r.targets[1] # NoOid THEN o = r.targets[1]
                   ELSE book[o].cloid = r.cloids[1]}

VenueCancels(r) ==
  /\ Take(r, "Cancel")
  /\ NoFill
  /\ IF CancelVictims(r) = {}
       THEN /\ Respond(r, Ok(Status("error", NoOid, 0)))
            /\ UNCHANGED <<book, updQ>>
       ELSE LET o == CHOOSE v \in CancelVictims(r) : TRUE
            IN  /\ Publish([book EXCEPT ![o].status = "canceled"], <<o>>)
                /\ Respond(r, Ok(Status("success", NoOid, 0)))

\* modify: the target is canceled and a new oid takes its place under the same
\* cloid, if the order has one.
VenueReplaces(r) ==
  LET old == r.targets[1]
      new == FreshOid
      c   == book[old].cloid
  IN  /\ Take(r, "Modify")
      /\ old \in Resting
      /\ new \in Oids
      /\ \E filled \in {0, r.sz} :
           LET b == [book EXCEPT ![old].status = "canceled", ![new] = NewOrder(c, r.sz, filled)]
           IN  /\ Publish(b, <<old, new>>)
               /\ IF filled = 0 THEN NoFill ELSE RecordFill(new, b, r.sz)
               /\ Respond(r, Ok(IF filled = 0 THEN Status("resting", new, 0)
                                ELSE Status("filled", new, r.sz)))

\* modify refused: there is nothing to replace, or the target stays, or it is
\* canceled and nothing takes its place.
VenueKeeps(r) ==
  LET old == r.targets[1]
  IN  /\ Take(r, "Modify")
      /\ Respond(r, Ok(Status("error", NoOid, 0)))
      /\ NoFill
      /\ \/ /\ old \in Resting => "kept" \in AmendErrors
            /\ UNCHANGED <<book, updQ>>
         \/ /\ old \in Resting /\ "canceled" \in AmendErrors
            /\ Publish([book EXCEPT ![old].status = "canceled"], <<old>>)

\* A request whose connection died may never reach the venue.
RequestLost(r) ==
  /\ r \in flight
  /\ r \notin pending
  /\ flight' = flight \ {r}
  /\ UNCHANGED <<vars, venueVars, acks, updQ, fillQ, eventQ, answer, budget>>

-----------------------------------------------------------------------------
(***************************************************************************)
(* What happens at the venue without a request of this client.             *)
(***************************************************************************)

Match(o) ==
  LET n == book[o].filled + 1
      b == [book EXCEPT ![o].filled = n,
                        ![o].status = IF n = book[o].sz THEN "filled" ELSE "resting"]
  IN  /\ o \in Resting
      /\ IF b[o].status = "filled" THEN Publish(b, <<o>>) ELSE book' = b /\ UNCHANGED updQ
      /\ RecordFill(o, b, 1)
      /\ UNCHANGED <<vars, flight, acks, eventQ, answer, budget>>

VenueCancelsItself(o) ==
  /\ MayCancel
  /\ o \in Resting
  /\ Publish([book EXCEPT ![o].status = "canceled"], <<o>>)
  /\ eventQ' = Push(eventQ, <<o>>)
  /\ UNCHANGED <<vars, fillLog, flight, acks, fillQ, answer, budget>>

ForeignOrder(sz) ==
  /\ budget.foreign > 0
  /\ budget' = [budget EXCEPT !.foreign = @ - 1]
  /\ FreshOid \in Oids
  /\ Publish([book EXCEPT ![FreshOid] = NewOrder(NoCloid, sz, 0)], <<FreshOid>>)
  /\ UNCHANGED <<vars, fillLog, flight, acks, fillQ, eventQ, answer>>

-----------------------------------------------------------------------------
(***************************************************************************)
(* /info: the answer is what the book says when the venue reads it.        *)
(***************************************************************************)

\* The venue has seen a request by the time the client asks about it for the
\* last time (kNotFoundProbes questions, kNotFoundRetryMs apart).
VenuePrompt(c) ==
  orders[c].notFoundProbes = NotFoundProbes =>
    \A r \in flight : ~(r.kind = "Order" /\ c \in Range(r.cloids))

\* orderStatus by cloid answers about the first order placed under it.
StatusSubject(query) ==
  IF query.oid # NoOid THEN {query.oid} \cap Issued
  ELSE LET under == {o \in Issued : book[o].cloid = query.cloid}
       IN  {o \in under : \A p \in under : o <= p}

OpenListing ==
  {[cloid |-> book[o].cloid, oid |-> o, origSz |-> book[o].sz, filled |-> book[o].filled] :
     o \in Resting}

VenueAnswers ==
  LET query   == Head(infoQ)
      subject == StatusSubject(query)
  IN  /\ infoQ # << >>
      /\ answer = Unanswered
      /\ IF query.q # "status"
           THEN answer' = [kind |-> "listing", listing |-> OpenListing]
         ELSE IF subject = {}
           THEN VenuePrompt(query.cloid) /\ answer' = [kind |-> "notFound"]
           ELSE LET u == UpdateOf(CHOOSE o \in subject : TRUE, book)
                IN  answer' = [kind |-> "found",
                               info |-> [oid |-> u.oid, status |-> u.status, origSz |-> u.origSz]]
      /\ UNCHANGED <<vars, venueVars, flight, acks, updQ, fillQ, eventQ, budget>>

-----------------------------------------------------------------------------
(***************************************************************************)
(* The client's steps, and what each takes from or gives to the network.   *)
(***************************************************************************)

Submit ==
  /\ \/ \E cs \in Batches, sz \in budget.sizes : PlaceOrders(cs, sz)
     \/ \E c \in Cloids : Cancel(c)
     \/ CancelAll /\ nextId' > nextId
     \/ \E c \in Cloids, sz \in budget.amendSizes :
          /\ PatientModify => \A p \in pending : c \notin Range(p.cloids)
          /\ Modify(c, sz)
  /\ flight' = flight \cup (pending' \ pending)
  /\ UNCHANGED <<venueVars, acks, updQ, fillQ, eventQ, answer, budget>>

DeliverAck ==
  \E m \in acks :
    /\ InOrder => \A n \in acks : m.req.id <= n.req.id
    /\ ActionResult(m.req, m.res)
    /\ acks' = acks \ {m}
    /\ UNCHANGED <<venueVars, flight, updQ, fillQ, eventQ, answer, budget>>

\* No answer in time: the response, if there is one, comes too late.
TimesOut ==
  \E p \in pending :
    /\ budget.timeouts > 0
    /\ budget' = [budget EXCEPT !.timeouts = @ - 1]
    /\ ActionResult(p, TransportFailure)
    /\ acks' = {m \in acks : m.req # p}
    /\ UNCHANGED <<venueVars, flight, updQ, fillQ, eventQ, answer>>

DeliverUpdate ==
  /\ updQ # << >>
  /\ OnOrderUpdate(Head(updQ))
  /\ updQ' = Tail(updQ)
  /\ UNCHANGED <<venueVars, flight, acks, fillQ, eventQ, answer, budget>>

\* A trade id seen before is skipped.
DeliverFill ==
  /\ fillQ # << >>
  /\ IF Head(fillQ).tid \in Range(seenTids) THEN UNCHANGED vars ELSE OnUserFill(Head(fillQ))
  /\ fillQ' = Tail(fillQ)
  /\ UNCHANGED <<venueVars, flight, acks, updQ, eventQ, answer, budget>>

\* A cancel of an order the index does not know is skipped.
DeliverEvent ==
  /\ eventQ # << >>
  /\ IF FindByOid(oidIndex, Head(eventQ)) = NoCloid THEN UNCHANGED vars
     ELSE OnNonUserCancel(Head(eventQ))
  /\ eventQ' = Tail(eventQ)
  /\ UNCHANGED <<venueVars, flight, acks, updQ, fillQ, answer, budget>>

DeliverAnswer ==
  /\ answer # Unanswered
  /\ answer' = Unanswered
  /\ \/ answer.kind = "found" /\ StatusFound(answer.info)
     \/ answer.kind = "notFound" /\ StatusNotFound
     \/ answer.kind = "listing" /\ AmendedAnswer(answer.listing, FALSE)
     \/ answer.kind = "listing" /\ AllAnswer(answer.listing)
  /\ UNCHANGED <<venueVars, flight, acks, updQ, fillQ, eventQ, budget>>

InfoFails ==
  /\ budget.infoFails > 0
  /\ budget' = [budget EXCEPT !.infoFails = @ - 1]
  /\ answer' = Unanswered
  /\ StatusFailed \/ AmendedAnswer({}, TRUE) \/ AllFailed
  /\ UNCHANGED <<venueVars, flight, acks, updQ, fillQ, eventQ>>

TimerFires ==
  /\ \E c \in Cloids : RetryStatus(c) \/ ProbeAgain(c)
  /\ UNCHANGED <<venueVars, netVars, budget>>

\* What the socket carried is gone with it.
SocketDrops ==
  /\ budget.drops > 0
  /\ budget' = [budget EXCEPT !.drops = @ - 1]
  /\ OnSessionClosed
  /\ acks' = {m \in acks : m.req \in pending'}
  /\ updQ' = << >> /\ fillQ' = << >> /\ eventQ' = << >>
  /\ UNCHANGED <<venueVars, flight, answer>>

\* The userFills subscription starts with every fill there was.
SocketReturns ==
  /\ OnSessionOpen \/ BecomeReady
  /\ fillQ' = IF ready' THEN fillLog ELSE fillQ
  /\ UNCHANGED <<venueVars, flight, acks, updQ, eventQ, answer, budget>>

Restarts ==
  /\ \/ /\ budget.stops > 0
        /\ budget' = [budget EXCEPT !.stops = @ - 1]
        /\ Stop
     \/ Start /\ UNCHANGED budget
  /\ acks' = {m \in acks : m.req \in pending'}
  /\ updQ' = << >> /\ fillQ' = << >> /\ eventQ' = << >>
  /\ UNCHANGED <<venueVars, flight, answer>>

-----------------------------------------------------------------------------

FlowInit ==
  /\ Init
  /\ book = [o \in Oids |-> Unissued]
  /\ fillLog = << >>
  /\ flight = {}
  /\ acks = {}
  /\ updQ = << >> /\ fillQ = << >> /\ eventQ = << >>
  /\ answer = Unanswered
  /\ budget \in Scenarios

VenueStep ==
  \E r \in flight : \/ VenueAccepts(r) \/ VenueRefuses(r)
                    \/ VenueCancels(r)
                    \/ VenueReplaces(r) \/ VenueKeeps(r)
                    \/ RequestLost(r)

Deliveries ==
  DeliverAck \/ DeliverUpdate \/ DeliverFill \/ DeliverEvent \/ DeliverAnswer

\* The steps that keep happening while there is something to do.
SystemStep ==
  VenueStep \/ Deliveries \/ VenueAnswers \/ TimerFires \/ SocketReturns

\* Steps that may happen and need not.
Misfortune ==
  \/ TimesOut \/ InfoFails \/ SocketDrops \/ Restarts
  \/ \E o \in Oids : Match(o) \/ VenueCancelsItself(o)
  \/ \E sz \in budget.sizes : ForeignOrder(sz)

FlowNext == Submit \/ SystemStep \/ Misfortune

FlowSpec == FlowInit /\ [][FlowNext]_flowVars

\* The event loop keeps running and the venue keeps answering.
FairFlowSpec == FlowSpec /\ WF_flowVars(SystemStep)

-----------------------------------------------------------------------------
(***************************************************************************)
(* Properties: what the client believes once everything has been said.     *)
(***************************************************************************)

\* Nothing is on its way in either direction and the session is up.
Quiescent ==
  /\ ready
  /\ pending = {} /\ flight = {} /\ acks = {}
  /\ updQ = << >> /\ fillQ = << >> /\ eventQ = << >>
  /\ infoQ = << >>
  /\ \A c \in Cloids : retryTimers[c] = 0 /\ probeTimers[c] = 0

\* No working order is left unmanaged: once everything has been said, an order
\* that rests at the venue is live in the table under the same oid.
NoOrphan ==
  Quiescent => \A o \in Resting : \E c \in Cloids : IsLive(orders[c]) /\ orders[c].oid = o

\* No order is waited for in vain: once everything has been said, an order that
\* is live in the table rests at the venue under the same oid.
NoPhantom ==
  Quiescent => \A c \in Cloids : IsLive(orders[c]) => orders[c].oid \in Resting

\* Filled sizes agree with the venue's once everything has been said.
FillsAgree ==
  Quiescent => \A c \in Cloids :
    orders[c].oid # NoOid => orders[c].filledSz = book[orders[c].oid].filled

\* The position agrees with the venue's once everything has been said, however
\* late, early or often the fills were delivered.
PositionAgrees ==
  Quiescent =>
    position.size = IF fillLog = << >> THEN 0 ELSE fillLog[Len(fillLog)].endPos

\* All of it at once; and, unless stop() dropped requests unanswered, the flags
\* that hold back a second cancel or amendment are up only while one is in flight.
Consistent ==
  /\ NoOrphan /\ NoPhantom /\ FillsAgree /\ PositionAgrees
  /\ stops = 0 => FlagsInFlight

\* Every order placed is answered for: it leaves PendingNew, through its
\* acknowledgement, the streams or the reconciliation that replaces them.
AllSettled ==
  \A c \in Cloids : orders[c].state = "PendingNew" ~> orders[c].state # "PendingNew"

=============================================================================
