--------------------------- MODULE ExchangeClient ---------------------------
(***************************************************************************)
(* The order-management half of ExchangeClient: the order table, the oid   *)
(* index, the actions in flight, the reconciliation queries and their      *)
(* timers.  One action per public operation, per venue message and per     *)
(* timer; a handler that loops over a span of messages is the repetition   *)
(* of its action, since every iteration ends before the next one starts.   *)
(*                                                                         *)
(* The environment is open here: any message of the sets below may arrive  *)
(* at any time, in any order and any number of times.  OrderFlow closes    *)
(* the module with a venue and a network.                                  *)
(***************************************************************************)
EXTENDS OrderTable, FiniteSets, Functions

CONSTANTS
  Cloids,         \* client order ids, including the ones made up for external orders
  NoCloid,        \* "no cloid" in a message; "no entry" in the index
  ExtCloid,       \* Cloid{kExternalCloidHigh, oid}
  Batches,        \* sequences of cloids that may be placed or canceled in one action
  Sizes,          \* order sizes
  Results,        \* outcomes of an action
  Updates,        \* elements of an orderUpdates message
  Fills,          \* elements of a userFills message
  Infos,          \* orderStatus answers about an order the venue knows
  Listings,       \* openOrders answers
  AdoptExisting,  \* config_.adoptExistingOrders
  MaxBatch,       \* kMaxBatchEntries
  MaxTids,        \* kMaxRememberedTids
  MaxRequests,    \* bound: actions sent
  MaxSessions,    \* bound: times the session opens again
  MaxStops        \* bound: times the client is stopped

CloidOrNone == Cloids \cup {NoCloid}
OidOrNone   == Oids \cup {NoOid}

OpenOrders == [cloid : CloidOrNone, oid : Oids, origSz : Nat, filled : Nat]

ASSUME CloidsAssumption   == IsFiniteSet(Cloids) /\ NoCloid \notin Cloids
ASSUME ExtAssumption      == ExtCloid \in [Oids -> Cloids]
ASSUME BatchesAssumption  ==
  /\ Batches \subseteq Seq(Cloids)
  /\ \A b \in Batches : \A i, j \in DOMAIN b : b[i] = b[j] => i = j
ASSUME SizesAssumption    == Sizes \subseteq Nat \ {0}
ASSUME ResultsAssumption  == Results \subseteq ActionResults
ASSUME UpdatesAssumption  ==
  Updates \subseteq [cloid : CloidOrNone, oid : Oids, status : UpdateStatuses, origSz : Nat]
ASSUME FillsAssumption    ==
  Fills \subseteq [cloid : CloidOrNone, oid : Oids, sz : Nat, tid : Nat, time : Nat, endPos : Int]
ASSUME InfosAssumption    == Infos \subseteq [oid : OidOrNone, status : UpdateStatuses, origSz : Nat]
\* The venue lists an oid once, and a cloid at most once.
ASSUME ListingsAssumption ==
  \A l \in Listings :
    /\ l \subseteq OpenOrders
    /\ \A a, b \in l : a # b => a.oid # b.oid /\ (a.cloid # b.cloid \/ a.cloid = NoCloid)
ASSUME BoundsAssumption   ==
  /\ AdoptExisting \in BOOLEAN
  /\ MaxBatch \in Nat \ {0}
  /\ MaxTids \in Nat \ {0}
  /\ MaxRequests \in Nat
  /\ MaxSessions \in Nat
  /\ MaxStops \in Nat

VARIABLES
  orders,       \* orders_: an entry per cloid, Untracked when there is none
  oidIndex,     \* oidIndex_: oid -> cloid
  pending,      \* pending_: the actions that await their result
  nextId,       \* nextRequestId_
  infoQ,        \* reconciliation queries queued on the /info connection, oldest first
  retryTimers,  \* armed 2 s timers that repeat a failed orderStatus query
  probeTimers,  \* armed 1 s timers that ask again about an unknown order
  seenTids,     \* seenTidOrder_: the trade ids remembered, oldest first (seenTids_ is its range)
  position,     \* positions_ of the one coin modelled
  started,      \* started_
  connected,    \* session_.isOpen()
  ready,        \* ready_
  sessions,     \* sessions opened so far (bounded by MaxSessions)
  stops         \* calls of stop() so far (bounded by MaxStops)

tableVars   == <<orders, oidIndex>>
queryVars   == <<infoQ, retryTimers, probeTimers>>
fillVars    == <<seenTids, position>>
sessionVars == <<started, connected, ready, sessions, stops>>
vars == <<orders, oidIndex, pending, nextId, infoQ, retryTimers, probeTimers, seenTids,
          position, started, connected, ready, sessions, stops>>

Requests == [id : Nat, kind : Kinds, cloids : Seq(Cloids), targets : Seq(OidOrNone),
             sz : Nat, ws : BOOLEAN]
Queries  == [q : {"status", "amended"}, cloid : Cloids, oid : OidOrNone, live : {{}}]
              \cup [q : {"all"}, cloid : {NoCloid}, oid : {NoOid}, live : SUBSET Cloids]

-----------------------------------------------------------------------------
(***************************************************************************)
(* Bookkeeping.                                                            *)
(***************************************************************************)

\* Mutant: the oid an entry leaves stays in the index.
LeakyIndexChoices(index, old, new, o) ==
  LET takers == {c \in Cloids : new[c].oid = o /\ old[c].oid # o}
  IN  IF takers = {} THEN {index[o]} ELSE takers

\* What the index may say of oid o after the entries change from `old` to `new`:
\* setOid() drops the oid an entry leaves and records the one it takes, eviction
\* drops the oid of the entry it removes.  There is a choice only when one loop
\* over the table changes several entries that hold the same oid.
IndexChoices(index, old, new, o) ==
  LET takers  == {c \in Cloids : new[c].oid = o /\ old[c].oid # o}
      leavers == {c \in Cloids : old[c].oid = o /\ new[c].oid # o}
  IN  IF takers = {} /\ leavers = {} THEN {index[o]}
      ELSE takers \cup (IF leavers = {} THEN {} ELSE {NoCloid})

Reindexed(index, old, new) ==
  {[o \in Oids |-> IF o \in DOMAIN pick THEN pick[o]
                   ELSE CHOOSE c \in IndexChoices(index, old, new, o) : TRUE] :
     pick \in LET Unsure == {o \in Oids : \E c, d \in IndexChoices(index, old, new, o) : c # d}
              IN  {f \in [Unsure -> CloidOrNone] :
                     \A o \in Unsure : f[o] \in IndexChoices(index, old, new, o)}}

SetTable(new) ==
  /\ orders' = new
  /\ oidIndex' \in Reindexed(oidIndex, orders, new)

SetEntry(c, t) == SetTable([orders EXCEPT ![c] = t])

FindByOid(index, oid) == IF oid = NoOid THEN NoCloid ELSE index[oid]

\* The entry a message with this cloid and oid is about, NoCloid if there is none.
Find(cloid, oid) ==
  IF cloid \in Cloids /\ IsTracked(orders[cloid]) THEN cloid ELSE FindByOid(oidIndex, oid)

Key(cloid, oid) == IF cloid \in Cloids THEN cloid ELSE ExtCloid[oid]

\* reconcile() asks about the oid when the entry has one, about the cloid otherwise.
StatusQuery(c, t)  == [q |-> "status", cloid |-> c, oid |-> t.oid, live |-> {}]
AmendedQuery(c)    == [q |-> "amended", cloid |-> c, oid |-> NoOid, live |-> {}]
AllQuery(live)     == [q |-> "all", cloid |-> NoCloid, oid |-> NoOid, live |-> live]

Live == {c \in Cloids : IsLive(orders[c])}

\* The ways to go through a set: the code iterates over hash maps.
Orderings(S) ==
  {s \in [1 .. Cardinality(S) -> S] : \A i, j \in DOMAIN s : s[i] = s[j] => i = j}

-----------------------------------------------------------------------------
(***************************************************************************)
(* Order entry.                                                            *)
(***************************************************************************)

Request(id, kind, cs, targets, sz) ==
  [id |-> id, kind |-> kind, cloids |-> cs, targets |-> targets, sz |-> sz, ws |-> connected]

\* send(): over the WebSocket when the session is open, over HTTP otherwise.
Send(kind, cs, targets, sz) ==
  /\ nextId <= MaxRequests
  /\ pending' = pending \cup {Request(nextId, kind, cs, targets, sz)}
  /\ nextId' = nextId + 1

PlaceOrders(cs, sz) ==
  /\ started
  /\ cs # << >>
  /\ \A i \in DOMAIN cs : ~IsTracked(orders[cs[i]])
  /\ SetTable([c \in Cloids |-> IF c \in Range(cs) THEN Track(FALSE, sz) ELSE orders[c]])
  /\ Send("Order", cs, [i \in DOMAIN cs |-> NoOid], sz)
  /\ UNCHANGED <<queryVars, fillVars, sessionVars>>

\* The wire names an external order by its oid and any other by its cloid.
CancelTarget(t) == IF t.external THEN t.oid ELSE NoOid

Cancelable(c) ==
  /\ IsLive(orders[c])
  /\ ~orders[c].cancelPending
  /\ orders[c].external => orders[c].oid # NoOid

Cancel(c) ==
  /\ started
  /\ Cancelable(c)
  /\ SetEntry(c, [orders[c] EXCEPT !.cancelPending = TRUE])
  /\ Send("Cancel", <<c>>, <<CancelTarget(orders[c])>>, 0)
  /\ UNCHANGED <<queryVars, fillVars, sessionVars>>

CancelByOid(oid) ==
  LET c == FindByOid(oidIndex, oid)
  IN  /\ started
      /\ IF c # NoCloid
           THEN /\ SetEntry(c, [orders[c] EXCEPT !.cancelPending = TRUE])
                /\ Send("Cancel", <<c>>, <<oid>>, 0)
           ELSE /\ UNCHANGED tableVars
                /\ Send("Cancel", << >>, <<oid>>, 0)
      /\ UNCHANGED <<queryVars, fillVars, sessionVars>>

\* A sequence cut into pieces of at most MaxBatch elements.
Chunks(s) ==
  [k \in 1 .. (Len(s) + MaxBatch - 1) \div MaxBatch |->
     SubSeq(s, (k - 1) * MaxBatch + 1, IF k * MaxBatch < Len(s) THEN k * MaxBatch ELSE Len(s))]

\* Orders known by cloid and external orders travel in separate actions.
CancelAll ==
  LET all == {c \in Cloids : Cancelable(c)}
  IN  /\ started
      /\ \E own \in Orderings({c \in all : ~orders[c].external}),
            ext \in Orderings({c \in all : orders[c].external}) :
           LET cs == Chunks(own) \o Chunks(ext)
           IN  /\ nextId + Len(cs) <= MaxRequests + 1
               /\ pending' = pending \cup
                    {Request(nextId + k - 1, "Cancel", cs[k],
                             [i \in DOMAIN cs[k] |-> CancelTarget(orders[cs[k][i]])], 0) :
                       k \in 1 .. Len(cs)}
               /\ nextId' = nextId + Len(cs)
      /\ SetTable([c \in Cloids |-> [orders[c] EXCEPT !.cancelPending = @ \/ c \in all]])
      /\ UNCHANGED <<queryVars, fillVars, sessionVars>>

Modify(c, sz) ==
  LET t == orders[c]
  IN  /\ started
      /\ IsLive(t)
      /\ ~t.cancelPending
      /\ t.oid # NoOid
      /\ ~t.modifyPending
      /\ SetEntry(c, [t EXCEPT !.modifyPending = TRUE, !.canceledDuringModify = FALSE])
      /\ Send("Modify", <<c>>, <<t.oid>>, sz)
      /\ UNCHANGED <<queryVars, fillVars, sessionVars>>

\* scheduleCancel, updateLeverage, noop, ...: actions that concern no order.
OtherAction ==
  /\ started
  /\ Send("Other", << >>, << >>, 0)
  /\ UNCHANGED <<tableVars, queryVars, fillVars, sessionVars>>

-----------------------------------------------------------------------------
(***************************************************************************)
(* Results of actions.                                                     *)
(***************************************************************************)

TransportFailure == [ok |-> FALSE, transport |-> TRUE, statuses |-> << >>]

\* The query applyActionResult() starts for entry i: none, reconcile(), or
\* reconcileAmended().
QueryKind(t, p, i, res) ==
  LET out == OutcomeOf(i, res)
  IN  IF \/ IsTracked(t) /\ out = "failed" /\ p.kind \in {"Order", "Cancel"} /\ res.transport
         \/ IsTracked(t) /\ out = "short"
         \/ IsTracked(t) /\ out = "status" /\ p.kind = "Cancel" /\ res.statuses[i].kind # "success"
        THEN "status"
      ELSE IF \/ /\ IsTracked(t) /\ out = "failed" /\ p.kind = "Modify"
                 /\ res.transport \/ t.canceledDuringModify
              \/ IsTracked(t) /\ out = "status" /\ p.kind = "Modify" /\ res.statuses[i].kind = "error"
        THEN "amended"
      ELSE "none"

\* Cloids within one action are distinct.
EntryIndex(p, c) == CHOOSE i \in DOMAIN p.cloids : p.cloids[i] = c

QueryAfter(p, c, res) ==
  IF QueryKind(orders[c], p, EntryIndex(p, c), res) = "amended" THEN AmendedQuery(c)
  ELSE StatusQuery(c, orders[c])

QueryEntries(p, res) ==
  {c \in Range(p.cloids) : QueryKind(orders[c], p, EntryIndex(p, c), res) # "none"}

\* completeAction(): the result of an action still pending.
ActionResult(p, res) ==
  /\ p \in pending
  /\ pending' = pending \ {p}
  /\ SetTable([c \in Cloids |-> IF c \in Range(p.cloids)
                                  THEN AfterResult(orders[c], p, EntryIndex(p, c), res)
                                  ELSE orders[c]])
  /\ \E cs \in Orderings(QueryEntries(p, res)) :
       /\ \A j, k \in DOMAIN cs : j < k => EntryIndex(p, cs[j]) < EntryIndex(p, cs[k])
       /\ infoQ' = infoQ \o [k \in DOMAIN cs |-> QueryAfter(p, cs[k], res)]
  /\ UNCHANGED <<nextId, retryTimers, probeTimers, fillVars, sessionVars>>

-----------------------------------------------------------------------------
(***************************************************************************)
(* Messages of the user streams.                                           *)
(***************************************************************************)

\* onOrderUpdates, for one element.
OnOrderUpdate(u) ==
  LET found == Find(u.cloid, u.oid)
      c     == IF found # NoCloid THEN found ELSE Key(u.cloid, u.oid)
      t     == IF found # NoCloid THEN orders[c] ELSE TrackExternal(orders[c], u)
  IN  /\ connected
      /\ SetEntry(c, ApplyUpdate(t, u))
      /\ UNCHANGED <<pending, nextId, queryVars, fillVars, sessionVars>>

\* Mutant: the time stamps are compared the wrong way round.
BackwardUserFill(f) ==
  LET c    == Find(f.cloid, f.oid)
      tids == Append(seenTids, f.tid)
  IN  /\ connected
      /\ f.tid \notin Range(seenTids)
      /\ seenTids' = IF Len(tids) > MaxTids THEN Tail(tids) ELSE tids
      /\ position' = IF f.time < position.lastFillMs
                       THEN [size |-> f.endPos, lastFillMs |-> f.time]
                       ELSE position
      /\ IF c = NoCloid THEN UNCHANGED tableVars ELSE SetEntry(c, ApplyFill(orders[c], f))
      /\ UNCHANGED <<pending, nextId, queryVars, sessionVars>>

\* onUserFills, for one element of a live message or of a later snapshot.
OnUserFill(f) ==
  LET c    == Find(f.cloid, f.oid)
      tids == Append(seenTids, f.tid)
  IN  /\ connected
      /\ f.tid \notin Range(seenTids)
      /\ seenTids' = IF Len(tids) > MaxTids THEN Tail(tids) ELSE tids
      /\ position' = IF f.time >= position.lastFillMs
                       THEN [size |-> f.endPos, lastFillMs |-> f.time]
                       ELSE position
      /\ IF c = NoCloid THEN UNCHANGED tableVars ELSE SetEntry(c, ApplyFill(orders[c], f))
      /\ UNCHANGED <<pending, nextId, queryVars, sessionVars>>

\* onNonUserCancels, for one element: the venue canceled the order itself.
OnNonUserCancel(oid) ==
  LET c == FindByOid(oidIndex, oid)
  IN  /\ connected
      /\ c # NoCloid
      /\ SetEntry(c, Emit(ApplyVenueStatus(orders[c], "canceled", 0)))
      /\ UNCHANGED <<pending, nextId, queryVars, fillVars, sessionVars>>

-----------------------------------------------------------------------------
(***************************************************************************)
(* Reconciliation.  The answer at hand is always the one to the oldest     *)
(* query: the /info connection carries one request at a time.              *)
(***************************************************************************)

Asked(kind) == infoQ # << >> /\ Head(infoQ).q = kind

\* Mutant: a failed query is not repeated.
StatusGivenUp ==
  /\ Asked("status")
  /\ infoQ' = Tail(infoQ)
  /\ UNCHANGED <<tableVars, pending, nextId, retryTimers, probeTimers, fillVars, sessionVars>>

\* orderStatus failed: ask again in 2 s.
StatusFailed ==
  LET c == Head(infoQ).cloid
  IN  /\ Asked("status")
      /\ infoQ' = Tail(infoQ)
      /\ retryTimers' = IF IsTracked(orders[c]) THEN [retryTimers EXCEPT ![c] = @ + 1]
                        ELSE retryTimers
      /\ UNCHANGED <<tableVars, pending, nextId, probeTimers, fillVars, sessionVars>>

StatusFound(info) ==
  LET c == Head(infoQ).cloid
  IN  /\ Asked("status")
      /\ infoQ' = Tail(infoQ)
      /\ IF IsTracked(orders[c]) THEN SetEntry(c, ApplyStatusAnswer(orders[c], info))
         ELSE UNCHANGED tableVars
      /\ UNCHANGED <<pending, nextId, retryTimers, probeTimers, fillVars, sessionVars>>

\* The venue does not know the order: not a verdict until it said so often enough.
StatusNotFound ==
  LET c == Head(infoQ).cloid
      t == orders[c]
  IN  /\ Asked("status")
      /\ infoQ' = Tail(infoQ)
      /\ IF IsTracked(t) THEN SetEntry(c, ApplyNotFound(t)) ELSE UNCHANGED tableVars
      /\ probeTimers' = IF t.state = "PendingNew" /\ t.notFoundProbes < NotFoundProbes
                          THEN [probeTimers EXCEPT ![c] = @ + 1]
                          ELSE probeTimers
      /\ UNCHANGED <<pending, nextId, retryTimers, fillVars, sessionVars>>

RetryStatus(c) ==
  /\ retryTimers[c] > 0
  /\ retryTimers' = [retryTimers EXCEPT ![c] = @ - 1]
  /\ infoQ' = IF IsLive(orders[c]) /\ started THEN Append(infoQ, StatusQuery(c, orders[c]))
              ELSE infoQ
  /\ UNCHANGED <<tableVars, pending, nextId, probeTimers, fillVars, sessionVars>>

ProbeAgain(c) ==
  /\ probeTimers[c] > 0
  /\ probeTimers' = [probeTimers EXCEPT ![c] = @ - 1]
  /\ infoQ' = IF orders[c].state = "PendingNew" THEN Append(infoQ, StatusQuery(c, orders[c]))
              ELSE infoQ
  /\ UNCHANGED <<tableVars, pending, nextId, retryTimers, fillVars, sessionVars>>

\* reconcileAmended() got the list of open orders, or failed to.
AmendedAnswer(listing, failed) ==
  LET c     == Head(infoQ).cloid
      named == {l \in listing : l.cloid = c}
  IN  /\ Asked("amended")
      /\ IF ~IsTracked(orders[c])
           THEN infoQ' = Tail(infoQ) /\ UNCHANGED tableVars
         ELSE IF failed \/ named = {}
           THEN infoQ' = Append(Tail(infoQ), StatusQuery(c, orders[c])) /\ UNCHANGED tableVars
           ELSE /\ infoQ' = Tail(infoQ)
                /\ SetEntry(c, ApplyListed(orders[c], CHOOSE l \in named : TRUE))
      /\ UNCHANGED <<pending, nextId, retryTimers, probeTimers, fillVars, sessionVars>>

\* The element of the listing that settles entry c.
Matches(c, listing) ==
  {l \in listing : l.cloid = c \/ (orders[c].oid # NoOid /\ l.oid = orders[c].oid)}

\* The listing settles each resolved entry by the element `match` gives it.
SettleFrom(resolved, match) ==
  [c \in Cloids |-> IF c \in resolved THEN ApplyListed(orders[c], match[c]) ELSE orders[c]]

\* adoptFromListing(), for one entry: revive what was buried under another oid,
\* adopt what is unknown.
AdoptEntry(table, index, listing, c) ==
  LET named == {l \in listing : Key(l.cloid, l.oid) = c}
      open  == CHOOSE l \in named : TRUE
  IN  IF named = {} THEN table[c]
      ELSE IF IsTerminal(table[c]) /\ table[c].oid # open.oid THEN Revive(table[c], open)
      ELSE IF ~IsTracked(table[c]) /\ FindByOid(index, open.oid) = NoCloid
        THEN Adopt(open, open.cloid = NoCloid)
      ELSE table[c]

AdoptFrom(table, index, listing) ==
  [c \in Cloids |-> AdoptEntry(table, index, listing, c)]

\* reconcileAll() got the list of open orders.
AllAnswer(listing) ==
  LET live     == {c \in Head(infoQ).live : IsLive(orders[c])}
      resolved == {c \in live : Matches(c, listing) # {}}
  IN  /\ Asked("all")
      /\ \E match \in [resolved -> listing] :
           /\ \A c \in resolved : match[c] \in Matches(c, listing)
           /\ \E index \in Reindexed(oidIndex, orders, SettleFrom(resolved, match)) :
                LET settled == SettleFrom(resolved, match)
                IN  /\ orders' = IF AdoptExisting THEN AdoptFrom(settled, index, listing)
                                 ELSE settled
                    /\ oidIndex' \in Reindexed(index, settled, orders')
      /\ \E cs \in Orderings(live \ resolved) :
           infoQ' = Tail(infoQ) \o [k \in DOMAIN cs |-> StatusQuery(cs[k], orders[cs[k]])]
      /\ UNCHANGED <<pending, nextId, retryTimers, probeTimers, fillVars, sessionVars>>

AllFailed ==
  /\ Asked("all")
  /\ \E cs \in Orderings(Head(infoQ).live) :
       infoQ' = Tail(infoQ) \o [k \in DOMAIN cs |-> StatusQuery(cs[k], orders[cs[k]])]
  /\ UNCHANGED <<tableVars, pending, nextId, retryTimers, probeTimers, fillVars, sessionVars>>

-----------------------------------------------------------------------------
(***************************************************************************)
(* The session and the life of the client.                                 *)
(***************************************************************************)

\* onSessionClosed: every action posted over the socket has an unknown outcome.
OnSessionClosed ==
  LET lost    == {p \in pending : p.ws}
      After(c) ==
        [orders[c] EXCEPT
           !.cancelPending = @ /\ \A p \in lost : p.kind = "Cancel" => c \notin Range(p.cloids),
           !.modifyPending = @ /\ \A p \in lost : p.kind = "Modify" => c \notin Range(p.cloids)]
      Hit(c)  == IsTracked(orders[c]) /\ \E p \in lost : c \in Range(p.cloids)
      entries == {e \in lost \X Cloids : e[2] \in QueryEntries(e[1], TransportFailure)}
  IN  /\ connected
      /\ connected' = FALSE
      /\ ready' = FALSE
      /\ pending' = pending \ lost
      /\ SetTable([c \in Cloids |-> IF Hit(c) THEN Emit(After(c)) ELSE orders[c]])
      /\ \E es \in Orderings(entries) :
           infoQ' = infoQ \o [k \in DOMAIN es |-> QueryAfter(es[k][1], es[k][2], TransportFailure)]
      /\ UNCHANGED <<nextId, retryTimers, probeTimers, fillVars, started, sessions, stops>>

OnSessionOpen ==
  /\ started
  /\ ~connected
  /\ sessions < MaxSessions
  /\ connected' = TRUE
  /\ sessions' = sessions + 1
  /\ UNCHANGED <<tableVars, pending, nextId, queryVars, fillVars, started, ready, stops>>

\* Mutant: a session that comes back is not reconciled.
ReadyUnreconciled ==
  /\ started
  /\ connected
  /\ ~ready
  /\ ready' = TRUE
  /\ UNCHANGED <<tableVars, pending, nextId, queryVars, fillVars, started, connected, sessions,
                 stops>>

\* maybeReady() of a client that was ready before, with reconcileAll().
BecomeReady ==
  /\ started
  /\ connected
  /\ ~ready
  /\ ready' = TRUE
  /\ infoQ' = IF Live = {} /\ ~AdoptExisting THEN infoQ ELSE Append(infoQ, AllQuery(Live))
  /\ UNCHANGED <<tableVars, pending, nextId, retryTimers, probeTimers, fillVars, started,
                 connected, sessions, stops>>

\* stop() forgets the actions in flight; the table and the timers stay.
Stop ==
  /\ started
  /\ stops < MaxStops
  /\ stops' = stops + 1
  /\ started' = FALSE
  /\ ready' = FALSE
  /\ connected' = FALSE
  /\ pending' = {}
  /\ UNCHANGED <<tableVars, nextId, queryVars, fillVars, sessions>>

Start ==
  /\ ~started
  /\ started' = TRUE
  /\ UNCHANGED <<tableVars, pending, nextId, queryVars, fillVars, connected, ready, sessions, stops>>

\* Mutant: any entry may be dropped.
EvictAny(c) ==
  /\ started
  /\ IsTracked(orders[c])
  /\ SetEntry(c, Untracked)
  /\ UNCHANGED <<pending, nextId, queryVars, fillVars, sessionVars>>

\* armEviction(): terminal entries are dropped once they are old enough.
Evict(c) ==
  /\ started
  /\ IsTerminal(orders[c])
  /\ SetEntry(c, Untracked)
  /\ UNCHANGED <<pending, nextId, queryVars, fillVars, sessionVars>>

-----------------------------------------------------------------------------

Init ==
  /\ orders = [c \in Cloids |-> Untracked]
  /\ oidIndex = [o \in Oids |-> NoCloid]
  /\ pending = {}
  /\ nextId = 1
  /\ infoQ = << >>
  /\ retryTimers = [c \in Cloids |-> 0]
  /\ probeTimers = [c \in Cloids |-> 0]
  /\ seenTids = << >>
  /\ position = [size |-> 0, lastFillMs |-> 0]
  /\ started = TRUE
  /\ connected = TRUE
  /\ ready = TRUE
  /\ sessions = 0
  /\ stops = 0

OrderEntry ==
  \/ \E cs \in Batches, sz \in Sizes : PlaceOrders(cs, sz)
  \/ \E c \in Cloids : Cancel(c)
  \/ \E oid \in Oids : CancelByOid(oid)
  \/ CancelAll
  \/ \E c \in Cloids, sz \in Sizes : Modify(c, sz)
  \/ OtherAction

Streams ==
  \/ \E u \in Updates : OnOrderUpdate(u)
  \/ \E f \in Fills : OnUserFill(f)
  \/ \E oid \in Oids : OnNonUserCancel(oid)

Reconciliation ==
  \/ StatusFailed
  \/ \E info \in Infos : StatusFound(info)
  \/ StatusNotFound
  \/ \E c \in Cloids : RetryStatus(c)
  \/ \E c \in Cloids : ProbeAgain(c)
  \/ \E l \in Listings : AmendedAnswer(l, FALSE)
  \/ AmendedAnswer({}, TRUE)
  \/ \E l \in Listings : AllAnswer(l)
  \/ AllFailed

Lifecycle ==
  \/ OnSessionClosed
  \/ OnSessionOpen
  \/ BecomeReady
  \/ Stop
  \/ Start
  \/ \E c \in Cloids : Evict(c)

Next ==
  \/ OrderEntry
  \/ \E p \in pending, res \in Results : ActionResult(p, res)
  \/ Streams
  \/ Reconciliation
  \/ Lifecycle

Spec == Init /\ [][Next]_vars

-----------------------------------------------------------------------------
(***************************************************************************)
(* Properties that hold whatever the venue and the network do.             *)
(***************************************************************************)

\* Every variable keeps the shape its C++ member has.
TypeOK ==
  /\ orders \in [Cloids -> Tracked]
  /\ oidIndex \in [Oids -> CloidOrNone]
  /\ pending \subseteq Requests
  /\ nextId \in Nat
  /\ infoQ \in Seq(Queries)
  /\ retryTimers \in [Cloids -> Nat]
  /\ probeTimers \in [Cloids -> Nat]
  /\ seenTids \in Seq(Nat)
  /\ position \in [size : Int, lastFillMs : Nat]
  /\ started \in BOOLEAN
  /\ connected \in BOOLEAN
  /\ ready \in BOOLEAN
  /\ sessions \in Nat
  /\ stops \in Nat

\* An oid that resolves at all resolves to the entry that carries it now: no
\* message that names only an oid is ever applied to another order, to an
\* evicted one or to a generation that modify replaced (setOid, findByOid).
IndexSound ==
  \A o \in Oids : oidIndex[o] # NoCloid => orders[oidIndex[o]].oid = o

\* The filled size shown to the application is the larger of what the fills add
\* up to and what the venue said, through every change of oid (recomputeFills).
FillsAccounted ==
  \A c \in Cloids :
    orders[c].filledSz = RecomputeFills(orders[c]).filledSz

\* The listener has been told the state of every entry, and the oid and filled
\* size of every order of this client; only an order that nobody has answered
\* about yet was never reported (emit).
ListenerInformed ==
  \A c \in Cloids :
    LET t == orders[c]
    IN  /\ t.told.state = t.state \/ (t.state = "PendingNew" /\ t.told = Untracked.told)
        /\ ~t.external /\ t.told # Untracked.told
             => t.told = [state |-> t.state, oid |-> t.oid, filledSz |-> t.filledSz]

\* An entry marked cancelPending or modifyPending has that request in flight:
\* otherwise cancel() and modify() would refuse the order for ever.
FlagsInFlight ==
  \A c \in Cloids :
    /\ orders[c].cancelPending => \E p \in pending : p.kind = "Cancel" /\ c \in Range(p.cloids)
    /\ orders[c].modifyPending => \E p \in pending : p.kind = "Modify" /\ c \in Range(p.cloids)

\* A terminal entry comes back to life only under another oid (adoptFromListing),
\* whatever late acknowledgement, update, fill or status answer arrives.
TerminalSticky ==
  [][ \A c \in Cloids :
        IsTerminal(orders[c]) /\ IsLive(orders'[c]) => orders'[c].oid # orders[c].oid ]_vars

\* While an entry keeps its oid the fills counted for it are never given back.
FillSumGrows ==
  [][ \A c \in Cloids :
        /\ IsTracked(orders[c])
        /\ IsTracked(orders'[c])
        /\ orders[c].oid = orders'[c].oid
        => orders'[c].fillSum >= orders[c].fillSum ]_vars

\* The order table implements OrderLifecycle.
Life == INSTANCE OrderLifecycle WITH view <- [c \in Cloids |-> orders[c].state]

\* Whatever the venue and the network do, the application sees every order move
\* only as OrderLifecycle allows: never back to PendingNew, never from Filled to
\* another verdict, never out of the table while it is live.
ImplementsLifecycle == Life!LifeSpec

\* An entry never goes back to an oid it has left behind.
OidForward ==
  [][ \A c \in Cloids : IsTracked(orders'[c]) => orders'[c].oid >= orders[c].oid ]_vars

=============================================================================
