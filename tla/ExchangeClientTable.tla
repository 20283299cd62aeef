------------------------ MODULE ExchangeClientTable ------------------------
(***************************************************************************)
(* What each action of ExchangeClient does to the order table and the oid  *)
(* index: every entry takes a proper step (OrderTableProofs) and the index *)
(* stays sound.                                                            *)
(***************************************************************************)
EXTENDS ExchangeClient, OrderTableProofs

\* The variables other than the table, as TypeOK has them.
RestOK ==
  /\ pending \subseteq Requests
  /\ IsFiniteSet(pending)
  /\ nextId \in Nat
  /\ infoQ \in Seq(Queries)
  /\ retryTimers \in [Cloids -> Nat]
  /\ probeTimers \in [Cloids -> Nat]
  /\ seenTids \in Seq(Nat)
  /\ position \in [size : Int, lastFillMs : Nat]
  /\ started \in BOOLEAN
  /\ connected \in BOOLEAN
  /\ ready \in BOOLEAN
  /\ sessions \in Nat
  /\ stops \in Nat

TableOK ==
  /\ orders \in [Cloids -> Tracked]
  /\ oidIndex \in [Oids -> CloidOrNone]
  /\ \A c \in Cloids : EntryOK(orders[c])
  /\ IndexSound

IInv == TableOK /\ RestOK

\* What every action does to the table.
TableStep ==
  /\ orders' \in [Cloids -> Tracked]
  /\ oidIndex' \in [Oids -> CloidOrNone]
  /\ \A c \in Cloids : Step(orders[c], orders'[c])
  /\ IndexSound'

-----------------------------------------------------------------------------
(***************************************************************************)
(* The index.                                                              *)
(***************************************************************************)

\* Every index that setOid() and eviction can leave behind is typed, and resolves
\* an oid only to an entry that carries it.
LEMMA ReindexOK ==
  ASSUME NEW index \in [Oids -> CloidOrNone], NEW old, NEW new,
         \A o \in Oids : index[o] # NoCloid => old[index[o]].oid = o,
         NEW i \in Reindexed(index, old, new)
  PROVE  /\ i \in [Oids -> CloidOrNone]
         /\ \A o \in Oids : i[o] # NoCloid => new[i[o]].oid = o
<1>1. ASSUME NEW o \in Oids, NEW x \in IndexChoices(index, old, new, o)
      PROVE  /\ x \in CloidOrNone
             /\ x # NoCloid => new[x].oid = o
  <2>. DEFINE takers  == {c \in Cloids : new[c].oid = o /\ old[c].oid # o}
              leavers == {c \in Cloids : old[c].oid = o /\ new[c].oid # o}
  <2>1. CASE takers = {} /\ leavers = {}
    <3>1. x = index[o]
      BY <1>1, <2>1 DEF IndexChoices
    <3>2. x \in CloidOrNone
      BY <3>1
    <3>3. x # NoCloid => x \in Cloids /\ old[x].oid = o
      BY <3>1, <3>2 DEF CloidOrNone
    <3>4. x # NoCloid => new[x].oid = o
      BY <2>1, <3>3
    <3>. QED
      BY <3>2, <3>4
  <2>2. CASE ~(takers = {} /\ leavers = {})
    <3>1. x \in takers \/ x = NoCloid
      BY <1>1, <2>2 DEF IndexChoices
    <3>. QED
      BY <3>1 DEF CloidOrNone
  <2>. QED
    BY <2>1, <2>2
<1>2. ASSUME NEW o \in Oids
      PROVE  IndexChoices(index, old, new, o) # {}
  BY DEF IndexChoices
<1>. DEFINE Unsure == {o \in Oids : \E c, d \in IndexChoices(index, old, new, o) : c # d}
<1>3. PICK pick \in {f \in [Unsure -> CloidOrNone] :
                       \A o \in Unsure : f[o] \in IndexChoices(index, old, new, o)} :
        i = [o \in Oids |-> IF o \in DOMAIN pick THEN pick[o]
                            ELSE CHOOSE c \in IndexChoices(index, old, new, o) : TRUE]
  BY Zenon DEF Reindexed
<1>4. ASSUME NEW o \in Oids
      PROVE  i[o] \in IndexChoices(index, old, new, o)
  <2>1. CASE o \in DOMAIN pick
    BY <1>3, <2>1
  <2>2. CASE o \notin DOMAIN pick
    <3>1. i[o] = CHOOSE c \in IndexChoices(index, old, new, o) : TRUE
      BY <1>3, <2>2
    <3>. QED
      BY <1>2, <3>1
  <2>. QED
    BY <2>1, <2>2
<1>5. i \in [Oids -> CloidOrNone]
  <2>1. i = [o \in Oids |-> i[o]]
    BY <1>3
  <2>2. \A o \in Oids : i[o] \in CloidOrNone
    BY Zenon, <1>1, <1>4
  <2>. QED
    BY <2>1, <2>2
<1>. QED
  BY <1>1, <1>4, <1>5

\* A loop over the table that takes every entry through a proper step.
LEMMA SetTableStep ==
  ASSUME TableOK, NEW new, new = [c \in Cloids |-> new[c]],
         \A c \in Cloids : Step(orders[c], new[c]),
         SetTable(new)
  PROVE  TableStep
<1>1. orders' = new /\ oidIndex' \in Reindexed(oidIndex, orders, new)
  BY DEF SetTable
<1>2. orders' \in [Cloids -> Tracked]
  BY <1>1 DEF Step, EntryOK
<1>3. /\ oidIndex' \in [Oids -> CloidOrNone]
      /\ \A o \in Oids : oidIndex'[o] # NoCloid => new[oidIndex'[o]].oid = o
  BY <1>1, ReindexOK DEF TableOK, IndexSound
<1>. QED
  BY <1>1, <1>2, <1>3 DEF TableStep, IndexSound

\* A handler that changes one entry.
LEMMA SetEntryStep ==
  ASSUME TableOK, NEW c \in Cloids, NEW t, Step(orders[c], t), SetEntry(c, t)
  PROVE  TableStep
<1>. DEFINE new == [orders EXCEPT ![c] = t]
<1>1. new = [d \in Cloids |-> new[d]]
  BY Zenon DEF TableOK
<1>2. \A d \in Cloids : Step(orders[d], new[d])
  BY NoStep DEF TableOK
<1>3. SetTable(new)
  BY DEF SetEntry
<1>. QED
  BY <1>1, <1>2, <1>3, SetTableStep

\* A handler that leaves the table alone.
LEMMA SameTable ==
  ASSUME TableOK, UNCHANGED tableVars
  PROVE  TableStep
  BY NoStep DEF TableOK, TableStep, IndexSound, tableVars

\* An oid that resolves names an entry that is tracked.
LEMMA FindByOidOK ==
  ASSUME TableOK, NEW oid \in OidOrNone, FindByOid(oidIndex, oid) # NoCloid
  PROVE  LET c == FindByOid(oidIndex, oid)
         IN  c \in Cloids /\ IsTracked(orders[c])
<1>. DEFINE c == FindByOid(oidIndex, oid)
<1>1. oid \in Oids /\ oid # NoOid /\ c = oidIndex[oid]
  BY OidsAssumption DEF FindByOid, OidOrNone, NoOid
<1>2. c \in Cloids
  BY <1>1 DEF TableOK, CloidOrNone
<1>3. orders[c].oid = oid
  BY <1>1 DEF TableOK, IndexSound
<1>4. IsTracked(orders[c])
  BY <1>1, <1>2, <1>3 DEF TableOK, EntryOK
<1>. QED
  BY <1>2, <1>4

\* A message finds an entry that is tracked, or none.
LEMMA FindOK ==
  ASSUME TableOK, NEW cloid, NEW oid \in OidOrNone, Find(cloid, oid) # NoCloid
  PROVE  LET c == Find(cloid, oid)
         IN  c \in Cloids /\ IsTracked(orders[c])
<1>1. CASE cloid \in Cloids /\ IsTracked(orders[cloid])
  BY <1>1 DEF Find
<1>2. CASE ~(cloid \in Cloids /\ IsTracked(orders[cloid]))
  <2>1. Find(cloid, oid) = FindByOid(oidIndex, oid)
    BY <1>2 DEF Find
  <2>. QED
    BY <2>1, FindByOidOK
<1>. QED
  BY <1>1, <1>2

-----------------------------------------------------------------------------
(***************************************************************************)
(* Order entry.                                                            *)
(***************************************************************************)

\* Marking a request in flight changes nothing the listener knows.
LEMMA CancelFlagStep ==
  ASSUME NEW t, EntryOK(t), NEW b \in BOOLEAN
  PROVE  Step(t, [t EXCEPT !.cancelPending = b])
<1>1. Quiet(t, [t EXCEPT !.cancelPending = b])
  BY DEF Quiet, EntryOK, Tracked
<1>. QED
  BY <1>1, QuietStep

\* placeOrders: every new entry is a legal one.
LEMMA PlaceOrdersStep ==
  ASSUME TableOK, NEW cs \in Batches, NEW sz \in Sizes, PlaceOrders(cs, sz)
  PROVE  TableStep
<1>. DEFINE new == [c \in Cloids |-> IF c \in Range(cs) THEN Track(FALSE, sz) ELSE orders[c]]
<1>1. SetTable(new) /\ \A i \in DOMAIN cs : ~IsTracked(orders[cs[i]])
  BY DEF PlaceOrders
<1>2. sz \in Nat
  BY SizesAssumption
<1>3. ASSUME NEW c \in Cloids
      PROVE  Step(orders[c], new[c])
  <2>1. CASE c \in Range(cs)
    <3>1. ~IsTracked(orders[c])
      BY <1>1, <2>1 DEF Range
    <3>. QED
      BY Zenon, <1>2, <2>1, <3>1, TrackStep
  <2>2. CASE c \notin Range(cs)
    BY <2>2, NoStep DEF TableOK
  <2>. QED
    BY Zenon, <2>1, <2>2
<1>4. new = [c \in Cloids |-> new[c]]
  OBVIOUS
<1>. HIDE DEF new
<1>. QED
  BY <1>1, <1>3, <1>4, SetTableStep

\* cancel() changes one flag of one entry.
LEMMA CancelStep ==
  ASSUME TableOK, NEW c \in Cloids, Cancel(c)
  PROVE  TableStep
<1>1. SetEntry(c, [orders[c] EXCEPT !.cancelPending = TRUE])
  BY DEF Cancel
<1>2. EntryOK(orders[c])
  BY DEF TableOK
<1>. QED
  BY Zenon, <1>1, <1>2, CancelFlagStep, SetEntryStep

\* cancelByOid(): the entry the index names, if any, gets the flag.
LEMMA CancelByOidStep ==
  ASSUME TableOK, NEW oid \in Oids, CancelByOid(oid)
  PROVE  TableStep
<1>. DEFINE c == FindByOid(oidIndex, oid)
<1>1. CASE c # NoCloid
  <2>1. SetEntry(c, [orders[c] EXCEPT !.cancelPending = TRUE])
    BY <1>1 DEF CancelByOid
  <2>2. c \in Cloids /\ EntryOK(orders[c])
    BY <1>1, FindByOidOK DEF TableOK, OidOrNone
  <2>. HIDE DEF c
  <2>. QED
    BY Zenon, <2>1, <2>2, CancelFlagStep, SetEntryStep
<1>2. CASE c = NoCloid
  BY <1>2, SameTable DEF CancelByOid
<1>. QED
  BY <1>1, <1>2

\* cancelAll() changes flags only.
LEMMA CancelAllStep ==
  ASSUME TableOK, CancelAll
  PROVE  TableStep
<1>. DEFINE all == {c \in Cloids : Cancelable(c)}
            new == [c \in Cloids |-> [orders[c] EXCEPT !.cancelPending = @ \/ c \in all]]
<1>1. SetTable(new)
  BY DEF CancelAll
<1>2. ASSUME NEW c \in Cloids
      PROVE  Step(orders[c], new[c])
  <2>. DEFINE b == orders[c].cancelPending \/ c \in all
  <2>1. new[c] = [orders[c] EXCEPT !.cancelPending = b]
    OBVIOUS
  <2>2. b \in BOOLEAN /\ EntryOK(orders[c])
    BY DEF TableOK
  <2>. HIDE DEF b, new
  <2>. QED
    BY <2>1, <2>2, CancelFlagStep
<1>3. new = [c \in Cloids |-> new[c]]
  OBVIOUS
<1>. HIDE DEF new
<1>. QED
  BY <1>1, <1>2, <1>3, SetTableStep

\* modify() changes flags of one entry only.
LEMMA ModifyStep ==
  ASSUME TableOK, NEW c \in Cloids, NEW sz \in Sizes, Modify(c, sz)
  PROVE  TableStep
<1>. DEFINE t == orders[c]
            r == [t EXCEPT !.modifyPending = TRUE, !.canceledDuringModify = FALSE]
<1>1. SetEntry(c, r) /\ t.oid # NoOid
  BY DEF Modify
<1>2. EntryOK(t)
  BY DEF TableOK
<1>. HIDE DEF t
<1>3. Quiet(t, r)
  BY <1>1, <1>2, Zenon DEF Quiet, EntryOK, Tracked
<1>. HIDE DEF r
<1>4. Step(t, r)
  BY <1>2, <1>3, QuietStep
<1>. QED
  BY <1>1, <1>4, SetEntryStep DEF t

-----------------------------------------------------------------------------
(***************************************************************************)
(* Results of actions, and messages of the user streams.                   *)
(***************************************************************************)

\* The result of an action moves each of its entries by a legal step.
LEMMA ActionResultStep ==
  ASSUME TableOK, pending \subseteq Requests, NEW p \in pending, NEW res \in Results,
         ActionResult(p, res)
  PROVE  TableStep
<1>. DEFINE new == [c \in Cloids |-> IF c \in Range(p.cloids)
                                       THEN AfterResult(orders[c], p, EntryIndex(p, c), res)
                                       ELSE orders[c]]
<1>1. SetTable(new)
  BY DEF ActionResult
<1>2. p.kind \in Kinds /\ p.sz \in Nat /\ p.cloids \in Seq(Cloids) /\ res \in ActionResults
  BY ResultsAssumption DEF Requests
<1>3. ASSUME NEW c \in Cloids
      PROVE  Step(orders[c], new[c])
  <2>1. CASE c \in Range(p.cloids)
    <3>1. EntryIndex(p, c) \in DOMAIN p.cloids
      BY <2>1 DEF EntryIndex, Range
    <3>2. EntryIndex(p, c) \in Nat \ {0}
      BY <1>2, <3>1, LenProperties
    <3>3. EntryOK(orders[c])
      BY DEF TableOK
    <3>. QED
      BY <1>2, <2>1, <3>2, <3>3, AfterResultStep
  <2>2. CASE c \notin Range(p.cloids)
    BY <2>2, NoStep DEF TableOK
  <2>. QED
    BY <2>1, <2>2
<1>4. new = [c \in Cloids |-> new[c]]
  OBVIOUS
<1>. HIDE DEF new
<1>. QED
  BY <1>1, <1>3, <1>4, SetTableStep

\* An order update moves the entry it finds or creates by a legal step.
LEMMA OnOrderUpdateStep ==
  ASSUME TableOK, NEW u \in Updates, OnOrderUpdate(u)
  PROVE  TableStep
<1>. DEFINE found == Find(u.cloid, u.oid)
            key   == Key(u.cloid, u.oid)
<1>1. u.oid \in Oids /\ u.status \in UpdateStatuses /\ u.origSz \in Nat /\ u.oid \in OidOrNone
  BY UpdatesAssumption DEF OidOrNone
<1>2. CASE found # NoCloid
  <2>1. SetEntry(found, ApplyUpdate(orders[found], u))
    BY <1>2 DEF OnOrderUpdate
  <2>2. found \in Cloids /\ IsTracked(orders[found])
    BY <1>1, <1>2, FindOK
  <2>3. EntryOK(orders[found])
    BY <2>2 DEF TableOK
  <2>. HIDE DEF found
  <2>4. Step(orders[found], ApplyUpdate(orders[found], u))
    BY <1>1, <2>2, <2>3, UpdateStep
  <2>. QED
    BY <2>1, <2>2, <2>4, SetEntryStep
<1>3. CASE found = NoCloid
  <2>1. SetEntry(key, ApplyUpdate(TrackExternal(orders[key], u), u))
    BY <1>3 DEF OnOrderUpdate
  <2>2. key \in Cloids
    BY <1>1, ExtAssumption DEF Key
  <2>3. EntryOK(orders[key])
    BY <2>2 DEF TableOK
  <2>. HIDE DEF key
  <2>4. Step(orders[key], ApplyUpdate(TrackExternal(orders[key], u), u))
    BY <1>1, <2>3, ExternalUpdateStep
  <2>. QED
    BY <2>1, <2>2, <2>4, SetEntryStep
<1>. QED
  BY <1>2, <1>3

\* A fill moves the entry it finds by a legal step.
LEMMA OnUserFillStep ==
  ASSUME TableOK, NEW f \in Fills, OnUserFill(f)
  PROVE  TableStep
<1>. DEFINE c == Find(f.cloid, f.oid)
<1>1. f.oid \in Oids /\ f.sz \in Nat /\ f.oid \in OidOrNone
  BY FillsAssumption DEF OidOrNone
<1>2. CASE c # NoCloid
  <2>1. SetEntry(c, ApplyFill(orders[c], f))
    BY <1>2 DEF OnUserFill
  <2>2. c \in Cloids /\ IsTracked(orders[c])
    BY <1>1, <1>2, FindOK
  <2>3. EntryOK(orders[c])
    BY <2>2 DEF TableOK
  <2>. HIDE DEF c
  <2>4. Step(orders[c], ApplyFill(orders[c], f))
    BY <1>1, <2>2, <2>3, FillStep
  <2>. QED
    BY <2>1, <2>2, <2>4, SetEntryStep
<1>3. CASE c = NoCloid
  BY <1>3, SameTable DEF OnUserFill
<1>. QED
  BY <1>2, <1>3

\* A cancel by the venue moves the entry it finds by a legal step.
LEMMA OnNonUserCancelStep ==
  ASSUME TableOK, NEW oid \in Oids, OnNonUserCancel(oid)
  PROVE  TableStep
<1>. DEFINE c == FindByOid(oidIndex, oid)
<1>1. c # NoCloid /\ SetEntry(c, Emit(ApplyVenueStatus(orders[c], "canceled", 0)))
  BY DEF OnNonUserCancel
<1>2. c \in Cloids /\ IsTracked(orders[c])
  BY <1>1, FindByOidOK DEF OidOrNone
<1>3. EntryOK(orders[c])
  BY <1>2 DEF TableOK
<1>. HIDE DEF c
<1>4. Settles(orders[c], ApplyVenueStatus(orders[c], "canceled", 0))
  BY <1>2, <1>3, OpenUp, ApplyVenueStatusOK DEF UpdateStatuses
<1>5. Step(orders[c], Emit(ApplyVenueStatus(orders[c], "canceled", 0)))
  BY <1>4, EmitStep
<1>. QED
  BY <1>1, <1>2, <1>5, SetEntryStep

-----------------------------------------------------------------------------
(***************************************************************************)
(* Reconciliation.                                                         *)
(***************************************************************************)

\* The query at the head of the queue is about an entry, or about the whole table.
LEMMA AskedOK ==
  ASSUME infoQ \in Seq(Queries), NEW kind, Asked(kind)
  PROVE  /\ Head(infoQ) \in Queries
         /\ Tail(infoQ) \in Seq(Queries)
         /\ kind \in {"status", "amended"} => Head(infoQ).cloid \in Cloids
         /\ Head(infoQ).live \subseteq Cloids
<1>1. infoQ # << >> /\ Head(infoQ).q = kind
  BY DEF Asked
<1>2. Head(infoQ) \in Queries /\ Tail(infoQ) \in Seq(Queries)
  BY <1>1, HeadTailProperties
<1>. QED
  BY <1>1, <1>2 DEF Queries

\* An orderStatus answer moves the entry asked about by a legal step.
LEMMA StatusFoundStep ==
  ASSUME TableOK, infoQ \in Seq(Queries), NEW info \in Infos, StatusFound(info)
  PROVE  TableStep
<1>. DEFINE c == Head(infoQ).cloid
<1>1. c \in Cloids
  BY AskedOK DEF StatusFound
<1>2. info.oid \in OidOrNone /\ info.status \in UpdateStatuses /\ info.origSz \in Nat
  BY InfosAssumption
<1>3. CASE IsTracked(orders[c])
  <2>1. SetEntry(c, ApplyStatusAnswer(orders[c], info))
    BY <1>3 DEF StatusFound
  <2>2. EntryOK(orders[c])
    BY <1>1 DEF TableOK
  <2>. HIDE DEF c
  <2>3. Step(orders[c], ApplyStatusAnswer(orders[c], info))
    BY <1>2, <1>3, <2>2, StatusAnswerStep DEF OidOrNone
  <2>. QED
    BY <1>1, <2>1, <2>3, SetEntryStep
<1>4. CASE ~IsTracked(orders[c])
  BY <1>4, SameTable DEF StatusFound
<1>. QED
  BY <1>3, <1>4

\* The answer that an order is unknown moves its entry by a legal step.
LEMMA StatusNotFoundStep ==
  ASSUME TableOK, infoQ \in Seq(Queries), StatusNotFound
  PROVE  TableStep
<1>. DEFINE c == Head(infoQ).cloid
<1>1. c \in Cloids
  BY AskedOK DEF StatusNotFound
<1>2. CASE IsTracked(orders[c])
  <2>1. SetEntry(c, ApplyNotFound(orders[c]))
    BY <1>2 DEF StatusNotFound
  <2>2. EntryOK(orders[c])
    BY <1>1 DEF TableOK
  <2>. HIDE DEF c
  <2>3. Step(orders[c], ApplyNotFound(orders[c]))
    BY <1>2, <2>2, NotFoundStep
  <2>. QED
    BY <1>1, <2>1, <2>3, SetEntryStep
<1>3. CASE ~IsTracked(orders[c])
  BY <1>3, SameTable DEF StatusNotFound
<1>. QED
  BY <1>2, <1>3

\* The listing asked for after a modify moves one entry by a legal step.
LEMMA AmendedAnswerStep ==
  ASSUME TableOK, infoQ \in Seq(Queries), NEW listing \in Listings \cup {{}}, NEW failed \in BOOLEAN,
         AmendedAnswer(listing, failed)
  PROVE  TableStep
<1>. DEFINE c     == Head(infoQ).cloid
            named == {l \in listing : l.cloid = c}
            open  == CHOOSE l \in named : TRUE
<1>1. c \in Cloids
  BY AskedOK DEF AmendedAnswer
<1>2. CASE ~IsTracked(orders[c]) \/ failed \/ named = {}
  BY <1>2, SameTable DEF AmendedAnswer
<1>3. CASE IsTracked(orders[c]) /\ ~failed /\ named # {}
  <2>1. SetEntry(c, ApplyListed(orders[c], open))
    BY <1>3 DEF AmendedAnswer
  <2>2. EntryOK(orders[c])
    BY <1>1 DEF TableOK
  <2>3. open \in OpenOrders
    <3>1. open \in listing
      BY <1>3
    <3>. QED
      BY <3>1, ListingsAssumption
  <2>4. open.oid \in Oids /\ open.origSz \in Nat
    BY <2>3 DEF OpenOrders
  <2>. HIDE DEF c, open
  <2>5. Step(orders[c], ApplyListed(orders[c], open))
    BY SMTT(30), <1>3, <2>2, <2>4, ListedStep
  <2>. QED
    BY <1>1, <2>1, <2>5, SetEntryStep
<1>. QED
  BY <1>2, <1>3

\* What adoptFromListing() does to an entry that reconcileAll() left alone.
LEMMA AdoptFromStep ==
  ASSUME NEW listing \in Listings, NEW table, NEW index, NEW c \in Cloids, EntryOK(table[c])
  PROVE  /\ Step(table[c], AdoptFrom(table, index, listing)[c])
         /\ IsLive(table[c]) => AdoptFrom(table, index, listing)[c] = table[c]
<1>. DEFINE named == {l \in listing : Key(l.cloid, l.oid) = c}
            open  == CHOOSE l \in named : TRUE
            t     == table[c]
            r     == AdoptFrom(table, index, listing)[c]
<1>1. r = IF named = {} THEN t
          ELSE IF IsTerminal(t) /\ t.oid # open.oid THEN Revive(t, open)
          ELSE IF ~IsTracked(t) /\ FindByOid(index, open.oid) = NoCloid
            THEN Adopt(open, open.cloid = NoCloid)
          ELSE t
  BY DEF AdoptFrom, AdoptEntry
<1>2. named # {} => open \in OpenOrders
  <2>1. named # {} => open \in listing
    OBVIOUS
  <2>. QED
    BY <2>1, ListingsAssumption
<1>3. named # {} => open.oid \in Oids /\ open.origSz \in Nat /\ open.filled \in Nat
  BY <1>2 DEF OpenOrders
<1>. HIDE DEF named, open, r, t
<1>4. EntryOK(t)
  BY DEF t
<1>5. CASE r = t
  BY <1>4, <1>5, NoStep DEF r, t
<1>6. CASE named # {} /\ IsTerminal(t) /\ t.oid # open.oid /\ r = Revive(t, open)
  <2>1. Step(t, r)
    BY <1>3, <1>4, <1>6, ReviveStep
  <2>2. ~IsLive(t)
    BY <1>6 DEF IsTerminal, IsLive, TerminalStates, LiveStates
  <2>. QED
    BY <2>1, <2>2 DEF r, t
<1>7. CASE named # {} /\ ~IsTracked(t) /\ r = Adopt(open, open.cloid = NoCloid)
  <2>. DEFINE e == open.cloid = NoCloid
  <2>0. e \in BOOLEAN
    OBVIOUS
  <2>. HIDE DEF e
  <2>1. Step(t, Adopt(open, e))
    BY <1>3, <1>7, <2>0, AdoptStep
  <2>2. ~IsLive(t)
    BY <1>7 DEF IsTracked, IsLive, LiveStates
  <2>. QED
    BY <1>7, <2>1, <2>2 DEF r, t, e
<1>. QED
  BY SMTT(30), <1>1, <1>5, <1>6, <1>7

\* The listing asked for after a reconnect moves every entry by a legal step.
LEMMA AllAnswerStep ==
  ASSUME TableOK, infoQ \in Seq(Queries), NEW listing \in Listings, AllAnswer(listing)
  PROVE  TableStep
<1>. DEFINE live     == {c \in Head(infoQ).live : IsLive(orders[c])}
            resolved == {c \in live : Matches(c, listing) # {}}
<1>0. PICK match \in [resolved -> listing] :
        \E index \in Reindexed(oidIndex, orders, SettleFrom(resolved, match)) :
          /\ orders' = IF AdoptExisting THEN AdoptFrom(SettleFrom(resolved, match), index, listing)
                       ELSE SettleFrom(resolved, match)
          /\ oidIndex' \in Reindexed(index, SettleFrom(resolved, match), orders')
  BY Zenon DEF AllAnswer
<1>1. PICK index \in Reindexed(oidIndex, orders, SettleFrom(resolved, match)) :
        /\ orders' = IF AdoptExisting THEN AdoptFrom(SettleFrom(resolved, match), index, listing)
                     ELSE SettleFrom(resolved, match)
        /\ oidIndex' \in Reindexed(index, SettleFrom(resolved, match), orders')
  BY Zenon, <1>0
<1>2. \A c \in resolved : IsLive(orders[c])
  OBVIOUS
<1>. HIDE DEF resolved
<1>. DEFINE settled == SettleFrom(resolved, match)
<1>3. ASSUME NEW c \in Cloids
      PROVE  /\ Step(orders[c], settled[c])
             /\ settled[c] = orders[c] \/ IsLive(settled[c])
  <2>1. settled[c] = IF c \in resolved THEN ApplyListed(orders[c], match[c]) ELSE orders[c]
    BY DEF SettleFrom
  <2>2. EntryOK(orders[c])
    BY DEF TableOK
  <2>3. CASE c \in resolved
    <3>1. match[c] \in listing
      BY <2>3
    <3>2. match[c].oid \in Oids /\ match[c].origSz \in Nat
      BY <3>1, ListingsAssumption DEF OpenOrders
    <3>3. IsLive(orders[c]) /\ IsTracked(orders[c])
      BY <1>2, <2>3 DEF IsLive, IsTracked, LiveStates
    <3>. HIDE DEF settled
    <3>. QED
      BY <2>1, <2>2, <2>3, <3>2, <3>3, ListedStep
  <2>4. CASE c \notin resolved
    BY <2>1, <2>2, <2>4, NoStep
  <2>. QED
    BY <2>3, <2>4
<1>4. settled = [c \in Cloids |-> settled[c]]
  BY DEF SettleFrom
<1>5. orders' = [c \in Cloids |-> orders'[c]]
  <2>. DEFINE adopted == AdoptFrom(settled, index, listing)
  <2>1. adopted = [c \in Cloids |-> adopted[c]]
    BY DEF AdoptFrom
  <2>2. orders' = settled \/ orders' = adopted
    BY <1>1
  <2>. HIDE DEF adopted, settled
  <2>. QED
    BY <1>4, <2>1, <2>2
<1>6. oidIndex' \in Reindexed(index, settled, orders') /\ index \in Reindexed(oidIndex, orders, settled)
      /\ orders' = IF AdoptExisting THEN AdoptFrom(settled, index, listing) ELSE settled
  BY <1>1
<1>. HIDE DEF settled
<1>7. ASSUME NEW c \in Cloids
      PROVE  Step(orders[c], orders'[c])
  <2>1. Step(orders[c], settled[c]) /\ EntryOK(settled[c])
    BY <1>3 DEF Step
  <2>2. CASE ~AdoptExisting
    BY SMTT(30), <1>6, <2>1, <2>2
  <2>3. CASE AdoptExisting
    <3>1. orders'[c] = AdoptFrom(settled, index, listing)[c]
      BY SMTT(30), <1>6, <2>3
    <3>2. /\ Step(settled[c], orders'[c])
          /\ IsLive(settled[c]) => orders'[c] = settled[c]
      BY <2>1, <3>1, AdoptFromStep
    <3>. QED
      BY <1>3, <2>1, <3>2
  <2>. QED
    BY SMTT(30), <2>2, <2>3
<1>8. /\ index \in [Oids -> CloidOrNone]
      /\ \A o \in Oids : index[o] # NoCloid => settled[index[o]].oid = o
  BY <1>6, ReindexOK DEF TableOK, IndexSound
<1>9. /\ oidIndex' \in [Oids -> CloidOrNone]
      /\ \A o \in Oids : oidIndex'[o] # NoCloid => orders'[oidIndex'[o]].oid = o
  BY <1>6, <1>8, ReindexOK
<1>10. orders' \in [Cloids -> Tracked]
  <2>1. \A c \in Cloids : orders'[c] \in Tracked
    BY <1>7 DEF Step, EntryOK
  <2>. QED
    BY SMTT(30), <1>5, <2>1
<1>. QED
  BY <1>7, <1>9, <1>10 DEF TableStep, IndexSound

-----------------------------------------------------------------------------
(***************************************************************************)
(* The session, and all actions together.                                  *)
(***************************************************************************)

\* The requests that were lost with the session are no longer in flight.
LEMMA ClearFlagsStep ==
  ASSUME NEW t, EntryOK(t), IsTracked(t), NEW b \in BOOLEAN, NEW m \in BOOLEAN,
         m => t.modifyPending
  PROVE  Step(t, Emit([t EXCEPT !.cancelPending = b, !.modifyPending = m]))
<1>. DEFINE r == [t EXCEPT !.cancelPending = b, !.modifyPending = m]
<1>1. Unreported(t)
  BY OpenUp
<1>2. Quiet(t, r)
  BY <1>1, Zenon DEF Quiet, Unreported, Tracked
<1>. HIDE DEF r
<1>3. Step(t, Emit(r))
  BY <1>1, <1>2, QuietSettles, EmitStep
<1>. QED
  BY <1>3 DEF r

\* A lost session clears flags only.
LEMMA OnSessionClosedStep ==
  ASSUME TableOK, OnSessionClosed
  PROVE  TableStep
<1>. DEFINE lost == {p \in pending : p.ws}
            B(c) == orders[c].cancelPending
                      /\ \A p \in lost : p.kind = "Cancel" => c \notin Range(p.cloids)
            M(c) == orders[c].modifyPending
                      /\ \A p \in lost : p.kind = "Modify" => c \notin Range(p.cloids)
            Hit(c) == IsTracked(orders[c]) /\ \E p \in lost : c \in Range(p.cloids)
            new  == [c \in Cloids |->
                       IF Hit(c) THEN Emit([orders[c] EXCEPT !.cancelPending = B(c), !.modifyPending = M(c)])
                       ELSE orders[c]]
<1>1. SetTable(new)
  BY Zenon DEF OnSessionClosed
<1>2. ASSUME NEW c \in Cloids
      PROVE  Step(orders[c], new[c])
  <2>1. EntryOK(orders[c]) /\ orders[c].cancelPending \in BOOLEAN /\ orders[c].modifyPending \in BOOLEAN
    BY DEF TableOK, Tracked
  <2>2. B(c) \in BOOLEAN /\ M(c) \in BOOLEAN /\ (M(c) => orders[c].modifyPending)
    BY <2>1
  <2>3. CASE Hit(c)
    <3>. DEFINE b == B(c)
                m == M(c)
    <3>1. new[c] = Emit([orders[c] EXCEPT !.cancelPending = b, !.modifyPending = m])
      BY <2>3
    <3>2. b \in BOOLEAN /\ m \in BOOLEAN /\ (m => orders[c].modifyPending) /\ IsTracked(orders[c])
      BY <2>2, <2>3
    <3>. HIDE DEF b, m, new
    <3>. QED
      BY Zenon, <2>1, <3>1, <3>2, ClearFlagsStep
  <2>4. CASE ~Hit(c)
    BY <2>1, <2>4, NoStep
  <2>. QED
    BY <2>3, <2>4
<1>3. new = [c \in Cloids |-> new[c]]
  OBVIOUS
<1>. HIDE DEF new
<1>. QED
  BY <1>1, <1>2, <1>3, SetTableStep

\* armEviction() on one entry.
LEMMA EvictTableStep ==
  ASSUME TableOK, NEW c \in Cloids, Evict(c)
  PROVE  TableStep
  BY EvictStep, SetEntryStep DEF Evict

\* Every action takes every entry through a proper step.
LEMMA NextStep ==
  ASSUME TableOK, RestOK, Next
  PROVE  TableStep
<1>0. pending \subseteq Requests /\ infoQ \in Seq(Queries)
  BY DEF RestOK
<1>1. CASE OrderEntry
  <2>1. CASE OtherAction
    BY <2>1, SameTable DEF OtherAction
  <2>. QED
    BY <1>1, <2>1, PlaceOrdersStep, CancelStep, CancelByOidStep, CancelAllStep, ModifyStep
    DEF OrderEntry
<1>2. CASE \E p \in pending, res \in Results : ActionResult(p, res)
  BY <1>0, <1>2, ActionResultStep
<1>3. CASE Streams
  BY <1>3, OnOrderUpdateStep, OnUserFillStep, OnNonUserCancelStep DEF Streams
<1>4. CASE Reconciliation
  <2>1. CASE StatusFailed \/ AllFailed \/ \E c \in Cloids : RetryStatus(c) \/ ProbeAgain(c)
    BY <2>1, SameTable DEF StatusFailed, AllFailed, RetryStatus, ProbeAgain
  <2>2. CASE \/ \E info \in Infos : StatusFound(info)
             \/ StatusNotFound
             \/ \E l \in Listings : AllAnswer(l)
    BY <1>0, <2>2, StatusFoundStep, StatusNotFoundStep, AllAnswerStep
  <2>3. CASE \E l \in Listings : AmendedAnswer(l, FALSE)
    BY Zenon, <1>0, <2>3, AmendedAnswerStep
  <2>4. CASE AmendedAnswer({}, TRUE)
    BY Zenon, <1>0, <2>4, AmendedAnswerStep
  <2>. QED
    BY <1>4, <2>1, <2>2, <2>3, <2>4, Zenon DEF Reconciliation
<1>5. CASE Lifecycle
  <2>1. CASE OnSessionOpen \/ BecomeReady \/ Stop \/ Start
    BY <2>1, SameTable DEF OnSessionOpen, BecomeReady, Stop, Start
  <2>. QED
    BY <1>5, <2>1, OnSessionClosedStep, EvictTableStep DEF Lifecycle
<1>. QED
  BY <1>1, <1>2, <1>3, <1>4, <1>5 DEF Next

=============================================================================
