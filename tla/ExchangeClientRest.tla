------------------------ MODULE ExchangeClientRest ------------------------
(***************************************************************************)
(* What each action of ExchangeClient does to the other variables: they    *)
(* stay typed, and the set of pending requests finite.                     *)
(***************************************************************************)
EXTENDS ExchangeClientTable, FiniteSetTheorems

-----------------------------------------------------------------------------
(***************************************************************************)
(* The variables other than the table stay typed.                          *)
(***************************************************************************)

\* A function on 1 .. n is a sequence.
LEMMA FunctionIsSeq ==
  ASSUME NEW S, NEW n \in Nat, NEW f \in [1 .. n -> S]
  PROVE  f \in Seq(S)
  BY SeqDef

\* An ordering of a finite set is a sequence of its elements.
LEMMA OrderingsOK ==
  ASSUME NEW S, IsFiniteSet(S), NEW s \in Orderings(S)
  PROVE  s \in Seq(S)
<1>1. Cardinality(S) \in Nat
  BY FS_CardinalityType
<1>. QED
  BY <1>1, FunctionIsSeq DEF Orderings

\* A query per element of a sequence.
LEMMA MapIsSeq ==
  ASSUME NEW S, NEW T, NEW s \in Seq(S), NEW f, f = [k \in DOMAIN s |-> f[k]],
         \A k \in DOMAIN s : f[k] \in T
  PROVE  f \in Seq(T)
<1>1. Len(s) \in Nat /\ DOMAIN s = 1 .. Len(s)
  BY LenProperties
<1>2. f \in [1 .. Len(s) -> T]
  BY <1>1
<1>. QED
  BY <1>1, <1>2, FunctionIsSeq

\* The queries an entry can cause are queries.
LEMMA QueriesOK ==
  ASSUME TableOK
  PROVE  /\ \A c \in Cloids : StatusQuery(c, orders[c]) \in Queries /\ AmendedQuery(c) \in Queries
         /\ \A live \in SUBSET Cloids : AllQuery(live) \in Queries
<1>1. \A c \in Cloids : orders[c].oid \in OidOrNone
  BY DEF TableOK, Tracked, OidOrNone
<1>. QED
  BY <1>1 DEF Queries, StatusQuery, AmendedQuery, AllQuery, OidOrNone

\* The queries that go out for a set of entries.
LEMMA StatusQueriesOK ==
  ASSUME TableOK, NEW S \in SUBSET Cloids, NEW cs \in Orderings(S)
  PROVE  [k \in DOMAIN cs |-> StatusQuery(cs[k], orders[cs[k]])] \in Seq(Queries)
<1>. DEFINE f == [k \in DOMAIN cs |-> StatusQuery(cs[k], orders[cs[k]])]
<1>1. cs \in Seq(S)
  BY CloidsAssumption, FS_Subset, OrderingsOK
<1>2. ASSUME NEW k \in DOMAIN cs
      PROVE  f[k] \in Queries
  <2>1. cs[k] \in Cloids
    BY <1>1, ElementOfSeq, LenProperties
  <2>. QED
    BY <2>1, QueriesOK
<1>3. f = [k \in DOMAIN cs |-> f[k]]
  OBVIOUS
<1>. HIDE DEF f
<1>4. f \in Seq(Queries)
  BY <1>1, <1>2, <1>3, MapIsSeq
<1>. QED
  BY <1>4 DEF f

\* send() adds one well-formed request.
LEMMA SendOK ==
  ASSUME RestOK, NEW kind \in Kinds, NEW cs \in Seq(Cloids), NEW targets \in Seq(OidOrNone),
         NEW sz \in Nat, Send(kind, cs, targets, sz)
  PROVE  pending' \subseteq Requests /\ IsFiniteSet(pending') /\ nextId' \in Nat
<1>1. Request(nextId, kind, cs, targets, sz) \in Requests
  BY DEF Request, Requests, RestOK
<1>2. /\ pending' = pending \cup {Request(nextId, kind, cs, targets, sz)}
      /\ nextId' = nextId + 1
  BY DEF Send
<1>3. IsFiniteSet(pending')
  BY <1>2, FS_AddElement, Zenon DEF RestOK
<1>. QED
  BY <1>1, <1>2, <1>3 DEF RestOK

\* Singletons are sequences.
LEMMA SingletonSeq ==
  ASSUME NEW S, NEW x \in S
  PROVE  <<x>> \in Seq(S)
  OBVIOUS

\* placeOrders keeps everything outside the table well formed.
LEMMA PlaceOrdersRest ==
  ASSUME TableOK, RestOK, NEW cs \in Batches, NEW sz \in Sizes, PlaceOrders(cs, sz)
  PROVE  RestOK'
<1>. DEFINE targets == [i \in DOMAIN cs |-> NoOid]
<1>1. cs \in Seq(Cloids) /\ sz \in Nat
  BY BatchesAssumption, SizesAssumption
<1>2. targets \in Seq(OidOrNone)
  <2>1. targets = [i \in DOMAIN cs |-> targets[i]] /\ \A i \in DOMAIN cs : targets[i] \in OidOrNone
    BY DEF OidOrNone
  <2>. HIDE DEF targets
  <2>. QED
    BY <1>1, <2>1, MapIsSeq
<1>3. Send("Order", cs, targets, sz) /\ UNCHANGED <<queryVars, fillVars, sessionVars>>
  BY DEF PlaceOrders
<1>. HIDE DEF targets
<1>4. pending' \subseteq Requests /\ IsFiniteSet(pending') /\ nextId' \in Nat
  BY <1>1, <1>2, <1>3, SendOK, SMTT(30) DEF Kinds
<1>. QED
  BY <1>3, <1>4 DEF RestOK, queryVars, fillVars, sessionVars

\* cancel() keeps everything outside the table well formed.
LEMMA CancelRest ==
  ASSUME TableOK, RestOK, NEW c \in Cloids, Cancel(c)
  PROVE  RestOK'
<1>1. CancelTarget(orders[c]) \in OidOrNone
  BY DEF CancelTarget, TableOK, Tracked, OidOrNone
<1>2. Send("Cancel", <<c>>, <<CancelTarget(orders[c])>>, 0)
      /\ UNCHANGED <<queryVars, fillVars, sessionVars>>
  BY DEF Cancel
<1>3. pending' \subseteq Requests /\ IsFiniteSet(pending') /\ nextId' \in Nat
  BY <1>1, <1>2, SendOK, SingletonSeq, Zenon DEF Kinds
<1>. QED
  BY <1>2, <1>3 DEF RestOK, queryVars, fillVars, sessionVars

\* cancelByOid() keeps everything outside the table well formed.
LEMMA CancelByOidRest ==
  ASSUME TableOK, RestOK, NEW oid \in Oids, CancelByOid(oid)
  PROVE  RestOK'
<1>. DEFINE c == FindByOid(oidIndex, oid)
<1>0. <<oid>> \in Seq(OidOrNone) /\ UNCHANGED <<queryVars, fillVars, sessionVars>>
  BY SingletonSeq DEF OidOrNone, CancelByOid
<1>1. PICK cs \in Seq(Cloids) : Send("Cancel", cs, <<oid>>, 0)
  <2>1. CASE c # NoCloid
    <3>1. c \in Cloids
      BY <2>1, FindByOidOK DEF OidOrNone
    <3>2. <<c>> \in Seq(Cloids)
      BY <3>1, SingletonSeq
    <3>3. Send("Cancel", <<c>>, <<oid>>, 0)
      BY <2>1 DEF CancelByOid
    <3>. QED
      BY Zenon, <3>2, <3>3
  <2>2. CASE c = NoCloid
    <3>1. << >> \in Seq(Cloids)
      OBVIOUS
    <3>2. Send("Cancel", << >>, <<oid>>, 0)
      BY <2>2 DEF CancelByOid
    <3>. QED
      BY Zenon, <3>1, <3>2
  <2>. QED
    BY <2>1, <2>2
<1>2. pending' \subseteq Requests /\ IsFiniteSet(pending') /\ nextId' \in Nat
  BY <1>0, <1>1, SendOK, Zenon DEF Kinds
<1>. QED
  BY <1>0, <1>2 DEF RestOK, queryVars, fillVars, sessionVars

\* modify() keeps everything outside the table well formed.
LEMMA ModifyRest ==
  ASSUME TableOK, RestOK, NEW c \in Cloids, NEW sz \in Sizes, Modify(c, sz)
  PROVE  RestOK'
<1>1. orders[c].oid \in OidOrNone /\ sz \in Nat
  BY SizesAssumption DEF TableOK, Tracked, OidOrNone
<1>2. Send("Modify", <<c>>, <<orders[c].oid>>, sz) /\ UNCHANGED <<queryVars, fillVars, sessionVars>>
  BY DEF Modify
<1>3. pending' \subseteq Requests /\ IsFiniteSet(pending') /\ nextId' \in Nat
  BY <1>1, <1>2, SendOK, SingletonSeq, Zenon DEF Kinds
<1>. QED
  BY <1>2, <1>3 DEF RestOK, queryVars, fillVars, sessionVars

\* An action about no order keeps everything outside the table well formed.
LEMMA OtherActionRest ==
  ASSUME RestOK, OtherAction
  PROVE  RestOK'
<1>1. Send("Other", << >>, << >>, 0) /\ UNCHANGED <<queryVars, fillVars, sessionVars>>
  BY DEF OtherAction
<1>2. << >> \in Seq(Cloids) /\ << >> \in Seq(OidOrNone)
  OBVIOUS
<1>3. pending' \subseteq Requests /\ IsFiniteSet(pending') /\ nextId' \in Nat
  BY <1>1, <1>2, SendOK, Zenon DEF Kinds
<1>. QED
  BY <1>1, <1>3 DEF RestOK, queryVars, fillVars, sessionVars

\* The pieces of a sequence of cloids are sequences of cloids.
LEMMA ChunksOK ==
  ASSUME NEW s \in Seq(Cloids)
  PROVE  Chunks(s) \in Seq(Seq(Cloids))
<1>. DEFINE n    == (Len(s) + MaxBatch - 1) \div MaxBatch
            m(k) == (k - 1) * MaxBatch + 1
            h(k) == IF k * MaxBatch < Len(s) THEN k * MaxBatch ELSE Len(s)
<1>1. Len(s) \in Nat /\ MaxBatch \in Nat \ {0}
  BY LenProperties, BoundsAssumption
<1>2. n \in Nat
  BY <1>1
<1>3. ASSUME NEW k \in 1 .. n
      PROVE  Chunks(s)[k] \in Seq(Cloids)
  <2>1. k \in Int /\ m(k) \in Int /\ h(k) \in Int /\ h(k) <= Len(s)
    BY <1>1, <1>2
  <2>2. m(k) >= 1
    BY <1>1, <1>2
  <2>3. Chunks(s)[k] = SubSeq(s, m(k), h(k))
    BY Zenon DEF Chunks
  <2>. HIDE DEF m, h
  <2>4. \A i \in m(k) .. h(k) : s[i] \in Cloids
    <3>. TAKE i \in m(k) .. h(k)
    <3>1. i \in 1 .. Len(s)
      BY <1>1, <2>1, <2>2
    <3>. QED
      BY <3>1, ElementOfSeq
  <2>. QED
    BY SMTT(30), <2>1, <2>3, <2>4, SubSeqProperties
<1>4. Chunks(s) = [k \in 1 .. n |-> Chunks(s)[k]]
  BY Zenon DEF Chunks
<1>. HIDE DEF n
<1>5. Chunks(s) \in [1 .. n -> Seq(Cloids)]
  BY <1>3, <1>4
<1>. QED
  BY <1>2, <1>5, FunctionIsSeq

\* cancelAll() keeps everything outside the table well formed, chunk by chunk.
LEMMA CancelAllRest ==
  ASSUME TableOK, RestOK, CancelAll
  PROVE  RestOK'
<1>. DEFINE all  == {c \in Cloids : Cancelable(c)}
            mine == {c \in all : ~orders[c].external}
            else == {c \in all : orders[c].external}
            Batch(cs, k) == Request(nextId + k - 1, "Cancel", cs[k],
                                    [i \in DOMAIN cs[k] |-> CancelTarget(orders[cs[k][i]])], 0)
<1>1. PICK own \in Orderings(mine), ext \in Orderings(else) :
        LET cs == Chunks(own) \o Chunks(ext)
        IN  /\ pending' = pending \cup {Batch(cs, k) : k \in 1 .. Len(cs)}
            /\ nextId' = nextId + Len(cs)
  BY Zenon DEF CancelAll
<1>2. own \in Seq(Cloids) /\ ext \in Seq(Cloids)
  <2>1. mine \subseteq Cloids /\ else \subseteq Cloids
    OBVIOUS
  <2>. HIDE DEF mine, else
  <2>2. own \in Seq(mine) /\ ext \in Seq(else)
    BY SMTT(30), <2>1, CloidsAssumption, FS_Subset, OrderingsOK
  <2>. QED
    BY <2>1, <2>2, SeqMonotonic
<1>. DEFINE cs == Chunks(own) \o Chunks(ext)
            f  == [k \in 1 .. Len(cs) |-> Batch(cs, k)]
            N  == {f[k] : k \in 1 .. Len(cs)}
<1>3. cs \in Seq(Seq(Cloids)) /\ Len(cs) \in Nat
  <2>1. cs \in Seq(Seq(Cloids))
    BY <1>2, ChunksOK, ConcatProperties
  <2>. QED
    BY <2>1, LenProperties
<1>4. pending' = pending \cup N /\ nextId' = nextId + Len(cs)
  BY Zenon, <1>1
<1>. HIDE DEF cs
<1>5. ASSUME NEW k \in 1 .. Len(cs)
      PROVE  f[k] \in Requests
  <2>. DEFINE ts == [i \in DOMAIN cs[k] |-> CancelTarget(orders[cs[k][i]])]
  <2>1. cs[k] \in Seq(Cloids)
    BY <1>3, ElementOfSeq
  <2>2. ASSUME NEW i \in DOMAIN cs[k]
        PROVE  ts[i] \in OidOrNone
    <3>1. cs[k][i] \in Cloids
      BY SMTT(30), <2>1, ElementOfSeq, LenProperties
    <3>2. CancelTarget(orders[cs[k][i]]) \in OidOrNone
      BY <3>1 DEF CancelTarget, TableOK, Tracked, OidOrNone
    <3>. QED
      BY <3>2
  <2>3. ts = [i \in DOMAIN cs[k] |-> ts[i]]
    OBVIOUS
  <2>4. f[k] = Request(nextId + k - 1, "Cancel", cs[k], ts, 0)
    OBVIOUS
  <2>. HIDE DEF ts, f
  <2>5. ts \in Seq(OidOrNone)
    BY Zenon, <2>1, <2>2, <2>3, MapIsSeq
  <2>6. nextId + k - 1 \in Nat
    BY <1>3 DEF RestOK
  <2>. QED
    BY <2>1, <2>4, <2>5, <2>6 DEF Request, Requests, Kinds, RestOK
<1>6. IsFiniteSet(N)
  <2>1. f \in Surjection(1 .. Len(cs), N)
    BY Zenon DEF Surjection
  <2>2. IsFiniteSet(1 .. Len(cs))
    BY <1>3, FS_Interval
  <2>. QED
    BY <2>1, <2>2, FS_Surjection
<1>. HIDE DEF f
<1>7. N \subseteq Requests
  BY <1>5
<1>. HIDE DEF N
<1>8. pending' \subseteq Requests /\ IsFiniteSet(pending') /\ nextId' \in Nat
  <2>1. pending \subseteq Requests /\ IsFiniteSet(pending) /\ nextId \in Nat
    BY DEF RestOK
  <2>2. IsFiniteSet(pending \cup N)
    BY Zenon, <1>6, <2>1, FS_Union
  <2>3. nextId + Len(cs) \in Nat
    BY <1>3, <2>1
  <2>. QED
    BY SMTT(30), <1>4, <1>7, <2>1, <2>2, <2>3
<1>9. UNCHANGED <<queryVars, fillVars, sessionVars>>
  BY DEF CancelAll
<1>. QED
  BY <1>8, <1>9 DEF RestOK, queryVars, fillVars, sessionVars

\* The queries that follow the result of an action.
LEMMA QueryAfterOK ==
  ASSUME TableOK, NEW p, NEW c \in Cloids, NEW res
  PROVE  QueryAfter(p, c, res) \in Queries
  BY QueriesOK DEF QueryAfter

\* The result of an action keeps everything outside the table well formed.
LEMMA ActionResultRest ==
  ASSUME TableOK, RestOK, NEW p \in pending, NEW res \in Results, ActionResult(p, res)
  PROVE  RestOK'
<1>. DEFINE S == QueryEntries(p, res)
<1>1. p.cloids \in Seq(Cloids)
  BY DEF RestOK, Requests
<1>2. S \subseteq Cloids
  <2>1. Range(p.cloids) \subseteq Cloids
    BY <1>1, ElementOfSeq, LenProperties DEF Range
  <2>. QED
    BY <2>1 DEF QueryEntries
<1>3. PICK cs \in Orderings(S) : infoQ' = infoQ \o [k \in DOMAIN cs |-> QueryAfter(p, cs[k], res)]
  BY Zenon DEF ActionResult
<1>. DEFINE f == [k \in DOMAIN cs |-> QueryAfter(p, cs[k], res)]
<1>. HIDE DEF S
<1>4. cs \in Seq(S)
  BY SMTT(30), <1>2, CloidsAssumption, FS_Subset, OrderingsOK
<1>5. f \in Seq(Queries)
  <2>1. ASSUME NEW k \in DOMAIN cs
        PROVE  f[k] \in Queries
    <3>1. cs[k] \in Cloids
      BY SMTT(30), <1>2, <1>4, ElementOfSeq, LenProperties
    <3>. QED
      BY <3>1, QueryAfterOK
  <2>2. f = [k \in DOMAIN cs |-> f[k]]
    OBVIOUS
  <2>. HIDE DEF f
  <2>. QED
    BY SMTT(30), <1>4, <2>1, <2>2, MapIsSeq
<1>6. infoQ' \in Seq(Queries)
  BY <1>3, <1>5, ConcatProperties, SMTT(30) DEF RestOK
<1>7. pending' \subseteq Requests /\ IsFiniteSet(pending')
  BY FS_RemoveElement DEF RestOK, ActionResult
<1>8. UNCHANGED <<nextId, retryTimers, probeTimers, fillVars, sessionVars>>
  BY DEF ActionResult
<1>. QED
  BY <1>6, <1>7, <1>8 DEF RestOK, fillVars, sessionVars

\* The user streams keep everything outside the table well formed.
LEMMA StreamsRest ==
  ASSUME RestOK, Streams
  PROVE  RestOK'
<1>1. CASE \E u \in Updates : OnOrderUpdate(u)
  BY <1>1 DEF OnOrderUpdate, RestOK, queryVars, fillVars, sessionVars
<1>2. CASE \E oid \in Oids : OnNonUserCancel(oid)
  BY <1>2 DEF OnNonUserCancel, RestOK, queryVars, fillVars, sessionVars
<1>3. ASSUME NEW f \in Fills, OnUserFill(f)
      PROVE  RestOK'
  <2>. DEFINE tids == Append(seenTids, f.tid)
  <2>1. f.tid \in Nat /\ f.time \in Nat /\ f.endPos \in Int
    BY FillsAssumption
  <2>2. seenTids \in Seq(Nat)
    BY DEF RestOK
  <2>3. tids \in Seq(Nat) /\ Tail(tids) \in Seq(Nat)
    BY SMTT(30), <2>1, <2>2, AppendProperties, HeadTailProperties
  <2>4. seenTids' = IF Len(tids) > MaxTids THEN Tail(tids) ELSE tids
    BY <1>3 DEF OnUserFill
  <2>5. seenTids' \in Seq(Nat)
    BY SMTT(30), <2>3, <2>4
  <2>6. position' \in [size : Int, lastFillMs : Nat]
    BY <1>3, <2>1 DEF OnUserFill, RestOK
  <2>7. UNCHANGED <<pending, nextId, queryVars, sessionVars>>
    BY <1>3 DEF OnUserFill
  <2>. QED
    BY <2>5, <2>6, <2>7 DEF RestOK, queryVars, sessionVars
<1>. QED
  BY <1>1, <1>2, <1>3, SMTT(30) DEF Streams

\* Reconciliation keeps everything outside the table well formed.
LEMMA ReconciliationRest ==
  ASSUME TableOK, RestOK, Reconciliation
  PROVE  RestOK'
<1>0. infoQ \in Seq(Queries) /\ retryTimers \in [Cloids -> Nat] /\ probeTimers \in [Cloids -> Nat]
  BY DEF RestOK
<1>1. CASE StatusFailed
  <2>1. Head(infoQ).cloid \in Cloids /\ Tail(infoQ) \in Seq(Queries)
    BY <1>0, <1>1, AskedOK, SMTT(30) DEF StatusFailed
  <2>2. infoQ' \in Seq(Queries) /\ retryTimers' \in [Cloids -> Nat]
    BY <1>0, <1>1, <2>1, SMTT(30) DEF StatusFailed
  <2>. QED
    BY <1>1, <2>2, SMTT(30) DEF StatusFailed, RestOK, fillVars, sessionVars
<1>2. CASE \E info \in Infos : StatusFound(info)
  <2>1. infoQ' \in Seq(Queries)
    BY <1>0, <1>2, AskedOK, SMTT(30) DEF StatusFound
  <2>. QED
    BY <1>2, <2>1 DEF StatusFound, RestOK, fillVars, sessionVars
<1>3. CASE StatusNotFound
  <2>1. Head(infoQ).cloid \in Cloids /\ Tail(infoQ) \in Seq(Queries)
    BY <1>0, <1>3, AskedOK, SMTT(30) DEF StatusNotFound
  <2>2. infoQ' \in Seq(Queries) /\ probeTimers' \in [Cloids -> Nat]
    BY <1>0, <1>3, <2>1, SMTT(30) DEF StatusNotFound
  <2>. QED
    BY <1>3, <2>2, SMTT(30) DEF StatusNotFound, RestOK, fillVars, sessionVars
<1>4. ASSUME NEW c \in Cloids, RetryStatus(c)
      PROVE  RestOK'
  <2>1. infoQ' \in Seq(Queries)
    BY <1>0, <1>4, QueriesOK, AppendProperties, SMTT(30) DEF RetryStatus
  <2>2. retryTimers' \in [Cloids -> Nat]
    BY <1>0, <1>4 DEF RetryStatus
  <2>. QED
    BY <1>4, <2>1, <2>2, SMTT(30) DEF RetryStatus, RestOK, fillVars, sessionVars
<1>5. ASSUME NEW c \in Cloids, ProbeAgain(c)
      PROVE  RestOK'
  <2>1. infoQ' \in Seq(Queries)
    BY <1>0, <1>5, QueriesOK, AppendProperties, SMTT(30) DEF ProbeAgain
  <2>2. probeTimers' \in [Cloids -> Nat]
    BY <1>0, <1>5, SMTT(30) DEF ProbeAgain
  <2>. QED
    BY <1>5, <2>1, <2>2 DEF ProbeAgain, RestOK, fillVars, sessionVars
<1>6. ASSUME NEW l, NEW failed, AmendedAnswer(l, failed)
      PROVE  RestOK'
  <2>1. Head(infoQ).cloid \in Cloids /\ Tail(infoQ) \in Seq(Queries)
    BY <1>0, <1>6, AskedOK DEF AmendedAnswer
  <2>2. StatusQuery(Head(infoQ).cloid, orders[Head(infoQ).cloid]) \in Queries
    BY <2>1, QueriesOK
  <2>3. infoQ' \in Seq(Queries)
    BY <1>6, <2>1, <2>2, AppendProperties, SMTT(30) DEF AmendedAnswer
  <2>. QED
    BY <1>6, <2>3, SMTT(30) DEF AmendedAnswer, RestOK, fillVars, sessionVars
<1>7. ASSUME NEW l \in Listings, AllAnswer(l)
      PROVE  RestOK'
  <2>1. Head(infoQ).live \subseteq Cloids /\ Tail(infoQ) \in Seq(Queries)
    BY <1>0, <1>7, AskedOK DEF AllAnswer
  <2>2. PICK S \in SUBSET Cloids :
          \E cs \in Orderings(S) :
            infoQ' = Tail(infoQ) \o [k \in DOMAIN cs |-> StatusQuery(cs[k], orders[cs[k]])]
    <3>. DEFINE live     == {c \in Head(infoQ).live : IsLive(orders[c])}
                resolved == {c \in live : Matches(c, l) # {}}
    <3>1. live \ resolved \in SUBSET Cloids
      BY <2>1
    <3>2. \E cs \in Orderings(live \ resolved) :
            infoQ' = Tail(infoQ) \o [k \in DOMAIN cs |-> StatusQuery(cs[k], orders[cs[k]])]
      BY <1>7, Zenon DEF AllAnswer
    <3>. QED
      BY Zenon, <3>1, <3>2
  <2>3. infoQ' \in Seq(Queries)
    BY SMTT(30), <2>1, <2>2, StatusQueriesOK, ConcatProperties
  <2>. QED
    BY <1>7, <2>3, SMTT(30) DEF AllAnswer, RestOK, fillVars, sessionVars
<1>8. CASE AllFailed
  <2>1. Head(infoQ).live \subseteq Cloids /\ Tail(infoQ) \in Seq(Queries)
    BY <1>0, <1>8, AskedOK, SMTT(30) DEF AllFailed
  <2>2. infoQ' \in Seq(Queries)
    BY <1>8, <2>1, StatusQueriesOK, ConcatProperties, SMTT(30) DEF AllFailed
  <2>. QED
    BY <1>8, <2>2, SMTT(30) DEF AllFailed, RestOK, fillVars, sessionVars
<1>. QED
  BY <1>1, <1>2, <1>3, <1>4, <1>5, <1>6, <1>7, <1>8, Zenon DEF Reconciliation

\* A lost session keeps everything outside the table well formed.
LEMMA OnSessionClosedRest ==
  ASSUME TableOK, RestOK, OnSessionClosed
  PROVE  RestOK'
<1>. DEFINE lost    == {p \in pending : p.ws}
            entries == {e \in lost \X Cloids : e[2] \in QueryEntries(e[1], TransportFailure)}
<1>1. PICK es \in Orderings(entries) :
        infoQ' = infoQ \o [k \in DOMAIN es |-> QueryAfter(es[k][1], es[k][2], TransportFailure)]
  BY Zenon DEF OnSessionClosed
<1>2. IsFiniteSet(lost) /\ lost \subseteq Requests
  BY FS_Subset DEF RestOK
<1>3. IsFiniteSet(entries)
  <2>1. IsFiniteSet(lost \X Cloids)
    BY SMTT(30), <1>2, CloidsAssumption, FS_Product
  <2>. QED
    BY <2>1, FS_Subset
<1>4. \A e \in entries : e[2] \in Cloids
  OBVIOUS
<1>5. pending' = pending \ lost
  BY Zenon DEF OnSessionClosed
<1>. HIDE DEF entries, lost
<1>. DEFINE f == [k \in DOMAIN es |-> QueryAfter(es[k][1], es[k][2], TransportFailure)]
<1>6. es \in Seq(entries)
  BY <1>3, OrderingsOK
<1>7. f \in Seq(Queries)
  <2>1. ASSUME NEW k \in DOMAIN es
        PROVE  f[k] \in Queries
    <3>1. es[k][2] \in Cloids
      BY SMTT(30), <1>4, <1>6, ElementOfSeq, LenProperties
    <3>. QED
      BY <3>1, QueryAfterOK
  <2>2. f = [k \in DOMAIN es |-> f[k]]
    OBVIOUS
  <2>. HIDE DEF f
  <2>. QED
    BY SMTT(30), <1>6, <2>1, <2>2, MapIsSeq
<1>8. infoQ' \in Seq(Queries)
  BY <1>1, <1>7, ConcatProperties DEF RestOK
<1>9. pending' \subseteq Requests /\ IsFiniteSet(pending')
  BY <1>5, FS_Difference, Zenon DEF RestOK
<1>10. /\ connected' = FALSE /\ ready' = FALSE
       /\ UNCHANGED <<nextId, retryTimers, probeTimers, fillVars, started, sessions, stops>>
  BY Zenon DEF OnSessionClosed
<1>. QED
  BY <1>8, <1>9, <1>10, Zenon DEF RestOK, fillVars

\* Sessions, stop, start and eviction keep everything outside the table well formed.
LEMMA LifecycleRest ==
  ASSUME TableOK, RestOK, Lifecycle
  PROVE  RestOK'
<1>1. CASE OnSessionOpen
  BY <1>1 DEF OnSessionOpen, RestOK, queryVars, fillVars
<1>2. CASE BecomeReady
  <2>1. AllQuery(Live) \in Queries /\ infoQ \in Seq(Queries)
    BY QueriesOK DEF Live, RestOK
  <2>2. Append(infoQ, AllQuery(Live)) \in Seq(Queries)
    BY <2>1, AppendProperties
  <2>3. infoQ' = infoQ \/ infoQ' = Append(infoQ, AllQuery(Live))
    BY <1>2 DEF BecomeReady
  <2>4. infoQ' \in Seq(Queries)
    BY SMTT(30), <2>1, <2>2, <2>3
  <2>. QED
    BY <1>2, <2>4 DEF BecomeReady, RestOK, fillVars
<1>3. CASE Stop
  <2>1. pending' \subseteq Requests /\ IsFiniteSet(pending')
    <3>1. pending' = {}
      BY <1>3 DEF Stop
    <3>. QED
      BY <3>1, FS_EmptySet
  <2>2. started' \in BOOLEAN /\ connected' \in BOOLEAN /\ ready' \in BOOLEAN
    BY <1>3, Zenon DEF Stop
  <2>3. stops' \in Nat
    <3>1. stops \in Nat /\ stops' = stops + 1
      BY <1>3 DEF Stop, RestOK
    <3>. QED
      BY <3>1
  <2>. QED
    BY <1>3, <2>1, <2>2, <2>3, SMTT(30) DEF Stop, RestOK, queryVars, fillVars
<1>4. CASE Start
  BY <1>4 DEF Start, RestOK, queryVars, fillVars
<1>5. CASE \E c \in Cloids : Evict(c)
  BY <1>5 DEF Evict, RestOK, queryVars, fillVars, sessionVars
<1>. QED
  BY <1>1, <1>2, <1>3, <1>4, <1>5, OnSessionClosedRest, SMTT(30) DEF Lifecycle

\* Every step keeps everything outside the table well formed.
LEMMA NextRest ==
  ASSUME TableOK, RestOK, Next
  PROVE  RestOK'
<1>1. CASE OrderEntry
  BY SMTT(30), <1>1, PlaceOrdersRest, CancelRest, CancelByOidRest, CancelAllRest, ModifyRest, OtherActionRest
  DEF OrderEntry
<1>. QED
  BY <1>1, ActionResultRest, StreamsRest, ReconciliationRest, LifecycleRest, SMTT(30) DEF Next

=============================================================================
