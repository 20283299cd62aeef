-------------------------- MODULE OrderTableProofs --------------------------
(***************************************************************************)
(* What each function of the order table leaves behind, proved for every   *)
(* entry and every message.                                                *)
(***************************************************************************)
EXTENDS OrderTable, SequenceTheorems, TLAPS

\* The larger of the two sources of the filled size.
FillsOK(t) ==
  t.filledSz = IF t.fillSum > t.ackFilledSz THEN t.fillSum ELSE t.ackFilledSz

\* The listener knows the state, and of this client's orders everything.
InformedOK(t) ==
  /\ t.told.state = t.state \/ (t.state = "PendingNew" /\ t.told = Untracked.told)
  /\ ~t.external /\ t.told # Untracked.told
       => t.told = [state |-> t.state, oid |-> t.oid, filledSz |-> t.filledSz]

\* An entry between two handlers.
EntryOK(t) ==
  /\ t \in Tracked
  /\ FillsOK(t)
  /\ InformedOK(t)
  /\ t.modifyPending => t.oid # NoOid
  /\ ~IsTracked(t) => t.oid = NoOid

\* An entry inside a handler, before emit().
Unreported(t) ==
  /\ t \in Tracked
  /\ IsTracked(t)
  /\ FillsOK(t)
  /\ t.modifyPending => t.oid # NoOid

\* The states an order may move between, as OrderLifecycle has them.
StateStep(s, r) ==
  \/ r = s
  \/ s = "Untracked" /\ r \in OrderStates
  \/ s = "PendingNew" /\ r \in OrderStates
  \/ s = "Open" /\ r \in TerminalStates \cup {"PartiallyFilled"}
  \/ s = "PartiallyFilled" /\ r \in TerminalStates
  \/ s \in {"Canceled", "Rejected"} /\ r = "Filled"
  \/ s \in TerminalStates /\ r \in {"Open", "PartiallyFilled", "Untracked"}

\* What any handler may do to an entry.
Step(t, r) ==
  /\ EntryOK(r)
  /\ StateStep(t.state, r.state)
  /\ IsTerminal(t) /\ IsLive(r) => r.oid # t.oid
  /\ IsTracked(t) /\ IsTracked(r) /\ r.oid = t.oid => r.fillSum >= t.fillSum

\* What the functions called by the handlers do: a verdict stands.
Settles(t, r) ==
  /\ Unreported(r)
  /\ StateStep(t.state, r.state)
  /\ IsTerminal(t) => IsTerminal(r)
  /\ r.oid = t.oid => r.fillSum >= t.fillSum

\* A change of the flags and counters that the listener is not told about.
Quiet(t, r) ==
  /\ r \in Tracked
  /\ r.state = t.state /\ r.oid = t.oid /\ r.told = t.told /\ r.external = t.external
  /\ r.fillSum = t.fillSum /\ r.ackFilledSz = t.ackFilledSz /\ r.filledSz = t.filledSz
  /\ r.modifyPending => r.oid # NoOid

-----------------------------------------------------------------------------

\* An absent entry is a proper entry.
LEMMA UntrackedOK == EntryOK(Untracked)
<1>1. << >> \in Seq(Oids)
  OBVIOUS
<1>. QED
  BY <1>1, ProbesAssumption
  DEF EntryOK, IsTracked, Untracked, Tracked, Views, EntryStates, OrderStates, FillsOK, InformedOK, NoOid

\* emit() leaves a proper entry behind.
LEMMA EmitOK ==
  ASSUME NEW t, Unreported(t)
  PROVE  EntryOK(Emit(t))
  BY DEF EntryOK, Unreported, Emit, Tracked, Views, FillsOK, InformedOK, IsTracked

\* Taking over an oid keeps an entry well formed, and restarts its fills only with a new oid.
LEMMA SetOidOK ==
  ASSUME NEW t, Unreported(t), NEW oid \in Oids \cup {NoOid}
  PROVE  /\ Unreported(SetOid(t, oid))
         /\ SetOid(t, oid).state = t.state
         /\ SetOid(t, oid).oid = IF oid = NoOid THEN t.oid ELSE oid
  BY OidsAssumption, Zenon DEF Unreported, SetOid, Tracked, FillsOK, IsTracked, NoOid

\* A proper entry that is tracked can be worked on.
LEMMA OpenUp ==
  ASSUME NEW t, EntryOK(t), IsTracked(t)
  PROVE  Unreported(t)
  BY DEF EntryOK, Unreported

\* A handler that ends with emit() takes a proper step.
LEMMA EmitStep ==
  ASSUME NEW t, NEW r, Settles(t, r)
  PROVE  Step(t, Emit(r))
<1>1. EntryOK(Emit(r))
  BY EmitOK DEF Settles
<1>2. /\ Emit(r).state = r.state /\ Emit(r).oid = r.oid /\ Emit(r).fillSum = r.fillSum
  BY DEF Emit, Settles, Unreported, Tracked
<1>. QED
  BY <1>1, <1>2 DEF Step, Settles, IsTerminal, IsLive, TerminalStates, LiveStates

\* A handler that leaves the entry alone takes a proper step.
LEMMA NoStep ==
  ASSUME NEW t, EntryOK(t)
  PROVE  Step(t, t)
  BY DEF Step, StateStep, EntryOK, Tracked, IsTerminal, IsLive, TerminalStates, LiveStates

\* Remembering a replaced oid changes nothing else of an entry.
LEMMA RetireOidOK ==
  ASSUME NEW t, Unreported(t), t.oid # NoOid
  PROVE  /\ Unreported(RetireOid(t))
         /\ RetireOid(t).state = t.state
         /\ RetireOid(t).oid = t.oid
         /\ RetireOid(t).fillSum = t.fillSum
<1>. DEFINE all == Append(t.retiredOids, t.oid)
            rs  == IF Len(all) > MaxRetired THEN Tail(all) ELSE all
<1>1. t.retiredOids \in Seq(Oids) /\ t.oid \in Oids
  BY DEF Unreported, Tracked
<1>2. all \in Seq(Oids) /\ Tail(all) \in Seq(Oids)
  BY <1>1, AppendProperties, HeadTailProperties
<1>3. rs \in Seq(Oids)
  BY <1>2
<1>4. RetireOid(t) = [t EXCEPT !.retiredOids = rs]
  BY DEF RetireOid
<1>. HIDE DEF rs
<1>. QED
  BY <1>3, <1>4 DEF Unreported, Tracked, FillsOK, IsTracked

\* The pieces of Settles that follow from the fields that are kept.
LEMMA KeepsFields ==
  ASSUME NEW t, Unreported(t), NEW r \in Tracked, NEW s \in OrderStates,
         r.state = s, StateStep(t.state, s), IsTerminal(t) => s \in TerminalStates,
         r.oid = t.oid, r.fillSum = t.fillSum,
         FillsOK(r),
         r.modifyPending = t.modifyPending
  PROVE  Settles(t, r)
<1>1. t.fillSum \in Int
  BY DEF Unreported, Tracked
<1>2. IsTracked(r)
  BY DEF IsTracked, OrderStates, LiveStates, TerminalStates
<1>3. IsTerminal(t) => IsTerminal(r)
  BY DEF IsTerminal
<1>. QED
  BY <1>1, <1>2, <1>3 DEF Settles, Unreported

\* Settles composes with a change that kept the state.
LEMMA SettlesTwice ==
  ASSUME NEW t, Unreported(t), NEW s, Unreported(s), s.state = t.state,
         s.oid = t.oid => s.fillSum >= t.fillSum,
         NEW r, Settles(s, r), r.oid = s.oid
  PROVE  Settles(t, r)
<1>1. t.fillSum \in Int /\ s.fillSum \in Int /\ r.fillSum \in Int
  BY DEF Settles, Unreported, Tracked
<1>. QED
  BY <1>1 DEF Settles, IsTerminal

\* An acknowledgement never takes a verdict back.
LEMMA ApplyAckOK ==
  ASSUME NEW t, Unreported(t), NEW st \in AckStatuses
  PROVE  Settles(t, ApplyAck(t, st))
<1>. DEFINE s == SetOid(t, st.oid)
<1>1. st.oid \in Oids \cup {NoOid} /\ st.totalSz \in Nat /\ st.kind \in AckKinds
  BY DEF AckStatuses
<1>2. Unreported(s) /\ s.state = t.state
  BY <1>1, SetOidOK
<1>3. s.oid = t.oid => s.fillSum >= t.fillSum
  <2>1. t.fillSum \in Int
    BY DEF Unreported, Tracked
  <2>2. s.oid = t.oid => s = t
    BY <1>1 DEF SetOid, Unreported, Tracked
  <2>. QED
    BY <2>1, <2>2
<1>4. s \in Tracked /\ s.state \in OrderStates
  BY <1>2 DEF Unreported, Tracked, IsTracked, EntryStates
<1>. HIDE DEF s
<1>5. CASE st.kind = "resting"
  <2>1. CASE s.state = "PendingNew"
    <3>. DEFINE r == [s EXCEPT !.state = RestingState(s)]
    <3>1. r \in Tracked /\ r.state = RestingState(s) /\ r.oid = s.oid /\ r.fillSum = s.fillSum
          /\ r.ackFilledSz = s.ackFilledSz /\ r.filledSz = s.filledSz
          /\ r.modifyPending = s.modifyPending
      BY <1>4 DEF Tracked, RestingState, EntryStates, OrderStates, LiveStates
    <3>2. RestingState(s) \in OrderStates
      BY DEF RestingState, OrderStates, LiveStates
    <3>3. StateStep(s.state, RestingState(s)) /\ ~IsTerminal(s)
      BY <2>1, <3>2 DEF StateStep, IsTerminal, TerminalStates
    <3>4. FillsOK(r)
      BY <3>1, <1>2 DEF Unreported, FillsOK
    <3>5. ApplyAck(t, st) = r
      BY <1>5, <2>1 DEF ApplyAck, s
    <3>. HIDE DEF r
    <3>6. Settles(s, r)
      BY <1>2, <3>1, <3>2, <3>3, <3>4, KeepsFields
    <3>. QED
      BY <1>2, <1>3, <3>1, <3>5, <3>6, SettlesTwice
  <2>2. CASE s.state # "PendingNew"
    <3>1. ApplyAck(t, st) = s
      BY <1>5, <2>2 DEF ApplyAck, s
    <3>. QED
      BY <1>2, <1>3, <3>1 DEF Settles, StateStep, IsTerminal
  <2>. QED
    BY <2>1, <2>2
<1>6. CASE st.kind = "filled"
  <2>. DEFINE a == [s EXCEPT !.ackFilledSz = st.totalSz]
              b == RecomputeFills(a)
              r == [b EXCEPT !.state = "Filled"]
  <2>1. a \in Tracked /\ a.oid = s.oid /\ a.fillSum = s.fillSum
        /\ a.modifyPending = s.modifyPending
    BY <1>1, <1>4 DEF Tracked
  <2>. HIDE DEF a
  <2>2. b \in Tracked /\ b.oid = a.oid /\ b.fillSum = a.fillSum /\ FillsOK(b)
        /\ b.modifyPending = a.modifyPending
    BY <2>1 DEF Tracked, RecomputeFills, FillsOK
  <2>. HIDE DEF b
  <2>3. r \in Tracked /\ r.state = "Filled" /\ r.oid = b.oid /\ r.fillSum = b.fillSum
        /\ r.modifyPending = b.modifyPending /\ FillsOK(r)
    BY <2>2 DEF Tracked, FillsOK, EntryStates, OrderStates, TerminalStates
  <2>4. ApplyAck(t, st) = r
    BY <1>6 DEF ApplyAck, s, a, b
  <2>5. StateStep(s.state, "Filled")
    BY <1>4 DEF StateStep, OrderStates, LiveStates, TerminalStates
  <2>. HIDE DEF r
  <2>6. Settles(s, r)
    BY <1>2, <2>1, <2>2, <2>3, <2>5, KeepsFields DEF OrderStates, TerminalStates
  <2>. QED
    BY <1>2, <1>3, <2>1, <2>2, <2>3, <2>4, <2>6, SettlesTwice
<1>7. CASE st.kind \in {"success", "error"}
  <2>. DEFINE w == IF st.kind = "success" THEN "Open" ELSE "Rejected"
              r == [t EXCEPT !.state = w]
  <2>1. CASE t.state = "PendingNew"
    <3>1. ApplyAck(t, st) = r
      BY <1>7, <2>1 DEF ApplyAck
    <3>2. r \in Tracked /\ r.state = w /\ r.oid = t.oid /\ r.fillSum = t.fillSum
          /\ r.ackFilledSz = t.ackFilledSz /\ r.filledSz = t.filledSz
          /\ r.modifyPending = t.modifyPending
      BY DEF Unreported, Tracked, EntryStates, OrderStates, LiveStates, TerminalStates
    <3>3. w \in OrderStates /\ StateStep(t.state, w) /\ ~IsTerminal(t)
      BY <2>1 DEF StateStep, OrderStates, LiveStates, TerminalStates, IsTerminal
    <3>4. FillsOK(r)
      BY <3>2 DEF Unreported, FillsOK
    <3>. HIDE DEF r, w
    <3>. QED
      BY <3>1, <3>2, <3>3, <3>4, KeepsFields
  <2>2. CASE t.state # "PendingNew"
    <3>1. ApplyAck(t, st) = t
      BY <1>7, <2>2 DEF ApplyAck
    <3>2. t.fillSum \in Int
      BY DEF Unreported, Tracked
    <3>. QED
      BY <3>1, <3>2 DEF Settles, StateStep
  <2>. QED
    BY <2>1, <2>2
<1>. QED
  BY <1>1, <1>5, <1>6, <1>7 DEF AckKinds

\* A status never takes a verdict back, and never changes the oid; "open" never is a verdict.
LEMMA ApplyVenueStatusOK ==
  ASSUME NEW t, Unreported(t), NEW status \in UpdateStatuses, NEW origSz \in Nat
  PROVE  /\ Settles(t, ApplyVenueStatus(t, status, origSz))
         /\ ApplyVenueStatus(t, status, origSz).oid = t.oid
         /\ status = "open" /\ IsLive(t) => IsLive(ApplyVenueStatus(t, status, origSz))
<1>1. t \in Tracked /\ t.state \in OrderStates /\ FillsOK(t)
  BY DEF Unreported, Tracked, IsTracked, EntryStates
<1>2. CASE IsTerminal(t) /\ status # "filled"
  <2>. DEFINE r == [t EXCEPT !.cancelPending = FALSE]
  <2>1. r \in Tracked /\ r.state = t.state /\ r.oid = t.oid /\ r.fillSum = t.fillSum
        /\ r.ackFilledSz = t.ackFilledSz /\ r.filledSz = t.filledSz
        /\ r.modifyPending = t.modifyPending
    BY <1>1, Zenon DEF Tracked
  <2>2. ApplyVenueStatus(t, status, origSz) = r
    BY <1>2 DEF ApplyVenueStatus
  <2>. HIDE DEF r
  <2>3. FillsOK(r) /\ StateStep(t.state, t.state)
    BY <1>1, <2>1 DEF FillsOK, StateStep
  <2>. QED
    BY <1>1, <2>1, <2>2, <2>3, KeepsFields DEF IsTerminal, IsLive
<1>3. CASE ~IsTerminal(t) /\ status \in {"open", "triggered"}
  <2>. DEFINE w == IF t.state \in {"PendingNew", "Open"} THEN RestingState(t) ELSE t.state
              r == [t EXCEPT !.origSz = IF origSz = 0 THEN @ ELSE origSz, !.state = w]
  <2>1. w \in LiveStates /\ w \in OrderStates /\ w \in EntryStates /\ StateStep(t.state, w)
    BY <1>1, <1>3 DEF RestingState, IsTerminal, StateStep, EntryStates, OrderStates, LiveStates,
       TerminalStates
  <2>2. ApplyVenueStatus(t, status, origSz) = r
    BY <1>3 DEF ApplyVenueStatus
  <2>. HIDE DEF w
  <2>3. r \in Tracked /\ r.state = w /\ r.oid = t.oid /\ r.fillSum = t.fillSum
        /\ r.ackFilledSz = t.ackFilledSz /\ r.filledSz = t.filledSz
        /\ r.modifyPending = t.modifyPending
    BY <1>1, <2>1, Zenon DEF Tracked
  <2>. HIDE DEF r
  <2>4. FillsOK(r)
    BY <1>1, <2>3 DEF FillsOK
  <2>. QED
    BY <1>3, <2>1, <2>2, <2>3, <2>4, KeepsFields DEF IsLive
<1>4. CASE status = "filled"
  <2>. DEFINE n == IF t.ackFilledSz < t.origSz THEN t.origSz ELSE t.ackFilledSz
              a == [t EXCEPT !.ackFilledSz = n]
              b == RecomputeFills(a)
              r == [b EXCEPT !.state = "Filled", !.cancelPending = FALSE]
  <2>0. n \in Nat
    BY <1>1 DEF Tracked
  <2>5. ApplyVenueStatus(t, status, origSz) = r
    BY <1>4 DEF ApplyVenueStatus
  <2>. HIDE DEF n
  <2>1. a \in Tracked /\ a.oid = t.oid /\ a.fillSum = t.fillSum
        /\ a.modifyPending = t.modifyPending
    BY <1>1, <2>0 DEF Tracked
  <2>. HIDE DEF a
  <2>2. b \in Tracked /\ b.oid = a.oid /\ b.fillSum = a.fillSum /\ FillsOK(b)
        /\ b.modifyPending = a.modifyPending
    BY <2>1 DEF Tracked, RecomputeFills, FillsOK
  <2>. HIDE DEF b
  <2>3. r \in Tracked /\ r.state = "Filled" /\ r.oid = b.oid /\ r.fillSum = b.fillSum
        /\ r.modifyPending = b.modifyPending /\ FillsOK(r)
    BY <2>2, Zenon DEF Tracked, FillsOK, EntryStates, OrderStates, TerminalStates
  <2>4. StateStep(t.state, "Filled")
    BY <1>1 DEF StateStep, OrderStates, LiveStates, TerminalStates
  <2>. HIDE DEF r
  <2>. QED
    BY <1>4, <2>1, <2>2, <2>3, <2>4, <2>5, KeepsFields DEF OrderStates, TerminalStates
<1>5. CASE ~IsTerminal(t) /\ status \in {"canceled", "rejected"}
  <2>. DEFINE w == IF status = "canceled" THEN "Canceled" ELSE "Rejected"
              p == IF status = "canceled" THEN FALSE ELSE t.cancelPending
              r == [t EXCEPT !.state = w, !.cancelPending = p]
  <2>1. w \in TerminalStates /\ w \in OrderStates /\ w \in EntryStates /\ StateStep(t.state, w)
    BY <1>1, <1>5 DEF IsTerminal, StateStep, EntryStates, OrderStates, LiveStates, TerminalStates
  <2>2. p \in BOOLEAN
    BY <1>1, Zenon DEF Tracked
  <2>3. ApplyVenueStatus(t, status, origSz) = r
    <3>1. CASE status = "canceled"
      BY <1>5, <3>1 DEF ApplyVenueStatus
    <3>2. CASE status = "rejected"
      <4>1. ApplyVenueStatus(t, status, origSz) = [t EXCEPT !.state = "Rejected"]
        BY <1>5, <3>2 DEF ApplyVenueStatus
      <4>. QED
        BY <1>1, <3>2, <4>1, Zenon DEF Tracked
    <3>. QED
      BY <1>5, <3>1, <3>2
  <2>. HIDE DEF w, p
  <2>4. r \in Tracked /\ r.state = w /\ r.oid = t.oid /\ r.fillSum = t.fillSum
        /\ r.ackFilledSz = t.ackFilledSz /\ r.filledSz = t.filledSz
        /\ r.modifyPending = t.modifyPending
    BY <1>1, <2>1, <2>2, Zenon DEF Tracked
  <2>. HIDE DEF r
  <2>5. FillsOK(r)
    BY <1>1, <2>4 DEF FillsOK
  <2>. QED
    BY <1>5, <2>1, <2>3, <2>4, <2>5, KeepsFields
<1>6. CASE ~IsTerminal(t) /\ status = "unknown"
  <2>1. ApplyVenueStatus(t, status, origSz) = t
    BY <1>6 DEF ApplyVenueStatus
  <2>2. t.fillSum \in Int
    BY <1>1 DEF Tracked
  <2>. QED
    BY <2>1, <2>2 DEF Settles, StateStep
<1>. QED
  BY <1>2, <1>3, <1>4, <1>5, <1>6 DEF UpdateStatuses

\* A handler that changes nothing but flags takes a proper step.
LEMMA QuietStep ==
  ASSUME NEW t, EntryOK(t), NEW r, Quiet(t, r)
  PROVE  Step(t, r)
<1>1. t.fillSum \in Int
  BY DEF EntryOK, Tracked
<1>2. FillsOK(r) /\ InformedOK(r)
  BY DEF Quiet, EntryOK, FillsOK, InformedOK
<1>3. StateStep(t.state, r.state) /\ ~(IsTerminal(t) /\ IsLive(r))
  BY DEF Quiet, StateStep, IsTerminal, IsLive, TerminalStates, LiveStates
<1>. QED
  BY <1>1, <1>2, <1>3 DEF Quiet, EntryOK, Step, IsTracked

\* A quiet change also settles.
LEMMA QuietSettles ==
  ASSUME NEW t, Unreported(t), NEW r, Quiet(t, r)
  PROVE  Settles(t, r)
<1>1. t.fillSum \in Int
  BY DEF Unreported, Tracked
<1>2. FillsOK(r) /\ IsTracked(r)
  BY DEF Quiet, Unreported, FillsOK, IsTracked
<1>3. StateStep(t.state, r.state) /\ (IsTerminal(t) => IsTerminal(r))
  BY DEF Quiet, StateStep, IsTerminal
<1>. QED
  BY <1>1, <1>2, <1>3 DEF Quiet, Unreported, Settles

\* An update is stale, waits for the answer to a modify, or is applied and reported.
LEMMA ApplyUpdateOK ==
  ASSUME NEW t, Unreported(t), NEW u, u.oid \in Oids, u.status \in UpdateStatuses, u.origSz \in Nat
  PROVE  \/ ApplyUpdate(t, u) = t /\ t.oid # u.oid
         \/ Quiet(t, ApplyUpdate(t, u))
         \/ \E s : ApplyUpdate(t, u) = Emit(s) /\ Settles(t, s) /\ s.oid = u.oid
<1>. DEFINE otherOid == u.oid # NoOid /\ t.oid # NoOid /\ u.oid # t.oid
            stale    == otherOid /\ ( \/ u.oid < t.oid
                                      \/ \E i \in DOMAIN t.retiredOids : t.retiredOids[i] = u.oid
                                      \/ t.modifyPending /\ u.status \notin {"open", "filled", "triggered"} )
            old      == IF otherOid /\ t.modifyPending THEN RetireOid(t) ELSE t
            adopted  == SetOid(old, u.oid)
            held     == adopted.modifyPending /\ u.oid = adopted.oid /\ u.status = "canceled"
<1>0. u.oid # NoOid
  BY OidsAssumption DEF NoOid
<1>1. ApplyUpdate(t, u) = IF stale THEN t
                          ELSE IF held THEN [adopted EXCEPT !.canceledDuringModify = TRUE]
                          ELSE Emit(ApplyVenueStatus(adopted, u.status, u.origSz))
  BY DEF ApplyUpdate
<1>2. Unreported(old) /\ old.state = t.state /\ old.oid = t.oid /\ old.fillSum = t.fillSum
  BY RetireOidOK
<1>3. Unreported(adopted) /\ adopted.state = t.state /\ adopted.oid = u.oid
  BY <1>0, <1>2, SetOidOK
<1>4. adopted.oid = t.oid => adopted.fillSum >= t.fillSum
  <2>1. t.fillSum \in Int
    BY DEF Unreported, Tracked
  <2>. QED
    BY <1>2, <1>3, <2>1 DEF SetOid
<1>5. CASE stale
  BY <1>1, <1>5
<1>6. CASE ~stale /\ held
  <2>1. t.oid = u.oid \/ t.oid = NoOid
    <3>1. CASE otherOid
      <4>1. ~t.modifyPending
        BY <1>6, <3>1
      <4>2. old = t
        BY <4>1
      <4>3. adopted.modifyPending = t.modifyPending
        BY <4>2 DEF SetOid, Unreported, Tracked
      <4>. QED
        BY <1>6, <4>1, <4>3
    <3>2. CASE ~otherOid
      BY <1>0, <3>2
    <3>. QED
      BY <3>1, <3>2
  <2>2. old = t
    BY <2>1
  <2>3. t.oid # NoOid
    <3>1. adopted.modifyPending = t.modifyPending
      BY <2>2 DEF SetOid, Unreported, Tracked
    <3>. QED
      BY <1>6, <3>1 DEF Unreported
  <2>4. adopted = t
    BY <2>1, <2>2, <2>3 DEF SetOid
  <2>5. ApplyUpdate(t, u) = [t EXCEPT !.canceledDuringModify = TRUE]
    BY Zenon, <1>1, <1>6, <2>4
  <2>6. Quiet(t, [t EXCEPT !.canceledDuringModify = TRUE])
    BY Zenon DEF Quiet, Unreported, Tracked
  <2>. QED
    BY <2>5, <2>6
<1>7. CASE ~stale /\ ~held
  <2>. DEFINE r == ApplyVenueStatus(adopted, u.status, u.origSz)
  <2>0. ApplyUpdate(t, u) = Emit(r)
    BY <1>1, <1>7
  <2>. HIDE DEF adopted
  <2>1. Settles(adopted, r) /\ r.oid = adopted.oid
    BY <1>3, ApplyVenueStatusOK
  <2>. HIDE DEF r
  <2>2. Settles(t, r) /\ r.oid = u.oid
    BY <1>3, <1>4, <2>1, SettlesTwice
  <2>. QED
    BY <2>0, <2>2
<1>. QED
  BY <1>5, <1>6, <1>7

\* onOrderUpdates on an entry it found.
LEMMA UpdateStep ==
  ASSUME NEW t, EntryOK(t), IsTracked(t),
         NEW u, u.oid \in Oids, u.status \in UpdateStatuses, u.origSz \in Nat
  PROVE  Step(t, ApplyUpdate(t, u))
  BY OpenUp, ApplyUpdateOK, NoStep, QuietStep, EmitStep

\* A recounted entry keeps everything but the filled size.
LEMMA RecomputeOK ==
  ASSUME NEW t \in Tracked
  PROVE  LET r == RecomputeFills(t)
         IN  r \in Tracked /\ FillsOK(r) /\ r.state = t.state /\ r.oid = t.oid
             /\ r.fillSum = t.fillSum /\ r.modifyPending = t.modifyPending /\ r.origSz = t.origSz
  BY DEF RecomputeFills, FillsOK, Tracked

\* onUserFills on the entry of a fill.
LEMMA FillStep ==
  ASSUME NEW t, EntryOK(t), IsTracked(t), NEW f, f.oid \in Oids, f.sz \in Nat
  PROVE  Step(t, ApplyFill(t, f))
<1>. DEFINE s == IF f.oid # NoOid /\ t.oid # NoOid THEN SetOid(t, f.oid) ELSE t
            a == [s EXCEPT !.fillSum = @ + f.sz]
            r == RecomputeFills(a)
            w == IF r.filledSz >= r.origSz THEN "Filled" ELSE "PartiallyFilled"
            n == IF IsTerminal(r) THEN r ELSE [r EXCEPT !.state = w]
<1>1. CASE f.oid # NoOid /\ t.oid # NoOid /\ f.oid < t.oid
  BY <1>1, NoStep DEF ApplyFill
<1>2. CASE ~(f.oid # NoOid /\ t.oid # NoOid /\ f.oid < t.oid)
  <2>1. ApplyFill(t, f) = Emit(n)
    BY <1>2 DEF ApplyFill
  <2>2. Unreported(t) /\ t.fillSum \in Nat
    BY OpenUp DEF Unreported, Tracked
  <2>3. Unreported(s) /\ s.state = t.state /\ (s.oid = t.oid => s = t)
    BY <2>2, SetOidOK, Zenon DEF SetOid, Unreported, Tracked
  <2>4. s \in Tracked /\ s.fillSum \in Nat
    BY <2>3 DEF Unreported, Tracked
  <2>. HIDE DEF s
  <2>5. a \in Tracked /\ a.state = s.state /\ a.oid = s.oid /\ a.fillSum = s.fillSum + f.sz
        /\ a.modifyPending = s.modifyPending
    BY <2>4, SMTT(30) DEF Tracked
  <2>. HIDE DEF a
  <2>6. r \in Tracked /\ FillsOK(r) /\ r.state = t.state /\ r.oid = s.oid /\ r.fillSum = a.fillSum
        /\ r.modifyPending = s.modifyPending
    BY <2>3, <2>5, RecomputeOK
  <2>7. r.oid = t.oid => r.fillSum >= t.fillSum
    BY <2>2, <2>3, <2>4, <2>5, <2>6
  <2>8. r.modifyPending => r.oid # NoOid
    BY <2>3, <2>6 DEF Unreported
  <2>9. t.state \in OrderStates
    BY <2>2 DEF Unreported, Tracked, IsTracked, EntryStates
  <2>10. w \in {"Filled", "PartiallyFilled"}
    OBVIOUS
  <2>. HIDE DEF r, w
  <2>11. CASE IsTerminal(r)
    <3>1. n = r
      BY <2>11
    <3>2. IsTracked(r)
      BY <2>6 DEF IsTracked
    <3>3. Settles(t, r)
      BY <2>6, <2>7, <2>8, <2>11, <3>2 DEF Settles, Unreported, StateStep
    <3>. QED
      BY <2>1, <3>1, <3>3, EmitStep
  <2>12. CASE ~IsTerminal(r)
    <3>1. n = [r EXCEPT !.state = w]
      BY <2>12
    <3>2. n \in Tracked /\ n.state = w /\ n.oid = r.oid /\ n.fillSum = r.fillSum
          /\ n.ackFilledSz = r.ackFilledSz /\ n.filledSz = r.filledSz
          /\ n.modifyPending = r.modifyPending
      BY <2>6, <2>10, <3>1 DEF Tracked, EntryStates, OrderStates, LiveStates, TerminalStates
    <3>. HIDE DEF n
    <3>3. FillsOK(n)
      BY <2>6, <3>2 DEF FillsOK
    <3>4. IsTracked(n) /\ ~IsTerminal(t) /\ StateStep(t.state, n.state)
      BY <2>6, <2>9, <2>10, <2>12, <3>2
      DEF IsTracked, IsTerminal, StateStep, OrderStates, LiveStates, TerminalStates
    <3>5. Settles(t, n)
      BY <2>7, <2>8, <3>2, <3>3, <3>4 DEF Settles, Unreported
    <3>. QED
      BY <2>1, <3>5, EmitStep
  <2>. QED
    BY <2>11, <2>12
<1>. QED
  BY <1>1, <1>2

\* The parts common to the answers of reconciliation: take the oid, apply the status, report.
LEMMA StatusStep ==
  ASSUME NEW t, Unreported(t), NEW s, Quiet(t, s),
         NEW oid \in Oids \cup {NoOid}, NEW status \in UpdateStatuses, NEW origSz \in Nat
  PROVE  LET r == Emit(ApplyVenueStatus(SetOid(s, oid), status, origSz))
         IN  /\ Step(t, r)
             /\ status = "open" /\ IsLive(t) => IsLive(r)
<1>. DEFINE a == SetOid(s, oid)
            r == ApplyVenueStatus(a, status, origSz)
<1>1. Unreported(s) /\ s.state = t.state /\ s.oid = t.oid /\ s.fillSum = t.fillSum
  BY QuietSettles DEF Quiet, Settles
<1>2. Unreported(a) /\ a.state = t.state
  BY <1>1, SetOidOK
<1>3. a.oid = t.oid => a.fillSum >= t.fillSum
  <2>1. t.fillSum \in Int /\ (a.oid = s.oid => a = s)
    BY <1>1 DEF SetOid, Unreported, Tracked
  <2>. QED
    BY <1>1, <2>1
<1>. HIDE DEF a
<1>4. Settles(a, r) /\ r.oid = a.oid /\ (status = "open" /\ IsLive(a) => IsLive(r))
  BY <1>2, ApplyVenueStatusOK
<1>. HIDE DEF r
<1>5. Settles(t, r)
  BY <1>2, <1>3, <1>4, SettlesTwice
<1>6. Step(t, Emit(r))
  BY <1>5, EmitStep
<1>7. Emit(r).state = r.state
  BY <1>5 DEF Emit, Settles, Unreported, Tracked
<1>8. status = "open" /\ IsLive(t) => IsLive(Emit(r))
  BY <1>2, <1>4, <1>7 DEF IsLive
<1>. QED
  BY <1>6, <1>8 DEF a, r

\* An entry is a quiet change of itself.
LEMMA QuietSelf ==
  ASSUME NEW t, Unreported(t)
  PROVE  Quiet(t, t)
  BY DEF Quiet, Unreported

\* reconcile(): an answer about a known order.
LEMMA StatusAnswerStep ==
  ASSUME NEW t, EntryOK(t), IsTracked(t),
         NEW info, info.oid \in Oids \cup {NoOid}, info.status \in UpdateStatuses, info.origSz \in Nat
  PROVE  Step(t, ApplyStatusAnswer(t, info))
<1>. DEFINE s == [t EXCEPT !.notFoundProbes = 0]
<1>1. Unreported(t) /\ Quiet(t, s)
  BY OpenUp, ProbesAssumption DEF Quiet, EntryOK, Tracked
<1>. HIDE DEF s
<1>2. Step(t, s)
  BY <1>1, QuietStep
<1>3. Step(t, Emit(ApplyVenueStatus(SetOid(s, info.oid), info.status, info.origSz)))
  BY <1>1, StatusStep
<1>. QED
  BY <1>2, <1>3 DEF ApplyStatusAnswer, s

\* A new order that is refused.
LEMMA RejectOK ==
  ASSUME NEW t, Unreported(t), t.state = "PendingNew"
  PROVE  Settles(t, [t EXCEPT !.state = "Rejected"])
<1>. DEFINE r == [t EXCEPT !.state = "Rejected"]
<1>1. r \in Tracked /\ r.state = "Rejected" /\ r.oid = t.oid /\ r.fillSum = t.fillSum
      /\ r.ackFilledSz = t.ackFilledSz /\ r.filledSz = t.filledSz
      /\ r.modifyPending = t.modifyPending
  BY DEF Unreported, Tracked, EntryStates, OrderStates, TerminalStates
<1>. HIDE DEF r
<1>2. FillsOK(r)
  BY <1>1 DEF Unreported, FillsOK
<1>3. "Rejected" \in OrderStates /\ "Rejected" \in TerminalStates /\ StateStep(t.state, "Rejected")
  BY DEF StateStep, OrderStates, TerminalStates
<1>4. Settles(t, r)
  BY <1>1, <1>2, <1>3, KeepsFields
<1>. QED
  BY <1>4 DEF r

\* reconcile(): the venue does not know the order.
LEMMA NotFoundStep ==
  ASSUME NEW t, EntryOK(t), IsTracked(t)
  PROVE  Step(t, ApplyNotFound(t))
<1>1. CASE t.state # "PendingNew"
  BY <1>1, NoStep DEF ApplyNotFound
<1>2. CASE t.state = "PendingNew" /\ t.notFoundProbes < NotFoundProbes
  <2>. DEFINE r == [t EXCEPT !.notFoundProbes = @ + 1]
  <2>1. t.notFoundProbes + 1 \in 0 .. NotFoundProbes
    BY <1>2, ProbesAssumption DEF EntryOK, Tracked
  <2>2. Quiet(t, r)
    BY <2>1 DEF Quiet, EntryOK, Tracked
  <2>3. ApplyNotFound(t) = r
    BY <1>2 DEF ApplyNotFound
  <2>. QED
    BY <2>2, <2>3, QuietStep
<1>3. CASE t.state = "PendingNew" /\ ~(t.notFoundProbes < NotFoundProbes)
  <2>1. ApplyNotFound(t) = Emit([t EXCEPT !.state = "Rejected"])
    BY <1>3 DEF ApplyNotFound
  <2>. QED
    BY <1>3, <2>1, OpenUp, RejectOK, EmitStep
<1>. QED
  BY <1>1, <1>2, <1>3

\* reconcileAmended() and reconcileAll(): a listed order that is live stays so.
LEMMA ListedStep ==
  ASSUME NEW t, EntryOK(t), IsTracked(t), NEW open, open.oid \in Oids, open.origSz \in Nat
  PROVE  /\ Step(t, ApplyListed(t, open))
         /\ IsLive(t) => IsLive(ApplyListed(t, open))
<1>1. Unreported(t) /\ Quiet(t, t) /\ "open" \in UpdateStatuses
  BY OpenUp, QuietSelf DEF UpdateStatuses
<1>. QED
  BY <1>1, StatusStep DEF ApplyListed

\* What the listing says is filled is accounted for.
LEMMA SeedFilledOK ==
  ASSUME NEW t, Unreported(t), NEW filled \in Nat
  PROVE  LET r == SeedFilled(t, filled)
         IN  Unreported(r) /\ r.state = t.state /\ r.oid = t.oid
<1>1. CASE filled = 0
  BY <1>1 DEF SeedFilled
<1>2. CASE filled # 0
  <2>. DEFINE a == [t EXCEPT !.fillSum = filled, !.ackFilledSz = filled]
  <2>1. a \in Tracked /\ a.state = t.state /\ a.oid = t.oid /\ a.modifyPending = t.modifyPending
    BY Zenon DEF Unreported, Tracked
  <2>2. SeedFilled(t, filled) = RecomputeFills(a)
    BY <1>2 DEF SeedFilled
  <2>. HIDE DEF a
  <2>3. IsTracked(RecomputeFills(a))
    BY <2>1, RecomputeOK DEF Unreported, IsTracked
  <2>. QED
    BY <2>1, <2>2, <2>3, RecomputeOK DEF Unreported
<1>. QED
  BY <1>1, <1>2

\* adoptFromListing(): a terminal entry that rests under another oid.
LEMMA ReviveStep ==
  ASSUME NEW t, EntryOK(t), IsTerminal(t),
         NEW open, open.oid \in Oids, open.origSz \in Nat, open.filled \in Nat, t.oid # open.oid
  PROVE  Step(t, Revive(t, open))
<1>. DEFINE a == [t EXCEPT !.state = "Open"]
            b == SetOid(a, open.oid)
            s == SeedFilled(b, open.filled)
            r == ApplyVenueStatus(s, "open", open.origSz)
<1>0. open.oid # NoOid /\ "open" \in UpdateStatuses
  BY OidsAssumption DEF NoOid, UpdateStatuses
<1>1. Unreported(a) /\ a.state = "Open"
  <2>1. a \in Tracked /\ a.state = "Open" /\ a.oid = t.oid /\ a.fillSum = t.fillSum
        /\ a.ackFilledSz = t.ackFilledSz /\ a.filledSz = t.filledSz
        /\ a.modifyPending = t.modifyPending
    BY DEF EntryOK, Tracked, EntryStates, OrderStates, LiveStates
  <2>2. FillsOK(a)
    BY <2>1 DEF EntryOK, FillsOK
  <2>3. IsTracked(a)
    BY <2>1 DEF IsTracked
  <2>4. a.modifyPending => a.oid # NoOid
    BY <2>1 DEF EntryOK
  <2>. QED
    BY <2>1, <2>2, <2>3, <2>4 DEF Unreported
<1>. HIDE DEF a
<1>2. Unreported(b) /\ b.state = "Open" /\ b.oid = open.oid
  BY <1>0, <1>1, SetOidOK
<1>. HIDE DEF b
<1>3. Unreported(s) /\ s.state = "Open" /\ s.oid = open.oid
  BY <1>2, SeedFilledOK
<1>. HIDE DEF s
<1>4. Settles(s, r) /\ r.oid = open.oid /\ IsLive(r) /\ r.state \in {"Open", "PartiallyFilled"}
  <2>1. Settles(s, r) /\ r.oid = open.oid /\ IsLive(r)
    BY <1>0, <1>3, ApplyVenueStatusOK DEF IsLive, LiveStates
  <2>2. r.state \in {"Open", "PartiallyFilled"}
    BY <1>3, <2>1 DEF Settles, StateStep, IsLive, LiveStates, TerminalStates, OrderStates
  <2>. QED
    BY <2>1, <2>2
<1>5. Revive(t, open) = Emit(r)
  BY DEF Revive, a, b, s
<1>. HIDE DEF r
<1>6. EntryOK(Emit(r)) /\ Emit(r).state = r.state /\ Emit(r).oid = r.oid
  BY <1>4, EmitOK DEF Settles, Emit, Unreported, Tracked
<1>7. StateStep(t.state, r.state)
  BY <1>4 DEF StateStep, IsTerminal
<1>. QED
  BY <1>4, <1>5, <1>6, <1>7 DEF Step

\* track(): a fresh entry.
LEMMA TrackOK ==
  ASSUME NEW external \in BOOLEAN, NEW sz \in Nat
  PROVE  LET r == Track(external, sz)
         IN  EntryOK(r) /\ Unreported(r) /\ r.state = "PendingNew" /\ r.oid = NoOid
             /\ r.modifyPending = FALSE
<1>. DEFINE r == Track(external, sz)
<1>1. Untracked \in Tracked
  BY UntrackedOK DEF EntryOK
<1>2. r \in Tracked /\ r.state = "PendingNew" /\ r.oid = NoOid /\ r.filledSz = 0 /\ r.fillSum = 0
      /\ r.ackFilledSz = 0 /\ r.modifyPending = FALSE /\ r.told = Untracked.told
  <2>1. r \in Tracked
    BY <1>1, Zenon DEF Track, Tracked, EntryStates, OrderStates, LiveStates
  <2>. QED
    BY <2>1 DEF Track, Untracked
<1>. HIDE DEF r
<1>3. FillsOK(r) /\ InformedOK(r) /\ IsTracked(r)
  BY <1>2 DEF FillsOK, InformedOK, IsTracked
<1>4. EntryOK(r) /\ Unreported(r) /\ r.state = "PendingNew" /\ r.oid = NoOid
      /\ r.modifyPending = FALSE
  BY <1>2, <1>3 DEF EntryOK, Unreported
<1>. QED
  BY <1>4 DEF r

\* placeOrders() on a cloid that has no entry.
LEMMA TrackStep ==
  ASSUME NEW t, ~IsTracked(t), NEW sz \in Nat
  PROVE  Step(t, Track(FALSE, sz))
<1>1. StateStep(t.state, "PendingNew") /\ ~IsTerminal(t)
  BY DEF StateStep, IsTracked, IsTerminal, TerminalStates, OrderStates, LiveStates
<1>. QED
  BY <1>1, TrackOK, Zenon DEF Step

\* adoptFromListing(): an order the table does not know.
LEMMA AdoptStep ==
  ASSUME NEW t, ~IsTracked(t), NEW external \in BOOLEAN,
         NEW open, open.oid \in Oids, open.origSz \in Nat, open.filled \in Nat
  PROVE  Step(t, Adopt(open, external))
<1>. DEFINE s == SeedFilled(Track(external, open.origSz), open.filled)
            a == [s EXCEPT !.state = RestingState(s)]
            r == SetOid(a, open.oid)
<1>1. Unreported(s)
  BY Zenon, TrackOK, SeedFilledOK
<1>2. Adopt(open, external) = Emit(r)
  BY DEF Adopt
<1>. HIDE DEF s
<1>3. RestingState(s) \in {"Open", "PartiallyFilled"}
  BY DEF RestingState
<1>4. Unreported(a)
  <2>1. a \in Tracked /\ a.state = RestingState(s) /\ a.oid = s.oid /\ a.fillSum = s.fillSum
        /\ a.ackFilledSz = s.ackFilledSz /\ a.filledSz = s.filledSz
        /\ a.modifyPending = s.modifyPending
    BY <1>1, <1>3 DEF Unreported, Tracked, EntryStates, OrderStates, LiveStates
  <2>2. FillsOK(a) /\ IsTracked(a)
    BY <1>1, <1>3, <2>1 DEF Unreported, FillsOK, IsTracked
  <2>3. a.modifyPending => a.oid # NoOid
    BY <1>1, <2>1 DEF Unreported
  <2>. QED
    BY <2>1, <2>2, <2>3 DEF Unreported
<1>. HIDE DEF a
<1>5. Unreported(r)
  BY <1>4, SetOidOK
<1>. HIDE DEF r
<1>6. EntryOK(Emit(r)) /\ Emit(r).state = r.state /\ r.state \in OrderStates
  BY <1>5, EmitOK DEF Emit, Unreported, Tracked, IsTracked, EntryStates
<1>7. StateStep(t.state, r.state) /\ ~IsTerminal(t)
  BY <1>6 DEF StateStep, IsTracked, IsTerminal, TerminalStates
<1>. QED
  BY <1>2, <1>6, <1>7 DEF Step

\* armEviction(): a terminal entry is dropped.
LEMMA EvictStep ==
  ASSUME NEW t, IsTerminal(t)
  PROVE  Step(t, Untracked)
<1>1. Untracked.state = "Untracked"
  BY DEF Untracked
<1>2. ~IsTracked(Untracked) /\ ~IsLive(Untracked) /\ StateStep(t.state, Untracked.state)
  BY <1>1 DEF IsTracked, IsLive, LiveStates, StateStep, IsTerminal
<1>. QED
  BY <1>2, UntrackedOK DEF Step

-----------------------------------------------------------------------------
(***************************************************************************)
(* Results of actions.                                                     *)
(***************************************************************************)

\* An action refused as a whole takes no verdict back.
LEMMA RefusedOK ==
  ASSUME NEW t, Unreported(t), NEW p, p.kind \in Kinds, NEW transport \in BOOLEAN
  PROVE  Settles(t, Refused(t, p, transport))
<1>1. Settles(t, t)
  BY QuietSelf, QuietSettles
<1>2. CASE p.kind = "Order"
  <2>1. Refused(t, p, transport) = IF transport THEN t ELSE RejectIfNew(t)
    BY <1>2 DEF Refused
  <2>2. Settles(t, RejectIfNew(t))
    BY <1>1, RejectOK DEF RejectIfNew
  <2>. QED
    BY <1>1, <2>1, <2>2
<1>3. CASE p.kind = "Cancel"
  <2>1. Refused(t, p, transport) = [t EXCEPT !.cancelPending = FALSE]
    BY <1>3 DEF Refused
  <2>2. Quiet(t, [t EXCEPT !.cancelPending = FALSE])
    BY Zenon DEF Quiet, Unreported, Tracked
  <2>. QED
    BY <2>1, <2>2, QuietSettles
<1>4. CASE p.kind = "Modify"
  <2>1. Refused(t, p, transport) = [t EXCEPT !.modifyPending = FALSE]
    BY <1>4 DEF Refused
  <2>2. Quiet(t, [t EXCEPT !.modifyPending = FALSE])
    BY Zenon DEF Quiet, Unreported, Tracked
  <2>. QED
    BY <2>1, <2>2, QuietSettles
<1>5. CASE p.kind = "Other"
  BY <1>1, <1>5 DEF Refused
<1>. QED
  BY <1>2, <1>3, <1>4, <1>5 DEF Kinds

\* A cancel acknowledged by the venue.
LEMMA CanceledOK ==
  ASSUME NEW t, Unreported(t), NEW w, w = t.state \/ (w = "Canceled" /\ ~IsTerminal(t)),
         NEW r, r = [t EXCEPT !.cancelPending = FALSE, !.state = w]
  PROVE  Settles(t, r)
<1>1. t.state \in OrderStates /\ w \in OrderStates /\ w \in EntryStates
  BY DEF Unreported, Tracked, IsTracked, EntryStates, OrderStates, TerminalStates
<1>2. r \in Tracked /\ r.state = w /\ r.oid = t.oid /\ r.fillSum = t.fillSum
      /\ r.ackFilledSz = t.ackFilledSz /\ r.filledSz = t.filledSz
      /\ r.modifyPending = t.modifyPending
  BY <1>1, Zenon DEF Unreported, Tracked
<1>3. StateStep(t.state, w) /\ (IsTerminal(t) => w \in TerminalStates)
  BY <1>1 DEF StateStep, IsTerminal, OrderStates, LiveStates, TerminalStates
<1>4. FillsOK(r)
  BY <1>2 DEF Unreported, FillsOK
<1>. QED
  BY Zenon, <1>1, <1>2, <1>3, <1>4, KeepsFields

\* A modify acknowledged by the venue.
LEMMA ModifiedOK ==
  ASSUME NEW t, Unreported(t), NEW sz \in Nat, NEW st \in AckStatuses
  PROVE  LET r == [[t EXCEPT !.modifyPending = FALSE] EXCEPT !.origSz = sz]
             n == IF st.oid # NoOid /\ st.oid # t.oid
                    THEN SetOid(IF t.oid # NoOid THEN RetireOid(r) ELSE r, st.oid)
                    ELSE r
         IN  Settles(t, ApplyAck([n EXCEPT !.canceledDuringModify = FALSE], st))
<1>. DEFINE r == [[t EXCEPT !.modifyPending = FALSE] EXCEPT !.origSz = sz]
            m == IF t.oid # NoOid THEN RetireOid(r) ELSE r
            n == IF st.oid # NoOid /\ st.oid # t.oid THEN SetOid(m, st.oid) ELSE r
            k == [n EXCEPT !.canceledDuringModify = FALSE]
            z == ApplyAck(k, st)
<1>0. st.oid \in Oids \cup {NoOid} /\ t.fillSum \in Int
  BY DEF AckStatuses, Unreported, Tracked
<1>1. Unreported(r) /\ r.state = t.state /\ r.oid = t.oid /\ r.fillSum = t.fillSum
  <2>1. Quiet(t, r)
    BY Zenon DEF Quiet, Unreported, Tracked
  <2>. QED
    BY <2>1, QuietSettles, Zenon DEF Quiet, Settles
<1>. HIDE DEF r
<1>2. Unreported(m) /\ m.state = t.state /\ m.oid = t.oid
  BY <1>1, RetireOidOK
<1>. HIDE DEF m
<1>3. Unreported(n) /\ n.state = t.state /\ (n.oid = t.oid => n.fillSum = t.fillSum)
  BY <1>0, <1>1, <1>2, SetOidOK
<1>4. n.oid # t.oid => n.oid = st.oid
  BY <1>0, <1>1, <1>2, SetOidOK
<1>5. st.oid # NoOid /\ st.oid # t.oid => n.oid = st.oid
  BY <1>0, <1>2, SetOidOK
<1>. HIDE DEF n
<1>6. Unreported(k) /\ k.state = n.state /\ k.oid = n.oid /\ k.fillSum = n.fillSum
  <2>1. Quiet(n, k)
    BY <1>3, Zenon DEF Quiet, Unreported, Tracked
  <2>. HIDE DEF k
  <2>. QED
    BY <1>3, <2>1, QuietSettles DEF Quiet, Settles
<1>. HIDE DEF k
<1>7. Settles(k, z)
  BY <1>6, ApplyAckOK
<1>8. z.oid = k.oid \/ z.oid = st.oid
  <2>1. st.kind \in AckKinds
    BY DEF AckStatuses
  <2>2. SetOid(k, st.oid).oid \in {k.oid, st.oid} /\ SetOid(k, st.oid) \in Tracked
    BY <1>0, <1>6, SetOidOK DEF Unreported
  <2>3. CASE st.kind = "resting"
    BY <2>2, <2>3 DEF ApplyAck, Tracked
  <2>4. CASE st.kind = "filled"
    BY <2>2, <2>4, Zenon DEF ApplyAck, RecomputeFills, Tracked
  <2>5. CASE st.kind \in {"success", "error"}
    BY <1>6, <2>5 DEF ApplyAck, Unreported, Tracked
  <2>. QED
    BY <2>1, <2>3, <2>4, <2>5 DEF AckKinds
<1>. HIDE DEF z
<1>9. z.oid = t.oid => z.fillSum >= t.fillSum
  <2>. SUFFICES ASSUME z.oid = t.oid
                PROVE  z.fillSum >= t.fillSum
    OBVIOUS
  <2>1. n.oid = t.oid
    BY <1>4, <1>5, <1>6, <1>8
  <2>. QED
    BY <1>0, <1>3, <1>6, <1>7, <2>1 DEF Settles
<1>10. Settles(t, z)
  BY <1>3, <1>6, <1>7, <1>9 DEF Settles, IsTerminal
<1>. QED
  BY <1>10 DEF r, m, n, k, z

\* completeAction(): what the result of an action does to one of its entries.
LEMMA AfterResultStep ==
  ASSUME NEW t, EntryOK(t), NEW p, p.kind \in Kinds, p.sz \in Nat, NEW res \in ActionResults,
         NEW i \in Nat \ {0}
  PROVE  Step(t, AfterResult(t, p, i, res))
<1>. DEFINE out == OutcomeOf(i, res)
<1>0. out \in {"failed", "empty", "status", "all", "short"}
  BY DEF OutcomeOf
<1>1. CASE ~IsTracked(t) \/ out \in {"empty", "short"}
  <2>1. AfterResult(t, p, i, res) = t
    BY <1>1, Zenon DEF AfterResult
  <2>. QED
    BY <2>1, NoStep
<1>2. CASE IsTracked(t) /\ out \in {"failed", "all"}
  <2>1. PICK b \in BOOLEAN : AfterResult(t, p, i, res) = Emit(Refused(t, p, b))
    <3>1. res.transport \in BOOLEAN
      BY DEF ActionResults
    <3>2. CASE out = "failed"
      BY <1>2, <3>1, <3>2 DEF AfterResult
    <3>3. CASE out = "all"
      BY <1>2, <3>3, Zenon DEF AfterResult
    <3>. QED
      BY <1>2, <3>2, <3>3
  <2>. QED
    BY <1>2, <2>1, OpenUp, RefusedOK, EmitStep
<1>3. CASE IsTracked(t) /\ out = "status"
  <2>. DEFINE st == res.statuses[i]
  <2>1. AfterResult(t, p, i, res) = Emit(Answered(t, p, st))
    BY <1>3 DEF AfterResult
  <2>2. st \in AckStatuses
    <3>1. i <= Len(res.statuses) /\ res.statuses \in Seq(AckStatuses)
      BY <1>3 DEF OutcomeOf, ActionResults
    <3>. QED
      BY <3>1, ElementOfSeq, LenProperties
  <2>3. Unreported(t) /\ Settles(t, t)
    BY <1>3, OpenUp, QuietSelf, QuietSettles
  <2>. HIDE DEF st
  <2>4. CASE p.kind = "Order"
    BY <2>1, <2>2, <2>3, <2>4, ApplyAckOK, EmitStep DEF Answered
  <2>5. CASE p.kind = "Cancel"
    <3>. DEFINE w == IF st.kind = "success" /\ ~IsTerminal(t) THEN "Canceled" ELSE t.state
    <3>1. Answered(t, p, st) = [t EXCEPT !.cancelPending = FALSE, !.state = w]
      BY <2>5 DEF Answered
    <3>2. w = t.state \/ (w = "Canceled" /\ ~IsTerminal(t))
      OBVIOUS
    <3>. HIDE DEF w
    <3>3. Settles(t, Answered(t, p, st))
      BY Zenon, <2>3, <3>1, <3>2, CanceledOK
    <3>. QED
      BY <2>1, <3>3, EmitStep
  <2>6. CASE p.kind = "Modify"
    <3>1. CASE st.kind = "error"
      <4>1. Answered(t, p, st) = [t EXCEPT !.modifyPending = FALSE]
        BY <2>6, <3>1 DEF Answered
      <4>2. Quiet(t, [t EXCEPT !.modifyPending = FALSE])
        BY <2>3, Zenon DEF Quiet, Unreported, Tracked
      <4>. QED
        BY <2>1, <2>3, <4>1, <4>2, QuietSettles, EmitStep
    <3>2. CASE st.kind # "error"
      <4>. DEFINE r == [[t EXCEPT !.modifyPending = FALSE] EXCEPT !.origSz = p.sz]
                  n == IF st.oid # NoOid /\ st.oid # t.oid
                         THEN SetOid(IF t.oid # NoOid THEN RetireOid(r) ELSE r, st.oid)
                         ELSE r
      <4>1. Answered(t, p, st) = ApplyAck([n EXCEPT !.canceledDuringModify = FALSE], st)
        BY <2>6, <3>2 DEF Answered
      <4>2. Settles(t, ApplyAck([n EXCEPT !.canceledDuringModify = FALSE], st))
        BY Zenon, <2>2, <2>3, ModifiedOK
      <4>. HIDE DEF n
      <4>. QED
        BY <2>1, <4>1, <4>2, EmitStep
    <3>. QED
      BY <3>1, <3>2
  <2>7. CASE p.kind = "Other"
    BY <2>1, <2>3, <2>7, EmitStep DEF Answered
  <2>. QED
    BY <2>4, <2>5, <2>6, <2>7 DEF Kinds
<1>. QED
  BY <1>0, <1>1, <1>2, <1>3

\* onOrderUpdates on an order nobody here placed: track() reuses the entry that
\* already has the key.
LEMMA ExternalUpdateStep ==
  ASSUME NEW t, EntryOK(t),
         NEW u, u.oid \in Oids, u.status \in UpdateStatuses, u.origSz \in Nat
  PROVE  Step(t, ApplyUpdate(TrackExternal(t, u), u))
<1>. DEFINE a == IF IsTracked(t) THEN [t EXCEPT !.external = TRUE, !.origSz = u.origSz]
                 ELSE Track(TRUE, u.origSz)
            b == SetOid(a, u.oid)
            r == ApplyUpdate(b, u)
<1>. SUFFICES Step(t, r)
  BY Zenon DEF TrackExternal
<1>0. u.oid # NoOid
  BY OidsAssumption DEF NoOid
<1>1. /\ Unreported(a)
      /\ a.state = IF IsTracked(t) THEN t.state ELSE "PendingNew"
      /\ a.oid = t.oid
      /\ IsTracked(t) => a.fillSum = t.fillSum
      /\ a.told.state = a.state \/ (a.state = "PendingNew" /\ a.told = Untracked.told)
      /\ a.external
  <2>1. CASE IsTracked(t)
    <3>. DEFINE k == [t EXCEPT !.external = TRUE, !.origSz = u.origSz]
    <3>1. k \in Tracked /\ k.state = t.state /\ k.oid = t.oid /\ k.fillSum = t.fillSum
          /\ k.ackFilledSz = t.ackFilledSz /\ k.filledSz = t.filledSz
          /\ k.modifyPending = t.modifyPending /\ k.told = t.told /\ k.external
      BY Zenon DEF EntryOK, Tracked
    <3>2. a = k
      BY <2>1
    <3>. HIDE DEF k, a
    <3>3. FillsOK(k) /\ IsTracked(k)
      BY <2>1, <3>1 DEF EntryOK, FillsOK, IsTracked
    <3>. QED
      BY <2>1, <3>1, <3>2, <3>3 DEF Unreported, EntryOK, InformedOK
  <2>2. CASE ~IsTracked(t)
    <3>1. a = Track(TRUE, u.origSz)
      BY <2>2
    <3>2. Unreported(a) /\ a.state = "PendingNew" /\ a.oid = NoOid
      BY Zenon, <3>1, TrackOK
    <3>3. a.told = Untracked.told /\ a.external
      BY <3>1, Zenon DEF Track, Untracked
    <3>. QED
      BY <2>2, <3>2, <3>3, Zenon DEF EntryOK
  <2>. QED
    BY Zenon, <2>1, <2>2
<1>. HIDE DEF a
<1>2. /\ Unreported(b) /\ b.state = a.state /\ b.oid = u.oid /\ b.told = a.told /\ b.external
      /\ b.oid = a.oid => b.fillSum = a.fillSum
  <2>1. Unreported(b) /\ b.state = a.state /\ b.oid = u.oid
    BY <1>0, <1>1, SetOidOK
  <2>2. b.told = a.told /\ b.external = a.external
    BY <1>1, Zenon DEF SetOid, Unreported, Tracked
  <2>3. b.oid = a.oid => b = a
    BY <2>1 DEF SetOid
  <2>. QED
    BY <1>1, <2>1, <2>2, <2>3
<1>3. Quiet(b, r) \/ \E s : r = Emit(s) /\ Settles(b, s) /\ s.oid = u.oid
  BY <1>2, ApplyUpdateOK
<1>. HIDE DEF b
<1>. HIDE DEF r
<1>4. t.fillSum \in Int /\ a.fillSum \in Int /\ b.fillSum \in Int
  BY <1>1, <1>2 DEF Unreported, EntryOK, Tracked
<1>5. a.state = t.state \/ (t.state = "Untracked" /\ a.state = "PendingNew")
  BY <1>1 DEF IsTracked
<1>6. CASE Quiet(b, r)
  <2>1. EntryOK(r)
    BY <1>1, <1>2, <1>6 DEF Quiet, Unreported, EntryOK, FillsOK, InformedOK, IsTracked
  <2>2. StateStep(t.state, r.state)
    BY <1>2, <1>5, <1>6 DEF Quiet, StateStep, OrderStates, LiveStates
  <2>3. ~(IsTerminal(t) /\ IsLive(r))
    BY <1>2, <1>5, <1>6 DEF Quiet, IsTerminal, IsLive, TerminalStates, LiveStates
  <2>4. IsTracked(t) /\ r.oid = t.oid => r.fillSum >= t.fillSum
    <3>. SUFFICES ASSUME IsTracked(t), r.oid = t.oid
                  PROVE  r.fillSum >= t.fillSum
      OBVIOUS
    <3>1. r.fillSum = t.fillSum
      BY <1>1, <1>2, <1>6 DEF Quiet
    <3>. QED
      BY <1>4, <3>1
  <2>. QED
    BY <2>1, <2>2, <2>3, <2>4 DEF Step
<1>7. CASE \E s : r = Emit(s) /\ Settles(b, s) /\ s.oid = u.oid
  <2>1. PICK s : r = Emit(s) /\ Settles(b, s) /\ s.oid = u.oid
    BY <1>7
  <2>2. EntryOK(r) /\ r.state = s.state /\ r.oid = s.oid /\ r.fillSum = s.fillSum
    BY <2>1, EmitOK DEF Settles, Unreported, Tracked, Emit
  <2>3. StateStep(t.state, r.state)
    <3>1. CASE a.state = t.state
      BY <1>2, <2>1, <2>2, <3>1 DEF Settles
    <3>2. CASE t.state = "Untracked"
      BY <2>1, <2>2, <3>2 DEF Settles, Unreported, Tracked, IsTracked, EntryStates, StateStep
    <3>. QED
      BY <1>5, <3>1, <3>2
  <2>4. ~(IsTerminal(t) /\ IsLive(r))
    BY <1>2, <1>5, <2>1, <2>2 DEF Settles, IsTerminal, IsLive, TerminalStates, LiveStates
  <2>5. IsTracked(t) /\ r.oid = t.oid => r.fillSum >= t.fillSum
    <3>. SUFFICES ASSUME IsTracked(t), r.oid = t.oid
                  PROVE  r.fillSum >= t.fillSum
      OBVIOUS
    <3>1. b.fillSum = t.fillSum /\ s.oid = b.oid
      BY <1>1, <1>2, <2>1, <2>2
    <3>. QED
      BY <1>4, <2>1, <2>2, <3>1 DEF Settles
  <2>. QED
    BY <2>2, <2>3, <2>4, <2>5 DEF Step
<1>. QED
  BY <1>3, <1>6, <1>7

=============================================================================
