----------------------------- MODULE OrderTable -----------------------------
(***************************************************************************)
(* One entry of ExchangeClient's order table (struct Tracked) and the      *)
(* functions that change it.  Each operator below maps an entry to the     *)
(* entry the C++ function leaves behind; the handlers that call them, the  *)
(* oid index and everything that crosses the network are in                *)
(* ExchangeClient.                                                         *)
(*                                                                         *)
(* Prices, coins, tif, triggers, error texts and time stamps are stored    *)
(* and reported by the code but never decide a transition, so an entry     *)
(* keeps only sizes (naturals), the oid, the state and the flags.          *)
(***************************************************************************)
EXTENDS Integers, Sequences

CONSTANTS
  Oids,            \* exchange order ids; the venue issues them in increasing order
  NotFoundProbes,  \* kNotFoundProbes
  MaxRetired       \* how many replaced oids an entry remembers

ASSUME OidsAssumption    == Oids \subseteq Nat \ {0}
ASSUME ProbesAssumption  == NotFoundProbes \in Nat
ASSUME RetiredAssumption == MaxRetired \in Nat \ {0}

NoOid == 0

LiveStates     == {"PendingNew", "Open", "PartiallyFilled"}
TerminalStates == {"Filled", "Canceled", "Rejected"}
OrderStates    == LiveStates \cup TerminalStates

\* "Untracked" stands for a cloid that has no entry in orders_.
EntryStates == OrderStates \cup {"Untracked"}

\* What onOrderUpdate last told the listener (struct Emitted).
Views == [state : EntryStates, oid : Oids \cup {NoOid}, filledSz : Nat]

Tracked ==
  [ state                : EntryStates,
    oid                  : Oids \cup {NoOid},
    origSz               : Nat,
    filledSz             : Nat,
    fillSum              : Nat,      \* sum of the userFills counted so far
    ackFilledSz          : Nat,      \* what an acknowledgement or a status said is filled
    cancelPending        : BOOLEAN,
    modifyPending        : BOOLEAN,
    canceledDuringModify : BOOLEAN,
    external             : BOOLEAN,
    retiredOids          : Seq(Oids),
    notFoundProbes       : 0 .. NotFoundProbes,
    told                 : Views ]

Untracked ==
  [ state                |-> "Untracked",
    oid                  |-> NoOid,
    origSz               |-> 0,
    filledSz             |-> 0,
    fillSum              |-> 0,
    ackFilledSz          |-> 0,
    cancelPending        |-> FALSE,
    modifyPending        |-> FALSE,
    canceledDuringModify |-> FALSE,
    external             |-> FALSE,
    retiredOids          |-> << >>,
    notFoundProbes       |-> 0,
    told                 |-> [state |-> "Untracked", oid |-> NoOid, filledSz |-> 0] ]

IsTracked(t)  == t.state # "Untracked"
IsTerminal(t) == t.state \in TerminalStates
IsLive(t)     == t.state \in LiveStates

\* track(): a fresh entry, waiting for its acknowledgement.
Track(external, sz) ==
  [Untracked EXCEPT !.state = "PendingNew", !.origSz = sz, !.external = external]

-----------------------------------------------------------------------------
(***************************************************************************)
(* Messages that describe one order.                                       *)
(***************************************************************************)

UpdateStatuses == {"open", "triggered", "filled", "canceled", "rejected", "unknown"}

AckKinds == {"resting", "filled", "success", "error"}

\* One element of a response's `statuses`; "success" also stands for
\* waitingForFill and waitingForTrigger.
AckStatuses == [kind : AckKinds, oid : Oids \cup {NoOid}, totalSz : Nat]

-----------------------------------------------------------------------------

\* Mutant: the two sources are added up instead of compared.
SummedFills(t) == [t EXCEPT !.filledSz = t.fillSum + t.ackFilledSz]

RecomputeFills(t) ==
  [t EXCEPT !.filledSz = IF t.fillSum > t.ackFilledSz THEN t.fillSum ELSE t.ackFilledSz]

\* Mutants: the size shown survives the old generation; the same oid counts as a
\* new one.
KeepingFilledSz(t, oid) ==
  IF oid = NoOid \/ oid = t.oid THEN t
  ELSE IF t.oid = NoOid         THEN [t EXCEPT !.oid = oid]
  ELSE [t EXCEPT !.oid = oid, !.fillSum = 0, !.ackFilledSz = 0]
RestartingSums(t, oid) ==
  IF oid = NoOid        THEN t
  ELSE IF t.oid = NoOid THEN [t EXCEPT !.oid = oid]
  ELSE [t EXCEPT !.oid = oid, !.fillSum = 0, !.ackFilledSz = 0, !.filledSz = 0]

\* A different oid under the same cloid is another generation of the order:
\* its fill accounting starts from nothing.
SetOid(t, oid) ==
  IF oid = NoOid \/ oid = t.oid THEN t
  ELSE IF t.oid = NoOid         THEN [t EXCEPT !.oid = oid]
  ELSE [t EXCEPT !.oid = oid, !.fillSum = 0, !.ackFilledSz = 0, !.filledSz = 0]

RetireOid(t) ==
  LET all == Append(t.retiredOids, t.oid)
  IN  [t EXCEPT !.retiredOids = IF Len(all) > MaxRetired THEN Tail(all) ELSE all]

Emit(t) ==
  [t EXCEPT !.told = [state |-> t.state, oid |-> t.oid, filledSz |-> t.filledSz]]

RestingState(t) == IF t.filledSz = 0 THEN "Open" ELSE "PartiallyFilled"

ApplyAck(t, st) ==
  CASE st.kind = "resting" ->
         LET s == SetOid(t, st.oid)
         IN  IF s.state = "PendingNew" THEN [s EXCEPT !.state = RestingState(s)] ELSE s
    [] st.kind = "filled" ->
         [RecomputeFills([SetOid(t, st.oid) EXCEPT !.ackFilledSz = st.totalSz])
            EXCEPT !.state = "Filled"]
    [] st.kind = "success" ->
         IF t.state = "PendingNew" THEN [t EXCEPT !.state = "Open"] ELSE t
    [] st.kind = "error" ->
         IF t.state = "PendingNew" THEN [t EXCEPT !.state = "Rejected"] ELSE t

\* Mutant: the guard that keeps a verdict is missing.
ForgivingStatus(t, status, origSz) ==
  CASE status \in {"open", "triggered"} ->
         [t EXCEPT !.origSz = IF origSz = 0 THEN @ ELSE origSz, !.state = RestingState(t)]
    [] status = "filled" ->
         [RecomputeFills([t EXCEPT !.ackFilledSz = IF @ < t.origSz THEN t.origSz ELSE @])
            EXCEPT !.state = "Filled", !.cancelPending = FALSE]
    [] status = "canceled" -> [t EXCEPT !.state = "Canceled", !.cancelPending = FALSE]
    [] status = "rejected" -> [t EXCEPT !.state = "Rejected"]
    [] status = "unknown"  -> t

ApplyVenueStatus(t, status, origSz) ==
  CASE IsTerminal(t) /\ status # "filled" ->
         [t EXCEPT !.cancelPending = FALSE]
    [] ~IsTerminal(t) /\ status \in {"open", "triggered"} ->
         [t EXCEPT !.origSz = IF origSz = 0 THEN @ ELSE origSz,
                   !.state  = IF @ \in {"PendingNew", "Open"} THEN RestingState(t) ELSE @]
    [] status = "filled" ->
         [RecomputeFills([t EXCEPT !.ackFilledSz = IF @ < t.origSz THEN t.origSz ELSE @])
            EXCEPT !.state = "Filled", !.cancelPending = FALSE]
    [] ~IsTerminal(t) /\ status = "canceled" ->
         [t EXCEPT !.state = "Canceled", !.cancelPending = FALSE]
    [] ~IsTerminal(t) /\ status = "rejected" ->
         [t EXCEPT !.state = "Rejected"]
    [] ~IsTerminal(t) /\ status = "unknown" -> t

\* What the listing says is already filled becomes the start of the fill sum.
SeedFilled(t, filled) ==
  IF filled = 0 THEN t
  ELSE RecomputeFills([t EXCEPT !.fillSum = filled, !.ackFilledSz = filled])

-----------------------------------------------------------------------------
(***************************************************************************)
(* The effect of one message of each source on the entry it is about.      *)
(***************************************************************************)

\* track() for an order nobody here placed: orders_[cloid] is the entry already
\* there when the key is taken.
TrackExternal(t, u) ==
  SetOid(IF IsTracked(t) THEN [t EXCEPT !.external = TRUE, !.origSz = u.origSz]
         ELSE Track(TRUE, u.origSz), u.oid)

\* Mutant: updates of replaced generations are not told apart.
CredulousUpdate(t, u) ==
  Emit(ApplyVenueStatus(SetOid(t, u.oid), u.status, u.origSz))

\* onOrderUpdates, once the entry has been found or created.
ApplyUpdate(t, u) ==
  LET otherOid == u.oid # NoOid /\ t.oid # NoOid /\ u.oid # t.oid
      stale    == otherOid /\ ( \/ u.oid < t.oid
                                \/ \E i \in DOMAIN t.retiredOids : t.retiredOids[i] = u.oid
                                \/ t.modifyPending /\ u.status \notin {"open", "filled", "triggered"} )
      adopted  == SetOid(IF otherOid /\ t.modifyPending THEN RetireOid(t) ELSE t, u.oid)
  IN  IF stale THEN t
      ELSE IF adopted.modifyPending /\ u.oid = adopted.oid /\ u.status = "canceled"
        THEN [adopted EXCEPT !.canceledDuringModify = TRUE]
        ELSE Emit(ApplyVenueStatus(adopted, u.status, u.origSz))

\* Mutant: the fill is counted but not reported.
SilentFill(t, f) ==
  IF f.oid # NoOid /\ t.oid # NoOid /\ f.oid < t.oid THEN t
  ELSE LET s == IF f.oid # NoOid /\ t.oid # NoOid THEN SetOid(t, f.oid) ELSE t
           r == RecomputeFills([s EXCEPT !.fillSum = @ + f.sz])
       IN  IF IsTerminal(r) THEN r
           ELSE [r EXCEPT !.state = IF r.filledSz >= r.origSz THEN "Filled"
                                    ELSE "PartiallyFilled"]

\* onUserFills, once the fill is known to be new and its entry has been found.
ApplyFill(t, f) ==
  IF f.oid # NoOid /\ t.oid # NoOid /\ f.oid < t.oid THEN t
  ELSE LET s == IF f.oid # NoOid /\ t.oid # NoOid THEN SetOid(t, f.oid) ELSE t
           r == RecomputeFills([s EXCEPT !.fillSum = @ + f.sz])
       IN  Emit(IF IsTerminal(r) THEN r
                ELSE [r EXCEPT !.state = IF r.filledSz >= r.origSz THEN "Filled"
                                         ELSE "PartiallyFilled"])

\* reconcile(): orderStatus answered about an order it knows.
ApplyStatusAnswer(t, info) ==
  LET s == [t EXCEPT !.notFoundProbes = 0]
  IN  IF t.oid # NoOid /\ info.oid # NoOid /\ info.oid # t.oid THEN s
      ELSE Emit(ApplyVenueStatus(SetOid(s, info.oid), info.status, info.origSz))

\* Mutants: one probe too many; the first answer is taken for a verdict.
ProbingPastTheLimit(t) ==
  IF t.state # "PendingNew" THEN t
  ELSE IF t.notFoundProbes <= NotFoundProbes
         THEN [t EXCEPT !.notFoundProbes = @ + 1]
         ELSE Emit([t EXCEPT !.state = "Rejected"])
HastyVerdict(t) ==
  IF t.state # "PendingNew" THEN t ELSE Emit([t EXCEPT !.state = "Rejected"])

\* reconcile(): orderStatus answered that it knows no such order.
ApplyNotFound(t) ==
  IF t.state # "PendingNew" THEN t
  ELSE IF t.notFoundProbes < NotFoundProbes
         THEN [t EXCEPT !.notFoundProbes = @ + 1]
         ELSE Emit([t EXCEPT !.state = "Rejected"])

\* reconcileAmended() and reconcileAll(): the listing shows the order resting.
ApplyListed(t, open) ==
  Emit(ApplyVenueStatus(SetOid(t, open.oid), "open", open.origSz))

\* adoptFromListing(): a terminal entry whose cloid rests under another oid.
Revive(t, open) ==
  Emit(ApplyVenueStatus(SeedFilled(SetOid([t EXCEPT !.state = "Open"], open.oid), open.filled),
                        "open", open.origSz))

\* adoptFromListing(): an order the table does not know.
Adopt(open, external) ==
  LET s == SeedFilled(Track(external, open.origSz), open.filled)
  IN  Emit(SetOid([s EXCEPT !.state = RestingState(s)], open.oid))

-----------------------------------------------------------------------------
(***************************************************************************)
(* The result of an action, for one of the entries the action is about.    *)
(* An action p has a kind and, for a modify, the new size.                 *)
(***************************************************************************)

Kinds == {"Order", "Cancel", "Modify", "Other"}

\* What a response, an HTTP error, a timeout or a lost session makes of an action.
ActionResults == [ok : BOOLEAN, transport : BOOLEAN, statuses : Seq(AckStatuses)]

\* The outcome the response gives for entry i: its status, "failed" when the
\* whole action failed, "all" when one error stands for the whole payload,
\* "short" when the list ends before i and "empty" when there is no list.
OutcomeOf(i, res) ==
  IF ~res.ok                    THEN "failed"
  ELSE IF res.statuses = << >>  THEN "empty"
  ELSE IF i <= Len(res.statuses) THEN "status"
  ELSE IF Len(res.statuses) = 1 /\ res.statuses[1].kind = "error" THEN "all"
  ELSE "short"

RejectIfNew(t) == IF t.state = "PendingNew" THEN [t EXCEPT !.state = "Rejected"] ELSE t

\* Mutant: a failed cancel leaves its flag set.
RefusedStillPending(t, p, transport) ==
  CASE p.kind = "Order"  -> IF transport THEN t ELSE RejectIfNew(t)
    [] p.kind = "Modify" -> [t EXCEPT !.modifyPending = FALSE]
    [] p.kind \in {"Cancel", "Other"} -> t

\* Entry i of action p once the action was refused as a whole.
Refused(t, p, transport) ==
  CASE p.kind = "Order"  -> IF transport THEN t ELSE RejectIfNew(t)
    [] p.kind = "Cancel" -> [t EXCEPT !.cancelPending = FALSE]
    [] p.kind = "Modify" -> [t EXCEPT !.modifyPending = FALSE]
    [] p.kind = "Other"  -> t

\* Entry i of action p once the venue answered `st` for it.
Answered(t, p, st) ==
  CASE p.kind = "Order"  -> ApplyAck(t, st)
    [] p.kind = "Cancel" ->
         [t EXCEPT !.cancelPending = FALSE,
                   !.state = IF st.kind = "success" /\ ~IsTerminal(t) THEN "Canceled" ELSE @]
    [] p.kind = "Modify" ->
         LET s == [t EXCEPT !.modifyPending = FALSE]
             r == [s EXCEPT !.origSz = p.sz]
             n == IF st.oid # NoOid /\ st.oid # t.oid
                    THEN SetOid(IF t.oid # NoOid THEN RetireOid(r) ELSE r, st.oid)
                    ELSE r
         IN  IF st.kind = "error" THEN s
             ELSE ApplyAck([n EXCEPT !.canceledDuringModify = FALSE], st)
    [] p.kind = "Other"  -> t

\* applyActionResult() for entry i of action p.
AfterResult(t, p, i, res) ==
  LET out == OutcomeOf(i, res)
  IN  CASE ~IsTracked(t)             -> t
        [] IsTracked(t) /\ out \in {"empty", "short"} -> t
        [] IsTracked(t) /\ out = "failed" -> Emit(Refused(t, p, res.transport))
        [] IsTracked(t) /\ out = "all"    -> Emit(Refused(t, p, FALSE))
        [] IsTracked(t) /\ out = "status" -> Emit(Answered(t, p, res.statuses[i]))

=============================================================================
