----------------------- MODULE ExchangeClientProofs -----------------------
(***************************************************************************)
(* The properties of ExchangeClient that hold whatever the venue and the   *)
(* network do, proved for every set of orders, oids and messages.          *)
(*                                                                         *)
(* The inductive invariant says that every variable is typed, that every   *)
(* entry is a proper entry (OrderTableProofs) and that the oid index is    *)
(* sound.  Every action takes every entry through a proper step, which is  *)
(* all the action properties and the refinement of OrderLifecycle need.    *)
(***************************************************************************)
EXTENDS ExchangeClientRest

-----------------------------------------------------------------------------
(***************************************************************************)
(* The theorems.                                                           *)
(***************************************************************************)

\* The inductive invariant holds when the client starts.
LEMMA InitIInv == Init => IInv
<1>. SUFFICES ASSUME Init
              PROVE  IInv
  OBVIOUS
<1>1. Untracked \in Tracked /\ EntryOK(Untracked)
  BY UntrackedOK DEF EntryOK
<1>2. TableOK
  BY <1>1 DEF Init, TableOK, IndexSound, CloidOrNone
<1>3. << >> \in Seq(Queries) /\ << >> \in Seq(Nat)
  OBVIOUS
<1>4. RestOK
  BY <1>3, FS_EmptySet DEF Init, RestOK
<1>. QED
  BY <1>2, <1>4 DEF IInv

\* A step of the client, or none, takes every entry through a proper step.
LEMMA BoxStep ==
  ASSUME IInv, [Next]_vars
  PROVE  TableStep /\ IInv'
<1>1. CASE Next
  <2>1. TableStep /\ RestOK'
    BY <1>1, NextStep, NextRest DEF IInv
  <2>2. TableOK'
    BY <2>1 DEF TableStep, TableOK, Step
  <2>. QED
    BY <2>1, <2>2 DEF IInv
<1>2. CASE UNCHANGED vars
  <2>1. TableStep
    BY <1>2, SameTable DEF IInv, vars, tableVars
  <2>2. TableOK'
    BY <2>1 DEF TableStep, TableOK, Step
  <2>3. RestOK'
    BY <1>2 DEF IInv, RestOK, vars
  <2>. QED
    BY <2>1, <2>2, <2>3 DEF IInv
<1>. QED
  BY <1>1, <1>2

\* IInv is an invariant of the client.
THEOREM Invariance == Spec => []IInv
<1>1. IInv /\ [Next]_vars => IInv'
  BY BoxStep
<1>. QED
  BY InitIInv, <1>1, PTL DEF Spec

\* Every variable keeps its type through every operation, message, timer and
\* restart (struct Tracked and the members of ExchangeClient).
THEOREM TypeCorrect == Spec => []TypeOK
<1>1. IInv => TypeOK
  BY DEF IInv, TableOK, RestOK, TypeOK
<1>. QED
  BY Invariance, <1>1, PTL

\* oidIndex_ never resolves an oid to an entry that does not carry it (setOid).
THEOREM IndexIsSound == Spec => []IndexSound
<1>1. IInv => IndexSound
  BY DEF IInv, TableOK
<1>. QED
  BY Invariance, <1>1, PTL

\* The filled size shown is the larger of its two sources (recomputeFills).
THEOREM FillsAreAccounted == Spec => []FillsAccounted
<1>1. IInv => FillsAccounted
  <2>. SUFFICES ASSUME IInv, NEW c \in Cloids
                PROVE  orders[c].filledSz = RecomputeFills(orders[c]).filledSz
    BY DEF FillsAccounted
  <2>. QED
    BY DEF IInv, TableOK, EntryOK, FillsOK, RecomputeFills, Tracked
<1>. QED
  BY Invariance, <1>1, PTL

\* The listener has been told what the table shows (emit).
THEOREM ListenerIsInformed == Spec => []ListenerInformed
<1>1. IInv => ListenerInformed
  BY DEF IInv, TableOK, EntryOK, InformedOK, ListenerInformed
<1>. QED
  BY Invariance, <1>1, PTL

\* No message revives a terminal entry under the oid it ended with (isTerminal
\* checks of applyVenueStatus, applyAck and onUserFills).
THEOREM TerminalIsSticky == Spec => TerminalSticky
<1>. DEFINE A == \A c \in Cloids :
                   IsTerminal(orders[c]) /\ IsLive(orders'[c]) => orders'[c].oid # orders[c].oid
<1>1. IInv /\ [Next]_vars => [A]_vars
  BY BoxStep DEF TableStep, Step
<1>. QED
  BY Invariance, <1>1, PTL DEF Spec, TerminalSticky

\* Fills counted for an oid are never given back while the entry keeps it.
THEOREM FillSumsGrow == Spec => FillSumGrows
<1>. DEFINE A == \A c \in Cloids :
                   /\ IsTracked(orders[c])
                   /\ IsTracked(orders'[c])
                   /\ orders[c].oid = orders'[c].oid
                   => orders'[c].fillSum >= orders[c].fillSum
<1>1. IInv /\ [Next]_vars => [A]_vars
  BY BoxStep DEF TableStep, Step
<1>. QED
  BY Invariance, <1>1, PTL DEF Spec, FillSumGrows

\* ExchangeClient implements OrderLifecycle under the mapping that shows the
\* state of every entry.
THEOREM Refinement == Spec => ImplementsLifecycle
<1>. DEFINE v == [c \in Cloids |-> orders[c].state]
<1>1. Init => Life!LifeInit
  BY DEF Init, Life!LifeInit, Untracked
<1>2. IInv /\ [Next]_vars => [Life!LifeNext]_v
  <2>. SUFFICES ASSUME IInv, [Next]_vars
                PROVE  Life!LifeNext
    OBVIOUS
  <2>1. TableStep
    BY BoxStep
  <2>2. v' \in [Cloids -> {"Untracked"} \cup Life!Live \cup Life!Terminal]
    BY <2>1 DEF TableStep, Tracked, EntryStates, OrderStates, LiveStates, TerminalStates,
       Life!Live, Life!Terminal
  <2>3. ASSUME NEW c \in Cloids
        PROVE  v'[c] = v[c] \/ <<v[c], v'[c]>> \in Life!Moves
    <3>1. v[c] = orders[c].state /\ v'[c] = orders'[c].state /\ StateStep(v[c], v'[c])
      BY <2>1 DEF TableStep, Step
    <3>. HIDE DEF v
    <3>. QED
      BY <3>1 DEF StateStep, Life!Moves, Life!Forward, Life!Revision, Life!Coming, Life!Going,
         Life!Live, Life!Terminal, OrderStates, LiveStates, TerminalStates
  <2>. QED
    BY <2>2, <2>3 DEF Life!LifeNext
<1>. QED
  BY Invariance, <1>1, <1>2, PTL DEF Spec, ImplementsLifecycle, Life!LifeSpec

=============================================================================
