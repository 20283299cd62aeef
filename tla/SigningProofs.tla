---------------------------- MODULE SigningProofs ----------------------------
(***************************************************************************)
(* What threads share when they sign, for any number of threads, any size  *)
(* of the ring and whatever the event loop, the clock and a fork do        *)
(* meanwhile.                                                              *)
(*                                                                         *)
(* Request nonces: last_ bounds every nonce returned so far, and an        *)
(* exchange that succeeds returns a larger one.  Precomputed nonces: a     *)
(* nonce lies in one place only, which is a producer's hands, a slot of a  *)
(* ring that may be popped, or the past.                                   *)
(***************************************************************************)
EXTENDS Threads, TLAPS

SigPcs == {"idle", "load", "exchange", "sign", "lock", "pop"}
SigState == [pc : SigPcs, now : Nat, prev : Nat]

\* The invariant behind NoncesIncrease.
RequestInv ==
    /\ wall \in Nat
    /\ last \in Nat
    /\ issued \in Seq(Nat)
    /\ sig \in [SigningThreads -> SigState]
    /\ \A i \in 1..Len(issued) : issued[i] <= last
    /\ NoncesIncrease

-----------------------------------------------------------------------------
\* The signing state moves by the actions of Signing, one thread at a time.
SigningAction ==
    \/ \E t \in Signers : ReadClock(t) \/ LoadLast(t) \/ CompareExchange(t)
    \/ \E t \in SigningThreads : CheckPool(t) \/ SpinLock(t) \/ Pop(t)
    \/ \E x \in Producers : RefillStep(x)
    \/ JoinRefiller \/ StopPool \/ Fork \/ BeginChild \/ ClockMoves
    \/ \E p \in {"parent", "child"} : EnablePool(p)

\* A step of the process leaves the signing state alone or is one of its actions.
LEMMA Steps ==
  ASSUME Next
  PROVE  UNCHANGED signVars \/ SigningAction
<1>1. LoopThread \in Signers /\ Posters \subseteq Signers /\ Signers \subseteq SigningThreads
      /\ Child \in SigningThreads /\ Child \in Producers /\ Refiller \in Producers
  BY ThreadsAssumption DEF SigningThreads, Producers
<1>2. CASE LoopThreadStep
  <2>1. CASE TaskSigns
    BY <1>1, <2>1 DEF TaskSigns, SigningAction
  <2>2. CASE InSigning(SignStep(LoopThread))
    BY <1>1, <2>2 DEF InSigning, SignStep, NonceStep, DigestStep, SigningAction
  <2>. QED
    BY <1>2, <2>1, <2>2 DEF LoopThreadStep, InLoop, Return
<1>3. CASE CallbackWorks
  BY <1>3 DEF CallbackWorks, InLoop
<1>4. ASSUME NEW t \in Posters, PosterCalls(t) \/ PosterStep(t)
      PROVE  UNCHANGED signVars \/ SigningAction
  BY <1>1, <1>4 DEF PosterCalls, PosterStep, ThreadSigns, InLoop, InSigning, SignStep,
                    NonceStep, DigestStep, SigningAction
<1>5. CASE ChildStep
  BY <1>1, <1>5 DEF ChildStep, InSigning, DigestStep, SigningAction
<1>6. CASE RefillerStep
  BY <1>1, <1>6 DEF RefillerStep, InSigning, SigningAction
<1>7. CASE InSigning(JoinRefiller)
  BY <1>7 DEF InSigning, SigningAction
<1>8. CASE PoolCalls
  BY <1>8 DEF PoolCalls, InSigning, SigningAction
<1>9. CASE Kernel
  BY <1>9 DEF Kernel, InLoop, InSigning, SigningAction
<1>. QED
  BY <1>2, <1>3, <1>4, <1>5, <1>6, <1>7, <1>8, <1>9 DEF Next

-----------------------------------------------------------------------------
(* Request nonces.                                                         *)

\* No request nonce has been returned when the process starts.
LEMMA RequestInit == Init => RequestInv
<1>. SUFFICES ASSUME Init
              PROVE  RequestInv
  OBVIOUS
<1>1. wall = 1 /\ last = 0 /\ issued = << >> /\ sig = [t \in SigningThreads |-> Idle]
  BY DEF Init, SignInit
<1>2. Idle \in SigState
  BY DEF Idle, SigState, SigPcs
<1>. QED
  BY <1>1, <1>2 DEF RequestInv, NoncesIncrease

\* A nonce above all returned so far keeps them in order.
LEMMA IssueLarger ==
  ASSUME NEW s \in Seq(Nat), NEW n \in Nat,
         \A i \in 1..Len(s) : s[i] < n,
         \A i, j \in 1..Len(s) : i < j => s[i] < s[j]
  PROVE  LET r == Append(s, n)
         IN  /\ r \in Seq(Nat)
             /\ \A i \in 1..Len(r) : r[i] <= n
             /\ \A i, j \in 1..Len(r) : i < j => r[i] < r[j]
  OBVIOUS

\* Only a successful exchange returns a nonce, and it returns the new last_.
LEMMA RequestStep ==
  ASSUME RequestInv, [Next]_vars
  PROVE  RequestInv'
<1>1. ASSUME UNCHANGED <<wall, last, issued, sig>>
      PROVE  RequestInv'
  BY <1>1 DEF RequestInv, NoncesIncrease
<1>2. ASSUME UNCHANGED <<last, issued>>, wall' \in Nat,
             sig' \in [SigningThreads -> SigState]
      PROVE  RequestInv'
  BY <1>2 DEF RequestInv, NoncesIncrease
<1>3. Signers \subseteq SigningThreads /\ Child \in SigningThreads
  BY DEF SigningThreads
<1>4. ASSUME NEW t \in Signers, ReadClock(t)
      PROVE  RequestInv'
  <2>1. sig' \in [SigningThreads -> SigState]
    BY <1>3, <1>4 DEF ReadClock, RequestInv, SigState, SigPcs
  <2>. QED
    BY <1>2, <1>4, <2>1 DEF ReadClock, RequestInv
<1>5. ASSUME NEW t \in Signers, LoadLast(t)
      PROVE  RequestInv'
  <2>1. sig' \in [SigningThreads -> SigState]
    BY <1>3, <1>5 DEF LoadLast, RequestInv, SigState, SigPcs
  <2>. QED
    BY <1>2, <1>5, <2>1 DEF LoadLast, RequestInv
<1>6. ASSUME NEW t \in Signers, CompareExchange(t)
      PROVE  RequestInv'
  <2>1. sig[t] \in SigState /\ sig[t].prev \in Nat /\ sig[t].now \in Nat
    BY <1>3 DEF RequestInv, SigState
  <2>2. Candidate(t) \in Nat /\ Candidate(t) > sig[t].prev
    BY <2>1 DEF Candidate
  <2>3. [Idle EXCEPT !.pc = "sign"] \in SigState
    BY DEF Idle, SigState, SigPcs
  <2>4. CASE last = sig[t].prev
    <3>1. sig' \in [SigningThreads -> SigState] /\ wall' \in Nat
      BY <1>3, <1>6, <2>3, <2>4 DEF CompareExchange, RequestInv
    <3>2. last' = Candidate(t) /\ issued' = Append(issued, Candidate(t))
      BY <1>6, <2>4 DEF CompareExchange
    <3>3. issued \in Seq(Nat) /\ \A i \in 1..Len(issued) : issued[i] < Candidate(t)
      BY <2>1, <2>2, <2>4 DEF RequestInv
    <3>4. \A i, j \in 1..Len(issued) : i < j => issued[i] < issued[j]
      BY DEF RequestInv, NoncesIncrease
    <3>. QED
      BY <2>2, <3>1, <3>2, <3>3, <3>4, IssueLarger DEF RequestInv, NoncesIncrease
  <2>5. CASE last # sig[t].prev
    <3>1. sig' \in [SigningThreads -> SigState]
      BY <1>3, <1>6, <2>5 DEF CompareExchange, RequestInv, SigState
    <3>. QED
      BY <1>2, <1>6, <2>5, <3>1 DEF CompareExchange, RequestInv
  <2>. QED
    BY <2>4, <2>5
<1>7. ASSUME NEW t \in SigningThreads, CheckPool(t) \/ SpinLock(t) \/ Pop(t)
      PROVE  RequestInv'
  <2>1. UNCHANGED <<wall, last, issued>>
    BY <1>7 DEF CheckPool, SpinLock, Pop
  <2>2. \E pc \in SigPcs : sig' = [sig EXCEPT ![t].pc = pc]
    BY <1>7 DEF CheckPool, SpinLock, Pop, SigPcs
  <2>3. sig' \in [SigningThreads -> SigState]
    BY <2>2 DEF RequestInv, SigState
  <2>. QED
    BY <1>2, <2>1, <2>3 DEF RequestInv
<1>8. ASSUME NEW x \in Producers, RefillStep(x)
      PROVE  RequestInv'
  BY <1>1, <1>8 DEF RefillStep, BeginRefill, ProduceNonce, ProduceFails, PushLock, Push, EndRefill
<1>9. ASSUME NEW p \in {"parent", "child"}, EnablePool(p)
      PROVE  RequestInv'
  BY <1>1, <1>9 DEF EnablePool
<1>10. CASE JoinRefiller \/ StopPool \/ Fork
  BY <1>1, <1>10 DEF JoinRefiller, StopPool, Fork
<1>11. CASE BeginChild
  <2>1. sig' \in [SigningThreads -> SigState]
    BY <1>3, <1>11 DEF BeginChild, RequestInv, SigState, SigPcs
  <2>. QED
    BY <1>2, <1>11, <2>1 DEF BeginChild, RequestInv
<1>12. CASE ClockMoves
  BY <1>2, <1>12 DEF ClockMoves, RequestInv
<1>13. CASE UNCHANGED signVars
  BY <1>1, <1>13 DEF signVars
<1>14. CASE SigningAction
  BY <1>14, <1>4, <1>5, <1>6, <1>7, <1>8, <1>9, <1>10, <1>11, <1>12 DEF SigningAction
<1>. QED
  BY <1>13, <1>14, Steps DEF vars

\* NonceGenerator::next() returns larger and larger nonces, for any number of
\* threads and any movement of the wall clock.
THEOREM NoncesAlwaysIncrease == Spec => []NoncesIncrease
<1>1. Init => RequestInv
  BY RequestInit
<1>2. RequestInv /\ [Next]_vars => RequestInv'
  BY RequestStep
<1>3. RequestInv => NoncesIncrease
  BY DEF RequestInv
<1>. QED
  BY <1>1, <1>2, <1>3, PTL DEF Spec
=============================================================================
