--------------------------- MODULE NoncePoolProofs ---------------------------
(***************************************************************************)
(* No precomputed nonce is used for two signatures, for any number of      *)
(* threads and any size of the ring, across refills, disabling, enabling   *)
(* and a fork.                                                             *)
(*                                                                         *)
(* The child starts with a copy of the parent's ring, so the two rings     *)
(* hold the same nonces until the child enables a pool of its own.  Only   *)
(* the generation check keeps it from popping the copy: the invariant      *)
(* therefore asks nothing of the child's ring but what holds of a copy,    *)
(* unless its generation is the child's.                                   *)
(***************************************************************************)
EXTENDS SigningProofs

Procs == {"parent", "child"}

PoolState ==
    [on : BOOLEAN, ring : [0..Mask -> Nat], head : Nat, tail : Nat, size : Int,
     lock : {Free} \cup SigningThreads \cup Producers, refilling : BOOLEAN,
     stop : BOOLEAN, gen : Nat]
RefillState ==
    [pc : {"idle", "produce", "lock", "push"}, added : Nat, attempts : Int, k : Nat]

PoolTypes ==
    /\ made \in Nat
    /\ spent \in Seq(Nat)
    /\ pools \in [Procs -> PoolState]
    /\ forkGen \in [Procs -> Nat]
    /\ refill \in [Producers -> RefillState]

\* The child has a pool that it made itself.
OwnPool == forkGen["child"] > 0 /\ pools["child"].gen = forkGen["child"]

\* The parent never was forked; the child signs after the fork only, and pops
\* only from a pool of its own.
Generations ==
    /\ forkGen["parent"] = 0 /\ pools["parent"].gen = 0
    /\ sig[Child].pc # "idle" => forkGen["child"] > 0
    /\ sig[Child].pc \in {"lock", "pop"} => OwnPool

Ring(p, i) == pools[p].ring[i]
Past == {spent[n] : n \in 1..Len(spent)}

\* A nonce in a slot is in no other slot of the ring; in a ring that may be
\* popped, it has not been used and is not in the other process's ring.
RingsApart ==
    /\ \A p \in Procs, i \in 0..Mask : Ring(p, i) <= made
    /\ \A p \in Procs, i, j \in 0..Mask :
          i # j /\ Ring(p, i) # 0 => Ring(p, i) # Ring(p, j)
    /\ \A i \in 0..Mask : Ring("parent", i) # 0 => Ring("parent", i) \notin Past
    /\ OwnPool => \A i \in 0..Mask : Ring("child", i) # 0 => Ring("child", i) \notin Past
    /\ OwnPool => \A i, j \in 0..Mask :
          Ring("parent", i) # 0 => Ring("parent", i) # Ring("child", j)

Holds(x) == refill[x].pc \in {"lock", "push"}

\* What a producer is about to push is nowhere else.
HandsApart ==
    /\ \A x \in Producers : Holds(x) =>
          /\ refill[x].k \in 1..made
          /\ refill[x].k \notin Past
          /\ \A p \in Procs, i \in 0..Mask : Ring(p, i) # refill[x].k
    /\ Holds(Refiller) /\ Holds(Child) => refill[Refiller].k # refill[Child].k

PastApart == Past \subseteq 1..made /\ NonceUsedOnce

PoolInv == PoolTypes /\ Generations /\ RingsApart /\ HandsApart /\ PastApart

-----------------------------------------------------------------------------
\* Positions of head and tail wrap to slots of the ring.
LEMMA Index == \A n \in Nat : n % Slots \in 0..Mask
  BY SlotsAssumption DEF Mask

\* A pool starts, and a disabled one is left, with every slot wiped.
LEMMA EmptyPools ==
  ASSUME NEW g \in Nat
  PROVE  /\ NewPool(g) \in PoolState /\ NoPool \in PoolState
         /\ NewPool(g).gen = g /\ NoPool.gen = 0
         /\ \A i \in 0..Mask : NewPool(g).ring[i] = 0 /\ NoPool.ring[i] = 0
<1>1. [i \in 0..Mask |-> 0] \in [0..Mask -> Nat]
  OBVIOUS
<1>2. NewPool(g) \in PoolState /\ NewPool(0) \in PoolState
  BY <1>1 DEF NewPool, PoolState
<1>. QED
  BY <1>2 DEF NewPool, NoPool, PoolState

\* The invariant holds when the process starts, with a pool or without.
LEMMA PoolInit == Init => PoolInv
<1>. SUFFICES ASSUME Init
              PROVE  PoolInv
  OBVIOUS
<1>1. PICK pooled \in {s.pooled : s \in Scenarios} : SignInit(pooled)
  BY DEF Init
<1>2. /\ made = 0 /\ spent = << >> /\ forkGen["parent"] = 0 /\ forkGen["child"] = 0
      /\ sig[Child].pc = "idle" /\ forkGen \in [Procs -> Nat]
  BY <1>1 DEF SignInit, Idle, SigningThreads, Procs
<1>3. /\ pools \in [Procs -> PoolState]
      /\ \A p \in Procs : pools[p].gen = 0 /\ \A i \in 0..Mask : Ring(p, i) = 0
  BY <1>1, EmptyPools DEF SignInit, Procs, Ring
<1>4. NotRefilling \in RefillState /\ NotRefilling.pc = "idle"
  BY DEF NotRefilling, RefillState
<1>5. /\ refill \in [Producers -> RefillState]
      /\ \A x \in Producers : ~Holds(x)
  BY <1>1, <1>4 DEF SignInit, Holds
<1>6. Past = {}
  BY <1>2 DEF Past
<1>7. PoolTypes
  BY <1>2, <1>3, <1>5 DEF PoolTypes
<1>8. Generations /\ ~OwnPool
  BY <1>2, <1>3 DEF Generations, OwnPool, Procs
<1>9. RingsApart
  BY <1>2, <1>3, <1>6, <1>8 DEF RingsApart, Procs
<1>10. HandsApart
  BY <1>5 DEF HandsApart, Producers
<1>11. PastApart
  BY <1>2, <1>6 DEF PastApart, NonceUsedOnce
<1>. QED
  BY <1>7, <1>8, <1>9, <1>10, <1>11 DEF PoolInv

-----------------------------------------------------------------------------
(* The steps.                                                              *)

\* A step that moves no nonce.
LEMMA NoncesStay ==
  ASSUME PoolInv, PoolTypes', Generations',
         UNCHANGED <<made, spent, forkGen>>,
         \A p \in Procs : pools'[p].ring = pools[p].ring /\ pools'[p].gen = pools[p].gen,
         \A x \in Producers : Holds(x)' => Holds(x) /\ refill'[x].k = refill[x].k
  PROVE  PoolInv'
<1>1. Past' = Past /\ (OwnPool' <=> OwnPool)
  BY DEF Past, OwnPool, Procs
<1>2. \A p \in Procs, i \in 0..Mask : Ring(p, i)' = Ring(p, i)
  BY DEF Ring
<1>3. RingsApart'
  BY <1>1, <1>2 DEF PoolInv, RingsApart, Procs
<1>4. HandsApart'
  BY <1>1, <1>2 DEF PoolInv, HandsApart, Producers
<1>5. PastApart'
  BY <1>1 DEF PoolInv, PastApart, NonceUsedOnce
<1>. QED
  BY <1>3, <1>4, <1>5 DEF PoolInv

\* A step of the signing threads that leaves the pool alone.
LEMMA PoolUntouched ==
  ASSUME PoolInv, UNCHANGED <<pools, forkGen, refill, made, spent>>,
         \/ sig'[Child] = sig[Child]
         \/ sig'[Child].pc \in {"idle", "sign"} /\ forkGen["child"] > 0
  PROVE  PoolInv'
<1>1. PoolTypes'
  BY DEF PoolInv, PoolTypes
<1>2. Generations'
  BY DEF PoolInv, Generations, OwnPool
<1>. QED
  BY <1>1, <1>2, NoncesStay DEF Holds

\* The signers of the parent are not the child.
LEMMA Parents ==
  /\ \A t \in Signers : t # Child /\ Proc(t) = "parent"
  /\ Proc(Child) = "child" /\ Proc(Refiller) = "parent"
  /\ \A t \in SigningThreads \cup Producers : Proc(t) \in Procs
  /\ Child \in SigningThreads /\ Child # Refiller
  BY SigningAssumption DEF Proc, SigningThreads, Producers, Procs

\* NonceGenerator::next() does not touch the pool.
LEMMA RequestNonces ==
  ASSUME PoolInv, RequestInv, NEW t \in Signers,
         ReadClock(t) \/ LoadLast(t) \/ CompareExchange(t)
  PROVE  PoolInv'
<1>1. sig'[Child] = sig[Child]
  BY Parents DEF ReadClock, LoadLast, CompareExchange, RequestInv
<1>2. UNCHANGED <<pools, forkGen, refill, made, spent>>
  BY DEF ReadClock, LoadLast, CompareExchange
<1>. QED
  BY <1>1, <1>2, PoolUntouched

\* signDigest's check lets the child go on to the lock only in its own pool.
LEMMA PoolChecked ==
  ASSUME PoolInv, RequestInv, NEW t \in SigningThreads, CheckPool(t)
  PROVE  PoolInv'
<1>1. UNCHANGED <<pools, forkGen, refill, made, spent>>
  BY DEF CheckPool
<1>2. CASE t # Child
  BY <1>1, <1>2, Parents, PoolUntouched DEF CheckPool, RequestInv
<1>3. CASE t = Child
  <2>1. forkGen["child"] > 0
    BY <1>3 DEF CheckPool, PoolInv, Generations
  <2>2. sig'[Child].pc \in {"idle", "lock"}
    BY <1>3, Parents DEF CheckPool, RequestInv, SigState
  <2>3. sig'[Child].pc = "lock" => OwnPool
    BY <1>3, <2>1, Parents DEF CheckPool, RequestInv, SigState, OwnPool, Pool
  <2>4. Generations'
    BY <1>1, <2>1, <2>2, <2>3 DEF PoolInv, Generations, OwnPool
  <2>5. PoolTypes'
    BY <1>1 DEF PoolInv, PoolTypes
  <2>. QED
    BY <1>1, <2>4, <2>5, NoncesStay DEF Holds
<1>. QED
  BY <1>2, <1>3

\* The child begins a signature.
LEMMA ChildBegins ==
  ASSUME PoolInv, RequestInv, BeginChild
  PROVE  PoolInv'
  BY Parents, PoolUntouched DEF BeginChild, RequestInv, SigState

\* A step that changes what a pool says of itself, not its nonces.
LEMMA PoolMarked ==
  ASSUME PoolInv, RequestInv, NEW p \in Procs, NEW pool \in PoolState,
         pool.ring = pools[p].ring, pool.gen = pools[p].gen,
         pools' = [pools EXCEPT ![p] = pool],
         UNCHANGED <<made, spent, forkGen>>,
         refill' \in [Producers -> RefillState],
         \A x \in Producers : Holds(x)' => Holds(x) /\ refill'[x].k = refill[x].k,
         \/ sig'[Child] = sig[Child]
         \/ sig'[Child].pc = "idle"
         \/ sig[Child].pc \in {"lock", "pop"}
  PROVE  PoolInv'
<1>1. \A q \in Procs : pools'[q].ring = pools[q].ring /\ pools'[q].gen = pools[q].gen
  BY DEF PoolInv, PoolTypes
<1>2. PoolTypes'
  BY DEF PoolInv, PoolTypes
<1>3. OwnPool' <=> OwnPool
  BY <1>1 DEF OwnPool, Procs
<1>4. Generations'
  BY <1>1, <1>3 DEF PoolInv, Generations, Procs
<1>. QED
  BY <1>1, <1>2, <1>4, NoncesStay

\* signDigest takes the spin lock.
LEMMA Locked ==
  ASSUME PoolInv, RequestInv, NEW t \in SigningThreads, SpinLock(t)
  PROVE  PoolInv'
<1>. DEFINE pool == [Pool(t) EXCEPT !.lock = t]
<1>1. Proc(t) \in Procs /\ Pool(t) \in PoolState
  BY Parents DEF Pool, PoolInv, PoolTypes
<1>2. pool \in PoolState /\ pool.ring = Pool(t).ring /\ pool.gen = Pool(t).gen
  BY <1>1 DEF PoolState
<1>3. pools' = [pools EXCEPT ![Proc(t)] = pool]
  BY <1>1 DEF SpinLock, Pool, PoolInv, PoolTypes
<1>4. sig'[Child] = sig[Child] \/ sig[Child].pc = "lock"
  BY Parents DEF SpinLock, RequestInv
<1>5. refill' \in [Producers -> RefillState] /\ UNCHANGED <<made, spent, forkGen, refill>>
  BY DEF SpinLock, PoolInv, PoolTypes
<1>. HIDE DEF pool
<1>. QED
  BY <1>1, <1>2, <1>3, <1>4, <1>5, PoolMarked DEF Holds, Pool

\* A step of refill() that takes or drops a mark of the pool.
LEMMA RefillMarked ==
  ASSUME PoolInv, RequestInv, NEW x \in Producers,
         NEW l \in {Free} \cup SigningThreads \cup Producers, NEW r \in BOOLEAN,
         NEW e \in RefillState,
         e.pc \in {"lock", "push"} => Holds(x) /\ e.k = refill[x].k,
         pools' = [pools EXCEPT ![Proc(x)] = [Pool(x) EXCEPT !.lock = l, !.refilling = r]],
         refill' = [refill EXCEPT ![x] = e],
         UNCHANGED <<made, spent, forkGen, sig>>
  PROVE  PoolInv'
<1>. DEFINE pool == [Pool(x) EXCEPT !.lock = l, !.refilling = r]
<1>1. Proc(x) \in Procs /\ Pool(x) \in PoolState
  BY Parents DEF Pool, PoolInv, PoolTypes
<1>2. pool \in PoolState /\ pool.ring = Pool(x).ring /\ pool.gen = Pool(x).gen
  BY <1>1 DEF PoolState
<1>3. refill' \in [Producers -> RefillState]
  BY DEF PoolInv, PoolTypes
<1>4. \A y \in Producers : Holds(y)' => Holds(y) /\ refill'[y].k = refill[y].k
  BY DEF PoolInv, PoolTypes, Holds
<1>5. pools' = [pools EXCEPT ![Proc(x)] = pool]
  OBVIOUS
<1>. HIDE DEF pool
<1>. QED
  BY <1>1, <1>2, <1>3, <1>4, <1>5, PoolMarked DEF Pool

\* The steps of refill() other than producing and pushing.
LEMMA RefillMarks ==
  ASSUME PoolInv, RequestInv, NEW x \in Producers,
         \/ BeginRefill(x) \/ ProduceFails(x) \/ PushLock(x) \/ EndRefill(x)
         \/ Push(x) /\ Pool(x).tail - Pool(x).head > Mask
  PROVE  PoolInv'
<1>1. Proc(x) \in Procs /\ Pool(x) \in PoolState /\ refill[x] \in RefillState
  BY Parents DEF Pool, PoolInv, PoolTypes
<1>2. /\ pools \in [Procs -> PoolState] /\ refill \in [Producers -> RefillState]
      /\ Pool(x) = pools[Proc(x)]
  BY DEF PoolInv, PoolTypes, Pool
<1>3. /\ Pool(x).lock \in {Free} \cup SigningThreads \cup Producers
      /\ Pool(x).refilling \in BOOLEAN
  BY <1>1 DEF PoolState
<1>4. CASE BeginRefill(x)
  <2>. DEFINE e == [pc |-> "produce", added |-> 0, attempts |-> 4 * RefillCount + 8, k |-> 0]
  <2>1. e \in RefillState /\ e.pc = "produce"
    BY SigningAssumption DEF RefillState
  <2>2. pools' = [pools EXCEPT ![Proc(x)] = [Pool(x) EXCEPT !.lock = Pool(x).lock,
                                                            !.refilling = TRUE]]
    BY <1>1, <1>2, <1>3, <1>4 DEF BeginRefill, PoolState
  <2>3. refill' = [refill EXCEPT ![x] = e] /\ UNCHANGED <<made, spent, forkGen, sig>>
    BY <1>4 DEF BeginRefill
  <2>. HIDE DEF e
  <2>. QED
    BY <1>3, <2>1, <2>2, <2>3, RefillMarked
<1>5. CASE ProduceFails(x)
  <2>. DEFINE e == [refill[x] EXCEPT !.attempts = 0]
  <2>1. e \in RefillState /\ e.pc = refill[x].pc /\ e.k = refill[x].k
    BY <1>1 DEF RefillState
  <2>2. pools' = [pools EXCEPT ![Proc(x)] = [Pool(x) EXCEPT !.lock = Pool(x).lock,
                                                   !.refilling = Pool(x).refilling]]
    BY <1>1, <1>2, <1>3, <1>5 DEF ProduceFails, PoolState
  <2>3. refill' = [refill EXCEPT ![x] = e] /\ UNCHANGED <<made, spent, forkGen, sig>>
    BY <1>2, <1>5 DEF ProduceFails
  <2>4. e.pc = "produce"
    BY <1>5, <2>1 DEF ProduceFails
  <2>. HIDE DEF e
  <2>. QED
    BY <1>3, <2>1, <2>2, <2>3, <2>4, RefillMarked
<1>6. CASE PushLock(x)
  <2>. DEFINE e == [refill[x] EXCEPT !.pc = "push"]
  <2>1. e \in RefillState /\ e.k = refill[x].k /\ Holds(x)
    BY <1>1, <1>6 DEF RefillState, Holds, PushLock
  <2>2. pools' = [pools EXCEPT ![Proc(x)] = [Pool(x) EXCEPT !.lock = x,
                                                   !.refilling = Pool(x).refilling]]
    BY <1>1, <1>2, <1>3, <1>6 DEF PushLock, PoolState
  <2>3. refill' = [refill EXCEPT ![x] = e] /\ UNCHANGED <<made, spent, forkGen, sig>>
    BY <1>2, <1>6 DEF PushLock
  <2>. HIDE DEF e
  <2>. QED
    BY <1>3, <2>1, <2>2, <2>3, RefillMarked
<1>7. NotRefilling \in RefillState /\ NotRefilling.pc = "idle"
  BY DEF NotRefilling, RefillState
<1>8. CASE EndRefill(x)
  <2>1. pools' = [pools EXCEPT ![Proc(x)] = [Pool(x) EXCEPT !.lock = Pool(x).lock,
                                                            !.refilling = FALSE]]
    BY <1>1, <1>2, <1>3, <1>8 DEF EndRefill, PoolState
  <2>2. /\ refill' = [refill EXCEPT ![x] = NotRefilling]
        /\ UNCHANGED <<made, spent, forkGen, sig>>
    BY <1>8 DEF EndRefill
  <2>. QED
    BY <1>3, <1>7, <2>1, <2>2, RefillMarked
<1>9. CASE Push(x) /\ Pool(x).tail - Pool(x).head > Mask
  <2>1. pools' = [pools EXCEPT ![Proc(x)] = [Pool(x) EXCEPT !.lock = Free,
                                                            !.refilling = FALSE]]
    BY <1>9 DEF Push
  <2>2. /\ refill' = [refill EXCEPT ![x] = NotRefilling]
        /\ UNCHANGED <<made, spent, forkGen, sig>>
    BY <1>9 DEF Push
  <2>. QED
    BY <1>7, <2>1, <2>2, RefillMarked
<1>. QED
  BY <1>4, <1>5, <1>6, <1>8, <1>9

\* disableNoncePool asks the refill thread to stop.
LEMMA Stopped ==
  ASSUME PoolInv, RequestInv, StopPool
  PROVE  PoolInv'
<1>. DEFINE pool == [pools["parent"] EXCEPT !.stop = TRUE]
<1>1. "parent" \in Procs /\ pools["parent"] \in PoolState
  BY DEF Procs, PoolInv, PoolTypes
<1>2. pool \in PoolState /\ pool.ring = pools["parent"].ring /\ pool.gen = pools["parent"].gen
  BY <1>1 DEF PoolState
<1>3. pools' = [pools EXCEPT !["parent"] = pool]
  BY <1>1 DEF StopPool, PoolInv, PoolTypes
<1>4. refill' \in [Producers -> RefillState] /\ UNCHANGED <<made, spent, forkGen, refill, sig>>
  BY DEF StopPool, PoolInv, PoolTypes
<1>. HIDE DEF pool
<1>. QED
  BY <1>1, <1>2, <1>3, <1>4, PoolMarked DEF Holds

\* A pool is replaced by an empty one.
LEMMA PoolEmptied ==
  ASSUME PoolInv, NEW p \in Procs, NEW pool \in PoolState,
         \A i \in 0..Mask : pool.ring[i] = 0,
         p = "parent" => pool.gen = 0,
         p = "child" => sig[Child].pc = "idle",
         pools' = [pools EXCEPT ![p] = pool],
         UNCHANGED <<made, spent, forkGen, refill, sig>>
  PROVE  PoolInv'
<1>1. PoolTypes'
  BY DEF PoolInv, PoolTypes
<1>2. Past' = Past /\ \A x \in Producers : (Holds(x)' <=> Holds(x)) /\ refill'[x].k = refill[x].k
  BY DEF Past, Holds
<1>3. \A q \in Procs, i \in 0..Mask : Ring(q, i)' = IF q = p THEN 0 ELSE Ring(q, i)
  BY DEF Ring, PoolInv, PoolTypes
<1>4. p = "parent" => (OwnPool' <=> OwnPool)
  BY DEF OwnPool, PoolInv, PoolTypes, Procs
<1>5. Generations'
  BY <1>4 DEF PoolInv, PoolTypes, Generations, Procs
<1>6. RingsApart'
  BY <1>2, <1>3, <1>4 DEF PoolInv, PoolTypes, RingsApart, Procs
<1>7. HandsApart'
  BY <1>2, <1>3 DEF PoolInv, HandsApart, Producers
<1>8. PastApart'
  BY <1>2 DEF PoolInv, PastApart, NonceUsedOnce
<1>. QED
  BY <1>1, <1>5, <1>6, <1>7, <1>8 DEF PoolInv

\* disableNoncePool joins the refill thread and wipes the entries.
LEMMA Joined ==
  ASSUME PoolInv, JoinRefiller
  PROVE  PoolInv'
<1>1. NoPool \in PoolState /\ NoPool.gen = 0 /\ \A i \in 0..Mask : NoPool.ring[i] = 0
  BY EmptyPools
<1>. QED
  BY <1>1, PoolEmptied DEF JoinRefiller, Procs

\* enableNoncePool, in the parent and in the child.
LEMMA Enabled ==
  ASSUME PoolInv, NEW p \in Procs, EnablePool(p)
  PROVE  PoolInv'
<1>1. forkGen[p] \in Nat /\ (p = "parent" => forkGen[p] = 0)
  BY DEF PoolInv, PoolTypes, Generations
<1>2. /\ NewPool(forkGen[p]) \in PoolState /\ NewPool(forkGen[p]).gen = forkGen[p]
      /\ \A i \in 0..Mask : NewPool(forkGen[p]).ring[i] = 0
  BY <1>1, EmptyPools
<1>. QED
  BY <1>1, <1>2, PoolEmptied DEF EnablePool

\* The copy of the parent's pool is not the child's own.
LEMMA Forked ==
  ASSUME PoolInv, Fork
  PROVE  PoolInv'
<1>1. /\ pools' = [pools EXCEPT !["child"] = pools["parent"]]
      /\ forkGen' = [forkGen EXCEPT !["child"] = forkGen["parent"] + 1]
      /\ UNCHANGED <<made, spent, refill, sig>>
  BY DEF Fork
<1>2. PoolTypes'
  BY <1>1 DEF PoolInv, PoolTypes, Procs
<1>3. Past' = Past /\ \A x \in Producers : (Holds(x)' <=> Holds(x)) /\ refill'[x].k = refill[x].k
  BY <1>1 DEF Past, Holds
<1>4. \A q \in Procs, i \in 0..Mask : Ring(q, i)' = Ring("parent", i)
  BY <1>1 DEF Ring, PoolInv, PoolTypes, Procs
<1>5. ~OwnPool' /\ forkGen'["child"] > 0
  BY <1>1 DEF OwnPool, PoolInv, PoolTypes, Generations, Procs
<1>6. sig[Child].pc = "idle"
  BY DEF Fork, PoolInv, Generations
<1>7. Generations'
  BY <1>1, <1>5, <1>6 DEF PoolInv, PoolTypes, Generations, Procs
<1>8. RingsApart'
  BY <1>1, <1>3, <1>4, <1>5 DEF PoolInv, RingsApart, Procs
<1>9. HandsApart'
  BY <1>1, <1>3, <1>4 DEF PoolInv, HandsApart, Producers, Procs
<1>10. PastApart'
  BY <1>1, <1>3 DEF PoolInv, PastApart, NonceUsedOnce
<1>. QED
  BY <1>2, <1>7, <1>8, <1>9, <1>10 DEF PoolInv

\* A new nonce is in its producer's hands and nowhere else.
LEMMA Produced ==
  ASSUME PoolInv, NEW x \in Producers, ProduceNonce(x)
  PROVE  PoolInv'
<1>1. /\ made' = made + 1
      /\ refill' = [refill EXCEPT ![x].pc = "lock", ![x].attempts = @ - 1, ![x].k = made + 1]
      /\ UNCHANGED <<pools, spent, forkGen, sig>>
  BY DEF ProduceNonce
<1>2. PoolTypes'
  <2>. DEFINE e == [refill[x] EXCEPT !.pc = "lock", !.attempts = @ - 1, !.k = made + 1]
  <2>1. made \in Nat /\ made + 1 \in Nat /\ refill[x] \in RefillState
    BY DEF PoolInv, PoolTypes
  <2>2. refill[x].attempts - 1 \in Int
    BY <2>1 DEF RefillState
  <2>3. e \in RefillState
    BY <2>1, <2>2 DEF RefillState
  <2>4. refill' = [refill EXCEPT ![x] = e]
    BY <1>1 DEF PoolInv, PoolTypes
  <2>. HIDE DEF e
  <2>5. refill' \in [Producers -> RefillState]
    BY <2>3, <2>4 DEF PoolInv, PoolTypes
  <2>. QED
    BY <1>1, <2>1, <2>5 DEF PoolInv, PoolTypes
<1>3. Past' = Past /\ (OwnPool' <=> OwnPool) /\ \A p \in Procs, i \in 0..Mask : Ring(p, i)' = Ring(p, i)
  BY <1>1 DEF Past, OwnPool, Ring
<1>4. /\ refill'[x].k = made + 1
      /\ \A y \in Producers \ {x} : (Holds(y)' <=> Holds(y)) /\ refill'[y].k = refill[y].k
  BY <1>1 DEF Holds, PoolInv, PoolTypes, RefillState
<1>5. /\ made \in Nat /\ Past \subseteq 1..made
      /\ \A p \in Procs, i \in 0..Mask : Ring(p, i) \in Nat /\ Ring(p, i) <= made
  BY DEF PoolInv, PoolTypes, PastApart, RingsApart, Ring, PoolState
<1>6. Generations'
  BY <1>1, <1>3 DEF PoolInv, Generations
<1>7. RingsApart'
  BY <1>1, <1>3, <1>5 DEF PoolInv, RingsApart, Procs
<1>8. HandsApart'
  <2>1. made' = made + 1
    BY <1>1
  <2>2. ASSUME NEW y \in Producers, Holds(y)'
        PROVE  /\ refill'[y].k \in 1..made'
               /\ refill'[y].k \notin Past'
               /\ \A p \in Procs, i \in 0..Mask : Ring(p, i)' # refill'[y].k
    <3>1. CASE y = x
      BY <1>3, <1>4, <1>5, <2>1, <3>1
    <3>2. CASE y # x
      BY <1>3, <1>4, <1>5, <2>1, <2>2, <3>2 DEF PoolInv, HandsApart
    <3>. QED
      BY <3>1, <3>2
  <2>3. (Holds(Refiller) /\ Holds(Child))' => refill'[Refiller].k # refill'[Child].k
    <3>1. \A y \in Producers : Holds(y) => refill[y].k \in 1..made
      BY DEF PoolInv, HandsApart
    <3>. QED
      BY <1>4, <1>5, <3>1, Parents DEF Producers
  <2>. QED
    BY <2>2, <2>3 DEF HandsApart
<1>9. PastApart'
  BY <1>1, <1>3, <1>5 DEF PoolInv, PastApart, NonceUsedOnce
<1>. QED
  BY <1>2, <1>6, <1>7, <1>8, <1>9 DEF PoolInv

\* push() moves a nonce from its producer's hands into a slot.
LEMMA Pushed ==
  ASSUME PoolInv, NEW x \in Producers, Push(x), ~(Pool(x).tail - Pool(x).head > Mask)
  PROVE  PoolInv'
<1>. DEFINE slot == Pool(x).tail % Slots
            k == refill[x].k
            tail == Pool(x).tail + 1
            size == Pool(x).tail + 1 - Pool(x).head
            ring == [Pool(x).ring EXCEPT ![slot] = k]
            added == refill[x].added + 1
            pool == [Pool(x) EXCEPT !.ring = ring, !.tail = tail, !.lock = Free, !.size = size]
            e == [refill[x] EXCEPT !.pc = "produce", !.added = added, !.k = 0]
<1>1. /\ Proc(x) \in Procs /\ Pool(x) \in PoolState /\ refill[x] \in RefillState
      /\ refill \in [Producers -> RefillState]
      /\ k \in Nat /\ added \in Nat /\ tail \in Nat /\ size \in Int
  <2>1. Proc(x) \in Procs /\ Pool(x) \in PoolState /\ refill \in [Producers -> RefillState]
    BY Parents DEF Pool, PoolInv, PoolTypes
  <2>2. refill[x] \in RefillState /\ k \in Nat /\ added \in Nat
    BY <2>1 DEF RefillState
  <2>3. tail \in Nat /\ size \in Int
    BY <2>1 DEF PoolState
  <2>. QED
    BY <2>1, <2>2, <2>3
<1>2. /\ pools' = [pools EXCEPT ![Proc(x)] = pool]
      /\ refill' = [refill EXCEPT ![x] = e]
      /\ UNCHANGED <<made, spent, forkGen, sig>>
  <2>. DEFINE new == [Pool(x) EXCEPT !.ring[slot] = k, !.tail = tail, !.lock = Free,
                                     !.size = size]
  <2>1. pools' = [pools EXCEPT ![Proc(x)] = new]
    BY Zenon DEF Push
  <2>2. refill' = [refill EXCEPT ![x] = e]
    BY Zenon DEF Push
  <2>3. UNCHANGED <<made, spent, forkGen, sig>>
    BY DEF Push
  <2>. HIDE DEF slot, k, tail, size
  <2>4. new = pool
    BY <1>1 DEF PoolState
  <2>. QED
    BY <2>1, <2>2, <2>3, <2>4
<1>3. slot \in 0..Mask
  BY <1>1, Index DEF PoolState
<1>. HIDE DEF slot, k, tail, size, added
<1>4. /\ pool \in PoolState /\ pool.gen = Pool(x).gen
      /\ \A i \in 0..Mask : pool.ring[i] = IF i = slot THEN k ELSE Pool(x).ring[i]
  <2>1. /\ ring \in [0..Mask -> Nat]
        /\ \A i \in 0..Mask : ring[i] = IF i = slot THEN k ELSE Pool(x).ring[i]
    BY <1>1, <1>3 DEF PoolState
  <2>. HIDE DEF ring
  <2>. QED
    BY <1>1, <2>1 DEF PoolState
<1>15. e \in RefillState /\ e.pc = "produce"
  BY <1>1 DEF RefillState
<1>. HIDE DEF e, ring, pool
<1>5. PoolTypes'
  BY <1>1, <1>2, <1>4, <1>15 DEF PoolInv, PoolTypes
<1>6. Past' = Past /\ (OwnPool' <=> OwnPool) /\ pools'["parent"].gen = pools["parent"].gen
  BY <1>1, <1>2, <1>4 DEF Past, OwnPool, Pool, PoolInv, PoolTypes, Procs
<1>7. \A q \in Procs, i \in 0..Mask :
         Ring(q, i)' = IF q = Proc(x) /\ i = slot THEN k ELSE Ring(q, i)
  BY <1>1, <1>2, <1>4 DEF Ring, Pool, PoolInv, PoolTypes
<1>8. /\ ~Holds(x)'
      /\ \A y \in Producers \ {x} : (Holds(y)' <=> Holds(y)) /\ refill'[y].k = refill[y].k
  <2>1. refill'[x] = e /\ \A y \in Producers \ {x} : refill'[y] = refill[y]
    BY <1>1, <1>2
  <2>. QED
    BY <1>15, <2>1 DEF Holds
<1>9. Holds(x) /\ k = refill[x].k
  BY DEF Push, Holds, k
<1>10. k \in 1..made /\ k \notin Past /\ \A q \in Procs, i \in 0..Mask : Ring(q, i) # k
  BY <1>9 DEF PoolInv, HandsApart
<1>11. Generations'
  BY <1>1, <1>2, <1>6 DEF PoolInv, Generations
<1>12. RingsApart'
  <2>1. made' = made /\ made \in Nat /\ k <= made
    BY <1>1, <1>2, <1>10 DEF PoolInv, PoolTypes
  <2>. QED
    BY <1>3, <1>6, <1>7, <1>10, <2>1 DEF PoolInv, RingsApart, Procs
<1>13. HandsApart'
  <2>1. \A y \in Producers \ {x} : Holds(y) => refill[y].k # k
    BY <1>9, Parents DEF PoolInv, HandsApart, Producers
  <2>2. made' = made
    BY <1>1, <1>2
  <2>3. \A y \in Producers : Holds(y)' => y # x /\ Holds(y) /\ refill'[y].k = refill[y].k
    BY <1>8
  <2>4. ~(Holds(Refiller) /\ Holds(Child))'
    BY <1>8 DEF Producers
  <2>. QED
    BY <1>6, <1>7, <2>1, <2>2, <2>3, <2>4 DEF PoolInv, HandsApart, Producers
<1>14. PastApart'
  BY <1>1, <1>2, <1>6 DEF PoolInv, PastApart, NonceUsedOnce
<1>. QED
  BY <1>5, <1>11, <1>12, <1>13, <1>14 DEF PoolInv

\* What a signature does to the record of nonces used.
LEMMA Spent ==
  ASSUME PoolTypes, PastApart, NEW k \in Nat, k = 0 \/ (k \in 1..made /\ k \notin Past),
         made' = made, spent' = IF k = 0 THEN spent ELSE Append(spent, k)
  PROVE  /\ PastApart' /\ spent' \in Seq(Nat)
         /\ Past' = IF k = 0 THEN Past ELSE Past \cup {k}
<1>1. CASE k = 0
  BY <1>1 DEF PoolTypes, PastApart, Past, NonceUsedOnce
<1>2. CASE k # 0
  <2>1. /\ spent \in Seq(Nat) /\ spent' \in Seq(Nat) /\ Len(spent') = Len(spent) + 1
        /\ spent'[Len(spent) + 1] = k
        /\ \A n \in 1..Len(spent) : spent'[n] = spent[n]
    BY <1>2 DEF PoolTypes
  <2>2. Len(spent) \in Nat
    BY <2>1
  <2>3. 1..Len(spent') = (1..Len(spent)) \cup {Len(spent) + 1}
    BY <2>1, <2>2
  <2>4. Past' = Past \cup {k}
    <3>1. Past' = {spent'[n] : n \in 1..Len(spent')}
      BY DEF Past
    <3>2. Past' \subseteq Past \cup {k}
      BY <2>1, <2>3, <3>1 DEF Past
    <3>3. Past \subseteq Past' /\ k \in Past'
      BY <2>1, <2>3, <3>1 DEF Past
    <3>. QED
      BY <3>2, <3>3
  <2>5. \A n \in 1..Len(spent) : spent[n] # k
    BY <1>2 DEF Past
  <2>6. NonceUsedOnce'
    BY <2>1, <2>2, <2>3, <2>5 DEF PastApart, NonceUsedOnce
  <2>. QED
    BY <1>2, <2>1, <2>4, <2>6 DEF PastApart
<1>. QED
  BY <1>1, <1>2

\* pop() moves a nonce from its slot to the nonces used.
LEMMA Taken ==
  ASSUME PoolInv, RequestInv, NEW t \in SigningThreads, Pop(t), Pool(t).head # Pool(t).tail
  PROVE  PoolInv'
<1>. DEFINE slot == Pool(t).head % Slots
            k == Pool(t).ring[slot]
            head == Pool(t).head + 1
            size == Pool(t).tail - (Pool(t).head + 1)
            ring == [Pool(t).ring EXCEPT ![slot] = 0]
            pool == [Pool(t) EXCEPT !.ring = ring, !.head = head, !.size = size, !.lock = Free]
<1>1. /\ Proc(t) \in Procs /\ Pool(t) \in PoolState
      /\ head \in Nat /\ size \in Int /\ slot \in 0..Mask
  <2>1. Proc(t) \in Procs /\ Pool(t) \in PoolState
    BY Parents DEF Pool, PoolInv, PoolTypes
  <2>2. Pool(t).head \in Nat /\ Pool(t).tail \in Nat
    BY <2>1 DEF PoolState
  <2>. QED
    BY <2>1, <2>2, Index
<1>2. /\ pools' = [pools EXCEPT ![Proc(t)] = pool]
      /\ spent' = IF k = 0 THEN spent ELSE Append(spent, k)
      /\ sig' = [sig EXCEPT ![t].pc = "idle"]
      /\ UNCHANGED <<made, forkGen, refill>>
  <2>. DEFINE new == [Pool(t) EXCEPT !.ring[slot] = 0, !.head = head, !.size = size,
                                     !.lock = Free]
  <2>1. pools' = [pools EXCEPT ![Proc(t)] = new]
    BY Zenon DEF Pop, Take
  <2>2. spent' = IF k = 0 THEN spent ELSE Append(spent, k)
    BY Zenon DEF Pop
  <2>3. sig' = [sig EXCEPT ![t].pc = "idle"] /\ UNCHANGED <<made, forkGen, refill>>
    BY DEF Pop
  <2>. HIDE DEF slot, k, head, size
  <2>4. new = pool
    BY <1>1 DEF PoolState
  <2>. QED
    BY <2>1, <2>2, <2>3, <2>4
<1>3. k = Ring(Proc(t), slot) /\ k \in Nat
  BY <1>1 DEF Ring, Pool, PoolState
<1>. HIDE DEF slot, k, head, size
<1>4. /\ pool \in PoolState /\ pool.gen = Pool(t).gen
      /\ \A i \in 0..Mask : pool.ring[i] = IF i = slot THEN 0 ELSE Pool(t).ring[i]
  <2>1. /\ ring \in [0..Mask -> Nat]
        /\ \A i \in 0..Mask : ring[i] = IF i = slot THEN 0 ELSE Pool(t).ring[i]
    BY <1>1 DEF PoolState
  <2>. HIDE DEF ring
  <2>. QED
    BY <1>1, <2>1 DEF PoolState
<1>. HIDE DEF ring, pool
<1>5. Proc(t) = "child" => OwnPool
  BY Parents DEF Pop, PoolInv, Generations, SigningThreads
<1>6. k = 0 \/ (k \in 1..made /\ k \notin Past)
  <2>1. k # 0 => k \notin Past
    BY <1>1, <1>3, <1>5 DEF PoolInv, RingsApart, Procs
  <2>2. k <= made /\ made \in Nat
    BY <1>1, <1>3 DEF PoolInv, RingsApart, PoolTypes
  <2>. QED
    BY <1>3, <2>1, <2>2
<1>7. /\ PastApart' /\ spent' \in Seq(Nat)
      /\ Past' = IF k = 0 THEN Past ELSE Past \cup {k}
  BY <1>2, <1>3, <1>6, Spent DEF PoolInv
<1>8. PoolTypes'
  BY <1>1, <1>2, <1>4, <1>7 DEF PoolInv, PoolTypes
<1>9. (OwnPool' <=> OwnPool) /\ pools'["parent"].gen = pools["parent"].gen
  BY <1>2, <1>4 DEF OwnPool, Pool, PoolInv, PoolTypes, Procs
<1>10. \A q \in Procs, i \in 0..Mask :
          Ring(q, i)' = IF q = Proc(t) /\ i = slot THEN 0 ELSE Ring(q, i)
  BY <1>1, <1>2, <1>4 DEF Ring, Pool, PoolInv, PoolTypes
<1>11. Generations'
  <2>1. sig'[Child] = sig[Child] \/ sig'[Child].pc = "idle"
    BY <1>2, Parents DEF RequestInv, SigState
  <2>. QED
    BY <1>2, <1>9, <2>1 DEF PoolInv, Generations
<1>12. RingsApart'
  <2>1. made' = made /\ made \in Nat /\ \A q \in Procs, i \in 0..Mask : Ring(q, i)' <= made
    <3>1. made' = made /\ made \in Nat /\ 0 <= made
      BY <1>2 DEF PoolInv, PoolTypes
    <3>2. \A q \in Procs, i \in 0..Mask : Ring(q, i) <= made
      BY DEF PoolInv, RingsApart
    <3>. QED
      BY <1>10, <3>1, <3>2
  <2>2. \A q \in Procs, i, j \in 0..Mask :
           i # j /\ Ring(q, i)' # 0 => Ring(q, i)' # Ring(q, j)'
    BY <1>10 DEF PoolInv, RingsApart
  <2>3. \A i \in 0..Mask : Ring("parent", i)' # 0 => Ring("parent", i)' \notin Past'
    BY <1>1, <1>3, <1>5, <1>7, <1>10 DEF PoolInv, RingsApart, Procs
  <2>4. OwnPool => \A i \in 0..Mask : Ring("child", i)' # 0 => Ring("child", i)' \notin Past'
    BY <1>1, <1>3, <1>7, <1>10 DEF PoolInv, RingsApart, Procs
  <2>5. OwnPool => \A i, j \in 0..Mask :
           Ring("parent", i)' # 0 => Ring("parent", i)' # Ring("child", j)'
    BY <1>10 DEF PoolInv, RingsApart, Procs
  <2>. QED
    BY <1>9, <2>1, <2>2, <2>3, <2>4, <2>5 DEF RingsApart
<1>13. HandsApart'
  <2>1. made' = made /\ refill' = refill /\ \A y \in Producers : Holds(y)' <=> Holds(y)
    BY <1>2 DEF Holds
  <2>2. \A y \in Producers : Holds(y) => refill[y].k # k /\ refill[y].k # 0
    BY <1>1, <1>3 DEF PoolInv, HandsApart
  <2>. QED
    BY <1>7, <1>10, <2>1, <2>2 DEF PoolInv, HandsApart, Producers
<1>. QED
  BY <1>7, <1>8, <1>11, <1>12, <1>13 DEF PoolInv

\* pop() on an empty ring only releases the lock.
LEMMA Popped ==
  ASSUME PoolInv, RequestInv, NEW t \in SigningThreads, Pop(t)
  PROVE  PoolInv'
<1>1. CASE Pool(t).head # Pool(t).tail
  BY <1>1, Taken
<1>2. CASE Pool(t).head = Pool(t).tail
  <2>. DEFINE pool == [Pool(t) EXCEPT !.lock = Free]
  <2>1. Proc(t) \in Procs /\ Pool(t) \in PoolState
    BY Parents DEF Pool, PoolInv, PoolTypes
  <2>2. pool \in PoolState /\ pool.ring = Pool(t).ring /\ pool.gen = Pool(t).gen
    BY <2>1 DEF PoolState
  <2>3. pools' = [pools EXCEPT ![Proc(t)] = pool] /\ UNCHANGED spent
    BY <1>2, <2>1 DEF Pop, Pool, PoolInv, PoolTypes
  <2>4. sig'[Child] = sig[Child] \/ sig'[Child].pc = "idle"
    BY Parents DEF Pop, RequestInv, SigState
  <2>5. refill' \in [Producers -> RefillState] /\ UNCHANGED <<made, forkGen, refill>>
    BY DEF Pop, PoolInv, PoolTypes
  <2>. HIDE DEF pool
  <2>. QED
    BY <2>1, <2>2, <2>3, <2>4, <2>5, PoolMarked DEF Holds, Pool
<1>. QED
  BY <1>1, <1>2

-----------------------------------------------------------------------------
\* Every step of the process preserves the invariant.
LEMMA PoolStep ==
  ASSUME PoolInv, RequestInv, [Next]_vars
  PROVE  PoolInv'
<1>1. CASE UNCHANGED signVars
  BY <1>1, PoolUntouched DEF signVars
<1>2. ASSUME NEW t \in Signers, ReadClock(t) \/ LoadLast(t) \/ CompareExchange(t)
      PROVE  PoolInv'
  BY <1>2, RequestNonces
<1>3. ASSUME NEW t \in SigningThreads, CheckPool(t) \/ SpinLock(t) \/ Pop(t)
      PROVE  PoolInv'
  BY <1>3, PoolChecked, Locked, Popped
<1>4. ASSUME NEW x \in Producers, RefillStep(x)
      PROVE  PoolInv'
  <2>1. CASE Push(x)
    BY <2>1, RefillMarks, Pushed
  <2>2. CASE ProduceNonce(x)
    BY <2>2, Produced
  <2>. QED
    BY <1>4, <2>1, <2>2, RefillMarks DEF RefillStep
<1>5. CASE JoinRefiller \/ StopPool \/ Fork \/ BeginChild
  BY <1>5, Joined, Stopped, Forked, ChildBegins
<1>6. CASE ClockMoves
  BY <1>6, PoolUntouched DEF ClockMoves
<1>7. ASSUME NEW p \in {"parent", "child"}, EnablePool(p)
      PROVE  PoolInv'
  BY <1>7, Enabled DEF Procs
<1>8. CASE SigningAction
  BY <1>8, <1>2, <1>3, <1>4, <1>5, <1>6, <1>7 DEF SigningAction
<1>9. UNCHANGED signVars \/ SigningAction
  BY Steps DEF vars
<1>. QED
  BY <1>1, <1>8, <1>9

\* No precomputed nonce signs twice: not in two threads, not after a refill, and
\* not in a parent and its forked child, whatever the size of the pool.
THEOREM NoncesUsedOnce == Spec => []NonceUsedOnce
<1>1. Init => RequestInv /\ PoolInv
  BY RequestInit, PoolInit
<1>2. RequestInv /\ PoolInv /\ [Next]_vars => RequestInv' /\ PoolInv'
  BY RequestStep, PoolStep
<1>3. PoolInv => NonceUsedOnce
  BY DEF PoolInv, PastApart
<1>. QED
  BY <1>1, <1>2, <1>3, PTL DEF Spec
=============================================================================
