------------------------------- MODULE Signing -------------------------------
(***************************************************************************)
(* What threads share when they sign: NonceGenerator::next() of            *)
(* src/om/Actions.cpp (a compare-exchange loop over the wall clock) and    *)
(* the pool of precomputed ECDSA nonces of src/crypto/Signer.cpp (a ring   *)
(* under a spin lock, filled by a background thread and emptied by every   *)
(* signer), across a fork().                                               *)
(*                                                                         *)
(* A precomputed nonce is a number: every one produced is new (32 random   *)
(* bytes and a counter).  0 is a wiped slot.  The child process is one     *)
(* thread working on a copy of the parent's memory as it was at the fork,  *)
(* locks included.                                                         *)
(***************************************************************************)
EXTENDS Integers, Sequences, FiniteSets

CONSTANTS Signers,     \* threads of the parent that sign
          Child,       \* the only thread of the forked child
          Refiller,    \* the parent's refill thread
          Capacity,    \* as asked of enableNoncePool
          Slots,       \* size of the ring
          RefillCount  \* entries one refill() adds at most (64 in the code)

ASSUME SigningAssumption ==
    /\ Child \notin Signers /\ Refiller \notin Signers /\ Child # Refiller
    /\ Capacity \in Nat \ {0}
    /\ RefillCount \in Nat \ {0}

\* enableNoncePool: the capacity is rounded up to the next power of two.
ASSUME SlotsAssumption ==
    /\ Slots \in Nat \ {0}
    /\ \E i \in 0..Capacity : Slots = 2^i
    /\ Slots >= Capacity /\ Slots \div 2 < Capacity

VARIABLES
    wall,     \* system_clock: may be stepped in either direction
    last,     \* NonceGenerator::last_
    sig,      \* sig[t]: where thread t is in next() and signDigest()
    pools,    \* pools[p]: the process's Signer::NoncePool
    forkGen,  \* forkGen[p]: gForkGeneration
    refill,   \* refill[x]: where a producer is in refill()
    made,     \* precomputed nonces produced, in both processes
    issued,   \* request nonces returned by next(), in order
    spent,    \* precomputed nonces signatures were made with, in order
    allowed   \* what the environment may still do

signVars == <<wall, last, sig, pools, forkGen, refill, made, issued, spent, allowed>>

Free == "free"
SigningThreads == Signers \cup {Child}
Producers == {Refiller, Child}
Proc(t) == IF t = Child THEN "child" ELSE "parent"
Use(what) == allowed[what] > 0 /\ allowed' = [allowed EXCEPT ![what] = @ - 1]

Mask == Slots - 1

NewPool(generation) ==
    [on |-> TRUE, ring |-> [i \in 0..Mask |-> 0], head |-> 0, tail |-> 0,
     size |-> 0, lock |-> Free, refilling |-> FALSE, stop |-> FALSE,
     gen |-> generation]
NoPool == [NewPool(0) EXCEPT !.on = FALSE]

Idle == [pc |-> "idle", now |-> 0, prev |-> 0]
NotRefilling == [pc |-> "idle", added |-> 0, attempts |-> 0, k |-> 0]

\* The pool is optional (ExchangeConfig::precomputedNonces).
SignInit(pooled) ==
    /\ wall = 1
    /\ last = 0
    /\ sig = [t \in SigningThreads |-> Idle]
    /\ pools = [parent |-> IF pooled THEN NewPool(0) ELSE NoPool, child |-> NoPool]
    /\ forkGen = [parent |-> 0, child |-> 0]
    /\ refill = [x \in Producers |-> NotRefilling]
    /\ made = 0
    /\ issued = <<>>
    /\ spent = <<>>

-----------------------------------------------------------------------------
(* NonceGenerator::next().                                                 *)

\* The parent's threads take a request nonce and then sign with it.  Enabling
\* and disabling the pool must not race with signing: none starts meanwhile.
ReadClock(t) ==
    /\ t \in Signers
    /\ sig[t].pc = "idle"
    /\ ~pools["parent"].stop
    /\ sig' = [sig EXCEPT ![t] = [pc |-> "load", now |-> wall, prev |-> 0]]
    /\ UNCHANGED <<wall, last, pools, forkGen, refill, made, issued, spent>>

LoadLast(t) ==
    /\ sig[t].pc = "load"
    /\ sig' = [sig EXCEPT ![t].pc = "exchange", ![t].prev = last]
    /\ UNCHANGED <<wall, last, pools, forkGen, refill, made, issued, spent, allowed>>

Candidate(t) == IF sig[t].now > sig[t].prev THEN sig[t].now ELSE sig[t].prev + 1

\* Without the exchange: a store over whatever another thread stored.
StoreLast(t) ==
    /\ sig[t].pc = "exchange"
    /\ last' = Candidate(t)
    /\ issued' = Append(issued, Candidate(t))
    /\ sig' = [sig EXCEPT ![t] = [Idle EXCEPT !.pc = "sign"]]
    /\ UNCHANGED <<wall, pools, forkGen, refill, made, spent, allowed>>

\* compare_exchange_weak: on failure prev becomes the value found (after a
\* spurious failure it is the value it had).
CompareExchange(t) ==
    /\ sig[t].pc = "exchange"
    /\ IF last = sig[t].prev
       THEN /\ last' = Candidate(t)
            /\ issued' = Append(issued, Candidate(t))
            /\ sig' = [sig EXCEPT ![t] = [Idle EXCEPT !.pc = "sign"]]
       ELSE /\ sig' = [sig EXCEPT ![t].prev = last]
            /\ UNCHANGED <<last, issued>>
    /\ UNCHANGED <<wall, pools, forkGen, refill, made, spent, allowed>>

-----------------------------------------------------------------------------
(* signDigest(): the pool if it may be used and has an entry, RFC 6979     *)
(* otherwise.                                                              *)

Pool(t) == pools[Proc(t)]

BeginChild ==
    /\ forkGen["child"] > 0
    /\ sig[Child].pc = "idle"
    /\ refill[Child].pc = "idle"
    /\ Use("childSigns")
    /\ sig' = [sig EXCEPT ![Child].pc = "sign"]
    /\ UNCHANGED <<wall, last, pools, forkGen, refill, made, issued, spent>>

\* Without the generation: a forked child takes from the pool it inherited.
CheckSizeOnly(t) ==
    /\ sig[t].pc = "sign"
    /\ sig' = [sig EXCEPT ![t].pc =
                 IF Pool(t).on /\ Pool(t).size # 0 THEN "lock" ELSE "idle"]
    /\ UNCHANGED <<wall, last, pools, forkGen, refill, made, issued, spent, allowed>>

\* The generation of the pool and, without the lock, its size.
CheckPool(t) ==
    /\ sig[t].pc = "sign"
    /\ sig' = [sig EXCEPT ![t].pc =
                 IF Pool(t).on /\ Pool(t).gen = forkGen[Proc(t)] /\ Pool(t).size # 0
                 THEN "lock" ELSE "idle"]
    /\ UNCHANGED <<wall, last, pools, forkGen, refill, made, issued, spent, allowed>>

SpinLock(t) ==
    /\ sig[t].pc = "lock"
    /\ Pool(t).lock = Free
    /\ pools' = [pools EXCEPT ![Proc(t)].lock = t]
    /\ sig' = [sig EXCEPT ![t].pc = "pop"]
    /\ UNCHANGED <<wall, last, forkGen, refill, made, issued, spent, allowed>>

Take(pool) ==
    [pool EXCEPT !.ring[pool.head % Slots] = 0, !.head = pool.head + 1,
                 !.size = pool.tail - (pool.head + 1), !.lock = Free]

\* Without looking again under the lock.
PopUnchecked(t) ==
    /\ sig[t].pc = "pop"
    /\ LET pool == Pool(t)
           k == pool.ring[pool.head % Slots]
       IN  /\ pools' = [pools EXCEPT ![Proc(t)] = Take(pool)]
           /\ spent' = IF k = 0 THEN spent ELSE Append(spent, k)
    /\ sig' = [sig EXCEPT ![t].pc = "idle"]
    /\ UNCHANGED <<wall, last, forkGen, refill, made, issued, allowed>>

\* Returning on an empty ring with the lock held.
PopLeaksLock(t) ==
    /\ sig[t].pc = "pop"
    /\ LET pool == Pool(t)
           k == pool.ring[pool.head % Slots]
       IN  IF pool.head = pool.tail
           THEN UNCHANGED <<pools, spent>>
           ELSE /\ pools' = [pools EXCEPT ![Proc(t)] = Take(pool)]
                /\ spent' = IF k = 0 THEN spent ELSE Append(spent, k)
    /\ sig' = [sig EXCEPT ![t].pc = "idle"]
    /\ UNCHANGED <<wall, last, forkGen, refill, made, issued, allowed>>

\* pop() under the lock.  An empty ring, and an entry that gives s = 0 (which
\* a wiped one does), leave the signature to RFC 6979.
Pop(t) ==
    /\ sig[t].pc = "pop"
    /\ LET pool == Pool(t)
           k == pool.ring[pool.head % Slots]
       IN  IF pool.head = pool.tail
           THEN /\ pools' = [pools EXCEPT ![Proc(t)].lock = Free]
                /\ UNCHANGED spent
           ELSE /\ pools' = [pools EXCEPT ![Proc(t)] = Take(pool)]
                /\ spent' = IF k = 0 THEN spent ELSE Append(spent, k)
    /\ sig' = [sig EXCEPT ![t].pc = "idle"]
    /\ UNCHANGED <<wall, last, forkGen, refill, made, issued, allowed>>

-----------------------------------------------------------------------------
(* refill(), on the refill thread or called by the child.                  *)

\* Producers are serialised: a second one returns at once.
BeginRefill(x) ==
    /\ refill[x].pc = "idle"
    /\ Pool(x).on /\ ~Pool(x).stop
    /\ Pool(x).size <= Mask
    /\ ~Pool(x).refilling
    /\ x = Child => sig[Child].pc = "idle"
    /\ IF x = Child THEN Use("childRefills") ELSE UNCHANGED allowed
    /\ pools' = [pools EXCEPT ![Proc(x)].refilling = TRUE]
    /\ refill' = [refill EXCEPT ![x] =
          [pc |-> "produce", added |-> 0, attempts |-> 4 * RefillCount + 8, k |-> 0]]
    /\ UNCHANGED <<wall, last, sig, forkGen, made, issued, spent>>

MoreToRefill(x) ==
    /\ refill[x].added < RefillCount
    /\ refill[x].attempts > 0
    /\ Pool(x).size <= Mask
    /\ ~Pool(x).stop

ProduceNonce(x) ==
    /\ refill[x].pc = "produce"
    /\ MoreToRefill(x)
    /\ Use("entries")
    /\ made' = made + 1
    /\ refill' = [refill EXCEPT ![x].pc = "lock", ![x].attempts = @ - 1, ![x].k = made + 1]
    /\ UNCHANGED <<wall, last, sig, pools, forkGen, issued, spent>>

\* From some point on the CSPRNG fails for good, and the attempts run out.
ProduceFails(x) ==
    /\ refill[x].pc = "produce"
    /\ MoreToRefill(x)
    /\ allowed["entries"] = 0
    /\ refill' = [refill EXCEPT ![x].attempts = 0]
    /\ UNCHANGED <<wall, last, sig, pools, forkGen, made, issued, spent, allowed>>

PushLock(x) ==
    /\ refill[x].pc = "lock"
    /\ Pool(x).lock = Free
    /\ pools' = [pools EXCEPT ![Proc(x)].lock = x]
    /\ refill' = [refill EXCEPT ![x].pc = "push"]
    /\ UNCHANGED <<wall, last, sig, forkGen, made, issued, spent, allowed>>

\* push(): false, which ends the refill, when the ring is full.
Push(x) ==
    /\ refill[x].pc = "push"
    /\ LET pool == Pool(x)
           full == pool.tail - pool.head > Mask
       IN  /\ pools' = [pools EXCEPT ![Proc(x)] =
                 IF full THEN [pool EXCEPT !.lock = Free, !.refilling = FALSE]
                 ELSE [pool EXCEPT !.ring[pool.tail % Slots] = refill[x].k,
                                   !.tail = pool.tail + 1, !.lock = Free,
                                   !.size = pool.tail + 1 - pool.head]]
           /\ refill' = [refill EXCEPT ![x] =
                 IF full THEN NotRefilling
                 ELSE [refill[x] EXCEPT !.pc = "produce", !.added = refill[x].added + 1,
                                        !.k = 0]]
    /\ UNCHANGED <<wall, last, sig, forkGen, made, issued, spent, allowed>>

EndRefill(x) ==
    /\ refill[x].pc = "produce"
    /\ ~MoreToRefill(x)
    /\ pools' = [pools EXCEPT ![Proc(x)].refilling = FALSE]
    /\ refill' = [refill EXCEPT ![x] = NotRefilling]
    /\ UNCHANGED <<wall, last, sig, forkGen, made, issued, spent, allowed>>

-----------------------------------------------------------------------------
(* The pool's life, fork() and the clock.                                  *)

\* disableNoncePool, and enableNoncePool's first act: ask the refill thread
\* to stop, join it, wipe the entries.
StopPool ==
    /\ pools["parent"].on /\ ~pools["parent"].stop
    /\ \A t \in Signers : sig[t].pc = "idle"
    /\ Use("disables")
    /\ pools' = [pools EXCEPT !["parent"].stop = TRUE]
    /\ UNCHANGED <<wall, last, sig, forkGen, refill, made, issued, spent>>

JoinRefiller ==
    /\ pools["parent"].on /\ pools["parent"].stop
    /\ refill[Refiller].pc = "idle"
    /\ pools' = [pools EXCEPT !["parent"] = NoPool]
    /\ UNCHANGED <<wall, last, sig, forkGen, refill, made, issued, spent, allowed>>

\* In the parent after a disable; in the child over the pool it inherited,
\* whose thread does not exist there and is detached instead of joined.
EnablePool(p) ==
    /\ p = "parent" => ~pools[p].on /\ \A t \in Signers : sig[t].pc = "idle"
    /\ p = "child" => forkGen[p] > 0 /\ sig[Child].pc = "idle" /\ refill[Child].pc = "idle"
    /\ Use("enables")
    /\ pools' = [pools EXCEPT ![p] = NewPool(forkGen[p])]
    /\ UNCHANGED <<wall, last, sig, forkGen, refill, made, issued, spent>>

\* fork() in a thread that is not signing: the child gets the memory as it is
\* and onForkChild runs in it.
Fork ==
    /\ forkGen["child"] = 0
    /\ Use("forks")
    /\ pools' = [pools EXCEPT !["child"] = pools["parent"]]
    /\ forkGen' = [forkGen EXCEPT !["child"] = forkGen["parent"] + 1]
    /\ UNCHANGED <<wall, last, sig, refill, made, issued, spent>>

ClockMoves ==
    /\ Use("clock")
    /\ wall' \in {wall - 1, wall + 1, wall + 2} \cap Nat
    /\ UNCHANGED <<last, sig, pools, forkGen, refill, made, issued, spent>>

-----------------------------------------------------------------------------
NonceStep(t) == LoadLast(t) \/ CompareExchange(t)
DigestStep(t) == CheckPool(t) \/ SpinLock(t) \/ Pop(t)
SignStep(t) == NonceStep(t) \/ DigestStep(t)
RefillStep(x) == BeginRefill(x) \/ ProduceNonce(x) \/ ProduceFails(x) \/ PushLock(x)
                 \/ Push(x) \/ EndRefill(x)
=============================================================================
