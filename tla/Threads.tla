------------------------------- MODULE Threads -------------------------------
(***************************************************************************)
(* The threads of a process that uses the library: the loop's thread, the  *)
(* application's threads that post to it (and may sign by themselves, with *)
(* the generator and the signer they share with it), the pool's refill     *)
(* thread, and a forked child.  A posted task signs one request, as a task *)
(* that places an order does.                                              *)
(***************************************************************************)
EXTENDS EventLoop, Signing

CONSTANT Scenarios  \* [opened, pooled, loop, signing]: the start and the budgets

ASSUME ThreadsAssumption == Signers = Posters \cup {LoopThread}

vars == <<loopVars, signVars>>

Init ==
    \E s \in Scenarios :
       /\ LoopInit(s.opened)
       /\ SignInit(s.pooled)
       /\ budget = s.loop
       /\ allowed = s.signing

InLoop(A) == A /\ UNCHANGED signVars
InSigning(A) == A /\ UNCHANGED loopVars

NotSigning(t) == sig[t].pc = "idle"

\* A task signs before it returns.
TaskSigns == RunTask /\ ReadClock(LoopThread) /\ UNCHANGED allowed
Return == NotSigning(LoopThread) /\ InLoop(CallbackReturns)

ThreadSigns(t) ==
    /\ calling[t] = "nothing"
    /\ Use("signs")
    /\ InSigning(ReadClock(t))

LoopThreadStep ==
    \/ InLoop(RunStops \/ RunReturns \/ RunContinues \/ EpollWait \/ Dispatch
              \/ StartTimers \/ FireTimer \/ SwapPosted \/ RunOnceReturns)
    \/ TaskSigns
    \/ Return
    \/ InSigning(SignStep(LoopThread))

CallbackWorks ==
    /\ NotSigning(LoopThread)
    /\ InLoop((\E s \in Streams : OpenStream(s) \/ CloseStream(s))
              \/ PostFromCallback \/ StopFromCallback)

PosterCalls(t) ==
    \/ NotSigning(t) /\ InLoop(PostThreadSafe(t) \/ Stop(t))
    \/ ThreadSigns(t)

PosterStep(t) ==
    \/ InLoop(WriteWakeFd(t))
    \/ InSigning(SignStep(t))

ChildStep == InSigning(DigestStep(Child) \/ RefillStep(Child))

RefillerStep == InSigning(RefillStep(Refiller))

PoolCalls ==
    InSigning(StopPool \/ (\E p \in {"parent", "child"} : EnablePool(p)) \/ Fork
              \/ BeginChild)

Kernel ==
    \/ InLoop((\E s \in Streams : DataArrives(s)) \/ Tick \/ Interrupted \/ RunAgain)
    \/ InSigning(ClockMoves)

Next ==
    \/ LoopThreadStep
    \/ CallbackWorks
    \/ \E t \in Posters : PosterCalls(t) \/ PosterStep(t)
    \/ ChildStep
    \/ RefillerStep
    \/ InSigning(JoinRefiller)
    \/ PoolCalls
    \/ Kernel

Spec == Init /\ [][Next]_vars

\* Every thread runs: the loop's (callbacks return), the posters in a call they
\* have begun, the refill thread, the one that joins it, and the child.
FairSpec ==
    /\ Spec
    /\ WF_vars(LoopThreadStep)
    /\ \A t \in Posters : WF_vars(PosterStep(t))
    /\ WF_vars(ChildStep)
    /\ WF_vars(RefillerStep)
    /\ WF_vars(InSigning(JoinRefiller))

-----------------------------------------------------------------------------
\* runOnce's generation check, cancelTimer and the timer index: an I/O event
\* reaches the stream it was reported for, in the life of the descriptor it was
\* reported for, and a timer runs only for a stream that still has it, and not
\* before its deadline - whatever the callbacks before it in the same batch
\* closed and opened.
CallbacksReachTheirOwner ==
    [][LET c == loop'.callback
           begins == loop.callback = None /\ c # None
       IN  /\ (begins /\ c.kind = "io") =>
                Head(loop.batch).owner = <<c.stream, streams[c.stream].life>>
                /\ Open(c.stream)
           /\ (begins /\ c.kind = "timer") =>
                streams[c.stream].timer = Head(timers).id /\ Head(timers).at <= clock
      ]_vars


\* postThreadSafe, stop and the eventfd: the loop does not sleep on a posted
\* task or a stop request.  Posted tasks are taken and a stop makes run() return.
NoLostWakeup == (posted # <<>> \/ stop) ~> (loop.pc = "returned" \/ (posted = <<>> /\ ~stop))

\* NonceGenerator::next under concurrent callers and a wall clock stepped back:
\* every nonce is larger than every nonce returned before it.
NoncesIncrease == \A i, j \in 1..Len(issued) : i < j => issued[i] < issued[j]

\* pop, push, the lock and the fork generation: no precomputed nonce is used for
\* two signatures, in the process that made it or in a forked child.
NonceUsedOnce == \A i, j \in 1..Len(spent) : i # j => spent[i] # spent[j]

\* The ring under its lock: what lies between head and tail is what has been
\* pushed and not popped, in order, and size tells how much that is.
PoolIntact ==
    \A p \in {"parent", "child"} :
       LET pool == pools[p]
           live == [i \in 1..(pool.tail - pool.head) |->
                       pool.ring[(pool.head + i - 1) % Slots]]
       IN  /\ pool.head <= pool.tail /\ pool.tail - pool.head <= Slots
           /\ pool.size = pool.tail - pool.head
           /\ \A i \in DOMAIN live : live[i] # 0 /\ (p = "parent" =>
                 \A j \in 1..Len(spent) : live[i] # spent[j])
           /\ \A i, j \in DOMAIN live : i < j => live[i] < live[j]

\* signDigest never waits for good: neither for the refill thread, nor in a
\* child for a lock that a thread of the parent held at the fork; and
\* disableNoncePool's join ends, also while the CSPRNG fails.
Busy == \/ \E t \in SigningThreads : sig[t].pc # "idle"
        \/ pools["parent"].on /\ pools["parent"].stop
SigningEnds == Busy ~> ~Busy
=============================================================================
