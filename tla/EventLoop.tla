------------------------------ MODULE EventLoop ------------------------------
(***************************************************************************)
(* The epoll loop of src/net/EventLoop.cpp: run() and the phases of        *)
(* runOnce() on the loop's thread (wait, dispatch the batch, due timers,   *)
(* posted tasks), and postThreadSafe() and stop() called by other threads. *)
(*                                                                         *)
(* The handlers are streams: each has a descriptor registered with the     *)
(* loop and one timer, as TlsStream does.  A callback (an I/O event, a     *)
(* timer or a posted task) may open and close any stream, post a task and  *)
(* stop the loop.  The kernel gives a new descriptor the lowest free       *)
(* number, so closing one stream and opening another inside a callback     *)
(* reuses a number that events later in the same batch still carry.        *)
(***************************************************************************)
EXTENDS Integers, Sequences, FiniteSets, Functions

CONSTANTS Streams,    \* the handlers
          Fds,        \* descriptor numbers the kernel hands out
          Posters,    \* threads other than the loop's that post tasks
          LoopThread, \* the thread that calls run()
          BatchSize,  \* events one epoll_wait returns (64 in the code)
          Delays      \* timer delays, in clock ticks

ASSUME LoopAssumption ==
    /\ Fds \subseteq Nat \ {0}
    /\ Cardinality(Fds) >= Cardinality(Streams)
    /\ LoopThread \notin Posters
    /\ BatchSize \in Nat \ {0}
    /\ Delays \subseteq Nat

VARIABLES
    loop,      \* the loop thread: [pc, batch, now, tasks, callback]
    regs,      \* registrations_: descriptor -> [handler, generation]
    nextGen,   \* nextGeneration_
    timers,    \* timers_: by deadline, equal deadlines in order of insertion
    nextTimer, \* nextTimerId_
    posted,    \* shared_->posted
    wake,      \* the eventfd is readable
    stop,      \* shared_->stop
    calling,   \* calling[t]: what another thread still has to do of its call
    streams,   \* streams[s]: [fd, timer, life]; life counts its descriptors
    ready,     \* descriptors with input the owner has not read
    clock,     \* CLOCK_MONOTONIC
    sent,      \* sent[t]: tasks thread t has posted
    budget     \* what the environment may still do

loopVars == <<loop, regs, nextGen, timers, nextTimer, posted, wake, stop,
              calling, streams, ready, clock, sent, budget>>

\* The code running on the loop's thread: none of the application's, main()
\* around run(), or a callback.
None == [kind |-> "none"]
Main == [kind |-> "main"]
Registered(fd) == fd \in DOMAIN regs
Open(s) == streams[s].fd # 0
Spend(what) == budget[what] > 0 /\ budget' = [budget EXCEPT ![what] = @ - 1]

\* main() has opened the streams of opened, in some order, and calls run().
LoopInit(opened) ==
    \E order \in {f \in [1..Cardinality(opened) -> opened] : IsInjective(f)},
       delay \in Delays :
    /\ loop = [pc |-> "run", batch |-> <<>>, now |-> 0, tasks |-> <<>>,
               callback |-> None]
    /\ streams = [s \in Streams |->
                    IF s \in opened
                    THEN LET n == CHOOSE i \in DOMAIN order : order[i] = s
                         IN  [fd |-> n, timer |-> n, life |-> 1]
                    ELSE [fd |-> 0, timer |-> 0, life |-> 0]]
    /\ regs = [fd \in DOMAIN order |-> [handler |-> order[fd], gen |-> fd]]
    /\ timers = [i \in DOMAIN order |-> [at |-> delay, id |-> i, stream |-> order[i]]]
    /\ nextGen = Len(order) + 1
    /\ nextTimer = Len(order) + 1
    /\ posted = <<>>
    /\ wake = FALSE
    /\ stop = FALSE
    /\ calling = [t \in Posters |-> "nothing"]
    /\ ready = {}
    /\ clock = 0
    /\ sent = [t \in Posters \cup {LoopThread} |-> 0]

-----------------------------------------------------------------------------
(* What a callback, or main() before and between runs, may do.             *)

\* addTimer: the multimap keeps equal deadlines in insertion order.
AddTimer(s, delay) ==
    LET t == [at |-> clock + delay, id |-> nextTimer, stream |-> s]
        before == SelectSeq(timers, LAMBDA x : x.at <= t.at)
        after  == SelectSeq(timers, LAMBDA x : x.at > t.at)
    IN  /\ timers' = before \o <<t>> \o after
        /\ nextTimer' = nextTimer + 1

CancelTimer(id) == timers' = SelectSeq(timers, LAMBDA x : x.id # id)

\* add: every registration gets a generation of its own.
Add(fd, s) ==
    /\ regs' = [f \in DOMAIN regs \cup {fd} |->
                  IF f = fd THEN [handler |-> s, gen |-> nextGen] ELSE regs[f]]
    /\ nextGen' = nextGen + 1

Remove(fd) == regs' = Restrict(regs, DOMAIN regs \ {fd})

FreeFds == Fds \ {streams[s].fd : s \in Streams}

\* TlsStream::startAttempt: a socket, its registration and its deadline.
OpenStream(s) ==
    /\ loop.callback # None
    /\ ~Open(s)
    /\ Spend("opens")
    /\ LET fd == CHOOSE f \in FreeFds : \A g \in FreeFds : f <= g IN
       /\ Add(fd, s)
       /\ \E delay \in Delays :
             /\ AddTimer(s, delay)
             /\ streams' = [streams EXCEPT ![s] =
                   [fd |-> fd, timer |-> nextTimer, life |-> @.life + 1]]
    /\ UNCHANGED <<loop, posted, wake, stop, calling, ready, clock, sent>>

\* TlsStream::closeSocket: cancel the timer, deregister, close.
CloseStream(s) ==
    /\ loop.callback # None
    /\ Open(s)
    /\ CancelTimer(streams[s].timer)
    /\ Remove(streams[s].fd)
    /\ ready' = ready \ {streams[s].fd}
    /\ streams' = [streams EXCEPT ![s].fd = 0, ![s].timer = 0]
    /\ UNCHANGED <<loop, nextGen, nextTimer, posted, wake, stop, calling, clock,
                   sent, budget>>

Enqueue(t) ==
    /\ posted' = Append(posted, [from |-> t, n |-> sent[t] + 1])
    /\ sent' = [sent EXCEPT ![t] = @ + 1]

\* postThreadSafe called on the loop's own thread: nobody waits in between.
PostFromCallback ==
    /\ loop.callback # None
    /\ Spend("posts")
    /\ Enqueue(LoopThread)
    /\ wake' = TRUE
    /\ UNCHANGED <<loop, regs, nextGen, timers, nextTimer, stop, calling,
                   streams, ready, clock>>

StopFromCallback ==
    /\ loop.callback # None
    /\ Spend("stops")
    /\ stop' = TRUE
    /\ wake' = TRUE
    /\ UNCHANGED <<loop, regs, nextGen, timers, nextTimer, posted, calling,
                   streams, ready, clock, sent>>

CallbackReturns ==
    /\ loop.callback # None
    /\ loop.pc # "returned"
    /\ loop' = [loop EXCEPT !.callback = None]
    /\ UNCHANGED <<regs, nextGen, timers, nextTimer, posted, wake, stop,
                   calling, streams, ready, clock, sent, budget>>

-----------------------------------------------------------------------------
(* run() and runOnce() on the loop's thread.                               *)

Phase(pc) == loop.callback = None /\ loop.pc = pc

\* while (!stop), and the request consumed as run() returns: one made in
\* between is consumed with it.
RunStops ==
    /\ Phase("run")
    /\ stop
    /\ loop' = [loop EXCEPT !.pc = "consume"]
    /\ UNCHANGED <<regs, nextGen, timers, nextTimer, posted, wake, stop,
                   calling, streams, ready, clock, sent, budget>>

RunReturns ==
    /\ Phase("consume")
    /\ stop' = FALSE
    /\ loop' = [loop EXCEPT !.pc = "returned", !.callback = Main]
    /\ UNCHANGED <<regs, nextGen, timers, nextTimer, posted, wake, calling,
                   streams, ready, clock, sent, budget>>

RunAgain ==
    /\ loop.pc = "returned"
    /\ Spend("runs")
    /\ loop' = [loop EXCEPT !.pc = "run", !.callback = None]
    /\ UNCHANGED <<regs, nextGen, timers, nextTimer, posted, wake, stop,
                   calling, streams, ready, clock, sent>>

RunContinues ==
    /\ Phase("run")
    /\ ~stop
    /\ loop' = [loop EXCEPT !.pc = "wait"]
    /\ UNCHANGED <<regs, nextGen, timers, nextTimer, posted, wake, stop,
                   calling, streams, ready, clock, sent, budget>>

\* What epoll_wait can report: the eventfd and the registered descriptors with
\* input, tagged with the generation they were registered under.  owner is who
\* the event is for.
WakeTag == [kind |-> "wake"]
Event(fd) ==
    LET s == regs[fd].handler
    IN  [kind |-> "io", fd |-> fd, gen |-> regs[fd].gen,
         owner |-> <<s, streams[s].life>>]
Reportable == (IF wake THEN {WakeTag} ELSE {})
              \cup {Event(fd) : fd \in ready \cap DOMAIN regs}
Batches ==
    LET n == IF Cardinality(Reportable) < BatchSize
             THEN Cardinality(Reportable) ELSE BatchSize
    IN  {b \in [1..n -> Reportable] : IsInjective(b)}

\* nextTimeoutMs: the wait ends at the first deadline.
TimerDue(now) == timers # <<>> /\ Head(timers).at <= now

EpollWait ==
    /\ Phase("wait")
    /\ IF Reportable = {} THEN TimerDue(clock) ELSE TRUE
    /\ \E batch \in Batches : loop' = [loop EXCEPT !.pc = "batch", !.batch = batch]
    /\ UNCHANGED <<regs, nextGen, timers, nextTimer, posted, wake, stop,
                   calling, streams, ready, clock, sent, budget>>

\* A signal ends the wait with no event.
Interrupted ==
    /\ Phase("wait")
    /\ Spend("signals")
    /\ loop' = [loop EXCEPT !.pc = "batch", !.batch = <<>>]
    /\ UNCHANGED <<regs, nextGen, timers, nextTimer, posted, wake, stop,
                   calling, streams, ready, clock, sent>>

\* Whoever has the descriptor's number now gets the event.
DispatchByFd ==
    /\ Phase("batch")
    /\ loop.batch # <<>>
    /\ LET e == Head(loop.batch)
           current == e.kind = "io" /\ Registered(e.fd)
       IN  /\ wake' = (wake /\ e.kind # "wake")
           /\ ready' = IF current THEN ready \ {e.fd} ELSE ready
           /\ loop' = [loop EXCEPT !.batch = Tail(@),
                 !.callback = IF current
                              THEN [kind |-> "io", stream |-> regs[e.fd].handler]
                              ELSE None]
    /\ UNCHANGED <<regs, nextGen, timers, nextTimer, posted, stop, calling,
                   streams, clock, sent, budget>>

\* One iteration over the batch: the eventfd is drained; an event whose
\* descriptor was removed or registered again since is skipped; the handler
\* reads all its input.
Dispatch ==
    /\ Phase("batch")
    /\ loop.batch # <<>>
    /\ LET e == Head(loop.batch)
           current == e.kind = "io" /\ Registered(e.fd) /\ regs[e.fd].gen = e.gen
       IN  /\ wake' = (wake /\ e.kind # "wake")
           /\ ready' = IF current THEN ready \ {e.fd} ELSE ready
           /\ loop' = [loop EXCEPT !.batch = Tail(@),
                 !.callback = IF current
                              THEN [kind |-> "io", stream |-> regs[e.fd].handler]
                              ELSE None]
    /\ UNCHANGED <<regs, nextGen, timers, nextTimer, posted, stop, calling,
                   streams, clock, sent, budget>>

\* runTimers reads the clock once...
StartTimers ==
    /\ Phase("batch")
    /\ loop.batch = <<>>
    /\ loop' = [loop EXCEPT !.pc = "timers", !.now = clock]
    /\ UNCHANGED <<regs, nextGen, timers, nextTimer, posted, wake, stop,
                   calling, streams, ready, clock, sent, budget>>

\* ...and takes a timer off both indexes before it runs its task, which
\* forgets the timer's id.
FireTimer ==
    /\ Phase("timers")
    /\ TimerDue(loop.now)
    /\ LET t == Head(timers) IN
       /\ timers' = Tail(timers)
       /\ streams' = [streams EXCEPT ![t.stream].timer = 0]
       /\ loop' = [loop EXCEPT !.callback =
                     [kind |-> "timer", stream |-> t.stream]]
    /\ UNCHANGED <<regs, nextGen, nextTimer, posted, wake, stop, calling,
                   ready, clock, sent, budget>>


\* runPosted takes the whole queue under the lock.
SwapPosted ==
    /\ Phase("timers")
    /\ ~TimerDue(loop.now)
    /\ loop' = [loop EXCEPT !.pc = "tasks", !.tasks = posted]
    /\ posted' = <<>>
    /\ UNCHANGED <<regs, nextGen, timers, nextTimer, wake, stop, calling,
                   streams, ready, clock, sent, budget>>

RunTask ==
    /\ Phase("tasks")
    /\ loop.tasks # <<>>
    /\ loop' = [loop EXCEPT !.tasks = Tail(@),
                 !.callback = [kind |-> "task", task |-> Head(loop.tasks)]]
    /\ UNCHANGED <<regs, nextGen, timers, nextTimer, posted, wake, stop,
                   calling, streams, ready, clock, sent, budget>>

\* Draining the eventfd after the posted tasks were taken.
RunOnceDrainsLate ==
    /\ Phase("tasks")
    /\ loop.tasks = <<>>
    /\ loop' = [loop EXCEPT !.pc = "run", !.now = 0]
    /\ wake' = FALSE
    /\ UNCHANGED <<regs, nextGen, timers, nextTimer, posted, stop, calling,
                   streams, ready, clock, sent, budget>>

RunOnceReturns ==
    /\ Phase("tasks")
    /\ loop.tasks = <<>>
    /\ loop' = [loop EXCEPT !.pc = "run", !.now = 0]
    /\ UNCHANGED <<regs, nextGen, timers, nextTimer, posted, wake, stop,
                   calling, streams, ready, clock, sent, budget>>

-----------------------------------------------------------------------------
(* Other threads, the kernel and the clock.                                *)

\* postThreadSafe: the push under the lock, then the eventfd.
PostThreadSafe(t) ==
    /\ calling[t] = "nothing"
    /\ Spend("posts")
    /\ Enqueue(t)
    /\ calling' = [calling EXCEPT ![t] = "wake"]
    /\ UNCHANGED <<loop, regs, nextGen, timers, nextTimer, wake, stop,
                   streams, ready, clock>>

\* stop: the flag, then the eventfd.
Stop(t) ==
    /\ calling[t] = "nothing"
    /\ Spend("stops")
    /\ stop' = TRUE
    /\ calling' = [calling EXCEPT ![t] = "wake"]
    /\ UNCHANGED <<loop, regs, nextGen, timers, nextTimer, posted, wake,
                   streams, ready, clock, sent>>

WriteWakeFd(t) ==
    /\ calling[t] = "wake"
    /\ wake' = TRUE
    /\ calling' = [calling EXCEPT ![t] = "nothing"]
    /\ UNCHANGED <<loop, regs, nextGen, timers, nextTimer, posted, stop,
                   streams, ready, clock, sent, budget>>

DataArrives(s) ==
    /\ Open(s)
    /\ streams[s].fd \notin ready
    /\ Spend("data")
    /\ ready' = ready \cup {streams[s].fd}
    /\ UNCHANGED <<loop, regs, nextGen, timers, nextTimer, posted, wake, stop,
                   calling, streams, clock, sent>>

Tick ==
    /\ Spend("ticks")
    /\ clock' = clock + 1
    /\ UNCHANGED <<loop, regs, nextGen, timers, nextTimer, posted, wake, stop,
                   calling, streams, ready, sent>>

=============================================================================
