------------------------------ MODULE MCThreads ------------------------------
(***************************************************************************)
(* Four scenarios: callbacks that close and reopen streams while events    *)
(* and timers are due; threads that post, stop the loop and run it again;  *)
(* a fork while the loop's tasks and an application thread sign; and the   *)
(* pool disabled and enabled between signatures.                           *)
(***************************************************************************)
EXTENDS Threads

CONSTANTS Opens, Posts, Data, SignPosts, Signs, Entries, ForkSigns, ForkEntries, ClockSteps

NoLoop == [opens |-> 0, posts |-> 0, stops |-> 0, runs |-> 0, data |-> 0,
           ticks |-> 0, signals |-> 0]
NoSigning == [signs |-> 0, childSigns |-> 0, childRefills |-> 0, entries |-> 0,
              disables |-> 0, enables |-> 0, forks |-> 0, clock |-> 0]

StreamScenario ==
    [opened |-> Streams, pooled |-> FALSE, signing |-> NoSigning,
     loop |-> [NoLoop EXCEPT !.opens = Opens, !.data = Data, !.ticks = 1]]
PostScenario ==
    [opened |-> {}, pooled |-> FALSE, signing |-> NoSigning,
     loop |-> [NoLoop EXCEPT !.posts = Posts, !.stops = 1, !.runs = 1, !.signals = 1]]
ForkScenario ==
    [opened |-> {}, pooled |-> TRUE,
     loop |-> NoLoop,
     signing |-> [NoSigning EXCEPT !.signs = ForkSigns, !.childSigns = 1, !.childRefills = 1,
                    !.entries = ForkEntries, !.enables = 1, !.forks = 1]]
DisableScenario ==
    [opened |-> {}, pooled |-> TRUE,
     loop |-> [NoLoop EXCEPT !.posts = SignPosts],
     signing |-> [NoSigning EXCEPT !.signs = Signs, !.entries = Entries,
                    !.disables = 1, !.enables = 1, !.clock = ClockSteps]]
RunScenarios == {StreamScenario, PostScenario, ForkScenario, DisableScenario}
=============================================================================
