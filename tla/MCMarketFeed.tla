---------------------------- MODULE MCMarketFeed -----------------------------
(***************************************************************************)
(* MarketFeed for TLC.  Prices have one decimal and two significant        *)
(* figures, so the grid changes at 10.0 (raw 100).  Five scenarios share  *)
(* the run: frames (any fragmentation, any split of the reads), books      *)
(* (snapshots and best prices in any order of time), subscriptions that    *)
(* change, quoting, and the end of quoting.                                *)
(***************************************************************************)
EXTENDS MarketFeed

CONSTANTS FrameMessages, BookMessages, QuoteMessages, QuoteNews, QuoteTrades

L(px, sz) == [px |-> px, sz |-> sz]

\* Best prices that move through levels, lock, cross, or miss a side.
AllTops ==
  {[bids |-> <<L(99, 10)>>, asks |-> <<L(110, 10)>>],
   [bids |-> <<L(95, 10)>>, asks |-> <<L(97, 10)>>],
   [bids |-> <<L(99, 10)>>, asks |-> <<L(98, 10)>>],
   [bids |-> <<L(98, 10)>>, asks |-> <<>>],
   [bids |-> <<>>, asks |-> <<L(96, 20)>>]}

AllSnapshots ==
  {[bids |-> <<L(97, 10), L(95, 10), L(94, 10)>>, asks |-> <<L(99, 10), L(110, 10)>>],
   [bids |-> <<L(110, 10)>>, asks |-> <<L(120, 30)>>]}

Nothing ==
  [maxTime |-> 1, tops |-> {}, sessions |-> 1, drops |-> 0, calls |-> 0, split |-> 0,
   messages |-> 0, others |-> 0, controls |-> 0, misframed |-> 0, stops |-> 0,
   news |-> 0, trades |-> 0, exchangeDrops |-> 0, ticks |-> 0, shutdowns |-> 0]

FrameScenario ==
  [Nothing EXCEPT !.split = 1, !.others = FrameMessages, !.controls = 1, !.misframed = 1,
                  !.stops = 1]

BookScenario ==
  [Nothing EXCEPT !.sessions = 2, !.drops = 1, !.messages = BookMessages, !.stops = 1,
                  !.maxTime = 2, !.tops = Tops]

SubscribeScenario ==
  [Nothing EXCEPT !.sessions = 2, !.drops = 1, !.messages = 3, !.calls = 3, !.maxTime = 2,
                  !.tops = {CHOOSE t \in Tops : TRUE}]

QuoteScenario ==
  [Nothing EXCEPT !.messages = QuoteMessages, !.news = QuoteNews, !.trades = QuoteTrades,
                  !.ticks = 2]

ShutdownScenario ==
  [Nothing EXCEPT !.messages = 2, !.news = 2, !.exchangeDrops = 1, !.ticks = 1, !.shutdowns = 1]

\* A ping and a snapshot that one read may bring together.
PingScenario == [Nothing EXCEPT !.split = 1, !.messages = 1, !.controls = 1]

PingScenarios == {PingScenario}
RunScenarios == {FrameScenario, BookScenario, SubscribeScenario, QuoteScenario, ShutdownScenario}
=============================================================================
