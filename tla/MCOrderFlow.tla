---------------------------- MODULE MCOrderFlow -----------------------------
(***************************************************************************)
(* OrderFlow for TLC.  The message sets of ExchangeClient's open           *)
(* environment play no part here.                                          *)
(***************************************************************************)
EXTENDS OrderFlow

CONSTANTS
  a, x1, x2, x3, NumOids, Own,
  AmendSizes,    \* sizes a modify may ask for
  MaxForeign,    \* bound: orders placed outside this client
  MaxTimeouts,   \* bound: requests the client gives up waiting for
  MaxInfoFails,  \* bound: /info requests that fail
  MaxDrops       \* bound: times the socket drops

MCOids    == 1 .. NumOids
MCExt     == [o \in MCOids |-> <<x1, x2, x3>>[o]]
MCCloids  == Own \cup Range(MCExt)
MCBatches == {<<c>> : c \in Own}

Everything ==
  [sizes |-> Sizes, amendSizes |-> AmendSizes, foreign |-> MaxForeign, timeouts |-> MaxTimeouts,
   infoFails |-> MaxInfoFails, drops |-> MaxDrops, stops |-> MaxStops]

OneScenario == {Everything}

\* Orders of one lot with the restart and the foreign orders, or amendments alone.
AmendOrAdopt ==
  {[Everything EXCEPT !.sizes = Sizes \ AmendSizes, !.amendSizes = {}],
   [Everything EXCEPT !.sizes = AmendSizes, !.foreign = 0, !.stops = 0]}

=============================================================================
