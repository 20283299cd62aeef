-------------------------- MODULE MCExchangeClient --------------------------
(***************************************************************************)
(* ExchangeClient with an open environment, for TLC: one order of its own, *)
(* two oids, and every message the sets below can express.                 *)
(***************************************************************************)
EXTENDS ExchangeClient, TLC

CONSTANTS a, x1, x2

MCCloids == {a, x1, x2}
MCOids   == 1 .. 2
MCExt    == (1 :> x1) @@ (2 :> x2)

MCBatches == {<<a>>}
MCSizes   == {2}

MCResults ==
  {[ok |-> FALSE, transport |-> b, statuses |-> << >>] : b \in BOOLEAN} \cup
  {[ok |-> TRUE, transport |-> FALSE, statuses |-> <<st>>] :
     st \in {[kind |-> k, oid |-> o, totalSz |-> IF k = "filled" THEN 2 ELSE 0] :
               k \in {"resting", "filled"}, o \in MCOids}
            \cup {[kind |-> k, oid |-> NoOid, totalSz |-> 0] : k \in {"success", "error"}}}

MCUpdates ==
  {[cloid |-> c, oid |-> o, status |-> s, origSz |-> 2] :
     c \in {a}, o \in MCOids, s \in {"open", "filled", "canceled"}}

MCFills ==
  {[cloid |-> a, oid |-> o, sz |-> 1, tid |-> o, time |-> o, endPos |-> o] : o \in MCOids}

MCInfos ==
  {[oid |-> o, status |-> s, origSz |-> 2] :
     o \in MCOids, s \in {"open", "canceled"}}

MCListings ==
  {{}} \cup
  {{[cloid |-> c, oid |-> o, origSz |-> 2, filled |-> f]} :
     c \in {a}, o \in MCOids, f \in 0 .. 1}

=============================================================================
