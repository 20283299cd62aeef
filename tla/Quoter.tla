------------------------------- MODULE Quoter -------------------------------
(***************************************************************************)
(* The example market maker: one post-only order per side, amended in      *)
(* place as the book moves, with a position limit and a halt.  It is a     *)
(* listener of both clients, so its handlers are functions on the record c *)
(* of the process: c.book is the maintained book; c.orders, c.position and *)
(* c.ready are what ExchangeClient shows of itself.  A cloid is the index  *)
(* of its order in c.orders.  Cash, volume and the other statistics are    *)
(* left out.  The dead man's switch is too: it never touches a quote.      *)
(***************************************************************************)
EXTENDS QuoteEngine

CONSTANTS
  MinInterval,  \* settings_.minRequoteIntervalMs, in ticks
  MaxBackoff    \* the 60 s limit of the back-off, in ticks of the 1 s it starts from

ASSUME QuoterAssumption == MinInterval \in Nat /\ MaxBackoff \in Nat \ {0}

Sides == {"Buy", "Sell"}

NoCloid == 0

FreeSlot == [cloid |-> NoCloid, lastAction |-> 0, backoffUntil |-> 0, rejects |-> 0]

NewQuoter == [s \in Sides |-> FreeSlot]

Ended == {"Filled", "Canceled", "Rejected"}

IsLive(o) == o.state \notin Ended

-----------------------------------------------------------------------------
(* The calls of ExchangeClient it makes.  Each says whether it was refused. *)

NewOrder(side, px, sz) ==
  [side |-> side, px |-> px, sz |-> sz, filled |-> 0, state |-> "PendingNew", acked |-> FALSE,
   cancelPending |-> FALSE, modifyPending |-> FALSE, targetPx |-> px, targetSz |-> sz,
   revived |-> FALSE]

\* buildWire: the checks an order has to pass.
Sendable(px, sz) == px > 0 /\ sz > 0 /\ IsValidPx(px) /\ IsValidSz(sz)

PlaceOrder(c, side, px, sz) ==
  IF ~c.ready \/ ~Sendable(px, sz) THEN [c |-> c, refused |-> TRUE]
  ELSE [c |-> [c EXCEPT !.orders = Append(@, NewOrder(side, px, sz))], refused |-> FALSE]

Cancel(c, i) ==
  IF ~c.ready \/ ~IsLive(c.orders[i]) \/ c.orders[i].cancelPending THEN c
  ELSE [c EXCEPT !.orders[i].cancelPending = TRUE]

CancelAll(c) ==
  IF ~c.ready THEN c
  ELSE [c EXCEPT !.orders = [i \in DOMAIN @ |->
                               [@[i] EXCEPT !.cancelPending = @ \/ IsLive(c.orders[i])]]]

Modify(c, i, px, sz) ==
  LET o == c.orders[i]
  IN  IF ~c.ready \/ ~IsLive(o) \/ o.cancelPending \/ ~o.acked \/ o.modifyPending
           \/ ~Sendable(px, sz)
        THEN c
        ELSE [c EXCEPT !.orders[i].modifyPending = TRUE,
                       !.orders[i].targetPx = px, !.orders[i].targetSz = sz]

-----------------------------------------------------------------------------
(* Quoter. *)

\* A slot whose order ended is free.
DropEnded(c, side) ==
  LET i == c.slots[side].cloid
  IN  IF i # NoCloid /\ ~IsLive(c.orders[i]) THEN [c EXCEPT !.slots[side].cloid = NoCloid] ELSE c

PlaceQuote(c, side, px, size) ==
  LET placed == PlaceOrder(c, side, px, size)
  IN  [placed.c EXCEPT !.slots[side].lastAction = c.now,
                       !.slots[side].cloid = IF placed.refused THEN @ ELSE Len(placed.c.orders)]

\* An order that is not settled is left alone; one that still fits is, too.
AmendQuote(c, side, px, size) ==
  LET i == c.slots[side].cloid
      o == c.orders[i]
  IN  IF o.state = "PendingNew" \/ o.cancelPending \/ o.modifyPending \/ ~o.acked THEN c
      ELSE IF ~Apart(o.px, px) /\ o.sz - o.filled = size THEN c
      ELSE [Modify(c, i, px, size) EXCEPT !.slots[side].lastAction = c.now]

ManageSide(c0, side, px, size) ==
  LET c    == DropEnded(c0, side)
      slot == c.slots[side]
  IN  IF px = NoQuote THEN IF slot.cloid = NoCloid THEN c ELSE Cancel(c, slot.cloid)
      ELSE IF c.now - slot.lastAction < MinInterval \/ c.now < slot.backoffUntil THEN c
      ELSE IF slot.cloid = NoCloid THEN PlaceQuote(c, side, px, size)
      ELSE AmendQuote(c, side, px, size)

\* The position is worth more than 150% of the limit.
BeyondLimit(c, fair) == 2 * Abs(PositionUsd(c.position, fair)) > 3 * MaxUsd

Requote(c) ==
  LET quotes == ComputeQuotes(c.book, c.position)
  IN  IF c.shuttingDown \/ c.halted \/ ~c.ready THEN c
      ELSE IF BeyondLimit(c, quotes.fair) THEN CancelAll([c EXCEPT !.halted = TRUE])
      ELSE ManageSide(ManageSide(c, "Buy", quotes.bidPx, quotes.size),
                      "Sell", quotes.askPx, quotes.size)

\* onBookUpdate, of the coin quoted.
OnBookUpdate(c) == Requote(c)

Backoff(rejects) == Min({MaxBackoff, 2 ^ Min({rejects - 1, 6})})

\* Mutant: any news of the side is taken for news of its quote.
OnAnyUpdate(c, i) ==
  IF IsLive(c.orders[i]) THEN c ELSE [c EXCEPT !.slots[c.orders[i].side].cloid = NoCloid]

\* onOrderUpdate: news of an order the side no longer owns is ignored.
OnOrderUpdate(c, i) ==
  LET o    == c.orders[i]
      slot == c.slots[o.side]
      told == CASE o.state = "Rejected" ->
                     [slot EXCEPT !.rejects = @ + 1,
                                  !.backoffUntil = c.now + Backoff(slot.rejects + 1)]
                [] o.state \in {"Open", "Filled"} -> [slot EXCEPT !.rejects = 0]
                [] OTHER -> slot
  IN  IF slot.cloid # i THEN c
      ELSE [c EXCEPT !.slots[o.side] =
              [told EXCEPT !.cloid = IF IsLive(o) THEN @ ELSE NoCloid]]

\* shutdown(): everything is canceled; the loop then runs until nothing is live.
Shutdown(c) ==
  LET closing == [c EXCEPT !.shuttingDown = TRUE]
  IN  IF c.ready THEN CancelAll(closing) ELSE closing
=============================================================================
