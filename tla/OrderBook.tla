------------------------------ MODULE OrderBook ------------------------------
(***************************************************************************)
(* OrderBook: both sides of one coin, kept from snapshots and best-price   *)
(* updates.  A side is a sequence of levels, best first; a level carries,  *)
(* besides price and size, the venue's time and the session of the message *)
(* it came in.  Prices and sizes are the raw integers of Decimal.          *)
(***************************************************************************)
EXTENDS Integers, Sequences, FiniteSetsExt

CONSTANT MaxLevels  \* OrderBook::kMaxLevels, and the parser's kMaxLevelsPerSide

EmptyBook == [bids |-> <<>>, asks |-> <<>>, timeMs |-> 0, snapshotTimeMs |-> 0]

Better(px, other, isBid) == IF isBid THEN px > other ELSE px < other

Prefix(levels, n) == SubSeq(levels, 1, Min({n, Len(levels)}))

\* applySnapshot: both sides are replaced, whatever the time of the message.
ApplySnapshot(b, msg) ==
  [bids |-> Prefix(msg.bids, MaxLevels), asks |-> Prefix(msg.asks, MaxLevels),
   timeMs |-> msg.time, snapshotTimeMs |-> msg.time]

\* overlayTop: the leading levels better than the new best are gone, a level at
\* its price is replaced, and a book that is full loses its last level.
OverlayTop(levels, best, isBid) ==
  LET keep == Min({i \in 1 .. Len(levels) : ~Better(levels[i].px, best.px, isBid)}
                    \cup {Len(levels) + 1})
      rest == SubSeq(levels, keep, Len(levels))
      below == IF rest # <<>> /\ rest[1].px = best.px THEN Tail(rest) ELSE rest
  IN  <<best>> \o Prefix(below, MaxLevels - 1)

\* dropCrossing: what the other side's best price has moved through.
DropCrossing(levels, limit, isBid) ==
  SelectSeq(levels, LAMBDA l : Better(limit, l.px, isBid))

\* Mutant: the deeper levels of the other side are left alone.
OverlayOnly(b, msg) ==
  [b EXCEPT !.bids = IF msg.bids = <<>> THEN <<>> ELSE OverlayTop(@, msg.bids[1], TRUE),
            !.asks = IF msg.asks = <<>> THEN <<>> ELSE OverlayTop(@, msg.asks[1], FALSE),
            !.timeMs = msg.time]

\* What applyBbo does with an update it accepts.  A side the message leaves out is
\* emptied.
Overlay(b, msg) ==
  LET bids == IF msg.bids = <<>> THEN <<>> ELSE OverlayTop(b.bids, msg.bids[1], TRUE)
      asks == IF msg.asks = <<>> THEN <<>> ELSE OverlayTop(b.asks, msg.asks[1], FALSE)
  IN  [b EXCEPT
        !.bids = IF msg.asks = <<>> THEN bids ELSE DropCrossing(bids, msg.asks[1].px, TRUE),
        !.asks = IF msg.bids = <<>> THEN asks ELSE DropCrossing(asks, msg.bids[1].px, FALSE),
        !.timeMs = msg.time]

\* Mutant: an update older than the snapshot is accepted.
TakesAnyBbo(b, msg) == TRUE

\* applyBbo returns false for an update older than the snapshot.
TakesBbo(b, msg) == msg.time >= b.snapshotTimeMs

\* clear(): the levels go, the times stay.
Clear(b) == [b EXCEPT !.bids = <<>>, !.asks = <<>>]

IsValid(b) == b.bids # <<>> /\ b.asks # <<>> /\ b.bids[1].px < b.asks[1].px

MidPrice(b) == (b.bids[1].px + b.asks[1].px) \div 2

Microprice(b) ==
  LET bid == b.bids[1]
      ask == b.asks[1]
  IN  IF bid.sz + ask.sz = 0 THEN MidPrice(b)
      ELSE (bid.px * ask.sz + ask.px * bid.sz) \div (bid.sz + ask.sz)

-----------------------------------------------------------------------------
(* What an order book is. *)

Sorted(levels, isBid) ==
  \A i, j \in DOMAIN levels : i < j => Better(levels[i].px, levels[j].px, isBid)

Uncrossed(b) ==
  \A i \in DOMAIN b.bids, j \in DOMAIN b.asks : b.bids[i].px < b.asks[j].px
=============================================================================
