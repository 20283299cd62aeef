---------------------------- MODULE QuoteEngine -----------------------------
(***************************************************************************)
(* The example's pricing function and the rounding rules it rests on:      *)
(* Decimal::roundToQuantum, AssetInfo::roundPx and roundSz.  Amounts are   *)
(* raw integers, Scale to the unit.  The code computes the two prices in   *)
(* double and rounds the result; here they are exact fractions rounded the *)
(* same way (half away from zero).                                         *)
(***************************************************************************)
EXTENDS OrderBook

CONSTANTS
  Decimals,       \* Decimal::kDecimals
  SigFigs,        \* significant figures of a price: 5 in roundPx
  PxDecimals,     \* AssetInfo::maxPriceDecimals()
  SzDecimals,     \* AssetInfo::szDecimals
  Unity,          \* the 10'000 that spreads are given in parts of
  HalfSpread,     \* QuoteParams::halfSpreadBps
  Skew,           \* QuoteParams::skewBps
  OrderNotional,  \* QuoteParams::orderNotionalUsd, raw
  MaxPosition,    \* QuoteParams::maxPositionUsd, raw
  UseMicroprice,  \* QuoteParams::useMicroprice
  RequoteBps      \* QuoterSettings::requoteBps

ASSUME QuoteAssumption ==
  /\ {Decimals, SigFigs, Unity, MaxPosition, OrderNotional} \subseteq Nat \ {0}
  /\ PxDecimals \in 0 .. Decimals /\ SzDecimals \in 0 .. Decimals
  /\ HalfSpread \in Nat \ {0} /\ Skew \in Nat /\ RequoteBps \in Nat
  /\ UseMicroprice \in BOOLEAN

Scale == 10 ^ Decimals

\* "Do not quote this side".
NoQuote == -1

\* roundToQuantum: \div is the floor the code computes for both signs.
RoundToQuantum(raw, quantum, mode) ==
  LET down == (raw \div quantum) * quantum
  IN  IF down = raw \/ mode = "Down" THEN down ELSE down + quantum

\* digitCount: decimal digits of a positive number.
DigitCount(n) == Min({d \in 1 .. 9 : n < 10 ^ d})

Capped(n, low, high) == Max({low, Min({n, high})})

\* The price step at `raw`: SigFigs significant figures, at most PxDecimals
\* decimals, and never more than one unit, for integers are always allowed.
PxQuantum(raw) ==
  LET exponent == DigitCount(raw) - 1 - Decimals
  IN  10 ^ (Decimals - Capped(SigFigs - 1 - exponent, 0, PxDecimals))

RoundPx(raw, mode) == IF raw = 0 THEN 0 ELSE RoundToQuantum(raw, PxQuantum(raw), mode)

RoundSz(raw, mode) == RoundToQuantum(raw, 10 ^ (Decimals - SzDecimals), mode)

IsValidPx(raw) == RoundPx(raw, "Down") = raw
IsValidSz(raw) == RoundSz(raw, "Down") = raw

\* The nearest integer to n / d, n and d positive.
Nearest(n, d) == (2 * n + d) \div (2 * d)

\* position * fair, and maxPositionUsd on the same scale.
PositionUsd(position, fair) == position * fair
MaxUsd == MaxPosition * Scale

\* Mutant: a quote that would cross is kept.
UncheckedQuotes(b, position, fair) ==
  LET held == Capped(PositionUsd(position, fair), -MaxUsd, MaxUsd)
      Shifted(n) == Nearest(fair * ((Unity + n) * MaxUsd - Skew * held), Unity * MaxUsd)
  IN  [bid |-> RoundPx(Shifted(-HalfSpread), "Down"), ask |-> RoundPx(Shifted(HalfSpread), "Up")]

\* The two prices: fair value less or plus half the spread, shifted against the
\* position held, and never through the other side's best price.
RawQuotes(b, position, fair) ==
  LET held == Capped(PositionUsd(position, fair), -MaxUsd, MaxUsd)
      Shifted(n) == Nearest(fair * ((Unity + n) * MaxUsd - Skew * held), Unity * MaxUsd)
      bid == RoundPx(Shifted(-HalfSpread), "Down")
      ask == RoundPx(Shifted(HalfSpread), "Up")
  IN  [bid |-> IF bid >= b.asks[1].px THEN b.bids[1].px ELSE bid,
       ask |-> IF ask <= b.bids[1].px THEN b.asks[1].px ELSE ask]

NoQuotes == [fair |-> 0, bidPx |-> NoQuote, askPx |-> NoQuote, size |-> 0]

ComputeQuotes(b, position) ==
  IF ~IsValid(b) THEN NoQuotes
  ELSE LET fair == IF UseMicroprice THEN Microprice(b) ELSE MidPrice(b)
           size == RoundSz((OrderNotional * Scale) \div fair, "Down")
           raw  == RawQuotes(b, position, fair)
           held == PositionUsd(position, fair)
       IN  [fair  |-> fair,
            size  |-> size,
            bidPx |-> IF size > 0 /\ held < MaxUsd THEN raw.bid ELSE NoQuote,
            askPx |-> IF size > 0 /\ held > -MaxUsd THEN raw.ask ELSE NoQuote]

Abs(n) == Max({n, -n})

\* distanceBps(px, target) >= requoteBps.
Apart(px, target) ==
  IF target = 0 THEN RequoteBps = 0
  ELSE Abs(px - target) * Unity >= RequoteBps * Abs(target)
=============================================================================
