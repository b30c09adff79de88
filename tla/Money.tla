-------------------------------- MODULE Money --------------------------------
(***************************************************************************)
(* The financial value objects of core/money and the browser's copies of   *)
(* their rounding (lib/order-ticket, lib/cash-transfer).                    *)
(*                                                                         *)
(* A decimal is an integer count of its last place: Money in cents, Px and *)
(* Basis in ten-thousandths of a dollar, a percentage in hundredths of a   *)
(* percent, Qty in shares.  Addition, subtraction and comparison are those *)
(* of the integers; every derivation that can lose digits goes through     *)
(* HalfEven once.                                                          *)
(***************************************************************************)
EXTENDS Integers

(* How many ten-thousandths of a dollar a cent is. *)
UnitsPerCent == 100

(* The integer nearest to n / d, the even one when two are equally near. *)
HalfEven(n, d) ==
  LET whole == n \div d
      twice == 2 * (n % d)
  IN  IF twice < d \/ (twice = d /\ whole % 2 = 0) THEN whole ELSE whole + 1

(* A vendor amount with any number of decimals: n counts units of which    *)
(* perCent make a cent (perUnit a ten-thousandth).  Refused when a price    *)
(* rounds to nothing.                                                      *)
MoneyOfVendor(n, perCent) == HalfEven(n, perCent)
PxOfVendor(n, perUnit) == HalfEven(n, perUnit)
IsPx(px) == px > 0

(* What qty shares cost at px; the browser's estimate adds the same half. *)
Notional(px, qty) == HalfEven(px * qty, UnitsPerCent)
EstimateNotional(px, qty) ==
  LET units == px * qty
      cents == units \div 100
      rest == units % 100
  IN  IF rest > 50 \/ (rest = 50 /\ cents % 2 = 1) THEN cents + 1 ELSE cents

(* What a market buy reserves: the buffer is bps ten-thousandths. *)
ReserveWithBuffer(px, qty, bps) ==
  HalfEven(px * qty * (10000 + bps), UnitsPerCent * 10000)

ReserveInBrowser(px, qty, bps) ==
  LET n == px * qty * (10000 + bps)
      d == UnitsPerCent * 10000
      cents == n \div d
      twice == (n % d) * 2
  IN  IF twice > d \/ (twice = d /\ cents % 2 = 1) THEN cents + 1 ELSE cents

(* percentOf: rounded down, nothing of a balance that is not positive. *)
PercentOf(cents, percent) ==
  IF cents <= 0 THEN 0 ELSE (cents * percent) \div 100

(* The change from one amount to another; of nothing it is not a number. *)
NoPercent == CHOOSE x : x \notin Int
PercentChange(from, to) ==
  IF from <= 0 THEN NoPercent ELSE HalfEven((to - from) * 10000, from)
PriceDelta(from, to) ==
  [ absolute |-> HalfEven(to - from, UnitsPerCent),
    percent |-> HalfEven((to - from) * 10000, from) ]

(* The cost basis of a position: cents are added exactly.  Selling sold of *)
(* total shares allocates its share once rounded to cents, the last sale    *)
(* all that is left; the rest stays.                                       *)
AddMoney(basis, cents) == basis + cents * UnitsPerCent
Allocated(basis, sold, total) ==
  IF sold = total THEN HalfEven(basis, UnitsPerCent)
                  ELSE HalfEven(basis * sold, total * UnitsPerCent)
Remaining(basis, sold, total) ==
  IF sold = total THEN 0
                  ELSE basis - Allocated(basis, sold, total) * UnitsPerCent

(* The average cost of a share, shown and never stored. *)
AvgPx(basis, qty) == HalfEven(basis, qty)
=============================================================================
