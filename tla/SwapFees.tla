------------------------------ MODULE SwapFees ------------------------------
(***************************************************************************)
(* The fees of a swap (boltz_client/boltz.py) and what Boltz makes of the  *)
(* amount they are put on or taken off.  Amounts are sats, percentages     *)
(* hundredths of a percent.                                                *)
(*                                                                         *)
(* The source divides floats.  For amounts of up to 10^9 sats a quotient   *)
(* is off by less than the distance to the next whole number, unless it is *)
(* one: then it may come out a little above or below, so that its ceiling  *)
(* is one more or its floor one less (at 0.35 percent, 2007 sats less      *)
(* their fees are 1999 and not 2000).  Dividing by 1.0 is exact.           *)
(***************************************************************************)
EXTENDS Integers

Whole == 10000

\* The fees part of a pair of Boltz: percentages and miner fees.
IsFees(fees) ==
    /\ fees.percentage \in 0..(Whole - 1)
    /\ fees.percentageSwapIn \in 0..(Whole - 1)
    /\ fees.claim \in Nat /\ fees.lockup \in Nat /\ fees.normal \in Nat

\* ceil(n / d) and floor(n / d) of floats, d being 1 if it is Whole.
CeilQuotients(n, d) ==
    {q \in {-((-n) \div d), n \div d + 1} :
        /\ (q - 1) * d <= n /\ n <= q * d
        /\ d = Whole => n > (q - 1) * d}

FloorQuotients(n, d) ==
    {q \in {n \div d, -((-n) \div d) - 1} :
        /\ q * d <= n /\ n <= (q + 1) * d
        /\ d = Whole => n < (q + 1) * d}

\* Mutant: the miner fees are put on after the percentage.
AddReverseSwapFeesLate(fees, amount) ==
    {q + fees.claim + fees.lockup :
        q \in CeilQuotients(amount * Whole, Whole - fees.percentage)}

\* The invoice to pay for amount to arrive onchain.
AddReverseSwapFees(fees, amount) ==
    CeilQuotients((amount + fees.claim + fees.lockup) * Whole,
                  Whole - fees.percentage)

\* Mutant: the percentage is that of reverse swaps.
SubstractReverseSwapFees(fees, amount) ==
    FloorQuotients((amount - fees.normal) * Whole, Whole + fees.percentage)

\* The invoice Boltz pays for amount sent onchain.
SubstractSwapFees(fees, amount) ==
    FloorQuotients((amount - fees.normal) * Whole,
                   Whole + fees.percentageSwapIn)

\* What Boltz locks up for a paid invoice: the invoice less its percentage,
\* rounded up, and the fee of the lockup.
OnchainAmount(fees, invoice) ==
    (invoice * (Whole - fees.percentage)) \div Whole - fees.lockup

\* What Boltz expects for an invoice to pay: its percentage, rounded up, and
\* the fee of its own claim on top.
ExpectedAmount(fees, invoice) ==
    -((-(invoice * (Whole + fees.percentageSwapIn))) \div Whole) + fees.normal

=============================================================================
