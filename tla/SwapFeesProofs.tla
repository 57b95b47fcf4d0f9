--------------------------- MODULE SwapFeesProofs ---------------------------
(***************************************************************************)
(* For every amount and all fees: what Boltz makes of an amount with its   *)
(* fees put on or taken off is what was asked for, although the program    *)
(* divides floats and both sides round, and what the user pays is no more  *)
(* than it takes.                                                          *)
(***************************************************************************)
EXTENDS SwapFees, TLAPS

LEMMA QuotientsAreInt ==
    ASSUME NEW n \in Int, NEW d \in Int, d > 0
    PROVE  /\ n \div d \in Int
           /\ -((-n) \div d) \in Int
OBVIOUS

\* What the ceiling of a quotient is, a float's too.
LEMMA CeilQuotientBounds ==
    ASSUME NEW n \in Int, NEW d \in Int, d > 0,
           NEW q \in CeilQuotients(n, d)
    PROVE  /\ q \in Int
           /\ n <= q * d /\ q * d - d <= n
           /\ d = Whole => q * d - d < n
<1>1. n \div d \in Int /\ -((-n) \div d) \in Int
  BY QuotientsAreInt
<1>2. q \in Int
  BY <1>1 DEF CeilQuotients
<1>3. (q - 1) * d = q * d - d
  BY <1>2
<1> QED
  BY <1>2, <1>3 DEF CeilQuotients, Whole

LEMMA FloorQuotientBounds ==
    ASSUME NEW n \in Int, NEW d \in Int, d > 0,
           NEW q \in FloorQuotients(n, d)
    PROVE  /\ q \in Int
           /\ q * d <= n /\ n <= q * d + d
           /\ d = Whole => n < q * d + d
<1>1. n \div d \in Int /\ -((-n) \div d) \in Int
  BY QuotientsAreInt
<1>2. q \in Int
  BY <1>1 DEF FloorQuotients
<1>3. (q + 1) * d = q * d + d
  BY <1>2
<1> QED
  BY <1>2, <1>3 DEF FloorQuotients, Whole

LEMMA FeesAreNumbers ==
    ASSUME NEW fees, IsFees(fees)
    PROVE  /\ fees.percentage \in Nat /\ fees.percentage < Whole
           /\ fees.percentageSwapIn \in Nat /\ fees.percentageSwapIn < Whole
           /\ fees.claim \in Nat /\ fees.lockup \in Nat /\ fees.normal \in Nat
<1>1. fees.claim \in Nat /\ fees.lockup \in Nat /\ fees.normal \in Nat
  BY DEF IsFees
<1>2. fees.percentage \in 0..(Whole - 1)
  BY DEF IsFees
<1>3. fees.percentageSwapIn \in 0..(Whole - 1)
  BY DEF IsFees
<1>4. ASSUME NEW p \in 0..(Whole - 1)
      PROVE  p \in Nat /\ p < Whole
  BY DEF Whole
<1> QED BY <1>1, <1>2, <1>3, <1>4

LEMMA AmountsAreInt ==
    ASSUME NEW fees, IsFees(fees), NEW invoice \in Int
    PROVE  OnchainAmount(fees, invoice) \in Int
           /\ ExpectedAmount(fees, invoice) \in Int
<1> DEFINE left == invoice * (Whole - fees.percentage)
           topped == -(invoice * (Whole + fees.percentageSwapIn))
<1>1. /\ fees.percentage \in Nat /\ fees.percentageSwapIn \in Nat
      /\ fees.lockup \in Nat /\ fees.normal \in Nat
  BY FeesAreNumbers
<1>2. left \in Int /\ topped \in Int
  BY <1>1 DEF Whole
<1>3. left \div 10000 \in Int /\ -(topped \div 10000) \in Int
  <2> HIDE DEF left, topped
  <2> QED BY <1>2
<1>4. /\ OnchainAmount(fees, invoice) = left \div 10000 - fees.lockup
      /\ ExpectedAmount(fees, invoice) = -(topped \div 10000) + fees.normal
  BY DEF OnchainAmount, ExpectedAmount, Whole
<1> QED
  <2> HIDE DEF left, topped
  <2> QED BY <1>1, <1>3, <1>4

\* "Receive specified Amount": of the invoice for amount, Boltz locks up what
\* pays out that very amount after the claim.
THEOREM ReceivedAsAsked ==
    ASSUME NEW fees, IsFees(fees), NEW amount \in Nat,
           NEW invoice \in AddReverseSwapFees(fees, amount)
    PROVE  /\ invoice \in Int
           /\ OnchainAmount(fees, invoice) - fees.claim = amount
<1> DEFINE n == amount + fees.claim + fees.lockup
           d == Whole - fees.percentage
           z == invoice * d
<1>1. /\ n \in Nat /\ d \in Int /\ d > 0 /\ d <= 10000
      /\ fees.claim \in Nat /\ fees.lockup \in Nat
  <2>1. /\ fees.percentage \in Nat /\ fees.percentage < Whole
        /\ fees.claim \in Nat /\ fees.lockup \in Nat
    BY FeesAreNumbers
  <2> HIDE DEF z
  <2> QED BY <2>1 DEF Whole
<1>2. invoice \in CeilQuotients(n * Whole, d)
  BY DEF AddReverseSwapFees
<1>3. n * Whole \in Int
  BY <1>1 DEF Whole
<1>4. /\ invoice \in Int
      /\ n * Whole <= z /\ z - d <= n * Whole
      /\ d = Whole => z - d < n * Whole
  <2> HIDE DEF n, d
  <2> QED
    BY <1>1, <1>2, <1>3, CeilQuotientBounds
<1>5. z \in Int
  <2> HIDE DEF d
  <2> QED BY <1>1, <1>4
<1>6. OnchainAmount(fees, invoice) = z \div 10000 - fees.lockup
  BY DEF OnchainAmount, Whole
<1>7. z \div 10000 = n
  <2> HIDE DEF z, n, d
  <2>1. n * 10000 <= z /\ z < n * 10000 + 10000
    BY <1>1, <1>4, <1>5 DEF Whole
  <2> QED
    BY <2>1, <1>1, <1>5
<1>8. n - fees.lockup - fees.claim = amount
  BY <1>1
<1> QED
  <2> HIDE DEF z, n, d
  <2> QED BY <1>1, <1>4, <1>6, <1>7, <1>8

\* "Send specified Amount": for the invoice of amount less its fees Boltz
\* expects that amount, or one sat less.
THEOREM SentAsAsked ==
    ASSUME NEW fees, IsFees(fees), NEW amount \in Nat,
           NEW invoice \in SubstractSwapFees(fees, amount)
    PROVE  /\ invoice \in Int
           /\ ExpectedAmount(fees, invoice) \in (amount - 1)..amount
<1> DEFINE n == amount - fees.normal
           d == Whole + fees.percentageSwapIn
           z == invoice * d
<1>1. n \in Int /\ d \in Int /\ d >= 10000 /\ d < 20000 /\ fees.normal \in Nat
  <2>1. /\ fees.percentageSwapIn \in Nat /\ fees.percentageSwapIn < Whole
        /\ fees.normal \in Nat
    BY FeesAreNumbers
  <2> HIDE DEF z
  <2> QED BY <2>1 DEF Whole
<1>2. invoice \in FloorQuotients(n * Whole, d)
  BY DEF SubstractSwapFees
<1>3. n * Whole \in Int
  BY <1>1 DEF Whole
<1>4. /\ invoice \in Int
      /\ z <= n * Whole /\ n * Whole <= z + d
  <2> HIDE DEF n, d
  <2> QED
    BY <1>1, <1>2, <1>3, FloorQuotientBounds
<1>5. z \in Int
  <2> HIDE DEF d
  <2> QED BY <1>1, <1>4
<1>6. ExpectedAmount(fees, invoice) = -((-z) \div 10000) + fees.normal
  BY DEF ExpectedAmount, Whole
<1>7. -((-z) \div 10000) \in Int /\ -((-z) \div 10000) \in (n - 1)..n
  <2> HIDE DEF z, n, d
  <2>1. z <= n * 10000 /\ n * 10000 < z + 20000
    BY <1>1, <1>4, <1>5 DEF Whole
  <2> QED
    BY <2>1, <1>1, <1>5
<1> QED
  <2>1. n + fees.normal = amount /\ n - 1 + fees.normal = amount - 1
    BY <1>1
  <2> HIDE DEF z, n, d
  <2> QED BY <1>1, <1>4, <1>6, <1>7, <2>1

-----------------------------------------------------------------------------
(***************************************************************************)
(* Nobody pays more than the fees.                                         *)
(***************************************************************************)

\* Of an invoice two sats smaller than the one with fees added, less than the
\* amount would arrive: rounding and floats make it one sat too large at most.
THEOREM NoMoreThanNeeded ==
    ASSUME NEW fees, IsFees(fees), NEW amount \in Nat,
           NEW invoice \in AddReverseSwapFees(fees, amount)
    PROVE  OnchainAmount(fees, invoice - 2) - fees.claim < amount
<1> DEFINE n == amount + fees.claim + fees.lockup
           d == Whole - fees.percentage
           z == invoice * d
           less == (invoice - 2) * d
<1>1. /\ n \in Nat /\ d \in Int /\ d > 0
      /\ fees.claim \in Nat /\ fees.lockup \in Nat
  <2>1. /\ fees.percentage \in Nat /\ fees.percentage < Whole
        /\ fees.claim \in Nat /\ fees.lockup \in Nat
    BY FeesAreNumbers
  <2> HIDE DEF z, less
  <2> QED BY <2>1 DEF Whole
<1>2. invoice \in CeilQuotients(n * Whole, d)
  BY DEF AddReverseSwapFees
<1>3. n * Whole \in Int
  BY <1>1 DEF Whole
<1>4. invoice \in Int /\ z - d <= n * Whole
  <2> HIDE DEF n, d
  <2> QED
    BY <1>1, <1>2, <1>3, CeilQuotientBounds
<1>5. z \in Int /\ less = z - 2 * d
  <2> HIDE DEF d
  <2> QED BY <1>1, <1>4
<1>6. OnchainAmount(fees, invoice - 2) = less \div 10000 - fees.lockup
  BY DEF OnchainAmount, Whole
<1>7. less \div 10000 \in Int /\ less \div 10000 < n
  <2> HIDE DEF z, less, n, d
  <2>1. less \in Int /\ less < n * 10000
    BY <1>1, <1>4, <1>5 DEF Whole
  <2> QED
    BY <2>1, <1>1
<1> QED
  <2> HIDE DEF z, less
  <2> QED BY <1>1, <1>6, <1>7

\* For an invoice two sats larger than the one with fees taken off, Boltz
\* would expect more than the amount: rounding and floats make it one sat too
\* small at most.
THEOREM NoLessThanPossible ==
    ASSUME NEW fees, IsFees(fees), NEW amount \in Nat,
           NEW invoice \in SubstractSwapFees(fees, amount)
    PROVE  ExpectedAmount(fees, invoice + 2) > amount
<1> DEFINE n == amount - fees.normal
           d == Whole + fees.percentageSwapIn
           z == invoice * d
           more == (invoice + 2) * d
<1>1. n \in Int /\ d \in Int /\ d >= 10000 /\ fees.normal \in Nat
  <2>1. /\ fees.percentageSwapIn \in Nat /\ fees.normal \in Nat
    BY FeesAreNumbers
  <2> HIDE DEF z, more
  <2> QED BY <2>1 DEF Whole
<1>2. invoice \in FloorQuotients(n * Whole, d)
  BY DEF SubstractSwapFees
<1>3. n * Whole \in Int
  BY <1>1 DEF Whole
<1>4. invoice \in Int /\ n * Whole <= z + d
  <2> HIDE DEF n, d
  <2> QED
    BY <1>1, <1>2, <1>3, FloorQuotientBounds
<1>5. z \in Int /\ more = z + 2 * d
  <2> HIDE DEF d
  <2> QED BY <1>1, <1>4
<1>6. ExpectedAmount(fees, invoice + 2) = -((-more) \div 10000) + fees.normal
  BY DEF ExpectedAmount, Whole
<1>7. -((-more) \div 10000) \in Int /\ -((-more) \div 10000) > n
  <2> HIDE DEF z, more, n, d
  <2>1. more \in Int /\ more > n * 10000
    BY <1>1, <1>4, <1>5 DEF Whole
  <2> QED
    BY <2>1, <1>1
<1> QED
  <2> HIDE DEF z, more
  <2> QED BY <1>1, <1>6, <1>7

=============================================================================
