-------------------------- MODULE AutoSwapProofs --------------------------
(***************************************************************************)
(* Theorems about AutoSwap for every amount, limit, reserve and bound, and *)
(* any number of rows and sweeps: type correctness, SweepKeepsBalance      *)
(* and CountIsSweeps, no more sweeps than payments, and that a surplus the *)
(* listener is told of is swept.                                           *)
(***************************************************************************)
EXTENDS AutoSwap, FiniteSets, FiniteSetTheorems, TLAPS

USE DEF database, sweep, wallet, counters, tally

-----------------------------------------------------------------------------
(***************************************************************************)
(* The fee reserve.                                                        *)
(***************************************************************************)

LEMMA ShareIsNat ==
    ASSUME NEW n \in Nat
    PROVE  n * ReservePercent \in Nat
BY AmountsAssumption

LEMMA ReserveIsNat == \A n \in Nat : Reserve(n) \in Nat
<1> SUFFICES ASSUME NEW n \in Nat PROVE Reserve(n) \in Nat
  OBVIOUS
<1> DEFINE share == n * ReservePercent
<1>1. share \in Nat
  BY ShareIsNat
<1> HIDE DEF share
<1>2. share \div 100 \in Nat
  BY <1>1
<1> QED
  BY <1>2, AmountsAssumption DEF Reserve, share

\* A smaller payment has a smaller reserve.
LEMMA ReserveIsMonotone ==
    ASSUME NEW m \in Nat, NEW n \in Nat, m <= n
    PROVE  Reserve(m) <= Reserve(n)
<1> DEFINE low == m * ReservePercent
           high == n * ReservePercent
<1>1. low \in Nat /\ high \in Nat
  BY ShareIsNat
<1>2. low <= high
  BY AmountsAssumption
<1> HIDE DEF low, high
<1>3. low \div 100 <= high \div 100
  BY <1>1, <1>2
<1>4. low \div 100 \in Nat /\ high \div 100 \in Nat
  BY <1>1
<1> QED
  BY <1>3, <1>4, AmountsAssumption DEF Reserve, low, high

-----------------------------------------------------------------------------
(***************************************************************************)
(* The inductive invariant.                                                *)
(***************************************************************************)

\* The row a sweep works with was created by a request that is over, and if
\* it is still there its count is the one the sweep has read: only the sweep
\* writes it.
ListenerHoldsRow ==
    /\ sweepPc \in {"wallet", "client", "create", "insert", "execute",
                    "count"} =>
           /\ auto \in Autos
           /\ api[auto] = "done"
           /\ auto \in rows => seen = count[auto]
    /\ sweepPc = "execute" => swap \in Swaps /\ pay[swap] = "stored"

\* Before its request is over an auto swap has no row and no sweep.
RowsComeFirst ==
    \A a \in Autos :
        api[a] # "done" => a \notin rows /\ made[a] = 0 /\ lost[a] = 0

\* SweepKeepsBalance from the moment the amount is computed.
AmountCovered ==
    sweepPc \in {"client", "create", "insert"} =>
        amount + Reserve(amount) + Keep <= balance + gone[NoSwap]

SumsCovered ==
    \A s \in Swaps :
        pay[s] \in {"stored", "calling"} =>
            sum[s] + Reserve(sum[s]) + Keep <= balance + gone[s]

IInv ==
    /\ TypeOK
    /\ ListenerHoldsRow
    /\ RowsComeFirst
    /\ AmountCovered
    /\ SumsCovered
    /\ CountIsSweeps

LEMMA InitIInv == Init => IInv
BY DEF Init, IInv, TypeOK, ListenerHoldsRow, RowsComeFirst, AmountCovered,
     SumsCovered, CountIsSweeps, Uncounted

\* The steps of the requests.
LEMMA RequestsKeepIInv ==
    ASSUME IInv,
           NEW a \in Autos,
           AutoAllowed(a) \/ AutoRefused(a) \/ AutoCreate(a) \/ AutoDelete(a)
    PROVE  IInv'
<1> USE AmountsAssumption, ReserveIsNat DEF IInv
<1>1. CASE AutoAllowed(a)
  BY <1>1 DEF AutoAllowed, TypeOK, ListenerHoldsRow, RowsComeFirst,
     AmountCovered, SumsCovered, CountIsSweeps, Uncounted
<1>2. CASE AutoRefused(a)
  BY <1>2 DEF AutoRefused, TypeOK, ListenerHoldsRow, RowsComeFirst,
     AmountCovered, SumsCovered, CountIsSweeps, Uncounted
<1>3. CASE AutoCreate(a)
  BY <1>3 DEF AutoCreate, TypeOK, ListenerHoldsRow, RowsComeFirst,
     AmountCovered, SumsCovered, CountIsSweeps, Uncounted
<1>4. CASE AutoDelete(a)
  BY <1>4 DEF AutoDelete, TypeOK, ListenerHoldsRow, RowsComeFirst,
     AmountCovered, SumsCovered, CountIsSweeps, Uncounted
<1> QED
  BY <1>1, <1>2, <1>3, <1>4

\* Payments that are not sweeps.
LEMMA WalletKeepsIInv ==
    ASSUME IInv,
           NEW n \in Payments, Receive(n) \/ Spend(n)
    PROVE  IInv'
<1> USE AmountsAssumption, ReserveIsNat DEF IInv
<1>1. CASE Receive(n)
  BY <1>1 DEF Receive, TypeOK, ListenerHoldsRow, RowsComeFirst, AmountCovered,
     SumsCovered, CountIsSweeps, Uncounted
<1>2. CASE Spend(n)
  BY <1>2 DEF Spend, Leaves, TypeOK, ListenerHoldsRow, RowsComeFirst,
     AmountCovered, SumsCovered, CountIsSweeps, Uncounted
<1> QED
  BY <1>1, <1>2

\* The payments of the sweeps.
LEMMA SweepPaymentsKeepIInv ==
    ASSUME IInv,
           NEW s \in Swaps,
           \/ SweepIsSent(s) \/ SweepIsRefused(s) \/ SweepBounces(s)
           \/ \E fee \in 0..Reserve(sum[s]) : SweepSettles(s, fee)
    PROVE  IInv'
<1> USE AmountsAssumption, ReserveIsNat DEF IInv
<1>1. CASE SweepIsSent(s)
  BY <1>1 DEF SweepIsSent, Leaves, TypeOK, ListenerHoldsRow, RowsComeFirst,
     AmountCovered, SumsCovered, CountIsSweeps, Uncounted
<1>2. CASE SweepIsRefused(s)
  BY <1>2 DEF SweepIsRefused, TypeOK, ListenerHoldsRow, RowsComeFirst,
     AmountCovered, SumsCovered, CountIsSweeps, Uncounted
<1>3. CASE SweepBounces(s)
  BY <1>3 DEF SweepBounces, TypeOK, ListenerHoldsRow, RowsComeFirst,
     AmountCovered, SumsCovered, CountIsSweeps, Uncounted
<1>4. CASE \E fee \in 0..Reserve(sum[s]) : SweepSettles(s, fee)
  BY <1>4 DEF SweepSettles, TypeOK, ListenerHoldsRow, RowsComeFirst,
     AmountCovered, SumsCovered, CountIsSweeps, Uncounted
<1> QED
  BY <1>1, <1>2, <1>3, <1>4

\* The steps of the listener.
LEMMA ListenerKeepsIInv ==
    ASSUME IInv,
           ListenerStep
    PROVE  IInv'
<1> USE AmountsAssumption, ReserveIsNat DEF IInv
<1>1. CASE ListenerGet
  BY <1>1 DEF ListenerGet, TypeOK, ListenerHoldsRow, RowsComeFirst,
     AmountCovered, SumsCovered, CountIsSweeps, Uncounted
<1>2. CASE NoRow
  BY <1>2 DEF NoRow, TypeOK, ListenerHoldsRow, RowsComeFirst, AmountCovered,
     SumsCovered, CountIsSweeps, Uncounted
<1>3. CASE ReadBalance
  <2>1. CASE Surplus < Amount
    BY <1>3, <2>1 DEF ReadBalance, Surplus, TypeOK, ListenerHoldsRow,
       RowsComeFirst, AmountCovered, SumsCovered, CountIsSweeps, Uncounted
  <2>2. CASE Surplus >= Amount
    <3>1. /\ amount' = Surplus /\ sweepPc' = "client"
          /\ gone' = [gone EXCEPT ![NoSwap] = 0]
          /\ UNCHANGED <<database, api, queue, auto, seen, swap, wallet,
                         counters, tally, attempt>>
      BY <1>3, <2>2, ReserveIsNat DEF ReadBalance, Surplus, TypeOK
    <3>2. /\ Reserve(balance) \in Nat
          /\ amount' \in Nat /\ amount' <= balance
          /\ amount' + Reserve(balance) + Keep = balance
      BY <2>2, <3>1 DEF Surplus, TypeOK
    <3>3. Reserve(amount') <= Reserve(balance) /\ Reserve(amount') \in Nat
      BY <3>2, ReserveIsMonotone DEF TypeOK
    <3>4. AmountCovered'
      BY <3>1, <3>2, <3>3 DEF AmountCovered, TypeOK
    <3>5. SumsCovered'
      BY <3>1, NoSwapAssumption DEF SumsCovered
    <3> QED
      BY <1>3, <3>1, <3>2, <3>4, <3>5 DEF ReadBalance, TypeOK,
         ListenerHoldsRow, RowsComeFirst, CountIsSweeps, Uncounted
  <2> QED
    BY <2>1, <2>2, <1>3 DEF ReadBalance
<1>4. CASE SweepIsSkipped
  BY <1>4 DEF SweepIsSkipped, TypeOK, ListenerHoldsRow, RowsComeFirst,
     AmountCovered, SumsCovered, CountIsSweeps, Uncounted
<1>5. CASE SweepGoesOn
  BY <1>5 DEF SweepGoesOn, TypeOK, ListenerHoldsRow, RowsComeFirst,
     AmountCovered, SumsCovered, CountIsSweeps, Uncounted
<1>6. CASE SweepRaises
  BY <1>6 DEF SweepRaises, TypeOK, ListenerHoldsRow, RowsComeFirst,
     AmountCovered, SumsCovered, CountIsSweeps, Uncounted
<1>7. CASE ListenerRestart
  BY <1>7 DEF ListenerRestart, TypeOK, ListenerHoldsRow, RowsComeFirst,
     AmountCovered, SumsCovered, CountIsSweeps, Uncounted
<1>8. CASE SweepAtBoltz
  BY <1>8 DEF SweepAtBoltz, TypeOK, ListenerHoldsRow, RowsComeFirst,
     AmountCovered, SumsCovered, CountIsSweeps, Uncounted
<1>9. CASE SweepExecuted
  BY <1>9 DEF SweepExecuted, TypeOK, ListenerHoldsRow, RowsComeFirst,
     AmountCovered, SumsCovered, CountIsSweeps, Uncounted
<1>10. CASE UpdateCount
  BY <1>10 DEF UpdateCount, TypeOK, ListenerHoldsRow, RowsComeFirst,
     AmountCovered, SumsCovered, CountIsSweeps, Uncounted
<1>11. CASE \E a \in Autos : ReadRow(a)
  BY <1>11 DEF ReadRow, TypeOK, ListenerHoldsRow, RowsComeFirst,
     AmountCovered, SumsCovered, CountIsSweeps, Uncounted
<1>12. CASE \E s \in Swaps : SweepStored(s)
  BY <1>12 DEF SweepStored, TypeOK, ListenerHoldsRow, RowsComeFirst,
     AmountCovered, SumsCovered, CountIsSweeps, Uncounted
<1> QED
  BY <1>1, <1>2, <1>3, <1>4, <1>5, <1>6, <1>7, <1>8, <1>9, <1>10, <1>11, <1>12
     DEF ListenerStep

\* Crashes and deactivations.
LEMMA RestartsKeepIInv ==
    ASSUME IInv,
           Deactivated \/ Crash
    PROVE  IInv'
<1> USE AmountsAssumption, ReserveIsNat DEF IInv
<1>1. CASE Deactivated
  BY <1>1 DEF Deactivated, ListenerAnew, TypeOK, ListenerHoldsRow,
     RowsComeFirst, AmountCovered, SumsCovered, CountIsSweeps, Uncounted
<1>2. CASE Crash
  BY <1>2 DEF Crash, ListenerAnew, TypeOK, ListenerHoldsRow, RowsComeFirst,
     AmountCovered, SumsCovered, CountIsSweeps, Uncounted
<1> QED
  BY <1>1, <1>2

LEMMA NextKeepsIInv == IInv /\ [Next]_vars => IInv'
<1> SUFFICES ASSUME IInv, [Next]_vars PROVE IInv'
  OBVIOUS
<1>1. CASE UNCHANGED vars
  BY <1>1 DEF IInv, vars, TypeOK, ListenerHoldsRow, RowsComeFirst,
     AmountCovered, SumsCovered, CountIsSweeps, Uncounted
<1>2. CASE Next
  BY <1>2, RequestsKeepIInv, WalletKeepsIInv, SweepPaymentsKeepIInv,
     ListenerKeepsIInv, RestartsKeepIInv DEF Next
<1> QED
  BY <1>1, <1>2

\* The inductive invariant holds in every reachable state.
THEOREM Invariance == Spec => []IInv
<1>1. Init => IInv
  BY InitIInv
<1>2. IInv /\ [Next]_vars => IInv'
  BY NextKeepsIInv
<1> QED
  BY <1>1, <1>2, PTL DEF Spec

\* Type correctness: in particular no amount that is swept and no balance is
\* ever negative.
THEOREM TypeCorrectness == Spec => []TypeOK
<1>1. IInv => TypeOK
  BY DEF IInv
<1> QED
  BY <1>1, Invariance, PTL

\* But for what has left the wallet since its look at the balance, a sweep can
\* be paid and leaves the balance to keep (SweepKeepsBalance), for any reserve
\* that LNbits is configured with.
THEOREM SweepsKeepTheBalance == Spec => []SweepKeepsBalance
<1>1. IInv => SweepKeepsBalance
  BY DEF IInv, SumsCovered, SweepKeepsBalance
<1> QED
  BY <1>1, Invariance, PTL

\* A sweep finds too little in the wallet only if more than the balance to
\* keep has left it since the look, and one that is sent leaves less than that
\* balance only for what has: the wallet is swept below it only by sweeps and
\* payments that got ahead of each other.
OvertakenOnly ==
    [][\A s \in Swaps :
          /\ SweepIsRefused(s) => gone[s] > Keep
          /\ SweepIsSent(s) => balance' + gone[s] >= Keep]_vars

THEOREM SweepsFailOvertakenOnly == Spec => OvertakenOnly
<1> DEFINE Explained ==
               \A s \in Swaps :
                   /\ SweepIsRefused(s) => gone[s] > Keep
                   /\ SweepIsSent(s) => balance' + gone[s] >= Keep
<1>1. IInv => [Explained]_vars
  <2> SUFFICES ASSUME IInv, NEW s \in Swaps
               PROVE  /\ SweepIsRefused(s) => gone[s] > Keep
                      /\ SweepIsSent(s) => balance' + gone[s] >= Keep
    OBVIOUS
  <2>1. /\ sum[s] \in Nat /\ Reserve(sum[s]) \in Nat /\ Keep \in Nat
        /\ gone[s] \in Nat /\ balance \in Nat
    BY ReserveIsNat, AmountsAssumption DEF IInv, TypeOK
  <2>2. pay[s] = "calling" =>
            sum[s] + Reserve(sum[s]) + Keep <= balance + gone[s]
    BY DEF IInv, SumsCovered
  <2> QED
    BY <2>1, <2>2 DEF SweepIsRefused, SweepIsSent, Leaves
<1> QED
  BY <1>1, Invariance, PTL DEF OvertakenOnly

\* The count of a row misses only the sweeps a restart cut off
\* (CountIsSweeps).
THEOREM SweepsAreCounted == Spec => []CountIsSweeps
<1>1. IInv => CountIsSweeps
  BY DEF IInv
<1> QED
  BY <1>1, Invariance, PTL

-----------------------------------------------------------------------------
(***************************************************************************)
(* Every sweep has had a payment that came in.                             *)
(***************************************************************************)

\* The listener works on a notice whose sweep is not stored yet.
AtNotice == sweepPc \in {"row", "wallet", "client", "create", "insert"}

\* The notices that may still become a sweep: those in the queue and the one
\* the listener works on.
Notices == IF AtNotice THEN queue + 1 ELSE queue

\* A payment that came in is worth one sweep at the most: neither the payments
\* of the sweeps nor a restart of the listener start another.
SweepsHaveNotices ==
    /\ IsFiniteSet(Stored)
    /\ Cardinality(Stored) + Notices <= received
    /\ received <= MaxReceived

\* A step that stores no sweep.
LEMMA NoticesKept ==
    ASSUME IInv, SweepsHaveNotices, [Next]_vars,
           ~ \E s \in Swaps : SweepStored(s)
    PROVE  SweepsHaveNotices'
<1> DEFINE stored == Cardinality(Stored)
<1> USE DEF IInv, TypeOK
<1>1. Stored' = Stored
  <2>1. CASE \E s \in Swaps :
                 \/ SweepIsSent(s) \/ SweepIsRefused(s) \/ SweepBounces(s)
                 \/ \E fee \in 0..Reserve(sum[s]) : SweepSettles(s, fee)
    BY <2>1 DEF Stored, SweepIsSent, SweepIsRefused, SweepBounces,
       SweepSettles
  <2>2. CASE SweepExecuted
    BY <2>2 DEF Stored, SweepExecuted, ListenerHoldsRow
  <2>3. CASE Deactivated \/ Crash
    BY <2>3 DEF Stored, Deactivated, Crash
  <2>4. CASE UNCHANGED pay
    BY <2>4 DEF Stored
  <2> QED
    BY <2>1, <2>2, <2>3, <2>4 DEF Next, vars, ListenerStep, AutoAllowed,
       AutoRefused, AutoCreate, AutoDelete, Receive, Spend, ListenerGet,
       NoRow, ReadRow, ReadBalance, SweepIsSkipped, SweepGoesOn, SweepRaises,
       ListenerRestart, SweepAtBoltz, UpdateCount
<1>2. IsFiniteSet(Stored) /\ stored \in Nat
  BY FS_CardinalityType DEF SweepsHaveNotices
<1>3. stored + Notices <= received /\ received <= MaxReceived
  BY DEF SweepsHaveNotices
<1> HIDE DEF stored
<1>4. stored + Notices' <= received' /\ received' <= MaxReceived
  <2> USE <1>2, <1>3, BoundsAssumption DEF Notices, AtNotice
  <2>1. CASE ListenerStep
    BY <2>1 DEF ListenerStep, ListenerGet, NoRow, ReadRow, ReadBalance,
       SweepIsSkipped, SweepGoesOn, SweepRaises, ListenerRestart,
       SweepAtBoltz, SweepExecuted, UpdateCount
  <2>2. CASE Deactivated \/ Crash
    BY <2>2 DEF Deactivated, Crash, ListenerAnew
  <2>3. CASE \E n \in Payments : Receive(n)
    BY <2>3 DEF Receive
  <2>4. CASE UNCHANGED <<sweepPc, queue, received>>
    BY <2>4
  <2> QED
    BY <2>1, <2>2, <2>3, <2>4 DEF Next, vars, AutoAllowed, AutoRefused,
       AutoCreate, AutoDelete, Spend, SweepIsSent, SweepIsRefused,
       SweepBounces, SweepSettles
<1> QED
  BY <1>1, <1>2, <1>4 DEF SweepsHaveNotices, stored

\* Storing a sweep takes its notice.
LEMMA NoticeTaken ==
    ASSUME IInv, SweepsHaveNotices, NEW s \in Swaps, SweepStored(s)
    PROVE  SweepsHaveNotices'
<1> DEFINE stored == Cardinality(Stored)
           now == Cardinality(Stored')
<1> USE DEF IInv, TypeOK
<1>1. Stored' = Stored \cup {s} /\ s \notin Stored
  BY DEF Stored, SweepStored
<1>2. IsFiniteSet(Stored) /\ stored \in Nat
  BY FS_CardinalityType DEF SweepsHaveNotices
<1>3. IsFiniteSet(Stored') /\ now = stored + 1
  BY <1>1, <1>2, FS_AddElement
<1>4. stored + Notices <= received /\ received <= MaxReceived
  BY DEF SweepsHaveNotices
<1> HIDE DEF stored, now
<1>5. now + Notices' <= received' /\ received' <= MaxReceived
  BY <1>2, <1>3, <1>4 DEF SweepStored, Notices, AtNotice
<1> QED
  BY <1>3, <1>5 DEF SweepsHaveNotices, now

\* No more sweeps are ever made than payments have come in, for any number of
\* rows, requests, sweeps and restarts.
THEOREM EverySweepHasItsNotice == Spec => []SweepsHaveNotices
<1>1. Init => SweepsHaveNotices
  <2> SUFFICES ASSUME Init PROVE SweepsHaveNotices
    OBVIOUS
  <2>1. Stored = {} /\ Notices = 0 /\ received = 0
    BY DEF Init, Stored, Notices, AtNotice
  <2> QED
    BY <2>1, FS_EmptySet, BoundsAssumption DEF SweepsHaveNotices
<1>2. IInv /\ SweepsHaveNotices /\ [Next]_vars => SweepsHaveNotices'
  BY NoticesKept, NoticeTaken
<1> QED
  BY <1>1, <1>2, Invariance, PTL DEF Spec

-----------------------------------------------------------------------------
(***************************************************************************)
(* Where a task can go on.  A guard below is the disjunction of the guards *)
(* of the actions that make up a step of the task, as they are written.    *)
(* The step changes where the task awaits, so ENABLED of it is true        *)
(* wherever its guard is, by what ENABLED means: GuardsSuffice, which the  *)
(* theorem on liveness assumes because the prover knows no more of ENABLED *)
(* than its name.                                                          *)
(***************************************************************************)

ListenerGuard ==
    \/ sweepPc = "wait" /\ queue > 0
    \/ \E a \in Autos : sweepPc = "row" /\ a \in rows
    \/ sweepPc = "row" /\ rows = {}
    \/ sweepPc = "wallet" /\ (Surplus >= Amount \/ Surplus < Amount)
    \/ sweepPc = "client"
    \/ sweepPc = "create"
    \/ \E s \in Swaps : sweepPc = "insert" /\ pay[s] = "none"
    \/ sweepPc = "execute"
    \/ sweepPc = "count"
    \/ sweepPc = "sleep"

PayGuard(s) ==
    \/ pay[s] = "calling" /\ sum[s] + Reserve(sum[s]) <= balance
    \/ pay[s] = "calling" /\ sum[s] + Reserve(sum[s]) > balance

GuardsSuffice ==
    /\ ListenerGuard => ENABLED <<ListenerStep>>_vars
    /\ \A s \in Swaps :
           PayGuard(s) => ENABLED <<SweepIsSent(s) \/ SweepIsRefused(s)>>_vars

\* Boltz makes as many reverse swaps as it is asked for: there is one for
\* every payment the bound lets come in.
SwapsSuffice == IsFiniteSet(Swaps) => Cardinality(Swaps) >= MaxReceived

\* A sweep that is about to be stored has a reverse swap of its own.
LEMMA SwapIsLeft ==
    ASSUME SwapsSuffice, SweepsHaveNotices, IInv, sweepPc = "insert"
    PROVE  \E s \in Swaps : pay[s] = "none"
<1> SUFFICES ASSUME \A s \in Swaps : pay[s] # "none" PROVE FALSE
  OBVIOUS
<1> DEFINE stored == Cardinality(Stored)
<1>1. Stored = Swaps
  BY DEF Stored
<1>2. IsFiniteSet(Stored) /\ stored \in Nat
  BY FS_CardinalityType DEF SweepsHaveNotices
<1>3. stored >= MaxReceived
  BY <1>1, <1>2 DEF SwapsSuffice
<1>4. stored + Notices <= received /\ received <= MaxReceived
  BY DEF SweepsHaveNotices
<1> HIDE DEF stored
<1>5. Notices = queue + 1
  BY DEF Notices, AtNotice
<1> QED
  BY <1>2, <1>3, <1>4, <1>5, BoundsAssumption DEF IInv, TypeOK

\* Wherever a sweep awaits, one of its actions has its guard.
LEMMA SweepHasGuard ==
    ASSUME SwapsSuffice, SweepsHaveNotices, IInv, sweepPc \in SweepAwaits
    PROVE  ListenerGuard
<1> USE DEF IInv, TypeOK
<1>1. CASE sweepPc = "insert"
  BY <1>1, SwapIsLeft DEF ListenerGuard
<1>2. CASE sweepPc = "wallet"
  <2>1. Surplus \in Int /\ Amount \in Int
    BY AmountsAssumption, ReserveIsNat DEF Surplus
  <2> QED
    BY <1>2, <2>1 DEF ListenerGuard
<1>3. CASE sweepPc \in {"row", "client", "create", "execute"}
  BY <1>3 DEF ListenerGuard
<1> QED
  BY <1>1, <1>2, <1>3 DEF SweepAwaits

\* A task that has to pay for a sweep is sent the payment or refused it.
LEMMA PayerHasGuard ==
    ASSUME IInv, NEW s \in Swaps, pay[s] = "calling"
    PROVE  PayGuard(s)
BY ReserveIsNat DEF IInv, TypeOK, PayGuard

-----------------------------------------------------------------------------
(***************************************************************************)
(* A surplus is swept.                                                     *)
(***************************************************************************)

\* A new sweep was paid for or refused, nothing is left to sweep, or one of
\* the reasons not to.
Over(stored) ==
    \/ Asked \ stored # {} \/ Surplus < Amount
    \/ rows = {} \/ attempt = "givenUp"

\* The listener is at pc and has not stored its sweep, or is about to have the
\* one it has stored paid for.
ListenerAt(pc, stored) ==
    /\ sweepPc = pc
    /\ IF pc = "execute" THEN swap \notin stored ELSE Stored = stored

\* What comes after the await pc.
After(pc) == [row |-> "wallet", wallet |-> "client", client |-> "create",
              create |-> "insert", insert |-> "execute"][pc]

\* A task has to pay for a sweep that was not stored before.
Calling(stored) == \E s \in Swaps \ stored : pay[s] = "calling"

\* As long as there is something to sweep, the listener goes from each await
\* to the one after it, until a task pays for the sweep.
LEMMA ListenerMoves ==
    ASSUME IInv, [Next]_vars, NEW stored, ~Over(stored),
           NEW pc \in SweepAwaits, ListenerAt(pc, stored)
    PROVE  \/ Over(stored)'
           \/ ListenerAt(pc, stored)'
           \/ pc = "execute" /\ Calling(stored)'
           \/ pc # "execute" /\ ListenerAt(After(pc), stored)'
<1> USE DEF ListenerAt, SweepAwaits, IInv, TypeOK
<1>1. CASE ListenerStep
  <2>1. CASE SweepExecuted
    BY <2>1 DEF SweepExecuted, Calling, ListenerHoldsRow
  <2>2. CASE NoRow \/ SweepIsSkipped \/ SweepRaises
    BY <2>2 DEF NoRow, SweepIsSkipped, SweepRaises, Over
  <2>3. CASE ReadBalance
    BY <2>3 DEF ReadBalance, Over, After, Stored
  <2>4. CASE \E s \in Swaps : SweepStored(s)
    BY <2>4 DEF SweepStored, After, Stored
  <2>5. CASE \/ ListenerGet \/ SweepGoesOn \/ SweepAtBoltz \/ UpdateCount
             \/ ListenerRestart \/ \E a \in Autos : ReadRow(a)
    BY <2>5 DEF ListenerGet, SweepGoesOn, SweepAtBoltz, UpdateCount, ReadRow,
       ListenerRestart, After, Stored
  <2> QED
    BY <1>1, <2>1, <2>2, <2>3, <2>4, <2>5 DEF ListenerStep
<1>2. CASE Deactivated \/ Crash
  BY <1>2 DEF Deactivated, Crash, ListenerAnew, Over
<1>3. CASE \E s \in Swaps :
               \/ SweepIsSent(s) \/ SweepIsRefused(s) \/ SweepBounces(s)
               \/ \E fee \in 0..Reserve(sum[s]) : SweepSettles(s, fee)
  BY <1>3 DEF SweepIsSent, SweepIsRefused, SweepBounces, SweepSettles, Stored
<1>4. CASE UNCHANGED <<sweepPc, swap, pay>>
  BY <1>4 DEF Stored
<1> QED
  BY <1>1, <1>2, <1>3, <1>4 DEF Next, vars, AutoAllowed, AutoRefused,
     AutoCreate, AutoDelete, Receive, Spend

LEMMA ListenerLeaves ==
    ASSUME IInv, ListenerStep
    PROVE  sweepPc' # sweepPc
BY DEF IInv, TypeOK, ListenerStep, ListenerGet, NoRow, ReadRow, ReadBalance,
   SweepIsSkipped, SweepGoesOn, SweepRaises, ListenerRestart, SweepAtBoltz,
   SweepStored, SweepExecuted, UpdateCount

\* A task that pays for a new sweep goes on until it has sent the payment or
\* been refused it.
LEMMA CallingMoves ==
    ASSUME IInv, [Next]_vars, NEW stored, NEW s \in Swaps \ stored,
           pay[s] = "calling"
    PROVE  Over(stored)' \/ pay'[s] = "calling"
<1> USE DEF IInv, TypeOK
<1>1. CASE \E t \in Swaps : SweepIsSent(t) \/ SweepIsRefused(t)
  <2>1. PICK t \in Swaps : SweepIsSent(t) \/ SweepIsRefused(t)
    BY <1>1
  <2>2. CASE t = s
    <3>1. s \in Asked'
      BY <2>1, <2>2 DEF Asked, SweepIsSent, SweepIsRefused
    <3> QED
      BY <3>1 DEF Over
  <2> QED
    BY <2>1, <2>2 DEF SweepIsSent, SweepIsRefused
<1>2. CASE \E t \in Swaps :
               \/ SweepBounces(t) \/ SweepStored(t)
               \/ \E fee \in 0..Reserve(sum[t]) : SweepSettles(t, fee)
  BY <1>2 DEF SweepBounces, SweepStored, SweepSettles
<1>3. CASE SweepExecuted
  BY <1>3 DEF SweepExecuted, ListenerHoldsRow
<1>4. CASE Deactivated
  BY <1>4 DEF Deactivated
<1>5. CASE Crash
  <2>1. s \in Asked'
    BY <1>5 DEF Crash, Asked
  <2> QED
    BY <2>1 DEF Over
<1>6. CASE UNCHANGED pay
  BY <1>6
<1> QED
  BY <1>1, <1>2, <1>3, <1>4, <1>5, <1>6 DEF Next, vars, ListenerStep,
     AutoAllowed, AutoRefused, AutoCreate, AutoDelete, Receive, Spend,
     ListenerGet, NoRow, ReadRow, ReadBalance, SweepIsSkipped, SweepGoesOn,
     SweepRaises, ListenerRestart, SweepAtBoltz, UpdateCount

LEMMA CallingLeaves ==
    ASSUME IInv, NEW s \in Swaps, SweepIsSent(s) \/ SweepIsRefused(s)
    PROVE  pay'[s] # "calling"
BY DEF IInv, TypeOK, SweepIsSent, SweepIsRefused

\* What is true of the system from any reachable state on.
Runs ==
    [](IInv /\ SweepsHaveNotices /\ GuardsSuffice) /\ [][Next]_vars

LEMMA CallEnds ==
    ASSUME NEW stored, NEW s \in Swaps \ stored
    PROVE  Runs /\ SweepFairness(s) => (pay[s] = "calling" => <>Over(stored))
<1> DEFINE Call == pay[s] = "calling"
           Done == Over(stored)
<1>1. IInv /\ [Next]_vars => (Call => Call' \/ Done')
  BY CallingMoves
<1>2. IInv /\ <<SweepIsSent(s) \/ SweepIsRefused(s)>>_vars => (Call => ~Call')
  BY CallingLeaves
<1>3. IInv /\ GuardsSuffice /\ Call =>
          ENABLED <<SweepIsSent(s) \/ SweepIsRefused(s)>>_vars
  BY PayerHasGuard DEF GuardsSuffice
<1>4. Runs /\ SweepFairness(s) => (Call => <>Done)
  <2> HIDE DEF Call, Done
  <2> QED
    BY <1>1, <1>2, <1>3, PTL DEF Runs, SweepFairness
<1> QED
  BY <1>4, PTL

\* Whichever task it is.
LEMMA CallingEnds ==
    ASSUME NEW stored
    PROVE  Runs /\ SweepsFairness => (Calling(stored) => <>Over(stored))
<1> DEFINE Ends == <>Over(stored)
<1>1. ASSUME NEW s \in Swaps \ stored
      PROVE  Runs /\ SweepFairness(s) => (pay[s] = "calling" => Ends)
  BY CallEnds, PTL
<1>2. Runs /\ SweepsFairness => (Calling(stored) => Ends)
  <2> HIDE DEF Ends
  <2> QED
    BY <1>1 DEF SweepsFairness, Calling
<1> QED
  BY <1>2, PTL

LEMMA RunsOn == Spec /\ []GuardsSuffice => []Runs
BY Invariance, EverySweepHasItsNotice, PTL DEF Spec, Runs

LEMMA SurplusIsSwept ==
    ASSUME NEW stored, SwapsSuffice
    PROVE  Spec /\ []Fairness /\ []GuardsSuffice => SurplusSwept(stored)
<1> DEFINE Row == ListenerAt("row", stored) /\ ~Over(stored)
           Wallet == ListenerAt("wallet", stored) /\ ~Over(stored)
           Client == ListenerAt("client", stored) /\ ~Over(stored)
           Create == ListenerAt("create", stored) /\ ~Over(stored)
           Insert == ListenerAt("insert", stored) /\ ~Over(stored)
           Execute == ListenerAt("execute", stored) /\ ~Over(stored)
           Pays == Calling(stored)
           Some == /\ sweepPc = "row" /\ rows # {} /\ Surplus >= Amount
                   /\ Stored = stored
           Done == Over(stored)
<1>1. IInv /\ [Next]_vars =>
          /\ Row => Row' \/ Wallet' \/ Done'
          /\ Wallet => Wallet' \/ Client' \/ Done'
          /\ Client => Client' \/ Create' \/ Done'
          /\ Create => Create' \/ Insert' \/ Done'
          /\ Insert => Insert' \/ Execute' \/ Done'
          /\ Execute => Execute' \/ Pays' \/ Done'
  BY ListenerMoves DEF SweepAwaits, After
<1>2. IInv /\ <<ListenerStep>>_vars =>
          /\ Row => ~Row'
          /\ Wallet => ~Wallet'
          /\ Client => ~Client'
          /\ Create => ~Create'
          /\ Insert => ~Insert'
          /\ Execute => ~Execute'
  BY ListenerLeaves DEF ListenerAt
<1>3. /\ IInv /\ SweepsHaveNotices /\ GuardsSuffice
      /\ Row \/ Wallet \/ Client \/ Create \/ Insert \/ Execute
      => ENABLED <<ListenerStep>>_vars
  BY SweepHasGuard DEF GuardsSuffice, ListenerAt, SweepAwaits
<1>4. Some => Row \/ Done
  BY DEF ListenerAt
<1>5. Runs /\ SweepsFairness => (Pays => <>Done)
  BY CallingEnds, PTL
<1>6. Spec /\ []Fairness /\ []GuardsSuffice => (Some ~> Done)
  <2> HIDE DEF Row, Wallet, Client, Create, Insert, Execute, Pays, Some, Done
  <2>1. Spec /\ []Fairness /\ []GuardsSuffice => (Pays ~> Done)
    BY <1>5, RunsOn, PTL DEF Fairness
  <2> QED
    BY <1>1, <1>2, <1>3, <1>4, <2>1, Invariance, EverySweepHasItsNotice, PTL
       DEF Spec, Fairness
<1> QED
  BY <1>6, PTL DEF SurplusSwept, Over

\* Whenever the listener takes a payment and there is a surplus, a sweep that
\* was not stored before is paid for or refused, or the surplus or the row is
\* gone first, or this very sweep is skipped, dropped by an exception or cut
\* off by a restart (NoticedSurplusIsSwept): with any number of rows, requests
\* and payments.  []Fairness is what Fairness is: weak fairness holds from
\* every state on if it holds at all, which the prover cannot conclude for a
\* formula with a quantifier.
THEOREM SurplusesAreSwept ==
    ASSUME SwapsSuffice
    PROVE  Spec /\ []Fairness /\ []GuardsSuffice => NoticedSurplusIsSwept
BY SurplusIsSwept DEF NoticedSurplusIsSwept

=============================================================================
