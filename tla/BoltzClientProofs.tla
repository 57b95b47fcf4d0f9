------------------------- MODULE BoltzClientProofs -------------------------
(***************************************************************************)
(* Theorems about BoltzClient for all settings, fees and orders, any       *)
(* number of swaps and every bound: type correctness and the five safety   *)
(* properties.                                                             *)
(***************************************************************************)
EXTENDS BoltzClient, SwapFeesProofs, FiniteSetTheorems

-----------------------------------------------------------------------------
(***************************************************************************)
(* Transactions.                                                           *)
(***************************************************************************)

LEMMA LockupOutputIsOutput ==
    ASSUME NEW outputs \in Seq(Output), NEW n \in LockupOutput(outputs)
    PROVE  /\ n \in DOMAIN outputs /\ n \in Nat /\ n >= 1
           /\ outputs[n].to = "lockup" /\ outputs[n].value \in Nat
           /\ outputs[n].lbtc \in BOOLEAN
<1>1. n \in DOMAIN outputs /\ outputs[n].to = "lockup"
  BY DEF LockupOutput
<1>2. n \in Nat /\ n >= 1 /\ outputs[n] \in Output
  BY <1>1
<1> QED
  BY <1>1, <1>2 DEF Output

\* The index that is counted is that of the output the loop ends at: it has
\* passed over those before it.
LEMMA VoutIndexPoints ==
    ASSUME NEW outputs \in Seq(Output), NEW n \in LockupOutput(outputs)
    PROVE  VoutIndex(outputs) = n - 1
<1> DEFINE passed ==
        {k \in DOMAIN outputs : \A m \in 1..k : outputs[m].to # "lockup"}
<1>1. /\ n \in 1..Len(outputs) /\ outputs[n].to = "lockup"
      /\ \A m \in 1..Len(outputs) : outputs[m].to = "lockup" => n <= m
      /\ Len(outputs) \in Nat /\ DOMAIN outputs = 1..Len(outputs)
  BY DEF LockupOutput
<1>2. passed = 1..(n - 1)
  <2>1. ASSUME NEW k \in passed
        PROVE  k \in 1..(n - 1)
    <3>1. k \in 1..Len(outputs) /\ \A m \in 1..k : outputs[m].to # "lockup"
      BY <1>1
    <3>2. ~(n <= k)
      BY <1>1, <3>1
    <3> QED
      BY <1>1, <3>1, <3>2
  <2>2. ASSUME NEW k \in 1..(n - 1)
        PROVE  k \in passed
    <3>1. k \in 1..Len(outputs)
      BY <1>1, <2>2
    <3>2. ASSUME NEW m \in 1..k
          PROVE  outputs[m].to # "lockup"
      BY <1>1, <2>2, <3>2
    <3> QED
      BY <1>1, <3>1, <3>2
  <2> QED
    BY <2>1, <2>2
<1>3. Cardinality(1..(n - 1)) = n - 1
  BY <1>1, FS_Interval
<1> QED
  BY <1>2, <1>3 DEF VoutIndex

\* What is asked of create_onchain_tx is in the transaction.
IsTxOf(t, pair, outputs, fee, final, timeout, preimage, scriptSig) ==
    /\ t \in Tx
    /\ t.input + 1 \in LockupOutput(outputs)
    /\ IsSigned(outputs, t)
    /\ t.value + fee = Coin(outputs, t).value
    /\ t.final = final /\ t.locktime = timeout
    /\ t.preimage = preimage
    /\ t.scriptSig = (scriptSig /\ pair = Bitcoin)

LEMMA CreatedTx ==
    ASSUME NEW pair \in Pairs, NEW key \in BOOLEAN,
           NEW outputs \in Seq(Output), NEW fee \in Nat,
           NEW final \in BOOLEAN, NEW timeout \in Nat,
           NEW preimage \in BOOLEAN, NEW scriptSig \in BOOLEAN,
           NEW t \in CreateOnchainTx(pair, key, outputs, fee, final, timeout,
                                     preimage, scriptSig)
    PROVE  IsTxOf(t, pair, outputs, fee, final, timeout, preimage, scriptSig)
<1>1. PICK n \in LockupOutput(outputs) :
          t = [input |-> n - 1, signed |-> outputs[n].value,
               value |-> outputs[n].value - fee,
               final |-> final, locktime |-> timeout,
               preimage |-> preimage,
               scriptSig |-> scriptSig /\ pair = Bitcoin]
  <2>1. CASE pair = Bitcoin
    <3>1. PICK n \in LockupOutput(outputs) :
              t = [input |-> VoutIndex(outputs),
                   signed |-> outputs[n].value,
                   value |-> outputs[n].value - fee,
                   final |-> final, locktime |-> timeout,
                   preimage |-> preimage, scriptSig |-> scriptSig]
      BY <2>1 DEF CreateOnchainTx, CreateBitcoinTx
    <3> QED
      BY <2>1, <3>1, VoutIndexPoints
  <2>2. CASE pair = Liquid
    BY <2>2 DEF CreateOnchainTx, CreateLiquidTx, Bitcoin, Liquid
  <2> QED
    BY <2>1, <2>2 DEF Pairs
<1>2. /\ n \in Nat /\ n >= 1 /\ n \in DOMAIN outputs
      /\ outputs[n].value \in Nat /\ outputs[n].to = "lockup"
  BY LockupOutputIsOutput
<1>3. t \in Tx
  BY <1>1, <1>2 DEF Tx
<1>4. t.input + 1 = n
  BY <1>1, <1>2
<1> QED
  BY <1>1, <1>2, <1>3, <1>4 DEF IsTxOf, IsSigned, Coin

LEMMA ClaimTxCreated ==
    ASSUME NEW pair \in Pairs, NEW key \in BOOLEAN,
           NEW outputs \in Seq(Output), NEW fee \in Nat,
           NEW t \in CreateClaimTx(pair, key, outputs, fee)
    PROVE  /\ t \in Tx /\ t.input + 1 \in LockupOutput(outputs)
           /\ IsSigned(outputs, t) /\ t.value + fee = Coin(outputs, t).value
           /\ t.final /\ t.preimage /\ ~t.scriptSig
<1>1. t \in CreateOnchainTx(pair, key, outputs, fee, TRUE, 0, TRUE, FALSE)
  BY Zenon DEF CreateClaimTx
<1>2. 0 \in Nat /\ TRUE \in BOOLEAN /\ FALSE \in BOOLEAN
  OBVIOUS
<1>3. IsTxOf(t, pair, outputs, fee, TRUE, 0, TRUE, FALSE)
  BY <1>1, <1>2, CreatedTx, Zenon
<1> QED
  BY <1>3 DEF IsTxOf

LEMMA RefundTxCreated ==
    ASSUME NEW pair \in Pairs, NEW key \in BOOLEAN,
           NEW outputs \in Seq(Output), NEW fee \in Nat, NEW timeout \in Nat,
           NEW t \in CreateRefundTx(pair, key, outputs, fee, timeout)
    PROVE  /\ t \in Tx /\ t.input + 1 \in LockupOutput(outputs)
           /\ IsSigned(outputs, t) /\ t.value + fee = Coin(outputs, t).value
           /\ t.locktime = timeout /\ ~t.final /\ ~t.preimage
           /\ t.scriptSig = (pair = Bitcoin)
<1>1. t \in CreateOnchainTx(pair, key, outputs, fee, FALSE, timeout, FALSE,
                           TRUE)
  BY Zenon DEF CreateRefundTx
<1>2. TRUE \in BOOLEAN /\ FALSE \in BOOLEAN
  OBVIOUS
<1>3. IsTxOf(t, pair, outputs, fee, FALSE, timeout, FALSE, TRUE)
  BY <1>1, <1>2, CreatedTx, Zenon
<1> QED
  BY <1>3 DEF IsTxOf

\* A transaction that is not built, for its fee or the asset only: a lockup
\* with an output to the swap is there, and a liquid swap has its key.
LEMMA NoTxCreated ==
    ASSUME NEW pair \in Pairs, NEW key \in BOOLEAN, pair = Liquid => key,
           NEW outputs \in Seq(Output), NEW fee \in Nat, NEW timeout,
           \/ CreateClaimTx(pair, key, outputs, fee) = {}
           \/ CreateRefundTx(pair, key, outputs, fee, timeout) = {},
           NEW n \in LockupOutput(outputs)
    PROVE  outputs[n].value < fee \/ (pair = Liquid /\ ~outputs[n].lbtc)
<1>1. outputs[n].value \in Nat
  BY LockupOutputIsOutput
<1>2. CASE outputs[n].value >= fee /\ (pair = Liquid => outputs[n].lbtc)
  BY <1>2 DEF CreateClaimTx, CreateRefundTx, CreateOnchainTx,
     CreateBitcoinTx, CreateLiquidTx, Pairs
<1> QED
  BY <1>1, <1>2

\* The lockups of the model pay to the swap.
LEMMA LockupOutputOfOne ==
    ASSUME NEW o \in Output, o.to = "lockup"
    PROVE  LockupOutput(<<o>>) = {1}
BY DEF LockupOutput

LEMMA LockupOutputOfTwo ==
    ASSUME NEW o \in Output, NEW p \in Output, p.to = "lockup"
    PROVE  LockupOutput(<<o, p>>) = IF o.to = "lockup" THEN {1} ELSE {2}
BY DEF LockupOutput

-----------------------------------------------------------------------------
(***************************************************************************)
(* The inductive invariant.                                                *)
(***************************************************************************)

\* An empty table has never been saved to: the defaults are as good.
SavedKept ==
    astray = "no" => rows \subseteq {saved} /\ (rows = {} => saved = Default)

\* Where a task is tells what there is, and how the last look ended.
Placed(s) ==
    /\ pc[s] # "new" => order[s] \in Orders
    /\ pc[s] \in {"new", "address", "create", "refused"} => deal[s] = NoDeal
    /\ pc[s] \in {"wait", "idle", "gone", "over"} => deal[s] # NoDeal
    /\ deal[s] = NoDeal => lockup[s] = <<>>
    /\ outcome[s] # "none" => pc[s] \in {"idle", "gone", "over"}
    /\ outcome[s] \in {"claimed", "refunded"} => pc[s] = "over"

\* The address has been checked, but for a sweep.
Checked(s) ==
    pc[s] \notin {"new", "address", "refused"} /\ order[s].kind # "sweep" =>
        NetworkOf(checked[s], order[s].pair) = order[s].network

\* The client at hand is the one for the step that is next.
Attended(s) ==
    /\ pc[s] \in {"pairs", "create", "wait"} => client[s] \in Client
    /\ pc[s] \in {"create", "wait"} => client[s].fees \in FeeTables
    /\ pc[s] \in {"pairs", "create"} =>
           client[s].pair = IF deal[s] = NoDeal THEN order[s].pair ELSE asset[s]
    /\ pc[s] = "wait" => AddressesFit(client[s], order[s], deal[s])

\* The row and what Boltz answered are about the order.
Dealt(s) == deal[s] # NoDeal =>
    /\ deal[s].pair = order[s].pair
    /\ asset[s] = IF order[s].kind = "sweep" THEN Bitcoin ELSE order[s].pair
    /\ order[s].kind = "submarine" =>
           /\ deal[s].invoice \in SwapInvoices(order[s], deal[s].quoted)
           /\ deal[s].value = ExpectedAmount(deal[s].fees, deal[s].invoice)
    /\ order[s].kind # "submarine" =>
           /\ deal[s].invoice \in ReverseInvoices(order[s], deal[s].quoted)
           /\ deal[s].value = OnchainAmount(deal[s].fees, deal[s].invoice)

\* The lockup pays to the swap; Boltz pays what it has promised.
Locked(s) == lockup[s] # <<>> =>
    /\ LockupOutput(lockup[s]) # {}
    /\ order[s].kind # "submarine" =>
           \A n \in LockupOutput(lockup[s]) :
               lockup[s][n].value = deal[s].value

\* A claim pays out what Boltz has promised, less the client's fee.
Claimed(s) == outcome[s] = "claimed" =>
    /\ order[s].kind # "submarine" /\ lockup[s] # <<>>
    /\ client[s] \in Client /\ client[s].fees \in FeeTables
    /\ tx[s].value = deal[s].value - client[s].fees.claim

\* What was built spends all there is, as SpendsLoseNothing has it.
LosesNothing(s) ==
    outcome[s] \in {"claimed", "rejected", "refunded"} =>
        /\ IsSigned(lockup[s], tx[s])
        /\ tx[s].value + FeeOf(s) = Coin(lockup[s], tx[s]).value

SwapInv(s) ==
    /\ Placed(s) /\ Checked(s) /\ Attended(s) /\ Dealt(s) /\ Locked(s)
    /\ Claimed(s) /\ LosesNothing(s) /\ FailsForAReason(s)

IInv == TypeOK /\ SavedKept /\ \A s \in Swaps : SwapInv(s)

-----------------------------------------------------------------------------
(***************************************************************************)
(* The settings.                                                           *)
(***************************************************************************)

LEMMA SettingsKept ==
    ASSUME SettingsTypeOK, SavedKept,
           NEW r \in Readers, NEW settings \in Settings,
           \/ MissSettings(r) \/ GetSettings(r, settings)
           \/ UpdateSettings(settings) \/ DeleteSettings \/ SettingsCrash
           \/ UNCHANGED settingsVars
    PROVE  SettingsTypeOK' /\ SavedKept'
<1> USE DEF SettingsTypeOK, SavedKept
<1>1. CASE MissSettings(r)
  BY <1>1 DEF MissSettings
<1>2. CASE GetSettings(r, settings)
  BY <1>2, SettingsAssumption DEF GetSettings, settingsVars
<1>3. CASE UpdateSettings(settings)
  BY <1>3, SettingsAssumption DEF UpdateSettings
<1>4. CASE DeleteSettings
  BY <1>4, SettingsAssumption DEF DeleteSettings
<1>5. CASE SettingsCrash
  BY <1>5 DEF SettingsCrash
<1>6. CASE UNCHANGED settingsVars
  BY <1>6 DEF settingsVars
<1> QED
  BY <1>1, <1>2, <1>3, <1>4, <1>5, <1>6

-----------------------------------------------------------------------------
(***************************************************************************)
(* The steps that leave a swap alone.                                      *)
(***************************************************************************)

Untouched(r) ==
    /\ pc'[r] = pc[r] /\ order'[r] = order[r] /\ client'[r] = client[r]
    /\ deal'[r] = deal[r] /\ asset'[r] = asset[r] /\ lockup'[r] = lockup[r]
    /\ tx'[r] = tx[r] /\ outcome'[r] = outcome[r]
    /\ checked'[r] = checked[r] /\ at'[r] = at[r]

LEMMA UntouchedKeeps ==
    ASSUME NEW r, Untouched(r), SwapInv(r)
    PROVE  SwapInv(r)'
<1> USE DEF Untouched, SwapInv
<1>1. Placed(r)' /\ Checked(r)'
  BY DEF Placed, Checked
<1>2. Attended(r)'
  BY DEF Attended
<1>3. Dealt(r)'
  BY DEF Dealt
<1>4. Locked(r)' /\ Claimed(r)'
  BY DEF Locked, Claimed
<1>5. LosesNothing(r)'
  BY DEF LosesNothing, FeeOf
<1>6. FailsForAReason(r)'
  BY DEF FailsForAReason, FeeTooHigh, FeeOf, WrongAsset, SweepMisfits
<1> QED
  BY <1>1, <1>2, <1>3, <1>4, <1>5, <1>6

\* A step of s is a step of no other.
LEMMA StepsAreLocal ==
    ASSUME TypeOK, NEW s \in Swaps, NEW r \in Swaps, r # s, SwapStep(s)
    PROVE  Untouched(r)
<1> USE DEF TypeOK, Untouched
<1>1. CASE \E o \in Orders : PlaceOrder(s, o)
  BY <1>1 DEF PlaceOrder
<1>2. CASE \E settings \in Settings : ValidateAddress(s, settings)
  BY <1>2 DEF ValidateAddress
<1>3. CASE \E settings \in Settings : MakeClient(s, settings)
  BY <1>3 DEF MakeClient
<1>4. CASE FindNoSettings(s)
  BY <1>4 DEF FindNoSettings, swapVars
<1>5. CASE InitPairs(s)
  BY <1>5 DEF InitPairs
<1>6. CASE ClientRaises(s)
  BY <1>6 DEF ClientRaises
<1>7. CASE CreateSwap(s)
  BY <1>7 DEF CreateSwap, Agree
<1>8. CASE CreateReverseSwap(s)
  BY <1>8 DEF CreateReverseSwap, Agree
<1>9. CASE LookAgain(s)
  BY <1>9 DEF LookAgain
<1>10. CASE BoltzLocksUp(s)
  BY <1>10 DEF BoltzLocksUp
<1>11. CASE UserLocksUp(s)
  BY <1>11 DEF UserLocksUp
<1>12. CASE Claim(s)
  BY <1>12 DEF Claim
<1>13. CASE Refund(s)
  BY <1>13 DEF Refund
<1>14. CASE BuildRaises(s)
  BY <1>14 DEF BuildRaises
<1>15. CASE NotFound(s)
  BY <1>15 DEF NotFound
<1> QED
  BY <1>1, <1>2, <1>3, <1>4, <1>5, <1>6, <1>7, <1>8, <1>9, <1>10, <1>11,
     <1>12, <1>13, <1>14, <1>15 DEF SwapStep

-----------------------------------------------------------------------------
(***************************************************************************)
(* Making a swap.                                                          *)
(***************************************************************************)

LEMMA PlaceOrderKeeps ==
    ASSUME TypeOK, SettingsTypeOK', NEW s \in Swaps, SwapInv(s),
           NEW o \in Orders, PlaceOrder(s, o)
    PROVE  TypeOK' /\ SwapInv(s)'
<1> USE DEF PlaceOrder, SwapInv, world
<1>1. TypeOK'
  BY DEF TypeOK
<1>2. /\ pc'[s] = IF o.kind = "sweep" THEN "client" ELSE "address"
      /\ order'[s] = o
  BY DEF TypeOK
<1>3. Placed(s)'
  BY <1>2 DEF Placed
<1>4. Checked(s)' /\ Attended(s)'
  BY <1>2 DEF Checked, Attended
<1>5. deal[s] = NoDeal /\ lockup[s] = <<>> /\ outcome[s] = "none"
  BY DEF Placed, TypeOK
<1>6. Dealt(s)' /\ Locked(s)' /\ Claimed(s)'
  BY <1>5 DEF Dealt, Locked, Claimed
<1>7. LosesNothing(s)' /\ FailsForAReason(s)'
  BY <1>5 DEF LosesNothing, FailsForAReason
<1> QED
  BY <1>1, <1>3, <1>4, <1>6, <1>7

LEMMA ValidateAddressKeeps ==
    ASSUME TypeOK, SettingsTypeOK', NEW s \in Swaps, SwapInv(s),
           NEW settings \in Settings, ValidateAddress(s, settings)
    PROVE  TypeOK' /\ SwapInv(s)'
<1> USE DEF ValidateAddress, SwapInv, world
<1>1. TypeOK'
  BY DEF TypeOK
<1>2. /\ pc'[s] = IF NetworkOf(settings, order[s].pair) = order[s].network
                  THEN "client" ELSE "refused"
      /\ checked'[s] = settings
  BY DEF TypeOK, ValidAddress, UserAddress
<1>3. Placed(s)'
  BY <1>2 DEF Placed
<1>4. Checked(s)' /\ Attended(s)'
  BY <1>2 DEF Checked, Attended
<1>5. deal[s] = NoDeal /\ lockup[s] = <<>> /\ outcome[s] = "none"
  BY DEF Placed, TypeOK
<1>6. Dealt(s)' /\ Locked(s)' /\ Claimed(s)'
  BY <1>5 DEF Dealt, Locked, Claimed
<1>7. LosesNothing(s)' /\ FailsForAReason(s)'
  BY <1>5 DEF LosesNothing, FailsForAReason
<1> QED
  BY <1>1, <1>3, <1>4, <1>6, <1>7

LEMMA FindNoSettingsKeeps ==
    ASSUME TypeOK, SettingsTypeOK', NEW s \in Swaps, SwapInv(s),
           FindNoSettings(s)
    PROVE  TypeOK' /\ SwapInv(s)'
<1>1. TypeOK'
  BY DEF FindNoSettings, TypeOK, swapVars, world
<1>2. Untouched(s)
  BY DEF FindNoSettings, Untouched, swapVars
<1> QED
  BY <1>1, <1>2, UntouchedKeeps

LEMMA MakeClientKeeps ==
    ASSUME TypeOK, SettingsTypeOK', NEW s \in Swaps, SwapInv(s),
           NEW settings \in Settings, MakeClient(s, settings)
    PROVE  TypeOK' /\ SwapInv(s)'
<1> USE DEF MakeClient, SwapInv, world
<1>1. order[s] \in Order /\ asset[s] \in Pairs
  BY OrdersAssumption DEF TypeOK, Placed
<1> DEFINE c == [pair |-> IF deal[s] = NoDeal THEN order[s].pair
                                              ELSE asset[s],
                 settings |-> settings, fees |-> NoFees]
<1>2. c \in Client
  BY <1>1 DEF Client, Order
<1>3. client' = [client EXCEPT ![s] = c] /\ pc' = [pc EXCEPT ![s] = "pairs"]
  OBVIOUS
<1> HIDE DEF c
<1>4. TypeOK'
  BY <1>2, <1>3 DEF TypeOK
<1>5. pc'[s] = "pairs" /\ client'[s] = c
  BY <1>3 DEF TypeOK
<1>6. Placed(s)' /\ Checked(s)'
  BY <1>5 DEF Placed, Checked
<1>7. Attended(s)'
  BY <1>2, <1>5 DEF Attended, c
<1>8. Dealt(s)' /\ Locked(s)'
  BY DEF Dealt, Locked
<1>9. outcome[s] = "none"
  BY DEF Placed, TypeOK
<1>10. Claimed(s)' /\ LosesNothing(s)' /\ FailsForAReason(s)'
  BY <1>9 DEF Claimed, LosesNothing, FailsForAReason
<1> QED
  BY <1>4, <1>6, <1>7, <1>8, <1>10

\* Why a client's addresses may not fit those of the swap.
LEMMA MisfitHasReason ==
    ASSUME NEW o \in Order, NEW c \in Client, NEW d \in Deal, NEW old,
           d.pair = o.pair,
           c.pair = IF o.kind = "sweep" THEN Bitcoin ELSE o.pair,
           o.kind # "sweep" => NetworkOf(old, o.pair) = o.network,
           ~AddressesFit(c, o, d)
    PROVE  \/ c.settings # d.settings
           \/ o.kind # "sweep" /\ old # d.settings
           \/ /\ o.kind = "sweep"
              /\ o.pair = Liquid \/ NetworkOf(d.settings, Bitcoin) # o.network
<1>1. o.pair \in {Bitcoin, Liquid}
  BY DEF Order, Pairs
<1> QED
  BY <1>1
  DEF AddressesFit, ValidAddress, UserAddress, LockupAddress

LEMMA InitPairsKeeps ==
    ASSUME TypeOK, SettingsTypeOK', NEW s \in Swaps, SwapInv(s),
           InitPairs(s)
    PROVE  TypeOK' /\ SwapInv(s)'
<1> USE DEF SwapInv
<1>1. pc[s] = "pairs" /\ client[s] \in Client /\ outcome[s] = "none"
  BY DEF InitPairs, Attended, Placed, TypeOK
<1> DEFINE c == [client[s] EXCEPT !.fees = fees]
<1>2. /\ c \in Client /\ c.fees \in FeeTables /\ c.pair = client[s].pair
      /\ c.settings = client[s].settings
  BY <1>1 DEF Client, TypeOK
<1>3. client' = [client EXCEPT ![s] = c]
  BY <1>1 DEF InitPairs
<1>4. client'[s] = c /\ client' \in [Swaps -> Client \cup {NoClient}]
  BY <1>2, <1>3 DEF TypeOK
<1> HIDE DEF c
<1>5. UNCHANGED <<settingsVars, order, deal, asset, lockup, tx, checked, at,
                  world>>
  BY DEF InitPairs
<1>6. TypeOK'
  BY <1>4, <1>5 DEF InitPairs, TypeOK, world
<1>7. Dealt(s)' /\ Locked(s)'
  BY <1>5 DEF Dealt, Locked
<1>8. CASE deal[s] = NoDeal
  <2>1. pc'[s] = "create" /\ outcome'[s] = "none"
    BY <1>1, <1>4, <1>8 DEF InitPairs, TypeOK
  <2>2. Placed(s)' /\ Checked(s)'
    BY <1>1, <1>5, <1>8, <2>1 DEF Placed, Checked
  <2>3. Attended(s)'
    BY <1>1, <1>2, <1>4, <1>5, <1>8, <2>1 DEF Attended
  <2>4. Claimed(s)' /\ LosesNothing(s)' /\ FailsForAReason(s)'
    BY <2>1 DEF Claimed, LosesNothing, FailsForAReason
  <2> QED
    BY <1>6, <1>7, <2>2, <2>3, <2>4
<1>9. CASE deal[s] # NoDeal /\ AddressesFit(c, order[s], deal[s])
  <2>1. pc'[s] = "wait" /\ outcome'[s] = "none"
    BY <1>1, <1>4, <1>9 DEF InitPairs, TypeOK
  <2>2. Placed(s)' /\ Checked(s)'
    BY <1>1, <1>5, <1>9, <2>1 DEF Placed, Checked
  <2>3. Attended(s)'
    BY <1>2, <1>4, <1>5, <1>9, <2>1 DEF Attended, AddressesFit
  <2>4. Claimed(s)' /\ LosesNothing(s)' /\ FailsForAReason(s)'
    BY <2>1 DEF Claimed, LosesNothing, FailsForAReason
  <2> QED
    BY <1>6, <1>7, <2>2, <2>3, <2>4
<1>10. CASE deal[s] # NoDeal /\ ~AddressesFit(c, order[s], deal[s])
  <2>1. pc'[s] \in {"idle", "gone"} /\ outcome'[s] = "invalid"
    BY <1>1, <1>4, <1>10 DEF InitPairs, TypeOK
  <2>2. Placed(s)' /\ Checked(s)'
    BY <1>1, <1>5, <1>10, <2>1 DEF Placed, Checked
  <2>3. Attended(s)'
    BY <2>1 DEF Attended
  <2>4. Claimed(s)' /\ LosesNothing(s)'
    BY <2>1 DEF Claimed, LosesNothing
  <2>5. /\ order[s] \in Order /\ deal[s] \in Deal
        /\ deal[s].pair = order[s].pair
        /\ c.pair = IF order[s].kind = "sweep" THEN Bitcoin ELSE order[s].pair
        /\ order[s].kind # "sweep" =>
               NetworkOf(checked[s], order[s].pair) = order[s].network
    BY <1>1, <1>2, <1>10, OrdersAssumption
    DEF TypeOK, Placed, Attended, Dealt, Checked
  <2>6. \/ c.settings # deal[s].settings
        \/ order[s].kind # "sweep" /\ checked[s] # deal[s].settings
        \/ SweepMisfits(s)
    BY <1>2, <1>10, <2>5, MisfitHasReason DEF SweepMisfits
  <2>7. FailsForAReason(s)'
    BY <1>4, <1>5, <2>1, <2>6 DEF FailsForAReason, SweepMisfits
  <2> QED
    BY <1>6, <1>7, <2>2, <2>3, <2>4, <2>7
<1> QED
  BY <1>8, <1>9, <1>10

LEMMA ClientRaisesKeeps ==
    ASSUME TypeOK, SettingsTypeOK', NEW s \in Swaps, SwapInv(s),
           ClientRaises(s)
    PROVE  TypeOK' /\ SwapInv(s)'
<1> USE DEF ClientRaises, SwapInv, world
<1>1. TypeOK'
  BY DEF TypeOK
<1>2. outcome[s] = "none"
  BY DEF Placed, TypeOK
<1>3. /\ pc'[s] \in {"refused", "idle", "gone"}
      /\ pc'[s] = "refused" <=> deal[s] = NoDeal
  BY DEF TypeOK
<1>4. Placed(s)' /\ Checked(s)' /\ Attended(s)'
  BY <1>2, <1>3 DEF Placed, Checked, Attended
<1>5. Dealt(s)' /\ Locked(s)'
  BY DEF Dealt, Locked
<1>6. Claimed(s)' /\ LosesNothing(s)' /\ FailsForAReason(s)'
  BY <1>2 DEF Claimed, LosesNothing, FailsForAReason
<1> QED
  BY <1>1, <1>4, <1>5, <1>6

\* What a swap that is made starts with.
LEMMA CreateStart ==
    ASSUME TypeOK, NEW s \in Swaps, SwapInv(s), pc[s] = "create"
    PROVE  /\ order[s] \in Order /\ deal[s] = NoDeal
           /\ client[s] \in Client /\ client[s].pair = order[s].pair
           /\ client[s].fees \in FeeTables /\ IsFees(client[s].fees)
           /\ fees \in FeeTables /\ IsFees(fees)
           /\ lockup[s] = <<>> /\ outcome[s] = "none"
BY OrdersAssumption, FeesAssumption
DEF TypeOK, SwapInv, Placed, Attended

LEMMA AgreeMakesDeal ==
    ASSUME TypeOK, NEW s \in Swaps, SwapInv(s), pc[s] = "create",
           NEW invoice \in Nat, NEW value \in Int, Agree(s, invoice, value)
    PROVE  /\ deal' \in [Swaps -> Deal \cup {NoDeal}]
           /\ deal'[s] \in Deal /\ deal'[s] # NoDeal
           /\ deal'[s].pair = order[s].pair
           /\ deal'[s].settings = client[s].settings
           /\ deal'[s].quoted = client[s].fees /\ deal'[s].fees = fees
           /\ deal'[s].invoice = invoice /\ deal'[s].value = value
<1> DEFINE d == [pair |-> client[s].pair, settings |-> client[s].settings,
                 quoted |-> client[s].fees, fees |-> fees,
                 invoice |-> invoice, value |-> value]
<1>1. d \in Deal
  BY CreateStart DEF Client, Deal
<1>2. deal' = [deal EXCEPT ![s] = d]
  BY DEF Agree
<1>3. /\ d.pair = order[s].pair /\ d.settings = client[s].settings
      /\ d.quoted = client[s].fees /\ d.fees = fees
      /\ d.invoice = invoice /\ d.value = value
  BY CreateStart
<1> HIDE DEF d
<1>4. deal'[s] = d /\ deal' \in [Swaps -> Deal \cup {NoDeal}]
  BY <1>1, <1>2 DEF TypeOK
<1>5. d # NoDeal
  BY <1>1, NothingAssumption
<1> QED
  BY <1>1, <1>3, <1>4, <1>5

LEMMA CreateSwapKeeps ==
    ASSUME TypeOK, SettingsTypeOK', NEW s \in Swaps, SwapInv(s),
           CreateSwap(s)
    PROVE  TypeOK' /\ SwapInv(s)'
<1>1. pc[s] = "create" /\ order[s].kind = "submarine"
  BY DEF CreateSwap
<1>2. PICK invoice \in SwapInvoices(order[s], client[s].fees) :
          invoice > 0 /\ Agree(s, invoice, ExpectedAmount(fees, invoice))
  BY DEF CreateSwap
<1>3. invoice \in Int
  BY <1>1, CreateStart, SentAsAsked DEF SwapInvoices, Order
<1>4. invoice \in Nat /\ ExpectedAmount(fees, invoice) \in Int
  BY <1>1, <1>2, <1>3, CreateStart, AmountsAreInt
<1>5. /\ deal' \in [Swaps -> Deal \cup {NoDeal}]
      /\ deal'[s] # NoDeal /\ deal'[s].pair = order[s].pair
      /\ deal'[s].quoted = client[s].fees /\ deal'[s].fees = fees
      /\ deal'[s].invoice = invoice
      /\ deal'[s].value = ExpectedAmount(fees, invoice)
  BY <1>1, <1>2, <1>4, AgreeMakesDeal
<1>6. /\ pc' = [pc EXCEPT ![s] = "idle"]
      /\ asset' = [asset EXCEPT ![s] = order[s].pair]
      /\ UNCHANGED <<settingsVars, order, client, lockup, tx, outcome,
                     checked, at, world>>
  BY DEF CreateSwap
<1>7. order[s].pair \in Pairs
  BY <1>1, CreateStart DEF Order
<1>8. TypeOK'
  BY <1>5, <1>6, <1>7 DEF TypeOK, world
<1>9. pc'[s] = "idle" /\ asset'[s] = order[s].pair
  BY <1>6 DEF TypeOK
<1>10. order[s] \in Orders /\ lockup[s] = <<>> /\ outcome[s] = "none"
  BY <1>1, CreateStart DEF SwapInv, Placed
<1>11. Placed(s)' /\ Attended(s)'
  BY <1>5, <1>6, <1>9, <1>10 DEF Placed, Attended
<1>12. Checked(s)'
  BY <1>1, <1>6, <1>9 DEF SwapInv, Checked
<1>13. Dealt(s)'
  BY <1>1, <1>2, <1>5, <1>6, <1>9 DEF Dealt
<1>14. Locked(s)'
  BY <1>6, <1>10 DEF Locked
<1>15. Claimed(s)' /\ LosesNothing(s)' /\ FailsForAReason(s)'
  BY <1>6, <1>10 DEF Claimed, LosesNothing, FailsForAReason
<1> QED
  BY <1>8, <1>11, <1>12, <1>13, <1>14, <1>15 DEF SwapInv

LEMMA CreateReverseSwapKeeps ==
    ASSUME TypeOK, SettingsTypeOK', NEW s \in Swaps, SwapInv(s),
           CreateReverseSwap(s)
    PROVE  TypeOK' /\ SwapInv(s)'
<1>1. pc[s] = "create" /\ order[s].kind # "submarine"
  BY DEF CreateReverseSwap
<1>2. PICK invoice \in ReverseInvoices(order[s], client[s].fees) :
          /\ invoice \in Minimal..Maximal
          /\ Agree(s, invoice, OnchainAmount(fees, invoice))
  BY DEF CreateReverseSwap
<1>3. invoice \in Nat
  BY <1>2, NumbersAssumption
<1>4. OnchainAmount(fees, invoice) \in Int
  BY <1>1, <1>3, CreateStart, AmountsAreInt
<1>5. /\ deal' \in [Swaps -> Deal \cup {NoDeal}]
      /\ deal'[s] \in Deal
      /\ deal'[s] # NoDeal /\ deal'[s].pair = order[s].pair
      /\ deal'[s].settings = client[s].settings
      /\ deal'[s].quoted = client[s].fees /\ deal'[s].fees = fees
      /\ deal'[s].invoice = invoice
      /\ deal'[s].value = OnchainAmount(fees, invoice)
  BY <1>1, <1>2, <1>3, <1>4, AgreeMakesDeal
<1> DEFINE row == IF order[s].kind = "sweep" THEN Bitcoin ELSE order[s].pair
           fits == AddressesFit(client[s], order[s], deal'[s])
<1>6. /\ asset' = [asset EXCEPT ![s] = row]
      /\ UNCHANGED <<settingsVars, order, client, lockup, tx, checked, at,
                     world>>
  BY DEF CreateReverseSwap
<1>7. /\ order[s] \in Order /\ row \in Pairs /\ client[s] \in Client
      /\ client[s].fees \in FeeTables
      /\ client[s].pair = order[s].pair
  BY <1>1, CreateStart DEF Order, Pairs
<1>8. order[s] \in Orders /\ lockup[s] = <<>> /\ outcome[s] = "none"
  BY <1>1, CreateStart DEF SwapInv, Placed
<1>9. IF fits THEN pc' = [pc EXCEPT ![s] = "wait"] /\ UNCHANGED outcome
      ELSE /\ pc' = [pc EXCEPT ![s] = "gone"]
           /\ outcome' = [outcome EXCEPT ![s] = "invalid"]
  BY DEF CreateReverseSwap
<1> HIDE DEF row, fits
<1>10. TypeOK'
  BY <1>5, <1>6, <1>7, <1>9 DEF TypeOK, world
<1>11. /\ pc'[s] = IF fits THEN "wait" ELSE "gone"
       /\ outcome'[s] = IF fits THEN "none" ELSE "invalid"
       /\ asset'[s] = row
  BY <1>6, <1>8, <1>9 DEF TypeOK
<1>12. Placed(s)'
  BY <1>5, <1>6, <1>8, <1>11 DEF Placed
<1>13. Attended(s)'
  <2>1. client'[s] = client[s] /\ order'[s] = order[s]
    BY <1>6
  <2>2. fits => AddressesFit(client'[s], order'[s], deal'[s])
    BY <2>1 DEF fits
  <2> QED
    BY <1>7, <1>11, <2>1, <2>2 DEF Attended, AddressesFit
<1>14. Checked(s)'
  BY <1>1, <1>6, <1>11 DEF SwapInv, Checked
<1>15. Dealt(s)'
  BY <1>1, <1>2, <1>5, <1>6, <1>11 DEF Dealt, row
<1>16. Locked(s)'
  BY <1>6, <1>8 DEF Locked
<1>17. Claimed(s)' /\ LosesNothing(s)'
  BY <1>6, <1>11 DEF Claimed, LosesNothing
<1>18. FailsForAReason(s)'
  <2>1. CASE fits
    BY <1>11, <2>1 DEF FailsForAReason
  <2>2. CASE ~fits
    <3>1. order[s].kind # "sweep" =>
              NetworkOf(checked[s], order[s].pair) = order[s].network
      BY <1>1 DEF SwapInv, Checked
    <3>2. \/ order[s].kind # "sweep" /\ checked[s] # deal'[s].settings
          \/ /\ order[s].kind = "sweep"
             /\ \/ order[s].pair = Liquid
                \/ NetworkOf(deal'[s].settings, Bitcoin) # order[s].network
      BY <1>5, <1>7, <2>2, <3>1
      DEF fits, AddressesFit, ValidAddress, UserAddress, LockupAddress, Order,
          Pairs
    <3> QED
      BY <1>6, <1>11, <2>2, <3>2 DEF FailsForAReason, SweepMisfits
  <2> QED
    BY <2>1, <2>2
<1> QED
  BY <1>10, <1>12, <1>13, <1>14, <1>15, <1>16, <1>17, <1>18 DEF SwapInv

-----------------------------------------------------------------------------
(***************************************************************************)
(* Looking after its coins.                                                *)
(***************************************************************************)

LEMMA LookAgainKeeps ==
    ASSUME TypeOK, SettingsTypeOK', NEW s \in Swaps, SwapInv(s),
           LookAgain(s)
    PROVE  TypeOK' /\ SwapInv(s)'
<1> USE DEF LookAgain, SwapInv, world
<1>1. TypeOK'
  BY DEF TypeOK
<1>2. pc'[s] = "client" /\ outcome'[s] = "none"
  BY DEF TypeOK
<1>3. Placed(s)' /\ Checked(s)' /\ Attended(s)'
  BY <1>2 DEF Placed, Checked, Attended
<1>4. Dealt(s)' /\ Locked(s)'
  BY DEF Dealt, Locked
<1>5. Claimed(s)' /\ LosesNothing(s)' /\ FailsForAReason(s)'
  BY <1>2 DEF Claimed, LosesNothing, FailsForAReason
<1> QED
  BY <1>1, <1>3, <1>4, <1>5

\* Nothing has been made of coins that were not there, and no look failed for
\* them.
LEMMA NothingBuiltYet ==
    ASSUME TypeOK, NEW s \in Swaps, SwapInv(s), lockup[s] = <<>>
    PROVE  outcome[s] \in {"none", "unknown", "invalid"}
<1>1. DOMAIN lockup[s] = {}
  OBVIOUS
<1>2. outcome[s] \notin {"claimed", "rejected", "refunded"}
  BY <1>1 DEF SwapInv, LosesNothing, IsSigned
<1>3. outcome[s] # "raises"
  BY <1>1 DEF SwapInv, FailsForAReason, FeeTooHigh, WrongAsset, LockupOutput
<1> QED
  BY <1>2, <1>3 DEF TypeOK

\* The lockup of a swap that has none yet.
LEMMA LocksUpKeeps ==
    ASSUME TypeOK, SettingsTypeOK', NEW s \in Swaps, SwapInv(s),
           lockup[s] = <<>>, deal[s] # NoDeal, NEW outputs \in Seq(Output),
           LockupOutput(outputs) # {},
           order[s].kind # "submarine" =>
               \A n \in LockupOutput(outputs) :
                   outputs[n].value = deal[s].value,
           lockup' = [lockup EXCEPT ![s] = outputs],
           UNCHANGED <<settingsVars, pc, order, client, deal, asset, tx,
                       outcome, checked, at, world>>
    PROVE  TypeOK' /\ SwapInv(s)'
<1> USE DEF SwapInv, world
<1>1. TypeOK'
  BY DEF TypeOK
<1>2. lockup'[s] = outputs
  BY DEF TypeOK
<1>3. Placed(s)' /\ Checked(s)' /\ Attended(s)' /\ Dealt(s)'
  BY DEF Placed, Checked, Attended, Dealt
<1>4. Locked(s)'
  BY <1>2 DEF Locked
<1>5. outcome'[s] \in {"none", "unknown", "invalid"}
  BY NothingBuiltYet
<1>6. Claimed(s)' /\ LosesNothing(s)'
  BY <1>5 DEF Claimed, LosesNothing
<1>7. FailsForAReason(s)'
  BY <1>5 DEF FailsForAReason, SweepMisfits
<1> QED
  BY <1>1, <1>3, <1>4, <1>6, <1>7

LEMMA BoltzLocksUpKeeps ==
    ASSUME TypeOK, SettingsTypeOK', NEW s \in Swaps, SwapInv(s),
           BoltzLocksUp(s)
    PROVE  TypeOK' /\ SwapInv(s)'
<1> DEFINE promised == [to |-> "lockup", value |-> deal[s].value,
                        lbtc |-> TRUE]
           change == [to |-> "other", value |-> 1, lbtc |-> TRUE]
<1>1. promised \in Output /\ change \in Output
  BY DEF BoltzLocksUp, TypeOK, Deal, Output, Addresses
<1>2. promised.to = "lockup" /\ change.to # "lockup"
      /\ promised.value = deal[s].value
  OBVIOUS
<1>3. PICK outputs \in {<<promised>>, <<change, promised>>} :
          lockup' = [lockup EXCEPT ![s] = outputs]
  BY DEF BoltzLocksUp
<1> HIDE DEF promised, change
<1>4. outputs \in Seq(Output)
  <2>1. <<promised>> \in Seq(Output)
    BY <1>1
  <2>2. <<change, promised>> \in Seq(Output)
    BY <1>1
  <2> QED
    BY <2>1, <2>2
<1>5. LockupOutput(<<promised>>) = {1}
  BY <1>1, <1>2, LockupOutputOfOne
<1>6. LockupOutput(<<change, promised>>) = {2}
  BY <1>1, <1>2, LockupOutputOfTwo
<1>7. /\ LockupOutput(outputs) # {}
      /\ \A n \in LockupOutput(outputs) : outputs[n].value = deal[s].value
  <2>1. CASE outputs = <<promised>>
    BY <1>2, <1>5, <2>1
  <2>2. CASE outputs = <<change, promised>>
    BY <1>2, <1>6, <2>2
  <2> QED
    BY <2>1, <2>2
<1> QED
  BY <1>3, <1>4, <1>7, LocksUpKeeps DEF BoltzLocksUp

LEMMA UserLocksUpKeeps ==
    ASSUME TypeOK, SettingsTypeOK', NEW s \in Swaps, SwapInv(s),
           UserLocksUp(s)
    PROVE  TypeOK' /\ SwapInv(s)'
<1>1. PICK first \in Paid, second \in Paid, to \in Addresses,
           lbtc \in BOOLEAN :
          lockup' = [lockup EXCEPT ![s] =
                       <<[to |-> to, value |-> first, lbtc |-> lbtc],
                         [to |-> "lockup", value |-> second, lbtc |-> lbtc]>>]
  BY DEF UserLocksUp
<1> DEFINE o == [to |-> to, value |-> first, lbtc |-> lbtc]
           p == [to |-> "lockup", value |-> second, lbtc |-> lbtc]
<1>2. o \in Output /\ p \in Output /\ p.to = "lockup"
  BY NumbersAssumption DEF Output, Addresses
<1>3. lockup' = [lockup EXCEPT ![s] = <<o, p>>]
  BY <1>1
<1> HIDE DEF o, p
<1>4. <<o, p>> \in Seq(Output) /\ LockupOutput(<<o, p>>) # {}
  BY <1>2, LockupOutputOfTwo
<1> QED
  BY <1>3, <1>4, LocksUpKeeps DEF UserLocksUp

\* What a look that sees the coins goes by.
LEMMA SeesCoins ==
    ASSUME TypeOK, NEW s \in Swaps, SwapInv(s), SeesLockup(s)
    PROVE  /\ pc[s] = "wait" /\ outcome[s] = "none"
           /\ order[s] \in Orders /\ order[s] \in Order
           /\ deal[s] \in Deal /\ deal[s] # NoDeal
           /\ client[s] \in Client /\ client[s].fees \in FeeTables
           /\ client[s].fees.claim \in Nat /\ client[s].fees.normal \in Nat
           /\ client[s].pair = deal[s].pair /\ deal[s].pair \in Pairs
           /\ lockup[s] \in Seq(Output) /\ lockup[s] # <<>>
           /\ LockupOutput(lockup[s]) # {}
<1>1. pc[s] = "wait" /\ lockup[s] # <<>>
  BY DEF SeesLockup
<1>2. outcome[s] = "none" /\ order[s] \in Orders /\ deal[s] # NoDeal
  BY <1>1 DEF SwapInv, Placed, TypeOK
<1>3. order[s] \in Order /\ deal[s] \in Deal /\ lockup[s] \in Seq(Output)
  BY <1>2, OrdersAssumption DEF TypeOK
<1>4. /\ client[s] \in Client /\ client[s].fees \in FeeTables
      /\ client[s].pair = deal[s].pair
  BY <1>1
  DEF SwapInv, Attended, AddressesFit, ValidAddress, LockupAddress
<1>5. client[s].fees.claim \in Nat /\ client[s].fees.normal \in Nat
  BY <1>4, FeesAssumption, FeesAreNumbers
<1>6. deal[s].pair \in Pairs
  BY <1>3 DEF Deal
<1>7. LockupOutput(lockup[s]) # {}
  BY <1>1 DEF SwapInv, Locked
<1> QED
  BY <1>1, <1>2, <1>3, <1>4, <1>5, <1>6, <1>7

\* What any look at the coins leaves as it was.
LEMMA LookKeeps ==
    ASSUME TypeOK, NEW s \in Swaps, SwapInv(s), SeesLockup(s),
           pc'[s] \in {"idle", "gone", "over"},
           outcome'[s] \in {"claimed", "refunded"} => pc'[s] = "over",
           UNCHANGED <<order, client, deal, asset, lockup, checked>>
    PROVE  /\ Placed(s)' /\ Checked(s)' /\ Attended(s)' /\ Dealt(s)'
           /\ Locked(s)'
<1> USE DEF SwapInv
<1>1. pc[s] = "wait" /\ deal[s] # NoDeal /\ order[s] \in Orders
  BY SeesCoins
<1>2. Placed(s)' /\ Checked(s)'
  BY <1>1 DEF Placed, Checked
<1>3. Attended(s)'
  BY DEF Attended
<1>4. Dealt(s)'
  BY DEF Dealt
<1>5. Locked(s)'
  BY DEF Locked
<1> QED
  BY <1>2, <1>3, <1>4, <1>5

LEMMA ClaimKeeps ==
    ASSUME TypeOK, SettingsTypeOK', NEW s \in Swaps, SwapInv(s), Claim(s)
    PROVE  TypeOK' /\ SwapInv(s)'
<1>1. SeesLockup(s) /\ order[s].kind # "submarine"
  BY DEF Claim
<1>2. PICK t \in ClaimTxs(s) : tx' = [tx EXCEPT ![s] = t]
  BY DEF Claim
<1>3. /\ t \in Tx /\ t.input + 1 \in LockupOutput(lockup[s])
      /\ IsSigned(lockup[s], t)
      /\ t.value + client[s].fees.claim = Coin(lockup[s], t).value
      /\ t.final /\ t.preimage /\ ~t.scriptSig
  <2> DEFINE key == deal[s].pair = Liquid
  <2>1. t \in CreateClaimTx(client[s].pair, key, lockup[s],
                           client[s].fees.claim)
    BY DEF ClaimTxs
  <2>2. key \in BOOLEAN
    OBVIOUS
  <2> HIDE DEF key
  <2> QED
    BY <1>1, <2>1, <2>2, SeesCoins, ClaimTxCreated
<1>4. /\ outcome' = [outcome EXCEPT ![s] = "claimed"]
      /\ pc' = [pc EXCEPT ![s] = "over"]
      /\ at' = [at EXCEPT ![s] = height]
      /\ UNCHANGED <<settingsVars, order, client, deal, asset, lockup,
                     checked, world>>
  BY DEF Claim
<1>5. TypeOK'
  BY <1>2, <1>3, <1>4 DEF TypeOK, world
<1>6. outcome'[s] = "claimed" /\ pc'[s] = "over" /\ tx'[s] = t
  BY <1>2, <1>4 DEF TypeOK
<1>7. Placed(s)' /\ Checked(s)' /\ Attended(s)' /\ Dealt(s)' /\ Locked(s)'
  BY <1>1, <1>4, <1>6, LookKeeps
<1>8. Coin(lockup[s], t).value = deal[s].value
  BY <1>1, <1>3, SeesCoins DEF SwapInv, Locked, Coin
<1>9. FeeOf(s)' = client[s].fees.claim
  BY <1>1, <1>4 DEF FeeOf
<1>10. Claimed(s)'
  <2>1. t.value = deal[s].value - client[s].fees.claim
    <3>1. t.value \in Int /\ deal[s].value \in Int
          /\ client[s].fees.claim \in Nat
      BY <1>1, <1>3, SeesCoins DEF Tx, Deal
    <3> QED
      BY <1>3, <1>8, <3>1
  <2> QED
    BY <1>1, <1>4, <1>6, <2>1, SeesCoins DEF Claimed
<1>11. LosesNothing(s)'
  BY <1>3, <1>4, <1>6, <1>9 DEF LosesNothing, IsSigned, Coin
<1>12. FailsForAReason(s)'
  BY <1>3, <1>6 DEF FailsForAReason, IsFinal, ClaimUnlocks
<1> QED
  BY <1>5, <1>7, <1>10, <1>11, <1>12 DEF SwapInv

LEMMA RefundKeeps ==
    ASSUME TypeOK, SettingsTypeOK', NEW s \in Swaps, SwapInv(s), Refund(s)
    PROVE  TypeOK' /\ SwapInv(s)'
<1>1. SeesLockup(s) /\ order[s].kind = "submarine"
  BY DEF Refund
<1>2. PICK t \in RefundTxs(s) :
          /\ tx' = [tx EXCEPT ![s] = t]
          /\ IF /\ IsSigned(lockup[s], t) /\ IsFinal(t, height)
                /\ RefundUnlocks(deal[s].pair, Timeout, t)
             THEN /\ outcome' = [outcome EXCEPT ![s] = "refunded"]
                  /\ pc' = [pc EXCEPT ![s] = "over"]
             ELSE /\ outcome' = [outcome EXCEPT ![s] = "rejected"]
                  /\ pc' = [pc EXCEPT ![s] = "idle"]
  BY DEF Refund
<1>3. /\ t \in Tx /\ IsSigned(lockup[s], t)
      /\ t.value + client[s].fees.normal = Coin(lockup[s], t).value
      /\ t.locktime = Timeout /\ ~t.final /\ ~t.preimage
      /\ t.scriptSig = (client[s].pair = Bitcoin)
  <2> DEFINE key == deal[s].pair = Liquid
  <2>1. t \in CreateRefundTx(client[s].pair, key, lockup[s],
                            client[s].fees.normal, Timeout)
    BY DEF RefundTxs
  <2>2. key \in BOOLEAN
    OBVIOUS
  <2> HIDE DEF key
  <2> QED
    BY <1>1, <2>1, <2>2, SeesCoins, RefundTxCreated, NumbersAssumption
<1>4. IsFinal(t, height) <=> height >= Timeout
  BY <1>3, NumbersAssumption DEF IsFinal, TypeOK
<1>5. RefundUnlocks(deal[s].pair, Timeout, t)
  BY <1>1, <1>3, SeesCoins, NumbersAssumption DEF RefundUnlocks
<1>6. /\ at' = [at EXCEPT ![s] = height]
      /\ UNCHANGED <<settingsVars, order, client, deal, asset, lockup,
                     checked, world>>
  BY DEF Refund
<1>7. TypeOK'
  BY <1>2, <1>3, <1>6 DEF TypeOK, world
<1>8. /\ tx'[s] = t /\ at'[s] = height
      /\ IF height >= Timeout
         THEN outcome'[s] = "refunded" /\ pc'[s] = "over"
         ELSE outcome'[s] = "rejected" /\ pc'[s] = "idle"
  BY <1>2, <1>3, <1>4, <1>5, <1>6 DEF TypeOK
<1>9. Placed(s)' /\ Checked(s)' /\ Attended(s)' /\ Dealt(s)' /\ Locked(s)'
  BY <1>1, <1>6, <1>8, LookKeeps
<1>10. Claimed(s)'
  BY <1>8 DEF Claimed
<1>11. LosesNothing(s)'
  BY <1>1, <1>3, <1>6, <1>8 DEF LosesNothing, FeeOf, IsSigned, Coin
<1>12. FailsForAReason(s)'
  BY <1>8, NumbersAssumption DEF FailsForAReason, TypeOK
<1> QED
  BY <1>7, <1>9, <1>10, <1>11, <1>12 DEF SwapInv

LEMMA BuildRaisesKeeps ==
    ASSUME TypeOK, SettingsTypeOK', NEW s \in Swaps, SwapInv(s),
           BuildRaises(s)
    PROVE  TypeOK' /\ SwapInv(s)'
<1>1. SeesLockup(s)
  BY DEF BuildRaises
<1>2. TypeOK'
  BY DEF BuildRaises, TypeOK, world
<1>3. /\ pc'[s] \in {"idle", "gone"} /\ outcome'[s] = "raises"
      /\ UNCHANGED <<order, client, deal, asset, lockup, checked>>
  BY DEF BuildRaises, TypeOK
<1>4. Placed(s)' /\ Checked(s)' /\ Attended(s)' /\ Dealt(s)' /\ Locked(s)'
  BY <1>1, <1>3, LookKeeps
<1>5. Claimed(s)' /\ LosesNothing(s)'
  BY <1>3 DEF Claimed, LosesNothing
<1>6. PICK n \in LockupOutput(lockup[s]) : TRUE
  BY <1>1, SeesCoins
<1>7. CASE order[s].kind = "submarine"
  <2>1. RefundTxs(s) = {}
    BY <1>7 DEF BuildRaises
  <2> DEFINE key == deal[s].pair = Liquid
  <2>2. CreateRefundTx(client[s].pair, key, lockup[s],
                       client[s].fees.normal, Timeout) = {}
    BY <2>1 DEF RefundTxs
  <2>3. key \in BOOLEAN /\ (client[s].pair = Liquid => key)
    BY <1>1, SeesCoins
  <2> HIDE DEF key
  <2>4. /\ client[s].pair \in Pairs /\ client[s].pair = deal[s].pair
        /\ lockup[s] \in Seq(Output) /\ client[s].fees.normal \in Nat
    BY <1>1, SeesCoins
  <2>5. \/ lockup[s][n].value < client[s].fees.normal
        \/ client[s].pair = Liquid /\ ~lockup[s][n].lbtc
    BY <2>2, <2>3, <2>4, NoTxCreated
  <2> QED
    BY <1>2, <1>3, <1>4, <1>5, <1>7, <2>4, <2>5
    DEF FailsForAReason, FeeTooHigh, FeeOf, WrongAsset, SwapInv
<1>8. CASE order[s].kind # "submarine"
  <2>1. ClaimTxs(s) = {}
    BY <1>8 DEF BuildRaises
  <2> DEFINE key == deal[s].pair = Liquid
  <2>2. CreateClaimTx(client[s].pair, key, lockup[s],
                      client[s].fees.claim) = {}
    BY <2>1 DEF ClaimTxs
  <2>3. key \in BOOLEAN /\ (client[s].pair = Liquid => key)
    BY <1>1, SeesCoins
  <2> HIDE DEF key
  <2>4. /\ client[s].pair \in Pairs /\ client[s].pair = deal[s].pair
        /\ lockup[s] \in Seq(Output) /\ client[s].fees.claim \in Nat
    BY <1>1, SeesCoins
  <2>5. \/ lockup[s][n].value < client[s].fees.claim
        \/ client[s].pair = Liquid /\ ~lockup[s][n].lbtc
    BY <2>2, <2>3, <2>4, NoTxCreated
  <2> QED
    BY <1>2, <1>3, <1>4, <1>5, <1>8, <2>4, <2>5
    DEF FailsForAReason, FeeTooHigh, FeeOf, WrongAsset, SwapInv
<1> QED
  BY <1>7, <1>8

LEMMA NotFoundKeeps ==
    ASSUME TypeOK, SettingsTypeOK', NEW s \in Swaps, SwapInv(s),
           NotFound(s)
    PROVE  TypeOK' /\ SwapInv(s)'
<1> USE DEF NotFound, SwapInv, world
<1>1. TypeOK'
  BY DEF TypeOK
<1>2. /\ pc'[s] \in {"idle", "over"} /\ outcome'[s] = "unknown"
      /\ client[s].settings # deal[s].settings
  BY DEF TypeOK
<1>3. Placed(s)' /\ Checked(s)' /\ Attended(s)'
  BY <1>2 DEF Placed, Checked, Attended
<1>4. Dealt(s)' /\ Locked(s)'
  BY DEF Dealt, Locked
<1>5. Claimed(s)' /\ LosesNothing(s)' /\ FailsForAReason(s)'
  BY <1>2 DEF Claimed, LosesNothing, FailsForAReason
<1> QED
  BY <1>1, <1>3, <1>4, <1>5

-----------------------------------------------------------------------------
(***************************************************************************)
(* The next-state relation.                                                *)
(***************************************************************************)

LEMMA InitIInv == Init => IInv
<1> SUFFICES ASSUME Init PROVE IInv
  OBVIOUS
<1> USE DEF Init, SettingsInit
<1>1. TypeOK
  BY SettingsAssumption DEF TypeOK, SettingsTypeOK, Pairs
<1>2. SavedKept
  BY DEF SavedKept
<1>3. ASSUME NEW s \in Swaps
      PROVE  SwapInv(s)
  <2>1. Placed(s) /\ Checked(s) /\ Attended(s)
    BY DEF Placed, Checked, Attended
  <2>2. Dealt(s) /\ Locked(s) /\ Claimed(s)
    BY DEF Dealt, Locked, Claimed
  <2>3. LosesNothing(s) /\ FailsForAReason(s)
    BY DEF LosesNothing, FailsForAReason
  <2> QED
    BY <2>1, <2>2, <2>3 DEF SwapInv
<1> QED
  BY <1>1, <1>2, <1>3 DEF IInv

LEMMA SettingsKeptByStep ==
    ASSUME TypeOK, SavedKept, NEW s \in Swaps, SwapStep(s)
    PROVE  SettingsTypeOK' /\ SavedKept'
<1>1. s \in Readers /\ Default \in Settings /\ SettingsTypeOK
  BY ReadersAssumption, SettingsAssumption DEF TypeOK
<1>2. CASE \E settings \in Settings : GetSettings(s, settings)
  BY <1>1, <1>2, SettingsKept
<1>3. CASE MissSettings(s)
  BY <1>1, <1>3, SettingsKept
<1>4. CASE UNCHANGED settingsVars
  BY <1>1, <1>4, SettingsKept
<1>5. CASE \E o \in Orders : PlaceOrder(s, o)
  BY <1>4, <1>5 DEF PlaceOrder
<1>6. CASE \E settings \in Settings :
               ValidateAddress(s, settings) \/ MakeClient(s, settings)
  BY <1>2, <1>6 DEF ValidateAddress, MakeClient
<1>7. CASE FindNoSettings(s)
  BY <1>3, <1>7 DEF FindNoSettings
<1>8. CASE InitPairs(s) \/ ClientRaises(s) \/ CreateSwap(s)
  BY <1>4, <1>8 DEF InitPairs, ClientRaises, CreateSwap
<1>9. CASE CreateReverseSwap(s) \/ LookAgain(s) \/ BoltzLocksUp(s)
  BY <1>4, <1>9 DEF CreateReverseSwap, LookAgain, BoltzLocksUp
<1>10. CASE UserLocksUp(s) \/ Claim(s) \/ Refund(s)
  BY <1>4, <1>10 DEF UserLocksUp, Claim, Refund
<1>11. CASE BuildRaises(s) \/ NotFound(s)
  BY <1>4, <1>11 DEF BuildRaises, NotFound
<1> QED
  BY <1>5, <1>6, <1>7, <1>8, <1>9, <1>10, <1>11 DEF SwapStep

LEMMA SwapStepKeepsIInv ==
    ASSUME IInv, NEW s \in Swaps, SwapStep(s)
    PROVE  IInv'
<1>1. TypeOK /\ SavedKept /\ SwapInv(s)
  BY DEF IInv
<1>2. SettingsTypeOK' /\ SavedKept'
  BY <1>1, SettingsKeptByStep
<1>3. TypeOK' /\ SwapInv(s)'
  <2>1. CASE \E o \in Orders : PlaceOrder(s, o)
    BY <1>1, <1>2, <2>1, PlaceOrderKeeps
  <2>2. CASE \E settings \in Settings :
                 ValidateAddress(s, settings) \/ MakeClient(s, settings)
    BY <1>1, <1>2, <2>2, ValidateAddressKeeps, MakeClientKeeps
  <2>3. CASE FindNoSettings(s) \/ InitPairs(s) \/ ClientRaises(s)
    BY <1>1, <1>2, <2>3, FindNoSettingsKeeps, InitPairsKeeps,
       ClientRaisesKeeps
  <2>4. CASE CreateSwap(s) \/ CreateReverseSwap(s)
    BY <1>1, <1>2, <2>4, CreateSwapKeeps, CreateReverseSwapKeeps
  <2>5. CASE LookAgain(s) \/ BoltzLocksUp(s) \/ UserLocksUp(s)
    BY <1>1, <1>2, <2>5, LookAgainKeeps, BoltzLocksUpKeeps,
       UserLocksUpKeeps
  <2>6. CASE Claim(s) \/ Refund(s) \/ BuildRaises(s) \/ NotFound(s)
    BY <1>1, <1>2, <2>6, ClaimKeeps, RefundKeeps, BuildRaisesKeeps,
       NotFoundKeeps
  <2> QED
    BY <2>1, <2>2, <2>3, <2>4, <2>5, <2>6 DEF SwapStep
<1>4. ASSUME NEW r \in Swaps, r # s
      PROVE  SwapInv(r)'
  <2>1. SwapInv(r)
    BY DEF IInv
  <2>2. Untouched(r)
    BY <1>1, <1>4, StepsAreLocal
  <2> QED
    BY <2>1, <2>2, UntouchedKeeps
<1> QED
  BY <1>2, <1>3, <1>4 DEF IInv

\* A step that leaves every swap alone, and what settings there are sound.
LEMMA SwapsUntouched ==
    ASSUME IInv, UNCHANGED swapVars, SettingsTypeOK' /\ SavedKept',
           fees' \in FeeTables, height' \in Nat, restarts' \in Nat,
           feeChanges' \in Nat
    PROVE  IInv'
<1>1. TypeOK'
  BY DEF IInv, TypeOK, swapVars
<1>2. ASSUME NEW r \in Swaps
      PROVE  SwapInv(r)'
  <2>1. Untouched(r) /\ SwapInv(r)
    BY DEF IInv, Untouched, swapVars
  <2> QED
    BY <2>1, UntouchedKeeps
<1> QED
  BY <1>1, <1>2 DEF IInv

LEMMA WorldKeepsIInv ==
    ASSUME IInv,
           \/ SettingsRequest \/ ChangeFees \/ Mine \/ UNCHANGED vars
    PROVE  IInv'
<1>1. /\ SettingsTypeOK /\ SavedKept /\ fees \in FeeTables
      /\ height \in Nat /\ restarts \in Nat /\ feeChanges \in Nat
      /\ Default \in Settings /\ Page \in Readers
  BY SettingsAssumption, ReadersAssumption DEF IInv, TypeOK
<1>2. CASE SettingsRequest
  <2>1. SettingsTypeOK' /\ SavedKept'
    <3>1. CASE MissSettings(Page) \/ DeleteSettings
      BY <1>1, <3>1, SettingsKept
    <3>2. CASE \E settings \in Settings :
                   GetSettings(Page, settings) \/ UpdateSettings(settings)
      BY <1>1, <3>2, SettingsKept
    <3> QED
      BY <1>2, <3>1, <3>2 DEF SettingsRequest
  <2> QED
    BY <1>1, <1>2, <2>1, SwapsUntouched DEF SettingsRequest, world
<1>3. UNCHANGED settingsVars => SettingsTypeOK' /\ SavedKept'
  BY <1>1, SettingsKept
<1>4. CASE ChangeFees
  BY <1>1, <1>3, <1>4, SwapsUntouched DEF ChangeFees
<1>5. CASE Mine
  BY <1>1, <1>3, <1>5, SwapsUntouched DEF Mine
<1>6. CASE UNCHANGED vars
  BY <1>1, <1>3, <1>6, SwapsUntouched DEF vars, world
<1> QED
  BY <1>2, <1>4, <1>5, <1>6

LEMMA RestartKeepsIInv ==
    ASSUME IInv, Restart
    PROVE  IInv'
<1>1. /\ SettingsTypeOK /\ SavedKept /\ TypeOK
      /\ Default \in Settings /\ Page \in Readers
  BY SettingsAssumption, ReadersAssumption DEF IInv, TypeOK
<1>2. SettingsTypeOK' /\ SavedKept'
  BY <1>1, SettingsKept DEF Restart
<1>3. TypeOK'
  BY <1>1, <1>2 DEF Restart, TypeOK
<1>4. ASSUME NEW s \in Swaps
      PROVE  SwapInv(s)'
  <2> USE DEF SwapInv
  <2>1. SwapInv(s)
    BY DEF IInv
  <2>2. UNCHANGED <<order, client, deal, asset, lockup, tx, outcome,
                    checked, at>>
    BY DEF Restart
  <2>3. /\ pc[s] \in {"new", "over"} => pc'[s] = pc[s]
        /\ pc[s] \notin {"new", "over"} =>
               pc'[s] = IF deal[s] = NoDeal THEN "refused" ELSE "idle"
    BY DEF Restart
  <2>4. Placed(s)' /\ Attended(s)'
    BY <2>1, <2>2, <2>3 DEF Placed, Attended
  <2>5. Checked(s)'
    BY <2>1, <2>2, <2>3 DEF Placed, Checked
  <2>6. Dealt(s)' /\ Locked(s)' /\ Claimed(s)'
    BY <2>1, <2>2 DEF Dealt, Locked, Claimed
  <2>7. LosesNothing(s)' /\ FailsForAReason(s)'
    BY <2>1, <2>2
    DEF LosesNothing, FailsForAReason, FeeTooHigh, FeeOf, WrongAsset,
        SweepMisfits
  <2> QED
    BY <2>4, <2>5, <2>6, <2>7
<1> QED
  BY <1>2, <1>3, <1>4 DEF IInv

LEMMA NextKeepsIInv == IInv /\ [Next]_vars => IInv'
BY SwapStepKeepsIInv, WorldKeepsIInv, RestartKeepsIInv DEF Next

THEOREM Invariance == Spec => []IInv
<1>1. Init => IInv
  BY InitIInv
<1>2. IInv /\ [Next]_vars => IInv'
  BY NextKeepsIInv
<1> QED
  BY <1>1, <1>2, PTL DEF Spec

-----------------------------------------------------------------------------
(***************************************************************************)
(* What follows.                                                           *)
(***************************************************************************)

\* Every variable has its type in every reachable state, amounts that fees
\* are put on or taken off included.
THEOREM TypeCorrectness == Spec => []TypeOK
<1>1. IInv => TypeOK
  BY DEF IInv
<1> QED
  BY <1>1, Invariance, PTL

\* However many readers find the table empty at once: clients use the saved
\* settings unless a PUT found no row or a row was doubled since.
THEOREM SavedUsed == Spec => []SavedSettingsAreUsed
<1>1. IInv => SavedSettingsAreUsed
  BY DEF IInv, SavedKept, SavedSettingsAreUsed
<1> QED
  BY <1>1, Invariance, PTL

\* A reverse swap made for the fees that were quoted pays out what was asked
\* for and the difference to the claim fee of the client that claims, for every
\* amount and all percentages and miner fees.
THEOREM AskedArrives == Spec => []AskedAmountArrives
<1>1. IInv => AskedAmountArrives
  <2> SUFFICES ASSUME IInv, NEW s \in Swaps,
                      outcome[s] = "claimed", order[s].direction = "receive",
                      deal[s].fees = deal[s].quoted
               PROVE  tx[s].value + client[s].fees.claim =
                          order[s].amount + deal[s].quoted.claim
    BY DEF AskedAmountArrives
  <2>1. TypeOK /\ Placed(s) /\ Dealt(s) /\ Claimed(s)
    BY DEF IInv, SwapInv
  <2>2. /\ deal[s] # NoDeal /\ order[s] \in Orders
        /\ order[s].kind # "submarine"
        /\ client[s].fees \in FeeTables
        /\ tx[s].value = deal[s].value - client[s].fees.claim
    BY <2>1 DEF Placed, Claimed
  <2>3. /\ order[s].amount \in Nat
        /\ deal[s].value \in Int /\ IsFees(deal[s].quoted)
    BY <2>1, <2>2, OrdersAssumption, FeesAssumption DEF TypeOK, Deal, Order
  <2>4. /\ deal[s].invoice \in AddReverseSwapFees(deal[s].quoted,
                                                   order[s].amount)
        /\ deal[s].value = OnchainAmount(deal[s].quoted, deal[s].invoice)
    BY <2>1, <2>2 DEF Dealt, ReverseInvoices
  <2>5. /\ deal[s].value - deal[s].quoted.claim = order[s].amount
        /\ deal[s].invoice \in Int
    BY <2>3, <2>4, ReceivedAsAsked
  <2>6. deal[s].quoted.claim \in Nat /\ client[s].fees.claim \in Nat
    BY <2>2, <2>3, FeesAssumption, FeesAreNumbers
  <2> QED
    BY <2>2, <2>3, <2>5, <2>6
<1> QED
  BY <1>1, Invariance, PTL

\* With fees that have not changed Boltz expects the amount to be sent, or
\* one sat less, for every amount and all percentages and miner fees.
THEOREM SentSuffices == Spec => []SentAmountSuffices
<1>1. IInv => SentAmountSuffices
  <2> SUFFICES ASSUME IInv, NEW s \in Swaps,
                      deal[s] # NoDeal, deal[s].fees = deal[s].quoted,
                      order[s].kind = "submarine",
                      order[s].direction = "send"
               PROVE  deal[s].value \in (order[s].amount - 1)..order[s].amount
    BY DEF SentAmountSuffices
  <2>1. TypeOK /\ Placed(s) /\ Dealt(s)
    BY DEF IInv, SwapInv
  <2>2. order[s] \in Orders /\ deal[s].quoted \in FeeTables
    BY <2>1 DEF Placed, TypeOK, Deal
  <2>3. order[s].amount \in Nat /\ IsFees(deal[s].quoted)
    BY <2>2, OrdersAssumption, FeesAssumption DEF Order
  <2>4. /\ deal[s].invoice \in SubstractSwapFees(deal[s].quoted,
                                                  order[s].amount)
        /\ deal[s].value = ExpectedAmount(deal[s].quoted, deal[s].invoice)
    BY <2>1 DEF Dealt, SwapInvoices
  <2> QED
    BY <2>3, <2>4, SentAsAsked
<1> QED
  BY <1>1, Invariance, PTL

\* Whatever outputs a lockup transaction has, the index the loop has counted
\* and the amount it ends at are of the same output, one that pays the swap:
\* what is signed is what is spent, and all of it but the fee is paid out.
THEOREM SpendsAreWhole == Spec => []SpendsLoseNothing
<1>1. IInv => SpendsLoseNothing
  BY DEF IInv, SwapInv, LosesNothing, SpendsLoseNothing
<1> QED
  BY <1>1, Invariance, PTL

\* The reasons named are all there are for a look at a swap's coins to fail.
THEOREM LooksFail == Spec => []LooksFailForAReason
<1>1. IInv => LooksFailForAReason
  BY DEF IInv, SwapInv, LooksFailForAReason
<1> QED
  BY <1>1, Invariance, PTL

=============================================================================
