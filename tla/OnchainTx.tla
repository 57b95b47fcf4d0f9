----------------------------- MODULE OnchainTx -----------------------------
(***************************************************************************)
(* The transactions that claim or refund what a swap's lockup transaction  *)
(* pays (boltz_client/onchain.py, onchain_wally.py): which output they     *)
(* spend, what they leave, when and how they may be mined.  Keys,          *)
(* signatures, blinding and serialisation are left to the libraries.       *)
(***************************************************************************)
EXTENDS Integers, Sequences, FiniteSets

Bitcoin == "BTC/BTC"
Liquid == "L-BTC/BTC"
Pairs == {Bitcoin, Liquid}

\* validate_address: whether the address, reduced to where it is one, is of the
\* network and the pair's kind of chain.
ValidAddress(address, network, pair) ==
    address.network = network /\ address.pair = pair

\* A transaction output, reduced to the address it pays, its value, and on
\* liquid whether that is in L-BTC; only the swap's lockup address matters.
Addresses == {"lockup", "other"}
Output == [to : Addresses, value : Nat, lbtc : BOOLEAN]

Tx ==
    [input : Nat,           \* index from 0 of the output it spends
     signed : Nat,          \* the value the signature commits to
     value : Int,           \* what it pays out
     final : BOOLEAN,       \* its sequence is 0xFFFFFFFF: no locktime holds
     locktime : Nat,
     preimage : BOOLEAN,    \* the witness has the preimage, or nothing
     scriptSig : BOOLEAN]   \* the redeem script's hash as script_sig

\* The first output to the lockup address, if there is one.
LockupOutput(outputs) ==
    {n \in DOMAIN outputs :
        /\ outputs[n].to = "lockup"
        /\ \A m \in DOMAIN outputs : outputs[m].to = "lockup" => n <= m}

\* Mutant: the loop does not count the outputs it passes over.
VoutIndexUncounted(outputs) == 0

\* vout_index: counted for every output the loop passes over.
VoutIndex(outputs) ==
    Cardinality({n \in DOMAIN outputs :
                    \A m \in 1..n : outputs[m].to # "lockup"})

\* The rest of create_onchain_tx: the index is what the loop has counted, the
\* amount is that of the output it ends at, and the fee what it leaves; a
\* negative amount has no encoding.
CreateBitcoinTx(outputs, fees, final, timeout, preimage, scriptSig) ==
    {[input |-> VoutIndex(outputs), signed |-> outputs[n].value,
      value |-> outputs[n].value - fees,
      final |-> final, locktime |-> timeout,
      preimage |-> preimage, scriptSig |-> scriptSig] :
        n \in {n \in LockupOutput(outputs) : outputs[n].value >= fees}}

\* create_liquid_tx: the output is unblinded, which gives its amount, and has
\* to be in L-BTC.
CreateLiquidTx(outputs, fees, final, timeout, preimage) ==
    {[input |-> n - 1, signed |-> outputs[n].value,
      value |-> outputs[n].value - fees,
      final |-> final, locktime |-> timeout,
      preimage |-> preimage, scriptSig |-> FALSE] :
        n \in {n \in LockupOutput(outputs) :
                  outputs[n].lbtc /\ outputs[n].value >= fees}}

\* The transaction, or none where the code raises: no output to the lockup
\* address, one in another asset, a negative amount, a liquid swap without a
\* blinding key.
CreateOnchainTx(pair, key, outputs, fees, final, timeout, preimage, sig) ==
    IF pair = Bitcoin
    THEN CreateBitcoinTx(outputs, fees, final, timeout, preimage, sig)
    ELSE IF key THEN CreateLiquidTx(outputs, fees, final, timeout, preimage)
         ELSE {}

\* Mutant: the refund is final, as a claim is.
CreateRefundTxFinal(pair, key, outputs, fees, timeout) ==
    CreateOnchainTx(pair, key, outputs, fees, TRUE, timeout, FALSE, TRUE)

\* A refund may not be mined before the timeout.
CreateRefundTx(pair, key, outputs, fees, timeout) ==
    CreateOnchainTx(pair, key, outputs, fees, FALSE, timeout, FALSE, TRUE)

\* A claim may be mined at once.
CreateClaimTx(pair, key, outputs, fees) ==
    CreateOnchainTx(pair, key, outputs, fees, TRUE, 0, TRUE, FALSE)

-----------------------------------------------------------------------------
(***************************************************************************)
(* The chain's rules.  The lockup of a bitcoin submarine swap is a witness *)
(* script nested in a script hash, the others are native; after its        *)
(* timeout the refund key spends a submarine swap's lockup, the preimage   *)
(* and the claim key spend a reverse swap's at any time.                   *)
(***************************************************************************)

\* The output the transaction spends.
Coin(outputs, tx) == outputs[tx.input + 1]

\* That output pays the swap, with the value that was signed.
IsSigned(outputs, tx) ==
    /\ tx.input + 1 \in DOMAIN outputs
    /\ Coin(outputs, tx).to = "lockup"
    /\ Coin(outputs, tx).value = tx.signed

\* A block on top of height may hold the transaction.
IsFinal(tx, height) ==
    tx.final \/ tx.locktime <= height

\* It fulfills the refund branch of a submarine swap's script.
RefundUnlocks(pair, timeout, tx) ==
    /\ ~tx.preimage
    /\ tx.locktime >= timeout /\ ~tx.final
    /\ tx.scriptSig = (pair = Bitcoin)

\* It fulfills the claim branch of a reverse swap's script.
ClaimUnlocks(tx) == tx.preimage /\ ~tx.scriptSig

=============================================================================
