---------------------------- MODULE BoltzClient ----------------------------
(***************************************************************************)
(* What a swap asks of its clients (utils.py, boltz_client/boltz.py): one  *)
(* client makes the swap with Boltz, the same one (reverse swaps, until a  *)
(* restart) or later ones claim or refund its coins.  Every client is made *)
(* from the settings and the fees of its moment, while the row keeps       *)
(* neither: settings are saved, and Boltz's fees change, in between.       *)
(*                                                                         *)
(* Composes BoltzSettings, SwapFees and OnchainTx.  Rows and payments are  *)
(* in SubmarineSwap, ReverseSwap and AutoSwap.  Here a swap is looked at   *)
(* by one task at a time, a lockup is seen as soon as it is there, and     *)
(* Boltz and the networks of the settings belong together.                 *)
(***************************************************************************)
EXTENDS BoltzSettings, SwapFees, OnchainTx

CONSTANTS
    Swaps,
    Page,           \* the request of the settings page, a reader as well
    Orders,         \* what may be asked for
    FeeTables,      \* fees Boltz may publish
    Minimal, Maximal,               \* its limits
    Timeout,        \* the height a submarine swap's refund is locked to
    Paid,           \* values of outputs users pay to submarine swaps
    MaxHeight, MaxRestarts, MaxFeeChanges,      \* bounds
    NoOrder, NoClient, NoFees, NoDeal, NoTx

Networks ==
    {st.network : st \in Settings} \cup {st.network_liquid : st \in Settings}

Order ==
    [kind : {"submarine", "reverse", "sweep"}, pair : Pairs,
     direction : {"send", "receive"}, amount : Nat,
     network : Networks]        \* that of the address the user gives

ASSUME ReadersAssumption == Readers = Swaps \cup {Page} /\ Page \notin Swaps
ASSUME OrdersAssumption ==
    /\ Orders \subseteq Order
    /\ \A o \in Orders : o.kind = "sweep" => o.direction = "send"
ASSUME FeesAssumption == \A fees \in FeeTables : IsFees(fees)
ASSUME NumbersAssumption ==
    /\ Minimal \in Nat /\ Maximal \in Nat /\ Timeout \in Nat /\ Timeout > 0
    /\ Paid \subseteq Nat
    /\ MaxHeight \in Nat /\ MaxRestarts \in Nat /\ MaxFeeChanges \in Nat
VARIABLES
    pc,             \* pc[s]: where the task that looks at s awaits
    order,          \* order[s]: what was asked for
    client,         \* client[s]: the client of that task, or of the last one
    deal,           \* deal[s]: what Boltz answered, kept in its row
    asset,          \* asset[s]: the asset column of the row
    lockup,         \* lockup[s]: outputs of its lockup transaction
    tx,             \* tx[s]: the transaction built last
    outcome,        \* outcome[s]: how the last look at s ended
    fees, height,               \* of Boltz, of the chain
    restarts, feeChanges,       \* counters for the bounds
    \* History, read by no action.
    checked,        \* checked[s]: the settings its address was checked with
    at              \* at[s]: the height when tx[s] was built

swapVars == <<pc, order, client, deal, asset, lockup, tx, outcome, checked, at>>
world == <<fees, height, restarts, feeChanges>>
vars == <<settingsVars, swapVars, world>>

Client ==
    [pair : Pairs, settings : Settings, fees : FeeTables \cup {NoFees}]

\* quoted: the fees the amount was computed with; fees: those Boltz took.
Deal ==
    [pair : Pairs, settings : Settings, quoted : FeeTables, fees : FeeTables,
     invoice : Nat, value : Int]

ASSUME NothingAssumption ==
    /\ NoOrder \notin Orders /\ NoFees \notin FeeTables
    /\ NoClient \notin Client /\ NoDeal \notin Deal

TypeOK ==
    /\ SettingsTypeOK
    /\ pc \in [Swaps -> {"new", "address", "client", "pairs", "create",
                         "refused", "wait", "idle", "gone", "over"}]
    /\ order \in [Swaps -> Orders \cup {NoOrder}]
    /\ client \in [Swaps -> Client \cup {NoClient}]
    /\ deal \in [Swaps -> Deal \cup {NoDeal}]
    /\ asset \in [Swaps -> Pairs]
    /\ lockup \in [Swaps -> Seq(Output)]
    /\ tx \in [Swaps -> Tx \cup {NoTx}]
    /\ outcome \in [Swaps -> {"none", "invalid", "unknown", "raises",
                              "claimed", "rejected", "refunded"}]
    /\ fees \in FeeTables
    /\ height \in Nat /\ restarts \in Nat /\ feeChanges \in Nat
    /\ checked \in [Swaps -> Settings]
    /\ at \in [Swaps -> Nat]

Init ==
    /\ SettingsInit
    /\ pc = [s \in Swaps |-> "new"]
    /\ order = [s \in Swaps |-> NoOrder]
    /\ client = [s \in Swaps |-> NoClient]
    /\ deal = [s \in Swaps |-> NoDeal]
    /\ asset = [s \in Swaps |-> Bitcoin]
    /\ lockup = [s \in Swaps |-> <<>>]
    /\ tx = [s \in Swaps |-> NoTx]
    /\ outcome = [s \in Swaps |-> "none"]
    /\ fees \in FeeTables
    /\ height = 0 /\ restarts = 0 /\ feeChanges = 0
    /\ checked = [s \in Swaps |-> Default]
    /\ at = [s \in Swaps |-> 0]

\* The network a client of the pair works on.
NetworkOf(settings, pair) ==
    IF pair = Liquid THEN settings.network_liquid ELSE settings.network

UserAddress(o) == [pair |-> o.pair, network |-> o.network]

\* The address Boltz answers with is one of the client's network.
LockupAddress(d) ==
    [pair |-> d.pair, network |-> NetworkOf(d.settings, d.pair)]

-----------------------------------------------------------------------------
(***************************************************************************)
(* Making a swap: the requests, and the sweep of the listener.             *)
(***************************************************************************)

\* A request, whose address is checked first; a sweep's was checked when its
\* row was made.
PlaceOrder(s, o) ==
    /\ pc[s] = "new"
    /\ order' = [order EXCEPT ![s] = o]
    /\ pc' = [pc EXCEPT ![s] = IF o.kind = "sweep" THEN "client" ELSE "address"]
    /\ UNCHANGED <<settingsVars, client, deal, asset, lockup, tx, outcome,
                   checked, at, world>>

\* api_address_validation.
ValidateAddress(s, settings) ==
    /\ pc[s] = "address"
    /\ GetSettings(s, settings)
    /\ pc' = [pc EXCEPT ![s] =
                IF ValidAddress(UserAddress(order[s]),
                                NetworkOf(settings, order[s].pair),
                                order[s].pair)
                THEN "client" ELSE "refused"]
    /\ checked' = [checked EXCEPT ![s] = settings]
    /\ UNCHANGED <<order, client, deal, asset, lockup, tx, outcome, at, world>>

FindNoSettings(s) ==
    /\ pc[s] \in {"address", "client"}
    /\ MissSettings(s)
    /\ UNCHANGED <<swapVars, world>>

\* create_boltz_client, up to the request for the pairs.
MakeClient(s, settings) ==
    /\ pc[s] = "client"
    /\ GetSettings(s, settings)
    /\ client' = [client EXCEPT ![s] =
                    [pair |-> IF deal[s] = NoDeal THEN order[s].pair
                                                  ELSE asset[s],
                     settings |-> settings, fees |-> NoFees]]
    /\ pc' = [pc EXCEPT ![s] = "pairs"]
    /\ UNCHANGED <<order, deal, asset, lockup, tx, outcome, checked, at, world>>

\* claim_reverse_swap and refund_swap first check the user's address and the
\* lockup's against the client.
AddressesFit(c, o, d) ==
    LET network == NetworkOf(c.settings, c.pair)
    IN  /\ ValidAddress(UserAddress(o), network, c.pair)
        /\ ValidAddress(LockupAddress(d), network, c.pair)

\* The pairs are there: the swap can be made, or the one there is looked at.
InitPairs(s) ==
    /\ pc[s] = "pairs"
    /\ client' = [client EXCEPT ![s].fees = fees]
    /\ \/ /\ deal[s] = NoDeal
          /\ pc' = [pc EXCEPT ![s] = "create"]
          /\ UNCHANGED outcome
       \/ /\ deal[s] # NoDeal /\ AddressesFit(client'[s], order[s], deal[s])
          /\ pc' = [pc EXCEPT ![s] = "wait"]
          /\ UNCHANGED outcome
       \/ /\ deal[s] # NoDeal /\ ~AddressesFit(client'[s], order[s], deal[s])
          /\ pc' = [pc EXCEPT ![s] =
                      IF order[s].kind = "submarine" THEN "idle" ELSE "gone"]
          /\ outcome' = [outcome EXCEPT ![s] = "invalid"]
    /\ UNCHANGED <<settingsVars, order, deal, asset, lockup, tx, checked, at,
                   world>>

\* Boltz is out of reach, or refuses the swap.
ClientRaises(s) ==
    /\ pc[s] \in {"pairs", "create"}
    /\ pc' = [pc EXCEPT ![s] =
                CASE deal[s] = NoDeal -> "refused"
                  [] deal[s] # NoDeal /\ order[s].kind = "submarine" -> "idle"
                  [] deal[s] # NoDeal /\ order[s].kind # "submarine" -> "gone"]
    /\ UNCHANGED <<settingsVars, order, client, deal, asset, lockup, tx,
                   outcome, checked, at, world>>

\* Boltz answers with the fees it takes by now; the row is inserted.
Agree(s, invoice, value) ==
    deal' = [deal EXCEPT ![s] =
               [pair |-> client[s].pair, settings |-> client[s].settings,
                quoted |-> client[s].fees, fees |-> fees,
                invoice |-> invoice, value |-> value]]

\* The invoice of a submarine swap.
SwapInvoices(o, table) ==
    IF o.direction = "send" THEN SubstractSwapFees(table, o.amount)
                            ELSE {o.amount}

\* Mutant: an invoice of any amount is made.
CreateSwapOfAny(s) ==
    /\ pc[s] = "create" /\ order[s].kind = "submarine"
    /\ \E invoice \in SwapInvoices(order[s], client[s].fees) :
          Agree(s, invoice, ExpectedAmount(fees, invoice))
    /\ asset' = [asset EXCEPT ![s] = order[s].pair]
    /\ pc' = [pc EXCEPT ![s] = "idle"]
    /\ UNCHANGED <<settingsVars, order, client, lockup, tx, outcome, checked,
                   at, world>>

\* create_invoice takes no amount below one.
CreateSwap(s) ==
    /\ pc[s] = "create" /\ order[s].kind = "submarine"
    /\ \E invoice \in SwapInvoices(order[s], client[s].fees) :
          /\ invoice > 0
          /\ Agree(s, invoice, ExpectedAmount(fees, invoice))
    /\ asset' = [asset EXCEPT ![s] = order[s].pair]
    /\ pc' = [pc EXCEPT ![s] = "idle"]
    /\ UNCHANGED <<settingsVars, order, client, lockup, tx, outcome, checked,
                   at, world>>

\* The invoice of a reverse swap.
ReverseInvoices(o, table) ==
    IF o.direction = "receive" THEN AddReverseSwapFees(table, o.amount)
                               ELSE {o.amount}

\* The row of a sweep is made without its asset.  The claiming task starts
\* with the client that made the swap, and checks the addresses.
CreateReverseSwap(s) ==
    /\ pc[s] = "create" /\ order[s].kind # "submarine"
    /\ \E invoice \in ReverseInvoices(order[s], client[s].fees) :
          /\ invoice \in Minimal..Maximal
          /\ Agree(s, invoice, OnchainAmount(fees, invoice))
    /\ asset' = [asset EXCEPT ![s] =
                   IF order[s].kind = "sweep" THEN Bitcoin ELSE order[s].pair]
    /\ IF AddressesFit(client[s], order[s], deal'[s])
       THEN pc' = [pc EXCEPT ![s] = "wait"] /\ UNCHANGED outcome
       ELSE /\ pc' = [pc EXCEPT ![s] = "gone"]
            /\ outcome' = [outcome EXCEPT ![s] = "invalid"]
    /\ UNCHANGED <<settingsVars, order, client, lockup, tx, checked, at, world>>

-----------------------------------------------------------------------------
(***************************************************************************)
(* Looking after its coins.                                                *)
(***************************************************************************)

\* A refund request comes to the pending row of a submarine swap, or the
\* startup check to that of a reverse swap.
LookAgain(s) ==
    /\ pc[s] = "idle"
    /\ pc' = [pc EXCEPT ![s] = "client"]
    /\ outcome' = [outcome EXCEPT ![s] = "none"]
    /\ UNCHANGED <<settingsVars, order, client, deal, asset, lockup, tx,
                   checked, at, world>>

\* The coins of a reverse swap: what Boltz has promised.
BoltzLocksUp(s) ==
    /\ deal[s] # NoDeal /\ order[s].kind # "submarine" /\ lockup[s] = <<>>
    /\ deal[s].value > 0
    /\ LET promised ==
               [to |-> "lockup", value |-> deal[s].value, lbtc |-> TRUE]
           change == [to |-> "other", value |-> 1, lbtc |-> TRUE]
       IN \E outputs \in {<<promised>>, <<change, promised>>} :
             lockup' = [lockup EXCEPT ![s] = outputs]
    /\ UNCHANGED <<settingsVars, pc, order, client, deal, asset, tx, outcome,
                   checked, at, world>>

\* Those of a submarine swap: what the user pays, perhaps in two outputs, and
\* on liquid perhaps in another asset.
UserLocksUp(s) ==
    /\ deal[s] # NoDeal /\ order[s].kind = "submarine" /\ lockup[s] = <<>>
    /\ \E first, second \in Paid, to \in Addresses,
          lbtc \in (IF deal[s].pair = Liquid THEN BOOLEAN ELSE {TRUE}) :
          lockup' = [lockup EXCEPT ![s] =
                       <<[to |-> to, value |-> first, lbtc |-> lbtc],
                         [to |-> "lockup", value |-> second, lbtc |-> lbtc]>>]
    /\ UNCHANGED <<settingsVars, pc, order, client, deal, asset, tx, outcome,
                   checked, at, world>>

\* Boltz gives liquid swaps a blinding key.
ClaimTxs(s) ==
    CreateClaimTx(client[s].pair, deal[s].pair = Liquid, lockup[s],
                  client[s].fees.claim)

RefundTxs(s) ==
    CreateRefundTx(client[s].pair, deal[s].pair = Liquid, lockup[s],
                   client[s].fees.normal, Timeout)

\* The client asks the Boltz that has the swap, and the coins are there.
SeesLockup(s) ==
    pc[s] = "wait" /\ client[s].settings.url = deal[s].settings.url
    /\ lockup[s] # <<>>

Claim(s) ==
    /\ SeesLockup(s) /\ order[s].kind # "submarine"
    /\ \E t \in ClaimTxs(s) : tx' = [tx EXCEPT ![s] = t]
    /\ outcome' = [outcome EXCEPT ![s] = "claimed"]
    /\ pc' = [pc EXCEPT ![s] = "over"]
    /\ at' = [at EXCEPT ![s] = height]
    /\ UNCHANGED <<settingsVars, order, client, deal, asset, lockup, checked,
                   world>>

\* It is posted, and taken or not.
Refund(s) ==
    /\ SeesLockup(s) /\ order[s].kind = "submarine"
    /\ \E t \in RefundTxs(s) :
          /\ tx' = [tx EXCEPT ![s] = t]
          /\ IF /\ IsSigned(lockup[s], t) /\ IsFinal(t, height)
                /\ RefundUnlocks(deal[s].pair, Timeout, t)
             THEN /\ outcome' = [outcome EXCEPT ![s] = "refunded"]
                  /\ pc' = [pc EXCEPT ![s] = "over"]
             ELSE /\ outcome' = [outcome EXCEPT ![s] = "rejected"]
                  /\ pc' = [pc EXCEPT ![s] = "idle"]
    /\ at' = [at EXCEPT ![s] = height]
    /\ UNCHANGED <<settingsVars, order, client, deal, asset, lockup, checked,
                   world>>

\* The transaction cannot be built.
BuildRaises(s) ==
    /\ SeesLockup(s)
    /\ \/ /\ order[s].kind = "submarine" /\ RefundTxs(s) = {}
          /\ pc' = [pc EXCEPT ![s] = "idle"]
       \/ /\ order[s].kind # "submarine" /\ ClaimTxs(s) = {}
          /\ pc' = [pc EXCEPT ![s] = "gone"]
    /\ outcome' = [outcome EXCEPT ![s] = "raises"]
    /\ UNCHANGED <<settingsVars, order, client, deal, asset, lockup, tx,
                   checked, at, world>>

\* Another Boltz does not know the swap: a 404.  The startup check marks the
\* row failed, a refund request leaves it.
NotFound(s) ==
    /\ pc[s] = "wait" /\ client[s].settings.url # deal[s].settings.url
    /\ outcome' = [outcome EXCEPT ![s] = "unknown"]
    /\ pc' = [pc EXCEPT ![s] =
                IF order[s].kind = "submarine" THEN "idle" ELSE "over"]
    /\ UNCHANGED <<settingsVars, order, client, deal, asset, lockup, tx,
                   checked, at, world>>

-----------------------------------------------------------------------------
(***************************************************************************)
(* The rest of the world.                                                  *)
(***************************************************************************)

\* GET, PUT and DELETE of the settings.
SettingsRequest ==
    /\ \/ MissSettings(Page)
       \/ \E settings \in Settings :
             GetSettings(Page, settings) \/ UpdateSettings(settings)
       \/ DeleteSettings
    /\ UNCHANGED <<swapVars, world>>

ChangeFees ==
    /\ feeChanges < MaxFeeChanges /\ feeChanges' = feeChanges + 1
    /\ fees' \in FeeTables
    /\ UNCHANGED <<settingsVars, swapVars, height, restarts>>

Mine ==
    /\ height < MaxHeight /\ height' = height + 1
    /\ UNCHANGED <<settingsVars, swapVars, fees, restarts, feeChanges>>

\* The process dies with every task and is started again: the startup check
\* will come to each row that is pending.
Restart ==
    /\ restarts < MaxRestarts /\ restarts' = restarts + 1
    /\ SettingsCrash
    /\ pc' = [s \in Swaps |->
                CASE pc[s] \in {"new", "over"} -> pc[s]
                  [] pc[s] \notin {"new", "over"} /\ deal[s] = NoDeal ->
                        "refused"
                  [] pc[s] \notin {"new", "over"} /\ deal[s] # NoDeal -> "idle"]
    /\ UNCHANGED <<order, client, deal, asset, lockup, tx, outcome, checked, at,
                   fees, height, feeChanges>>

SwapStep(s) ==
    \/ \E o \in Orders : PlaceOrder(s, o)
    \/ \E settings \in Settings :
          ValidateAddress(s, settings) \/ MakeClient(s, settings)
    \/ FindNoSettings(s) \/ InitPairs(s) \/ ClientRaises(s)
    \/ CreateSwap(s) \/ CreateReverseSwap(s)
    \/ LookAgain(s) \/ BoltzLocksUp(s) \/ UserLocksUp(s)
    \/ Claim(s) \/ Refund(s) \/ BuildRaises(s) \/ NotFound(s)

Next ==
    \/ \E s \in Swaps : SwapStep(s)
    \/ SettingsRequest \/ ChangeFees \/ Mine \/ Restart

Spec == Init /\ [][Next]_vars

-----------------------------------------------------------------------------
(***************************************************************************)
(* What a swap's orders may count on.                                      *)
(***************************************************************************)

\* "Receive specified Amount": unless Boltz changes its fees before it makes
\* the reverse swap, its claim pays out exactly what was asked for, whatever the
\* float division and Boltz round; a client made later, which takes the claim
\* fee of its moment, pays out what that is less than the fee that was quoted,
\* or as much less as it is more.
AskedAmountArrives ==
    \A s \in Swaps :
        /\ outcome[s] = "claimed" /\ order[s].direction = "receive"
        /\ deal[s].fees = deal[s].quoted
        => tx[s].value + client[s].fees.claim =
               order[s].amount + deal[s].quoted.claim

\* "Send specified Amount": unless Boltz changes its fees on the way, a
\* submarine swap expects that amount, or one sat less.
SentAmountSuffices ==
    \A s \in Swaps :
        /\ deal[s] # NoDeal /\ deal[s].fees = deal[s].quoted
        /\ order[s].kind = "submarine" /\ order[s].direction = "send"
        => deal[s].value \in (order[s].amount - 1)..order[s].amount

\* The fee the client of s takes for the claim or the refund.
FeeOf(s) ==
    IF order[s].kind = "submarine" THEN client[s].fees.normal
                                   ELSE client[s].fees.claim

\* Every claim and every refund that is built spends an output paid to the
\* swap, signs the value of that very output, without which no node takes it,
\* and pays all of it out but the fee of its client, wherever in the lockup
\* transaction the output is: the index, which is counted, and the amount
\* belong together.
SpendsLoseNothing ==
    \A s \in Swaps :
        outcome[s] \in {"claimed", "rejected", "refunded"} =>
            /\ IsSigned(lockup[s], tx[s])
            /\ tx[s].value + FeeOf(s) = Coin(lockup[s], tx[s]).value

\* The first output to the swap cannot pay the client's fee.
FeeTooHigh(s) ==
    \E n \in LockupOutput(lockup[s]) : lockup[s][n].value < FeeOf(s)

\* It is not in L-BTC.
WrongAsset(s) ==
    /\ deal[s].pair = Liquid
    /\ \E n \in LockupOutput(lockup[s]) : ~lockup[s][n].lbtc

\* A sweep whose row, or whose settings, have changed what it is about.
SweepMisfits(s) ==
    /\ order[s].kind = "sweep"
    /\ \/ order[s].pair = Liquid
       \/ NetworkOf(deal[s].settings, Bitcoin) # order[s].network

FailsForAReason(s) ==
    /\ outcome[s] = "rejected" => at[s] < Timeout
    /\ outcome[s] = "raises" => FeeTooHigh(s) \/ WrongAsset(s)
    /\ outcome[s] \in {"unknown", "invalid"} =>
           \/ client[s].settings # deal[s].settings
           \/ outcome[s] = "invalid" /\ order[s].kind # "sweep"
                 /\ checked[s] # deal[s].settings
           \/ outcome[s] = "invalid" /\ SweepMisfits(s)
    /\ outcome[s] = "claimed" => IsFinal(tx[s], 0) /\ ClaimUnlocks(tx[s])

\* A look at a swap's coins whose client could be made (Boltz was in reach)
\* fails for one of these reasons only: it comes before the timeout; the fees
\* of its client exceed the coins, or these are in another asset; the settings
\* are not those the swap was made with, or those it was made with not those
\* its address was checked with; a sweep of liquid is stored as one of
\* bitcoin, or has an address of before the settings changed.  And a claim
\* could be mined at once.
LooksFailForAReason == \A s \in Swaps : FailsForAReason(s)

=============================================================================
