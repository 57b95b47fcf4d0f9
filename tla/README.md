# Boltz extension: TLA+ models and proofs

The LNbits extension in this repository swaps bitcoin onchain against lightning
through the Boltz exchange. These modules model its core: two kinds of swaps,
the automatic sweep that makes one of them, the tasks and requests that move
them, the rows of the database they share, and the clients that make them with
Boltz and spend their coins. TLC checks small instances; TLAPS proves the
central properties for any number of swaps, of concurrent requests, of crashes
and of restarts, and for all amounts and fees; the liveness properties are
proved too, given what ENABLED means, some of them for a bounded number of swaps.

## The system

| Component | State it keeps | Operations | Talks to |
|---|---|---|---|
| Submarine swaps, onchain to lightning (`views_api.py`, `tasks.py`, `crud.py`) | row in `boltz.submarineswap` (status, refund key) | create, listener of paid invoices, check at startup, refund request | LNbits invoices, Boltz, chain |
| Reverse swaps, lightning to onchain (`views_api.py`, `utils.py`, `tasks.py`) | row in `boltz.reverse_submarineswap` (status, preimage, claim key); two tasks in memory | create, pay task, claim task, check at startup | LNbits payments, Boltz, chain |
| Auto reverse swaps (`tasks.py`, `views_api.py`) | row per wallet with threshold, kept balance and count | create, delete, sweep on every incoming payment | listener, reverse swaps |
| Boltz client (`boltz_client/boltz.py`, `utils.py`) | network, pairs, fees, limits of one call | HTTP requests, polling loops, fees | Boltz |
| Onchain transactions (`boltz_client/onchain.py`, `onchain_wally.py`) | none | build claim and refund transactions | client |
| Settings (`crud.py`) | rows of `boltz.settings`, meant to be one | get or create, update, delete | every client |
| Scheduling (`__init__.py`) | list of scheduled tasks | `boltz_start`, `boltz_stop` | LNbits |
| Command line client, pages, migrations | none | | |

Everything runs in one asyncio event loop. The interesting behaviour is what
happens between awaits: several tasks and requests read a row, wait for
seconds or hours, and write it; notices of payments live in a queue that dies
with the process; what a crash interrupts must be found again by a check that
runs once per start.

### What makes each component correct, and what is hard

* *Submarine swaps.* A row says what happened (complete: the invoice was paid;
  refunded: the refund is on the chain), what is settled stays settled, and no
  paid swap is forgotten. Hard: three writers of one row (listener, startup
  check, refund request), each acting on an old read; the hand-over between
  the startup check's snapshot and the listener's queue; lost answers.
* *Reverse swaps.* Nothing is paid before the preimage is stored; the row
  follows the payment; the claim task dies with the payment; after a restart
  something looks after every pending row. Hard: two concurrent tasks, one
  cancelling the other; tasks that outlive `boltz_stop`; a startup check that
  waits for each swap in turn, and shares a row with those tasks; a database
  that fails in the middle of an error path.
* *Auto reverse swaps.* A sweep leaves the balance to keep, one auto swap per
  wallet, the count is the number of sweeps. Hard: balance and count are read
  before several awaits.
* *Client.* A swap is made by one client and claimed or refunded by a later
  one, and its row keeps neither the settings nor the fees of the first. A
  later look may fail for that, but for nothing else. Hard: settings and fees
  change between any two awaits, and each client reads both anew.
* *Fees.* What is asked for is what arrives. Hard: floats are rounded, and
  Boltz rounds too.
* *Onchain.* A claim or refund spends an output to the swap, signs the value
  of that very output, and loses the fee only. Hard: the output's index is
  counted by hand beside its amount, and one function builds both.
* *Settings.* Clients use what was saved last. Hard: reading them may insert
  a row, one step after it found none.

`PROJECT.json` lists each hazard at its line with the properties that cover it.

## Modules

| Module | What it is |
|---|---|
| `SwapRecord` | What any swap's row promises: born pending, then only outcomes there is evidence of. The abstract specification of both kinds. |
| `SubmarineSwap` | Submarine swaps in detail. |
| `ReverseSwap` | Reverse swaps in detail. |
| `AutoSwap` | One wallet's auto reverse swap: its requests, the sweep, the wallet's balance. |
| `SwapFees` | The two fee computations with their float rounding, and what Boltz makes of the amounts. Operators only. |
| `OnchainTx` | Addresses, claim and refund transactions, and the chain's rules for them. Operators only. |
| `BoltzSettings` | The settings table: reading it in two steps, saving, deleting. |
| `BoltzClient` | The clients of a swap from its order to its claim or refund. Composes the three above. |
| `MCSubmarineSwap`, `MCReverseSwap`, `MCAutoSwap`, `MCBoltzClient` | Instances for TLC, with the symmetry of swaps and requests where it is sound. |
| `SubmarineSwapProofs`, `ReverseSwapProofs`, `AutoSwapProofs`, `SwapFeesProofs`, `BoltzClientProofs` | Theorems. |

A step is the code between two awaits that leave the process; what is computed
between them is one atomic action, since nothing else runs in the event loop.
The database calls that only write a row already decided upon
(`update_swap_status`, a SELECT and an UPDATE) are one step: the columns they
read are not used. `xxxPc` variables name the await a task is at:

* `SubmarineSwap`: `api[s]` is `api_submarineswap_create`; `listener`, `queue`
  and `current` are `wait_for_paid_invoices` / `on_invoice_paid`, with the
  sweep as something that returns or raises; `checkPc`, `todo`, `checking` are
  `check_for_pending_swaps` / `check_swap`; `refundPc[r]`, `refundOf[r]` one
  call of `api_submarineswap_refund`, down into `BoltzClient.refund_swap`.
  Every UPDATE may raise (fault `write`): in the listener that ends it, in the
  check it is logged (`complete`) or ends the check (`failed`), in a refund the
  request ends in a 400 with the refund on the chain. Fault `answer` is an
  answer of Boltz no refund can be built from.
* `ReverseSwap`: `api[s]` is `api_reverse_submarineswap_create`; `claim[s]` and
  `pay[s]` are the tasks of `execute_reverse_swap`; `checkPc`... the startup
  check. The UPDATEs may raise here too: that of the paying task to `complete`
  is in the `try` block of the payment, so that the task goes on as if the
  payment had failed (`PayCompleteRaises`). As the source does,
  `ClaimSeesLockup` and `CheckSeesLockup` do not post a transaction: the
  coroutine that would is never awaited. The `failed` branch of
  `check_reverse_swap` for `BoltzSwapStatusException` has no action: the only
  call that raises it is not awaited, and the polling loop catches it.
* `AutoSwap`: `api[a]` is `api_auto_reverse_submarineswap_create`; `sweepPc`,
  `auto`, `seen`, `amount`, `swap` are `check_for_auto_swap` and what it has
  read; `pay[s]` is the task that pays the invoice of sweep `s`, what becomes of
  its row being `ReverseSwap`'s business. Amounts are whole sats; `Reserve` is
  LNbits's `fee_reserve_total`, a share of the amount with a minimum. A wallet
  that is gone, the asset of a row and fractions of a sat are left out.
* `BoltzClient`: `pc[s]` is the await of the one task or request that works on
  `s`: `address` in `api_address_validation`, `client` and `pairs` in
  `create_boltz_client`, `create` at Boltz's `createswap`, `wait` for the
  lockup. `client[s]` and `deal[s]` are the `BoltzClient` and what Boltz
  answered, `asset[s]` the row's column (the row of a sweep is built without it
  and says bitcoin). Whether a row may be looked at again is left to the other
  modules: `idle` swaps are, `gone` ones after a restart, `over` ones never. A
  transaction is the index of the output it spends, the value its signature
  commits to, what it pays out, its sequence, locktime and what its witness has;
  index and value are computed apart (`VoutIndex`, `CreateBitcoinTx`), as
  `onchain.py:149-155` does; `Claim` ends where it is built (posting it is
  `ReverseSwap`'s business), `Refund` where the chain takes or refuses it.
* `SwapFees` divides floats: a quotient that should be whole may come out a bit
  high or low, so `CeilQuotients` and `FloorQuotients` are sets. For amounts
  up to 10^9 sats nothing else can be off. `OnchainAmount` and
  `ExpectedAmount` are Boltz's, with its documented rounding up of its own fee.
* `BoltzSettings`: `missing` are the readers between the SELECT that found no
  row and their INSERT. Equal rows are one to every reader, so the table is a
  set.
* `mode` is the process: up, extension stopped (`boltz_stop` cancels only the
  scheduled tasks), or down. `BoltzStart` is `boltz_start`.
* The world (`invoice`, `onchain`, `expired`; `htlc`, `lockup`) is LNbits core,
  Boltz, the chain and the user, modelled from how the code uses them. A swap's
  coins are none, enough or too few; blocks are only "timeout reached or not".
* Assumed of the world: Boltz claims the coins of a swap it paid before its
  timeout; it pays and locks only what it has been given; a payment it has
  locked coins for is not released while they are locked; a refund transaction
  is accepted only after the timeout and if the coins are there, or if it is
  the one already accepted. In `BoltzClient`: the Boltz and the networks of
  one row of settings belong together, Boltz locks up what it has promised and
  gives liquid swaps a blinding key, a user pays any amount in one or two
  outputs.
* `notFound`, `missed`, `assumed`, `unresolved`, `unwritten`, `dropped`, and in
  `AutoSwap` `gone`, `made`, `lost`, `attempt`, in `BoltzSettings` `saved` and
  `astray`, in `BoltzClient` `checked` and `at`, are history: no action reads
  them. They name the exceptions a property makes, and the properties are exact
  about them: each is entered only where the code gives up or takes something
  for what it is not (`unwritten`: the paying task could not write its
  outcome; `assumed`: the startup check took a swap for claimed; `missed`: no
  notice of the payment is left in this process).

## Runs

| Run | Bounds | Shows |
|---|---|---|
| `submarine_pair` | 2 swaps, 1 refund request at a time, all faults, 1 deactivation, symmetry | types; `RowsAreJustified` (implements `SwapRecord`); `SettledIsFinal`; `NoPaymentForgotten` |
| `submarine_live` | 1 swap, 2 refund requests, all faults, 1 crash, 1 foreign payment, fair | two of these over a crash, and `PaidSwapCompletes`, `StartupCheckEnds`, `RefundIsAnswered` |
| `reverse_pair` | 2 instant swaps, all faults, 1 deactivation, symmetry | types; `PreimageKept`; `NoStalePoller`; `PendingIsWatched`; `SettledIsFinal`; `RowsAreJustified`; `CompleteMeansReceived` |
| `reverse_live` | 1 waiting swap, all faults, 2 crashes, 2 deactivations, fair | `BounceIsRecorded`, `LockedUpSwapIsFound`, and over crashes `PendingIsWatched`, `SettledIsFinal` |
| `auto_sweep` | 2 create requests, 2 sweeps, 2 payments in (one exactly worth a sweep, one not, both together above the limit), 1 out, 1 crash or deactivation, fair | types; `SweepKeepsBalance`; `CountIsSweeps`; `NoticedSurplusIsSwept` |
| `client_swap` | 1 swap of any of 9 orders (both kinds and sweeps, both pairs, both directions, one below the fee and one below the limit), lockups of one or two outputs, 3 settings, 2 fee tables, 2 saves, 1 change of fees, 1 restart, heights 0 and 1 around the timeout | types; `SavedSettingsAreUsed`; `AskedAmountArrives`; `SentAmountSuffices`; `SpendsLoseNothing`; `LooksFailForAReason` |
| `submarine_auto_sweep` | 1 swap, a sweep that may raise | violation, see below |
| `submarine_startup_refund` | 1 swap, 1 crash | violation |
| `reverse_unclaimed` | 1 instant swap, 1 crash | violation |
| `reverse_blocked` | 2 swaps, 1 crash | violation |
| `auto_keep` | 1 sweep, 1 payment in and 1 out | violation |
| `auto_two_rows` | 2 create requests | violation |

What three of the properties say that their names do not:

* `SettledIsFinal` of reverse swaps: a settled row that no task has in hand
  never changes again, over crashes and starts; and one that tasks do have in
  hand changes only if paying task and startup check were given opposite
  answers (`AnswersDisagree`: a payment that was made and a 404, or a lockup and
  a payment that bounced or could not be written). That the two disagree
  without such answers is what the property excludes.
* `NoStalePoller`: the claiming task asks for the lockup of a swap whose payment
  bounced only until the paying task notices. The startup check, which nobody
  cancels, may go on asking for a swap whose row is failed, but only if the
  paying task of the same process marked it after the check had read it.
* `NoticedSurplusIsSwept`: from the moment the listener has taken a notice
  while there is a surplus, LNbits is asked to pay for a sweep *that was not
  stored before*, or the surplus or the row goes first; the exception is this
  very sweep being skipped, dropped or cut off (`attempt` is reset with each
  notice).

Why these bounds: swaps interact only through the listener's queue, the loop of
the startup check and the refund requests that name the same swap, so two swaps
show every pair, and two requests on one swap show every race for its row. One
crash or deactivation gives a state left by one life of the process and met by
the next; one reverse swap is small enough for two of each. Two of them meet
only in the loop of the check, where a deactivation is the richer case (the
tasks go on beside it), and whether a swap waits for a confirmation matters to
one swap only: `reverse_live` has that. `reverse_pair` is the largest run, with
two million states. A sweep needs a notice, so two payments in make at most two
sweeps, and the second can start while the first is being paid. In `client_swap`
swaps meet in the settings only, where the settings page is the second reader;
two saves give a delete and a PUT, or two PUTs, around any read; of the settings
two share their networks and differ in the Boltz, the third shares nothing; the
percentages (a quarter, a fifth, a tenth) divide the amounts so that every
rounding happens. The counters bound only crashes, deactivations, saves and the
payments of others; the proofs have no bound. Deadlock is not checked: the
system stops when every swap is settled and the bounds are used up.

Fairness: the event loop runs every task that can take a step and every answer a
task waits for comes (`req_wrap` has a timeout of 30 s), hence weak fairness on
the steps of the listener, the check, each refund request, each task of a
reverse swap and each sweep's payment up to its being sent or refused. The
fairness leaves out the faults (`RefundProgress`, `PayProgress`,
`CheckProgress`): a wait for a lockup that does not come is not ended by an
error that is owed to it. Nothing is assumed of the user, of Boltz, of the chain
or of the operator: they may stop for ever.

## What the code does differently from its documentation

1. *A sweep that raises drops a paid swap's notice* (`tasks.py:34`). The auto
   sweep runs before the swap is marked complete; its exception ends the
   listener, which loses this payment and those queued. README.md:66 expects
   the swap to complete. `PaidSwapCompletes` shows it is the only such way
   beside a read or write of the database that fails, and a 404; with requests
   to Boltz refused and answers lost or useless only, no payment is dropped at
   all (`HarmlessFaultsForgetNothing`).
2. *The startup check never refunds* (`tasks.py:124`): `swap_status` is not
   awaited. README.md:69 expects the refund (and README.md:48 one every 15
   minutes, for which there is no code at all; README.md:68 a swap that runs
   into its timeout to be marked failed, which stays pending).
3. *Claims are not posted* (`boltz_client/boltz.py:278`): a coroutine is
   returned and dropped. After a restart the row is complete nevertheless.
   README.md:73 and the comment in `utils.py:45` expect the claim.
   `CompleteMeansReceived` shows that, beside a held payment that `pay_invoice`
   returns, it is the only way to a complete row without the coins.
4. *One reverse swap without a lockup blocks the check* (`tasks.py:112`).
   README.md:75 expects the others to be found. With one swap the same
   property holds (`reverse_live`).
5. *A sweep pays an amount computed from an old balance* (`tasks.py:54`). Two
   requests to Boltz lie between the look at the balance and the payment; what
   leaves the wallet meanwhile is not seen, and the wallet ends below the
   balance to keep that `templates/boltz/_autoReverseSwapDialog.html:78`
   promises. `SweepKeepsBalance` says by how much: at most by what left after
   the look (`gone`), and nothing else can break it.
6. *A wallet can get two auto swaps* (`views_api.py:344`): the check for a row
   and the insert have the validation of an address between them, and no
   constraint in the database. `views_api.py:335` says only one is possible.
   The sweep takes whichever row it is given, and `CountIsSweeps` holds for both.

One more thing the models allow because the code does it, though no
documentation says otherwise: the UPDATE to `complete` is inside the `try` of
the payment (`utils.py:90-98`), so that a database error there cancels the claim
and marks a *paid* swap failed. `RowsAreJustified` names this case
(`unwritten`), and shows that no other payment that was made gets such a row.

## Proofs

Each proof module has one inductive invariant `IInv`, proved kept by each
action, from which every safety property follows; constants are only assumed
to be of their kind (`NoSwap` is not a swap, amounts and bounds are naturals).

* `SubmarineSwapProofs`. `NoPaymentForgotten` is not inductive: a task about
  to write a row must hold what it read. `IInv` adds that a task past its first
  await has a swap (`TasksHaveSwaps`), that a swap only Boltz or nobody knows of
  has no row, coins or payment (`RowsComeFirst`), that a paid swap's coins are
  never refunded (`PaidInTime`), that a task about to write an outcome still
  has evidence for it (`TasksAreRight`), and that rows agree with the evidence
  (`RowsAreRight`). `PaidInTime` is why two writers cannot disagree: complete
  needs a paid invoice, refunded a refund, and no swap has both. Theorems:
  `TypeCorrectness`, `PaymentsAccountedFor`, `RowsSettleOnce`,
  `ImplementsSwapRecord`. `NothingDropped`, an invariant when the five faults
  of `Harmful` do not happen, takes the exceptions out of two of them:
  `HarmlessFaultsForgetNothing` and `HarmlessFaultsOverwriteNothing`. For the
  liveness theorems see below.
* `ReverseSwapProofs`, by the same plan: `CheckHasSwap`, `RowsComeFirst`,
  `TasksAreRight`, `PollersHavePayers`, `RowsAreRight`. What `SettledIsFinal`
  needs beyond that is `HandsAreRight`: a row the startup check has in hand was
  pending when it was read, so that if it is settled by now its paying task did
  that, for a reason of its own. From it each overwrite is one of
  `AnswersDisagree` (`StepOverwrites`), and no step reopens a closed row
  (`StepKeepsClosed`). Theorems: `TypeCorrectness`, `PreimageIsKept`,
  `PollersAreCurrent`, `PendingRowsWatched`, `RowsSettleOnce`,
  `ImplementsSwapRecord`, and `CompleteIsReceived`, which needs that only a
  claimed lockup lets Boltz settle the payment (`SettledIsClaimed`).
* `AutoSwapProofs`. The amount is right when it is computed, and the sum that
  is paid must still be right several awaits later, so `IInv` says what
  `SweepKeepsBalance` says of the amount held (`AmountCovered`) and of the
  sum stored (`SumsCovered`) from the look at the balance on: balance and what
  has left since (`gone`) together cover it. The step that
  starts this needs arithmetic: the reserve is monotone (`ReserveIsMonotone`),
  so what was taken off for the whole balance covers the smaller payment. For
  `CountIsSweeps` it adds that the count read is still the row's, the sweep
  being its only writer (`ListenerHoldsRow`), and that a row is born after its
  request (`RowsComeFirst`). Theorems: `TypeCorrectness`,
  `SweepsKeepTheBalance`, `SweepsAreCounted`, and `SweepsFailOvertakenOnly`: a
  sweep is refused only if more than the balance to keep has left since its
  look. A second invariant counts: the stored sweeps, the notices in the
  queue and the one in hand are together at most the payments that came in
  (`EverySweepHasItsNotice`), through restarts that lose notices.
* `SwapFeesProofs`. `CeilQuotientBounds` and `FloorQuotientBounds` say all that
  is needed of a float's quotient: it is off by less than the divisor, and
  exact for 1.0. The invoice times its percentage is then within one whole
  unit of the amount, and Boltz's own rounding takes the rest off
  (`ReceivedAsAsked`), or leaves at most one sat (`SentAsAsked`). Nobody is
  charged for it: two sats less in the invoice would not do
  (`NoMoreThanNeeded`), two sats more neither (`NoLessThanPossible`). Fees are
  only assumed to be percentages below 100 and naturals (`IsFees`).
* `BoltzClientProofs`. `IInv` says what the task, the client, the row, the
  lockup and the last transaction of a swap have to do with each other: `Placed`
  and `Attended` tie them to `pc`, `Checked` keeps the checked address, `Dealt`
  says that row and answer are about the order, `Locked` that the lockup pays
  the swap, `Claimed` that a claim pays out the promise less the fee of the
  client that claims, which a change of fees does not break. `SavedKept`
  strengthens `SavedSettingsAreUsed`: an empty table is as good as the defaults,
  which is why an insert that finds it still empty is harmless.
  `VoutIndexPoints` shows of the counted index that it is where the lockup
  output is, for any outputs before and after it; `CreatedTx` and `NoTxCreated`
  are all that is used of a transaction; the steps of one swap leave the others
  alone (`StepsAreLocal`). Theorems: `Invariance`, `TypeCorrectness`,
  `SavedUsed`, `AskedArrives`, `SentSuffices`, `SpendsAreWhole`, `LooksFail`.

The refinements map a row's status to `SwapRecord`'s and the world's facts to
its evidence; each step that adds a fact is a `Learn`, each write a `Record`.

### Liveness

The prover cannot reason about ENABLED. What weak fairness needs of it is
stated once per module as `GuardsSuffice`: where the guard of a task's step
holds, written out from the actions (`ListenerGuard`, `CheckGuard`,
`RefundGuard`, `PayGuard`), the step is ENABLED. That is so by what ENABLED
means, since each of these steps changes where its task awaits, and it says
nothing of the code; it is a hypothesis of every liveness theorem
(`FairSpec /\ []GuardsSuffice => ...`). TLC needs no such thing: in the fair runs
it computes ENABLED itself.

What does say something is that a guard holds whenever a property needs it to,
and this is proved: `TasksAlwaysHaveGuards` for submarine swaps (a refund that
is ready has coins that can be taken or refused, as nobody unsends those it has
seen, `CoinsAreThere`), the lemmas `SweepHasGuard` and `PayerHasGuard` for
`AutoSwap`, where createswap must have a new swap to return. `SwapsSuffice` asks
for as many swaps as payments that may come in, which is no restriction on the
code: `Swaps` is only a name for what Boltz can make.

Each theorem has a predicate per await and two lemmas: where any step can take
the task from there (`...Moves`), and that a step of its own leaves it
(`...Leaves`); temporal logic does the rest.

| Theorem | Says, of any number of swaps, requests, crashes and restarts |
|---|---|
| `RefundsAreAnswered` | `RefundIsAnswered`. Coins that are seen are not unseen (`CoinsStay`). |
| `CheckAdvances` | From anywhere in its loop the startup check ends or has fewer swaps left. |
| `CheckOfTwoEnds` | `StartupCheckEnds` if there are two swaps, by `CheckAdvances` of each set it can have left. |
| `CheckCompletes` | A paid swap that check has got to gets complete, unless asking for the payment or the UPDATE raised, or the listener still has the notice. |
| `ListenerAdvances` | Every notice in the queue comes one nearer to its front, and the first completes its row, unless the listener drops it. |
| `TwoPaidSwapsComplete` | `PaidSwapCompletes` of two swaps, with up to two payments in the queue that are not Boltz's. An invariant bounds the queue by four (`QueueIsCovered`); from each place `ListenerAdvances`, and if the notice was lost with a restart, `CheckCompletes` and `CheckOfTwoEnds`. |
| `TwoPaidSwapsAlwaysComplete` | If none of the faults of `Harmful` happens as well, README.md:66 is right: every paid one completes (`EveryPaidSwapCompletes`, which `submarine_auto_sweep` shows false with one of them). |
| `BouncesAreRecorded` | `BounceIsRecorded`, whose exceptions are a crash and an UPDATE that raises (`unwritten`). |
| `CheckFindsLockup`, `LastIsFound` | The startup check finds the lockup of a swap it has got to, and of the last one it has left. |
| `LoneSwapIsFound` | `LockedUpSwapIsFound` if there is one swap; `reverse_blocked` shows that it is false of two. |
| `SurplusesAreSwept` | `NoticedSurplusIsSwept`, for every set of sweeps that may already be stored. It is stated from `[]Fairness`, which is what `Fairness` is, but the prover does not conclude `[]\A` from `\A []`. |

A small invariant serves those of `SubmarineSwap`: while the process is up its
two tasks run (`TasksRunWhenUp`).

Taken as a hypothesis is therefore `GuardsSuffice`, which is about ENABLED and
out of this prover's reach. Every property of a passing run has a theorem, the
liveness properties under that hypothesis; three of them for a bounded number of
swaps only. `StartupCheckEnds` and `PaidSwapCompletes` are proved for two swaps,
the second for two more notices in the queue. Their steps are proved for any
number (`CheckAdvances`, `ListenerAdvances`, `CheckCompletes`,
`PaymentsAccountedFor`); what is missing is the induction over the swaps left
and over the queue, whose theorem in the library takes an operator this prover
cannot instantiate. `LockedUpSwapIsFound` is not proved of more than one swap
because it is false.

## Plan

Done, in this order: `SwapRecord`, `SubmarineSwap`, `ReverseSwap`, `AutoSwap`,
`SwapFees`, `OnchainTx`, `BoltzSettings`, `BoltzClient`, each with its proofs.
What could still be added:

1. `Extension`: the startup check over both kinds of swaps at once. Submarine
   swaps come first and cannot block, so that it would only confirm the order
   of two loops that share nothing else.
2. `AutoSwap` as the environment of `SubmarineSwap` and `ReverseSwap`: an auto
   swap created while a create request waits sweeps that swap's sats, which no
   code prevents.

## Not modelled

* Scripts, keys, signatures (but for the value they commit to), blinding and
  the PSET of `onchain_wally.py` (library calls without control), the decoding
  of addresses.
* The command line client (`boltz_client/cli.py`): it keeps no state. Its
  `create_swap` is an `async` command that nothing awaits, and `refund_swap`
  uses a client without `init_pairs`, which has no fees to take.
* Pages and migrations, which decide nothing at run time, and the read-only
  requests: what they may change, a first row of settings, is the reader `Page`
  of `BoltzClient`.
* Amounts above 10^9 sats, where floats may be off by more.
