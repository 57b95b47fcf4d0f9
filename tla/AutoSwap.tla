------------------------------ MODULE AutoSwap ------------------------------
(***************************************************************************)
(* The auto reverse swap of one wallet: the requests that create and       *)
(* delete its row (views_api.py), the sweep the listener tries on every    *)
(* payment that comes in (check_for_auto_swap, tasks.py), and the tasks    *)
(* that pay the sweeps' invoices, seen from the wallet's balance.          *)
(*                                                                         *)
(* The sweep reads the row, then the balance, then talks to Boltz twice    *)
(* before the payment it computed leaves the wallet; the user, the         *)
(* payments of earlier sweeps and the two requests go on meanwhile.  What  *)
(* becomes of a sweep's row is in ReverseSwap.  Amounts are in sats.       *)
(***************************************************************************)
EXTENDS Integers

CONSTANTS
    Autos,          \* auto reverse swaps, one create request each
    NoAuto,         \* the listener holds no row
    Swaps,          \* the reverse swaps sweeps may make
    NoSwap,         \* the listener is at no swap
    Keep,           \* the rows' balance: what a sweep leaves in the wallet
    Amount,         \* the rows' amount: what is worth a sweep
    Minimal, Maximal,               \* Boltz's limits
    MinReserve, ReservePercent,     \* LNbits's settings for routing fees
    Payments,       \* amounts that come in or are spent
    MaxReceived,    \* bound: payments that come in
    MaxSpent,       \* bound: payments the user makes
    MaxRestarts     \* bound: crashes and deactivations

ASSUME NoAutoAssumption == NoAuto \notin Autos
ASSUME NoSwapAssumption == NoSwap \notin Swaps
ASSUME AmountsAssumption ==
    /\ Keep \in Nat /\ Amount \in Nat
    /\ Minimal \in Nat /\ Maximal \in Nat
    /\ MinReserve \in Nat /\ ReservePercent \in Nat
    /\ Payments \subseteq Nat
ASSUME BoundsAssumption ==
    MaxReceived \in Nat /\ MaxSpent \in Nat /\ MaxRestarts \in Nat

VARIABLES
    \* The database.
    rows,           \* rows of boltz.auto_reverse_submarineswap
    count,          \* count[a]: their count column
    \* The process.
    api,            \* api[a]: where the create request of a awaits
    queue,          \* payments the listener has not come to
    sweepPc,        \* where check_for_auto_swap awaits
    auto, seen,     \* the row it has read, and its count
    amount,         \* the amount it computed
    swap,           \* the reverse swap it stores and executes
    \* The world and the paying tasks.
    balance,        \* what LNbits says the wallet holds
    pay,            \* pay[s]: the payment of a sweep
    sum,            \* sum[s]: its amount
    received, spent, restarts,      \* counters for the bounds
    \* History, read by no action.
    gone,           \* gone[s]: what has left the wallet since sweep s
                    \* looked at the balance; NoSwap: the one under way
    made,           \* made[a]: sweeps stored for a
    lost,           \* lost[a]: those whose count a restart cut off
    attempt         \* "givenUp": the sweep for the payment the listener took
                    \* last was skipped, dropped or cut off

database == <<rows, count>>
sweep == <<sweepPc, auto, seen, amount, swap>>
wallet == <<balance, pay, sum>>
counters == <<received, spent, restarts>>
tally == <<made, lost>>
vars == <<database, api, queue, sweep, wallet, counters, gone, tally,
          attempt>>

TypeOK ==
    /\ rows \subseteq Autos
    /\ count \in [Autos -> Nat]
    /\ api \in [Autos -> {"idle", "checked", "done"}]
    /\ queue \in Nat
    /\ sweepPc \in {"wait", "row", "wallet", "client", "create", "insert",
                    "execute", "count", "sleep"}
    /\ auto \in Autos \cup {NoAuto}
    /\ seen \in Nat /\ amount \in Nat
    /\ swap \in Swaps \cup {NoSwap}
    /\ balance \in Nat
    /\ pay \in [Swaps -> {"none", "stored", "calling", "held", "settled",
                          "bounced", "unsent"}]
    /\ sum \in [Swaps -> Nat]
    /\ received \in Nat /\ spent \in Nat /\ restarts \in Nat
    /\ gone \in [Swaps \cup {NoSwap} -> Nat]
    /\ made \in [Autos -> Nat] /\ lost \in [Autos -> Nat]
    /\ attempt \in {"open", "givenUp"}

Init ==
    /\ rows = {}
    /\ count = [a \in Autos |-> 0]
    /\ api = [a \in Autos |-> "idle"]
    /\ queue = 0
    /\ sweepPc = "wait" /\ auto = NoAuto /\ seen = 0 /\ amount = 0
    /\ swap = NoSwap
    /\ balance = 0
    /\ pay = [s \in Swaps |-> "none"]
    /\ sum = [s \in Swaps |-> 0]
    /\ received = 0 /\ spent = 0 /\ restarts = 0
    /\ gone = [s \in Swaps \cup {NoSwap} |-> 0]
    /\ made = [a \in Autos |-> 0] /\ lost = [a \in Autos |-> 0]
    /\ attempt = "open"

\* fee_reserve_total: what LNbits holds back for routing a payment of n.
Reserve(n) ==
    LET share == (n * ReservePercent) \div 100
    IN  IF share < MinReserve THEN MinReserve ELSE share

-----------------------------------------------------------------------------
(***************************************************************************)
(* POST and DELETE /swap/reverse/auto.                                     *)
(***************************************************************************)

\* The wallet has no auto reverse swap: the address is validated next.
AutoAllowed(a) ==
    /\ api[a] = "idle" /\ rows = {}
    /\ api' = [api EXCEPT ![a] = "checked"]
    /\ UNCHANGED <<database, queue, sweep, wallet, counters, gone, tally,
                   attempt>>

\* It has one, 405; or the address of one that was allowed is not valid.
AutoRefused(a) ==
    /\ \/ api[a] = "idle" /\ rows # {}
       \/ api[a] = "checked"
    /\ api' = [api EXCEPT ![a] = "done"]
    /\ UNCHANGED <<database, queue, sweep, wallet, counters, gone, tally,
                   attempt>>

AutoCreate(a) ==
    /\ api[a] = "checked"
    /\ api' = [api EXCEPT ![a] = "done"]
    /\ rows' = rows \cup {a}
    /\ count' = [count EXCEPT ![a] = 0]
    /\ UNCHANGED <<queue, sweep, wallet, counters, gone, tally, attempt>>

\* A sweep that has read the row goes on.
AutoDelete(a) ==
    /\ a \in rows
    /\ rows' = rows \ {a}
    /\ UNCHANGED <<count, api, queue, sweep, wallet, counters, gone,
                   tally, attempt>>

-----------------------------------------------------------------------------
(***************************************************************************)
(* The wallet.                                                             *)
(***************************************************************************)

Receive(n) ==
    /\ received < MaxReceived
    /\ received' = received + 1
    /\ balance' = balance + n
    /\ queue' = queue + 1
    /\ UNCHANGED <<database, api, sweep, pay, sum, spent, restarts, gone,
                   tally, attempt>>

\* An amount leaves the wallet.
Leaves(n) ==
    /\ balance' = balance - n
    /\ gone' = [s \in Swaps \cup {NoSwap} |-> gone[s] + n]

\* The user pays something.
Spend(n) ==
    /\ spent < MaxSpent /\ n <= balance
    /\ spent' = spent + 1
    /\ Leaves(n)
    /\ UNCHANGED <<database, api, queue, sweep, pay, sum, received, restarts,
                   tally, attempt>>

\* pay_invoice: the wallet has the amount and what routing may cost; both
\* are taken until the payment is settled or bounces.
SweepIsSent(s) ==
    /\ pay[s] = "calling"
    /\ sum[s] + Reserve(sum[s]) <= balance
    /\ pay' = [pay EXCEPT ![s] = "held"]
    /\ Leaves(sum[s] + Reserve(sum[s]))
    /\ UNCHANGED <<database, api, queue, sweep, sum, counters, tally, attempt>>

\* The wallet has not enough.
SweepIsRefused(s) ==
    /\ pay[s] = "calling"
    /\ sum[s] + Reserve(sum[s]) > balance
    /\ pay' = [pay EXCEPT ![s] = "unsent"]
    /\ UNCHANGED <<database, api, queue, sweep, balance, sum, counters,
                   gone, tally, attempt>>

\* The payment is settled, for a fee the reserve covers.
SweepSettles(s, fee) ==
    /\ pay[s] = "held"
    /\ fee <= Reserve(sum[s])
    /\ pay' = [pay EXCEPT ![s] = "settled"]
    /\ balance' = balance + Reserve(sum[s]) - fee
    /\ UNCHANGED <<database, api, queue, sweep, sum, counters, gone,
                   tally, attempt>>

SweepBounces(s) ==
    /\ pay[s] = "held"
    /\ pay' = [pay EXCEPT ![s] = "bounced"]
    /\ balance' = balance + sum[s] + Reserve(sum[s])
    /\ UNCHANGED <<database, api, queue, sweep, sum, counters, gone,
                   tally, attempt>>

-----------------------------------------------------------------------------
(***************************************************************************)
(* check_for_auto_swap.                                                    *)
(***************************************************************************)

ListenerGet ==
    /\ sweepPc = "wait" /\ queue > 0
    /\ queue' = queue - 1
    /\ sweepPc' = "row"
    /\ attempt' = "open"
    /\ UNCHANGED <<database, api, auto, seen, amount, swap, wallet, counters,
                   gone, tally>>

\* The first row of the wallet, whichever that is.
ReadRow(a) ==
    /\ sweepPc = "row" /\ a \in rows
    /\ auto' = a /\ seen' = count[a]
    /\ sweepPc' = "wallet"
    /\ UNCHANGED <<database, api, queue, amount, swap, wallet, counters,
                   gone, tally, attempt>>

NoRow ==
    /\ sweepPc = "row" /\ rows = {}
    /\ sweepPc' = "wait"
    /\ UNCHANGED <<database, api, queue, auto, seen, amount, swap, wallet,
                   counters, gone, tally, attempt>>

Surplus == balance - Keep - Reserve(balance)

\* Mutant: whatever is in the wallet is worth a sweep.
ReadBalanceOfAny ==
    /\ sweepPc = "wallet"
    /\ amount' = Surplus /\ gone' = [gone EXCEPT ![NoSwap] = 0]
    /\ sweepPc' = "client" /\ UNCHANGED auto
    /\ UNCHANGED <<database, api, queue, seen, swap, wallet, counters,
                   tally, attempt>>

\* Mutant: the balance to keep only decides whether to sweep.
ReadBalanceSweepsAll ==
    /\ sweepPc = "wallet"
    /\ \/ /\ Surplus >= Amount
          /\ amount' = Surplus + Keep /\ gone' = [gone EXCEPT ![NoSwap] = 0]
          /\ sweepPc' = "client" /\ UNCHANGED auto
       \/ /\ Surplus < Amount
          /\ sweepPc' = "wait" /\ auto' = NoAuto
          /\ UNCHANGED <<amount, gone>>
    /\ UNCHANGED <<database, api, queue, seen, swap, wallet, counters,
                   tally, attempt>>

\* Mutant: a surplus of exactly the amount is not worth it.
ReadBalanceOver ==
    /\ sweepPc = "wallet"
    /\ \/ /\ Surplus > Amount
          /\ amount' = Surplus /\ gone' = [gone EXCEPT ![NoSwap] = 0]
          /\ sweepPc' = "client" /\ UNCHANGED auto
       \/ /\ Surplus <= Amount
          /\ sweepPc' = "wait" /\ auto' = NoAuto
          /\ UNCHANGED <<amount, gone>>
    /\ UNCHANGED <<database, api, queue, seen, swap, wallet, counters,
                   tally, attempt>>

\* The surplus is computed, and swept if it is worth it.
ReadBalance ==
    /\ sweepPc = "wallet"
    /\ \/ /\ Surplus >= Amount
          /\ amount' = Surplus /\ gone' = [gone EXCEPT ![NoSwap] = 0]
          /\ sweepPc' = "client" /\ UNCHANGED auto
       \/ /\ Surplus < Amount
          /\ sweepPc' = "wait" /\ auto' = NoAuto
          /\ UNCHANGED <<amount, gone>>
    /\ UNCHANGED <<database, api, queue, seen, swap, wallet, counters,
                   tally, attempt>>

\* Creating the client raises, or the fees exceed the row's limit: logged.
SweepIsSkipped ==
    /\ sweepPc = "client"
    /\ sweepPc' = "wait" /\ auto' = NoAuto
    /\ attempt' = "givenUp"
    /\ UNCHANGED <<database, api, queue, seen, amount, swap, wallet, counters,
                   gone, tally>>

\* The client is there, the fees are fine, so is the amount.
SweepGoesOn ==
    /\ sweepPc = "client"
    /\ amount \in Minimal..Maximal
    /\ sweepPc' = "create"
    /\ UNCHANGED <<database, api, queue, auto, seen, amount, swap, wallet,
                   counters, gone, tally, attempt>>

\* check_limits or createswap raises, which nothing catches: the listener
\* ends, LNbits runs it again after a while.
SweepRaises ==
    /\ \/ sweepPc = "client" /\ amount \notin Minimal..Maximal
       \/ sweepPc = "create"
    /\ sweepPc' = "sleep" /\ auto' = NoAuto
    /\ attempt' = "givenUp"
    /\ UNCHANGED <<database, api, queue, seen, amount, swap, wallet, counters,
                   gone, tally>>

\* It registers a new queue.
ListenerRestart ==
    /\ sweepPc = "sleep"
    /\ sweepPc' = "wait" /\ queue' = 0
    /\ UNCHANGED <<database, api, auto, seen, amount, swap, wallet, counters,
                   gone, tally, attempt>>

SweepAtBoltz ==
    /\ sweepPc = "create"
    /\ sweepPc' = "insert"
    /\ UNCHANGED <<database, api, queue, auto, seen, amount, swap, wallet,
                   counters, gone, tally, attempt>>

\* The reverse swap's row is inserted.
SweepStored(s) ==
    /\ sweepPc = "insert" /\ pay[s] = "none"
    /\ swap' = s
    /\ pay' = [pay EXCEPT ![s] = "stored"]
    /\ sum' = [sum EXCEPT ![s] = amount]
    /\ gone' = [gone EXCEPT ![s] = gone[NoSwap]]
    /\ made' = [made EXCEPT ![auto] = @ + 1]
    /\ sweepPc' = "execute"
    /\ UNCHANGED <<database, api, queue, auto, seen, amount, balance,
                   counters, lost, attempt>>

\* execute_reverse_swap creates the task that pays, which begins to run when
\* the update of the count is awaited.
SweepExecuted ==
    /\ sweepPc = "execute"
    /\ pay' = [pay EXCEPT ![swap] = "calling"]
    /\ sweepPc' = "count"
    /\ UNCHANGED <<database, api, queue, auto, seen, amount, swap, balance,
                   sum, counters, gone, tally, attempt>>

\* Mutant: the count that was read is written back.
UpdateCountUnchanged ==
    /\ sweepPc = "count"
    /\ count' = IF auto \in rows THEN [count EXCEPT ![auto] = seen] ELSE count
    /\ sweepPc' = "wait" /\ auto' = NoAuto /\ swap' = NoSwap
    /\ UNCHANGED <<rows, api, queue, seen, amount, wallet, counters, gone,
                   tally, attempt>>

\* update_auto_swap_count: one more than was read, if the row is still there.
UpdateCount ==
    /\ sweepPc = "count"
    /\ count' = IF auto \in rows THEN [count EXCEPT ![auto] = seen + 1]
                                 ELSE count
    /\ sweepPc' = "wait" /\ auto' = NoAuto /\ swap' = NoSwap
    /\ UNCHANGED <<rows, api, queue, seen, amount, wallet, counters, gone,
                   tally, attempt>>

ListenerStep ==
    \/ ListenerGet \/ NoRow \/ ReadBalance \/ SweepIsSkipped \/ SweepGoesOn
    \/ SweepRaises \/ ListenerRestart \/ SweepAtBoltz \/ SweepExecuted
    \/ UpdateCount
    \/ \E a \in Autos : ReadRow(a)
    \/ \E s \in Swaps : SweepStored(s)

-----------------------------------------------------------------------------
\* Where a sweep awaits before there is a task that pays for it.
SweepAwaits == {"row", "wallet", "client", "create", "insert", "execute"}

\* What a new listener starts from: a new queue and no sweep under way.  The
\* count of a sweep that was stored and not yet counted is lost.
ListenerAnew ==
    /\ restarts < MaxRestarts
    /\ restarts' = restarts + 1
    /\ queue' = 0
    /\ sweepPc' = "wait" /\ auto' = NoAuto /\ swap' = NoSwap
    /\ lost' = IF sweepPc \in {"execute", "count"}
               THEN [lost EXCEPT ![auto] = @ + 1] ELSE lost
    /\ attempt' = IF sweepPc \in SweepAwaits THEN "givenUp" ELSE attempt
    /\ UNCHANGED <<database, seen, amount, balance, sum, received, spent,
                   gone, made>>

\* boltz_stop and boltz_start: the paying tasks and the requests go on.
Deactivated == ListenerAnew /\ UNCHANGED <<api, pay>>

\* The process dies and is started again: so do they, and what was not sent
\* never is; what was sent is still held.
Crash ==
    /\ ListenerAnew
    /\ api' = [a \in Autos |-> IF api[a] = "idle" THEN "idle" ELSE "done"]
    /\ pay' = [s \in Swaps |-> IF pay[s] = "calling" THEN "unsent" ELSE pay[s]]

Next ==
    \/ \E a \in Autos :
          AutoAllowed(a) \/ AutoRefused(a) \/ AutoCreate(a) \/ AutoDelete(a)
    \/ \E n \in Payments : Receive(n) \/ Spend(n)
    \/ \E s \in Swaps :
          \/ SweepIsSent(s) \/ SweepIsRefused(s) \/ SweepBounces(s)
          \/ \E fee \in 0..Reserve(sum[s]) : SweepSettles(s, fee)
    \/ ListenerStep
    \/ Deactivated \/ Crash

Spec == Init /\ [][Next]_vars

\* The event loop runs the listener and the paying tasks, and what they wait
\* for answers; payments do not have to come in, to settle or to bounce.
SweepFairness(s) == WF_vars(SweepIsSent(s) \/ SweepIsRefused(s))
SweepsFairness == \A s \in Swaps : SweepFairness(s)

Fairness == WF_vars(ListenerStep) /\ SweepsFairness

FairSpec == Spec /\ Fairness

-----------------------------------------------------------------------------
(***************************************************************************)
(* What the sweep promises.                                                *)
(***************************************************************************)

\* But for what has left the wallet since the sweep looked at the balance, its
\* payment can be made and leaves the balance to keep: the reserve taken off
\* for all of the balance covers what LNbits holds back for the smaller amount
\* that is sent, and payments that settle or bounce meanwhile only add to it.
SweepKeepsBalance ==
    \A s \in Swaps :
        pay[s] = "calling" =>
            sum[s] + Reserve(sum[s]) + Keep <= balance + gone[s]

\* The sweep of a that is stored and not counted yet.
Uncounted(a) == IF sweepPc \in {"execute", "count"} /\ auto = a THEN 1 ELSE 0

\* The count of a row is the number of sweeps stored for it, but for the one
\* under way and those whose count a restart cut off: writing a count read
\* several awaits ago loses none, whatever the requests do.
CountIsSweeps ==
    \A a \in rows : count[a] + lost[a] + Uncounted(a) = made[a]

\* The sweeps that have been stored, and those LNbits was asked to pay.
Stored == {s \in Swaps : pay[s] # "none"}
Asked == {s \in Swaps : pay[s] \in {"held", "settled", "bounced", "unsent"}}

SurplusSwept(stored) ==
    (/\ sweepPc = "row" /\ rows # {} /\ Surplus >= Amount
     /\ Stored = stored)
        ~> (\/ Asked \ stored # {} \/ Surplus < Amount
            \/ rows = {} \/ attempt = "givenUp")

\* A surplus the listener is told of is swept: when it takes the payment that
\* makes one up, LNbits is asked to pay for a sweep that was not stored before,
\* or the surplus or the row is gone first, unless this very sweep is skipped,
\* dropped by an exception or cut off by a restart.  (LNbits refuses it only
\* as SweepKeepsBalance says.  A notice that is still queued when the listener
\* ends or the extension is stopped is lost.)
NoticedSurplusIsSwept == \A stored \in SUBSET Swaps : SurplusSwept(stored)

-----------------------------------------------------------------------------
(***************************************************************************)
(* What the documentation says and the code does not do.                   *)
(***************************************************************************)

\* _autoReverseSwapDialog.html:78: the "minimum Lightning balance to keep in
\* your wallet after each automatic cash out".
EverySweepKeepsBalance ==
    [][\A s \in Swaps : SweepIsSent(s) => balance' >= Keep]_vars

\* views_api.py:335: "only 1 swap per wallet possible".
OneAutoPerWallet == \A a, b \in rows : a = b

=============================================================================
