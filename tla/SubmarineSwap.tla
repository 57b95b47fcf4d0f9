--------------------------- MODULE SubmarineSwap ---------------------------
(***************************************************************************)
(* Normal (submarine) swaps, onchain -> lightning: the request that        *)
(* creates one (views_api.py), the listener that hears of paid invoices    *)
(* and the check that runs once at startup (tasks.py), the refund request  *)
(* (views_api.py, boltz_client/boltz.py), and the row they all write       *)
(* (crud.py).                                                              *)
(*                                                                         *)
(* The program is one asyncio event loop.  A step of a task is the code    *)
(* between two awaits that leave the process (the database, the LNbits     *)
(* core, Boltz's HTTP API, a sleep, a queue), so that every step below     *)
(* acts on what an earlier one read.  LNbits, Boltz, the chain and the     *)
(* user are the environment.                                               *)
(***************************************************************************)
EXTENDS Integers, Sequences, FiniteSets

CONSTANTS
    Swaps,          \* submarine swaps, one create request each
    NoSwap,         \* no swap; in the queue: a payment that is not boltz's
    Requests,       \* refund requests the server may serve at one time
    Faults,         \* the failures that may happen, see FaultKinds
    MaxCrashes,     \* bound: how often the process may die
    MaxStops,       \* bound: how often the extension may be deactivated
    MaxOthers       \* bound: payments to the wallet that are not boltz's

FaultKinds ==
    { "read",       \* the startup read of the pending rows raises
      "status",     \* check_transaction_status raises
      "api",        \* a request to Boltz raises BoltzApiException
      "notfound",   \* a request to Boltz answers 404
      "answer",     \* its answer has no lockup a refund can be built from
      "write",      \* the UPDATE of a row raises
      "auto",       \* check_for_auto_swap raises
      "lost" }      \* Boltz broadcasts, its answer does not arrive

ASSUME FaultsAssumption == Faults \subseteq FaultKinds
ASSUME NoSwapAssumption == NoSwap \notin Swaps
ASSUME BoundsAssumption ==
    MaxCrashes \in Nat /\ MaxStops \in Nat /\ MaxOthers \in Nat

VARIABLES
    \* The database: they survive a crash.
    row,            \* row[s]: status column of boltz.submarineswap
    auto,           \* is there an auto reverse swap on the wallet
    \* The process.
    mode,           \* "up", "stopped" (extension deactivated) or "down"
    api,            \* api[s]: where the create request of s awaits
    queue,          \* paid invoices put in the listener's asyncio.Queue
    listener,       \* where wait_for_paid_invoices awaits
    current,        \* the payment on_invoice_paid is handling
    checkPc,        \* where check_for_pending_swaps awaits
    checking,       \* the swap check_swap is handling
    todo,           \* the rows of its snapshot it has not come to
    refundPc,       \* refundPc[r]: where refund request r awaits
    refundOf,       \* refundOf[r]: the swap it refunds
    \* The world.
    invoice,        \* invoice[s]: the lightning invoice Boltz has to pay
    onchain,        \* onchain[s]: the coins sent to the swap's address
    expired,        \* swaps whose timeout_block_height was reached
    crashes, stops, others,     \* counters for the bounds
    \* History, read by no action.
    notFound,       \* swaps the startup check got a 404 for
    missed          \* paid swaps whose notice this process dropped

database == <<row, auto>>
listening == <<queue, listener, current>>
checker == <<checkPc, checking, todo>>
refunds == <<refundPc, refundOf>>
world == <<invoice, onchain, expired>>
counters == <<crashes, stops, others>>
history == <<notFound, missed>>
vars == <<database, mode, api, listening, checker, refunds, world, counters,
          history>>

Settled == {"complete", "refunded", "failed"}
Payments == Swaps \cup {NoSwap}

TypeOK ==
    /\ row \in [Swaps -> Settled \cup {"none", "pending"}]
    /\ auto \in BOOLEAN
    /\ mode \in {"up", "stopped", "down"}
    /\ api \in [Swaps -> {"idle", "allowed", "invoiced", "accepted", "done"}]
    /\ queue \in Seq(Payments)
    /\ listener \in {"off", "wait", "auto", "update", "sleep"}
    /\ current \in Payments
    /\ checkPc \in {"off", "read", "next", "status", "complete", "client",
                    "failed"}
    /\ checking \in Payments
    /\ todo \subseteq Swaps
    /\ refundPc \in [Requests -> {"idle", "client", "waitTx", "broadcast",
                                  "mark"}]
    /\ refundOf \in [Requests -> Payments]
    /\ invoice \in [Swaps -> {"none", "open", "paid"}]
    /\ onchain \in [Swaps -> {"none", "locked", "short", "claimed",
                              "refunded"}]
    /\ expired \subseteq Swaps
    /\ crashes \in Nat /\ stops \in Nat /\ others \in Nat
    /\ notFound \subseteq Swaps
    /\ missed \subseteq Swaps

\* An empty database, the extension just started by boltz_start.
Init ==
    /\ row = [s \in Swaps |-> "none"]
    /\ auto = FALSE
    /\ mode = "up"
    /\ api = [s \in Swaps |-> "idle"]
    /\ queue = <<>> /\ listener = "wait" /\ current = NoSwap
    /\ checkPc = "read" /\ checking = NoSwap /\ todo = {}
    /\ refundPc = [r \in Requests |-> "idle"]
    /\ refundOf = [r \in Requests |-> NoSwap]
    /\ invoice = [s \in Swaps |-> "none"]
    /\ onchain = [s \in Swaps |-> "none"]
    /\ expired = {}
    /\ crashes = 0 /\ stops = 0 /\ others = 0
    /\ notFound = {} /\ missed = {}

\* update_swap_status: whatever the row says by now, it is overwritten; a
\* row that is not there is left alone.
UpdateSwapStatus(s, status) ==
    row' = [row EXCEPT ![s] = IF @ = "none" THEN @ ELSE status]

\* The listener has been, or will be, told of the payment.
Noticed(s) ==
    \/ \E i \in 1..Len(queue) : queue[i] = s
    \/ current = s /\ listener \in {"auto", "update"}

\* Those only the startup check could still tell of.
PaidUnnoticed(swaps) == {s \in swaps : invoice[s] = "paid" /\ ~Noticed(s)}

-----------------------------------------------------------------------------
(***************************************************************************)
(* POST /swap: api_submarineswap_create.                                   *)
(***************************************************************************)

\* The wallet has no auto reverse swap: the request goes on to look at the
\* address, the settings and Boltz's fees.
CreateAllowed(s) ==
    /\ mode = "up" /\ api[s] = "idle"
    /\ ~auto
    /\ api' = [api EXCEPT ![s] = "allowed"]
    /\ UNCHANGED <<database, mode, listening, checker, refunds, world,
                   counters, history>>

\* The wallet has one: 405.
CreateRefused(s) ==
    /\ mode = "up" /\ api[s] = "idle"
    /\ auto
    /\ api' = [api EXCEPT ![s] = "done"]
    /\ UNCHANGED <<database, mode, listening, checker, refunds, world,
                   counters, history>>

\* LNbits creates the invoice Boltz will have to pay.
CreateInvoice(s) ==
    /\ api[s] = "allowed"
    /\ api' = [api EXCEPT ![s] = "invoiced"]
    /\ invoice' = [invoice EXCEPT ![s] = "open"]
    /\ UNCHANGED <<database, mode, listening, checker, refunds, onchain,
                   expired, counters, history>>

\* Boltz accepts the invoice and hands out a lockup address.
CreateAtBoltz(s) ==
    /\ api[s] = "invoiced"
    /\ api' = [api EXCEPT ![s] = "accepted"]
    /\ UNCHANGED <<database, mode, listening, checker, refunds, world,
                   counters, history>>

\* The row is inserted and the address returned to the user.
CreateRow(s) ==
    /\ api[s] = "accepted"
    /\ api' = [api EXCEPT ![s] = "done"]
    /\ row' = [row EXCEPT ![s] = "pending"]
    /\ UNCHANGED <<auto, mode, listening, checker, refunds, world, counters,
                   history>>

\* The request raises: a bad address, Boltz unreachable or refusing the
\* invoice; or, once Boltz has accepted it, a row its own model rejects
\* (feerate left out of the request), which leaves a swap only Boltz knows.
CreateRaises(s) ==
    /\ api[s] \in {"allowed", "invoiced", "accepted"}
    /\ api' = [api EXCEPT ![s] = "done"]
    /\ UNCHANGED <<database, mode, listening, checker, refunds, world,
                   counters, history>>

\* POST and DELETE /swap/reverse/auto, of which only the presence of a row
\* for the wallet matters here.
ToggleAuto ==
    /\ mode = "up"
    /\ auto' = ~auto
    /\ UNCHANGED <<row, mode, api, listening, checker, refunds, world,
                   counters, history>>

-----------------------------------------------------------------------------
(***************************************************************************)
(* The world.  The user learns the address only from the row.              *)
(***************************************************************************)

\* The user sends coins to the swap's address, or too few of them.
Fund(s, coins) ==
    /\ row[s] # "none" /\ onchain[s] = "none"
    /\ onchain' = [onchain EXCEPT ![s] = coins]
    /\ UNCHANGED <<database, mode, api, listening, checker, refunds, invoice,
                   expired, counters, history>>

\* The chain reaches the timeout.  Boltz, which has the preimage once it has
\* paid, claims its coins before that.
Expire(s) ==
    /\ row[s] # "none" /\ s \notin expired
    /\ ~(invoice[s] = "paid" /\ onchain[s] = "locked")
    /\ expired' = expired \cup {s}
    /\ UNCHANGED <<database, mode, api, listening, checker, refunds, invoice,
                   onchain, counters, history>>

\* LNbits puts a paid invoice in the queue the listener registered; the
\* queue outlives the listener as long as the process does.
Notify(payment) ==
    queue' = IF mode = "down" THEN queue ELSE Append(queue, payment)

\* Boltz pays the invoice: the coins are there and the timeout is not.  The
\* lightning node may well be up while LNbits is not.
BoltzPays(s) ==
    /\ onchain[s] = "locked" /\ s \notin expired /\ invoice[s] = "open"
    /\ invoice' = [invoice EXCEPT ![s] = "paid"]
    /\ Notify(s)
    /\ UNCHANGED <<database, mode, api, listener, current, checker, refunds,
                   onchain, expired, counters, history>>

\* With the preimage it paid for, Boltz claims the coins.
BoltzClaims(s) ==
    /\ onchain[s] = "locked" /\ invoice[s] = "paid"
    /\ onchain' = [onchain EXCEPT ![s] = "claimed"]
    /\ UNCHANGED <<database, mode, api, listening, checker, refunds, invoice,
                   expired, counters, history>>

\* Someone pays an invoice of the wallet that has nothing to do with boltz.
OtherPayment ==
    /\ mode # "down" /\ others < MaxOthers
    /\ others' = others + 1
    /\ Notify(NoSwap)
    /\ UNCHANGED <<database, mode, api, listener, current, checker, refunds,
                   world, crashes, stops, history>>

-----------------------------------------------------------------------------
(***************************************************************************)
(* wait_for_paid_invoices and on_invoice_paid, a permanent task of LNbits. *)
(***************************************************************************)

ListenerGet ==
    /\ listener = "wait" /\ queue # <<>>
    /\ current' = Head(queue)
    /\ queue' = Tail(queue)
    /\ listener' = "auto"
    /\ UNCHANGED <<database, mode, api, checker, refunds, world, counters,
                   history>>

\* Mutant: a payment that triggers the auto sweep is taken as handled.
AutoCheckReturnsEarly ==
    /\ listener = "auto"
    /\ \/ /\ current = NoSwap \/ auto
          /\ listener' = "wait" /\ current' = NoSwap
       \/ /\ current # NoSwap /\ ~auto
          /\ listener' = "update" /\ UNCHANGED current
    /\ UNCHANGED <<database, mode, api, queue, checker, refunds, world,
                   counters, history>>

\* check_for_auto_swap returns, with or without a sweep: only a boltz
\* payment is looked at any further.
AutoCheckReturns ==
    /\ listener = "auto"
    /\ \/ /\ current = NoSwap
          /\ listener' = "wait" /\ UNCHANGED current
       \/ /\ current # NoSwap
          /\ listener' = "update" /\ UNCHANGED current
    /\ UNCHANGED <<database, mode, api, queue, checker, refunds, world,
                   counters, history>>

\* check_for_auto_swap raises (Boltz refuses the sweep, the amount is out of
\* its limits): nothing in the listener catches it, the payment is dropped
\* and LNbits sleeps before it runs the permanent task again.
AutoCheckRaises ==
    /\ "auto" \in Faults /\ auto
    /\ listener = "auto"
    /\ listener' = "sleep" /\ current' = NoSwap
    /\ missed' = missed \cup (Swaps \cap {current})
    /\ UNCHANGED <<database, mode, api, queue, checker, refunds, world,
                   counters, notFound>>

\* Mutant: the listener writes a status no one else knows.
ListenerUpdatePaid ==
    /\ listener = "update"
    /\ UpdateSwapStatus(current, "paid")
    /\ listener' = "wait" /\ current' = NoSwap
    /\ UNCHANGED <<auto, mode, api, queue, checker, refunds, world, counters,
                   history>>

\* The paid swap is found by its swap_id and marked complete.
ListenerUpdate ==
    /\ listener = "update"
    /\ UpdateSwapStatus(current, "complete")
    /\ listener' = "wait" /\ current' = NoSwap
    /\ UNCHANGED <<auto, mode, api, queue, checker, refunds, world, counters,
                   history>>

\* The UPDATE raises: the listener ends as it does for the auto sweep.
ListenerUpdateRaises ==
    /\ "write" \in Faults
    /\ listener = "update"
    /\ listener' = "sleep" /\ current' = NoSwap
    /\ missed' = missed \cup {current}
    /\ UNCHANGED <<database, mode, api, queue, checker, refunds, world,
                   counters, notFound>>

\* The permanent task starts over: it registers a new queue, what was put in
\* the old one is gone.
ListenerRestart ==
    /\ listener = "sleep"
    /\ listener' = "wait"
    /\ queue' = <<>>
    /\ missed' = missed \cup {s \in Swaps :
                                  \E i \in 1..Len(queue) : queue[i] = s}
    /\ UNCHANGED <<database, mode, api, current, checker, refunds, world,
                   counters, notFound>>

ListenerStep ==
    \/ ListenerGet \/ AutoCheckReturns \/ AutoCheckRaises
    \/ ListenerUpdate \/ ListenerUpdateRaises \/ ListenerRestart

-----------------------------------------------------------------------------
(***************************************************************************)
(* check_for_pending_swaps and check_swap, once for every boltz_start.     *)
(***************************************************************************)

\* Both kinds of rows are read; the normal swaps are gone through first.
CheckRead ==
    /\ checkPc = "read"
    /\ todo' = {s \in Swaps : row[s] = "pending"}
    /\ checkPc' = "next"
    /\ UNCHANGED <<database, mode, api, listening, checking, refunds, world,
                   counters, history>>

\* The read raises: "database is not created yet, do nothing".
CheckReadRaises ==
    /\ "read" \in Faults
    /\ checkPc = "read"
    /\ checkPc' = "off"
    /\ missed' = missed \cup PaidUnnoticed(Swaps)
    /\ UNCHANGED <<database, mode, api, listening, checking, todo, refunds,
                   world, counters, notFound>>

\* Mutant: the loop does not advance.
CheckNextAgain(s) ==
    /\ checkPc = "next" /\ s \in todo
    /\ checking' = s
    /\ checkPc' = "status"
    /\ UNCHANGED <<database, mode, api, listening, todo, refunds, world,
                   counters, history>>

\* check_swap starts on a row of the snapshot and asks LNbits about its
\* invoice.
CheckNext(s) ==
    /\ checkPc = "next" /\ s \in todo
    /\ checking' = s
    /\ todo' = todo \ {s}
    /\ checkPc' = "status"
    /\ UNCHANGED <<database, mode, api, listening, refunds, world, counters,
                   history>>

CheckEnd ==
    /\ checkPc = "next" /\ todo = {}
    /\ checkPc' = "off"
    /\ UNCHANGED <<database, mode, api, listening, checking, todo, refunds,
                   world, counters, history>>

\* The invoice is paid: complete.  It is not: a client is created, which
\* first reads Boltz's pairs.
CheckStatus ==
    /\ checkPc = "status"
    /\ \/ /\ invoice[checking] = "paid"
          /\ checkPc' = "complete"
       \/ /\ invoice[checking] # "paid"
          /\ checkPc' = "client"
    /\ UNCHANGED <<database, mode, api, listening, checking, todo, refunds,
                   world, counters, history>>

\* check_transaction_status raises, or the UPDATE to complete: logged, the row
\* is left for the next startup.
CheckSwapRaises ==
    /\ \/ "status" \in Faults /\ checkPc = "status"
       \/ "write" \in Faults /\ checkPc = "complete"
    /\ checkPc' = "next" /\ checking' = NoSwap
    /\ missed' = missed \cup PaidUnnoticed({checking})
    /\ UNCHANGED <<database, mode, api, listening, todo, refunds, world,
                   counters, notFound>>

CheckComplete ==
    /\ checkPc = "complete"
    /\ UpdateSwapStatus(checking, "complete")
    /\ checkPc' = "next" /\ checking' = NoSwap
    /\ UNCHANGED <<auto, mode, api, listening, todo, refunds, world, counters,
                   history>>

\* Mutant: Boltz being unreachable is taken for a failure of the swap.
CheckClientFails ==
    /\ checkPc = "client"
    /\ checkPc' = "failed"
    /\ UNCHANGED <<database, mode, api, listening, checking, todo, refunds,
                   world, counters, history>>

\* The client is there, or creating it raised what is only logged.  With a
\* client, swap_status is called and not awaited: the coroutine is dropped,
\* nothing is raised, and the refund in the except branch is never reached.
CheckClient ==
    /\ checkPc = "client"
    /\ checkPc' = "next" /\ checking' = NoSwap
    /\ UNCHANGED <<database, mode, api, listening, todo, refunds, world,
                   counters, history>>

\* Creating the client answers 404.
CheckNotFound ==
    /\ "notfound" \in Faults
    /\ checkPc = "client"
    /\ checkPc' = "failed"
    /\ notFound' = notFound \cup {checking}
    /\ UNCHANGED <<database, mode, api, listening, checking, todo, refunds,
                   world, counters, missed>>

CheckFailed ==
    /\ checkPc = "failed"
    /\ UpdateSwapStatus(checking, "failed")
    /\ checkPc' = "next" /\ checking' = NoSwap
    /\ UNCHANGED <<auto, mode, api, listening, todo, refunds, world, counters,
                   history>>

\* The UPDATE to failed raises where nothing catches it: the check ends, and
\* the rest of its rows with it.
CheckFailedRaises ==
    /\ "write" \in Faults
    /\ checkPc = "failed"
    /\ checkPc' = "off" /\ checking' = NoSwap /\ todo' = {}
    /\ missed' = missed \cup PaidUnnoticed(todo)
    /\ UNCHANGED <<database, mode, api, listening, refunds, world, counters,
                   notFound>>

CheckStep ==
    \/ CheckRead \/ CheckReadRaises \/ CheckEnd
    \/ \E s \in Swaps : CheckNext(s)
    \/ CheckStatus \/ CheckSwapRaises \/ CheckComplete
    \/ CheckClient \/ CheckNotFound \/ CheckFailed \/ CheckFailedRaises

-----------------------------------------------------------------------------
(***************************************************************************)
(* POST /swap/refund: api_submarineswap_refund and BoltzClient.refund_swap *)
(***************************************************************************)

\* The row is pending now; everything after works on this read.
RefundRequest(r, s) ==
    /\ mode = "up" /\ refundPc[r] = "idle"
    /\ row[s] = "pending"
    /\ refundPc' = [refundPc EXCEPT ![r] = "client"]
    /\ refundOf' = [refundOf EXCEPT ![r] = s]
    /\ UNCHANGED <<database, mode, api, listening, checker, world, counters,
                   history>>

RefundClient(r) ==
    /\ refundPc[r] = "client"
    /\ refundPc' = [refundPc EXCEPT ![r] = "waitTx"]
    /\ UNCHANGED <<database, mode, api, listening, checker, refundOf, world,
                   counters, history>>

\* Mutant: the row is marked as soon as the transaction is built.
RefundTxMarks(r) ==
    /\ refundPc[r] = "waitTx"
    /\ onchain[refundOf[r]] # "none"
    /\ refundPc' = [refundPc EXCEPT ![r] = "mark"]
    /\ UNCHANGED <<database, mode, api, listening, checker, refundOf, world,
                   counters, history>>

\* Mutant: only a full lockup is refunded.
RefundTxFullOnly(r) ==
    /\ refundPc[r] = "waitTx"
    /\ onchain[refundOf[r]] \notin {"none", "short"}
    /\ refundPc' = [refundPc EXCEPT ![r] = "broadcast"]
    /\ UNCHANGED <<database, mode, api, listening, checker, refundOf, world,
                   counters, history>>

\* wait_for_tx asks every three seconds, for ever, until Boltz has seen a
\* lockup transaction; then the refund transaction is built and posted.
RefundTx(r) ==
    /\ refundPc[r] = "waitTx"
    /\ onchain[refundOf[r]] # "none"
    /\ refundPc' = [refundPc EXCEPT ![r] = "broadcast"]
    /\ UNCHANGED <<database, mode, api, listening, checker, refundOf, world,
                   counters, history>>

\* Mutant: the answer to the broadcast is not awaited.
RefundBroadcastUnawaited(r) ==
    /\ refundPc[r] = "broadcast"
    /\ refundPc' = [refundPc EXCEPT ![r] = "mark"]
    /\ UNCHANGED <<database, mode, api, listening, checker, refundOf, world,
                   counters, history>>

\* The chain takes the transaction, whose locktime is the swap's timeout, if
\* that is reached and the coins are still there.  The very same transaction
\* sent again while the first is in the mempool is taken again.
RefundBroadcast(r) ==
    /\ refundPc[r] = "broadcast"
    /\ refundOf[r] \in expired
    /\ onchain[refundOf[r]] \in {"locked", "short", "refunded"}
    /\ onchain' = [onchain EXCEPT ![refundOf[r]] = "refunded"]
    /\ refundPc' = [refundPc EXCEPT ![r] = "mark"]
    /\ UNCHANGED <<database, mode, api, listening, checker, refundOf, invoice,
                   expired, counters, history>>

\* The same, but the answer of Boltz is lost: the request ends in a 400 and
\* the row stays pending.
RefundAnswerLost(r) ==
    /\ "lost" \in Faults
    /\ refundPc[r] = "broadcast"
    /\ refundOf[r] \in expired
    /\ onchain[refundOf[r]] \in {"locked", "short", "refunded"}
    /\ onchain' = [onchain EXCEPT ![refundOf[r]] = "refunded"]
    /\ refundPc' = [refundPc EXCEPT ![r] = "idle"]
    /\ refundOf' = [refundOf EXCEPT ![r] = NoSwap]
    /\ UNCHANGED <<database, mode, api, listening, checker, invoice, expired,
                   counters, history>>

\* The chain does not take the transaction (too early, or the coins are
\* spent): 400.
RefundRejected(r) ==
    /\ refundPc[r] = "broadcast"
    /\ \/ refundOf[r] \notin expired
       \/ onchain[refundOf[r]] \in {"claimed", "refunded"}
    /\ refundPc' = [refundPc EXCEPT ![r] = "idle"]
    /\ refundOf' = [refundOf EXCEPT ![r] = NoSwap]
    /\ UNCHANGED <<database, mode, api, listening, checker, world, counters,
                   history>>

\* Boltz cannot be reached when the client is created or the transaction
\* posted, or answers 404, which wait_for_tx does not catch; nor does it catch
\* an answer without a transaction, and one without an output to the swap, or
\* with one that cannot pay the fee, makes no refund; or the UPDATE raises,
\* with the refund on the chain: 400.
RefundRaises(r) ==
    /\ \/ "api" \in Faults /\ refundPc[r] \in {"client", "broadcast"}
       \/ /\ "notfound" \in Faults
          /\ refundPc[r] \in {"client", "waitTx", "broadcast"}
       \/ "answer" \in Faults /\ refundPc[r] = "waitTx"
       \/ "write" \in Faults /\ refundPc[r] = "mark"
    /\ refundPc' = [refundPc EXCEPT ![r] = "idle"]
    /\ refundOf' = [refundOf EXCEPT ![r] = NoSwap]
    /\ UNCHANGED <<database, mode, api, listening, checker, world, counters,
                   history>>

\* The row is marked refunded, whatever it says by now.
RefundMark(r) ==
    /\ refundPc[r] = "mark"
    /\ UpdateSwapStatus(refundOf[r], "refunded")
    /\ refundPc' = [refundPc EXCEPT ![r] = "idle"]
    /\ refundOf' = [refundOf EXCEPT ![r] = NoSwap]
    /\ UNCHANGED <<auto, mode, api, listening, checker, world, counters,
                   history>>

RefundProgress(r) ==
    \/ RefundClient(r) \/ RefundTx(r) \/ RefundBroadcast(r)
    \/ RefundRejected(r) \/ RefundMark(r)

RefundStep(r) ==
    RefundProgress(r) \/ RefundAnswerLost(r) \/ RefundRaises(r)

-----------------------------------------------------------------------------
(***************************************************************************)
(* The life of the process and of the extension in it.                     *)
(***************************************************************************)

\* The process dies: what is in memory is gone, requests included.
Crash ==
    /\ mode # "down" /\ crashes < MaxCrashes
    /\ crashes' = crashes + 1
    /\ mode' = "down"
    /\ api' = [s \in Swaps |-> IF api[s] = "idle" THEN "idle" ELSE "done"]
    /\ queue' = <<>> /\ listener' = "off" /\ current' = NoSwap
    /\ checkPc' = "off" /\ checking' = NoSwap /\ todo' = {}
    /\ refundPc' = [r \in Requests |-> "idle"]
    /\ refundOf' = [r \in Requests |-> NoSwap]
    /\ missed' = {}
    /\ UNCHANGED <<database, world, stops, others, notFound>>

\* boltz_stop cancels the scheduled tasks; requests being served go on, and
\* LNbits keeps the queue.
BoltzStop ==
    /\ mode = "up" /\ stops < MaxStops
    /\ stops' = stops + 1
    /\ mode' = "stopped"
    /\ listener' = "off" /\ current' = NoSwap
    /\ checkPc' = "off" /\ checking' = NoSwap /\ todo' = {}
    /\ missed' = {}
    /\ UNCHANGED <<database, api, queue, refunds, world, crashes, others,
                   notFound>>

\* Mutant: a restarted extension does not look at its pending swaps.
BoltzStartNoCheck ==
    /\ mode # "up"
    /\ mode' = "up"
    /\ listener' = "wait" /\ queue' = <<>>
    /\ UNCHANGED <<database, api, current, checker, refunds, world, counters,
                   history>>

\* boltz_start: the startup check and the listener, with a queue of its own,
\* take their first step before anything they wait for can arrive.
BoltzStart ==
    /\ mode # "up"
    /\ mode' = "up"
    /\ checkPc' = "read"
    /\ listener' = "wait" /\ queue' = <<>>
    /\ UNCHANGED <<database, api, current, checking, todo, refunds, world,
                   counters, history>>

-----------------------------------------------------------------------------
Next ==
    \/ \E s \in Swaps :
          \/ CreateAllowed(s) \/ CreateRefused(s) \/ CreateInvoice(s)
          \/ CreateAtBoltz(s) \/ CreateRow(s) \/ CreateRaises(s)
          \/ \E coins \in {"locked", "short"} : Fund(s, coins)
          \/ Expire(s) \/ BoltzPays(s) \/ BoltzClaims(s)
    \/ ToggleAuto \/ OtherPayment
    \/ ListenerStep
    \/ CheckStep
    \/ \E r \in Requests :
          \/ \E s \in Swaps : RefundRequest(r, s)
          \/ RefundStep(r)
    \/ Crash \/ BoltzStop \/ BoltzStart

Spec == Init /\ [][Next]_vars

\* The event loop runs every task that can take a step, and every await of
\* the listener, of the check and of a refund that has an answer gets it.
\* No fault has to happen: each await of the first two has an answer beside
\* its faults; a refund that waits for the lockup may have none.  Nothing
\* makes the user, Boltz, or the operator act.
RefundFairness(r) == WF_vars(RefundProgress(r))
RefundsFairness == \A r \in Requests : RefundFairness(r)

Fairness == WF_vars(ListenerStep) /\ WF_vars(CheckStep) /\ RefundsFairness

FairSpec == Spec /\ Fairness

-----------------------------------------------------------------------------
(***************************************************************************)
(* What the rows say.                                                      *)
(***************************************************************************)

\* The outcomes the world has given evidence of.
Evidence(s) ==
    {o \in Settled :
        \/ o = "complete" /\ invoice[s] = "paid"
        \/ o = "refunded" /\ onchain[s] = "refunded"
        \/ o = "failed" /\ s \in notFound}

Record == INSTANCE SwapRecord
    WITH status <- row, evidence <- [s \in Swaps |-> Evidence(s)]

\* A row is complete only if the swap's invoice was paid, refunded only if its
\* refund is on the chain, failed only if Boltz answered 404, whichever of the
\* listener, the startup check and the refund requests wrote it and however
\* old what they had read was.
RowsAreJustified == Record!Spec

\* Unless the startup check had a 404 for the swap, no task ever overwrites
\* a row another one has settled: what a refund request or the check read
\* before it waited cannot undo what was decided meanwhile.
SettledIsFinal ==
    [][\A s \in Swaps :
          row[s] \in Settled /\ s \notin notFound => row'[s] = row[s]]_vars

\* The startup check will find the payment, or has found it.
WillBeChecked(s) ==
    \/ checkPc = "read"
    \/ checkPc \in {"next", "status", "complete", "client", "failed"}
       /\ s \in todo
    \/ checkPc \in {"status", "complete"} /\ checking = s

\* While the extension runs, a paid swap that is not complete yet is one the
\* listener or the startup check will complete; the only ones that are not
\* were dropped in this run by the listener (the auto sweep or the UPDATE
\* raised) or, with no notice left, by the startup check (a read, the payment's
\* status or an UPDATE raised).  Between them the queue of the listener and the
\* snapshot of the check leave no gap, over crashes, restarts and payments made
\* while LNbits is down.
NoPaymentForgotten ==
    \A s \in Swaps :
        mode = "up" /\ invoice[s] = "paid" /\ row[s] # "complete" =>
            s \in missed \/ s \in notFound \/ Noticed(s) \/ WillBeChecked(s)

\* A paid swap becomes complete as long as the extension keeps running,
\* unless its notice was dropped or a 404 had its row marked failed (see
\* NoPaymentForgotten).
PaidSwapCompletes ==
    \A s \in Swaps :
        (invoice[s] = "paid" /\ mode = "up") ~>
            (\/ row[s] = "complete" \/ mode # "up"
             \/ s \in missed \/ s \in notFound)

\* The startup check comes to the end of the normal swaps, whatever their
\* state and whatever fails, and so leaves the loop to the reverse swaps.
StartupCheckEnds == (checkPc = "read") ~> (checkPc = "off")

RefundAnswered(r, s) ==
    (refundPc[r] = "waitTx" /\ refundOf[r] = s /\ onchain[s] # "none")
        ~> (refundPc[r] = "idle")

\* A refund request that waits for the lockup transaction is answered once
\* there is one, even one of too few coins.
RefundIsAnswered == \A r \in Requests, s \in Swaps : RefundAnswered(r, s)

-----------------------------------------------------------------------------
(***************************************************************************)
(* What README.md says and the code does not do.                           *)
(***************************************************************************)

\* README.md:66: a swap created, then paid while LNbits is running, "should
\* complete": here without the exception of the dropped notices.
EveryPaidSwapCompletes ==
    \A s \in Swaps :
        (invoice[s] = "paid" /\ mode = "up") ~>
            (row[s] = "complete" \/ mode # "up")

\* README.md:69: a swap that got too few coins and whose timeout was reached
\* while LNbits was down "should be refunded" by the startup check.
UnderpaidSwapIsRefunded ==
    \A s \in Swaps :
        (/\ mode = "up" /\ checkPc = "read"
         /\ row[s] = "pending" /\ onchain[s] = "short" /\ s \in expired)
            ~> (onchain[s] = "refunded" \/ mode # "up")

=============================================================================
