---------------------------- MODULE ReverseSwap ----------------------------
(***************************************************************************)
(* Reverse swaps, lightning -> onchain: the request that creates one       *)
(* (views_api.py), the two tasks it starts, one that pays Boltz's hold     *)
(* invoice and one that waits for Boltz's lockup to claim it (utils.py,    *)
(* boltz_client/boltz.py), and the check that takes the pending rows over  *)
(* after a restart (tasks.py).                                             *)
(*                                                                         *)
(* A step is the code between two awaits that leave the process, as in     *)
(* SubmarineSwap.  The lightning network, Boltz, the chain and the user    *)
(* are the environment: the payment is held until Boltz learns the         *)
(* preimage, which the claim of the lockup reveals.                        *)
(***************************************************************************)
EXTENDS Integers, FiniteSets

CONSTANTS
    Swaps,          \* reverse swaps, one create request each
    NoSwap,         \* the startup check is at no swap
    Instant,        \* the swaps with instant_settlement
    Faults,         \* the failures that may happen, see FaultKinds
    MaxCrashes,     \* bound: how often the process may die
    MaxStops        \* bound: how often the extension may be deactivated

FaultKinds ==
    { "read",       \* the startup read of the pending rows raises
      "api",        \* creating the Boltz client raises
      "notfound",   \* a request to Boltz answers 404
      "claim",      \* a claim raises: a bad address, no output to claim
      "write",      \* update_swap_status raises: the database is locked
      "held" }      \* pay_invoice gives up waiting, the payment still held

ASSUME FaultsAssumption == Faults \subseteq FaultKinds
ASSUME NoSwapAssumption == NoSwap \notin Swaps
ASSUME InstantAssumption == Instant \subseteq Swaps
ASSUME BoundsAssumption == MaxCrashes \in Nat /\ MaxStops \in Nat

VARIABLES
    \* The database.
    row,            \* row[s]: status column of boltz.reverse_submarineswap
    \* The process.
    mode,           \* "up", "stopped" (extension deactivated) or "down"
    api,            \* api[s]: where the create request of s awaits
    claim,          \* claim[s]: the task that waits for the lockup of s
    pay,            \* pay[s]: the task that pays the invoice of s
    checkPc,        \* where check_for_pending_swaps awaits
    checking,       \* the swap check_reverse_swap is handling
    todo,           \* the rows of its snapshot it has not come to
    \* The world.
    htlc,           \* htlc[s]: the payment of the hold invoice
    lockup,         \* lockup[s]: the coins Boltz locked for the user
    crashes, stops, \* counters for the bounds
    \* History, read by no action.
    notFound,       \* swaps the startup check got a 404 for
    assumed,        \* swaps the startup check took for claimed
    unresolved,     \* swaps whose payment was returned while held
    unwritten,      \* swaps whose paying task could not write its outcome
    dropped         \* swaps a task gave up on since the extension started

checker == <<checkPc, checking, todo>>
world == <<htlc, lockup>>
counters == <<crashes, stops>>
history == <<notFound, assumed, unresolved, unwritten, dropped>>
vars == <<row, mode, api, claim, pay, checker, world, counters, history>>

Settled == {"complete", "failed"}

TypeOK ==
    /\ row \in [Swaps -> Settled \cup {"none", "pending"}]
    /\ mode \in {"up", "stopped", "down"}
    /\ api \in [Swaps -> {"idle", "allowed", "accepted", "stored", "done"}]
    /\ claim \in [Swaps -> {"none", "polling", "ended"}]
    /\ pay \in [Swaps -> {"none", "calling", "waiting", "complete", "failed",
                          "done"}]
    /\ checkPc \in {"off", "read", "next", "client", "polling", "complete",
                    "failed"}
    /\ checking \in Swaps \cup {NoSwap}
    /\ todo \subseteq Swaps
    /\ htlc \in [Swaps -> {"none", "held", "settled", "failed"}]
    /\ lockup \in [Swaps -> {"none", "mempool", "confirmed", "claimed",
                             "refunded"}]
    /\ crashes \in Nat /\ stops \in Nat
    /\ notFound \subseteq Swaps /\ assumed \subseteq Swaps
    /\ unresolved \subseteq Swaps /\ unwritten \subseteq Swaps
    /\ dropped \subseteq Swaps

\* An empty database, the extension just started by boltz_start.
Init ==
    /\ row = [s \in Swaps |-> "none"]
    /\ mode = "up"
    /\ api = [s \in Swaps |-> "idle"]
    /\ claim = [s \in Swaps |-> "none"]
    /\ pay = [s \in Swaps |-> "none"]
    /\ checkPc = "read" /\ checking = NoSwap /\ todo = {}
    /\ htlc = [s \in Swaps |-> "none"]
    /\ lockup = [s \in Swaps |-> "none"]
    /\ crashes = 0 /\ stops = 0
    /\ notFound = {} /\ assumed = {} /\ unresolved = {} /\ unwritten = {}
    /\ dropped = {}

\* update_swap_status: whatever the row says by now, it is overwritten; a
\* row that is not there is left alone.
UpdateSwapStatus(s, status) ==
    row' = [row EXCEPT ![s] = IF @ = "none" THEN @ ELSE status]

-----------------------------------------------------------------------------
(***************************************************************************)
(* POST /swap/reverse: api_reverse_submarineswap_create.                   *)
(***************************************************************************)

\* check_balance: the wallet cannot pay the amount and a fee reserve.
CreateRefused(s) ==
    /\ mode = "up" /\ api[s] = "idle"
    /\ api' = [api EXCEPT ![s] = "done"]
    /\ UNCHANGED <<row, mode, claim, pay, checker, world, counters, history>>

\* It can, the address is valid, Boltz's fees are known.
CreateAllowed(s) ==
    /\ mode = "up" /\ api[s] = "idle"
    /\ api' = [api EXCEPT ![s] = "allowed"]
    /\ UNCHANGED <<row, mode, claim, pay, checker, world, counters, history>>

\* Boltz makes a hold invoice for the hash of the preimage; key and preimage
\* are in memory only.
CreateAtBoltz(s) ==
    /\ api[s] = "allowed"
    /\ api' = [api EXCEPT ![s] = "accepted"]
    /\ UNCHANGED <<row, mode, claim, pay, checker, world, counters, history>>

\* The row is inserted, with the claim key and the preimage.
CreateRow(s) ==
    /\ api[s] = "accepted"
    /\ api' = [api EXCEPT ![s] = "stored"]
    /\ row' = [row EXCEPT ![s] = "pending"]
    /\ UNCHANGED <<mode, claim, pay, checker, world, counters, history>>

\* Mutant: the tasks are created as soon as Boltz has accepted the swap.
ExecuteEagerly(s) ==
    /\ api[s] \in {"accepted", "stored"}
    /\ api' = [api EXCEPT ![s] = "done"]
    /\ claim' = [claim EXCEPT ![s] = "polling"]
    /\ pay' = [pay EXCEPT ![s] = "calling"]
    /\ UNCHANGED <<row, mode, checker, world, counters, history>>

\* execute_reverse_swap: both tasks are created and the request returns.
ExecuteReverseSwap(s) ==
    /\ api[s] = "stored"
    /\ api' = [api EXCEPT ![s] = "done"]
    /\ claim' = [claim EXCEPT ![s] = "polling"]
    /\ pay' = [pay EXCEPT ![s] = "calling"]
    /\ UNCHANGED <<row, mode, checker, world, counters, history>>

\* The request raises: a bad address, Boltz unreachable or refusing the
\* amount; or, once Boltz has accepted it, a row its own model rejects
\* (feerate left out of the request).
CreateRaises(s) ==
    /\ api[s] \in {"allowed", "accepted"}
    /\ api' = [api EXCEPT ![s] = "done"]
    /\ UNCHANGED <<row, mode, claim, pay, checker, world, counters, history>>

-----------------------------------------------------------------------------
(***************************************************************************)
(* pay_invoice_and_update_status.                                          *)
(***************************************************************************)

\* pay_invoice has the node send the payment, which Boltz holds.
PaySends(s) ==
    /\ pay[s] = "calling"
    /\ pay' = [pay EXCEPT ![s] = "waiting"]
    /\ htlc' = [htlc EXCEPT ![s] = "held"]
    /\ UNCHANGED <<row, mode, api, claim, checker, lockup, counters, history>>

\* No route, or the balance is gone by now: nothing is sent.
PayRefused(s) ==
    /\ pay[s] = "calling"
    /\ pay' = [pay EXCEPT ![s] = "waiting"]
    /\ htlc' = [htlc EXCEPT ![s] = "failed"]
    /\ UNCHANGED <<row, mode, api, claim, checker, lockup, counters, history>>

\* Mutant: pay_invoice is taken to have paid as soon as it has sent.
PayReturnsEarly(s) ==
    /\ pay[s] = "waiting" /\ htlc[s] \in {"held", "settled"}
    /\ pay' = [pay EXCEPT ![s] = "complete"]
    /\ UNCHANGED <<row, mode, api, claim, checker, world, counters, history>>

PayReturns(s) ==
    /\ pay[s] = "waiting" /\ htlc[s] = "settled"
    /\ pay' = [pay EXCEPT ![s] = "complete"]
    /\ UNCHANGED <<row, mode, api, claim, checker, world, counters, history>>

\* Mutant: a payment that is still pending is taken for one that failed.
PayReturnsHeldFails(s) ==
    /\ "held" \in Faults
    /\ pay[s] = "waiting" /\ htlc[s] = "held"
    /\ pay' = [pay EXCEPT ![s] = "failed"]
    /\ UNCHANGED <<row, mode, api, claim, checker, world, counters, history>>

\* pay_invoice gives up waiting and returns a payment that is still pending;
\* its status is not looked at.
PayReturnsHeld(s) ==
    /\ "held" \in Faults
    /\ pay[s] = "waiting" /\ htlc[s] = "held"
    /\ pay' = [pay EXCEPT ![s] = "complete"]
    /\ unresolved' = unresolved \cup {s}
    /\ UNCHANGED <<row, mode, api, claim, checker, world, counters, notFound,
                   assumed, unwritten, dropped>>

\* Mutant: the task that waits for the lockup is not cancelled.
PayRaisesAlone(s) ==
    /\ pay[s] = "waiting" /\ htlc[s] = "failed"
    /\ pay' = [pay EXCEPT ![s] = "failed"]
    /\ UNCHANGED <<row, mode, api, claim, checker, world, counters, history>>

\* Mutant: the failure ends the task without a word to the database.
PayRaisesSilently(s) ==
    /\ pay[s] = "waiting" /\ htlc[s] = "failed"
    /\ pay' = [pay EXCEPT ![s] = "done"]
    /\ claim' = [claim EXCEPT ![s] = "ended"]
    /\ UNCHANGED <<row, mode, api, checker, world, counters, history>>

\* The payment bounces: the task that waits for the lockup is cancelled.
PayRaises(s) ==
    /\ pay[s] = "waiting" /\ htlc[s] = "failed"
    /\ pay' = [pay EXCEPT ![s] = "failed"]
    /\ claim' = [claim EXCEPT ![s] = "ended"]
    /\ UNCHANGED <<row, mode, api, checker, world, counters, history>>

\* Mutant: the payment's own status is written into the row.
PayMarksSettled(s) ==
    /\ pay[s] = "complete"
    /\ UpdateSwapStatus(s, htlc[s])
    /\ pay' = [pay EXCEPT ![s] = "done"]
    /\ UNCHANGED <<mode, api, claim, checker, world, counters, history>>

PayMarksComplete(s) ==
    /\ pay[s] = "complete"
    /\ UpdateSwapStatus(s, "complete")
    /\ pay' = [pay EXCEPT ![s] = "done"]
    /\ UNCHANGED <<mode, api, claim, checker, world, counters, history>>

\* The update raises in the try block of the payment: the task takes that for
\* a payment that failed, cancels the claim and will mark the row failed.
PayCompleteRaises(s) ==
    /\ "write" \in Faults
    /\ pay[s] = "complete"
    /\ pay' = [pay EXCEPT ![s] = "failed"]
    /\ claim' = [claim EXCEPT ![s] = "ended"]
    /\ unwritten' = unwritten \cup {s}
    /\ UNCHANGED <<row, mode, api, checker, world, counters, notFound, assumed,
                   unresolved, dropped>>

PayMarksFailed(s) ==
    /\ pay[s] = "failed"
    /\ UpdateSwapStatus(s, "failed")
    /\ pay' = [pay EXCEPT ![s] = "done"]
    /\ UNCHANGED <<mode, api, claim, checker, world, counters, history>>

\* This update raises as well: the task ends, the row is as it was.
PayFailedRaises(s) ==
    /\ "write" \in Faults
    /\ pay[s] = "failed"
    /\ pay' = [pay EXCEPT ![s] = "done"]
    /\ unwritten' = unwritten \cup {s}
    /\ dropped' = dropped \cup {s}
    /\ UNCHANGED <<row, mode, api, claim, checker, world, counters, notFound,
                   assumed, unresolved>>

PayProgress(s) ==
    \/ PaySends(s) \/ PayRefused(s) \/ PayReturns(s) \/ PayRaises(s)
    \/ PayMarksComplete(s) \/ PayMarksFailed(s)

PayStep(s) ==
    \/ PayProgress(s)
    \/ PayReturnsHeld(s) \/ PayCompleteRaises(s) \/ PayFailedRaises(s)

-----------------------------------------------------------------------------
(***************************************************************************)
(* claim_reverse_swap, in the task execute_reverse_swap creates.           *)
(***************************************************************************)

\* Mutant: the confirmation is asserted of the instant swaps.
LockupSeenInverted(s) ==
    \/ lockup[s] = "confirmed" /\ s \in Instant
    \/ lockup[s] = "mempool"

\* wait_for_tx_on_status: Boltz tells of the lockup transaction while it is
\* unspent; without instant settlement it has to be confirmed.  Every other
\* answer, a failure of the swap included, is a reason to ask again.
LockupSeen(s) ==
    \/ lockup[s] = "confirmed"
    \/ lockup[s] = "mempool" /\ s \in Instant

\* The claim transaction is built; the coroutine that would post it is
\* returned and nobody awaits it.  The lockup stays where it is.
ClaimSeesLockup(s) ==
    /\ claim[s] = "polling" /\ LockupSeen(s)
    /\ claim' = [claim EXCEPT ![s] = "ended"]
    /\ UNCHANGED <<row, mode, api, pay, checker, world, counters, history>>

\* A 404, which the loop does not catch, or a claim that cannot be built:
\* the task ends, its exception unseen, and the payment goes on.
ClaimRaises(s) ==
    /\ Faults \cap {"notfound", "claim"} # {}
    /\ claim[s] = "polling"
    /\ claim' = [claim EXCEPT ![s] = "ended"]
    /\ UNCHANGED <<row, mode, api, pay, checker, world, counters, history>>

ClaimStep(s) == ClaimSeesLockup(s) \/ ClaimRaises(s)

-----------------------------------------------------------------------------
(***************************************************************************)
(* The world.                                                              *)
(***************************************************************************)

\* Boltz, holding the payment, locks coins for the user.
BoltzLocks(s) ==
    /\ htlc[s] = "held" /\ lockup[s] = "none"
    /\ lockup' = [lockup EXCEPT ![s] = "mempool"]
    /\ UNCHANGED <<row, mode, api, claim, pay, checker, htlc, counters,
                   history>>

LockupConfirms(s) ==
    /\ lockup[s] = "mempool"
    /\ lockup' = [lockup EXCEPT ![s] = "confirmed"]
    /\ UNCHANGED <<row, mode, api, claim, pay, checker, htlc, counters,
                   history>>

\* The timeout is reached: Boltz takes its coins back.
BoltzRefunds(s) ==
    /\ lockup[s] = "confirmed"
    /\ lockup' = [lockup EXCEPT ![s] = "refunded"]
    /\ UNCHANGED <<row, mode, api, claim, pay, checker, htlc, counters,
                   history>>

\* Boltz lets go of a payment it has no coins locked for.
PaymentBounces(s) ==
    /\ htlc[s] = "held" /\ lockup[s] \in {"none", "refunded"}
    /\ htlc' = [htlc EXCEPT ![s] = "failed"]
    /\ UNCHANGED <<row, mode, api, claim, pay, checker, lockup, counters,
                   history>>

\* The user claims by hand, with the key and the preimage of the row.
UserClaims(s) ==
    /\ row[s] # "none" /\ lockup[s] \in {"mempool", "confirmed"}
    /\ lockup' = [lockup EXCEPT ![s] = "claimed"]
    /\ UNCHANGED <<row, mode, api, claim, pay, checker, htlc, counters,
                   history>>

\* Boltz learns the preimage from the claim and settles the payment.
BoltzSettles(s) ==
    /\ htlc[s] = "held" /\ lockup[s] = "claimed"
    /\ htlc' = [htlc EXCEPT ![s] = "settled"]
    /\ UNCHANGED <<row, mode, api, claim, pay, checker, lockup, counters,
                   history>>

-----------------------------------------------------------------------------
(***************************************************************************)
(* check_for_pending_swaps and check_reverse_swap, once for every          *)
(* boltz_start; the normal swaps, gone through first, take it a finite     *)
(* time (SubmarineSwap, StartupCheckEnds).                                 *)
(***************************************************************************)

\* Mutant: the rows are read whatever their status.
CheckReadAll ==
    /\ checkPc = "read"
    /\ todo' = {s \in Swaps : row[s] # "none"}
    /\ checkPc' = "next"
    /\ UNCHANGED <<row, mode, api, claim, pay, checking, world, counters,
                   history>>

CheckRead ==
    /\ checkPc = "read"
    /\ todo' = {s \in Swaps : row[s] = "pending"}
    /\ checkPc' = "next"
    /\ UNCHANGED <<row, mode, api, claim, pay, checking, world, counters,
                   history>>

CheckReadRaises ==
    /\ "read" \in Faults
    /\ checkPc = "read"
    /\ checkPc' = "off"
    /\ dropped' = {s \in Swaps : row[s] = "pending"}
    /\ UNCHANGED <<row, mode, api, claim, pay, checking, todo, world,
                   counters, notFound, assumed, unresolved, unwritten>>

CheckNext(s) ==
    /\ checkPc = "next" /\ s \in todo
    /\ checking' = s
    /\ todo' = todo \ {s}
    /\ checkPc' = "client"
    /\ UNCHANGED <<row, mode, api, claim, pay, world, counters, history>>

CheckEnd ==
    /\ checkPc = "next" /\ todo = {}
    /\ checkPc' = "off"
    /\ UNCHANGED <<row, mode, api, claim, pay, checking, todo, world,
                   counters, history>>

\* The client is there; swap_status is called and not awaited; the claim
\* starts to wait for the lockup.
CheckClient ==
    /\ checkPc = "client"
    /\ checkPc' = "polling"
    /\ UNCHANGED <<row, mode, api, claim, pay, checking, todo, world,
                   counters, history>>

\* As in ClaimSeesLockup nothing is posted, but here the call returns
\* normally and the swap is taken for claimed.
CheckSeesLockup ==
    /\ checkPc = "polling" /\ LockupSeen(checking)
    /\ checkPc' = "complete"
    /\ assumed' = assumed \cup {checking}
    /\ UNCHANGED <<row, mode, api, claim, pay, checking, todo, world,
                   counters, notFound, unresolved, unwritten, dropped>>

CheckComplete ==
    /\ checkPc = "complete"
    /\ UpdateSwapStatus(checking, "complete")
    /\ checkPc' = "next" /\ checking' = NoSwap
    /\ UNCHANGED <<mode, api, claim, pay, todo, world, counters, history>>

\* A 404, from the pairs or from the swap's status.
CheckNotFound ==
    /\ "notfound" \in Faults
    /\ checkPc \in {"client", "polling"}
    /\ checkPc' = "failed"
    /\ notFound' = notFound \cup {checking}
    /\ UNCHANGED <<row, mode, api, claim, pay, checking, todo, world,
                   counters, assumed, unresolved, unwritten, dropped>>

CheckFailed ==
    /\ checkPc = "failed"
    /\ UpdateSwapStatus(checking, "failed")
    /\ checkPc' = "next" /\ checking' = NoSwap
    /\ UNCHANGED <<mode, api, claim, pay, todo, world, counters, history>>

\* Boltz is unreachable when the client is created, the claim cannot be
\* built, or the row not updated: logged, it is left for the next startup.
CheckRaises ==
    /\ \/ "api" \in Faults /\ checkPc = "client"
       \/ "claim" \in Faults /\ checkPc = "polling"
       \/ "write" \in Faults /\ checkPc = "complete"
    /\ checkPc' = "next" /\ checking' = NoSwap
    /\ dropped' = dropped \cup {checking}
    /\ UNCHANGED <<row, mode, api, claim, pay, todo, world, counters,
                   notFound, assumed, unresolved, unwritten>>

\* The update in an except branch raises: nothing catches that, the check
\* ends with the swaps it has left.
CheckFailedRaises ==
    /\ "write" \in Faults
    /\ checkPc = "failed"
    /\ checkPc' = "off" /\ checking' = NoSwap /\ todo' = {}
    /\ dropped' = dropped \cup todo \cup {checking}
    /\ UNCHANGED <<row, mode, api, claim, pay, world, counters, notFound,
                   assumed, unresolved, unwritten>>

CheckProgress ==
    \/ CheckRead \/ CheckEnd
    \/ \E s \in Swaps : CheckNext(s)
    \/ CheckClient \/ CheckSeesLockup \/ CheckComplete \/ CheckFailed

CheckStep ==
    \/ CheckProgress
    \/ CheckReadRaises \/ CheckNotFound \/ CheckRaises \/ CheckFailedRaises

-----------------------------------------------------------------------------
(***************************************************************************)
(* The life of the process and of the extension in it.                     *)
(***************************************************************************)

\* The process dies with its tasks; a payment that was sent is still held.
Crash ==
    /\ mode # "down" /\ crashes < MaxCrashes
    /\ crashes' = crashes + 1
    /\ mode' = "down"
    /\ api' = [s \in Swaps |-> IF api[s] = "idle" THEN "idle" ELSE "done"]
    /\ claim' = [s \in Swaps |-> "none"]
    /\ pay' = [s \in Swaps |-> "none"]
    /\ checkPc' = "off" /\ checking' = NoSwap /\ todo' = {}
    /\ UNCHANGED <<row, world, stops, history>>

\* boltz_stop cancels the scheduled check; requests being served and the
\* tasks of execute_reverse_swap are not among the scheduled tasks.
BoltzStop ==
    /\ mode = "up" /\ stops < MaxStops
    /\ stops' = stops + 1
    /\ mode' = "stopped"
    /\ checkPc' = "off" /\ checking' = NoSwap /\ todo' = {}
    /\ UNCHANGED <<row, api, claim, pay, world, crashes, history>>

\* Mutant: a restarted extension does not look at its pending swaps.
BoltzStartNoCheck ==
    /\ mode # "up"
    /\ mode' = "up"
    /\ dropped' = {}
    /\ UNCHANGED <<row, api, claim, pay, checker, world, counters, notFound,
                   assumed, unresolved, unwritten>>

BoltzStart ==
    /\ mode # "up"
    /\ mode' = "up"
    /\ checkPc' = "read"
    /\ dropped' = {}
    /\ UNCHANGED <<row, api, claim, pay, checking, todo, world, counters,
                   notFound, assumed, unresolved, unwritten>>

-----------------------------------------------------------------------------
Next ==
    \/ \E s \in Swaps :
          \/ CreateAllowed(s) \/ CreateRefused(s) \/ CreateAtBoltz(s)
          \/ CreateRow(s) \/ ExecuteReverseSwap(s) \/ CreateRaises(s)
          \/ PayStep(s) \/ ClaimStep(s)
          \/ BoltzLocks(s) \/ LockupConfirms(s) \/ BoltzRefunds(s)
          \/ PaymentBounces(s) \/ UserClaims(s) \/ BoltzSettles(s)
    \/ CheckStep
    \/ Crash \/ BoltzStop \/ BoltzStart

Spec == Init /\ [][Next]_vars

\* The event loop runs every task that can take a step.  No fault has to
\* happen, and nothing makes the user, Boltz, or the operator act.
PayFairness(s) == WF_vars(PayProgress(s))
PaymentsFairness == \A s \in Swaps : PayFairness(s)
ClaimsFairness == \A s \in Swaps : WF_vars(ClaimSeesLockup(s))

Fairness == WF_vars(CheckProgress) /\ PaymentsFairness /\ ClaimsFairness

FairSpec == Spec /\ Fairness

-----------------------------------------------------------------------------
(***************************************************************************)
(* What the rows say, and what they keep.                                  *)
(***************************************************************************)

\* What the program has been given for an outcome: the payment was settled or
\* bounced, or one of the things it takes for that.
Evidence(s) ==
    {o \in Settled :
        \/ /\ o = "complete"
           /\ htlc[s] = "settled" \/ s \in assumed \/ s \in unresolved
        \/ /\ o = "failed"
           /\ htlc[s] = "failed" \/ s \in notFound \/ s \in unwritten}

Record == INSTANCE SwapRecord
    WITH status <- row, evidence <- [s \in Swaps |-> Evidence(s)]

\* A row is complete only if the payment was settled, or pay_invoice returned
\* with it held, or the startup check saw the lockup; it is failed only if
\* the payment bounced, or Boltz answered 404, or the paying task could not
\* write that the payment was made, which it takes for a failure of the
\* payment: for no other reason does any of the tasks settle a row.
RowsAreJustified == Record!Spec

\* Before the first sat leaves the wallet the row that keeps the preimage and
\* the claim key is in the database, so that a crash at any moment leaves
\* the user able to claim.
PreimageKept ==
    \A s \in Swaps :
        pay[s] # "none" \/ htlc[s] # "none" \/ lockup[s] # "none" =>
            row[s] # "none"

\* The row of s is settled and no task has it in hand or is to come to it.
Closed(s) ==
    /\ row[s] \in Settled /\ api[s] = "done"
    /\ pay[s] \in {"none", "done"}
    /\ s \notin todo /\ checking # s

\* The paying task and a startup check have opposite answers: a payment that
\* was made and a 404; or a lockup, and a payment that bounced all the same or
\* whose outcome could not be written.
AnswersDisagree(s) ==
    \/ s \in notFound /\ (htlc[s] = "settled" \/ s \in unresolved)
    \/ s \in assumed /\ (htlc[s] = "failed" \/ s \in unwritten)

\* A settled row that no task has in hand stays as it is through every crash,
\* deactivation and start; and while tasks that outlived boltz_stop and the
\* next startup check do have it in hand, it gets another outcome only if
\* Boltz and the lightning network gave them opposite answers.
SettledIsFinal ==
    [][\A s \in Swaps :
          /\ Closed(s) => Closed(s)' /\ row'[s] = row[s]
          /\ row[s] \in Settled /\ row'[s] # row[s] => AnswersDisagree(s)]_vars

\* No task asks Boltz for the lockup of a swap it could know to have failed.
\* The one that claims goes on after a bounce only until the paying task
\* notices; that one cannot if pay_invoice returned before.  The startup check,
\* which nobody cancels, goes on with a failed row only if the paying task
\* of this process, having outlived boltz_stop, marked it after the check had
\* read it.
NoStalePoller ==
    \A s \in Swaps :
        /\ claim[s] = "polling" /\ htlc[s] = "failed" =>
               pay[s] = "waiting" \/ s \in unresolved
        /\ checking = s /\ row[s] = "failed" => pay[s] = "done"

\* While the extension runs, some task still cares for every pending row:
\* the request that made it, the task that pays it, or the startup check,
\* unless one of the two tasks gave it up on an exception since the start.
PendingIsWatched ==
    \A s \in Swaps :
        mode = "up" /\ row[s] = "pending" =>
            \/ api[s] = "stored"
            \/ pay[s] \in {"calling", "waiting", "complete", "failed"}
            \/ checkPc = "read" \/ s \in todo \/ checking = s
            \/ s \in dropped

\* A row is complete only when the coins have arrived at the user's address,
\* except for a swap the startup check took for claimed and one whose payment
\* pay_invoice returned while it was held: between the payment, the claim and
\* the row nothing else is taken for success.
CompleteMeansReceived ==
    \A s \in Swaps :
        row[s] = "complete" /\ s \notin assumed \cup unresolved =>
            lockup[s] = "claimed"

BounceRecorded(s) ==
    (pay[s] = "waiting" /\ htlc[s] = "failed")
        ~> (row[s] = "failed" \/ mode = "down" \/ s \in unwritten)

\* A payment that bounces while its task runs gets the row marked failed,
\* unless the database refuses that.
BounceIsRecorded == \A s \in Swaps : BounceRecorded(s)

LockupFound(s) ==
    (/\ mode = "up" /\ checkPc = "read"
     /\ row[s] = "pending" /\ lockup[s] = "confirmed")
        ~> (\/ row[s] # "pending" \/ lockup[s] # "confirmed"
            \/ mode # "up" \/ s \in dropped)

\* README.md:75: a swap whose lockup is confirmed when LNbits starts is found
\* by the startup check, unless Boltz takes the coins back first, the check
\* gives up on an exception or the extension is stopped.  (With another
\* pending swap it is not: reverse_blocked.cfg.)
LockedUpSwapIsFound == \A s \in Swaps : LockupFound(s)

\* README.md:73 and utils.py:46: a swap the program calls complete is claimed.
CompleteMeansClaimed ==
    \A s \in Swaps : row[s] = "complete" => lockup[s] = "claimed"

=============================================================================
