------------------------- MODULE ReverseSwapProofs -------------------------
(***************************************************************************)
(* Theorems about ReverseSwap for every set of swaps, every set of faults  *)
(* and every bound: type correctness, the inductive invariant IInv, and    *)
(* from it PreimageKept, NoStalePoller, PendingIsWatched, SettledIsFinal,  *)
(* CompleteMeansReceived, the implementation of SwapRecord, and what the   *)
(* fairness brings about.                                                  *)
(***************************************************************************)
EXTENDS ReverseSwap, TLAPS

USE DEF checker, world, counters, history

-----------------------------------------------------------------------------
(***************************************************************************)
(* The inductive invariant.                                                *)
(***************************************************************************)

\* The startup check is at a swap exactly when it works on one, and it is
\* off when the extension is.
CheckHasSwap ==
    /\ checkPc \in {"client", "polling", "complete", "failed"} <=>
           checking \in Swaps
    /\ mode # "up" => checkPc = "off"

\* The row comes before the tasks, the tasks before the payment, and the
\* payment before the lockup.
RowsComeFirst ==
    \A s \in Swaps :
        /\ row[s] # "none" => api[s] \in {"stored", "done"}
        /\ api[s] = "stored" => row[s] # "none"
        /\ pay[s] # "none" \/ htlc[s] # "none" =>
               api[s] = "done" /\ row[s] # "none"
        /\ pay[s] = "calling" => htlc[s] = "none"
        /\ lockup[s] # "none" => htlc[s] # "none"

\* What the tasks are about to write is what they were told.
TasksAreRight ==
    /\ \A s \in Swaps :
           /\ pay[s] = "complete" => htlc[s] = "settled" \/ s \in unresolved
           /\ pay[s] = "failed" =>
                  \/ htlc[s] = "failed" /\ s \notin unresolved
                  \/ s \in unwritten
           /\ s \in unresolved \cup unwritten =>
                  htlc[s] # "none" /\ pay[s] \notin {"calling", "waiting"}
    /\ checkPc = "complete" => checking \in assumed
    /\ checkPc = "failed" => checking \in notFound

\* A claim task that still asks for the lockup has a paying task that is not
\* done, or one that did not see the payment bounce.
PollersHavePayers ==
    \A s \in Swaps :
        claim[s] = "polling" =>
            \/ pay[s] \in {"calling", "waiting"}
            \/ htlc[s] = "settled" \/ s \in unresolved

\* What a row says has happened; one the startup check did not settle was
\* settled by the last step of its paying task.
RowsAreRight ==
    \A s \in Swaps :
        /\ row[s] \in Settled => row[s] \in Evidence(s)
        /\ row[s] = "failed" /\ s \notin notFound =>
               /\ pay[s] \in {"done", "none"}
               /\ htlc[s] = "failed" \/ s \in unwritten
        /\ row[s] = "complete" /\ s \notin assumed =>
               /\ pay[s] \in {"done", "none"}
               /\ htlc[s] = "settled" \/ s \in unresolved

\* A row the startup check has in hand was pending when it was read: if it is
\* settled by now, its paying task did that, and with a reason.  The check
\* comes to no swap twice.
HandsAreRight ==
    /\ checking \notin todo
    /\ \A s \in Swaps :
           /\ checking = s \/ s \in todo
           /\ row[s] \in Settled
           => /\ pay[s] = "done"
              /\ row[s] = "complete" =>
                     htlc[s] = "settled" \/ s \in unresolved
              /\ row[s] = "failed" => htlc[s] = "failed" \/ s \in unwritten

IInv ==
    /\ TypeOK
    /\ CheckHasSwap
    /\ RowsComeFirst
    /\ TasksAreRight
    /\ PollersHavePayers
    /\ RowsAreRight
    /\ HandsAreRight

LEMMA InitIInv == Init => IInv
<1> SUFFICES ASSUME Init PROVE IInv
  OBVIOUS
<1>1. TypeOK
  BY DEF Init, TypeOK, Settled
<1>2. CheckHasSwap
  BY NoSwapAssumption DEF Init, CheckHasSwap
<1>3. RowsComeFirst /\ TasksAreRight /\ PollersHavePayers
  BY DEF Init, RowsComeFirst, TasksAreRight, PollersHavePayers
<1>4. RowsAreRight /\ HandsAreRight
  BY DEF Init, RowsAreRight, HandsAreRight, Settled
<1> QED
  BY <1>1, <1>2, <1>3, <1>4 DEF IInv

\* The steps of the create request.
LEMMA CreateKeepsIInv ==
    ASSUME IInv, NEW s \in Swaps,
           \/ CreateAllowed(s)
           \/ CreateRefused(s)
           \/ CreateAtBoltz(s)
           \/ CreateRow(s)
           \/ ExecuteReverseSwap(s)
           \/ CreateRaises(s)
    PROVE  IInv'
<1> USE DEF IInv
<1>1. CASE CreateAllowed(s)
  BY <1>1 DEF CreateAllowed, TypeOK, CheckHasSwap, RowsComeFirst,
     TasksAreRight, PollersHavePayers, RowsAreRight, HandsAreRight,
     Evidence, Settled
<1>2. CASE CreateRefused(s)
  BY <1>2 DEF CreateRefused, TypeOK, CheckHasSwap, RowsComeFirst,
     TasksAreRight, PollersHavePayers, RowsAreRight, HandsAreRight,
     Evidence, Settled
<1>3. CASE CreateAtBoltz(s)
  BY <1>3 DEF CreateAtBoltz, TypeOK, CheckHasSwap, RowsComeFirst,
     TasksAreRight, PollersHavePayers, RowsAreRight, HandsAreRight,
     Evidence, Settled
<1>4. CASE CreateRow(s)
  BY <1>4 DEF CreateRow, TypeOK, CheckHasSwap, RowsComeFirst,
     TasksAreRight, PollersHavePayers, RowsAreRight, HandsAreRight,
     Evidence, Settled
<1>5. CASE ExecuteReverseSwap(s)
  BY <1>5 DEF ExecuteReverseSwap, TypeOK, CheckHasSwap, RowsComeFirst,
     TasksAreRight, PollersHavePayers, RowsAreRight, HandsAreRight,
     Evidence, Settled
<1>6. CASE CreateRaises(s)
  BY <1>6 DEF CreateRaises, TypeOK, CheckHasSwap, RowsComeFirst,
     TasksAreRight, PollersHavePayers, RowsAreRight, HandsAreRight,
     Evidence, Settled
<1> QED
  BY <1>1, <1>2, <1>3, <1>4, <1>5, <1>6

\* The steps of the task that pays.
LEMMA PayKeepsIInv ==
    ASSUME IInv, NEW s \in Swaps,
           PayStep(s)
    PROVE  IInv'
<1> USE DEF IInv
<1>1. CASE PaySends(s)
  BY <1>1 DEF PaySends, TypeOK, CheckHasSwap, RowsComeFirst,
     TasksAreRight, PollersHavePayers, RowsAreRight, HandsAreRight,
     Evidence, Settled
<1>2. CASE PayRefused(s)
  BY <1>2 DEF PayRefused, TypeOK, CheckHasSwap, RowsComeFirst,
     TasksAreRight, PollersHavePayers, RowsAreRight, HandsAreRight,
     Evidence, Settled
<1>3. CASE PayReturns(s)
  BY <1>3 DEF PayReturns, TypeOK, CheckHasSwap, RowsComeFirst,
     TasksAreRight, PollersHavePayers, RowsAreRight, HandsAreRight,
     Evidence, Settled
<1>4. CASE PayReturnsHeld(s)
  BY <1>4 DEF PayReturnsHeld, TypeOK, CheckHasSwap, RowsComeFirst,
     TasksAreRight, PollersHavePayers, RowsAreRight, HandsAreRight,
     Evidence, Settled
<1>5. CASE PayRaises(s)
  BY <1>5 DEF PayRaises, TypeOK, CheckHasSwap, RowsComeFirst,
     TasksAreRight, PollersHavePayers, RowsAreRight, HandsAreRight,
     Evidence, Settled
<1>6. CASE PayMarksComplete(s)
  BY <1>6 DEF PayMarksComplete, UpdateSwapStatus, TypeOK, CheckHasSwap,
     RowsComeFirst,
     TasksAreRight, PollersHavePayers, RowsAreRight, HandsAreRight,
     Evidence, Settled
<1>7. CASE PayMarksFailed(s)
  BY <1>7 DEF PayMarksFailed, UpdateSwapStatus, TypeOK, CheckHasSwap,
     RowsComeFirst,
     TasksAreRight, PollersHavePayers, RowsAreRight, HandsAreRight,
     Evidence, Settled
<1>8. CASE PayCompleteRaises(s)
  BY <1>8 DEF PayCompleteRaises, TypeOK, CheckHasSwap, RowsComeFirst,
     TasksAreRight, PollersHavePayers, RowsAreRight, HandsAreRight,
     Evidence, Settled
<1>9. CASE PayFailedRaises(s)
  BY <1>9 DEF PayFailedRaises, TypeOK, CheckHasSwap, RowsComeFirst,
     TasksAreRight, PollersHavePayers, RowsAreRight, HandsAreRight,
     Evidence, Settled
<1> QED
  BY <1>1, <1>2, <1>3, <1>4, <1>5, <1>6, <1>7, <1>8, <1>9
  DEF PayStep, PayProgress

\* The steps of the task that claims.
LEMMA ClaimKeepsIInv ==
    ASSUME IInv, NEW s \in Swaps,
           ClaimStep(s)
    PROVE  IInv'
<1> USE DEF IInv
<1>1. CASE ClaimSeesLockup(s)
  BY <1>1 DEF ClaimSeesLockup, TypeOK, CheckHasSwap, RowsComeFirst,
     TasksAreRight, PollersHavePayers, RowsAreRight, HandsAreRight,
     Evidence, Settled
<1>2. CASE ClaimRaises(s)
  BY <1>2 DEF ClaimRaises, TypeOK, CheckHasSwap, RowsComeFirst,
     TasksAreRight, PollersHavePayers, RowsAreRight, HandsAreRight,
     Evidence, Settled
<1> QED
  BY <1>1, <1>2 DEF ClaimStep

\* The steps of Boltz, of the chain and of the user.
LEMMA WorldKeepsIInv ==
    ASSUME IInv, NEW s \in Swaps,
           \/ BoltzLocks(s)
           \/ LockupConfirms(s)
           \/ BoltzRefunds(s)
           \/ PaymentBounces(s)
           \/ UserClaims(s)
           \/ BoltzSettles(s)
    PROVE  IInv'
<1> USE DEF IInv
<1>1. CASE BoltzLocks(s)
  BY <1>1 DEF BoltzLocks, TypeOK, CheckHasSwap, RowsComeFirst,
     TasksAreRight, PollersHavePayers, RowsAreRight, HandsAreRight,
     Evidence, Settled
<1>2. CASE LockupConfirms(s)
  BY <1>2 DEF LockupConfirms, TypeOK, CheckHasSwap, RowsComeFirst,
     TasksAreRight, PollersHavePayers, RowsAreRight, HandsAreRight,
     Evidence, Settled
<1>3. CASE BoltzRefunds(s)
  BY <1>3 DEF BoltzRefunds, TypeOK, CheckHasSwap, RowsComeFirst,
     TasksAreRight, PollersHavePayers, RowsAreRight, HandsAreRight,
     Evidence, Settled
<1>4. CASE PaymentBounces(s)
  BY <1>4 DEF PaymentBounces, TypeOK, CheckHasSwap, RowsComeFirst,
     TasksAreRight, PollersHavePayers, RowsAreRight, HandsAreRight,
     Evidence, Settled
<1>5. CASE UserClaims(s)
  BY <1>5 DEF UserClaims, TypeOK, CheckHasSwap, RowsComeFirst,
     TasksAreRight, PollersHavePayers, RowsAreRight, HandsAreRight,
     Evidence, Settled
<1>6. CASE BoltzSettles(s)
  BY <1>6 DEF BoltzSettles, TypeOK, CheckHasSwap, RowsComeFirst,
     TasksAreRight, PollersHavePayers, RowsAreRight, HandsAreRight,
     Evidence, Settled
<1> QED
  BY <1>1, <1>2, <1>3, <1>4, <1>5, <1>6

\* The steps of the startup check.
LEMMA CheckKeepsIInv ==
    ASSUME IInv,
           CheckStep
    PROVE  IInv'
<1> USE DEF IInv
<1>1. CASE CheckRead
  BY <1>1 DEF CheckRead, TypeOK, CheckHasSwap, RowsComeFirst,
     TasksAreRight, PollersHavePayers, RowsAreRight, HandsAreRight,
     Evidence, Settled
<1>2. CASE CheckReadRaises
  BY <1>2 DEF CheckReadRaises, TypeOK, CheckHasSwap, RowsComeFirst,
     TasksAreRight, PollersHavePayers, RowsAreRight, HandsAreRight,
     Evidence, Settled
<1>3. CASE CheckEnd
  BY <1>3 DEF CheckEnd, TypeOK, CheckHasSwap, RowsComeFirst,
     TasksAreRight, PollersHavePayers, RowsAreRight, HandsAreRight,
     Evidence, Settled
<1>4. CASE \E s \in Swaps : CheckNext(s)
  BY <1>4 DEF CheckNext, TypeOK, CheckHasSwap, RowsComeFirst,
     TasksAreRight, PollersHavePayers, RowsAreRight, HandsAreRight,
     Evidence, Settled
<1>5. CASE CheckClient
  BY <1>5 DEF CheckClient, TypeOK, CheckHasSwap, RowsComeFirst,
     TasksAreRight, PollersHavePayers, RowsAreRight, HandsAreRight,
     Evidence, Settled
<1>6. CASE CheckSeesLockup
  BY <1>6 DEF CheckSeesLockup, TypeOK, CheckHasSwap, RowsComeFirst,
     TasksAreRight, PollersHavePayers, RowsAreRight, HandsAreRight,
     Evidence, Settled
<1>7. CASE CheckComplete
  BY <1>7, NoSwapAssumption DEF CheckComplete, UpdateSwapStatus, TypeOK,
     CheckHasSwap, RowsComeFirst,
     TasksAreRight, PollersHavePayers, RowsAreRight, HandsAreRight,
     Evidence, Settled
<1>8. CASE CheckNotFound
  BY <1>8 DEF CheckNotFound, TypeOK, CheckHasSwap, RowsComeFirst,
     TasksAreRight, PollersHavePayers, RowsAreRight, HandsAreRight,
     Evidence, Settled
<1>9. CASE CheckFailed
  BY <1>9, NoSwapAssumption DEF CheckFailed, UpdateSwapStatus, TypeOK,
     CheckHasSwap, RowsComeFirst,
     TasksAreRight, PollersHavePayers, RowsAreRight, HandsAreRight,
     Evidence, Settled
<1>10. CASE CheckRaises
  BY <1>10, NoSwapAssumption DEF CheckRaises, TypeOK, CheckHasSwap,
     RowsComeFirst,
     TasksAreRight, PollersHavePayers, RowsAreRight, HandsAreRight,
     Evidence, Settled
<1>11. CASE CheckFailedRaises
  BY <1>11, NoSwapAssumption DEF CheckFailedRaises, TypeOK, CheckHasSwap,
     RowsComeFirst,
     TasksAreRight, PollersHavePayers, RowsAreRight, HandsAreRight,
     Evidence, Settled
<1> QED
  BY <1>1, <1>2, <1>3, <1>4, <1>5, <1>6, <1>7, <1>8, <1>9, <1>10, <1>11
  DEF CheckStep, CheckProgress

\* The process starts, stops and dies.
LEMMA ProcessKeepsIInv ==
    ASSUME IInv,
           \/ Crash
           \/ BoltzStop
           \/ BoltzStart
    PROVE  IInv'
<1> USE DEF IInv
<1>1. CASE Crash
  BY <1>1, NoSwapAssumption DEF Crash, TypeOK, CheckHasSwap, RowsComeFirst,
     TasksAreRight, PollersHavePayers, RowsAreRight, HandsAreRight,
     Evidence, Settled
<1>2. CASE BoltzStop
  BY <1>2, NoSwapAssumption DEF BoltzStop, TypeOK, CheckHasSwap, RowsComeFirst,
     TasksAreRight, PollersHavePayers, RowsAreRight, HandsAreRight,
     Evidence, Settled
<1>3. CASE BoltzStart
  BY <1>3 DEF BoltzStart, TypeOK, CheckHasSwap, RowsComeFirst,
     TasksAreRight, PollersHavePayers, RowsAreRight, HandsAreRight,
     Evidence, Settled
<1> QED
  BY <1>1, <1>2, <1>3

LEMMA NextKeepsIInv == IInv /\ [Next]_vars => IInv'
<1> SUFFICES ASSUME IInv, [Next]_vars PROVE IInv'
  OBVIOUS
<1>1. CASE UNCHANGED vars
  BY <1>1 DEF vars, IInv, TypeOK, CheckHasSwap, RowsComeFirst, TasksAreRight,
              PollersHavePayers, RowsAreRight, HandsAreRight, Evidence
<1>2. CASE Next
  BY <1>2, CreateKeepsIInv, PayKeepsIInv, ClaimKeepsIInv, WorldKeepsIInv,
     CheckKeepsIInv, ProcessKeepsIInv DEF Next
<1> QED
  BY <1>1, <1>2

\* The inductive invariant holds in every reachable state.
THEOREM Invariance == Spec => []IInv
<1>1. Init => IInv
  BY InitIInv
<1>2. IInv /\ [Next]_vars => IInv'
  BY NextKeepsIInv
<1> QED
  BY <1>1, <1>2, PTL DEF Spec

\* Type correctness.
THEOREM TypeCorrectness == Spec => []TypeOK
<1>1. IInv => TypeOK
  BY DEF IInv
<1> QED
  BY <1>1, Invariance, PTL

\* No sat leaves the wallet before the preimage and the claim key are in the
\* database (PreimageKept).
THEOREM PreimageIsKept == Spec => []PreimageKept
<1>1. IInv => PreimageKept
  BY DEF IInv, RowsComeFirst, PreimageKept
<1> QED
  BY <1>1, Invariance, PTL

\* No task goes on asking Boltz for a lockup it could know to be lost, be it
\* the task that claims or the startup check (NoStalePoller).
THEOREM PollersAreCurrent == Spec => []NoStalePoller
<1>1. IInv => NoStalePoller
  BY DEF IInv, RowsComeFirst, PollersHavePayers, HandsAreRight, Settled,
     NoStalePoller
<1> QED
  BY <1>1, Invariance, PTL

-----------------------------------------------------------------------------
(***************************************************************************)
(* A settled row is final.                                                 *)
(***************************************************************************)

\* What one step may do to a settled row: nothing, unless it comes from a
\* task that was told the opposite of what the row's writer was told.
Overwritten(s) ==
    row[s] \in Settled /\ row'[s] # row[s] => AnswersDisagree(s)

LEMMA StepOverwrites ==
    ASSUME IInv, Next, NEW s \in Swaps
    PROVE  Overwritten(s)
<1> USE DEF IInv, TypeOK, Overwritten, AnswersDisagree, Settled
<1>1. CASE row' = row
  BY <1>1
<1>2. CASE \E t \in Swaps : CreateRow(t)
  BY <1>2 DEF CreateRow, RowsComeFirst
<1>3. CASE \E t \in Swaps : PayMarksComplete(t)
  BY <1>3
  DEF PayMarksComplete, UpdateSwapStatus, TasksAreRight, RowsAreRight
<1>4. CASE \E t \in Swaps : PayMarksFailed(t)
  BY <1>4
  DEF PayMarksFailed, UpdateSwapStatus, TasksAreRight, RowsAreRight
<1>5. CASE CheckComplete \/ CheckFailed
  BY <1>5
  DEF CheckComplete, CheckFailed, UpdateSwapStatus, CheckHasSwap,
      TasksAreRight, HandsAreRight
<1> QED
  BY <1>1, <1>2, <1>3, <1>4, <1>5
  DEF Next, PayStep, PayProgress, ClaimStep, CheckStep, CheckProgress,
     CreateAllowed, CreateRefused, CreateAtBoltz, ExecuteReverseSwap,
     CreateRaises, PaySends, PayRefused, PayReturns, PayReturnsHeld,
     PayRaises, PayCompleteRaises, PayFailedRaises, ClaimSeesLockup,
     ClaimRaises, BoltzLocks, LockupConfirms, BoltzRefunds, PaymentBounces,
     UserClaims, BoltzSettles, CheckRead, CheckReadRaises, CheckNext,
     CheckEnd, CheckClient, CheckSeesLockup, CheckNotFound, CheckRaises,
     CheckFailedRaises, Crash, BoltzStop, BoltzStart

\* Nothing takes a settled row up again.
LEMMA StepKeepsClosed ==
    ASSUME IInv, Next, NEW s \in Swaps, Closed(s)
    PROVE  Closed(s)' /\ row'[s] = row[s]
<1> USE DEF IInv, TypeOK, Closed, Settled
<1>1. CASE \E t \in Swaps : \/ CreateAllowed(t) \/ CreateRefused(t)
                            \/ CreateAtBoltz(t) \/ CreateRow(t)
                            \/ ExecuteReverseSwap(t) \/ CreateRaises(t)
  BY <1>1 DEF CreateAllowed, CreateRefused, CreateAtBoltz, CreateRow,
     ExecuteReverseSwap, CreateRaises
<1>2. CASE \E t \in Swaps : PayStep(t)
  BY <1>2 DEF PayStep, PayProgress, PaySends, PayRefused, PayReturns,
     PayReturnsHeld, PayRaises, PayCompleteRaises, PayFailedRaises,
     PayMarksComplete, PayMarksFailed, UpdateSwapStatus
<1>3. CASE CheckStep
  BY <1>3, NoSwapAssumption DEF CheckStep, CheckProgress, CheckRead,
     CheckReadRaises, CheckNext, CheckEnd, CheckClient, CheckSeesLockup,
     CheckComplete, CheckNotFound, CheckFailed, CheckRaises,
     CheckFailedRaises, UpdateSwapStatus, CheckHasSwap
<1>4. CASE Crash \/ BoltzStop \/ BoltzStart
  BY <1>4, NoSwapAssumption DEF Crash, BoltzStop, BoltzStart
<1>5. CASE UNCHANGED <<row, api, pay, checker>>
  BY <1>5
<1> QED
  BY <1>1, <1>2, <1>3, <1>4, <1>5 DEF Next, ClaimStep, ClaimSeesLockup,
     ClaimRaises, BoltzLocks, LockupConfirms, BoltzRefunds, PaymentBounces,
     UserClaims, BoltzSettles

\* A settled row is final once no task has it in hand, and before that it is
\* overwritten only where the paying task and the startup check were given
\* opposite answers (SettledIsFinal).
THEOREM RowsSettleOnce == Spec => SettledIsFinal
<1> DEFINE Kept == \A s \in Swaps :
                       /\ Closed(s) => Closed(s)' /\ row'[s] = row[s]
                       /\ row[s] \in Settled /\ row'[s] # row[s] =>
                              AnswersDisagree(s)
<1>1. IInv /\ [Next]_vars => [Kept]_vars
  <2> SUFFICES ASSUME IInv, Next PROVE Kept
    BY DEF vars
  <2> QED
    BY StepOverwrites, StepKeepsClosed DEF Overwritten
<1>2. Spec => [][Kept]_vars
  BY <1>1, Invariance, PTL DEF Spec
<1> QED
  BY <1>2 DEF SettledIsFinal

-----------------------------------------------------------------------------
(***************************************************************************)
(* Every pending row is watched.                                           *)
(***************************************************************************)

\* One swap's part of PendingIsWatched.
Watched(s) ==
    mode = "up" /\ row[s] = "pending" =>
        \/ api[s] = "stored"
        \/ pay[s] \in {"calling", "waiting", "complete", "failed"}
        \/ checkPc = "read" \/ s \in todo \/ checking = s
        \/ s \in dropped

LEMMA StepWatches ==
    ASSUME IInv, Next, NEW s \in Swaps, Watched(s)
    PROVE  Watched(s)'
<1> USE DEF Watched, IInv, TypeOK
<1>1. CASE \E t \in Swaps : \/ CreateAllowed(t) \/ CreateRefused(t)
                            \/ CreateAtBoltz(t)
                            \/ CreateRow(t) \/ ExecuteReverseSwap(t)
                            \/ CreateRaises(t)
  BY <1>1 DEF CreateAllowed, CreateRefused, CreateAtBoltz, CreateRow,
     ExecuteReverseSwap,
              CreateRaises, RowsComeFirst
<1>2. CASE \E t \in Swaps : PayStep(t)
  BY <1>2 DEF PayStep, PayProgress, PaySends, PayRefused, PayReturns,
     PayReturnsHeld,
              PayRaises, PayCompleteRaises, PayFailedRaises,
              PayMarksComplete, PayMarksFailed, UpdateSwapStatus
<1>3. CASE \E t \in Swaps : ClaimStep(t)
  BY <1>3 DEF ClaimStep, ClaimSeesLockup, ClaimRaises
<1>4. CASE \E t \in Swaps : \/ BoltzLocks(t) \/ LockupConfirms(t)
                            \/ BoltzRefunds(t) \/ PaymentBounces(t)
                            \/ UserClaims(t) \/ BoltzSettles(t)
  BY <1>4 DEF BoltzLocks, LockupConfirms, BoltzRefunds, PaymentBounces,
              UserClaims, BoltzSettles
<1>5. CASE CheckRead \/ CheckReadRaises \/ CheckEnd
           \/ \E t \in Swaps : CheckNext(t)
  BY <1>5, NoSwapAssumption
  DEF CheckRead, CheckReadRaises, CheckEnd, CheckNext, CheckHasSwap
<1>6. CASE \/ CheckClient \/ CheckSeesLockup \/ CheckNotFound
           \/ CheckRaises \/ CheckFailedRaises
  BY <1>6, NoSwapAssumption DEF CheckClient, CheckSeesLockup, CheckNotFound,
     CheckRaises, CheckFailedRaises
<1>7. CASE CheckComplete \/ CheckFailed
  BY <1>7 DEF CheckComplete, CheckFailed, UpdateSwapStatus
<1>8. CASE Crash \/ BoltzStop \/ BoltzStart
  BY <1>8 DEF Crash, BoltzStop, BoltzStart
<1> QED
  BY <1>1, <1>2, <1>3, <1>4, <1>5, <1>6, <1>7, <1>8 DEF Next, CheckStep,
     CheckProgress

\* While the extension runs, some task cares for every pending row, or the
\* paying task or the startup check gave it up on an exception since the start
\* (PendingIsWatched).
THEOREM PendingRowsWatched == Spec => []PendingIsWatched
<1> DEFINE All == \A s \in Swaps : Watched(s)
<1>1. Init => All
  BY DEF Init, Watched
<1>2. IInv /\ All /\ [Next]_vars => All'
  <2> SUFFICES ASSUME IInv, All, [Next]_vars, NEW s \in Swaps
               PROVE  Watched(s)'
    OBVIOUS
  <2>1. CASE Next
    BY <2>1, StepWatches
  <2>2. CASE UNCHANGED vars
    BY <2>2 DEF vars, Watched
  <2> QED
    BY <2>1, <2>2
<1>3. All => PendingIsWatched
  BY DEF Watched, PendingIsWatched
<1> QED
  BY <1>1, <1>2, <1>3, Invariance, PTL DEF Spec

-----------------------------------------------------------------------------
(***************************************************************************)
(* ReverseSwap implements SwapRecord.                                      *)
(***************************************************************************)

LEMMA InitRefines == Init => Record!Init
BY DEF Init, Record!Init, Evidence, Settled

\* The refinement mapping of SwapRecord's evidence, and its two outcomes.
evidenceBar == [s \in Swaps |-> Evidence(s)]
IsPaid(s) == htlc[s] = "settled" \/ s \in assumed \/ s \in unresolved
IsBounced(s) == htlc[s] = "failed" \/ s \in notFound \/ s \in unwritten

\* A step that gives no evidence.
LEMMA NoEvidence ==
    ASSUME \A s \in Swaps : /\ IsPaid(s)' <=> IsPaid(s)
                            /\ IsBounced(s)' <=> IsBounced(s)
    PROVE  UNCHANGED evidenceBar
BY DEF evidenceBar, Evidence, Settled, IsPaid, IsBounced

\* A step that gives evidence of outcome o for swap c.
LEMMA NewEvidence ==
    ASSUME NEW c \in Swaps, NEW o \in Settled,
           \A s \in Swaps :
               /\ IsPaid(s)' <=> IsPaid(s) \/ (s = c /\ o = "complete")
               /\ IsBounced(s)' <=> IsBounced(s) \/ (s = c /\ o = "failed")
    PROVE  evidenceBar' = [evidenceBar EXCEPT ![c] = @ \cup {o}]
<1> USE DEF IsPaid, IsBounced
<1>1. evidenceBar'[c] = evidenceBar[c] \cup {o}
  <2>1. \A x \in Settled : x \in evidenceBar'[c] <=>
                             x \in evidenceBar[c] \/ x = o
    BY DEF evidenceBar, Evidence, Settled
  <2>2. evidenceBar'[c] \subseteq Settled /\ evidenceBar[c] \subseteq Settled
    BY DEF evidenceBar, Evidence
  <2> QED
    BY <2>1, <2>2
<1>2. \A s \in Swaps : s # c => evidenceBar'[s] = evidenceBar[s]
  <2> SUFFICES ASSUME NEW s \in Swaps, s # c
               PROVE  evidenceBar'[s] = evidenceBar[s]
    OBVIOUS
  <2>1. \A x \in Settled : x \in evidenceBar'[s] <=> x \in evidenceBar[s]
    BY DEF evidenceBar, Evidence, Settled
  <2>2. evidenceBar'[s] \subseteq Settled /\ evidenceBar[s] \subseteq Settled
    BY DEF evidenceBar, Evidence
  <2> QED
    BY <2>1, <2>2
<1>3. /\ evidenceBar = [s \in Swaps |-> evidenceBar[s]]
      /\ evidenceBar' = [s \in Swaps |-> evidenceBar'[s]]
  BY DEF evidenceBar
<1> QED
  BY <1>1, <1>2, <1>3

LEMMA StepRefines == IInv /\ [Next]_vars => [Record!Next]_(Record!vars)
<1> SUFFICES ASSUME IInv, [Next]_vars
             PROVE  Record!Next \/ UNCHANGED Record!vars
  OBVIOUS
<1> USE DEF IInv, TypeOK
<1>1. ASSUME NEW c \in Swaps, NEW o \in Settled, UNCHANGED row,
             evidenceBar' = [evidenceBar EXCEPT ![c] = @ \cup {o}]
      PROVE  Record!Next
  BY <1>1 DEF Record!Next, Record!Learn, Record!Outcomes, Settled, evidenceBar
<1>2. ASSUME UNCHANGED row, UNCHANGED evidenceBar
      PROVE  UNCHANGED Record!vars
  BY <1>2 DEF Record!vars, evidenceBar
<1>3. ASSUME NEW c \in Swaps, NEW o \in Settled, o \in Evidence(c),
             UpdateSwapStatus(c, o), UNCHANGED evidenceBar
      PROVE  Record!Next \/ UNCHANGED Record!vars
  <2>1. CASE row[c] = "none"
    BY <2>1, <1>2, <1>3 DEF UpdateSwapStatus
  <2>2. CASE row[c] # "none"
    <3>1. row' = [row EXCEPT ![c] = o] /\ o \in evidenceBar[c]
      BY <2>2, <1>3 DEF UpdateSwapStatus, evidenceBar
    <3> QED
      BY <2>2, <3>1, <1>3 DEF Record!Next, Record!Record, Record!Outcomes,
                              Settled, evidenceBar
  <2> QED
    BY <2>1, <2>2
<1>4. ASSUME UNCHANGED <<htlc, notFound, assumed, unresolved, unwritten>>
      PROVE  UNCHANGED evidenceBar
  BY <1>4, NoEvidence DEF IsPaid, IsBounced
<1>5. CASE \E s \in Swaps : CreateRow(s)
  <2>1. PICK s \in Swaps : CreateRow(s)
    BY <1>5
  <2>2. row[s] = "none" /\ UNCHANGED evidenceBar
    BY <2>1, <1>4 DEF CreateRow, RowsComeFirst
  <2> QED
    BY <2>1, <2>2 DEF CreateRow, Record!Next, Record!Open, evidenceBar
<1>6. CASE \E s \in Swaps : BoltzSettles(s) \/ PayReturnsHeld(s)
  <2>1. PICK s \in Swaps : BoltzSettles(s) \/ PayReturnsHeld(s)
    BY <1>6
  <2>2. evidenceBar' = [evidenceBar EXCEPT ![s] = @ \cup {"complete"}]
    BY <2>1, NewEvidence
    DEF BoltzSettles, PayReturnsHeld, Settled, IsPaid, IsBounced
  <2> QED
    BY <2>1, <2>2, <1>1 DEF BoltzSettles, PayReturnsHeld, Settled
<1>7. CASE \E s \in Swaps : PayRefused(s) \/ PaymentBounces(s)
  <2>1. PICK s \in Swaps : PayRefused(s) \/ PaymentBounces(s)
    BY <1>7
  <2>2. evidenceBar' = [evidenceBar EXCEPT ![s] = @ \cup {"failed"}]
    BY <2>1, NewEvidence
    DEF PayRefused, PaymentBounces, RowsComeFirst, Settled, IsPaid, IsBounced
  <2> QED
    BY <2>1, <2>2, <1>1 DEF PayRefused, PaymentBounces, Settled
<1>8. CASE CheckSeesLockup
  <2>1. PICK s \in Swaps : s = checking
    BY <1>8 DEF CheckSeesLockup, CheckHasSwap
  <2>2. evidenceBar' = [evidenceBar EXCEPT ![s] = @ \cup {"complete"}]
    BY <1>8, <2>1, NewEvidence
    DEF CheckSeesLockup, Settled, IsPaid, IsBounced
  <2> QED
    BY <1>8, <2>2, <1>1 DEF CheckSeesLockup, Settled
<1>9. CASE CheckNotFound
  <2>1. PICK s \in Swaps : s = checking
    BY <1>9 DEF CheckNotFound, CheckHasSwap
  <2>2. evidenceBar' = [evidenceBar EXCEPT ![s] = @ \cup {"failed"}]
    BY <1>9, <2>1, NewEvidence DEF CheckNotFound, Settled, IsPaid, IsBounced
  <2> QED
    BY <1>9, <2>2, <1>1 DEF CheckNotFound, Settled
<1>10. CASE \E s \in Swaps : PayMarksComplete(s)
  <2>1. PICK s \in Swaps : PayMarksComplete(s)
    BY <1>10
  <2>2. "complete" \in Evidence(s)
    BY <2>1 DEF PayMarksComplete, TasksAreRight, Evidence, Settled
  <2> QED
    BY <2>1, <2>2, <1>3, <1>4 DEF PayMarksComplete, Settled
<1>11. CASE \E s \in Swaps : PayMarksFailed(s)
  <2>1. PICK s \in Swaps : PayMarksFailed(s)
    BY <1>11
  <2>2. "failed" \in Evidence(s)
    BY <2>1 DEF PayMarksFailed, TasksAreRight, Evidence, Settled
  <2> QED
    BY <2>1, <2>2, <1>3, <1>4 DEF PayMarksFailed, Settled
<1>12. CASE CheckComplete
  <2>1. checking \in Swaps /\ "complete" \in Evidence(checking)
    BY <1>12 DEF CheckComplete, CheckHasSwap, TasksAreRight, Evidence, Settled
  <2> QED
    BY <1>12, <2>1, <1>3, <1>4 DEF CheckComplete, Settled
<1>13. CASE CheckFailed
  <2>1. checking \in Swaps /\ "failed" \in Evidence(checking)
    BY <1>13 DEF CheckFailed, CheckHasSwap, TasksAreRight, Evidence, Settled
  <2> QED
    BY <1>13, <2>1, <1>3, <1>4 DEF CheckFailed, Settled
<1>14. CASE \E s \in Swaps : PaySends(s)
  <2>1. UNCHANGED row /\ UNCHANGED evidenceBar
    BY <1>14, NoEvidence DEF PaySends, RowsComeFirst, IsPaid, IsBounced
  <2> QED
    BY <2>1, <1>2
<1>15. CASE UNCHANGED <<row, htlc, notFound, assumed, unresolved, unwritten>>
  BY <1>15, <1>2, <1>4
<1>16. CASE \E s \in Swaps : PayCompleteRaises(s) \/ PayFailedRaises(s)
  <2>1. PICK s \in Swaps : PayCompleteRaises(s) \/ PayFailedRaises(s)
    BY <1>16
  <2>2. evidenceBar' = [evidenceBar EXCEPT ![s] = @ \cup {"failed"}]
    BY <2>1, NewEvidence
    DEF PayCompleteRaises, PayFailedRaises, Settled, IsPaid, IsBounced
  <2> QED
    BY <2>1, <2>2, <1>1 DEF PayCompleteRaises, PayFailedRaises, Settled
<1> QED
  BY <1>5, <1>6, <1>7, <1>8, <1>9, <1>10, <1>11, <1>12, <1>13, <1>14, <1>15,
     <1>16
  DEF vars, Next, PayStep, PayProgress, ClaimStep, CheckStep, CheckProgress,
     CreateAllowed, CreateRefused, CreateAtBoltz, ExecuteReverseSwap,
     CreateRaises,
     PayReturns, PayRaises, ClaimSeesLockup, ClaimRaises,
     BoltzLocks, LockupConfirms, BoltzRefunds, UserClaims, CheckRead,
     CheckReadRaises, CheckNext, CheckEnd, CheckClient, CheckRaises,
     CheckFailedRaises, Crash, BoltzStop, BoltzStart

\* Whatever is written into a row the program was given evidence of:
\* ReverseSwap implements SwapRecord (RowsAreJustified).
THEOREM ImplementsSwapRecord == Spec => RowsAreJustified
<1>1. Spec => Record!Init /\ [][Record!Next]_(Record!vars)
  BY InitRefines, StepRefines, Invariance, PTL DEF Spec
<1> QED
  BY <1>1 DEF RowsAreJustified, Record!Spec

-----------------------------------------------------------------------------
(***************************************************************************)
(* What complete means.                                                    *)
(***************************************************************************)

\* Boltz can settle only a payment whose lockup was claimed.
SettledIsClaimed ==
    \A s \in Swaps : htlc[s] = "settled" => lockup[s] = "claimed"

LEMMA SettlesWhenClaimed == Spec => []SettledIsClaimed
<1>1. Init => SettledIsClaimed
  BY DEF Init, SettledIsClaimed
<1>2. IInv /\ SettledIsClaimed /\ [Next]_vars => SettledIsClaimed'
  <2> SUFFICES ASSUME IInv, SettledIsClaimed, [Next]_vars
               PROVE  SettledIsClaimed'
    OBVIOUS
  <2> USE DEF SettledIsClaimed, IInv, TypeOK
  <2>1. CASE \E s \in Swaps : PaySends(s) \/ PayRefused(s)
    BY <2>1 DEF PaySends, PayRefused, RowsComeFirst
  <2>2. CASE \E s \in Swaps :
                 \/ BoltzLocks(s) \/ LockupConfirms(s) \/ BoltzRefunds(s)
                 \/ PaymentBounces(s) \/ UserClaims(s) \/ BoltzSettles(s)
    BY <2>2 DEF BoltzLocks, LockupConfirms, BoltzRefunds, PaymentBounces,
       UserClaims, BoltzSettles
  <2>3. CASE UNCHANGED world
    BY <2>3
  <2> QED
    BY <2>1, <2>2, <2>3 DEF Next, vars, CreateAllowed, CreateRefused,
       CreateAtBoltz, CreateRow, ExecuteReverseSwap, CreateRaises, PayStep,
       PayProgress, PayReturns, PayReturnsHeld, PayRaises, PayMarksComplete,
       PayMarksFailed, PayCompleteRaises, PayFailedRaises, ClaimStep,
       ClaimSeesLockup, ClaimRaises, CheckStep, CheckProgress, CheckRead,
       CheckReadRaises, CheckNext, CheckEnd, CheckClient, CheckSeesLockup,
       CheckComplete, CheckNotFound, CheckFailed, CheckRaises,
       CheckFailedRaises, Crash, BoltzStop, BoltzStart
<1> QED
  BY <1>1, <1>2, Invariance, PTL DEF Spec

\* A complete row that neither the startup check nor an early return of
\* pay_invoice explains means that the user has the coins
\* (CompleteMeansReceived).
THEOREM CompleteIsReceived == Spec => []CompleteMeansReceived
<1>1. IInv /\ SettledIsClaimed => CompleteMeansReceived
  BY DEF IInv, RowsAreRight, Evidence, Settled, SettledIsClaimed,
     CompleteMeansReceived
<1> QED
  BY <1>1, Invariance, SettlesWhenClaimed, PTL

-----------------------------------------------------------------------------
(***************************************************************************)
(* Where a task can go on.  A guard below is the disjunction of the guards *)
(* of the actions that make up a step of the task, as they are written.    *)
(* The step changes where the task awaits, so ENABLED of it is true        *)
(* wherever its guard is, by what ENABLED means: GuardsSuffice, which the  *)
(* theorems on liveness assume because the prover knows no more of ENABLED *)
(* than its name.                                                          *)
(***************************************************************************)

CheckGuard ==
    \/ checkPc = "read"
    \/ checkPc = "next" /\ todo = {}
    \/ \E s \in Swaps : checkPc = "next" /\ s \in todo
    \/ checkPc = "client"
    \/ checkPc = "polling" /\ LockupSeen(checking)
    \/ checkPc = "complete"
    \/ checkPc = "failed"

PayGuard(s) ==
    \/ pay[s] = "calling"
    \/ pay[s] = "waiting" /\ htlc[s] = "settled"
    \/ pay[s] = "waiting" /\ htlc[s] = "failed"
    \/ pay[s] = "complete"
    \/ pay[s] = "failed"

GuardsSuffice ==
    /\ CheckGuard => ENABLED <<CheckProgress>>_vars
    /\ \A s \in Swaps : PayGuard(s) => ENABLED <<PayProgress(s)>>_vars

-----------------------------------------------------------------------------
(***************************************************************************)
(* Every bounced payment is recorded.                                      *)
(***************************************************************************)

\* Whatever runs beside it, the paying task of a payment that bounced notices
\* it and marks the row.
LEMMA BounceMoves ==
    ASSUME IInv, [Next]_vars, NEW s \in Swaps
    PROVE  /\ pay[s] = "waiting" /\ htlc[s] = "failed" =>
                  \/ mode' = "down"
                  \/ pay'[s] = "waiting" /\ htlc'[s] = "failed"
                  \/ pay'[s] = "failed"
           /\ pay[s] = "failed" =>
                  \/ mode' = "down"
                  \/ pay'[s] = "failed"
                  \/ row'[s] = "failed" \/ s \in unwritten'
<1> USE DEF IInv, TypeOK, RowsComeFirst
<1>1. CASE \E t \in Swaps : PayStep(t)
  BY <1>1 DEF PayStep, PayProgress, PaySends, PayRefused, PayReturns,
     PayReturnsHeld, PayRaises, PayMarksComplete, PayMarksFailed,
     PayCompleteRaises, PayFailedRaises, UpdateSwapStatus
<1>2. CASE \E t \in Swaps : PaymentBounces(t) \/ BoltzSettles(t)
  BY <1>2 DEF PaymentBounces, BoltzSettles
<1>3. CASE \E t \in Swaps : ExecuteReverseSwap(t)
  BY <1>3 DEF ExecuteReverseSwap
<1>4. CASE Crash
  BY <1>4 DEF Crash
<1>5. CASE UNCHANGED <<pay, htlc>>
  BY <1>5
<1> QED
  BY <1>1, <1>2, <1>3, <1>4, <1>5 DEF Next, vars, CreateAllowed,
     CreateRefused, CreateAtBoltz, CreateRow, CreateRaises, ClaimStep,
     ClaimSeesLockup, ClaimRaises, BoltzLocks, LockupConfirms, BoltzRefunds,
     UserClaims, CheckStep, CheckProgress, CheckRead, CheckReadRaises,
     CheckNext, CheckEnd, CheckClient, CheckSeesLockup, CheckComplete,
     CheckNotFound, CheckFailed, CheckRaises, CheckFailedRaises, BoltzStop,
     BoltzStart

LEMMA BounceLeaves ==
    ASSUME IInv, NEW s \in Swaps, PayProgress(s)
    PROVE  /\ pay[s] = "waiting" => pay'[s] # "waiting"
           /\ pay[s] = "failed" => pay'[s] # "failed"
BY DEF IInv, TypeOK, PayProgress, PaySends, PayRefused, PayReturns,
   PayRaises, PayMarksComplete, PayMarksFailed

LEMMA BounceRecords ==
    ASSUME NEW s \in Swaps
    PROVE  Spec /\ PayFairness(s) /\ []GuardsSuffice => BounceRecorded(s)
<1> DEFINE Bounced == pay[s] = "waiting" /\ htlc[s] = "failed"
           Noticed == pay[s] = "failed"
           Recorded == row[s] = "failed" \/ mode = "down" \/ s \in unwritten
<1>1. IInv /\ [Next]_vars =>
          /\ Bounced => Bounced' \/ Noticed' \/ Recorded'
          /\ Noticed => Noticed' \/ Recorded'
  BY BounceMoves
<1>2. IInv /\ <<PayProgress(s)>>_vars =>
          /\ Bounced => ~Bounced'
          /\ Noticed => ~Noticed'
  BY BounceLeaves
<1>3. GuardsSuffice /\ (Bounced \/ Noticed) => ENABLED <<PayProgress(s)>>_vars
  BY DEF GuardsSuffice, PayGuard
<1>4. Spec /\ PayFairness(s) /\ []GuardsSuffice => (Bounced ~> Recorded)
  <2> HIDE DEF Bounced, Noticed, Recorded
  <2> QED
    BY <1>1, <1>2, <1>3, Invariance, PTL DEF Spec, PayFairness
<1> QED
  BY <1>4 DEF BounceRecorded

\* Every payment that bounces while its task runs gets its row marked failed
\* (BounceIsRecorded): however many swaps, whatever the startup check writes
\* into the row meanwhile and whichever faults happen.
THEOREM BouncesAreRecorded == FairSpec /\ []GuardsSuffice => BounceIsRecorded
<1>1. ASSUME NEW s \in Swaps
      PROVE  FairSpec /\ []GuardsSuffice => BounceRecorded(s)
  <2>1. PaymentsFairness => PayFairness(s)
    BY DEF PaymentsFairness
  <2> QED
    BY <2>1, BounceRecords, PTL DEF FairSpec, Fairness
<1> QED
  BY <1>1 DEF BounceIsRecorded

-----------------------------------------------------------------------------
(***************************************************************************)
(* A lockup that is there is found.                                        *)
(***************************************************************************)

\* The startup check is at pc, with swap s.
CheckAt(pc, s) == checkPc = pc /\ checking = s

\* Nothing is left to find: the row was settled, the lockup spent, the check
\* stopped, or the swap given up on an exception.
Over(s) ==
    \/ row[s] # "pending" \/ ~LockupSeen(s)
    \/ mode # "up" \/ s \in dropped

LEMMA CheckMoves ==
    ASSUME IInv, [Next]_vars, NEW s \in Swaps, ~Over(s),
           NEW pc \in {"client", "polling", "complete", "failed"},
           CheckAt(pc, s)
    PROVE  \/ Over(s)'
           \/ CheckAt(pc, s)'
           \/ pc = "client" /\ CheckAt("polling", s)'
           \/ pc \in {"client", "polling"} /\ CheckAt("failed", s)'
           \/ pc = "polling" /\ CheckAt("complete", s)'
<1> USE DEF CheckAt, Over, LockupSeen, IInv, TypeOK
<1>1. CASE CheckStep
  BY <1>1 DEF CheckStep, CheckProgress, CheckRead, CheckReadRaises,
     CheckNext, CheckEnd, CheckClient, CheckSeesLockup, CheckComplete,
     CheckNotFound, CheckFailed, CheckRaises, CheckFailedRaises,
     UpdateSwapStatus
<1>2. CASE Crash \/ BoltzStop \/ BoltzStart
  BY <1>2 DEF Crash, BoltzStop, BoltzStart
<1>3. CASE UNCHANGED checker
  BY <1>3
<1> QED
  BY <1>1, <1>2, <1>3 DEF Next, vars, CreateAllowed, CreateRefused,
     CreateAtBoltz, CreateRow, ExecuteReverseSwap, CreateRaises, PayStep,
     PayProgress, PaySends, PayRefused, PayReturns, PayReturnsHeld,
     PayRaises, PayMarksComplete, PayMarksFailed, PayCompleteRaises,
     PayFailedRaises, ClaimStep,
     ClaimSeesLockup, ClaimRaises, BoltzLocks, LockupConfirms, BoltzRefunds,
     PaymentBounces, UserClaims, BoltzSettles

LEMMA CheckLeaves ==
    ASSUME IInv, CheckProgress
    PROVE  checkPc' # checkPc
BY DEF IInv, TypeOK, CheckProgress, CheckRead, CheckNext, CheckEnd,
   CheckClient, CheckSeesLockup, CheckComplete, CheckFailed

\* Once the startup check has come to a swap whose lockup is there, it finds
\* it, however many swaps there are and whatever became of the swap's request
\* and tasks.  (That it comes to the swap is another matter: see
\* reverse_blocked.cfg.)
THEOREM CheckFindsLockup ==
    ASSUME NEW s \in Swaps
    PROVE  Spec /\ WF_vars(CheckProgress) /\ []GuardsSuffice =>
               ((checkPc \in {"client", "polling"} /\ checking = s) ~> Over(s))
<1> DEFINE Client == CheckAt("client", s) /\ ~Over(s)
           Polling == CheckAt("polling", s) /\ ~Over(s)
           Complete == CheckAt("complete", s) /\ ~Over(s)
           Failed == CheckAt("failed", s) /\ ~Over(s)
           Some == checkPc \in {"client", "polling"} /\ checking = s
           Done == Over(s)
<1>1. IInv /\ [Next]_vars =>
          /\ Client => Client' \/ Polling' \/ Failed' \/ Done'
          /\ Polling => Polling' \/ Complete' \/ Failed' \/ Done'
          /\ Complete => Complete' \/ Done'
          /\ Failed => Failed' \/ Done'
  BY CheckMoves
<1>2. IInv /\ <<CheckProgress>>_vars =>
          /\ Client => ~Client'
          /\ Polling => ~Polling'
          /\ Complete => ~Complete'
          /\ Failed => ~Failed'
  BY CheckLeaves DEF CheckAt
<1>3. GuardsSuffice /\ (Client \/ Polling \/ Complete \/ Failed) =>
          ENABLED <<CheckProgress>>_vars
  BY DEF GuardsSuffice, CheckGuard, CheckAt, Over
<1>4. Some => Client \/ Polling \/ Done
  BY DEF CheckAt
<1>5. Spec /\ WF_vars(CheckProgress) /\ []GuardsSuffice => (Some ~> Done)
  <2> HIDE DEF Client, Polling, Complete, Failed, Some, Done
  <2> QED
    BY <1>1, <1>2, <1>3, <1>4, Invariance, PTL DEF Spec
<1> QED
  BY <1>5, PTL

\* The startup check is at pc and has, or will have, nothing but s to look at.
OnlyLeft(pc, s) ==
    checkPc = pc /\ {s} = IF pc = "read" THEN Swaps ELSE todo

LEMMA OnlyMoves ==
    ASSUME IInv, [Next]_vars, NEW s \in Swaps, ~Over(s),
           NEW pc \in {"read", "next"}, OnlyLeft(pc, s)
    PROVE  \/ Over(s)'
           \/ OnlyLeft(pc, s)'
           \/ pc = "read" /\ OnlyLeft("next", s)'
           \/ pc = "next" /\ CheckAt("client", s)'
<1> USE DEF OnlyLeft, CheckAt, Over, IInv, TypeOK
<1>1. CASE CheckStep
  BY <1>1 DEF CheckStep, CheckProgress, CheckRead, CheckReadRaises,
     CheckNext, CheckEnd, CheckClient, CheckSeesLockup, CheckComplete,
     CheckNotFound, CheckFailed, CheckRaises, CheckFailedRaises
<1>2. CASE Crash \/ BoltzStop \/ BoltzStart
  BY <1>2 DEF Crash, BoltzStop, BoltzStart
<1>3. CASE UNCHANGED checker
  BY <1>3
<1> QED
  BY <1>1, <1>2, <1>3 DEF Next, vars, CreateAllowed, CreateRefused,
     CreateAtBoltz, CreateRow, ExecuteReverseSwap, CreateRaises, PayStep,
     PayProgress, PaySends, PayRefused, PayReturns, PayReturnsHeld,
     PayRaises, PayMarksComplete, PayMarksFailed, PayCompleteRaises,
     PayFailedRaises, ClaimStep,
     ClaimSeesLockup, ClaimRaises, BoltzLocks, LockupConfirms, BoltzRefunds,
     PaymentBounces, UserClaims, BoltzSettles

\* The last swap of the startup check is found if its lockup is there, from
\* wherever the check is before it.
THEOREM LastIsFound ==
    ASSUME NEW s \in Swaps
    PROVE  Spec /\ WF_vars(CheckProgress) /\ []GuardsSuffice =>
               ((checkPc = "next" /\ todo = {s}) ~> Over(s))
<1> DEFINE Last == OnlyLeft("next", s) /\ ~Over(s)
           Client == CheckAt("client", s)
           Some == checkPc = "next" /\ todo = {s}
           Reached == checkPc \in {"client", "polling"} /\ checking = s
           Done == Over(s)
<1>1. IInv /\ [Next]_vars => (Last => Last' \/ Client' \/ Done')
  BY OnlyMoves
<1>2. IInv /\ <<CheckProgress>>_vars => (Last => ~Last')
  BY CheckLeaves DEF OnlyLeft
<1>3. GuardsSuffice /\ Last => ENABLED <<CheckProgress>>_vars
  BY DEF GuardsSuffice, CheckGuard, OnlyLeft
<1>4. Some => Last \/ Done
  BY DEF OnlyLeft
<1>5. Client => Reached
  BY DEF CheckAt
<1>6. Spec /\ WF_vars(CheckProgress) /\ []GuardsSuffice => (Reached ~> Done)
  BY CheckFindsLockup, PTL
<1>7. Spec /\ WF_vars(CheckProgress) /\ []GuardsSuffice => (Some ~> Done)
  <2> HIDE DEF Last, Client, Some, Reached, Done
  <2> QED
    BY <1>1, <1>2, <1>3, <1>4, <1>5, <1>6, Invariance, PTL DEF Spec
<1> QED
  BY <1>7, PTL

\* A server with one swap finds its lockup when it starts
\* (LockedUpSwapIsFound), with every fault, crash and deactivation.
THEOREM LoneSwapIsFound ==
    ASSUME NEW s, Swaps = {s}
    PROVE  FairSpec /\ []GuardsSuffice => LockedUpSwapIsFound
<1>1. s \in Swaps
  OBVIOUS
<1> DEFINE Reads == OnlyLeft("read", s) /\ ~Over(s)
           Last == checkPc = "next" /\ todo = {s}
           Some == /\ mode = "up" /\ checkPc = "read"
                   /\ row[s] = "pending" /\ lockup[s] = "confirmed"
           Done == \/ row[s] # "pending" \/ lockup[s] # "confirmed"
                   \/ mode # "up" \/ s \in dropped
           Gone == Over(s)
<1>2. IInv /\ [Next]_vars => (Reads => Reads' \/ Last' \/ Gone')
  BY <1>1, OnlyMoves DEF OnlyLeft
<1>3. IInv /\ <<CheckProgress>>_vars => (Reads => ~Reads')
  BY CheckLeaves DEF OnlyLeft
<1>4. GuardsSuffice /\ Reads => ENABLED <<CheckProgress>>_vars
  BY DEF GuardsSuffice, CheckGuard, OnlyLeft
<1>5. Some => Reads \/ Gone
  BY DEF OnlyLeft
<1>6. Gone => Done
  BY DEF Over, LockupSeen
<1>7. Spec /\ WF_vars(CheckProgress) /\ []GuardsSuffice => (Last ~> Gone)
  BY <1>1, LastIsFound, PTL
<1>8. Spec /\ WF_vars(CheckProgress) /\ []GuardsSuffice => (Some ~> Done)
  <2> HIDE DEF Reads, Last, Some, Done, Gone
  <2> QED
    BY <1>2, <1>3, <1>4, <1>5, <1>6, <1>7, Invariance, PTL DEF Spec
<1>9. FairSpec /\ []GuardsSuffice => LockupFound(s)
  BY <1>8, PTL DEF FairSpec, Fairness, LockupFound
<1> QED
  BY <1>9 DEF LockedUpSwapIsFound

=============================================================================
