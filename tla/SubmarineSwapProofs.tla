------------------------ MODULE SubmarineSwapProofs ------------------------
(***************************************************************************)
(* Theorems about SubmarineSwap for every set of swaps and refund          *)
(* requests, every set of faults and every bound: type correctness, the    *)
(* inductive invariant IInv, and from it NoPaymentForgotten,               *)
(* SettledIsFinal, the implementation of SwapRecord, and what the          *)
(* fairness brings about, given GuardsSuffice.                             *)
(***************************************************************************)
EXTENDS SubmarineSwap, TLAPS

USE DEF database, listening, checker, refunds, world, counters, history

-----------------------------------------------------------------------------
(***************************************************************************)
(* The inductive invariant.  TypeOK alone is not inductive: what the       *)
(* startup check adds to notFound is a swap only because of where it is.   *)
(***************************************************************************)

\* A task that works on a swap has one.
TasksHaveSwaps ==
    /\ checkPc \in {"status", "complete", "client", "failed"} =>
           checking \in Swaps
    /\ listener = "update" => current \in Swaps
    /\ \A r \in Requests : refundPc[r] # "idle" => refundOf[r] \in Swaps

\* A row is inserted at the end of its request, and no coins are sent before.
RowsComeFirst ==
    \A s \in Swaps :
        /\ row[s] # "none" => api[s] = "done"
        /\ row[s] = "none" => onchain[s] = "none"

\* Boltz pays before the timeout and claims before the timeout: a swap whose
\* invoice is paid can no longer be refunded.
PaidInTime ==
    \A s \in Swaps :
        invoice[s] = "paid" =>
            \/ onchain[s] = "locked" /\ s \notin expired
            \/ onchain[s] = "claimed"

\* What the tasks have read or been told is still true when they act on it.
TasksAreRight ==
    /\ \A i \in 1..Len(queue) :
           queue[i] \in Swaps => invoice[queue[i]] = "paid"
    /\ listener \in {"auto", "update"} /\ current \in Swaps =>
           invoice[current] = "paid"
    /\ checkPc = "complete" => invoice[checking] = "paid"
    /\ checkPc = "failed" => checking \in notFound
    /\ \A r \in Requests :
           refundPc[r] = "mark" => onchain[refundOf[r]] = "refunded"

\* What a row says has happened.
RowsAreRight == \A s \in Swaps : row[s] \in Settled => row[s] \in Evidence(s)

IInv ==
    /\ TypeOK
    /\ TasksHaveSwaps
    /\ RowsComeFirst
    /\ PaidInTime
    /\ TasksAreRight
    /\ RowsAreRight

LEMMA InitIInv == Init => IInv
<1> SUFFICES ASSUME Init PROVE IInv
  OBVIOUS
<1>1. queue \in Seq(Payments) /\ current \in Payments /\ checking \in Payments
  BY DEF Init, Payments
<1>2. refundOf \in [Requests -> Payments]
  BY DEF Init, Payments
<1>3. TypeOK
  BY <1>1, <1>2 DEF Init, TypeOK, Settled
<1>4. TasksHaveSwaps /\ RowsComeFirst /\ PaidInTime
  BY DEF Init, TasksHaveSwaps, RowsComeFirst, PaidInTime
<1>5. TasksAreRight
  BY DEF Init, TasksAreRight
<1>6. RowsAreRight
  BY DEF Init, RowsAreRight, Settled
<1> QED
  BY <1>3, <1>4, <1>5, <1>6 DEF IInv

\* The steps of the create request.
LEMMA CreateKeepsIInv ==
    ASSUME IInv, NEW s \in Swaps,
           \/ CreateAllowed(s)
           \/ CreateRefused(s)
           \/ CreateInvoice(s)
           \/ CreateAtBoltz(s)
           \/ CreateRow(s)
           \/ CreateRaises(s)
    PROVE  IInv'
<1> USE DEF IInv
<1>1. CASE CreateAllowed(s)
  BY <1>1 DEF CreateAllowed, TypeOK, TasksHaveSwaps, RowsComeFirst, PaidInTime,
     TasksAreRight, RowsAreRight, Evidence, Settled, Payments
<1>2. CASE CreateRefused(s)
  BY <1>2 DEF CreateRefused, TypeOK, TasksHaveSwaps, RowsComeFirst, PaidInTime,
     TasksAreRight, RowsAreRight, Evidence, Settled, Payments
<1>3. CASE CreateInvoice(s)
  BY <1>3 DEF CreateInvoice, TypeOK, TasksHaveSwaps, RowsComeFirst, PaidInTime,
     TasksAreRight, RowsAreRight, Evidence, Settled, Payments
<1>4. CASE CreateAtBoltz(s)
  BY <1>4 DEF CreateAtBoltz, TypeOK, TasksHaveSwaps, RowsComeFirst, PaidInTime,
     TasksAreRight, RowsAreRight, Evidence, Settled, Payments
<1>5. CASE CreateRow(s)
  BY <1>5 DEF CreateRow, TypeOK, TasksHaveSwaps, RowsComeFirst, PaidInTime,
     TasksAreRight, RowsAreRight, Evidence, Settled, Payments
<1>6. CASE CreateRaises(s)
  BY <1>6 DEF CreateRaises, TypeOK, TasksHaveSwaps, RowsComeFirst, PaidInTime,
     TasksAreRight, RowsAreRight, Evidence, Settled, Payments
<1> QED
  BY <1>1, <1>2, <1>3, <1>4, <1>5, <1>6

\* The steps of the user, of Boltz and of the chain.
LEMMA WorldKeepsIInv ==
    ASSUME IInv, NEW s \in Swaps,
           \/ \E coins \in {"locked", "short"} : Fund(s, coins)
           \/ Expire(s)
           \/ BoltzPays(s)
           \/ BoltzClaims(s)
    PROVE  IInv'
<1> USE DEF IInv
<1>1. CASE \E coins \in {"locked", "short"} : Fund(s, coins)
  BY <1>1 DEF Fund, TypeOK, TasksHaveSwaps, RowsComeFirst, PaidInTime,
     TasksAreRight, RowsAreRight, Evidence, Settled, Payments
<1>2. CASE Expire(s)
  BY <1>2 DEF Expire, TypeOK, TasksHaveSwaps, RowsComeFirst, PaidInTime,
     TasksAreRight, RowsAreRight, Evidence, Settled, Payments
<1>3. CASE BoltzPays(s)
  BY <1>3 DEF BoltzPays, Notify, TypeOK, TasksHaveSwaps, RowsComeFirst,
     PaidInTime, TasksAreRight, RowsAreRight, Evidence, Settled, Payments
<1>4. CASE BoltzClaims(s)
  BY <1>4 DEF BoltzClaims, TypeOK, TasksHaveSwaps, RowsComeFirst, PaidInTime,
     TasksAreRight, RowsAreRight, Evidence, Settled, Payments
<1> QED
  BY <1>1, <1>2, <1>3, <1>4

\* The steps that are about no swap.
LEMMA OthersKeepIInv ==
    ASSUME IInv,
           \/ ToggleAuto
           \/ OtherPayment
    PROVE  IInv'
<1> USE DEF IInv
<1>1. CASE ToggleAuto
  BY <1>1 DEF ToggleAuto, TypeOK, TasksHaveSwaps, RowsComeFirst, PaidInTime,
     TasksAreRight, RowsAreRight, Evidence, Settled, Payments
<1>2. CASE OtherPayment
  BY <1>2, NoSwapAssumption DEF OtherPayment, Notify, TypeOK, TasksHaveSwaps,
     RowsComeFirst, PaidInTime, TasksAreRight, RowsAreRight, Evidence, Settled,
     Payments
<1> QED
  BY <1>1, <1>2

\* The steps of the listener.
LEMMA ListenerKeepsIInv ==
    ASSUME IInv,
           ListenerStep
    PROVE  IInv'
<1> USE DEF IInv
<1>1. CASE ListenerGet
  BY <1>1 DEF ListenerGet, TypeOK, TasksHaveSwaps, RowsComeFirst, PaidInTime,
     TasksAreRight, RowsAreRight, Evidence, Settled, Payments
<1>2. CASE AutoCheckReturns
  BY <1>2 DEF AutoCheckReturns, TypeOK, TasksHaveSwaps, RowsComeFirst,
     PaidInTime, TasksAreRight, RowsAreRight, Evidence, Settled, Payments
<1>3. CASE AutoCheckRaises
  BY <1>3 DEF AutoCheckRaises, TypeOK, TasksHaveSwaps, RowsComeFirst,
     PaidInTime, TasksAreRight, RowsAreRight, Evidence, Settled, Payments
<1>4. CASE ListenerUpdate
  BY <1>4 DEF ListenerUpdate, UpdateSwapStatus, TypeOK, TasksHaveSwaps,
     RowsComeFirst, PaidInTime, TasksAreRight, RowsAreRight, Evidence, Settled,
     Payments
<1>5. CASE ListenerUpdateRaises
  BY <1>5 DEF ListenerUpdateRaises, TypeOK, TasksHaveSwaps, RowsComeFirst,
     PaidInTime, TasksAreRight, RowsAreRight, Evidence, Settled, Payments
<1>6. CASE ListenerRestart
  BY <1>6 DEF ListenerRestart, TypeOK, TasksHaveSwaps, RowsComeFirst,
     PaidInTime, TasksAreRight, RowsAreRight, Evidence, Settled, Payments
<1> QED
  BY <1>1, <1>2, <1>3, <1>4, <1>5, <1>6 DEF ListenerStep

\* The steps of the startup check.
LEMMA CheckKeepsIInv ==
    ASSUME IInv,
           CheckStep
    PROVE  IInv'
<1> USE DEF IInv
<1>1. CASE CheckRead
  BY <1>1 DEF CheckRead, TypeOK, TasksHaveSwaps, RowsComeFirst, PaidInTime,
     TasksAreRight, RowsAreRight, Evidence, Settled, Payments
<1>2. CASE CheckReadRaises
  BY <1>2 DEF CheckReadRaises, PaidUnnoticed, TypeOK, TasksHaveSwaps,
     RowsComeFirst, PaidInTime, TasksAreRight, RowsAreRight, Evidence, Settled,
     Payments
<1>3. CASE CheckEnd
  BY <1>3 DEF CheckEnd, TypeOK, TasksHaveSwaps, RowsComeFirst, PaidInTime,
     TasksAreRight, RowsAreRight, Evidence, Settled, Payments
<1>4. CASE \E s \in Swaps : CheckNext(s)
  BY <1>4 DEF CheckNext, TypeOK, TasksHaveSwaps, RowsComeFirst, PaidInTime,
     TasksAreRight, RowsAreRight, Evidence, Settled, Payments
<1>5. CASE CheckStatus
  BY <1>5 DEF CheckStatus, TypeOK, TasksHaveSwaps, RowsComeFirst, PaidInTime,
     TasksAreRight, RowsAreRight, Evidence, Settled, Payments
<1>6. CASE CheckSwapRaises
  BY <1>6 DEF CheckSwapRaises, PaidUnnoticed, TypeOK, TasksHaveSwaps,
     RowsComeFirst, PaidInTime, TasksAreRight, RowsAreRight, Evidence, Settled,
     Payments
<1>7. CASE CheckComplete
  BY <1>7 DEF CheckComplete, UpdateSwapStatus, TypeOK, TasksHaveSwaps,
     RowsComeFirst, PaidInTime, TasksAreRight, RowsAreRight, Evidence, Settled,
     Payments
<1>8. CASE CheckClient
  BY <1>8 DEF CheckClient, TypeOK, TasksHaveSwaps, RowsComeFirst, PaidInTime,
     TasksAreRight, RowsAreRight, Evidence, Settled, Payments
<1>9. CASE CheckNotFound
  BY <1>9 DEF CheckNotFound, TypeOK, TasksHaveSwaps, RowsComeFirst, PaidInTime,
     TasksAreRight, RowsAreRight, Evidence, Settled, Payments
<1>10. CASE CheckFailed
  BY <1>10 DEF CheckFailed, UpdateSwapStatus, TypeOK, TasksHaveSwaps,
     RowsComeFirst, PaidInTime, TasksAreRight, RowsAreRight, Evidence, Settled,
     Payments
<1>11. CASE CheckFailedRaises
  BY <1>11, NoSwapAssumption DEF CheckFailedRaises, PaidUnnoticed, TypeOK,
     TasksHaveSwaps, RowsComeFirst, PaidInTime, TasksAreRight, RowsAreRight,
     Evidence, Settled, Payments
<1> QED
  BY <1>1, <1>2, <1>3, <1>4, <1>5, <1>6, <1>7, <1>8, <1>9, <1>10, <1>11
  DEF CheckStep

\* The steps of a refund request.
LEMMA RefundKeepsIInv ==
    ASSUME IInv, NEW r \in Requests,
           \/ \E s \in Swaps : RefundRequest(r, s)
           \/ RefundClient(r)
           \/ RefundTx(r)
           \/ RefundBroadcast(r)
           \/ RefundAnswerLost(r)
           \/ RefundRejected(r)
           \/ RefundRaises(r)
           \/ RefundMark(r)
    PROVE  IInv'
<1> USE DEF IInv
<1>1. CASE \E s \in Swaps : RefundRequest(r, s)
  BY <1>1 DEF RefundRequest, TypeOK, TasksHaveSwaps, RowsComeFirst, PaidInTime,
     TasksAreRight, RowsAreRight, Evidence, Settled, Payments
<1>2. CASE RefundClient(r)
  BY <1>2 DEF RefundClient, TypeOK, TasksHaveSwaps, RowsComeFirst, PaidInTime,
     TasksAreRight, RowsAreRight, Evidence, Settled, Payments
<1>3. CASE RefundTx(r)
  BY <1>3 DEF RefundTx, TypeOK, TasksHaveSwaps, RowsComeFirst, PaidInTime,
     TasksAreRight, RowsAreRight, Evidence, Settled, Payments
<1>4. CASE RefundBroadcast(r)
  BY <1>4 DEF RefundBroadcast, TypeOK, TasksHaveSwaps, RowsComeFirst,
     PaidInTime, TasksAreRight, RowsAreRight, Evidence, Settled, Payments
<1>5. CASE RefundAnswerLost(r)
  BY <1>5 DEF RefundAnswerLost, TypeOK, TasksHaveSwaps, RowsComeFirst,
     PaidInTime, TasksAreRight, RowsAreRight, Evidence, Settled, Payments
<1>6. CASE RefundRejected(r)
  BY <1>6 DEF RefundRejected, TypeOK, TasksHaveSwaps, RowsComeFirst,
     PaidInTime, TasksAreRight, RowsAreRight, Evidence, Settled, Payments
<1>7. CASE RefundRaises(r)
  BY <1>7 DEF RefundRaises, TypeOK, TasksHaveSwaps, RowsComeFirst, PaidInTime,
     TasksAreRight, RowsAreRight, Evidence, Settled, Payments
<1>8. CASE RefundMark(r)
  BY <1>8 DEF RefundMark, UpdateSwapStatus, TypeOK, TasksHaveSwaps,
     RowsComeFirst, PaidInTime, TasksAreRight, RowsAreRight, Evidence, Settled,
     Payments
<1> QED
  BY <1>1, <1>2, <1>3, <1>4, <1>5, <1>6, <1>7, <1>8

\* The process starts, stops and dies.
LEMMA ProcessKeepsIInv ==
    ASSUME IInv,
           \/ Crash
           \/ BoltzStop
           \/ BoltzStart
    PROVE  IInv'
<1> USE DEF IInv
<1>1. CASE Crash
  BY <1>1 DEF Crash, TypeOK, TasksHaveSwaps, RowsComeFirst, PaidInTime,
     TasksAreRight, RowsAreRight, Evidence, Settled, Payments
<1>2. CASE BoltzStop
  BY <1>2 DEF BoltzStop, TypeOK, TasksHaveSwaps, RowsComeFirst, PaidInTime,
     TasksAreRight, RowsAreRight, Evidence, Settled, Payments
<1>3. CASE BoltzStart
  BY <1>3 DEF BoltzStart, TypeOK, TasksHaveSwaps, RowsComeFirst, PaidInTime,
     TasksAreRight, RowsAreRight, Evidence, Settled, Payments
<1> QED
  BY <1>1, <1>2, <1>3

LEMMA NextKeepsIInv == IInv /\ [Next]_vars => IInv'
<1> SUFFICES ASSUME IInv, [Next]_vars PROVE IInv'
  OBVIOUS
<1>1. CASE UNCHANGED vars
  BY <1>1 DEF vars, IInv, TypeOK, TasksHaveSwaps, RowsComeFirst, PaidInTime,
              TasksAreRight, RowsAreRight, Evidence
<1>2. CASE Next
  BY <1>2, CreateKeepsIInv, WorldKeepsIInv, OthersKeepIInv, ListenerKeepsIInv,
     CheckKeepsIInv, RefundKeepsIInv, ProcessKeepsIInv DEF Next, RefundStep,
     RefundProgress
<1> QED
  BY <1>1, <1>2

\* The inductive invariant holds in every reachable state.
THEOREM Invariance == Spec => []IInv
<1>1. Init => IInv
  BY InitIInv
<1>2. IInv /\ [Next]_vars => IInv'
  BY NextKeepsIInv
<1> QED
  BY <1>1, <1>2, PTL DEF Spec

\* Type correctness.
THEOREM TypeCorrectness == Spec => []TypeOK
<1>1. IInv => TypeOK
  BY DEF IInv
<1> QED
  BY <1>1, Invariance, PTL

-----------------------------------------------------------------------------
(***************************************************************************)
(* No task overwrites a settled row.                                       *)
(***************************************************************************)

LEMMA StepKeepsSettled ==
    ASSUME IInv, Next, NEW s \in Swaps, row[s] \in Settled, s \notin notFound
    PROVE  row'[s] = row[s]
<1> USE DEF IInv, TypeOK, TasksHaveSwaps, PaidInTime, TasksAreRight,
            RowsAreRight, Evidence, Settled
<1>1. CASE row' = row
  BY <1>1
<1>2. CASE \E t \in Swaps : CreateRow(t)
  BY <1>2 DEF CreateRow, RowsComeFirst
<1>3. CASE ListenerUpdate
  BY <1>3 DEF ListenerUpdate, UpdateSwapStatus
<1>4. CASE CheckComplete
  BY <1>4 DEF CheckComplete, UpdateSwapStatus
<1>5. CASE CheckFailed
  BY <1>5 DEF CheckFailed, UpdateSwapStatus
<1>6. CASE \E r \in Requests : RefundMark(r)
  BY <1>6 DEF RefundMark, UpdateSwapStatus
<1> QED
  BY <1>1, <1>2, <1>3, <1>4, <1>5, <1>6 DEF Next, ListenerStep, CheckStep,
     RefundStep, RefundProgress,
     CreateAllowed, CreateRefused, CreateInvoice, CreateAtBoltz, CreateRaises,
     ToggleAuto, Fund, Expire, BoltzPays, BoltzClaims, OtherPayment,
     ListenerGet, AutoCheckReturns, AutoCheckRaises, ListenerUpdateRaises,
     ListenerRestart, CheckRead, CheckReadRaises, CheckNext, CheckEnd,
     CheckStatus, CheckSwapRaises, CheckClient, CheckNotFound,
     CheckFailedRaises, RefundRequest, RefundClient, RefundTx, RefundBroadcast,
     RefundAnswerLost, RefundRejected, RefundRaises, Crash, BoltzStop,
     BoltzStart

\* A row is settled once, whoever settles it (SettledIsFinal).
THEOREM RowsSettleOnce == Spec => SettledIsFinal
<1> DEFINE Kept == \A s \in Swaps :
                       row[s] \in Settled /\ s \notin notFound =>
                           row'[s] = row[s]
<1>1. IInv /\ [Next]_vars => [Kept]_vars
  <2> SUFFICES ASSUME IInv, Next PROVE Kept
    BY DEF vars
  <2> QED
    BY StepKeepsSettled
<1>2. Spec => [][Kept]_vars
  BY <1>1, Invariance, PTL DEF Spec
<1> QED
  BY <1>2 DEF SettledIsFinal

-----------------------------------------------------------------------------
(***************************************************************************)
(* No payment is forgotten.                                                *)
(***************************************************************************)

\* One swap's part of NoPaymentForgotten.
Accounted(s) ==
    mode = "up" /\ invoice[s] = "paid" /\ row[s] # "complete" =>
        s \in missed \/ s \in notFound \/ Noticed(s) \/ WillBeChecked(s)

\* A paid swap that is neither complete nor failed has a pending row: this is
\* why the startup check, which reads the pending rows, finds it.
LEMMA PaidIsPending ==
    ASSUME IInv, NEW s \in Swaps, invoice[s] = "paid", row[s] # "complete",
           s \notin notFound
    PROVE  row[s] = "pending"
BY DEF IInv, TypeOK, RowsComeFirst, PaidInTime, RowsAreRight, Evidence, Settled

LEMMA ListenerAccounts ==
    ASSUME IInv, ListenerStep, NEW s \in Swaps, Accounted(s)
    PROVE  Accounted(s)'
<1> USE NoSwapAssumption DEF Accounted, Noticed, WillBeChecked
<1>1. CASE ListenerGet
  <2>1. queue \in Seq(Payments) /\ queue # <<>>
    BY <1>1 DEF ListenerGet, IInv, TypeOK
  <2>2. ASSUME NEW i \in 1..Len(queue), queue[i] = s
        PROVE  Noticed(s)'
    <3>1. CASE i = 1
      BY <3>1, <2>1, <2>2, <1>1 DEF ListenerGet
    <3>2. CASE i # 1
      <4>1. i - 1 \in 1..Len(Tail(queue)) /\ Tail(queue)[i - 1] = s
        BY <3>2, <2>1, <2>2
      <4> QED
        BY <4>1, <1>1 DEF ListenerGet
    <3> QED
      BY <3>1, <3>2
  <2> QED
    BY <2>2, <1>1 DEF ListenerGet
<1>2. CASE AutoCheckReturns
  BY <1>2 DEF AutoCheckReturns
<1>3. CASE AutoCheckRaises
  BY <1>3 DEF AutoCheckRaises
<1>4. CASE ListenerUpdate
  <2>1. CASE current = s
    <3>1. row[s] # "none"
      BY <1>4, <2>1 DEF ListenerUpdate, IInv, TasksAreRight, PaidInTime,
                        RowsComeFirst
    <3> QED
      BY <1>4, <2>1, <3>1 DEF ListenerUpdate, UpdateSwapStatus, IInv, TypeOK
  <2>2. CASE current # s
    BY <1>4, <2>2 DEF ListenerUpdate, UpdateSwapStatus, IInv, TypeOK
  <2> QED
    BY <2>1, <2>2
<1>5. CASE ListenerUpdateRaises
  BY <1>5 DEF ListenerUpdateRaises
<1>6. CASE ListenerRestart
  BY <1>6 DEF ListenerRestart
<1> QED
  BY <1>1, <1>2, <1>3, <1>4, <1>5, <1>6 DEF ListenerStep

LEMMA CheckAccounts ==
    ASSUME IInv, CheckStep, NEW s \in Swaps, Accounted(s)
    PROVE  Accounted(s)'
<1> USE DEF Accounted, Noticed, WillBeChecked
<1>1. CASE CheckRead
  BY <1>1, PaidIsPending DEF CheckRead
<1>2. CASE CheckReadRaises
  BY <1>2 DEF CheckReadRaises, PaidUnnoticed
<1>3. CASE CheckEnd
  BY <1>3 DEF CheckEnd
<1>4. CASE \E t \in Swaps : CheckNext(t)
  BY <1>4 DEF CheckNext
<1>5. CASE CheckStatus
  BY <1>5 DEF CheckStatus
<1>6. CASE CheckSwapRaises
  BY <1>6 DEF CheckSwapRaises, PaidUnnoticed
<1>7. CASE CheckComplete
  <2>1. CASE checking = s
    <3>1. row[s] # "none"
      BY <1>7, <2>1 DEF CheckComplete, IInv, TasksAreRight, PaidInTime,
                        RowsComeFirst
    <3> QED
      BY <1>7, <2>1, <3>1 DEF CheckComplete, UpdateSwapStatus, IInv, TypeOK
  <2>2. CASE checking # s
    BY <1>7, <2>2 DEF CheckComplete, UpdateSwapStatus, IInv, TypeOK
  <2> QED
    BY <2>1, <2>2
<1>8. CASE CheckClient
  BY <1>8 DEF CheckClient
<1>9. CASE CheckNotFound
  BY <1>9 DEF CheckNotFound
<1>10. CASE CheckFailed
  BY <1>10 DEF CheckFailed, UpdateSwapStatus, IInv, TypeOK, TasksAreRight
<1>11. CASE CheckFailedRaises
  BY <1>11 DEF CheckFailedRaises, PaidUnnoticed
<1> QED
  BY <1>1, <1>2, <1>3, <1>4, <1>5, <1>6, <1>7, <1>8, <1>9, <1>10, <1>11
  DEF CheckStep

\* Everything a running extension is told of goes into its queue.
LEMMA NotifyAccounts ==
    ASSUME IInv, NEW s \in Swaps, NEW p \in Payments, mode = "up", Notify(p),
           UNCHANGED <<listener, current>>, s = p \/ Noticed(s)
    PROVE  Noticed(s)'
<1>1. queue \in Seq(Payments) /\ queue' = Append(queue, p)
  BY DEF IInv, TypeOK, Notify
<1>2. Len(queue') = Len(queue) + 1 /\ queue'[Len(queue) + 1] = p
  BY <1>1
<1>3. \A i \in 1..Len(queue) : queue'[i] = queue[i] /\ i \in 1..Len(queue')
  BY <1>1
<1>4. CASE s = p
  BY <1>1, <1>2, <1>4 DEF Noticed
<1>5. CASE Noticed(s)
  BY <1>3, <1>5 DEF Noticed
<1> QED
  BY <1>4, <1>5

LEMMA StepAccounts ==
    ASSUME IInv, Next, NEW s \in Swaps, Accounted(s)
    PROVE  Accounted(s)'
<1> USE DEF Accounted, WillBeChecked
<1>1. CASE \E t \in Swaps : BoltzPays(t)
  <2>1. PICK t \in Swaps : BoltzPays(t)
    BY <1>1
  <2>2. ASSUME mode = "up", s = t \/ Noticed(s)
        PROVE  Noticed(s)'
    BY <2>1, <2>2, NotifyAccounts DEF BoltzPays, Payments
  <2> QED
    BY <2>1, <2>2 DEF BoltzPays, IInv, TypeOK
<1>2. CASE OtherPayment
  BY <1>2, NotifyAccounts DEF OtherPayment, Payments
<1>3. CASE \E t \in Swaps : CreateInvoice(t) \/ CreateRow(t)
  BY <1>3 DEF CreateInvoice, CreateRow, IInv, TypeOK, RowsComeFirst,
              PaidInTime, Noticed
<1>4. CASE \E r \in Requests : RefundMark(r)
  BY <1>4 DEF RefundMark, UpdateSwapStatus, IInv, TypeOK, TasksAreRight,
              PaidInTime, TasksHaveSwaps, Noticed
<1>5. CASE ListenerStep \/ CheckStep
  BY <1>5, ListenerAccounts, CheckAccounts
<1>6. CASE BoltzStart \/ BoltzStop \/ Crash
  BY <1>6 DEF BoltzStart, BoltzStop, Crash
<1>7. CASE UNCHANGED <<row, mode, listening, checker, invoice, notFound,
                       missed>>
  BY <1>7 DEF Noticed
<1> QED
  BY <1>1, <1>2, <1>3, <1>4, <1>5, <1>6, <1>7 DEF Next, RefundStep,
     RefundProgress,
     CreateAllowed, CreateRefused, CreateAtBoltz, CreateRaises, ToggleAuto,
     Fund, Expire, BoltzClaims, RefundRequest, RefundClient, RefundTx,
     RefundBroadcast, RefundAnswerLost, RefundRejected, RefundRaises

\* While the extension runs, every paid swap that is not complete is on its
\* way to it or among those a named exception dropped (NoPaymentForgotten).
THEOREM PaymentsAccountedFor == Spec => []NoPaymentForgotten
<1> DEFINE All == \A s \in Swaps : Accounted(s)
<1>1. Init => All
  BY DEF Init, Accounted
<1>2. IInv /\ All /\ [Next]_vars => All'
  <2> SUFFICES ASSUME IInv, All, [Next]_vars, NEW s \in Swaps
               PROVE  Accounted(s)'
    OBVIOUS
  <2>1. CASE Next
    BY <2>1, StepAccounts
  <2>2. CASE UNCHANGED vars
    BY <2>2 DEF vars, Accounted, Noticed, WillBeChecked
  <2> QED
    BY <2>1, <2>2
<1>3. All => NoPaymentForgotten
  BY DEF Accounted, NoPaymentForgotten
<1> QED
  BY <1>1, <1>2, <1>3, Invariance, PTL DEF Spec

-----------------------------------------------------------------------------
(***************************************************************************)
(* SubmarineSwap implements SwapRecord.                                    *)
(***************************************************************************)

LEMMA InitRefines == Init => Record!Init
BY DEF Init, Record!Init, Evidence, Settled

\* The refinement mapping of SwapRecord's evidence.
evidenceBar == [s \in Swaps |-> Evidence(s)]

\* A step that gives no evidence.
LEMMA NoEvidence ==
    ASSUME UNCHANGED notFound,
           \A s \in Swaps :
               /\ invoice'[s] = "paid" <=> invoice[s] = "paid"
               /\ onchain'[s] = "refunded" <=> onchain[s] = "refunded"
    PROVE  UNCHANGED evidenceBar
BY DEF evidenceBar, Evidence, Settled

\* A step that gives evidence of outcome o for swap c.
LEMMA NewEvidence ==
    ASSUME NEW c \in Swaps, NEW o \in Settled,
           \A s \in Swaps :
               /\ invoice'[s] = "paid" <=>
                      invoice[s] = "paid" \/ (s = c /\ o = "complete")
               /\ onchain'[s] = "refunded" <=>
                      onchain[s] = "refunded" \/ (s = c /\ o = "refunded")
               /\ s \in notFound' <=>
                      s \in notFound \/ (s = c /\ o = "failed")
    PROVE  evidenceBar' = [evidenceBar EXCEPT ![c] = @ \cup {o}]
<1>1. evidenceBar'[c] = evidenceBar[c] \cup {o}
  <2>1. \A x \in Settled : x \in evidenceBar'[c] <=>
                             x \in evidenceBar[c] \/ x = o
    BY DEF evidenceBar, Evidence, Settled
  <2>2. evidenceBar'[c] \subseteq Settled /\ evidenceBar[c] \subseteq Settled
    BY DEF evidenceBar, Evidence
  <2> QED
    BY <2>1, <2>2
<1>2. \A s \in Swaps : s # c => evidenceBar'[s] = evidenceBar[s]
  <2> SUFFICES ASSUME NEW s \in Swaps, s # c
               PROVE  evidenceBar'[s] = evidenceBar[s]
    OBVIOUS
  <2>1. \A x \in Settled : x \in evidenceBar'[s] <=> x \in evidenceBar[s]
    BY DEF evidenceBar, Evidence, Settled
  <2>2. evidenceBar'[s] \subseteq Settled /\ evidenceBar[s] \subseteq Settled
    BY DEF evidenceBar, Evidence
  <2> QED
    BY <2>1, <2>2
<1>3. /\ evidenceBar = [s \in Swaps |-> evidenceBar[s]]
      /\ evidenceBar' = [s \in Swaps |-> evidenceBar'[s]]
  BY DEF evidenceBar
<1> QED
  BY <1>1, <1>2, <1>3

LEMMA StepRefines == IInv /\ [Next]_vars => [Record!Next]_(Record!vars)
<1> SUFFICES ASSUME IInv, [Next]_vars
             PROVE  Record!Next \/ UNCHANGED Record!vars
  OBVIOUS
<1> USE DEF IInv, TypeOK
<1>1. ASSUME NEW c \in Swaps, NEW o \in Settled, UNCHANGED row,
             evidenceBar' = [evidenceBar EXCEPT ![c] = @ \cup {o}]
      PROVE  Record!Next
  BY <1>1 DEF Record!Next, Record!Learn, Record!Outcomes, Settled, evidenceBar
<1>2. ASSUME UNCHANGED row, UNCHANGED evidenceBar
      PROVE  UNCHANGED Record!vars
  BY <1>2 DEF Record!vars, evidenceBar
<1>3. ASSUME NEW c \in Swaps, NEW o \in Settled, o \in Evidence(c),
             UpdateSwapStatus(c, o), UNCHANGED evidenceBar
      PROVE  Record!Next \/ UNCHANGED Record!vars
  <2>1. CASE row[c] = "none"
    BY <2>1, <1>2, <1>3 DEF UpdateSwapStatus
  <2>2. CASE row[c] # "none"
    <3>1. row' = [row EXCEPT ![c] = o] /\ o \in evidenceBar[c]
      BY <2>2, <1>3 DEF UpdateSwapStatus, evidenceBar
    <3> QED
      BY <2>2, <3>1, <1>3 DEF Record!Next, Record!Record, Record!Outcomes,
                              Settled, evidenceBar
  <2> QED
    BY <2>1, <2>2
<1>4. CASE \E s \in Swaps : CreateRow(s)
  <2>1. PICK s \in Swaps : CreateRow(s)
    BY <1>4
  <2>2. row[s] = "none" /\ UNCHANGED evidenceBar
    BY <2>1, NoEvidence DEF CreateRow, RowsComeFirst
  <2> QED
    BY <2>1, <2>2 DEF CreateRow, Record!Next, Record!Open, evidenceBar
<1>5. CASE \E s \in Swaps : BoltzPays(s)
  <2>1. PICK s \in Swaps : BoltzPays(s)
    BY <1>5
  <2>2. evidenceBar' = [evidenceBar EXCEPT ![s] = @ \cup {"complete"}]
    BY <2>1, NewEvidence DEF BoltzPays, Settled
  <2> QED
    BY <2>1, <2>2, <1>1 DEF BoltzPays, Settled
<1>6. CASE \E r \in Requests : RefundBroadcast(r) \/ RefundAnswerLost(r)
  <2>1. PICK r \in Requests : RefundBroadcast(r) \/ RefundAnswerLost(r)
    BY <1>6
  <2>2. PICK s \in Swaps : s = refundOf[r]
    BY <2>1 DEF RefundBroadcast, RefundAnswerLost, TasksHaveSwaps
  <2>3. evidenceBar' = [evidenceBar EXCEPT ![s] = @ \cup {"refunded"}]
    BY <2>1, <2>2, NewEvidence DEF RefundBroadcast, RefundAnswerLost, Settled
  <2> QED
    BY <2>1, <2>3, <1>1 DEF RefundBroadcast, RefundAnswerLost, Settled
<1>7. CASE CheckNotFound
  <2>1. PICK s \in Swaps : s = checking
    BY <1>7 DEF CheckNotFound, TasksHaveSwaps
  <2>2. evidenceBar' = [evidenceBar EXCEPT ![s] = @ \cup {"failed"}]
    BY <1>7, <2>1, NewEvidence DEF CheckNotFound, Settled
  <2> QED
    BY <1>7, <2>2, <1>1 DEF CheckNotFound, Settled
<1>8. CASE ListenerUpdate
  <2>1. "complete" \in Evidence(current)
    BY <1>8 DEF ListenerUpdate, TasksHaveSwaps, TasksAreRight, Evidence,
                Settled
  <2> QED
    BY <1>8, <2>1, <1>3, NoEvidence DEF ListenerUpdate, TasksHaveSwaps, Settled
<1>9. CASE CheckComplete
  <2>1. "complete" \in Evidence(checking)
    BY <1>9 DEF CheckComplete, TasksAreRight, Evidence, Settled
  <2> QED
    BY <1>9, <2>1, <1>3, NoEvidence DEF CheckComplete, TasksHaveSwaps, Settled
<1>10. CASE CheckFailed
  <2>1. "failed" \in Evidence(checking)
    BY <1>10 DEF CheckFailed, TasksAreRight, Evidence, Settled
  <2> QED
    BY <1>10, <2>1, <1>3, NoEvidence DEF CheckFailed, TasksHaveSwaps, Settled
<1>11. CASE \E r \in Requests : RefundMark(r)
  <2>1. PICK r \in Requests : RefundMark(r)
    BY <1>11
  <2>2. refundOf[r] \in Swaps /\ "refunded" \in Evidence(refundOf[r])
    BY <2>1 DEF RefundMark, TasksHaveSwaps, TasksAreRight, Evidence, Settled
  <2> QED
    BY <2>1, <2>2, <1>3, NoEvidence DEF RefundMark, Settled
<1>12. CASE \E s \in Swaps :
               \/ CreateInvoice(s) \/ BoltzClaims(s)
               \/ \E coins \in {"locked", "short"} : Fund(s, coins)
  <2>1. UNCHANGED row /\ UNCHANGED evidenceBar
    BY <1>12, NoEvidence DEF CreateInvoice, BoltzClaims, Fund, RowsComeFirst,
                             PaidInTime
  <2> QED
    BY <2>1, <1>2
<1>13. CASE UNCHANGED <<row, notFound, invoice, onchain>>
  BY <1>13, <1>2, NoEvidence
<1> QED
  BY <1>4, <1>5, <1>6, <1>7, <1>8, <1>9, <1>10, <1>11, <1>12, <1>13
  DEF vars, Next, ListenerStep, CheckStep, RefundStep, RefundProgress,
     CreateAllowed, CreateRefused, CreateAtBoltz, CreateRaises, ToggleAuto,
     Expire, OtherPayment, ListenerGet, AutoCheckReturns, AutoCheckRaises,
     ListenerUpdateRaises, ListenerRestart, CheckRead, CheckReadRaises,
     CheckNext, CheckEnd, CheckStatus, CheckSwapRaises, CheckClient,
     CheckFailedRaises, RefundRequest, RefundClient, RefundTx, RefundRejected,
     RefundRaises, Crash, BoltzStop, BoltzStart

\* Whatever is written into a row has happened: SubmarineSwap implements
\* SwapRecord (RowsAreJustified).
THEOREM ImplementsSwapRecord == Spec => RowsAreJustified
<1>1. Spec => Record!Init /\ [][Record!Next]_(Record!vars)
  BY InitRefines, StepRefines, Invariance, PTL DEF Spec
<1> QED
  BY <1>1 DEF RowsAreJustified, Record!Spec

-----------------------------------------------------------------------------
(***************************************************************************)
(* No await is left without an answer.  A guard below is the disjunction   *)
(* of the guards of the actions that make up a step of the task, as they   *)
(* are written: where it holds the step changes where the task awaits, so  *)
(* that ENABLED of the step is true by what ENABLED means.  The prover     *)
(* knows no more of ENABLED than its name: GuardsSuffice is the hypothesis *)
(* of what follows about fairness.  That wherever a task awaits a guard    *)
(* does hold is proved.                                                    *)
(***************************************************************************)

ListenerGuard ==
    \/ listener = "wait" /\ queue # <<>>
    \/ listener = "auto" /\ (current = NoSwap \/ current # NoSwap)
    \/ listener = "update"
    \/ listener = "sleep"

CheckGuard ==
    \/ checkPc = "read"
    \/ checkPc = "next" /\ todo = {}
    \/ \E s \in Swaps : checkPc = "next" /\ s \in todo
    \/ /\ checkPc = "status"
       /\ invoice[checking] = "paid" \/ invoice[checking] # "paid"
    \/ checkPc = "complete"
    \/ checkPc = "client"
    \/ checkPc = "failed"

RefundGuard(r) ==
    \/ refundPc[r] = "client"
    \/ refundPc[r] = "waitTx" /\ onchain[refundOf[r]] # "none"
    \/ /\ refundPc[r] = "broadcast"
       /\ refundOf[r] \in expired
       /\ onchain[refundOf[r]] \in {"locked", "short", "refunded"}
    \/ /\ refundPc[r] = "broadcast"
       /\ \/ refundOf[r] \notin expired
          \/ onchain[refundOf[r]] \in {"claimed", "refunded"}
    \/ refundPc[r] = "mark"

GuardsSuffice ==
    /\ ListenerGuard => ENABLED <<ListenerStep>>_vars
    /\ CheckGuard => ENABLED <<CheckStep>>_vars
    /\ \A r \in Requests : RefundGuard(r) => ENABLED <<RefundProgress(r)>>_vars

\* Coins that were sent are not unsent.
LEMMA CoinsStay ==
    ASSUME IInv, [Next]_vars, NEW s \in Swaps, onchain[s] # "none"
    PROVE  onchain'[s] # "none"
<1> USE DEF IInv, TypeOK
<1>1. CASE \E t \in Swaps :
               \/ \E coins \in {"locked", "short"} : Fund(t, coins)
               \/ BoltzClaims(t)
  BY <1>1 DEF Fund, BoltzClaims
<1>2. CASE \E r \in Requests : RefundBroadcast(r) \/ RefundAnswerLost(r)
  BY <1>2 DEF RefundBroadcast, RefundAnswerLost
<1>3. CASE UNCHANGED onchain
  BY <1>3
<1> QED
  BY <1>1, <1>2, <1>3 DEF Next, vars, ListenerStep, CheckStep, RefundStep,
     RefundProgress, CreateAllowed, CreateRefused, CreateInvoice,
     CreateAtBoltz, CreateRow, CreateRaises, ToggleAuto, Expire, BoltzPays,
     OtherPayment, ListenerGet, AutoCheckReturns, AutoCheckRaises,
     ListenerUpdate, ListenerUpdateRaises, ListenerRestart, CheckRead,
     CheckReadRaises, CheckNext, CheckEnd, CheckStatus, CheckSwapRaises,
     CheckComplete, CheckClient, CheckNotFound, CheckFailed, CheckFailedRaises,
     RefundRequest, RefundClient, RefundTx, RefundRejected, RefundRaises,
     RefundMark, Crash, BoltzStop, BoltzStart

\* A refund request asks for the transaction to be broadcast only after it
\* was shown the coins it spends, and nobody can unsend them.
CoinsAreThere ==
    \A r \in Requests :
        refundPc[r] = "broadcast" => onchain[refundOf[r]] # "none"

LEMMA CoinsAreThereKept ==
    ASSUME IInv, CoinsAreThere, [Next]_vars
    PROVE  CoinsAreThere'
<1> SUFFICES ASSUME NEW r \in Requests, refundPc'[r] = "broadcast"
             PROVE  onchain'[refundOf'[r]] # "none"
  BY DEF CoinsAreThere
<1> USE DEF IInv, TypeOK
<1>1. CASE RefundTx(r)
  BY <1>1 DEF RefundTx
<1>2. CASE refundPc[r] = "broadcast" /\ refundOf'[r] = refundOf[r]
  <2>1. refundOf[r] \in Swaps /\ onchain[refundOf[r]] # "none"
    BY <1>2 DEF TasksHaveSwaps, CoinsAreThere
  <2> QED
    BY <1>2, <2>1, CoinsStay
<1>3. CASE \E q \in Requests :
               \/ \E s \in Swaps : RefundRequest(q, s)
               \/ RefundStep(q)
  <2>1. \/ RefundTx(r)
        \/ refundPc[r] = "broadcast" /\ refundOf'[r] = refundOf[r]
    BY <1>3 DEF RefundRequest, RefundStep, RefundProgress, RefundClient,
       RefundTx, RefundBroadcast, RefundRejected, RefundMark,
       RefundAnswerLost, RefundRaises
  <2> QED
    BY <1>1, <1>2, <2>1
<1>4. CASE Crash
  BY <1>4 DEF Crash
<1>5. CASE UNCHANGED refunds
  BY <1>2, <1>5
<1> QED
  BY <1>3, <1>4, <1>5 DEF Next, vars, ListenerStep, CheckStep,
     CreateAllowed, CreateRefused, CreateInvoice, CreateAtBoltz, CreateRow,
     CreateRaises, ToggleAuto, Fund, Expire, BoltzPays, BoltzClaims,
     OtherPayment, ListenerGet, AutoCheckReturns, AutoCheckRaises,
     ListenerUpdate, ListenerUpdateRaises, ListenerRestart, CheckRead,
     CheckReadRaises, CheckNext, CheckEnd, CheckStatus, CheckSwapRaises,
     CheckComplete, CheckClient, CheckNotFound, CheckFailed, CheckFailedRaises,
     BoltzStop, BoltzStart

\* Wherever a task awaits, but for an empty queue and a lockup that is not
\* there, one of its actions has its guard: whatever was claimed, refunded,
\* settled or expired since the task looked, there is an answer it goes on
\* from.
TasksHaveGuards ==
    /\ \/ listener \notin {"off", "wait"}
       \/ listener = "wait" /\ queue # <<>>
       => ListenerGuard
    /\ checkPc # "off" => CheckGuard
    /\ \A r \in Requests :
           \/ refundPc[r] \in {"client", "broadcast", "mark"}
           \/ refundPc[r] = "waitTx" /\ onchain[refundOf[r]] # "none"
           => RefundGuard(r)

THEOREM TasksAlwaysHaveGuards == Spec => []TasksHaveGuards
<1>1. Init => CoinsAreThere
  BY DEF Init, CoinsAreThere
<1>2. IInv /\ CoinsAreThere /\ [Next]_vars => CoinsAreThere'
  BY CoinsAreThereKept
<1>3. IInv /\ CoinsAreThere => TasksHaveGuards
  <2> SUFFICES ASSUME IInv, CoinsAreThere PROVE TasksHaveGuards
    OBVIOUS
  <2> USE DEF IInv, TypeOK
  <2>1. \/ listener \notin {"off", "wait"}
        \/ listener = "wait" /\ queue # <<>>
        => ListenerGuard
    BY DEF ListenerGuard
  <2>2. checkPc # "off" => CheckGuard
    BY DEF CheckGuard
  <2>3. ASSUME NEW r \in Requests, refundPc[r] = "broadcast"
        PROVE  RefundGuard(r)
    <3>1. /\ refundOf[r] \in Swaps
          /\ onchain[refundOf[r]] \in {"locked", "short", "claimed",
                                       "refunded"}
      BY <2>3 DEF TasksHaveSwaps, CoinsAreThere
    <3> QED
      BY <2>3, <3>1 DEF RefundGuard
  <2> QED
    BY <2>1, <2>2, <2>3 DEF TasksHaveGuards, RefundGuard
<1> QED
  BY <1>1, <1>2, <1>3, Invariance, PTL DEF Spec

-----------------------------------------------------------------------------
(***************************************************************************)
(* Every refund request is answered.                                       *)
(***************************************************************************)

\* Refund request r is about swap s and has come to its await pc.
RefundAt(r, s, pc) == refundPc[r] = pc /\ refundOf[r] = s

\* Whatever runs beside it, a refund request stays where it is, goes on to
\* its next await, or ends.
LEMMA RefundMoves ==
    ASSUME IInv, [Next]_vars, NEW r \in Requests, NEW s \in Swaps,
           NEW pc, pc # "idle", RefundAt(r, s, pc)
    PROVE  \/ refundPc'[r] = "idle"
           \/ RefundAt(r, s, pc)'
           \/ pc = "client" /\ RefundAt(r, s, "waitTx")'
           \/ pc = "waitTx" /\ RefundAt(r, s, "broadcast")'
           \/ pc = "broadcast" /\ RefundAt(r, s, "mark")'
<1> USE DEF RefundAt, IInv, TypeOK
<1>1. CASE \E q \in Requests :
               \/ \E t \in Swaps : RefundRequest(q, t)
               \/ RefundStep(q)
  BY <1>1 DEF RefundStep, RefundProgress, RefundRequest, RefundClient,
     RefundTx, RefundBroadcast, RefundRejected, RefundMark, RefundAnswerLost,
     RefundRaises
<1>2. CASE Crash
  BY <1>2 DEF Crash
<1>3. CASE UNCHANGED refunds
  BY <1>3
<1> QED
  BY <1>1, <1>2, <1>3 DEF Next, vars, ListenerStep, CheckStep,
     CreateAllowed, CreateRefused, CreateInvoice, CreateAtBoltz, CreateRow,
     CreateRaises, ToggleAuto, Fund, Expire, BoltzPays, BoltzClaims,
     OtherPayment, ListenerGet, AutoCheckReturns, AutoCheckRaises,
     ListenerUpdate, ListenerUpdateRaises, ListenerRestart, CheckRead,
     CheckReadRaises, CheckNext, CheckEnd, CheckStatus, CheckSwapRaises,
     CheckComplete, CheckClient, CheckNotFound, CheckFailed, CheckFailedRaises,
     BoltzStop, BoltzStart

\* A step of its own takes a refund request on.
LEMMA RefundLeaves ==
    ASSUME IInv, NEW r \in Requests, NEW s \in Swaps, NEW pc,
           RefundAt(r, s, pc), RefundProgress(r)
    PROVE  ~RefundAt(r, s, pc)'
BY DEF RefundAt, IInv, TypeOK, RefundProgress, RefundClient, RefundTx,
   RefundBroadcast, RefundRejected, RefundMark

LEMMA RefundAnswers ==
    ASSUME NEW r \in Requests, NEW s \in Swaps
    PROVE  /\ Spec /\ RefundFairness(r) /\ []GuardsSuffice
           => RefundAnswered(r, s)
<1> DEFINE Waits == RefundAt(r, s, "waitTx") /\ onchain[s] # "none"
           Broadcasts == RefundAt(r, s, "broadcast")
           Marks == RefundAt(r, s, "mark")
           Idle == refundPc[r] = "idle"
<1>1. IInv /\ [Next]_vars =>
          /\ Waits => Waits' \/ Broadcasts' \/ Idle'
          /\ Broadcasts => Broadcasts' \/ Marks' \/ Idle'
          /\ Marks => Marks' \/ Idle'
  BY RefundMoves, CoinsStay
<1>2. IInv /\ <<RefundProgress(r)>>_vars =>
          /\ Waits => ~Waits'
          /\ Broadcasts => ~Broadcasts'
          /\ Marks => ~Marks'
  BY RefundLeaves
<1>3. TasksHaveGuards /\ GuardsSuffice /\ (Waits \/ Broadcasts \/ Marks) =>
          ENABLED <<RefundProgress(r)>>_vars
  BY DEF TasksHaveGuards, GuardsSuffice, RefundAt
<1>4. (refundPc[r] = "waitTx" /\ refundOf[r] = s /\ onchain[s] # "none")
          <=> Waits
  BY DEF RefundAt
<1>5. Spec /\ RefundFairness(r) /\ []GuardsSuffice => (Waits ~> Idle)
  <2> HIDE DEF Waits, Broadcasts, Marks, Idle
  <2> QED
    BY <1>1, <1>2, <1>3, Invariance, TasksAlwaysHaveGuards, PTL DEF Spec,
       RefundFairness
<1> QED
  BY <1>4, <1>5, PTL DEF RefundAnswered

\* No request waits for ever for a refund whose lockup Boltz has seen
\* (RefundIsAnswered): however many requests run beside it, and whether its
\* coins suffice, are claimed, or are refunded by another request.
THEOREM RefundsAreAnswered == FairSpec /\ []GuardsSuffice => RefundIsAnswered
<1>1. ASSUME NEW r \in Requests, NEW s \in Swaps
      PROVE  FairSpec /\ []GuardsSuffice => RefundAnswered(r, s)
  <2>1. RefundsFairness => RefundFairness(r)
    BY DEF RefundsFairness
  <2> QED
    BY <2>1, RefundAnswers, PTL DEF FairSpec, Fairness
<1> QED
  BY <1>1 DEF RefundIsAnswered

-----------------------------------------------------------------------------
(***************************************************************************)
(* The startup check goes on.                                              *)
(***************************************************************************)

\* The tasks of boltz_start run while the extension does.
TasksRunWhenUp ==
    /\ mode = "up" <=> listener # "off"
    /\ mode # "up" => checkPc = "off"

LEMMA TasksRun == Spec => []TasksRunWhenUp
<1>1. Init => TasksRunWhenUp
  BY DEF Init, TasksRunWhenUp
<1>2. TasksRunWhenUp /\ [Next]_vars => TasksRunWhenUp'
  <2> SUFFICES ASSUME TasksRunWhenUp, [Next]_vars PROVE TasksRunWhenUp'
    OBVIOUS
  <2> USE DEF TasksRunWhenUp
  <2>1. CASE ListenerStep
    BY <2>1 DEF ListenerStep, ListenerGet, AutoCheckReturns, AutoCheckRaises,
       ListenerUpdate, ListenerUpdateRaises, ListenerRestart
  <2>2. CASE CheckStep
    BY <2>2 DEF CheckStep, CheckRead, CheckReadRaises, CheckNext, CheckEnd,
       CheckStatus, CheckSwapRaises, CheckComplete, CheckClient,
       CheckNotFound, CheckFailed, CheckFailedRaises
  <2>3. CASE Crash \/ BoltzStop \/ BoltzStart
    BY <2>3 DEF Crash, BoltzStop, BoltzStart
  <2>4. CASE UNCHANGED <<mode, listener, checkPc>>
    BY <2>4
  <2> QED
    BY <2>1, <2>2, <2>3, <2>4 DEF Next, vars, RefundStep, RefundProgress,
       CreateAllowed, CreateRefused, CreateInvoice, CreateAtBoltz, CreateRow,
       CreateRaises, ToggleAuto, Fund, Expire, BoltzPays, BoltzClaims,
       OtherPayment, RefundRequest, RefundClient, RefundTx, RefundBroadcast,
       RefundAnswerLost, RefundRejected, RefundRaises, RefundMark
<1> QED
  BY <1>1, <1>2, PTL DEF Spec

\* The startup check has read its rows, is at pc, and has rest before it.
CheckAt(pc, rest) == checkPc = pc /\ todo = rest

\* It has less than rest before it.
LessThan(rest) ==
    checkPc \notin {"off", "read"} /\ todo \subseteq rest /\ todo # rest

LEMMA CheckMoves ==
    ASSUME IInv, TasksRunWhenUp, [Next]_vars, NEW pc, NEW rest,
           CheckAt(pc, rest), pc \notin {"off", "read"}
    PROVE  \/ checkPc' = "off"
           \/ CheckAt(pc, rest)'
           \/ pc = "next" /\ LessThan(rest)'
           \/ pc # "next" /\ CheckAt("next", rest)'
           \/ pc = "status" /\ CheckAt("complete", rest)'
           \/ pc = "status" /\ CheckAt("client", rest)'
           \/ pc = "client" /\ CheckAt("failed", rest)'
<1> USE DEF CheckAt, LessThan, IInv, TypeOK, TasksRunWhenUp
<1>1. CASE CheckStep
  BY <1>1 DEF CheckStep, CheckRead, CheckReadRaises, CheckNext, CheckEnd,
     CheckStatus, CheckSwapRaises, CheckComplete, CheckClient,
     CheckNotFound, CheckFailed, CheckFailedRaises
<1>2. CASE Crash \/ BoltzStop \/ BoltzStart
  BY <1>2 DEF Crash, BoltzStop, BoltzStart
<1>3. CASE UNCHANGED checker
  BY <1>3
<1> QED
  BY <1>1, <1>2, <1>3 DEF Next, vars, ListenerStep, RefundStep,
     RefundProgress, CreateAllowed, CreateRefused, CreateInvoice,
     CreateAtBoltz, CreateRow, CreateRaises, ToggleAuto, Fund, Expire,
     BoltzPays, BoltzClaims, OtherPayment, ListenerGet, AutoCheckReturns,
     AutoCheckRaises, ListenerUpdate, ListenerUpdateRaises, ListenerRestart,
     RefundRequest, RefundClient, RefundTx, RefundBroadcast, RefundAnswerLost,
     RefundRejected, RefundRaises, RefundMark

LEMMA CheckLeaves ==
    ASSUME IInv, NEW pc, NEW rest, CheckAt(pc, rest), CheckStep
    PROVE  ~CheckAt(pc, rest)'
BY DEF CheckAt, IInv, TypeOK, CheckStep, CheckRead, CheckReadRaises,
   CheckNext, CheckEnd, CheckStatus, CheckSwapRaises, CheckComplete,
   CheckClient, CheckNotFound, CheckFailed, CheckFailedRaises

\* Whatever the pending swaps are and whatever fails, the startup check comes
\* to an end or to fewer swaps.  (That it therefore comes to an end is
\* StartupCheckEnds: an induction over the finitely many swaps, which is not
\* machine-checked but for two, see CheckOfTwoEnds.)
THEOREM CheckAdvances ==
    ASSUME NEW rest \in SUBSET Swaps
    PROVE  FairSpec /\ []GuardsSuffice =>
               ((checkPc \notin {"off", "read"} /\ todo = rest) ~>
                    (checkPc = "off" \/ LessThan(rest)))
<1> DEFINE Loop == CheckAt("next", rest)
           Status == CheckAt("status", rest)
           Complete == CheckAt("complete", rest)
           Client == CheckAt("client", rest)
           Failed == CheckAt("failed", rest)
           Some == checkPc \notin {"off", "read"} /\ todo = rest
           Done == checkPc = "off" \/ LessThan(rest)
<1>1. IInv /\ TasksRunWhenUp /\ [Next]_vars =>
          /\ Status => Status' \/ Complete' \/ Client' \/ Loop' \/ Done'
          /\ Complete => Complete' \/ Loop' \/ Done'
          /\ Client => Client' \/ Failed' \/ Loop' \/ Done'
          /\ Failed => Failed' \/ Loop' \/ Done'
          /\ Loop => Loop' \/ Done'
  BY CheckMoves
<1>2. IInv /\ <<CheckStep>>_vars =>
          /\ Status => ~Status'
          /\ Complete => ~Complete'
          /\ Client => ~Client'
          /\ Failed => ~Failed'
          /\ Loop => ~Loop'
  BY CheckLeaves
<1>3. /\ TasksHaveGuards /\ GuardsSuffice
      /\ Status \/ Complete \/ Client \/ Failed \/ Loop
      => ENABLED <<CheckStep>>_vars
  BY DEF TasksHaveGuards, GuardsSuffice, CheckAt
<1>4. IInv /\ Some => Status \/ Complete \/ Client \/ Failed \/ Loop
  BY DEF IInv, TypeOK, CheckAt
<1>5. Spec /\ WF_vars(CheckStep) /\ []GuardsSuffice => (Some ~> Done)
  <2> HIDE DEF Loop, Status, Complete, Client, Failed, Some, Done
  <2> QED
    BY <1>1, <1>2, <1>3, <1>4, Invariance, TasksAlwaysHaveGuards, TasksRun,
       PTL DEF Spec
<1> QED
  BY <1>5, PTL DEF FairSpec, Fairness

-----------------------------------------------------------------------------
(***************************************************************************)
(* The listener goes on.                                                   *)
(***************************************************************************)

\* The listener is at pc, the payment of s is the n-th it has to come to.
Queued(pc, s, n) == listener = pc /\ n \in 1..Len(queue) /\ queue[n] = s

\* The listener is at pc with the payment of s.
Handled(pc, s) == listener = pc /\ current = s

\* The process that was told of the payment is gone, or has dropped it.
Dropped(s) == mode # "up" \/ s \in missed

LEMMA QueueMoves ==
    ASSUME IInv, TasksRunWhenUp, [Next]_vars, NEW s \in Swaps,
           NEW n \in Nat \ {0}, NEW pc, pc # "off", Queued(pc, s, n)
    PROVE  \/ Dropped(s)'
           \/ Queued(pc, s, n)'
           \/ pc = "wait" /\ n = 1 /\ Handled("auto", s)'
           \/ pc = "wait" /\ n > 1 /\ Queued("auto", s, n - 1)'
           \/ pc \in {"auto", "update"} /\ Queued("wait", s, n)'
           \/ pc = "auto" /\ Queued("update", s, n)'
           \/ pc \in {"auto", "update"} /\ Queued("sleep", s, n)'
<1> USE DEF Queued, Handled, Dropped, IInv, TypeOK, TasksRunWhenUp
<1>1. CASE ListenerGet
  <2>1. CASE n = 1
    BY <1>1, <2>1 DEF ListenerGet
  <2>2. CASE n > 1
    BY <1>1, <2>2 DEF ListenerGet
  <2> QED
    BY <2>1, <2>2
<1>2. CASE AutoCheckReturns \/ AutoCheckRaises \/ ListenerUpdate
           \/ ListenerUpdateRaises \/ ListenerRestart
  BY <1>2 DEF AutoCheckReturns, AutoCheckRaises, ListenerUpdate,
     ListenerUpdateRaises, ListenerRestart
<1>3. CASE OtherPayment \/ \E t \in Swaps : BoltzPays(t)
  <2>1. PICK payment \in Payments : Notify(payment)
    BY <1>3 DEF OtherPayment, BoltzPays, Payments
  <2>2. UNCHANGED <<listener, mode>>
    BY <1>3 DEF OtherPayment, BoltzPays
  <2> QED
    BY <2>1, <2>2 DEF Notify
<1>4. CASE Crash \/ BoltzStop \/ BoltzStart
  BY <1>4 DEF Crash, BoltzStop, BoltzStart
<1>5. CASE UNCHANGED <<queue, listener>>
  BY <1>5
<1> QED
  BY <1>1, <1>2, <1>3, <1>4, <1>5 DEF Next, vars, ListenerStep, CheckStep,
     RefundStep, RefundProgress, CreateAllowed, CreateRefused, CreateInvoice,
     CreateAtBoltz, CreateRow, CreateRaises, ToggleAuto, Fund, Expire,
     BoltzClaims, CheckRead, CheckReadRaises, CheckNext, CheckEnd,
     CheckStatus, CheckSwapRaises, CheckComplete, CheckClient,
     CheckNotFound, CheckFailed, CheckFailedRaises, RefundRequest,
     RefundClient, RefundTx, RefundBroadcast, RefundAnswerLost, RefundRejected,
     RefundRaises, RefundMark

LEMMA HandledMoves ==
    ASSUME IInv, TasksRunWhenUp, [Next]_vars, NEW s \in Swaps,
           NEW pc \in {"auto", "update"}, Handled(pc, s)
    PROVE  \/ Dropped(s)'
           \/ Handled(pc, s)'
           \/ pc = "auto" /\ Handled("update", s)'
           \/ pc = "update" /\ row'[s] = "complete"
<1> USE DEF Handled, Dropped, IInv, TypeOK, TasksRunWhenUp
<1>1. CASE ListenerStep
  <2>1. row[s] # "none"
    BY DEF TasksAreRight, PaidInTime, RowsComeFirst
  <2>2. s # NoSwap
    BY NoSwapAssumption
  <2> QED
    BY <1>1, <2>1, <2>2 DEF ListenerStep, ListenerGet, AutoCheckReturns,
       AutoCheckRaises, ListenerUpdate, ListenerUpdateRaises, ListenerRestart,
       UpdateSwapStatus
<1>2. CASE Crash \/ BoltzStop \/ BoltzStart
  BY <1>2 DEF Crash, BoltzStop, BoltzStart
<1>3. CASE UNCHANGED <<current, listener>>
  BY <1>3
<1> QED
  BY <1>1, <1>2, <1>3 DEF Next, vars, CheckStep, RefundStep, RefundProgress,
     CreateAllowed, CreateRefused, CreateInvoice, CreateAtBoltz, CreateRow,
     CreateRaises, ToggleAuto, Fund, Expire, BoltzPays, BoltzClaims,
     OtherPayment, CheckRead, CheckReadRaises, CheckNext, CheckEnd,
     CheckStatus, CheckSwapRaises, CheckComplete, CheckClient,
     CheckNotFound, CheckFailed, CheckFailedRaises, RefundRequest,
     RefundClient, RefundTx, RefundBroadcast, RefundAnswerLost, RefundRejected,
     RefundRaises, RefundMark

\* A step of its own takes the listener on.
LEMMA ListenerLeaves ==
    ASSUME IInv, NEW pc, listener = pc, ListenerStep
    PROVE  listener' # pc
BY DEF ListenerStep, ListenerGet, AutoCheckReturns, AutoCheckRaises,
   ListenerUpdate, ListenerUpdateRaises, ListenerRestart

\* A payment the listener has got to completes its row, or is dropped.
LEMMA HandledCompletes ==
    ASSUME NEW s \in Swaps
    PROVE  FairSpec /\ []GuardsSuffice =>
               ((current = s /\ listener \in {"auto", "update"}) ~>
                    (row[s] = "complete" \/ Dropped(s)))
<1> DEFINE Sweeps == Handled("auto", s)
           Update == Handled("update", s)
           Some == current = s /\ listener \in {"auto", "update"}
           Done == row[s] = "complete" \/ Dropped(s)
<1>1. IInv /\ TasksRunWhenUp /\ [Next]_vars =>
          /\ Sweeps => Sweeps' \/ Update' \/ Done'
          /\ Update => Update' \/ Done'
  BY HandledMoves
<1>2. IInv /\ <<ListenerStep>>_vars =>
          /\ Sweeps => ~Sweeps'
          /\ Update => ~Update'
  BY ListenerLeaves DEF Handled
<1>3. TasksHaveGuards /\ GuardsSuffice /\ (Sweeps \/ Update) =>
          ENABLED <<ListenerStep>>_vars
  BY DEF TasksHaveGuards, GuardsSuffice, Handled
<1>4. Some => Sweeps \/ Update
  BY DEF Handled
<1>5. Spec /\ WF_vars(ListenerStep) /\ []GuardsSuffice => (Some ~> Done)
  <2> HIDE DEF Sweeps, Update, Some, Done
  <2> QED
    BY <1>1, <1>2, <1>3, <1>4, Invariance, TasksAlwaysHaveGuards, TasksRun,
       PTL DEF Spec
<1> QED
  BY <1>5, PTL DEF FairSpec, Fairness

\* Wherever in the queue the notice of a payment is, the listener comes one
\* nearer to it, whatever is put in behind it and whatever fails, or has
\* dropped it; and the first of the queue completes its row.  (That every
\* notice therefore completes its row is the part of PaidSwapCompletes that
\* is about the listener: an induction over the queue, which is done for the
\* four notices of TwoPaidSwapsComplete.)
THEOREM ListenerAdvances ==
    ASSUME NEW s \in Swaps, NEW n \in Nat \ {0}
    PROVE  FairSpec /\ []GuardsSuffice =>
               ((mode = "up" /\ n \in 1..Len(queue) /\ queue[n] = s) ~>
                    (\/ IF n = 1 THEN row[s] = "complete"
                        ELSE n - 1 \in 1..Len(queue) /\ queue[n - 1] = s
                     \/ mode # "up" \/ s \in missed))
<1> DEFINE Wait == Queued("wait", s, n)
           Sweeps == Queued("auto", s, n)
           Update == Queued("update", s, n)
           Sleep == Queued("sleep", s, n)
           First == Handled("auto", s)
           Nearer == Queued("auto", s, n - 1)
           Some == mode = "up" /\ n \in 1..Len(queue) /\ queue[n] = s
           Done == \/ IF n = 1 THEN row[s] = "complete"
                      ELSE n - 1 \in 1..Len(queue) /\ queue[n - 1] = s
                   \/ mode # "up" \/ s \in missed
           Drops == Dropped(s)
           Completes == row[s] = "complete" \/ Drops
<1>1. IInv /\ TasksRunWhenUp /\ [Next]_vars =>
          /\ Sleep => Sleep' \/ Drops'
          /\ Update => Update' \/ Wait' \/ Sleep' \/ Drops'
          /\ Sweeps => Sweeps' \/ Wait' \/ Update' \/ Sleep' \/ Drops'
          /\ Wait => Wait' \/ Drops' \/ (n = 1 /\ First')
                     \/ (n > 1 /\ Nearer')
  BY QueueMoves
<1>2. IInv /\ <<ListenerStep>>_vars =>
          /\ Sleep => ~Sleep'
          /\ Update => ~Update'
          /\ Sweeps => ~Sweeps'
          /\ Wait => ~Wait'
  BY ListenerLeaves DEF Queued
<1>3. TasksHaveGuards /\ GuardsSuffice /\ (Wait \/ Sweeps \/ Update \/ Sleep) =>
          ENABLED <<ListenerStep>>_vars
  BY DEF TasksHaveGuards, GuardsSuffice, Queued
<1>4. IInv /\ TasksRunWhenUp /\ Some => Wait \/ Sweeps \/ Update \/ Sleep
  BY DEF IInv, TypeOK, TasksRunWhenUp, Queued
<1>5. Drops => Done
  BY DEF Dropped
<1>6. n > 1 /\ Nearer => Done
  BY DEF Queued
<1>7. FairSpec /\ []GuardsSuffice =>
          (First ~> Completes)
  <2>1. First => current = s /\ listener \in {"auto", "update"}
    BY DEF Handled
  <2> QED
    BY <2>1, HandledCompletes, PTL
<1>8. n = 1 /\ Completes => Done
  BY DEF Dropped
<1>9. FairSpec /\ []GuardsSuffice => (Some ~> Done)
  <2>1. CASE n = 1
    <3>1. Wait /\ IInv /\ TasksRunWhenUp /\ [Next]_vars =>
              Wait' \/ Drops' \/ First'
      BY <1>1, <2>1
    <3>2. Completes => Done
      BY <1>8, <2>1
    <3> HIDE DEF Wait, Sweeps, Update, Sleep, First, Some, Done, Completes,
                 Drops
    <3> QED
      BY <1>1, <1>2, <1>3, <1>4, <1>5, <1>7, <3>1, <3>2, Invariance,
         TasksAlwaysHaveGuards, TasksRun, PTL DEF Spec, FairSpec, Fairness
  <2>2. CASE n > 1
    <3>1. Wait /\ IInv /\ TasksRunWhenUp /\ [Next]_vars =>
              Wait' \/ Drops' \/ Nearer'
      BY <1>1, <2>2
    <3>2. Nearer => Done
      BY <1>6, <2>2
    <3> HIDE DEF Wait, Sweeps, Update, Sleep, Nearer, Some, Done, Drops
    <3> QED
      BY <1>1, <1>2, <1>3, <1>4, <1>5, <3>1, <3>2, Invariance,
         TasksAlwaysHaveGuards, TasksRun, PTL DEF Spec, FairSpec, Fairness
  <2> QED
    BY <2>1, <2>2
<1> QED
  BY <1>9

\* The startup check is at pc with the paid swap s.
PaidAt(pc, s) == checkPc = pc /\ checking = s /\ invoice[s] = "paid"

LEMMA PaidMoves ==
    ASSUME IInv, TasksRunWhenUp, [Next]_vars, NEW s \in Swaps,
           NEW pc \in {"status", "complete"}, PaidAt(pc, s)
    PROVE  \/ Dropped(s)' \/ Noticed(s)'
           \/ PaidAt(pc, s)'
           \/ pc = "status" /\ PaidAt("complete", s)'
           \/ pc = "complete" /\ row'[s] = "complete"
<1> USE DEF PaidAt, Dropped, IInv, TypeOK, TasksRunWhenUp
<1>1. CASE CheckStep
  <2>1. row[s] # "none"
    BY DEF PaidInTime, RowsComeFirst
  <2> QED
    BY <1>1, <2>1 DEF CheckStep, CheckRead, CheckReadRaises, CheckNext,
       CheckEnd, CheckStatus, CheckSwapRaises, CheckComplete, CheckClient,
       CheckNotFound, CheckFailed, CheckFailedRaises, UpdateSwapStatus,
       PaidUnnoticed, Noticed
<1>2. CASE Crash \/ BoltzStop \/ BoltzStart
  BY <1>2 DEF Crash, BoltzStop, BoltzStart
<1>3. CASE \E t \in Swaps : CreateInvoice(t) \/ BoltzPays(t)
  <2>1. PICK t \in Swaps : CreateInvoice(t) \/ BoltzPays(t)
    BY <1>3
  <2>2. t # s
    BY <2>1 DEF CreateInvoice, BoltzPays, PaidInTime, RowsComeFirst
  <2> QED
    BY <2>1, <2>2 DEF CreateInvoice, BoltzPays
<1>4. CASE UNCHANGED <<checker, invoice>>
  BY <1>4
<1> QED
  BY <1>1, <1>2, <1>3, <1>4 DEF Next, vars, ListenerStep, RefundStep,
     RefundProgress, CreateAllowed, CreateRefused, CreateAtBoltz, CreateRow,
     CreateRaises, ToggleAuto, Fund, Expire, BoltzClaims, OtherPayment,
     ListenerGet, AutoCheckReturns, AutoCheckRaises, ListenerUpdate,
     ListenerUpdateRaises, ListenerRestart, RefundRequest, RefundClient,
     RefundTx, RefundBroadcast, RefundAnswerLost, RefundRejected, RefundRaises,
     RefundMark

LEMMA PaidLeaves ==
    ASSUME IInv, NEW s \in Swaps, NEW pc \in {"status", "complete"},
           PaidAt(pc, s), CheckStep
    PROVE  ~PaidAt(pc, s)'
BY DEF PaidAt, CheckStep, CheckRead, CheckReadRaises, CheckNext, CheckEnd,
   CheckStatus, CheckSwapRaises, CheckComplete, CheckClient, CheckNotFound,
   CheckFailed, CheckFailedRaises

\* A paid swap the startup check has got to completes its row, or the listener
\* has its notice still, unless asking for the payment's status or the UPDATE
\* raised or the process is gone.
THEOREM CheckCompletes ==
    ASSUME NEW s \in Swaps
    PROVE  FairSpec /\ []GuardsSuffice =>
               ((checkPc = "status" /\ checking = s /\ invoice[s] = "paid") ~>
                    (\/ row[s] = "complete" \/ Noticed(s)
                     \/ mode # "up" \/ s \in missed))
<1> DEFINE Status == PaidAt("status", s)
           Complete == PaidAt("complete", s)
           Some == checkPc = "status" /\ checking = s /\ invoice[s] = "paid"
           Done == \/ row[s] = "complete" \/ Noticed(s)
                   \/ mode # "up" \/ s \in missed
<1>1. IInv /\ TasksRunWhenUp /\ [Next]_vars =>
          /\ Status => Status' \/ Complete' \/ Done'
          /\ Complete => Complete' \/ Done'
  BY PaidMoves DEF Dropped
<1>2. IInv /\ <<CheckStep>>_vars =>
          /\ Status => ~Status'
          /\ Complete => ~Complete'
  BY PaidLeaves
<1>3. TasksHaveGuards /\ GuardsSuffice /\ (Status \/ Complete) =>
          ENABLED <<CheckStep>>_vars
  BY DEF TasksHaveGuards, GuardsSuffice, PaidAt
<1>4. Some => Status
  BY DEF PaidAt
<1>5. Spec /\ WF_vars(CheckStep) /\ []GuardsSuffice => (Some ~> Done)
  <2> HIDE DEF Status, Complete, Some, Done
  <2> QED
    BY <1>1, <1>2, <1>3, <1>4, Invariance, TasksAlwaysHaveGuards, TasksRun,
       PTL DEF Spec
<1> QED
  BY <1>5, PTL DEF FairSpec, Fairness

-----------------------------------------------------------------------------
(***************************************************************************)
(* The faults the program copes with.                                      *)
(***************************************************************************)

\* The faults that make the program drop the notice of a payment or fail a
\* swap; the others are "api", "answer" and "lost".
Harmful == {"read", "status", "auto", "notfound", "write"}

\* Nothing was dropped and nothing is about to be.
NothingDropped == missed = {} /\ notFound = {} /\ listener # "sleep"

LEMMA NothingIsDropped ==
    ASSUME Faults \cap Harmful = {}
    PROVE  Spec => []NothingDropped
<1>1. Init => NothingDropped
  BY DEF Init, NothingDropped
<1>2. NothingDropped /\ [Next]_vars => NothingDropped'
  <2> SUFFICES ASSUME NothingDropped, [Next]_vars PROVE NothingDropped'
    OBVIOUS
  <2> USE DEF NothingDropped, Harmful
  <2>1. CASE ListenerStep
    BY <2>1 DEF ListenerStep, ListenerGet, AutoCheckReturns, AutoCheckRaises,
       ListenerUpdate, ListenerUpdateRaises, ListenerRestart
  <2>2. CASE CheckStep
    BY <2>2 DEF CheckStep, CheckRead, CheckReadRaises, CheckNext, CheckEnd,
       CheckStatus, CheckSwapRaises, CheckComplete, CheckClient,
       CheckNotFound, CheckFailed, CheckFailedRaises
  <2>3. CASE Crash \/ BoltzStop \/ BoltzStart
    BY <2>3 DEF Crash, BoltzStop, BoltzStart
  <2>4. CASE UNCHANGED <<listener, history>>
    BY <2>4
  <2> QED
    BY <2>1, <2>2, <2>3, <2>4 DEF Next, vars, RefundStep, RefundProgress,
       CreateAllowed, CreateRefused, CreateInvoice, CreateAtBoltz, CreateRow,
       CreateRaises, ToggleAuto, Fund, Expire, BoltzPays, BoltzClaims,
       OtherPayment, RefundRequest, RefundClient, RefundTx, RefundBroadcast,
       RefundAnswerLost, RefundRejected, RefundRaises, RefundMark
<1> QED
  BY <1>1, <1>2, PTL DEF Spec

\* NoPaymentForgotten without its exceptions.
EveryPaymentIsNoticed ==
    \A s \in Swaps :
        mode = "up" /\ invoice[s] = "paid" /\ row[s] # "complete" =>
            Noticed(s) \/ WillBeChecked(s)

\* SettledIsFinal without its exception: a request Boltz refuses is never
\* taken for a failed swap.
SettledForGood ==
    [][\A s \in Swaps : row[s] \in Settled => row'[s] = row[s]]_vars

\* However often Boltz refuses a request or its answer is lost, and whenever
\* the process dies, no payment is forgotten (EveryPaymentIsNoticed).
THEOREM HarmlessFaultsForgetNothing ==
    ASSUME Faults \cap Harmful = {}
    PROVE  Spec => []EveryPaymentIsNoticed
<1>1. NothingDropped /\ NoPaymentForgotten => EveryPaymentIsNoticed
  BY DEF NothingDropped, NoPaymentForgotten, EveryPaymentIsNoticed
<1> QED
  BY <1>1, NothingIsDropped, PaymentsAccountedFor, PTL

\* Nor is a settled row overwritten (SettledForGood).
THEOREM HarmlessFaultsOverwriteNothing ==
    ASSUME Faults \cap Harmful = {}
    PROVE  Spec => SettledForGood
<1> DEFINE Kept == \A s \in Swaps : row[s] \in Settled => row'[s] = row[s]
<1>1. IInv /\ NothingDropped /\ [Next]_vars => [Kept]_vars
  BY StepKeepsSettled DEF NothingDropped
<1> QED
  BY <1>1, Invariance, NothingIsDropped, PTL DEF Spec, SettledForGood

-----------------------------------------------------------------------------
(***************************************************************************)
(* The startup check of two swaps.                                         *)
(***************************************************************************)

\* CheckAdvances, of the swaps in rest.
Advances(rest) ==
    (checkPc \notin {"off", "read"} /\ todo = rest)
        ~> (checkPc = "off" \/ LessThan(rest))

LEMMA ReadMoves ==
    ASSUME IInv, TasksRunWhenUp, [Next]_vars, checkPc = "read"
    PROVE  \/ checkPc' \in {"read", "off"}
           \/ checkPc' = "next" /\ todo' \subseteq Swaps
<1> USE DEF IInv, TypeOK, TasksRunWhenUp
<1>1. CASE CheckStep
  BY <1>1 DEF CheckStep, CheckRead, CheckReadRaises, CheckNext, CheckEnd,
     CheckStatus, CheckSwapRaises, CheckComplete, CheckClient,
     CheckNotFound, CheckFailed, CheckFailedRaises
<1>2. CASE Crash \/ BoltzStop \/ BoltzStart
  BY <1>2 DEF Crash, BoltzStop, BoltzStart
<1>3. CASE UNCHANGED checker
  BY <1>3
<1> QED
  BY <1>1, <1>2, <1>3 DEF Next, vars, ListenerStep, RefundStep,
     RefundProgress, CreateAllowed, CreateRefused, CreateInvoice,
     CreateAtBoltz, CreateRow, CreateRaises, ToggleAuto, Fund, Expire,
     BoltzPays, BoltzClaims, OtherPayment, ListenerGet, AutoCheckReturns,
     AutoCheckRaises, ListenerUpdate, ListenerUpdateRaises, ListenerRestart,
     RefundRequest, RefundClient, RefundTx, RefundBroadcast, RefundAnswerLost,
     RefundRejected, RefundRaises, RefundMark

LEMMA ReadLeaves == ASSUME IInv, CheckStep PROVE checkPc' # "read"
BY DEF IInv, TypeOK, CheckStep, CheckRead, CheckReadRaises, CheckNext,
   CheckEnd, CheckStatus, CheckSwapRaises, CheckComplete, CheckClient,
   CheckNotFound, CheckFailed, CheckFailedRaises

\* Wherever it is, the startup check comes to its end when there are two
\* swaps, by CheckAdvances from each of the four sets it may have before it.
LEMMA CheckOfTwoIsOff ==
    ASSUME NEW a, NEW b, Swaps = {a, b}
    PROVE  FairSpec /\ []GuardsSuffice =>
               (checkPc # "off" ~> checkPc = "off")
<1> DEFINE Works == checkPc \notin {"off", "read"}
           Both == Works /\ todo = {a, b}
           One == Works /\ todo = {a}
           Other == Works /\ todo = {b}
           None == Works /\ todo = {}
           Read == checkPc = "read"
           Off == checkPc = "off"
           On == checkPc # "off"
<1>1. Both \/ One \/ Other \/ None <=> Works /\ todo \subseteq {a, b}
  OBVIOUS
<1>2. /\ LessThan({a, b}) => One \/ Other \/ None
      /\ LessThan({a}) => None
      /\ LessThan({b}) => None
      /\ ~LessThan({})
  BY DEF LessThan
<1>3. IInv /\ TasksRunWhenUp /\ [Next]_vars =>
          (Read => Read' \/ Off' \/ Both' \/ One' \/ Other' \/ None')
  BY ReadMoves
<1>4. IInv /\ <<CheckStep>>_vars => (Read => ~Read')
  BY ReadLeaves
<1>5. TasksHaveGuards /\ GuardsSuffice /\ Read => ENABLED <<CheckStep>>_vars
  BY DEF TasksHaveGuards, GuardsSuffice
<1>6. ASSUME NEW rest \in SUBSET Swaps
      PROVE  FairSpec /\ []GuardsSuffice => Advances(rest)
  BY CheckAdvances, PTL DEF Advances
<1>7. /\ FairSpec /\ []GuardsSuffice => Advances({a, b})
      /\ FairSpec /\ []GuardsSuffice => Advances({a})
      /\ FairSpec /\ []GuardsSuffice => Advances({b})
      /\ FairSpec /\ []GuardsSuffice => Advances({})
  BY <1>6
<1>8. FairSpec /\ []GuardsSuffice => (Both ~> (Off \/ LessThan({a, b})))
  BY <1>7, PTL DEF Advances
<1>9. FairSpec /\ []GuardsSuffice =>
          /\ One ~> (Off \/ LessThan({a}))
          /\ Other ~> (Off \/ LessThan({b}))
          /\ None ~> (Off \/ LessThan({}))
  BY <1>7, PTL DEF Advances
<1>10. IInv /\ On => Read \/ Both \/ One \/ Other \/ None
  BY <1>1 DEF IInv, TypeOK
<1>11. FairSpec /\ []GuardsSuffice => (On ~> Off)
  <2> HIDE DEF Works, Both, One, Other, None, Read, Off, On
  <2> QED
    BY <1>2, <1>3, <1>4, <1>5, <1>8, <1>9, <1>10, Invariance,
       TasksAlwaysHaveGuards, TasksRun, PTL DEF Spec, FairSpec, Fairness
<1> QED
  BY <1>11

\* The startup check of two swaps comes to its end (StartupCheckEnds), with
\* any number of requests, crashes, deactivations and other payments.
THEOREM CheckOfTwoEnds ==
    ASSUME NEW a, NEW b, Swaps = {a, b}
    PROVE  FairSpec /\ []GuardsSuffice => StartupCheckEnds
<1>1. checkPc = "read" => checkPc # "off"
  OBVIOUS
<1> QED
  BY <1>1, CheckOfTwoIsOff, PTL DEF StartupCheckEnds

-----------------------------------------------------------------------------
(***************************************************************************)
(* Two paid swaps complete.                                                *)
(***************************************************************************)

PaidOnce(s) == IF invoice[s] = "paid" THEN 1 ELSE 0

\* What the listener has before it was paid: each of two swaps once, and the
\* payments that are not boltz's.
QueueIsCovered(a, b) ==
    /\ Len(queue) <= others + PaidOnce(a) + PaidOnce(b)
    /\ others <= MaxOthers

LEMMA QueueStaysCovered ==
    ASSUME NEW a, NEW b, Swaps = {a, b}
    PROVE  Spec => []QueueIsCovered(a, b)
<1>1. Init => QueueIsCovered(a, b)
  BY BoundsAssumption DEF Init, QueueIsCovered, PaidOnce
<1>2. IInv /\ QueueIsCovered(a, b) /\ [Next]_vars => QueueIsCovered(a, b)'
  <2> SUFFICES ASSUME IInv, QueueIsCovered(a, b), [Next]_vars
               PROVE  QueueIsCovered(a, b)'
    OBVIOUS
  <2> USE BoundsAssumption DEF QueueIsCovered, PaidOnce, IInv, TypeOK
  <2>1. CASE ListenerGet \/ ListenerRestart
    BY <2>1 DEF ListenerGet, ListenerRestart
  <2>2. CASE Crash \/ BoltzStop \/ BoltzStart
    BY <2>2 DEF Crash, BoltzStop, BoltzStart
  <2>3. CASE OtherPayment
    <3>1. Len(queue') <= Len(queue) + 1
      BY <2>3 DEF OtherPayment, Notify, Payments
    <3> QED
      BY <2>3, <3>1 DEF OtherPayment
  <2>4. CASE \E s \in Swaps : BoltzPays(s)
    <3>1. PICK s \in Swaps : BoltzPays(s)
      BY <2>4
    <3>2. Len(queue') <= Len(queue) + 1 /\ Len(queue') \in Nat
      BY <3>1 DEF BoltzPays, Notify, Payments
    <3>3. /\ invoice[s] = "open" /\ UNCHANGED others
          /\ invoice' = [invoice EXCEPT ![s] = "paid"]
      BY <3>1 DEF BoltzPays
    <3> QED
      BY <3>2, <3>3
  <2>5. CASE \E s \in Swaps : CreateInvoice(s)
    <3>1. PICK s \in Swaps : CreateInvoice(s)
      BY <2>5
    <3>2. /\ invoice[s] # "paid" /\ UNCHANGED <<queue, others>>
          /\ invoice' = [invoice EXCEPT ![s] = "open"]
      BY <3>1 DEF CreateInvoice, PaidInTime, RowsComeFirst
    <3> QED
      BY <3>2
  <2>6. CASE UNCHANGED <<queue, others, invoice>>
    BY <2>6
  <2> QED
    BY <2>1, <2>2, <2>3, <2>4, <2>5, <2>6 DEF Next, vars, ListenerStep,
       CheckStep, RefundStep, RefundProgress, CreateAllowed, CreateRefused,
       CreateAtBoltz, CreateRow, CreateRaises, ToggleAuto, Fund, Expire,
       BoltzClaims, AutoCheckReturns, AutoCheckRaises, ListenerUpdate,
       ListenerUpdateRaises, CheckRead, CheckReadRaises, CheckNext, CheckEnd,
       CheckStatus, CheckSwapRaises, CheckComplete, CheckClient, CheckNotFound,
       CheckFailed, CheckFailedRaises, RefundRequest, RefundClient, RefundTx,
       RefundBroadcast, RefundAnswerLost, RefundRejected, RefundRaises,
       RefundMark
<1> QED
  BY <1>1, <1>2, Invariance, TasksAlwaysHaveGuards, PTL DEF Spec

\* A paid invoice stays paid.
LEMMA PaidStays ==
    ASSUME IInv, [Next]_vars, NEW s \in Swaps, invoice[s] = "paid"
    PROVE  invoice'[s] = "paid"
<1> USE DEF IInv, TypeOK
<1>1. CASE \E t \in Swaps : CreateInvoice(t) \/ BoltzPays(t)
  BY <1>1 DEF CreateInvoice, BoltzPays, PaidInTime, RowsComeFirst
<1>2. CASE UNCHANGED invoice
  BY <1>2
<1> QED
  BY <1>1, <1>2 DEF Next, vars, ListenerStep, CheckStep, RefundStep,
     RefundProgress, CreateAllowed, CreateRefused, CreateAtBoltz, CreateRow,
     CreateRaises, ToggleAuto, Fund, Expire, BoltzClaims, OtherPayment,
     ListenerGet, AutoCheckReturns, AutoCheckRaises, ListenerUpdate,
     ListenerUpdateRaises, ListenerRestart, CheckRead, CheckReadRaises,
     CheckNext, CheckEnd, CheckStatus, CheckSwapRaises, CheckComplete,
     CheckClient, CheckNotFound, CheckFailed, CheckFailedRaises, RefundRequest,
     RefundClient, RefundTx, RefundBroadcast, RefundAnswerLost, RefundRejected,
     RefundRaises, RefundMark, Crash, BoltzStop, BoltzStart

\* The n-th payment the listener has to come to is that of s.
NthIs(n, s) == mode = "up" /\ n \in 1..Len(queue) /\ queue[n] = s

\* The listener has come one nearer to it.
Nearer(n, s) ==
    \/ IF n = 1 THEN row[s] = "complete"
       ELSE n - 1 \in 1..Len(queue) /\ queue[n - 1] = s
    \/ mode # "up" \/ s \in missed

\* ListenerAdvances, of the n-th payment.
ComesNearer(n, s) == NthIs(n, s) ~> Nearer(n, s)

Completed(s) == row[s] = "complete" \/ Dropped(s)

\* ListenerAdvances, of each of the first four places of the queue.
LEMMA FirstFourComplete ==
    ASSUME NEW s \in Swaps
    PROVE  FairSpec /\ []GuardsSuffice =>
               ((NthIs(1, s) \/ NthIs(2, s) \/ NthIs(3, s) \/ NthIs(4, s))
                    ~> Completed(s))
<1>1. ASSUME NEW n \in Nat \ {0}
      PROVE  FairSpec /\ []GuardsSuffice => ComesNearer(n, s)
  BY ListenerAdvances DEF NthIs, Nearer, ComesNearer
<1>2. /\ FairSpec /\ []GuardsSuffice => ComesNearer(1, s)
      /\ FairSpec /\ []GuardsSuffice => ComesNearer(2, s)
      /\ FairSpec /\ []GuardsSuffice => ComesNearer(3, s)
      /\ FairSpec /\ []GuardsSuffice => ComesNearer(4, s)
  <2>1. /\ 1 \in Nat \ {0} /\ 2 \in Nat \ {0}
        /\ 3 \in Nat \ {0} /\ 4 \in Nat \ {0}
    OBVIOUS
  <2> QED
    BY <1>1, <2>1
<1>3. /\ Nearer(1, s) => Completed(s)
      /\ Nearer(2, s) => NthIs(1, s) \/ Completed(s)
      /\ Nearer(3, s) => NthIs(2, s) \/ Completed(s)
      /\ Nearer(4, s) => NthIs(3, s) \/ Completed(s)
  BY DEF Nearer, NthIs, Completed, Dropped
<1> QED
  BY <1>2, <1>3, PTL DEF ComesNearer

\* Both ways a paid swap becomes complete, put together: it is before the
\* listener, or the startup check ends and it is before the listener then, or
\* it is complete.
LEMMA PaidOneCompletes ==
    ASSUME NEW a, NEW b, Swaps = {a, b}, MaxOthers <= 2, NEW s \in Swaps
    PROVE  FairSpec /\ []GuardsSuffice =>
               (invoice[s] = "paid" ~> (Completed(s) \/ s \in notFound))
<1> DEFINE Paid == invoice[s] = "paid"
           Front == NthIs(1, s) \/ NthIs(2, s) \/ NthIs(3, s) \/ NthIs(4, s)
           Hand == current = s /\ listener \in {"auto", "update"}
           On == checkPc # "off"
           Off == checkPc = "off"
           Done == Completed(s) \/ s \in notFound
<1>1. IInv /\ [Next]_vars => (Paid => Paid')
  BY PaidStays
<1>2. /\ IInv /\ QueueIsCovered(a, b) /\ NoPaymentForgotten /\ Paid
      => Done \/ Front \/ Hand \/ On
  <2> SUFFICES ASSUME IInv, QueueIsCovered(a, b), NoPaymentForgotten, Paid,
                      ~Done, Off
               PROVE  Front \/ Hand
    OBVIOUS
  <2>1. Noticed(s)
    BY DEF NoPaymentForgotten, Completed, Dropped, WillBeChecked
  <2>2. Len(queue) <= 4
    BY BoundsAssumption DEF QueueIsCovered, PaidOnce, IInv, TypeOK
  <2>3. mode = "up"
    BY DEF Completed, Dropped
  <2>4. CASE \E i \in 1..Len(queue) : queue[i] = s
    <3>1. PICK i \in 1..Len(queue) : queue[i] = s
      BY <2>4
    <3>2. i \in {1, 2, 3, 4}
      BY <2>2, <3>1 DEF IInv, TypeOK
    <3>3. NthIs(i, s)
      BY <2>3, <3>1 DEF NthIs
    <3> QED
      BY <3>2, <3>3
  <2> QED
    BY <2>1, <2>4 DEF Noticed
<1>3. FairSpec /\ []GuardsSuffice => (Front ~> Completed(s))
  BY FirstFourComplete
<1>4. FairSpec /\ []GuardsSuffice => (Hand ~> Completed(s))
  BY HandledCompletes DEF Completed
<1>5. FairSpec /\ []GuardsSuffice => (On ~> Off)
  BY CheckOfTwoIsOff
<1>6. Completed(s) => Done
  OBVIOUS
<1>7. ~(On /\ Off)
  OBVIOUS
<1>8. FairSpec /\ []GuardsSuffice => (Paid ~> Done)
  <2> HIDE DEF Paid, Front, Hand, On, Off, Done
  <2> QED
    BY <1>1, <1>2, <1>3, <1>4, <1>5, <1>6, <1>7, Invariance,
       QueueStaysCovered, PaymentsAccountedFor, PTL DEF FairSpec, Spec
<1> QED
  BY <1>8

\* Two paid swaps complete (PaidSwapCompletes), whoever is told of them, with
\* any number of refund requests, crashes and deactivations and any faults;
\* for as long a queue as they and two payments that are not boltz's can make.
\* (More need the induction ListenerAdvances and CheckAdvances leave open.)
THEOREM TwoPaidSwapsComplete ==
    ASSUME NEW a, NEW b, Swaps = {a, b}, MaxOthers <= 2
    PROVE  FairSpec /\ []GuardsSuffice => PaidSwapCompletes
<1> DEFINE Promise(s) ==
               (invoice[s] = "paid" /\ mode = "up") ~>
                   (\/ row[s] = "complete" \/ mode # "up"
                    \/ s \in missed \/ s \in notFound)
<1>1. ASSUME NEW s \in Swaps
      PROVE  FairSpec /\ []GuardsSuffice => Promise(s)
  <2>1. Completed(s) \/ s \in notFound =>
            \/ row[s] = "complete" \/ mode # "up"
            \/ s \in missed \/ s \in notFound
    BY DEF Completed, Dropped
  <2> QED
    BY <2>1, PaidOneCompletes, PTL
<1> QED
  BY <1>1 DEF PaidSwapCompletes

\* README.md:66 is right of two swaps as long as none of the harmful faults
\* happens: a paid swap completes (EveryPaidSwapCompletes, which
\* submarine_auto_sweep.cfg shows to fail with one of them).
THEOREM TwoPaidSwapsAlwaysComplete ==
    ASSUME NEW a, NEW b, Swaps = {a, b}, MaxOthers <= 2,
           Faults \cap Harmful = {}
    PROVE  FairSpec /\ []GuardsSuffice => EveryPaidSwapCompletes
<1> DEFINE Promise(s) ==
               (invoice[s] = "paid" /\ mode = "up") ~>
                   (row[s] = "complete" \/ mode # "up")
<1>1. ASSUME NEW s \in Swaps
      PROVE  FairSpec /\ []GuardsSuffice => Promise(s)
  <2>1. NothingDropped /\ (Completed(s) \/ s \in notFound) =>
            row[s] = "complete" \/ mode # "up"
    BY DEF Completed, Dropped, NothingDropped
  <2> QED
    BY <2>1, PaidOneCompletes, NothingIsDropped, PTL DEF FairSpec
<1> QED
  BY <1>1 DEF EveryPaidSwapCompletes

=============================================================================
