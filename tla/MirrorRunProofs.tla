----------------------------- MODULE MirrorRunProofs -----------------------------
(***************************************************************************)
(* Proofs about MirrorRun for every number of retries: the inductive       *)
(* invariant, what a result of Mirror.Run means, and that a call keeps the *)
(* promise of CopyCall.                                                    *)
(***************************************************************************)
EXTENDS MirrorRun, TLAPS

\* The first state of a call satisfies the invariant.
LEMMA InitRunInv == Init => RunInv
<1> SUFFICES ASSUME Init PROVE RunInv
  OBVIOUS
<1>1. atDest \in BOOLEAN
  BY Zenon DEF Init
<1>2. 0 \in 0 .. MaxRetry /\ 0 \in 0 .. MaxRetry + 1
  BY RetryAssumption
<1>3. TypeOK
  BY <1>1, <1>2, Zenon DEF Init, TypeOK
<1>4. StepInv
  BY Zenon DEF Init, StepInv
<1> QED
  BY <1>3, <1>4 DEF RunInv

\* Every step of Mirror.Run, and the expiry of its context, preserves the
\* invariant: one case per action.
LEMMA NextRunInv == RunInv /\ [Next]_vars => RunInv'
<1> SUFFICES ASSUME RunInv, [Next]_vars PROVE RunInv'
  OBVIOUS
<1> USE RetryAssumption DEF RunInv, TypeOK, StepInv, Errors, Accomplished
<1>1. CASE Call
  BY <1>1 DEF Call
<1>2. CASE SetupFails
  BY <1>2 DEF SetupFails
<1>3. CASE SetupOk
  BY <1>3 DEF SetupOk
<1>4. CASE OperationOk
  <2>1. atDest' \in BOOLEAN /\ (mode = "copy" => atDest') /\ (mode = "delete" => ~atDest')
    BY <1>4, Zenon DEF OperationOk
  <2> QED
    BY <1>4, <2>1 DEF OperationOk
<1>5. CASE OperationFails
  BY <1>5 DEF OperationFails
<1>6. CASE WriteDigest
  BY <1>6 DEF WriteDigest
<1>7. CASE Judge
  BY <1>7 DEF Judge, ShouldRetry
<1>8. CASE DelayOver
  BY <1>8 DEF DelayOver
<1>9. CASE DelayCancelled
  BY <1>9 DEF DelayCancelled
<1>10. CASE Close
  BY <1>10 DEF Close
<1>11. CASE Expire
  BY <1>11 DEF Expire
<1>12. CASE Returned \/ UNCHANGED vars
  BY <1>12 DEF Returned, vars
<1> QED
  BY <1>1, <1>2, <1>3, <1>4, <1>5, <1>6, <1>7, <1>8, <1>9, <1>10, <1>11, <1>12 DEF Next, Run

\* The invariant holds in every state of a call, for every number of retries.
THEOREM RunInvariance == Spec => []RunInv
BY InitRunInv, NextRunInv, PTL DEF Spec

\* A nil result of Mirror.Run says that the image and its digest are written,
\* or that the image is gone.
THEOREM NilIsDone == Spec => []NilMeansDone
<1>1. RunInv => NilMeansDone
  BY DEF RunInv, TypeOK, StepInv, NilMeansDone, Accomplished
<1> QED
  BY <1>1, RunInvariance, PTL

\* A transient error is returned only after every retry or an expired timeout.
THEOREM GivesUpLate == Spec => []RetriesSpent
<1>1. RunInv => RetriesSpent
  BY RetryAssumption DEF RunInv, TypeOK, StepInv, RetriesSpent
<1> QED
  BY <1>1, RunInvariance, PTL

\* The operation is run again only after a transient error.
THEOREM RetriesTransientErrors == Spec => RetriesOnlyTransient
<1>1. RunInv /\ [Next]_vars => [tries' # tries => err \in {"none", "retryable"}]_vars
  <2> SUFFICES ASSUME RunInv, [Next]_vars, tries' # tries
               PROVE  err \in {"none", "retryable"}
    OBVIOUS
  <2>1. CASE OperationOk \/ OperationFails
    BY <2>1 DEF OperationOk, OperationFails, RunInv, StepInv
  <2>2. CASE ~(OperationOk \/ OperationFails)
    BY <2>2 DEF Next, Run, Call, SetupFails, SetupOk, WriteDigest, Judge, DelayOver,
                DelayCancelled, Close, Expire, Returned, vars
  <2> QED
    BY <2>1, <2>2
<1> QED
  BY <1>1, RunInvariance, PTL DEF Spec, RetriesOnlyTransient

-----------------------------------------------------------------------------
\* A call starts as CopyCall does.
LEMMA PromiseInit == Init => Promise!Init
BY DEF Init, Promise!Init, CallState

\* A step of the call is a step of CopyCall or changes nothing it shows.
LEMMA PromiseNext == RunInv /\ RunInv' /\ [Next]_vars => [Promise!Next]_(Promise!callVars)
<1> SUFFICES ASSUME RunInv, RunInv', [Next]_vars
             PROVE  [Promise!Next]_(Promise!callVars)
  OBVIOUS
<1> USE DEF RunInv, TypeOK, StepInv, CallState, Promise!callVars
<1>1. CASE Call
  BY <1>1 DEF Call, Promise!Next, Promise!Start
<1>2. CASE SetupFails
  BY <1>2 DEF SetupFails, Promise!Next, Promise!ReturnErr
<1>3. CASE SetupOk
  BY <1>3 DEF SetupOk
<1>4. CASE OperationOk
  BY <1>4 DEF OperationOk, Promise!Next, Promise!Work
<1>5. CASE OperationFails
  BY <1>5 DEF OperationFails, Promise!Next, Promise!Work
<1>6. CASE WriteDigest
  BY <1>6 DEF WriteDigest
<1>7. CASE Judge
  BY <1>7 DEF Judge
<1>8. CASE DelayOver
  BY <1>8 DEF DelayOver
<1>9. CASE DelayCancelled
  BY <1>9 DEF DelayCancelled
<1>10. CASE Close
  BY <1>10 DEF Close, Accomplished, Promise!Next, Promise!ReturnNil, Promise!ReturnErr
<1>11. CASE Expire
  BY <1>11 DEF Expire
<1>12. CASE Returned \/ UNCHANGED vars
  BY <1>12 DEF Returned, vars
<1> QED
  BY <1>1, <1>2, <1>3, <1>4, <1>5, <1>6, <1>7, <1>8, <1>9, <1>10, <1>11, <1>12 DEF Next, Run

\* Mirror.Run keeps the promise that its callers rely on, for every number of
\* retries.
THEOREM KeepsPromise == Spec => ImplementsCopyCall
BY PromiseInit, PromiseNext, RunInvariance, PTL DEF Spec, ImplementsCopyCall, Promise!Spec

-----------------------------------------------------------------------------
(***************************************************************************)
(* Progress: every step brings the call closer to its return.              *)
(***************************************************************************)
\* How many steps each place of an attempt is away from the end at most.
Stage == [idle |-> 7, setup |-> 6, operation |-> 5, digest |-> 4, judge |-> 3, backoff |-> 2,
          close |-> 1, returned |-> 0]

\* The steps that are left at most: an attempt takes four, and the timeout
\* expires once.
StepsLeft == 4 * (MaxRetry - attempt) + Stage[step] + (IF ctxDone THEN 0 ELSE 1)

\* A call of Mirror.Run ends after at most 4 * MaxRetry + 8 steps, whatever the
\* registry answers and whether or not the timeout expires: no transient error
\* is retried without end.
THEOREM CallIsShort ==
    Spec => [](StepsLeft \in 0 .. 4 * MaxRetry + 8) /\ [][StepsLeft' < StepsLeft]_vars
<1>1. RunInv => StepsLeft \in 0 .. 4 * MaxRetry + 8
  <2> SUFFICES ASSUME RunInv PROVE StepsLeft \in 0 .. 4 * MaxRetry + 8
    OBVIOUS
  <2>1. attempt \in 0 .. MaxRetry /\ Stage[step] \in 0 .. 7
    BY DEF RunInv, TypeOK, Stage
  <2> QED
    BY <2>1, RetryAssumption DEF StepsLeft
<1>2. RunInv /\ [Next]_vars => [StepsLeft' < StepsLeft]_vars
  <2> SUFFICES ASSUME RunInv, Next PROVE StepsLeft' < StepsLeft \/ UNCHANGED vars
    OBVIOUS
  <2>1. /\ attempt \in Int /\ MaxRetry \in Int /\ Stage[step] \in Int
        /\ step \in DOMAIN Stage
    BY RetryAssumption DEF RunInv, TypeOK, Stage
  <2>2. ASSUME UNCHANGED <<attempt, ctxDone>>, Stage[step'] \in Int, Stage[step'] < Stage[step]
        PROVE  StepsLeft' < StepsLeft
    BY <2>1, <2>2 DEF StepsLeft
  <2>3. CASE Call \/ SetupFails \/ SetupOk
    <3>1. UNCHANGED <<attempt, ctxDone>> /\ Stage[step'] \in Int /\ Stage[step'] < Stage[step]
      BY <2>3 DEF Call, SetupFails, SetupOk, Stage
    <3> QED
      BY <3>1, <2>2
  <2>4. CASE OperationOk \/ OperationFails \/ WriteDigest
    <3>1. UNCHANGED <<attempt, ctxDone>> /\ Stage[step'] \in Int /\ Stage[step'] < Stage[step]
      BY <2>4 DEF OperationOk, OperationFails, WriteDigest, Stage
    <3> QED
      BY <3>1, <2>2
  <2>5. CASE Judge \/ DelayCancelled \/ Close
    <3>1. UNCHANGED <<attempt, ctxDone>> /\ Stage[step'] \in Int /\ Stage[step'] < Stage[step]
      BY <2>5 DEF Judge, DelayCancelled, Close, Stage
    <3> QED
      BY <3>1, <2>2
  <2>6. CASE DelayOver
    <3>1. /\ attempt' = attempt + 1 /\ ctxDone' = ctxDone
          /\ Stage[step] = 2 /\ Stage[step'] = 5
      BY <2>6 DEF DelayOver, Stage
    <3> QED
      BY <3>1, <2>1 DEF StepsLeft
  <2>7. CASE Expire
    <3>1. UNCHANGED <<attempt, step>> /\ ~ctxDone /\ ctxDone'
      BY <2>7 DEF Expire
    <3> QED
      BY <3>1, <2>1 DEF StepsLeft
  <2>8. CASE Returned
    BY <2>8 DEF Returned
  <2> QED
    BY <2>3, <2>4, <2>5, <2>6, <2>7, <2>8 DEF Next, Run
<1> QED
  BY <1>1, <1>2, RunInvariance, PTL DEF Spec
=============================================================================
