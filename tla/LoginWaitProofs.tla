-------------------------- MODULE LoginWaitProofs --------------------------
(***************************************************************************)
(* Proofs about LoginWait for every bound MaxAttempts on the attempts of   *)
(* one client.do.                                                          *)
(***************************************************************************)
EXTENDS LoginWait, TLAPS

\* The attempts of one login: an error leaves do only if it is not repeated, or at the
\* last attempt, and is passed to the wait.
AttemptsInv ==
  /\ TransientAbsorbed
  /\ pc = "classify" => err \in Errors

\* What the wait decided, and of which error.
VerdictInv ==
  /\ pc = "sleep" => IsRetriableLoginWaitError(err)
  /\ outcome = "error" => ~IsRetriableLoginWaitError(err) /\ err \in Errors
  /\ outcome = "timeout" => expired
  /\ outcome = "running" <=> pc # "end"

\* A login begun after the deadline is the last one: no sleep follows it.
DeadlineInv ==
  /\ late <= 1
  /\ late > 0 => expired
  /\ pc = "sleep" => late = 0

\* Without a lost answer, the sessions are those the token stands for.
SessionInv ==
  /\ token => pc = "end"
  /\ ~lost => sessions = IF token THEN 1 ELSE 0

IInv == TypeOK /\ AttemptsInv /\ VerdictInv /\ DeadlineInv /\ SessionInv

-----------------------------------------------------------------------------

\* The bound on attempts is positive.
LEMMA MaxPositive == MaxAttempts \in Nat /\ MaxAttempts >= 1
  BY LoginAssumption

LEMMA InitInv == Init => IInv
  <1> SUFFICES ASSUME Init PROVE IInv
    OBVIOUS
  <1>1. TypeOK
    <2>1. attempt \in 1 .. MaxAttempts /\ late \in 0 .. 2 /\ sessions \in 0 .. 2
      BY MaxPositive DEF Init
    <2> QED BY <2>1 DEF Init, TypeOK
  <1>2. AttemptsInv /\ VerdictInv /\ DeadlineInv
    BY DEF Init, AttemptsInv, TransientAbsorbed, VerdictInv, DeadlineInv
  <1>3. SessionInv
    BY DEF Init, SessionInv
  <1> QED BY <1>1, <1>2, <1>3 DEF IInv

\* An attempt that failed goes on or hands over an error that is not repeated.
LEMMA FailsFact ==
  ASSUME TypeOK, NEW e \in Errors, Fails(e)
  PROVE  /\ err' = e /\ attempt' \in 1 .. MaxAttempts
         /\ \/ pc' = pc
            \/ /\ pc' = "classify"
               /\ isRetriableTransportError(e) \/ isRetriableHTTPStatus(e) => attempt' = MaxAttempts
  <1>1. CASE attempt < MaxAttempts /\ (isRetriableTransportError(e) \/ isRetriableHTTPStatus(e))
    BY <1>1, MaxPositive DEF Fails, TypeOK
  <1>2. CASE ~(attempt < MaxAttempts /\ (isRetriableTransportError(e) \/ isRetriableHTTPStatus(e)))
    BY <1>2, MaxPositive DEF Fails, TypeOK
  <1> QED BY <1>1, <1>2

LEMMA AttemptRefusedKeeps == IInv /\ AttemptRefused => IInv'
  <1> SUFFICES ASSUME IInv, AttemptRefused PROVE IInv'
    OBVIOUS
  <1>1. PICK e \in Errors : Fails(e)
    BY DEF AttemptRefused, Errors
  <1>2. /\ err' = e /\ attempt' \in 1 .. MaxAttempts
        /\ \/ pc' = pc
           \/ /\ pc' = "classify"
              /\ isRetriableTransportError(e) \/ isRetriableHTTPStatus(e) => attempt' = MaxAttempts
    BY <1>1, FailsFact DEF IInv
  <1> QED
    BY <1>2 DEF AttemptRefused, IInv, TypeOK, AttemptsInv, TransientAbsorbed, VerdictInv, DeadlineInv, SessionInv,
                Errors, isRetriableTransportError, isRetriableHTTPStatus

LEMMA AttemptLostKeeps == IInv /\ AttemptLost => IInv'
  <1> SUFFICES ASSUME IInv, AttemptLost PROVE IInv'
    OBVIOUS
  <1>1. PICK e \in Errors : Fails(e)
    BY DEF AttemptLost, Errors
  <1>2. /\ err' = e /\ attempt' \in 1 .. MaxAttempts
        /\ \/ pc' = pc
           \/ /\ pc' = "classify"
              /\ isRetriableTransportError(e) \/ isRetriableHTTPStatus(e) => attempt' = MaxAttempts
    BY <1>1, FailsFact DEF IInv
  <1> QED
    BY <1>2 DEF AttemptLost, OpenSession, IInv, TypeOK, AttemptsInv, TransientAbsorbed, VerdictInv, DeadlineInv,
                SessionInv, Errors, isRetriableTransportError, isRetriableHTTPStatus

LEMMA AttemptSucceedsKeeps == IInv /\ AttemptSucceeds => IInv'
  BY DEF AttemptSucceeds, OpenSession, IInv, TypeOK, AttemptsInv, TransientAbsorbed, VerdictInv, DeadlineInv,
         SessionInv

LEMMA ClassifyKeeps == IInv /\ Classify => IInv'
  <1> SUFFICES ASSUME IInv, Classify PROVE IInv'
    OBVIOUS
  <1>1. IsRetriableLoginWaitError(err)' <=> IsRetriableLoginWaitError(err)
    BY DEF Classify, IsRetriableLoginWaitError, isRetriableTransportError
  <1> QED
    BY <1>1 DEF Classify, IInv, TypeOK, AttemptsInv, TransientAbsorbed, VerdictInv, DeadlineInv, SessionInv

LEMMA SleepKeeps == IInv /\ Sleep => IInv'
  BY MaxPositive DEF Sleep, IInv, TypeOK, AttemptsInv, TransientAbsorbed, VerdictInv, DeadlineInv, SessionInv

\* Sylve comes and goes, and the deadline passes.
LEMMA SurroundingsKeep == IInv /\ (ApiChanges \/ DeadlinePasses \/ UNCHANGED vars) => IInv'
  <1> SUFFICES ASSUME IInv, ApiChanges \/ DeadlinePasses \/ UNCHANGED vars PROVE IInv'
    OBVIOUS
  <1>1. /\ UNCHANGED <<pc, user, attempt, err, late, sessions, lost, token, outcome>>
        /\ api' \in {"down", "gateway", "up"} /\ expired' \in BOOLEAN /\ (expired => expired')
    BY DEF ApiChanges, DeadlinePasses, vars, IInv, TypeOK
  <1>2. TypeOK'
    BY <1>1 DEF IInv, TypeOK
  <1>3. AttemptsInv'
    BY <1>1 DEF IInv, AttemptsInv, TransientAbsorbed, isRetriableTransportError, isRetriableHTTPStatus
  <1>4. IsRetriableLoginWaitError(err)' <=> IsRetriableLoginWaitError(err)
    BY <1>1 DEF IsRetriableLoginWaitError, isRetriableTransportError
  <1>5. VerdictInv'
    BY <1>1, <1>4 DEF IInv, VerdictInv
  <1>6. DeadlineInv'
    BY <1>1 DEF IInv, DeadlineInv
  <1>7. SessionInv'
    BY <1>1 DEF IInv, SessionInv
  <1> QED BY <1>2, <1>3, <1>5, <1>6, <1>7 DEF IInv

\* Every reachable state satisfies the inductive invariant, for every bound on the
\* attempts of a call.
THEOREM Inductive == Spec => []IInv
  <1>1. IInv /\ [Next]_vars => IInv'
    BY AttemptRefusedKeeps, AttemptLostKeeps, AttemptSucceedsKeeps, ClassifyKeeps, SleepKeeps, SurroundingsKeep
    DEF Next, Step
  <1> QED BY InitInv, <1>1, PTL DEF Spec

\* Every reachable state of the login is well typed: no call makes more than
\* MaxAttempts attempts.
THEOREM TypeCorrect == Spec => []TypeOK
  <1>1. IInv => TypeOK
    BY DEF IInv
  <1> QED BY Inductive, <1>1, PTL

\* client.do returns a temporary error only after its last attempt.
THEOREM TransientAbsorbedThm == Spec => []TransientAbsorbed
  <1>1. IInv => TransientAbsorbed
    BY DEF IInv, AttemptsInv
  <1> QED BY Inductive, <1>1, PTL

\* ensureAuth does not repeat a login that was denied, unless the text of the error
\* has the words of a transport error in it.
THEOREM DenialIsFinalThm == Spec => []DenialIsFinal
  <1>1. IInv => DenialIsFinal
    BY DEF IInv, VerdictInv, DenialIsFinal, IsRetriableLoginWaitError, isRetriableTransportError
  <1> QED BY Inductive, <1>1, PTL

\* Before its deadline ensureAuth gives up on no connection that is refused, times out or
\* breaks off and on no gateway's answer, however many attempts one call makes.
THEOREM WaitsForSylveThm == Spec => []WaitsForSylve
  <1>1. IInv => WaitsForSylve
    BY DEF IInv, TypeOK, VerdictInv, WaitsForSylve, IsRetriableLoginWaitError, isRetriableTransportError, Errors
  <1> QED BY Inductive, <1>1, PTL

\* At most one login begins after the deadline.
THEOREM OneLateLoginThm == Spec => []OneLateLogin
  <1>1. IInv => OneLateLogin
    BY DEF IInv, DeadlineInv, OneLateLogin
  <1> QED BY Inductive, <1>1, PTL

\* Sylve holds a session that the build does not know of only if an answer was lost.
THEOREM SecondSessionOnlyIfLostThm == Spec => []SecondSessionOnlyIfLost
  <1>1. IInv => SecondSessionOnlyIfLost
    BY DEF IInv, SessionInv, SecondSessionOnlyIfLost
  <1> QED BY Inductive, <1>1, PTL

-----------------------------------------------------------------------------
(* What LoginEnds rests on *)

\* The steps ahead of a login whose deadline has passed.
Left ==
  CASE pc = "sleep"    -> MaxAttempts + 2
    [] pc = "call"     -> MaxAttempts + 2 - attempt
    [] pc = "classify" -> 1
    [] pc = "end"      -> 0

\* After the deadline each step of the two loops brings the end nearer, and nothing that
\* Sylve does puts it off: the login ends within MaxAttempts + 2 steps.
LoginRunsDown ==
  [][expired => expired' /\ Left \in 0 .. MaxAttempts + 2 /\ Left' <= Left /\ (Step => Left' < Left)]_vars

\* Past its deadline ensureAuth has a bounded number of attempts left, for every bound on
\* the attempts of one call.
THEOREM LoginRunsDownThm == Spec => LoginRunsDown
  <1>1. ASSUME IInv, IInv', [Next]_vars
        PROVE  [expired => expired' /\ Left \in 0 .. MaxAttempts + 2 /\ Left' <= Left /\ (Step => Left' < Left)]_vars
    <2> SUFFICES ASSUME expired, Next
                 PROVE  expired' /\ Left \in 0 .. MaxAttempts + 2 /\ Left' <= Left /\ (Step => Left' < Left)
      BY <1>1
    <2> USE MaxPositive
    <2>1. TypeOK /\ TypeOK'
      BY <1>1 DEF IInv
    <2>2. Left \in 0 .. MaxAttempts + 2
      BY <2>1 DEF TypeOK, Left
    <2>3. ASSUME NEW e \in Errors, pc = "call", Fails(e) PROVE Left' < Left
      BY <2>1, <2>3 DEF Fails, Left, TypeOK
    <2>4. CASE AttemptRefused
      <3>1. PICK e \in Errors : Fails(e)
        BY <2>4 DEF AttemptRefused, Errors
      <3> QED BY <2>2, <2>3, <2>4, <3>1, <2>1 DEF AttemptRefused, Left, TypeOK
    <2>5. CASE AttemptLost
      <3>1. PICK e \in Errors : Fails(e)
        BY <2>5 DEF AttemptLost, Errors
      <3> QED BY <2>2, <2>3, <2>5, <3>1, <2>1 DEF AttemptLost, Left, TypeOK
    <2>6. CASE AttemptSucceeds
      <3>1. Left' = 0 /\ Left > 0 /\ expired'
        BY <2>1, <2>6 DEF AttemptSucceeds, Left, TypeOK
      <3> QED BY <3>1, <2>2
    <2>8. CASE Classify
      <3>1. expired' /\ pc = "classify" /\ pc' = "end"
        BY <2>8 DEF Classify
      <3>2. Left = 1 /\ Left' = 0
        BY <3>1 DEF Left
      <3> QED BY <3>1, <3>2, <2>2
    <2>9. CASE Sleep
      <3>1. expired' /\ pc = "sleep" /\ pc' = "call" /\ attempt' = 1
        BY <2>9 DEF Sleep
      <3>2. Left = MaxAttempts + 2 /\ Left' = MaxAttempts + 2 - 1
        BY <3>1 DEF Left
      <3> QED BY <3>1, <3>2, <2>2
    <2>7. CASE ApiChanges \/ DeadlinePasses
      <3>1. ~Step
        BY <2>7 DEF ApiChanges, DeadlinePasses, Step, AttemptRefused, AttemptLost, AttemptSucceeds, Classify, Sleep,
                    Fails
      <3>2. expired' /\ Left' = Left
        BY <2>7 DEF ApiChanges, DeadlinePasses, Left
      <3> QED BY <2>1, <2>2, <3>1, <3>2
    <2> QED BY <2>4, <2>5, <2>6, <2>7, <2>8, <2>9 DEF Next, Step
  <1> QED BY <1>1, Inductive, PTL DEF Spec, LoginRunsDown
=============================================================================
