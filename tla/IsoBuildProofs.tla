--------------------------- MODULE IsoBuildProofs ---------------------------
(***************************************************************************)
(* Theorems about the ISO build, for any number of slots and any bounds on *)
(* retries.  IInv is the inductive invariant: which VM each RID variable   *)
(* names at which control point, and what each exit of the runner implies. *)
(***************************************************************************)
EXTENDS IsoBuild, TLAPS

Over == {"finish", "logout", "end"}
Creating == {"port", "post", "appear", "get", "fix"}

\* Where the runner is.
Where ==
  /\ pc \in {"auth", "ready", "switch"} => stage = 1
  /\ pc \in Creating => stage = 3 /\ entered
  /\ pc = "step" => stage < DoneStage
  /\ pc = "step" /\ stage = 3 => entered
  /\ pc = "delete" => stage = 11
  /\ outcome = "running" <=> pc \notin {"logout", "end"}

\* StepCreateVM remembers the VM in three places at once.
Remembered ==
  /\ sRid = NoRID => bagRid = NoRID /\ finalRid = NoRID /\ ~past /\ stage <= 3
  /\ sRid # NoRID => finalRid = sRid /\ bagRid \in {NoRID, sRid} /\ entered /\ stage > 3
  /\ sRid # NoRID /\ stage < DoneStage => bagRid = sRid
  /\ pc \in {"delete", "cleanupDelete"} => rid = sRid /\ bagRid = sRid /\ sRid # NoRID
  /\ pc \in {"get", "fix"} => rid \in Ours
  /\ pc = "post" => rid \in RIDs

\* The name of the VM is unique on the host.
OneVM == \A r, q \in Ours : r = q

\* Why the runner stopped.
Exits ==
  /\ cancelled => ctxDone
  /\ bagErr => halted \/ ctxDone
  /\ halted \/ bagErr => pc \in {"cleanup", "cleanupDelete"} \cup Over /\ stage < DoneStage
  /\ outcome = "error" /\ sRid # NoRID => bagErr
  /\ outcome = "artifact" /\ sRid # NoRID => artRid = sRid
  /\ pc = "delete" => cfg.destroy
  /\ pc = "cleanup" /\ stage # DoneStage => halted \/ ctxDone
  /\ pc = "cleanupDelete" => told \/ (IF stage = DoneStage THEN cfg.destroy ELSE ~cfg.keep)

\* The VM is there until a step is about to delete it, and gone once vm_rid is zero.
Present ==
  sRid # NoRID =>
    /\ pc \in {"step", "runner", "cleanup"} /\ (stage < DoneStage \/ ~cfg.destroy)
         => vm[sRid] = "ours" /\ bagRid = sRid
    /\ bagRid = NoRID => vm[sRid] # "ours"

\* What Cleanup left behind.
AfterCleanup ==
  pc \in Over /\ sRid # NoRID =>
    /\ ~cfg.keep /\ ~refused /\ (cfg.destroy \/ bagErr) => vm[sRid] # "ours"
    /\ told => refused \/ vm[sRid] # "ours"
    /\ ~told /\ (IF stage = DoneStage THEN ~cfg.destroy ELSE cfg.keep) => vm[sRid] = "ours"

Sessions == (pc = "auth" => session = "none") /\ SessionClosed

IInv == TypeOK /\ Where /\ Remembered /\ OneVM /\ Exits /\ Present /\ AfterCleanup /\ Sessions

-----------------------------------------------------------------------------
\* The steps the model tells apart, by their place.
LEMMA StepPlaces ==
  ASSUME NEW s \in 1 .. 11
  PROVE  /\ Steps[s] = "create" <=> s = 3
         /\ Steps[s] = "delete" <=> s = 11
         /\ Steps[s] = "boot" <=> s = 5
         /\ Steps[s] \in {"connect", "provision"} => s \in {8, 9}
<1>1. s = 1 \/ s = 2 \/ s = 3 \/ s = 4 \/ s = 5 \/ s = 6 \/ s = 7 \/ s = 8 \/ s = 9 \/ s = 10 \/ s = 11
  OBVIOUS
<1> QED
  BY <1>1 DEF Steps

THEOREM InitIInv ==
  Init => IInv
<1>1. Init => TypeOK
  <2> SUFFICES ASSUME Init PROVE TypeOK
    OBVIOUS
  <2>1. vm \in [RIDs -> {"free", "theirs"}]
    BY DEF Init
  <2>2. vm \in [RIDs -> {"free", "ours", "theirs"}]
    BY <2>1
  <2>3. 0 \in 0 .. MaxRIDAttempts /\ 0 \in 0 .. MaxAttempts /\ 1 \in 1 .. DoneStage
    BY ConstAssumption DEF DoneStage
  <2> QED
    BY <2>2, <2>3, ZenonT(60) DEF Init, TypeOK, PCs, NoRID
<1>2. Init => Where /\ Remembered /\ OneVM /\ Exits /\ Present /\ AfterCleanup /\ Sessions
  BY ConstAssumption DEF Init, NoRID, DoneStage, Where, Creating, Remembered, Ours, OneVM, Exits, Over, Present, AfterCleanup, Sessions,
    SessionClosed
<1> QED
  BY <1>1, <1>2 DEF IInv

-----------------------------------------------------------------------------
\* What a halting step does to the runner.
LEMMA HaltFrame ==
  ASSUME TypeOK, NEW e \in BOOLEAN, HaltStep(e)
  PROVE  /\ pc' = "cleanup" /\ halted' \in BOOLEAN /\ (halted' <=> ~cancelled)
         /\ bagErr' \in BOOLEAN /\ (bagErr' <=> e)
         /\ UNCHANGED <<cfg, stage, ctxDone, entered, sRid, cancelled, bagRid, finalRid, session,
                        outcome, artRid, told>>
BY DEF TypeOK, HaltStep, Goto, endVars

\* A step halts with the VMs as they were, or just after its VM was created.
LEMMA HaltInv ==
  ASSUME IInv, NEW e \in BOOLEAN, HaltStep(e), pc \in {"step"} \cup Creating,
         rid' \in RIDs \cup {NoRID}, UNCHANGED <<tries, attempt>>,
         UNCHANGED hostVars \/ (pc = "post" /\ CanCreate /\ ServerCreates)
  PROVE  IInv'
<1> USE HaltFrame DEF IInv, DoneStage, NoRID, Creating, Ours, Over, hostVars, CanCreate, ServerCreates
<1>1. TypeOK'
  BY DEF TypeOK, PCs
<1>2. Where' /\ Remembered' /\ Exits' /\ Sessions'
  BY DEF Where, Remembered, Exits, Sessions, SessionClosed
<1>3. OneVM'
  BY DEF OneVM, TypeOK
<1>4. Present' /\ AfterCleanup'
  BY DEF Present, AfterCleanup, Where, Remembered, TypeOK
<1> QED
  BY <1>1, <1>2, <1>3, <1>4

\* The slots keep their type whoever writes one.
LEMMA SlotType ==
  ASSUME TypeOK, NEW r, NEW x \in {"free", "ours", "theirs"}, vm' = [vm EXCEPT ![r] = x]
  PROVE  vm' \in [RIDs -> {"free", "ours", "theirs"}]
BY DEF TypeOK

LEMMA RunnerNextFrame ==
  ASSUME TypeOK, RunnerNext
  PROVE  /\ pc = "runner" /\ stage < DoneStage /\ pc' = "step"
         /\ entered' \in BOOLEAN /\ (stage = 3 => entered') /\ (entered => entered')
         /\ UNCHANGED <<cfg, stage, ctxDone, sRid, bagVars, callVars, hostVars, endVars>>
<1>1. stage \in 1 .. 11
  BY DEF TypeOK, RunnerNext, DoneStage
<1>2. (Steps[stage] = "create") = (stage = 3)
  BY <1>1, StepPlaces
<1>3. entered' = (entered \/ stage = 3)
  BY <1>2, Zenon DEF RunnerNext
<1>4. entered \in BOOLEAN
  BY DEF TypeOK
<1>5. entered' \in BOOLEAN /\ (stage = 3 => entered') /\ (entered => entered')
  BY <1>3, <1>4, Zenon
<1> QED
  BY <1>5, Zenon DEF RunnerNext, Goto

\* A DELETE frees the slot it names, or nothing happens.
LEMMA DeleteFrame ==
  ASSUME TypeOK, DeleteOk \/ DeleteFails \/ DeleteRetried
  PROVE  /\ vm' \in [RIDs -> {"free", "ours", "theirs"}] /\ past' \in BOOLEAN
         /\ refused' \in BOOLEAN /\ attempt' \in 0 .. MaxAttempts
<1>1. UNCHANGED <<vm, past>> \/ ServerDeletes
  BY DEF DeleteOk, DeleteFails, DeleteRetried
<1>2. vm' \in [RIDs -> {"free", "ours", "theirs"}]
  BY <1>1, SlotType DEF ServerDeletes, TypeOK
<1>3. past' \in BOOLEAN
  BY <1>1, Zenon DEF ServerDeletes, TypeOK
<1>4. refused' \in BOOLEAN
  BY Zenon DEF DeleteOk, DeleteFails, DeleteRetried, TypeOK
<1>5. attempt' \in 0 .. MaxAttempts
  BY ConstAssumption DEF DeleteOk, DeleteFails, DeleteRetried, LostRetry, TypeOK
<1> QED
  BY <1>2, <1>3, <1>4, <1>5

-----------------------------------------------------------------------------
\* Every step that does not halt, by action, keeps IInv; HaltInv is the rest.
LEMMA StepsHalting ==
  ASSUME IInv, Next,
         OtherStep \/ SelectPort \/ PostCollides \/ PostRejected \/ PostLost \/ WaitAppear \/ GetVM
  PROVE  \/ IInv'
         \/ OtherStep /\ Advance
         \/ SelectPort /\ pc' = "post"
         \/ (PostCollides \/ PostLost) /\ UNCHANGED pc
         \/ WaitAppear /\ pc' = "get"
         \/ GetVM /\ pc' = "fix"
<1> USE HaltInv DEF IInv, Creating
<1>0. rid \in RIDs \cup {NoRID}
  BY DEF TypeOK
<1>1. CASE OtherStep
  BY <1>0, <1>1 DEF OtherStep, callVars
<1>2. CASE SelectPort
  BY <1>0, <1>2 DEF SelectPort, Goto, callVars
<1>3. CASE PostCollides
  BY <1>0, <1>3 DEF PostCollides, callVars
<1>4. CASE PostRejected
  BY <1>0, <1>4 DEF PostRejected, callVars
<1>5. CASE PostLost
  BY <1>0, <1>5 DEF PostLost, LostForGood
<1>6. CASE WaitAppear
  BY <1>0, <1>6 DEF WaitAppear, Goto
<1>7. CASE GetVM
  BY <1>0, <1>7 DEF GetVM, Goto, callVars
<1> QED
  BY <1>1, <1>2, <1>3, <1>4, <1>5, <1>6, <1>7

\* The ranges a step on RIDs depends on.
LEMMA RidFacts ==
  ASSUME TypeOK
  PROVE  /\ stage \in 1 .. 12 /\ 0 \notin RIDs
         /\ sRid \in RIDs \cup {0} /\ bagRid \in RIDs \cup {0} /\ rid \in RIDs \cup {0}
BY ConstAssumption DEF TypeOK, DoneStage, NoRID

Rest == Where /\ Remembered /\ OneVM /\ Exits /\ Present /\ AfterCleanup /\ Sessions

\* Every step keeps the type invariant.
LEMMA TypeStep ==
  ASSUME IInv, [Next]_vars
  PROVE  TypeOK'
<1> USE ConstAssumption, StepPlaces DEF IInv, TypeOK, PCs, DoneStage, NoRID, Ours, Creating, bagVars,
  callVars, hostVars, endVars
<1>1. CASE EnsureAuth
  BY <1>1 DEF EnsureAuth, Goto, Where, Remembered
<1>2. CASE CheckSylveReady \/ EnsureSwitch
  BY <1>2 DEF CheckSylveReady, EnsureSwitch, Preflight, ReturnError, Goto, Where, Remembered
<1>3. CASE RunnerNext
  BY <1>3, RunnerNextFrame DEF Where, Remembered
<1>4. CASE RunnerCancelled \/ RunnerDone
  <2>1. CASE RunnerCancelled
    BY <2>1 DEF RunnerCancelled, Goto
  <2>2. CASE RunnerDone
    BY <2>2 DEF RunnerDone, Goto
  <2> QED BY <1>4, <2>1, <2>2
<1>5. CASE OtherStep /\ Advance
  BY <1>5 DEF OtherStep, HaltStep, Advance, Goto, Where, Remembered
<1>6. CASE CreateStep \/ (SelectPort /\ pc' = "post")
  BY <1>6 DEF CreateStep, SelectPort, HaltStep, Goto, Where, Remembered
<1>7. CASE PostCreated
  <2>1. vm' \in [RIDs -> {"free", "ours", "theirs"}] /\ UNCHANGED <<past, refused>>
    BY <1>7, SlotType DEF PostCreated, ServerCreates
  <2> QED
    BY <1>7, <2>1 DEF PostCreated, Goto
<1>8. CASE PostCollides /\ UNCHANGED pc
  BY <1>8 DEF PostCollides, HaltStep, Goto, Where, Remembered
<1>9. CASE PostLost /\ UNCHANGED pc
  BY <1>9, SlotType DEF PostLost, CanCreate, ServerCreates, LostRetry, LostForGood, HaltStep,
    Goto, Where, Remembered
<1>10. CASE (WaitAppear /\ pc' = "get") \/ (GetVM /\ pc' = "fix")
  BY <1>10 DEF WaitAppear, GetVM, HaltStep, Goto, Where, Remembered
<1>11. CASE FixAndRemember
  BY <1>11 DEF FixAndRemember, Advance, Goto, Where, Remembered
<1>12. CASE DeleteStep
  BY <1>12 DEF DeleteStep, Advance, Goto, Where, Remembered
<1>13. CASE DeleteVM
  BY <1>13, DeleteFrame DEF DeleteVM, Advance, Goto, Where
<1>14. CASE Cleanup
  BY <1>14 DEF Cleanup, CleanupKeeps, CancelledNow, Goto, Where, Remembered
<1>15. CASE CleanupDelete
  BY <1>15, DeleteFrame DEF CleanupDelete, Goto
<1>16. CASE Finish \/ Logout
  BY <1>16 DEF Finish, buildArtifact, Logout, Goto, Where, Remembered
<1>17. CASE WatcherCancels \/ Cancel
  <2>1. CASE WatcherCancels
    BY <2>1 DEF WatcherCancels
  <2>2. CASE Cancel
    BY <2>2 DEF Cancel
  <2> QED BY <1>17, <2>1, <2>2
<1>18. ASSUME NEW r \in RIDs, OtherVM(r) PROVE TypeOK'
  BY <1>18, SlotType DEF OtherVM, Where, Remembered
<1>19. CASE UNCHANGED vars
  BY <1>19 DEF vars, Where, Remembered
<1>20. CASE IInv'
  BY <1>20
<1> QED
  BY <1>1, <1>2, <1>3, <1>4, <1>5, <1>6, <1>7, <1>8, <1>9, <1>10, <1>11, <1>12, <1>13, <1>14,
    <1>15, <1>16, <1>17, <1>18, <1>19, <1>20, StepsHalting DEF Next, Build

\* Every step keeps the rest of IInv.
LEMMA ControlStep ==
  ASSUME IInv, [Next]_vars
  PROVE  Rest'
<1> USE StepPlaces, RidFacts DEF IInv, Rest, TypeOK, PCs, DoneStage, NoRID, Ours, Creating, Over, Where, Remembered,
  Exits, Sessions, SessionClosed, OneVM, Present, AfterCleanup, bagVars, callVars, hostVars, endVars
<1>1. CASE EnsureAuth
  BY <1>1 DEF EnsureAuth, Goto
<1>2. CASE CheckSylveReady \/ EnsureSwitch
  BY <1>2 DEF CheckSylveReady, EnsureSwitch, Preflight, ReturnError, Goto
<1>3. CASE RunnerNext
  BY <1>3, RunnerNextFrame
<1>4. CASE RunnerCancelled \/ RunnerDone
  BY <1>4 DEF RunnerCancelled, RunnerDone, Goto
<1>5. CASE OtherStep /\ Advance
  BY <1>5 DEF OtherStep, HaltStep, Advance, Goto
<1>6. CASE CreateStep \/ (SelectPort /\ pc' = "post")
  BY <1>6 DEF CreateStep, SelectPort, HaltStep, Goto
<1>7. CASE PostCreated
  BY <1>7 DEF PostCreated, CanCreate, ServerCreates, Goto
<1>8. CASE PostCollides /\ UNCHANGED pc
  BY <1>8 DEF PostCollides, HaltStep, Goto
<1>9. CASE PostLost /\ UNCHANGED pc
  BY <1>9 DEF PostLost, CanCreate, ServerCreates, LostRetry, LostForGood, HaltStep, Goto
<1>10. CASE (WaitAppear /\ pc' = "get") \/ (GetVM /\ pc' = "fix")
  BY <1>10 DEF WaitAppear, GetVM, HaltStep, Goto
<1>11. CASE FixAndRemember
  BY <1>11 DEF FixAndRemember, Advance, Goto
<1>12. CASE DeleteStep
  BY <1>12 DEF DeleteStep, Advance, Goto
<1>13. CASE DeleteVM
  BY <1>13 DEF DeleteVM, DeleteOk, DeleteFails, DeleteRetried, ServerDeletes, Advance, Goto
<1>14. CASE Cleanup
  BY <1>14 DEF Cleanup, CleanupKeeps, CancelledNow, Goto
<1>15. CASE CleanupDelete
  BY <1>15 DEF CleanupDelete, DeleteOk, DeleteFails, DeleteRetried, ServerDeletes, Goto
<1>16. CASE Finish \/ Logout
  BY <1>16 DEF Finish, buildArtifact, Logout, Goto
<1>17. CASE WatcherCancels \/ Cancel
  BY <1>17 DEF WatcherCancels, Cancel
<1>18. ASSUME NEW r \in RIDs, OtherVM(r) PROVE Rest'
  BY <1>18 DEF OtherVM
<1>19. CASE UNCHANGED vars
  BY <1>19 DEF vars
<1>20. CASE IInv'
  BY <1>20
<1> QED
  BY <1>1, <1>2, <1>3, <1>4, <1>5, <1>6, <1>7, <1>8, <1>9, <1>10, <1>11, <1>12, <1>13, <1>14,
    <1>15, <1>16, <1>17, <1>18, <1>19, <1>20, StepsHalting DEF Next, Build

THEOREM Inductive == Spec => []IInv
<1>1. IInv /\ [Next]_vars => IInv'
  BY TypeStep, ControlStep DEF IInv, Rest
<1> QED BY InitIInv, <1>1, PTL DEF Spec

-----------------------------------------------------------------------------
\* Every reachable state is well typed: no loop of the create step or of the HTTP
\* client runs over its bound.
THEOREM TypeCorrect == Spec => []TypeOK
<1>1. IInv => TypeOK
  BY DEF IInv
<1> QED BY <1>1, Inductive, PTL

\* No build that must delete its VM, and was not refused, ends with the VM there.
THEOREM NoKnownLeakThm == Spec => []NoKnownLeak
<1>1. IInv => NoKnownLeak
  BY DEF IInv, NoKnownLeak, AfterCleanup, Exits, Over
<1> QED BY <1>1, Inductive, PTL

\* A build that Cleanup saw cancelled leaves no VM that Sylve let it delete; one that
\* it did not see cancelled leaves the VM that destroy or keep_on_error asks for.
THEOREM KeptUnlessCancelledThm == Spec => []KeptUnlessCancelled
<1>1. IInv => KeptUnlessCancelled
  BY DEF IInv, KeptUnlessCancelled, AfterCleanup, Over
<1> QED BY <1>1, Inductive, PTL

\* Whatever way a build ends, it has tried to log out of the session it opened.
THEOREM SessionClosedThm == Spec => []SessionClosed
<1>1. IInv => SessionClosed
  BY DEF IInv, Sessions
<1> QED BY <1>1, Inductive, PTL

-----------------------------------------------------------------------------
\* Where the runner has stopped before the last step, the bag holds an error or
\* the build was cancelled.
Explained ==
  /\ pc \in {"cleanup", "cleanupDelete", "finish"} /\ stage # DoneStage => bagErr \/ ctxDone
  /\ OnlyCancelHidesFailure

\* A step that halts leaves an error, unless the build was cancelled.
LEMMA HaltExplained ==
  ASSUME OtherStep \/ SelectPort \/ PostCollides \/ PostRejected \/ PostLost \/ WaitAppear \/ GetVM
  PROVE  pc' = "cleanup" => bagErr' \/ ctxDone'
BY DEF OtherStep, SelectPort, PostCollides, PostRejected, PostLost, WaitAppear, GetVM, HaltStep, Advance, Goto

LEMMA ExplainedStep ==
  ASSUME IInv, Explained, [Next]_vars
  PROVE  Explained'
<1> USE DEF Explained, OnlyCancelHidesFailure, IInv, Where, Creating, bagVars, endVars
<1>1. CASE OtherStep \/ SelectPort \/ PostCollides \/ PostRejected \/ PostLost \/ WaitAppear \/ GetVM
  <2>1. pc' # "finish" /\ pc' # "cleanupDelete" /\ outcome' = outcome /\ outcome = "running"
    BY <1>1 DEF OtherStep, SelectPort, PostCollides, PostRejected, PostLost, WaitAppear, GetVM, HaltStep,
      Advance, Goto
  <2> QED
    BY <1>1, <2>1, HaltExplained
<1>2. CASE EnsureAuth \/ CheckSylveReady \/ EnsureSwitch
  BY <1>2 DEF EnsureAuth, CheckSylveReady, EnsureSwitch, Preflight, ReturnError, Goto
<1>3. CASE RunnerNext \/ RunnerCancelled \/ RunnerDone
  BY <1>3 DEF RunnerNext, RunnerCancelled, RunnerDone, Goto
<1>4. CASE CreateStep \/ PostCreated \/ FixAndRemember \/ DeleteStep \/ DeleteVM
  BY <1>4 DEF CreateStep, PostCreated, FixAndRemember, DeleteStep, DeleteVM, Advance, Goto
<1>5. CASE Cleanup \/ CleanupDelete \/ Finish \/ Logout
  BY <1>5 DEF Cleanup, CleanupDelete, Finish, Logout, Goto
<1>6. CASE WatcherCancels \/ Cancel
  BY <1>6 DEF WatcherCancels, Cancel
<1>7. ASSUME NEW r \in RIDs, OtherVM(r) PROVE Explained'
  BY <1>7 DEF OtherVM
<1>8. CASE UNCHANGED vars
  BY <1>8 DEF vars
<1> QED
  BY <1>1, <1>2, <1>3, <1>4, <1>5, <1>6, <1>7, <1>8 DEF Next, Build

\* A build whose failure is not reported was cancelled.
THEOREM OnlyCancelHidesFailureThm == Spec => []OnlyCancelHidesFailure
<1>1. Init => Explained
  BY DEF Init, Explained, OnlyCancelHidesFailure
<1>2. IInv /\ Explained /\ [Next]_vars => Explained'
  BY ExplainedStep
<1>3. Explained => OnlyCancelHidesFailure
  BY DEF Explained
<1> QED BY <1>1, <1>2, <1>3, Inductive, PTL DEF Spec

-----------------------------------------------------------------------------
(* Whose VM the RID in the bag names *)

\* The RID in the bag is that of the build's own VM, unless a delete that Sylve
\* carried out was lost or answered with an error: then nobody knows that the slot
\* was freed, and the call in progress is a repetition or was refused before.
Unknown == Lossy /\ past /\ (refused \/ (pc \in {"delete", "cleanupDelete"} /\ attempt > 1))
OwnUnlessLost ==
  /\ bagRid # NoRID /\ pc \notin Over => vm[bagRid] = "ours" \/ Unknown
  /\ pc \in {"delete", "cleanupDelete"} => attempt >= 1

\* A DELETE, lost or not, frees the slot of the bag, and only that slot.
LEMMA DeleteSlot ==
  ASSUME IInv, OwnUnlessLost, pc \in {"delete", "cleanupDelete"},
         DeleteOk \/ DeleteFails \/ DeleteRetried
  PROVE  /\ vm[bagRid] = "ours" \/ Unknown
         /\ \A r \in RIDs : r # bagRid => vm'[r] = vm[r]
         /\ DeleteFails => vm'[bagRid] = "ours" \/ (Lossy /\ past' /\ refused')
         /\ DeleteRetried => /\ vm'[bagRid] = "ours" \/ (Lossy /\ past' /\ (refused' \/ attempt' > 1))
                             /\ attempt' >= 1
<1>1. rid = bagRid /\ bagRid \in RIDs
  BY DEF IInv, Remembered, TypeOK
<1>2. (vm[bagRid] = "ours" \/ Unknown) /\ attempt >= 1
  BY DEF OwnUnlessLost, Over, IInv, Remembered
<1>3. UNCHANGED <<vm, past>> \/ ServerDeletes
  BY DEF DeleteOk, DeleteFails, DeleteRetried
<1>4. \A r \in RIDs : r # bagRid => vm'[r] = vm[r]
  BY <1>1, <1>3 DEF ServerDeletes, IInv, TypeOK
<1>5. ServerDeletes /\ Lossy => Lossy /\ past'
  BY <1>1, <1>2 DEF ServerDeletes, Unknown
<1>6. ASSUME DeleteFails PROVE vm'[bagRid] = "ours" \/ (Lossy /\ past' /\ refused')
  BY <1>2, <1>5, <1>6 DEF DeleteFails, Unknown
<1>7. ASSUME DeleteRetried
      PROVE  /\ vm'[bagRid] = "ours" \/ (Lossy /\ past' /\ (refused' \/ attempt' > 1))
             /\ attempt' >= 1
  <2>1. Lossy /\ attempt' = attempt + 1 /\ attempt \in Nat
    BY <1>7, ConstAssumption DEF DeleteRetried, LostRetry, IInv, TypeOK
  <2>2. attempt' > 1
    BY <1>2, <2>1
  <2> QED BY <1>2, <1>5, <1>7, <2>1, <2>2 DEF DeleteRetried, Unknown
<1> QED
  BY <1>2, <1>4, <1>6, <1>7

\* Only the create call and the delete calls write to the slots.
LEMMA SlotWriters ==
  ASSUME IInv, Build
  PROVE  \/ UNCHANGED vm
         \/ pc = "post" /\ CanCreate /\ ServerCreates
         \/ DeleteVM
         \/ CleanupDelete
BY DEF Build, EnsureAuth, CheckSylveReady, EnsureSwitch, Preflight, ReturnError, RunnerNext,
  RunnerCancelled, RunnerDone, OtherStep, CreateStep, SelectPort, PostCreated, PostCollides, PostRejected,
  PostLost, WaitAppear, GetVM, FixAndRemember, DeleteStep, Cleanup, Finish, Logout, hostVars

LEMMA OwnStep ==
  ASSUME IInv, OwnUnlessLost, [Next]_vars
  PROVE  OwnUnlessLost'
<1> USE DEF IInv
<1>1. CASE FixAndRemember
  BY <1>1 DEF FixAndRemember, Advance, Goto, Remembered, hostVars, Ours, OwnUnlessLost
<1>2. CASE DeleteVM
  <2>1. CASE Advance /\ bagRid' = NoRID
    BY <2>1 DEF Advance, Goto, OwnUnlessLost
  <2>2. CASE DeleteFails /\ Advance /\ bagRid' = bagRid
    BY <1>2, <2>2, DeleteSlot DEF DeleteVM, Advance, Goto, OwnUnlessLost, Unknown
  <2>3. CASE DeleteRetried /\ pc' = pc /\ bagRid' = bagRid
    BY <1>2, <2>3, DeleteSlot DEF DeleteVM, OwnUnlessLost, Unknown
  <2> QED BY <1>2, <2>1, <2>2, <2>3 DEF DeleteVM
<1>3. CASE CleanupDelete
  <2>1. CASE pc' = "finish"
    BY <2>1 DEF OwnUnlessLost, Over
  <2>2. CASE pc' # "finish"
    BY <1>3, <2>2, DeleteSlot DEF CleanupDelete, bagVars, Goto, OwnUnlessLost, Unknown
  <2> QED BY <2>1, <2>2
<1>4. CASE ~FixAndRemember /\ ~DeleteVM /\ ~CleanupDelete
  <2>1. /\ bagRid' = bagRid /\ past' = past /\ refused' = refused
        /\ pc' \notin Over => pc \notin Over
        /\ pc \in {"delete", "cleanupDelete"} => UNCHANGED <<pc, attempt>>
        /\ pc \notin {"delete", "cleanupDelete"} /\ pc' \in {"delete", "cleanupDelete"} => attempt' = 1
    BY <1>4 DEF Over, Next, Build, EnsureAuth, CheckSylveReady, EnsureSwitch, Preflight, ReturnError,
      RunnerNext, RunnerCancelled, RunnerDone, OtherStep, HaltStep, Advance, CreateStep, SelectPort, PostCreated,
      PostCollides, PostRejected, PostLost, WaitAppear, GetVM, DeleteStep, Cleanup, Finish, Logout,
      Goto, WatcherCancels, Cancel, OtherVM, bagVars, callVars, hostVars, ServerCreates, vars
  <2>2. pc' \in {"delete", "cleanupDelete"} => attempt' >= 1
    BY <2>1 DEF OwnUnlessLost
  <2>3. ASSUME bagRid # NoRID, pc' \notin Over PROVE vm'[bagRid] = "ours" \/ Unknown'
    <3>1. bagRid \in RIDs /\ (vm[bagRid] = "ours" \/ Unknown)
      BY <2>1, <2>3 DEF OwnUnlessLost, TypeOK
    <3>2. vm[bagRid] = "ours" => vm'[bagRid] = "ours"
      <4>1. CASE Build
        BY <1>4, <3>1, <4>1, SlotWriters DEF CanCreate, ServerCreates, TypeOK
      <4>2. CASE ~Build
        BY <3>1, <4>2 DEF Next, WatcherCancels, Cancel, OtherVM, hostVars, vars, TypeOK
      <4> QED BY <4>1, <4>2
    <3>3. Unknown => Unknown'
      BY <2>1 DEF Unknown
    <3> QED BY <3>1, <3>2, <3>3
  <2> QED BY <2>1, <2>2, <2>3 DEF OwnUnlessLost
<1> QED
  BY <1>1, <1>2, <1>3, <1>4

LEMMA OwnAlways == Spec => []OwnUnlessLost
<1>1. Init => OwnUnlessLost
  BY DEF Init, OwnUnlessLost
<1>2. IInv /\ OwnUnlessLost /\ [Next]_vars => OwnUnlessLost'
  BY OwnStep
<1> QED BY <1>1, <1>2, Inductive, PTL DEF Spec

\* A build deletes somebody else's VM in one case only: its own was deleted by a request
\* whose answer was lost or an error, and the slot was taken before the delete is
\* repeated.  So it is whatever the host, the other users and the network do.
THEOREM ForeignOnlyIfLostThm == Spec => ForeignOnlyIfLost
<1>1. ASSUME IInv, OwnUnlessLost, Build, NEW r \in RIDs, vm[r] = "theirs", vm'[r] # "theirs"
      PROVE  r = bagRid /\ Lossy /\ past /\ (refused \/ attempt > 1)
  <2>1. ~(pc = "post" /\ CanCreate /\ ServerCreates)
    BY <1>1 DEF CanCreate, ServerCreates, IInv, TypeOK
  <2>2. DeleteVM \/ CleanupDelete
    BY <1>1, <2>1, SlotWriters
  <2> QED BY <1>1, <2>2, DeleteSlot DEF DeleteVM, CleanupDelete, Unknown
<1>2. IInv /\ OwnUnlessLost /\ [Next]_vars
        => [\A r \in RIDs : Build /\ vm[r] = "theirs" /\ vm'[r] # "theirs"
              => r = bagRid /\ Lossy /\ past /\ (refused \/ attempt > 1)]_vars
  BY <1>1
<1> QED BY <1>2, OwnAlways, Inductive, PTL DEF Spec, ForeignOnlyIfLost

\* On a network that loses nothing the RID in the bag is never that of somebody
\* else's VM.
THEOREM BagRidIsOursThm ==
  ASSUME ~Lossy
  PROVE  Spec => []BagRidIsOurs
<1>1. IInv /\ OwnUnlessLost => BagRidIsOurs
  BY DEF IInv, Remembered, OwnUnlessLost, Unknown, BagRidIsOurs, Over
<1> QED BY <1>1, OwnAlways, Inductive, PTL

\* A build on such a network deletes no VM but its own.
THEOREM ForeignUntouchedThm ==
  ASSUME ~Lossy
  PROVE  Spec => ForeignUntouched
<1>1. [\A r \in RIDs : Build /\ vm[r] = "theirs" /\ vm'[r] # "theirs"
          => r = bagRid /\ Lossy /\ past /\ (refused \/ attempt > 1)]_vars
        => [Build => \A r \in RIDs : vm[r] = "theirs" => vm'[r] = "theirs"]_vars
  OBVIOUS
<1> QED BY <1>1, ForeignOnlyIfLostThm, PTL DEF ForeignOnlyIfLost, ForeignUntouched

-----------------------------------------------------------------------------
\* A build owes the host what VmDisposition says, on any network.
THEOREM DispositionRefinement == Spec => DispositionSpec
<1>1. Init => Disposition!Init
  BY DEF Init, Disposition!Init, Ours
<1>2. ASSUME IInv, [Next]_vars PROVE [Disposition!Next]_Disposition!vars
  <2> USE <1>2 DEF IInv, Disposition!Next, Disposition!vars
  <2>1. CASE UNCHANGED <<vm, past, outcome>>
    BY <2>1 DEF Ours
  <2>2. CASE UNCHANGED <<vm, past>> /\ outcome = "running" /\ outcome' \in {"artifact", "error"}
    BY <2>2 DEF Ours, Disposition!Report
  <2>3. ASSUME pc = "post", CanCreate, ServerCreates, UNCHANGED outcome
        PROVE  [Disposition!Next]_Disposition!vars
    <3>1. Ours = {} /\ Ours' # {} /\ ~past /\ ~past' /\ outcome = "running"
      BY <2>3 DEF CanCreate, ServerCreates, Ours, Where, Remembered, Creating, TypeOK, NoRID
    <3>2. outcome' = outcome
      BY <2>3
    <3>3. Disposition!Create
      BY <3>1, <3>2, Zenon DEF Disposition!Create
    <3> QED
      BY <3>3
  <2>4. ASSUME ServerDeletes, pc \in {"delete", "cleanupDelete"}, UNCHANGED outcome
        PROVE  [Disposition!Next]_Disposition!vars
    <3>1. CASE vm[rid] = "ours"
      <4>1. Ours # {} /\ Ours' = {} /\ past' /\ outcome = "running"
        BY <2>4, <3>1 DEF ServerDeletes, Ours, OneVM, Remembered, Where, TypeOK, NoRID
      <4> QED
        BY <2>4, <4>1 DEF Disposition!Delete
    <3>2. CASE vm[rid] # "ours"
      <4>1. Ours' = Ours /\ past' = past
        BY <2>4, <3>2 DEF ServerDeletes, Ours, TypeOK
      <4> QED
        BY <2>4, <4>1
    <3> QED BY <3>1, <3>2
  <2>5. ASSUME NEW r \in RIDs, OtherVM(r) PROVE [Disposition!Next]_Disposition!vars
    <3>1. Ours' = Ours /\ UNCHANGED <<past, outcome>>
      BY <2>5 DEF OtherVM, Ours, TypeOK, endVars
    <3> QED
      BY <3>1
  <2>6. CASE DeleteVM \/ CleanupDelete
    BY <2>1, <2>4, <2>6 DEF DeleteVM, CleanupDelete, DeleteOk, DeleteFails, DeleteRetried, endVars
  <2>7. CASE PostCreated \/ PostLost
    BY <2>1, <2>3, <2>7 DEF PostCreated, PostLost, HaltStep, endVars, hostVars
  <2>8. CASE Build /\ ~DeleteVM /\ ~CleanupDelete /\ ~PostCreated /\ ~PostLost
    BY <2>1, <2>2, <2>8 DEF Build, EnsureAuth, CheckSylveReady, EnsureSwitch, Preflight, ReturnError,
      RunnerNext, RunnerCancelled, RunnerDone, OtherStep, HaltStep, CreateStep, SelectPort, PostCollides,
      PostRejected, WaitAppear, GetVM, FixAndRemember, DeleteStep, Cleanup, Finish, Logout, Where,
      hostVars, endVars
  <2> QED
    BY <2>1, <2>5, <2>6, <2>7, <2>8 DEF Next, WatcherCancels, Cancel, hostVars, endVars, vars
<1> QED BY <1>1, <1>2, Inductive, PTL DEF Spec, DispositionSpec, Disposition!Spec

-----------------------------------------------------------------------------
(* A build ends *)

\* The control points ahead of the build, in the order they are entered in.
Place ==
  CASE pc = "auth"          -> 128
    [] pc = "ready"         -> 127
    [] pc = "switch"        -> 126
    [] pc = "runner"        -> 10 * (DoneStage - stage) + 15
    [] pc = "step"          -> 10 * (DoneStage - stage) + 14
    [] pc = "port"          -> 10 * (DoneStage - stage) + 13
    [] pc = "post"          -> 10 * (DoneStage - stage) + 12
    [] pc = "appear"        -> 10 * (DoneStage - stage) + 11
    [] pc = "get"           -> 10 * (DoneStage - stage) + 10
    [] pc = "fix"           -> 10 * (DoneStage - stage) + 9
    [] pc = "delete"        -> 10 * (DoneStage - stage) + 8
    [] pc = "cleanup"       -> 5
    [] pc = "cleanupDelete" -> 4
    [] pc = "finish"        -> 3
    [] pc = "logout"        -> 2
    [] pc = "end"           -> 0

\* A request is sent once more: for another RID, or because its answer was lost.
Again ==
  /\ UNCHANGED <<pc, stage>>
  /\ \/ pc = "post" /\ tries' = tries + 1 /\ tries' <= MaxRIDAttempts
     \/ /\ pc \in {"post", "delete", "cleanupDelete"} /\ tries' = tries
        /\ attempt' = attempt + 1 /\ attempt' <= MaxAttempts

\* The build goes forward with each step, or repeats a create or a delete within its two
\* bounds.  No step runs twice, none before one that is listed earlier, and none after a
\* clean-up; what the host and the other users do changes nothing of that.
BuildRunsDown ==
  [][/\ Place \in 0 .. 128
     /\ IF Build THEN Place' < Place \/ Again ELSE Place' = Place]_vars

LEMMA PlaceType ==
  ASSUME IInv
  PROVE  /\ Place \in 0 .. 128 /\ stage \in 1 .. 12
         /\ pc \notin {"auth", "ready", "switch", "runner", "cleanup", "cleanupDelete", "finish", "logout", "end"}
              => stage <= 11 /\ Place >= 10 * (12 - stage) + 8
         /\ pc = "runner" => Place = 10 * (12 - stage) + 15
<1>1. pc \in PCs /\ stage \in 1 .. 12
  BY DEF IInv, TypeOK, DoneStage
<1>2. pc \in {"step", "delete"} \cup Creating => stage <= 11
  BY <1>1 DEF IInv, Where, DoneStage
<1> QED
  BY <1>1, <1>2 DEF PCs, Creating, Place, DoneStage

\* A step that continues or halts.
LEMMA AdvanceDown ==
  ASSUME IInv, pc \in {"step", "delete"} \cup Creating, Advance \/ pc' = "cleanup", IInv'
  PROVE  Place' < Place
<1>1. stage \in 1 .. 11 /\ Place >= 10 * (12 - stage) + 8
  BY PlaceType DEF Creating
<1>2. CASE pc' = "cleanup"
  <2>1. Place' = 5
    BY <1>2 DEF Place
  <2> QED BY <1>1, <2>1, PlaceType
<1>3. CASE Advance
  <2>1. pc' = "runner" /\ stage' \in {stage + 1, stage + 2} /\ stage' \in 1 .. 12
    BY <1>1, <1>3 DEF Advance, Goto, IInv, TypeOK, DoneStage
  <2>2. Place' = 10 * (12 - stage') + 15
    BY <2>1 DEF Place, DoneStage
  <2> QED BY <1>1, <2>1, <2>2, PlaceType
<1> QED BY <1>2, <1>3

LEMMA BuildDown ==
  ASSUME IInv, IInv', Build
  PROVE  Place' < Place \/ Again
<1> USE DEF Goto
<1>0. stage \in 1 .. 12 /\ Place \in 0 .. 128 /\ DoneStage = 12
  BY PlaceType DEF DoneStage
<1>1. CASE EnsureAuth \/ CheckSylveReady \/ EnsureSwitch
  <2>1. \/ pc = "auth" /\ (pc' = "ready" \/ pc' = "end")
        \/ pc = "ready" /\ (pc' = "switch" \/ pc' = "logout")
        \/ pc = "switch" /\ pc' = "runner" /\ stage' = stage
        \/ pc = "switch" /\ pc' = "logout"
    BY <1>1 DEF EnsureAuth, CheckSylveReady, EnsureSwitch, Preflight, ReturnError
  <2> QED BY <1>0, <2>1 DEF Place
<1>2. CASE RunnerNext \/ RunnerCancelled \/ RunnerDone
  <2>1. pc = "runner" /\ stage' = stage /\ (pc' = "step" \/ pc' = "cleanup")
    BY <1>2 DEF RunnerNext, RunnerCancelled, RunnerDone
  <2> QED BY <1>0, <2>1 DEF Place
<1>3. CASE OtherStep \/ PostRejected \/ FixAndRemember
  BY <1>3, AdvanceDown DEF OtherStep, PostRejected, FixAndRemember, HaltStep, Creating
<1>4. CASE CreateStep \/ PostCreated
  <2>1. stage' = stage /\ ((pc = "step" /\ pc' = "port") \/ (pc = "post" /\ pc' = "appear"))
    BY <1>4 DEF CreateStep, PostCreated
  <2> QED BY <1>0, <2>1 DEF Place
<1>5. CASE SelectPort \/ WaitAppear \/ GetVM
  <2>1. CASE pc' = "cleanup"
    BY <1>5, <2>1, AdvanceDown DEF SelectPort, WaitAppear, GetVM, Creating
  <2>2. CASE pc' # "cleanup"
    <3>1. /\ stage' = stage
          /\ \/ pc = "port" /\ pc' = "post"
             \/ pc = "appear" /\ pc' = "get"
             \/ pc = "get" /\ pc' = "fix"
      BY <1>5, <2>2 DEF SelectPort, WaitAppear, GetVM, HaltStep
    <3> QED BY <1>0, <3>1 DEF Place
  <2> QED BY <2>1, <2>2
<1>6. CASE PostCollides \/ PostLost
  <2>1. CASE pc' = "cleanup"
    BY <1>6, <2>1, AdvanceDown DEF PostCollides, PostLost, Creating
  <2>2. CASE pc' # "cleanup"
    BY <1>6, <2>2 DEF PostCollides, PostLost, LostRetry, HaltStep, Again, IInv, TypeOK
  <2> QED BY <2>1, <2>2
<1>7. CASE DeleteStep
  <2>1. CASE Advance
    BY <1>7, <2>1, AdvanceDown DEF DeleteStep
  <2>2. CASE pc' = "delete"
    <3>1. pc = "step" /\ pc' = "delete" /\ stage' = stage
      BY <1>7, <2>2 DEF DeleteStep, Advance
    <3> QED BY <1>0, <3>1 DEF Place
  <2> QED BY <1>7, <2>1, <2>2 DEF DeleteStep
<1>8. CASE DeleteVM
  <2>1. CASE Advance
    BY <1>8, <2>1, AdvanceDown DEF DeleteVM
  <2>2. CASE ~Advance
    BY <1>8, <2>2 DEF DeleteVM, DeleteRetried, LostRetry, Again, IInv, TypeOK
  <2> QED BY <2>1, <2>2
<1>9. CASE CleanupDelete
  <2>1. CASE pc' = "finish"
    BY <1>9, <2>1 DEF CleanupDelete, Place
  <2>2. CASE pc' # "finish"
    BY <1>9, <2>2 DEF CleanupDelete, DeleteRetried, LostRetry, Again, IInv, TypeOK
  <2> QED BY <2>1, <2>2
<1>10. CASE Cleanup \/ Finish \/ Logout
  <2>1. \/ pc = "cleanup" /\ pc' = "finish"
        \/ pc = "cleanup" /\ pc' = "cleanupDelete"
        \/ pc = "finish" /\ pc' = "logout"
        \/ pc = "logout" /\ pc' = "end"
    BY <1>10 DEF Cleanup, Finish, Logout
  <2> QED BY <2>1 DEF Place
<1> QED
  BY <1>1, <1>2, <1>3, <1>4, <1>5, <1>6, <1>7, <1>8, <1>9, <1>10 DEF Build

\* A build takes at most 128 steps besides the requests it repeats, of which there are at
\* most MaxRIDAttempts * MaxAttempts for the create and MaxAttempts for each delete.
THEOREM BuildRunsDownThm == Spec => BuildRunsDown
<1>1. ASSUME IInv, IInv', Next
      PROVE  Place \in 0 .. 128 /\ (IF Build THEN Place' < Place \/ Again ELSE Place' = Place)
  <2>1. ~Build => UNCHANGED <<pc, stage>>
    BY <1>1 DEF Next, WatcherCancels, Cancel, OtherVM
  <2>2. UNCHANGED <<pc, stage>> => Place' = Place
    BY DEF Place
  <2> QED BY <1>1, <2>1, <2>2, PlaceType, BuildDown
<1>2. IInv /\ IInv' /\ [Next]_vars
        => [/\ Place \in 0 .. 128
            /\ IF Build THEN Place' < Place \/ Again ELSE Place' = Place]_vars
  BY <1>1
<1> QED BY <1>2, Inductive, PTL DEF Spec, BuildRunsDown
=============================================================================
