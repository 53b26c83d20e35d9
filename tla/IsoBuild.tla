------------------------------ MODULE IsoBuild ------------------------------
(***************************************************************************)
(* One ISO build, from ensureAuth to the artifact, and what it does to the *)
(* VMs of the Sylve host: builder/sylve/iso/builder.go, step_create_vm.go, *)
(* common/step_delete_vm.go, the retrying HTTP client they call, and the   *)
(* multistep runner of the Packer SDK that runs the steps and clean-ups.   *)
(*                                                                         *)
(* The host is shared: other builds and operators create and delete VMs of *)
(* theirs at any time, and a RID is free for reuse once its VM is deleted. *)
(* An HTTP call is a sequence of attempts, each of which the network may   *)
(* lose before or after the server acted on it.                            *)
(***************************************************************************)
EXTENDS Integers, Sequences

CONSTANTS RIDs,          \* the slots a VM may occupy (1 .. 99 in the code)
          MaxAttempts,   \* maxHTTPAttempts
          MaxRIDAttempts,\* maxRIDAttempts
          Lossy          \* the network may lose requests and responses

ASSUME ConstAssumption ==
  /\ RIDs \subseteq Nat \ {0} /\ RIDs # {}
  /\ MaxAttempts \in Nat \ {0} /\ MaxRIDAttempts \in Nat \ {0} /\ Lossy \in BOOLEAN

\* defaultISOSteps, in order; DoneStage is reached when every step continued.
Steps == <<"download", "http", "create", "start", "boot", "restart", "ip", "connect",
           "provision", "shutdown", "delete">>
DoneStage == 12

VARIABLES
  cfg,        \* destroy, keep_on_error, restart_after_install, a configured token
  pc,         \* control point of the build
  stage,      \* the step the runner is at
  ctxDone,    \* the build's context is cancelled
  cancelled,  \* multistep.StateCancelled is in the bag
  halted,     \* multistep.StateHalted is in the bag
  bagErr,     \* "error" is in the bag
  entered,    \* StepCreateVM.Run was entered: its Cleanup is registered
  vm,         \* the VM in each slot of the host
  past,       \* the build's VM was deleted
  rid,        \* the RID of the call in progress
  tries,      \* RID attempts of the create loop
  attempt,    \* attempts of the HTTP call in progress
  sRid,       \* s.vmRID of StepCreateVM
  bagRid,     \* "vm_rid"
  finalRid,   \* "vm_rid_final"
  refused,    \* the last DeleteVM returned an error
  session,    \* the login session on the host
  outcome,    \* what Run returned
  artRid,     \* the RID the artifact reports
  told        \* history: the build's context was cancelled when Cleanup looked at it

bagVars  == <<cancelled, halted, bagErr, bagRid, finalRid>>
callVars == <<rid, tries, attempt>>
hostVars == <<vm, past, refused>>
endVars  == <<session, outcome, artRid, told>>
vars == <<cfg, pc, stage, ctxDone, entered, sRid, bagVars, callVars, hostVars, endVars>>

NoRID == 0
Ours == {r \in RIDs : vm[r] = "ours"}

PCs == {"auth", "ready", "switch", "runner", "step", "port", "post", "appear", "get", "fix",
        "delete", "cleanup", "cleanupDelete", "finish", "logout", "end"}

TypeOK ==
  /\ cfg \in [destroy : BOOLEAN, keep : BOOLEAN, restart : BOOLEAN, token : BOOLEAN]
  /\ pc \in PCs /\ stage \in 1 .. DoneStage
  /\ ctxDone \in BOOLEAN /\ cancelled \in BOOLEAN /\ halted \in BOOLEAN /\ bagErr \in BOOLEAN
  /\ entered \in BOOLEAN /\ past \in BOOLEAN /\ refused \in BOOLEAN
  /\ vm \in [RIDs -> {"free", "ours", "theirs"}]
  /\ rid \in RIDs \cup {NoRID} /\ tries \in 0 .. MaxRIDAttempts /\ attempt \in 0 .. MaxAttempts
  /\ sRid \in RIDs \cup {NoRID} /\ bagRid \in RIDs \cup {NoRID} /\ finalRid \in RIDs \cup {NoRID}
  /\ session \in {"none", "live", "over", "abandoned"}
  /\ outcome \in {"running", "artifact", "error"} /\ artRid \in RIDs \cup {NoRID}
  /\ told \in BOOLEAN

Init ==
  /\ cfg \in [destroy : BOOLEAN, keep : BOOLEAN, restart : BOOLEAN, token : BOOLEAN]
  /\ pc = "auth" /\ stage = 1 /\ ctxDone = FALSE
  /\ cancelled = FALSE /\ halted = FALSE /\ bagErr = FALSE /\ entered = FALSE
  /\ vm \in [RIDs -> {"free", "theirs"}] /\ past = FALSE /\ refused = FALSE
  /\ rid = NoRID /\ tries = 0 /\ attempt = 0
  /\ sRid = NoRID /\ bagRid = NoRID /\ finalRid = NoRID
  /\ session = "none" /\ outcome = "running" /\ artRid = NoRID /\ told = FALSE

Goto(p) == pc' = p

-----------------------------------------------------------------------------
(* Builder.Run before the runner *)

ReturnErrorGoesOn ==   \* mutant: the error of a pre-flight check is reported, and the build goes on
  /\ Goto("runner") /\ outcome' = "error"
  /\ UNCHANGED <<cfg, stage, ctxDone, entered, sRid, bagVars, callVars, hostVars, session, artRid, told>>

\* Run returns err: no step has run.  The deferred logout is all that follows.
ReturnError ==
  /\ Goto("logout") /\ outcome' = "error"
  /\ UNCHANGED <<cfg, stage, ctxDone, entered, sRid, bagVars, callVars, hostVars, session, artRid, told>>

\* A configured token needs no session; otherwise Login succeeds, or fails for
\* good (bad credentials, or not reachable until sylve_api_login_timeout).
EnsureAuth ==
  /\ pc = "auth"
  /\ \/ cfg.token /\ UNCHANGED session /\ Goto("ready") /\ UNCHANGED outcome
     \/ ~cfg.token /\ session' = "live" /\ Goto("ready") /\ UNCHANGED outcome
     \/ ~cfg.token /\ outcome' = "error" /\ Goto("end") /\ UNCHANGED session
  /\ UNCHANGED <<cfg, stage, ctxDone, entered, sRid, bagVars, callVars, hostVars, artRid, told>>

Preflight(here, next) ==
  /\ pc = here
  /\ \/ ReturnError
     \/ Goto(next) /\ UNCHANGED <<cfg, stage, ctxDone, entered, sRid, bagVars, callVars, hostVars, endVars>>

CheckSylveReady == Preflight("ready", "switch")
EnsureSwitch == Preflight("switch", "runner")

-----------------------------------------------------------------------------
(* multistep.BasicRunner *)

Advance ==
  /\ Goto("runner")
  /\ stage' = IF Steps[stage] = "boot" /\ ~cfg.restart THEN stage + 2 ELSE stage + 1

\* ActionHalt.  withError: the step put "error" in the bag first.  A runner that
\* already knows of the cancellation stops before it notes the halt.
HaltStep(withError) ==
  /\ Goto("cleanup") /\ halted' = ~cancelled /\ bagErr' = withError
  /\ UNCHANGED <<cfg, stage, ctxDone, entered, sRid, cancelled, bagRid, finalRid, endVars>>

\* Before each step the runner looks at the context.
RunnerNext ==
  /\ pc = "runner" /\ stage < DoneStage /\ ~ctxDone
  /\ Goto("step") /\ entered' = (entered \/ Steps[stage] = "create")
  /\ UNCHANGED <<cfg, stage, ctxDone, sRid, bagVars, callVars, hostVars, endVars>>

RunnerCancelled ==
  /\ pc = "runner" /\ stage < DoneStage /\ ctxDone
  /\ Goto("cleanup") /\ cancelled' = TRUE
  /\ UNCHANGED <<cfg, stage, ctxDone, entered, sRid, halted, bagErr, bagRid, finalRid, callVars,
                 hostVars, endVars>>

RunnerDone ==
  /\ pc = "runner" /\ stage = DoneStage /\ Goto("cleanup")
  /\ UNCHANGED <<cfg, stage, ctxDone, entered, sRid, bagVars, callVars, hostVars, endVars>>

\* The runner's goroutine marks a cancellation in the bag some time after it
\* happened, until the clean-ups have run.
WatcherCancels ==
  /\ ctxDone /\ ~cancelled /\ pc \notin {"auth", "ready", "switch", "finish", "logout", "end"}
  /\ cancelled' = TRUE
  /\ UNCHANGED <<cfg, pc, stage, ctxDone, entered, sRid, halted, bagErr, bagRid, finalRid, callVars,
                 hostVars, endVars>>

Cancel ==
  /\ ~ctxDone /\ ctxDone' = TRUE
  /\ UNCHANGED <<cfg, pc, stage, entered, sRid, bagVars, callVars, hostVars, endVars>>

OtherStepSilent ==   \* mutant: a failed connect or provision halts without an error
  /\ pc = "step" /\ Steps[stage] \notin {"create", "delete"}
  /\ \/ Advance /\ UNCHANGED <<cfg, ctxDone, entered, sRid, bagVars, endVars>>
     \/ HaltStep(Steps[stage] \notin {"connect", "provision"})
  /\ UNCHANGED <<callVars, hostVars>>

\* A step that leaves the set of VMs alone: it continues, or halts with an
\* error.  StepConnect and StepProvision halt without one when cancelled.
OtherStep ==
  /\ pc = "step" /\ Steps[stage] \notin {"create", "delete"}
  /\ \/ Advance /\ UNCHANGED <<cfg, ctxDone, entered, sRid, bagVars, endVars>>
     \/ HaltStep(TRUE)
     \/ ctxDone /\ Steps[stage] \in {"connect", "provision"} /\ HaltStep(FALSE)
  /\ UNCHANGED <<callVars, hostVars>>

-----------------------------------------------------------------------------
(* client.do: what can become of one attempt *)

\* No usable answer, of the kind that is retried: the same method, path and body
\* are sent again, whatever the call is, until attempts run out.
LostRetry == Lossy /\ attempt < MaxAttempts /\ attempt' = attempt + 1

\* The last attempt, or a failure that is not retried: an error of another kind,
\* a body that cannot be read or decoded.
LostForGood == Lossy /\ UNCHANGED attempt

-----------------------------------------------------------------------------
(* StepCreateVM.Run *)

CreateStep ==
  /\ pc = "step" /\ Steps[stage] = "create" /\ Goto("port")
  /\ UNCHANGED <<cfg, stage, ctxDone, entered, sRid, bagVars, callVars, hostVars, endVars>>

\* selectVNCPort, then the first random RID.
SelectPort ==
  /\ pc = "port" /\ UNCHANGED hostVars
  /\ \/ HaltStep(TRUE) /\ UNCHANGED callVars
     \/ /\ Goto("post") /\ rid' \in RIDs /\ tries' = 1 /\ attempt' = 1
        /\ UNCHANGED <<cfg, stage, ctxDone, entered, sRid, bagVars, endVars>>

\* The server accepts a RID that is free for a name that is not in use.
CanCreate == vm[rid] = "free" /\ Ours = {}
ServerCreates == vm' = [vm EXCEPT ![rid] = "ours"] /\ UNCHANGED <<past, refused>>

PostCreated ==
  /\ pc = "post" /\ CanCreate /\ ServerCreates /\ Goto("appear")
  /\ UNCHANGED <<cfg, stage, ctxDone, entered, sRid, bagVars, callVars, endVars>>

\* rid_or_name_already_in_use, or vm_create_stale_artifacts_detected for a slot
\* that looks free: another random RID is tried.
PostCollides ==
  /\ pc = "post" /\ UNCHANGED hostVars
  /\ \/ /\ tries < MaxRIDAttempts /\ tries' = tries + 1 /\ rid' \in RIDs /\ attempt' = 1
        /\ UNCHANGED <<cfg, pc, stage, ctxDone, entered, sRid, bagVars, endVars>>
     \/ tries = MaxRIDAttempts /\ HaltStep(TRUE) /\ UNCHANGED callVars

PostRejected == pc = "post" /\ HaltStep(TRUE) /\ UNCHANGED <<callVars, hostVars>>

PostLost ==
  /\ pc = "post"
  /\ \/ UNCHANGED hostVars                   \* the request was lost
     \/ CanCreate /\ ServerCreates           \* the response was
  /\ \/ LostRetry /\ UNCHANGED <<cfg, pc, stage, ctxDone, entered, sRid, bagVars, rid, tries, endVars>>
     \/ LostForGood /\ HaltStep(TRUE) /\ UNCHANGED <<rid, tries>>

\* The loop over ListVMsSimple: found by name, cancelled, or not found in time.
WaitAppear ==
  /\ pc = "appear" /\ UNCHANGED <<hostVars, tries, attempt>>
  /\ \/ /\ rid' \in Ours /\ Goto("get")
        /\ UNCHANGED <<cfg, stage, ctxDone, entered, sRid, bagVars, endVars>>
     \/ HaltStep(TRUE) /\ UNCHANGED rid

GetVM ==
  /\ pc = "get" /\ UNCHANGED <<callVars, hostVars>>
  /\ \/ Goto("fix") /\ UNCHANGED <<cfg, stage, ctxDone, entered, sRid, bagVars, endVars>>
     \/ HaltStep(TRUE)

\* Boot order, startAtBoot and NIC are fixed, with warnings at most; only then
\* does the step remember the VM.
FixAndRemember ==
  /\ pc = "fix" /\ Advance
  /\ sRid' = rid /\ bagRid' = rid /\ finalRid' = rid
  /\ UNCHANGED <<cfg, ctxDone, entered, cancelled, halted, bagErr, callVars, hostVars, endVars>>

-----------------------------------------------------------------------------
(* DeleteVM, called by StepDeleteVM.Run and by StepCreateVM.Cleanup *)

\* The server deletes whatever VM is in the slot now.
ServerDeletes ==
  /\ vm[rid] # "free"
  /\ vm' = [vm EXCEPT ![rid] = "free"] /\ past' = (past \/ vm[rid] = "ours")

DeleteOk == ServerDeletes /\ refused' = FALSE /\ UNCHANGED attempt

\* An error: 404 for an empty slot, Sylve cannot delete, or no usable answer.
DeleteFails ==
  /\ \/ UNCHANGED <<vm, past>>
     \/ Lossy /\ ServerDeletes
  /\ refused' = TRUE /\ UNCHANGED attempt

DeleteRetried == (UNCHANGED <<vm, past>> \/ ServerDeletes) /\ LostRetry /\ UNCHANGED refused

DeleteStep ==
  /\ pc = "step" /\ Steps[stage] = "delete"
  /\ \/ /\ cfg.destroy /\ bagRid # NoRID
        /\ Goto("delete") /\ rid' = bagRid /\ attempt' = 1 /\ UNCHANGED <<stage, tries>>
     \/ (~cfg.destroy \/ bagRid = NoRID) /\ Advance /\ UNCHANGED callVars
  /\ UNCHANGED <<cfg, ctxDone, entered, sRid, bagVars, hostVars, endVars>>

DeleteVMKeepsRid ==   \* mutant: vm_rid is not zeroed after a successful delete
  /\ pc = "delete" /\ UNCHANGED <<cfg, ctxDone, entered, sRid, bagVars, rid, tries, endVars>>
  /\ \/ (DeleteOk \/ DeleteFails) /\ Advance
     \/ DeleteRetried /\ UNCHANGED <<pc, stage>>

\* A failed delete is reported and the step continues; only success zeroes vm_rid.
DeleteVM ==
  /\ pc = "delete"
  /\ UNCHANGED <<cfg, ctxDone, entered, sRid, cancelled, halted, bagErr, finalRid, rid, tries, endVars>>
  /\ \/ DeleteOk /\ Advance /\ bagRid' = NoRID
     \/ DeleteFails /\ Advance /\ UNCHANGED bagRid
     \/ DeleteRetried /\ UNCHANGED <<pc, stage, bagRid>>

CancelledFromBag == cancelled   \* mutant: Cleanup does not ask the context, only the bag

\* StateCancelled in the bag, or the context of Run, which StepProvision may have
\* halted on before the runner's goroutine marks the bag.
CancelledNow == cancelled \/ ctxDone

CleanupKeepsFailed ==   \* mutant: destroy=false keeps the VM of a failed build too
  \/ ~entered \/ sRid = NoRID \/ bagRid = NoRID
  \/ cfg.keep /\ halted /\ ~CancelledNow
  \/ ~cfg.destroy /\ ~CancelledNow

\* The early returns of StepCreateVM.Cleanup.
CleanupKeeps ==
  \/ ~entered \/ sRid = NoRID \/ bagRid = NoRID
  \/ cfg.keep /\ halted /\ ~CancelledNow
  \/ ~cfg.destroy /\ ~halted /\ ~CancelledNow

\* StepCreateVM.Cleanup, which runs on every exit of the runner.
Cleanup ==
  /\ pc = "cleanup"
  /\ \/ CleanupKeeps /\ Goto("finish") /\ UNCHANGED callVars
     \/ ~CleanupKeeps /\ Goto("cleanupDelete") /\ rid' = sRid /\ attempt' = 1 /\ UNCHANGED tries
  /\ told' = ctxDone
  /\ UNCHANGED <<cfg, stage, ctxDone, entered, sRid, bagVars, hostVars, session, outcome, artRid>>

CleanupDelete ==
  /\ pc = "cleanupDelete"
  /\ UNCHANGED <<cfg, stage, ctxDone, entered, sRid, bagVars, rid, tries, endVars>>
  /\ \/ (DeleteOk \/ DeleteFails) /\ Goto("finish")
     \/ DeleteRetried /\ UNCHANGED pc

-----------------------------------------------------------------------------
(* The end of Builder.Run *)

\* vm_rid_final, which StepDeleteVM does not zero.
buildArtifact == IF finalRid # NoRID THEN finalRid ELSE bagRid

\* An error in the bag is what Run returns; halts and cancellations it does not look at.
Finish ==
  /\ pc = "finish" /\ Goto("logout")
  /\ IF bagErr THEN outcome' = "error" /\ UNCHANGED artRid
     ELSE outcome' = "artifact" /\ artRid' = buildArtifact
  /\ UNCHANGED <<cfg, stage, ctxDone, entered, sRid, bagVars, callVars, hostVars, session, told>>

Logout ==
  /\ pc = "logout" /\ Goto("end")
  /\ IF session = "live" THEN session' \in {"over", "abandoned"} ELSE UNCHANGED session
  /\ UNCHANGED <<cfg, stage, ctxDone, entered, sRid, bagVars, callVars, hostVars, outcome, artRid, told>>

-----------------------------------------------------------------------------
(* The other users of the host *)

OtherVM(r) ==
  /\ \/ vm[r] = "free" /\ vm' = [vm EXCEPT ![r] = "theirs"]
     \/ vm[r] = "theirs" /\ vm' = [vm EXCEPT ![r] = "free"]
  /\ UNCHANGED <<cfg, pc, stage, ctxDone, entered, sRid, bagVars, callVars, past, refused, endVars>>

Build ==
  \/ EnsureAuth \/ CheckSylveReady \/ EnsureSwitch
  \/ RunnerNext \/ RunnerCancelled \/ RunnerDone \/ OtherStep
  \/ CreateStep \/ SelectPort \/ PostCreated \/ PostCollides \/ PostRejected \/ PostLost
  \/ WaitAppear \/ GetVM \/ FixAndRemember
  \/ DeleteStep \/ DeleteVM \/ Cleanup \/ CleanupDelete \/ Finish \/ Logout

Next == Build \/ WatcherCancels \/ Cancel \/ \E r \in RIDs : OtherVM(r)

Spec == Init /\ [][Next]_vars

-----------------------------------------------------------------------------
(* Properties *)

\* Cleanup deletes the VM of a failed build, and destroy=true deletes the VM of
\* any build, unless keep_on_error asked for it or Sylve refused: one failed
\* StepDeleteVM is made up for by Cleanup.
NoKnownLeak ==
  pc = "end" /\ sRid # NoRID /\ ~cfg.keep /\ ~refused /\ (cfg.destroy \/ outcome = "error")
    => vm[sRid] # "ours"

\* What Cleanup saw of a cancellation decides the VM's fate, whatever happens after.
\* Cancelled: the VM is deleted or Sylve refused, keep_on_error and destroy=false
\* notwithstanding, and though the runner may not have marked the bag yet.  Not
\* cancelled: the VM that destroy or keep_on_error says is to be kept is there.
KeptUnlessCancelled ==
  pc = "end" /\ sRid # NoRID =>
    IF told THEN refused \/ vm[sRid] # "ours"
    ELSE (IF stage = DoneStage THEN ~cfg.destroy ELSE cfg.keep) => vm[sRid] = "ours"

\* The RID in the bag is the RID of the build's own VM: StepDeleteVM zeroes it
\* before the slot can pass to someone else.
BagRidIsOurs ==
  bagRid # NoRID => bagRid = sRid /\ (vm[bagRid] = "ours" \/ pc \in {"finish", "logout", "end"})

\* A build deletes somebody else's VM in one case only: its own VM was deleted by a
\* request whose answer was lost or told of an error, so that the same call repeats it,
\* or Cleanup does, and the slot was taken since.
ForeignOnlyIfLost ==
  [][\A r \in RIDs : Build /\ vm[r] = "theirs" /\ vm'[r] # "theirs"
       => r = bagRid /\ Lossy /\ past /\ (refused \/ attempt > 1)]_vars

\* On a network that loses nothing a build deletes no VM but its own.
ForeignUntouched ==
  [][Build => \A r \in RIDs : vm[r] = "theirs" => vm'[r] = "theirs"]_vars

\* Every exit after a login, early ones too, has tried to log out.
SessionClosed == pc = "end" => session # "live"

\* A build that did not run all its steps reports an artifact only if it was
\* cancelled: every step that fails of itself leaves its error in the bag.
OnlyCancelHidesFailure == outcome = "artifact" /\ stage # DoneStage => ctxDone

\* The build treats the host as VmDisposition says.
Disposition == INSTANCE VmDisposition WITH
  vmState <- IF Ours # {} THEN "present" ELSE IF past THEN "gone" ELSE "absent",
  outcome <- outcome
DispositionSpec == Disposition!Spec

-----------------------------------------------------------------------------
(* What comments of the source say and the code does not do *)

\* Builder.Run "returns the resulting Artifact on success".
ArtifactOnlyOnSuccess == outcome = "artifact" => stage = DoneStage /\ ~halted

\* StepCreateVM: "Cleanup deletes the VM when the build failed or was cancelled".
FailedBuildLeavesNoVm ==
  pc = "end" /\ outcome = "error" /\ ~cfg.keep /\ ~refused => Ours = {}

\* StepCreateVM.Run: another RID is tried "on collision or stale-artifact errors
\* caused by a previous interrupted build", so not because of its own first POST.
CollisionIsSomeoneElses == pc = "post" /\ tries > 1 => Ours = {}

\* StepCreateVM: "When destroy=false and the build succeeded, Cleanup leaves the
\* VM on Sylve."
SuccessLeavesVm ==
  pc = "end" /\ outcome = "artifact" /\ stage = DoneStage /\ ~cfg.destroy => artRid \in Ours
=============================================================================
