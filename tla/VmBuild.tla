------------------------------ MODULE VmBuild ------------------------------
(***************************************************************************)
(* One build of the VM builder (builder/sylve/vm): a VM is cloned from a   *)
(* template, its NIC fixed, the guest started, provisioned and shut down,  *)
(* and the VM kept or deleted, by the steps and clean-ups that the SDK's   *)
(* multistep runner calls, against a Sylve host that other users share.    *)
(*                                                                         *)
(* A lifecycle call (start, stop) is accepted first and takes effect some  *)
(* time later, when its task runs; the same holds of the clone.            *)
(***************************************************************************)
EXTENDS Integers, Sequences

CONSTANTS RIDs,             \* the slots a VM may occupy (1 .. 9999 in the code)
          CrashThreshold,   \* crashPollThreshold
          NoStateThreshold, \* noStatePollThreshold
          ApiFails,         \* the API may be out of reach for a while, or for ever
          CloneFails,       \* an accepted clone may fail on the host
          Lossy             \* a call may be answered with an error after it took effect

ASSUME VmAssumption ==
  /\ RIDs \subseteq Nat \ {0} /\ RIDs # {}
  /\ CrashThreshold \in Nat \ {0} /\ NoStateThreshold \in Nat \ {0}
  /\ ApiFails \in BOOLEAN /\ CloneFails \in BOOLEAN /\ Lossy \in BOOLEAN

\* Builder.Run's steps, in order; DoneStage is reached when every step continued.
Steps == <<"create", "fixnic", "start", "bootwait", "ip", "tunnel", "connect", "provision",
           "shutdown", "delete">>
DoneStage == 11
StartStage == 3

VARIABLES
  cfg,       \* keep_registered, a configured token, a NIC in the template, MAC to be preserved
  pc,        \* control point of the build
  stage,     \* the step the runner is at
  entered,   \* how many steps were entered: their Cleanups run
  ctxDone,   \* the build's context is cancelled
  cancelled, \* multistep.StateCancelled is in the bag
  halted,    \* multistep.StateHalted is in the bag
  bagErr,    \* "error" is in the bag
  api,       \* the API can be reached
  vm,        \* who owns the VM in each slot of the host; an accepted clone reserves one
  clone,     \* the build's clone on the host
  past,      \* the build's VM was deleted
  dom,       \* domain state of the build's VM
  task,      \* lifecycle task accepted for it
  nic,       \* its NIC: disabled by the clone, detached, attached
  booted,    \* the NIC the domain last started with
  mac,       \* its MAC: the template's, or a fresh one
  rid,       \* the RID FindNextFreeRID found
  bagRid,    \* "vm_rid"
  bagNet,    \* "vm_network_id" is in the bag
  bagMac,    \* "vm_mac"
  ip,        \* whose address "instance_ip" is
  crashes,   \* crashPollCount
  nostates,  \* noStatePollCount
  stopFailed,\* StepStartVM.Cleanup could not see to it that the guest stopped
  refused,   \* the last DeleteVM returned an error
  session,   \* the login session
  outcome,   \* what Run returned
  artRid     \* the RID the artifact reports

hostVars  == <<vm, clone, past>>
guestVars == <<dom, task, nic, booted, mac>>
bagVars   == <<bagRid, bagNet, bagMac, ip>>
pollVars  == <<crashes, nostates>>
doneVars  == <<stopFailed, refused, session, outcome, artRid>>
runVars   == <<cfg, entered, ctxDone, cancelled, api>>
vars == <<runVars, pc, stage, halted, bagErr, hostVars, guestVars, rid, bagVars, pollVars, doneVars>>

NoRID == 0
Ours == {r \in RIDs : vm[r] = "ours"}
Active == dom \in {"running", "blocked"}

PCs == {"auth", "runner", "step", "clone", "waitvm", "waittask", "boot", "bootpoll", "bootstop",
        "stoppoll", "detach", "attach", "refetch", "starttask", "startcall", "startpoll", "ippoll",
        "shutstop", "shutpoll", "delete", "cleanstart", "cleanpoll", "cleancreate", "finish", "logout",
        "end"}

TypeOK ==
  /\ cfg \in [keep : BOOLEAN, token : BOOLEAN, nic : BOOLEAN, samemac : BOOLEAN]
  /\ pc \in PCs /\ stage \in 1 .. DoneStage /\ entered \in 0 .. DoneStage - 1
  /\ ctxDone \in BOOLEAN /\ cancelled \in BOOLEAN /\ halted \in BOOLEAN /\ bagErr \in BOOLEAN
  /\ api \in BOOLEAN
  /\ vm \in [RIDs -> {"free", "ours", "theirs"}]
  /\ clone \in {"none", "accepted", "visible", "done", "failed"} /\ past \in BOOLEAN
  /\ dom \in {"nostate", "running", "blocked", "off"} /\ task \in {"none", "start", "stop"}
  /\ nic \in {"disabled", "detached", "attached"} /\ booted \in {"disabled", "detached", "attached"}
  /\ mac \in {"template", "fresh"}
  /\ rid \in RIDs \cup {NoRID} /\ bagRid \in RIDs \cup {NoRID} /\ bagNet \in BOOLEAN
  /\ bagMac \in {"none", "template", "fresh"} /\ ip \in {"none", "own", "other"}
  /\ crashes \in 0 .. CrashThreshold - 1 /\ nostates \in 0 .. NoStateThreshold - 1
  /\ stopFailed \in BOOLEAN /\ refused \in BOOLEAN
  /\ session \in {"none", "live", "over", "abandoned"}
  /\ outcome \in {"running", "artifact", "error"} /\ artRid \in RIDs \cup {NoRID}

Init ==
  /\ cfg \in [keep : BOOLEAN, token : BOOLEAN, nic : BOOLEAN, samemac : BOOLEAN]
  /\ pc = "auth" /\ stage = 1 /\ entered = 0
  /\ ctxDone = FALSE /\ cancelled = FALSE /\ halted = FALSE /\ bagErr = FALSE /\ api = TRUE
  /\ vm \in [RIDs -> {"free", "theirs"}] /\ clone = "none" /\ past = FALSE
  /\ dom = "nostate" /\ task = "none" /\ nic = "disabled" /\ booted = "disabled" /\ mac = "template"
  /\ rid = NoRID /\ bagRid = NoRID /\ bagNet = FALSE /\ bagMac = "none" /\ ip = "none"
  /\ crashes = 0 /\ nostates = 0 /\ stopFailed = FALSE /\ refused = FALSE
  /\ session = "none" /\ outcome = "running" /\ artRid = NoRID

-----------------------------------------------------------------------------
(* Where a build action leads; each of these is the last word on the runner's *)
(* state.                                                                      *)

Goto(p) == pc' = p /\ UNCHANGED <<runVars, stage, halted, bagErr>>

Advance == pc' = "runner" /\ stage' = stage + 1 /\ UNCHANGED <<runVars, halted, bagErr>>

\* ActionHalt.  withError: the step put "error" in the bag first.  A runner that
\* already knows of the cancellation stops before it notes the halt.
HaltStep(withError) ==
  /\ pc' = "cleanstart" /\ halted' = ~cancelled /\ bagErr' = withError
  /\ UNCHANGED <<runVars, stage>>

HaltOnCancel == ctxDone /\ HaltStep(TRUE)

At(step) == pc = "step" /\ Steps[stage] = step

-----------------------------------------------------------------------------
(* The host *)

SameGuest == UNCHANGED guestVars

\* POST .../actions/start and /stop: a lifecycle task is accepted, one at a time.
StartAccepted ==
  api /\ task = "none" /\ ~Active /\ task' = "start" /\ UNCHANGED <<dom, nic, booted, mac>>
StopAccepted == api /\ task = "none" /\ task' = "stop" /\ UNCHANGED <<dom, nic, booted, mac>>

\* An error: a refusal, no answer, or an answer that was lost.
CallFails(accepted) == SameGuest \/ (Lossy /\ accepted)

\* The task takes effect.  bhyve may exit at once, or the domain not come up.
TaskRuns ==
  /\ \/ task = "start" /\ dom' \in {"running", "off", "nostate"} /\ booted' = nic
     \/ task = "stop" /\ dom' = (IF dom = "nostate" THEN "nostate" ELSE "off") /\ UNCHANGED booted
  /\ task' = "none"
  /\ UNCHANGED <<runVars, pc, stage, halted, bagErr, hostVars, nic, mac, rid, bagVars, pollVars, doneVars>>

\* A running guest idles, works, powers off or crashes.
GuestRuns ==
  /\ Active /\ dom' \in {"running", "blocked", "off"} \ {dom}
  /\ UNCHANGED <<runVars, pc, stage, halted, bagErr, hostVars, task, nic, booted, mac, rid, bagVars,
                 pollVars, doneVars>>

\* The clone: accepted, then listed while its task is active, then done.
CloneRuns ==
  /\ \/ clone = "accepted" /\ clone' = "visible" /\ UNCHANGED <<vm, past>>
     \/ clone = "visible" /\ clone' = "done" /\ UNCHANGED <<vm, past>>
     \/ /\ CloneFails /\ clone \in {"accepted", "visible"} /\ clone' = "failed" /\ UNCHANGED past
        /\ vm' = [r \in RIDs |-> IF vm[r] = "ours" THEN "free" ELSE vm[r]]
  /\ UNCHANGED <<runVars, pc, stage, halted, bagErr, guestVars, rid, bagVars, pollVars, doneVars>>

\* Other users create and delete VMs of theirs.
OtherVM(r) ==
  /\ \/ vm[r] = "free" /\ vm' = [vm EXCEPT ![r] = "theirs"]
     \/ vm[r] = "theirs" /\ vm' = [vm EXCEPT ![r] = "free"]
  /\ UNCHANGED <<runVars, pc, stage, halted, bagErr, clone, past, guestVars, rid, bagVars, pollVars, doneVars>>

ApiChanges ==
  /\ ApiFails /\ api' = ~api
  /\ UNCHANGED <<cfg, entered, ctxDone, cancelled, pc, stage, halted, bagErr, hostVars, guestVars, rid,
                 bagVars, pollVars, doneVars>>

\* The VM in a slot is listed.
Listed(r) == vm[r] = "theirs" \/ (vm[r] = "ours" /\ clone \in {"visible", "done"})

\* DELETE /api/vm/:rid: whatever VM is in the slot now goes, guest and all.
ServerDeletes(r) ==
  /\ api /\ vm[r] # "free" /\ vm' = [vm EXCEPT ![r] = "free"]
  /\ IF vm[r] = "ours" THEN /\ past' = TRUE /\ clone' = "none" /\ dom' = "nostate" /\ task' = "none"
                            /\ UNCHANGED <<nic, booted, mac>>
                       ELSE UNCHANGED <<past, clone, guestVars>>

DeleteFails(r) == UNCHANGED <<hostVars, guestVars>> \/ (Lossy /\ ServerDeletes(r))

-----------------------------------------------------------------------------
(* multistep.BasicRunner *)

EnsureAuthGoesOn ==   \* mutant: the error of ensureAuth is reported, and the build goes on
  /\ pc = "auth" /\ Goto("runner") /\ outcome' = "error"
  /\ UNCHANGED <<session, hostVars, guestVars, rid, bagVars, pollVars, stopFailed, refused, artRid>>

\* ensureAuth: a configured token, a login that succeeds, or one that fails for good.
EnsureAuth ==
  /\ pc = "auth"
  /\ \/ cfg.token /\ Goto("runner") /\ UNCHANGED <<session, outcome>>
     \/ ~cfg.token /\ api /\ Goto("runner") /\ session' = "live" /\ UNCHANGED outcome
     \/ ~cfg.token /\ Goto("end") /\ outcome' = "error" /\ UNCHANGED session
  /\ UNCHANGED <<hostVars, guestVars, rid, bagVars, pollVars, stopFailed, refused, artRid>>

RunnerNext ==
  /\ pc = "runner" /\ stage < DoneStage /\ ~ctxDone
  /\ pc' = "step" /\ entered' = stage
  /\ UNCHANGED <<cfg, ctxDone, cancelled, api, stage, halted, bagErr, hostVars, guestVars, rid, bagVars,
                 pollVars, doneVars>>

RunnerCancelled ==
  /\ pc = "runner" /\ stage < DoneStage /\ ctxDone
  /\ pc' = "cleanstart" /\ cancelled' = TRUE
  /\ UNCHANGED <<cfg, entered, ctxDone, api, stage, halted, bagErr, hostVars, guestVars, rid, bagVars,
                 pollVars, doneVars>>

RunnerDone ==
  /\ pc = "runner" /\ stage = DoneStage /\ Goto("cleanstart")
  /\ UNCHANGED <<hostVars, guestVars, rid, bagVars, pollVars, doneVars>>

\* The runner's goroutine notes a cancellation in the bag some time after it.
WatcherCancels ==
  /\ ctxDone /\ ~cancelled /\ pc \notin {"auth", "finish", "logout", "end"} /\ cancelled' = TRUE
  /\ UNCHANGED <<cfg, entered, ctxDone, api, pc, stage, halted, bagErr, hostVars, guestVars, rid, bagVars,
                 pollVars, doneVars>>

Cancel ==
  /\ ~ctxDone /\ ctxDone' = TRUE
  /\ UNCHANGED <<cfg, entered, cancelled, api, pc, stage, halted, bagErr, hostVars, guestVars, rid, bagVars,
                 pollVars, doneVars>>

-----------------------------------------------------------------------------
(* StepCreateFromTemplate.Run *)

\* The template is looked up, and FindNextFreeRID takes the first RID not listed.
FindRID ==
  /\ At("create") /\ UNCHANGED <<hostVars, guestVars, bagVars, pollVars, doneVars>>
  /\ \/ /\ api /\ rid' \in {r \in RIDs : ~Listed(r) /\ \A s \in RIDs : s < r => Listed(s)}
        /\ Goto("clone")
     \/ HaltStep(TRUE) /\ UNCHANGED rid

CanClone == api /\ vm[rid] = "free" /\ Ours = {}
ServerClones == vm' = [vm EXCEPT ![rid] = "ours"] /\ clone' = "accepted" /\ UNCHANGED past

CreateVMFromTemplate ==
  /\ pc = "clone" /\ UNCHANGED <<guestVars, rid, bagVars, pollVars, doneVars>>
  /\ \/ CanClone /\ ServerClones /\ Goto("waitvm")
     \/ HaltStep(TRUE) /\ UNCHANGED hostVars
     \/ Lossy /\ CanClone /\ ServerClones /\ HaltStep(TRUE)

\* waitForVM looks the VM up, and what it saw of it is what it returns.  The
\* networks of a clone that is not done may not be there yet.
WaitGetVM ==
  /\ pc = "waitvm" /\ api /\ Listed(rid) /\ Goto("waittask")
  /\ \/ bagNet' = cfg.nic
     \/ clone = "visible" /\ bagNet' = FALSE
  /\ UNCHANGED <<hostVars, guestVars, rid, bagRid, bagMac, ip, pollVars, doneVars>>

RememberVM ==
  /\ Advance /\ bagRid' = rid /\ bagMac' = (IF bagNet THEN mac ELSE "none") /\ UNCHANGED <<bagNet, ip>>

\* No active lifecycle task, or an error, which counts as none: the VM is taken
\* for created.  The context is not looked at.
WaitTask ==
  /\ pc = "waittask" /\ UNCHANGED <<hostVars, guestVars, rid, pollVars, doneVars>>
  /\ \/ (~api \/ vm[rid] # "ours" \/ clone # "visible") /\ RememberVM
     \/ api /\ (vm[rid] = "theirs" \/ clone = "visible") /\ Goto("waitvm") /\ UNCHANGED bagVars

\* The deadline of waitForVM.
WaitGivesUp ==
  /\ pc = "waitvm" /\ HaltStep(TRUE)
  /\ UNCHANGED <<hostVars, guestVars, rid, bagVars, pollVars, doneVars>>

-----------------------------------------------------------------------------
(* StepFixNIC.Run *)

FixNIC ==
  /\ At("fixnic") /\ UNCHANGED <<hostVars, guestVars, rid, bagVars, pollVars, doneVars>>
  /\ \/ ~bagNet /\ Advance
     \/ bagNet /\ Goto("boot")
     \/ bagNet /\ HaltStep(TRUE)                 \* no switch name

BootstrapStart ==
  /\ pc = "boot" /\ UNCHANGED <<hostVars, rid, bagVars, pollVars, doneVars>>
  /\ \/ StartAccepted /\ Goto("bootpoll")
     \/ CallFails(StartAccepted) /\ HaltStep(TRUE)

\* The domain exists, or did not leave NoState in time.  A poll that fails goes
\* round the loop without a look at the deadline.
BootstrapPoll ==
  /\ pc = "bootpoll" /\ UNCHANGED <<hostVars, guestVars, rid, bagVars, pollVars, doneVars>>
  /\ \/ api /\ Goto("bootstop")
     \/ HaltOnCancel

\* The result of StopVM is ignored.
BootstrapStop ==
  /\ pc = "bootstop" /\ Goto("stoppoll") /\ (StopAccepted \/ SameGuest)
  /\ UNCHANGED <<hostVars, rid, bagVars, pollVars, doneVars>>

StopPoll ==
  /\ pc = "stoppoll" /\ UNCHANGED <<hostVars, guestVars, rid, bagVars, pollVars, doneVars>>
  /\ \/ api /\ ~Active /\ Goto("detach")
     \/ api /\ Active /\ HaltStep(TRUE)          \* the deadline
     \/ HaltOnCancel

\* Sylve detaches and attaches for an inactive domain only.
Detach ==
  /\ pc = "detach" /\ UNCHANGED <<hostVars, rid, bagVars, pollVars, doneVars, dom, task, booted, mac>>
  /\ \/ api /\ ~Active /\ nic' = "detached" /\ Goto("attach")
     \/ HaltStep(TRUE) /\ UNCHANGED nic
     \/ Lossy /\ api /\ ~Active /\ nic' = "detached" /\ HaltStep(TRUE)

ServerAttaches ==
  api /\ ~Active /\ nic' = "attached" /\ mac' = IF cfg.samemac THEN mac ELSE "fresh"

AttachWarns ==   \* mutant: a failed re-attach is a warning, as in the ISO builder
  /\ pc = "attach" /\ UNCHANGED <<hostVars, rid, bagVars, pollVars, doneVars, dom, task, booted>>
  /\ \/ ServerAttaches /\ Goto("refetch")
     \/ Goto("refetch") /\ UNCHANGED <<nic, mac>>

\* The MAC is kept for a WinRM guest whose MAC id is known.
Attach ==
  /\ pc = "attach" /\ UNCHANGED <<hostVars, rid, bagVars, pollVars, doneVars, dom, task, booted>>
  /\ \/ ServerAttaches /\ Goto("refetch")
     \/ HaltStep(TRUE) /\ UNCHANGED <<nic, mac>>
     \/ Lossy /\ ServerAttaches /\ HaltStep(TRUE)

\* The new MAC replaces the old one in the bag, if it can be read.
Refetch ==
  /\ pc = "refetch" /\ Advance
  /\ bagMac' = IF api THEN mac ELSE bagMac
  /\ UNCHANGED <<hostVars, guestVars, rid, bagRid, bagNet, ip, pollVars, doneVars>>

-----------------------------------------------------------------------------
(* StepStartVM.Run and StepBootWait.Run *)

StartVM ==
  /\ At("start") /\ Goto("starttask")
  /\ UNCHANGED <<hostVars, guestVars, rid, bagVars, pollVars, doneVars>>

\* No lifecycle task is active, or one still is at the deadline.
StartTaskWait ==
  /\ pc = "starttask" /\ UNCHANGED <<hostVars, guestVars, rid, bagVars, pollVars, doneVars>>
  /\ Goto("startcall") \/ HaltOnCancel

\* A start that is refused is repeated until the deadline.
StartCall ==
  /\ pc = "startcall" /\ UNCHANGED <<hostVars, rid, bagVars, doneVars>>
  /\ \/ StartAccepted /\ Goto("startpoll") /\ crashes' = 0 /\ nostates' = 0
     \/ Lossy /\ StartAccepted /\ Goto("startcall") /\ UNCHANGED pollVars
     \/ SameGuest /\ (HaltOnCancel \/ HaltStep(TRUE)) /\ UNCHANGED pollVars
     \/ Lossy /\ StartAccepted /\ HaltStep(TRUE) /\ UNCHANGED pollVars

StartPollActive ==
  /\ pc = "startpoll" /\ api /\ Active /\ Advance
  /\ UNCHANGED <<hostVars, guestVars, rid, bagVars, pollVars, doneVars>>

\* Shutoff or Crashed, poll after poll.
StartPollOffNoHalt ==   \* mutant: the threshold is checked one poll too late
  /\ pc = "startpoll" /\ api /\ dom = "off" /\ nostates' = 0
  /\ \/ crashes < CrashThreshold /\ crashes' = crashes + 1 /\ Goto("startpoll")
     \/ crashes = CrashThreshold /\ HaltStep(TRUE) /\ UNCHANGED crashes
  /\ UNCHANGED <<hostVars, guestVars, rid, bagVars, doneVars>>

StartPollOff ==
  /\ pc = "startpoll" /\ api /\ dom = "off"
  /\ \/ crashes + 1 < CrashThreshold /\ crashes' = crashes + 1 /\ nostates' = 0 /\ Goto("startpoll")
     \/ crashes + 1 = CrashThreshold /\ HaltStep(TRUE) /\ UNCHANGED pollVars
  /\ UNCHANGED <<hostVars, guestVars, rid, bagVars, doneVars>>

\* NoState, poll after poll.
StartPollNoState ==
  /\ pc = "startpoll" /\ api /\ dom = "nostate"
  /\ \/ nostates + 1 < NoStateThreshold /\ nostates' = nostates + 1 /\ crashes' = 0 /\ Goto("startpoll")
     \/ nostates + 1 = NoStateThreshold /\ HaltStep(TRUE) /\ crashes' = 0 /\ UNCHANGED nostates
  /\ UNCHANGED <<hostVars, guestVars, rid, bagVars, doneVars>>

\* The deadline is looked at before each poll, so a failing API does not matter.
StartGivesUpIfApi ==   \* mutant: the deadline is looked at after a poll that succeeded
  /\ pc = "startpoll" /\ api /\ ~Active /\ HaltStep(TRUE)
  /\ UNCHANGED <<hostVars, guestVars, rid, bagVars, pollVars, doneVars>>

StartGivesUp ==
  /\ pc = "startpoll" /\ HaltStep(TRUE)
  /\ UNCHANGED <<hostVars, guestVars, rid, bagVars, pollVars, doneVars>>

\* boot_wait halts without an error when the build is cancelled.
BootWait ==
  /\ At("bootwait") /\ (Advance \/ (ctxDone /\ HaltStep(FALSE)))
  /\ UNCHANGED <<hostVars, guestVars, rid, bagVars, pollVars, doneVars>>

-----------------------------------------------------------------------------
(* StepDiscoverIP.Run, and the steps that leave the host alone *)

DiscoverIP ==
  /\ At("ip") /\ UNCHANGED <<hostVars, guestVars, rid, bagVars, pollVars, doneVars>>
  /\ \/ bagMac # "none" /\ Goto("ippoll")
     \/ bagMac = "none" /\ HaltStep(TRUE)

\* The first lease of the MAC in the bag.  The guest has one if it booted with that
\* MAC; the template's MAC may have others, of the template and of clones that kept it.
FindLease ==
  /\ pc = "ippoll" /\ api /\ Advance
  /\ \/ bagMac = mac /\ Active /\ booted = "attached" /\ ip' = "own"
     \/ bagMac = "template" /\ ip' = "other"
  /\ UNCHANGED <<hostVars, guestVars, rid, bagRid, bagNet, bagMac, pollVars, doneVars>>

DiscoverGivesUp ==
  /\ pc = "ippoll" /\ HaltStep(TRUE)
  /\ UNCHANGED <<hostVars, guestVars, rid, bagVars, pollVars, doneVars>>

OtherStepSilent ==   \* mutant: a failed connect or provision halts without an error
  /\ pc = "step" /\ Steps[stage] \in {"tunnel", "connect", "provision"}
  /\ Advance \/ HaltStep(Steps[stage] = "tunnel")
  /\ UNCHANGED <<hostVars, guestVars, rid, bagVars, pollVars, doneVars>>

\* The tunnel and the SDK's StepConnect and StepProvision; a cancelled connect or
\* provision halts without an error.
OtherStep ==
  /\ pc = "step" /\ Steps[stage] \in {"tunnel", "connect", "provision"}
  /\ \/ Advance
     \/ HaltStep(TRUE)
     \/ ctxDone /\ Steps[stage] \in {"connect", "provision"} /\ HaltStep(FALSE)
  /\ UNCHANGED <<hostVars, guestVars, rid, bagVars, pollVars, doneVars>>

-----------------------------------------------------------------------------
(* StepShutdown.Run and StepDeleteVM.Run *)

\* shutdown_command, if any; it may fail to start.  The guest may power off.
Shutdown ==
  /\ At("shutdown") /\ (Goto("shutstop") \/ HaltStep(TRUE))
  /\ UNCHANGED <<hostVars, guestVars, rid, bagVars, pollVars, doneVars>>

\* The result of StopVM is only reported.
ShutdownStop ==
  /\ pc = "shutstop" /\ Goto("shutpoll") /\ (StopAccepted \/ SameGuest)
  /\ UNCHANGED <<hostVars, rid, bagVars, pollVars, doneVars>>

\* Not running, or not found: the VM is taken for stopped.
ShutdownPoll ==
  /\ pc = "shutpoll" /\ UNCHANGED <<hostVars, guestVars, rid, bagVars, pollVars, doneVars>>
  /\ \/ api /\ (dom # "running" \/ vm[bagRid] = "free") /\ Advance
     \/ HaltOnCancel

\* The deadline: the VM is stopped once more, and the build goes on.
ShutdownForces ==
  /\ pc = "shutpoll" /\ Advance /\ (StopAccepted \/ SameGuest)
  /\ UNCHANGED <<hostVars, rid, bagVars, pollVars, doneVars>>

DeleteStep ==
  /\ At("delete")
  /\ \/ ~cfg.keep /\ bagRid # NoRID /\ Goto("delete")
     \/ (cfg.keep \/ bagRid = NoRID) /\ Advance
  /\ UNCHANGED <<hostVars, guestVars, rid, bagVars, pollVars, doneVars>>

DeleteVMKeepsRid ==   \* mutant: vm_rid is not zeroed after a successful delete
  /\ pc = "delete" /\ Advance
  /\ \/ ServerDeletes(bagRid) /\ refused' = FALSE
     \/ DeleteFails(bagRid) /\ refused' = TRUE
  /\ UNCHANGED <<rid, bagVars, pollVars, stopFailed, session, outcome, artRid>>

\* Only a delete that succeeded zeroes vm_rid.
DeleteVM ==
  /\ pc = "delete" /\ Advance
  /\ \/ ServerDeletes(bagRid) /\ refused' = FALSE /\ bagRid' = NoRID
     \/ DeleteFails(bagRid) /\ refused' = TRUE /\ UNCHANGED bagRid
  /\ UNCHANGED <<rid, bagNet, bagMac, ip, pollVars, stopFailed, session, outcome, artRid>>

-----------------------------------------------------------------------------
(* Clean-ups, in reverse order of the steps, and the end of Builder.Run *)

CleanStartRunningOnly ==   \* mutant: a blocked guest is taken for stopped
  /\ pc = "cleanstart"
  /\ \/ (entered < StartStage \/ bagRid = NoRID) /\ Goto("cleancreate") /\ UNCHANGED <<guestVars, stopFailed>>
     \/ /\ entered >= StartStage /\ bagRid # NoRID
        /\ \/ ~api /\ Goto("cleancreate") /\ stopFailed' = TRUE /\ SameGuest
           \/ api /\ dom # "running" /\ Goto("cleancreate") /\ UNCHANGED <<guestVars, stopFailed>>
           \/ api /\ dom = "running" /\ StopAccepted /\ Goto("cleanpoll") /\ UNCHANGED stopFailed
           \/ /\ api /\ dom = "running" /\ CallFails(StopAccepted) /\ Goto("cleancreate")
              /\ stopFailed' = TRUE
  /\ UNCHANGED <<hostVars, rid, bagVars, pollVars, refused, session, outcome, artRid>>

\* StepStartVM.Cleanup, if the step was entered: a guest that is active is stopped.
CleanStart ==
  /\ pc = "cleanstart"
  /\ \/ (entered < StartStage \/ bagRid = NoRID) /\ Goto("cleancreate") /\ UNCHANGED <<guestVars, stopFailed>>
     \/ /\ entered >= StartStage /\ bagRid # NoRID
        /\ \/ ~api /\ Goto("cleancreate") /\ stopFailed' = TRUE /\ SameGuest
           \/ api /\ ~Active /\ Goto("cleancreate") /\ UNCHANGED <<guestVars, stopFailed>>
           \/ api /\ Active /\ StopAccepted /\ Goto("cleanpoll") /\ UNCHANGED stopFailed
           \/ api /\ Active /\ CallFails(StopAccepted) /\ Goto("cleancreate") /\ stopFailed' = TRUE
  /\ UNCHANGED <<hostVars, rid, bagVars, pollVars, refused, session, outcome, artRid>>

\* ... and waited for, until a deadline.
CleanPoll ==
  /\ pc = "cleanpoll" /\ Goto("cleancreate")
  /\ \/ api /\ ~Active /\ UNCHANGED stopFailed
     \/ stopFailed' = TRUE
  /\ UNCHANGED <<hostVars, guestVars, rid, bagVars, pollVars, refused, session, outcome, artRid>>

CleanCreateKeepsCancelled ==   \* mutant: only a halt counts as a failure
  ~halted \/ entered = 0 \/ bagRid = NoRID

\* The early returns of StepCreateFromTemplate.Cleanup.
CleanCreateKeeps == (~cancelled /\ ~halted) \/ entered = 0 \/ bagRid = NoRID

CleanCreate ==
  /\ pc = "cleancreate" /\ Goto("finish")
  /\ \/ CleanCreateKeeps /\ UNCHANGED <<hostVars, guestVars, bagRid, refused>>
     \/ ~CleanCreateKeeps /\ ServerDeletes(bagRid) /\ bagRid' = NoRID /\ refused' = FALSE
     \/ ~CleanCreateKeeps /\ DeleteFails(bagRid) /\ UNCHANGED bagRid /\ refused' = TRUE
  /\ UNCHANGED <<rid, bagNet, bagMac, ip, pollVars, stopFailed, session, outcome, artRid>>

Finish ==
  /\ pc = "finish" /\ Goto("logout")
  /\ outcome' = IF bagErr THEN "error" ELSE "artifact"
  /\ artRid' = IF bagErr THEN NoRID ELSE bagRid
  /\ UNCHANGED <<hostVars, guestVars, rid, bagVars, pollVars, stopFailed, refused, session>>

Logout ==
  /\ pc = "logout" /\ Goto("end")
  /\ IF session = "live" THEN session' \in {"over", "abandoned"} ELSE UNCHANGED session
  /\ UNCHANGED <<hostVars, guestVars, rid, bagVars, pollVars, stopFailed, refused, outcome, artRid>>

Create   == FindRID \/ CreateVMFromTemplate \/ WaitGetVM \/ WaitTask
FixSteps == FixNIC \/ BootstrapStart \/ BootstrapPoll \/ BootstrapStop \/ StopPoll \/ Detach \/ Attach \/ Refetch
Start    == StartVM \/ StartTaskWait \/ StartCall \/ StartPollActive \/ StartPollOff \/ StartPollNoState
GivesUp  == WaitGivesUp \/ StartGivesUp \/ DiscoverGivesUp \/ ShutdownForces
LastSteps == BootWait \/ DiscoverIP \/ FindLease \/ OtherStep \/ Shutdown \/ ShutdownStop \/ ShutdownPoll
             \/ DeleteStep \/ DeleteVM
CleanUp  == CleanStart \/ CleanPoll \/ CleanCreate
Runner   == EnsureAuth \/ RunnerNext \/ RunnerCancelled \/ RunnerDone \/ Finish \/ Logout
Build    == Runner \/ Create \/ FixSteps \/ Start \/ GivesUp \/ LastSteps \/ CleanUp

Next == Build \/ TaskRuns \/ GuestRuns \/ CloneRuns \/ ApiChanges \/ WatcherCancels \/ Cancel
        \/ \E r \in RIDs : OtherVM(r)

Spec == Init /\ [][Next]_vars

\* The build is scheduled, its calls return (the client has a timeout) and its
\* deadlines pass: one that has passed is found passed at the next look, hence
\* strong fairness.  Nothing is assumed of the host, of the guest or of the user.
FairSpec == Spec /\ WF_vars(Build) /\ SF_vars(GivesUp)

-----------------------------------------------------------------------------
(* Properties *)

\* The RID in the bag is the RID of the build's own VM: what the build starts,
\* stops, rewires and deletes is its own.
BagRidIsOurs == bagRid # NoRID => vm[bagRid] = "ours" \/ pc \in {"finish", "logout", "end"}

\* A build deletes somebody else's VM in two cases only, both when its own VM has gone
\* from the slot before: Sylve gave the clone up after it was listed, or StepDeleteVM
\* was told of an error though Sylve deleted the VM, and Cleanup tries again.
ForeignOnlyIfGone ==
  [][\A r \in RIDs : Build /\ vm[r] = "theirs" /\ vm'[r] # "theirs"
       => r = bagRid /\ ((CloneFails /\ clone = "failed") \/ (Lossy /\ past /\ refused))]_vars

\* A build deletes no VM but its own, if neither can happen.
ForeignUntouched ==
  [][Build => \A r \in RIDs : vm[r] = "theirs" => vm'[r] = "theirs"]_vars

\* A VM the build knows of is deleted when the build failed, and when
\* keep_registered=false, unless Sylve refused.
NoKnownLeak ==
  pc = "end" /\ bagRid # NoRID /\ ~refused => cfg.keep /\ outcome = "artifact"

\* keep_registered=true: the VM a successful build reports is there.
ArtifactVmKept ==
  pc = "end" /\ stage = DoneStage /\ cfg.keep /\ ~ctxDone => artRid \in Ours

\* A VM that is kept is not left running: what StepShutdown took for stopped, or
\* gave up on, StepStartVM.Cleanup stops, unless that failed as well.
KeptVmStopped ==
  pc = "end" /\ stage = DoneStage /\ artRid # NoRID /\ ~stopFailed => ~Active

\* keep_registered=true: the VM that is kept is there when the build is over, and
\* is not left running.
VmKept == ArtifactVmKept /\ KeptVmStopped

\* Past StepStartVM, a VM whose NIC had to be fixed has booted with the NIC
\* attached: no earlier start that takes effect late slips in between.
BootedWithNic == stage > StartStage /\ bagNet /\ pc = "step" => booted = "attached"

\* Every exit after a login has tried to log out.
SessionClosed == pc = "end" => session # "live"

\* A build that did not run all its steps reports an artifact only if it was
\* cancelled: every step that fails of itself leaves its error in the bag.
OnlyCancelHidesFailure == outcome = "artifact" /\ stage # DoneStage => ctxDone

\* The build treats the host as VmDisposition says: it asks for one clone, deletes
\* it at most once and touches the host no more after the outcome.  A clone that
\* fails on the host is not the build's doing, and counts as present.
Disposition == INSTANCE VmDisposition WITH
  vmState <- IF past THEN "gone" ELSE IF clone = "none" THEN "absent" ELSE "present",
  outcome <- outcome
DispositionSpec == Disposition!Spec

\* Every wait of the build ends, even if the API is never reached again, except
\* the two of StepFixNIC.
WaitsEnd ==
  /\ pc \in {"waitvm", "waittask"} ~> pc \notin {"waitvm", "waittask"}
  /\ \A p \in {"starttask", "startcall", "startpoll", "ippoll", "shutpoll", "cleanpoll"} :
       pc = p ~> pc # p

-----------------------------------------------------------------------------
(* What comments of the source say and the code does not do *)

\* "The VM is disposable since it was freshly cloned from a template."
DisposableIsOwnClone == pc = "cleancreate" /\ ~CleanCreateKeeps => vm[bagRid] # "theirs"

\* Cleanup "destroys the created VM when the build failed".
FailedBuildLeavesNoVm == pc = "end" /\ outcome = "error" /\ ~refused => Ours = {}

\* waitForVM waits until the VM "has no active lifecycle task (creation complete)".
CreationComplete == bagRid # NoRID => clone # "visible"

\* ... and its networks are those of the VM that was created: a snapshot taken
\* before the task ended is not.
NetworksOfCreatedVm == pc = "runner" /\ stage = 2 /\ cfg.nic => bagNet

\* fixNICBootstrapMaxWait "is the maximum time to wait for the domain".
BootstrapWaitEnds == pc = "bootpoll" ~> pc # "bootpoll"

\* StepStartVM.Cleanup: later clean-ups "can operate on a stopped domain".
CleanupOnStoppedDomain == pc = "cleancreate" /\ ~CleanCreateKeeps /\ ~stopFailed => ~Active

\* "Re-fetch VM to get the new MAC for StepDiscoverIP."  A preserved MAC is the
\* template's, and may find another guest: the source says so.
IpIsOfThisVm == ~cfg.samemac => ip # "other"

\* StepShutdown.Run: "Any other value means the VM is no longer running."
NotRunningIsStopped ==
  [][ShutdownPoll /\ pc' = "runner" => ~Active]_vars

\* Run "returns the resulting Artifact on success".
ArtifactOnlyOnSuccess == outcome = "artifact" => stage = DoneStage
=============================================================================
