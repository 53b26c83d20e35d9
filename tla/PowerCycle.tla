----------------------------- MODULE PowerCycle -----------------------------
(***************************************************************************)
(* The power cycle of the ISO builder's VM: the fix-ups that end           *)
(* StepCreateVM, the installer boot (StepStartVM), the stop and the second *)
(* boot (StepRestartAfterInstall), and StepShutdown, against Sylve's       *)
(* lifecycle tasks and a host whose clock is not the plugin's.             *)
(*                                                                         *)
(* Fix-ups only warn.  A lifecycle call is accepted first and takes effect *)
(* later; a stop halts the domain, then tears its sockets down, and may    *)
(* hang while it does.                                                     *)
(***************************************************************************)
EXTENDS Naturals

CONSTANTS Skews,    \* what the host's clock may be: "exact", "behind", "ahead"
          ApiFails, \* the API may be out of reach for a while, or for ever
          Lossy,    \* a call may be answered with an error after it took effect
          Hangs,    \* a stop task may hang once bhyve is gone
          Operator  \* somebody may stop and start the VM in Sylve's UI during the installation

ASSUME PowerAssumption ==
  /\ Skews \subseteq {"exact", "behind", "ahead"} /\ Skews # {}
  /\ ApiFails \in BOOLEAN /\ Lossy \in BOOLEAN /\ Hangs \in BOOLEAN /\ Operator \in BOOLEAN

VARIABLES
  pc,        \* control point of the steps
  boot,      \* 1: installer boot, 2: boot of the installed OS
  ctxDone,   \* the build's context is cancelled
  api,       \* the API can be reached
  env,       \* the host's clock; whether its NIC records name their MAC object
  dom,       \* domain state
  task,      \* lifecycle task: accepted, tearing down after a stop, or hung there
  auto,      \* startAtBoot
  cd,        \* the ISO is enabled
  nic,       \* NIC record: disabled by the creation, gone, attached
  mac,       \* its MAC: 0 at creation, another one after each attach without a MAC object
  ran,       \* what the domain was last launched with
  stoppedAt, \* relative to the plugin's stop request
  bag,       \* iso_storage_id known; which record vm_network_id names; vm_mac_object_id (NoMac if nil)
  listener,  \* vnc_view_listener is open
  warned,    \* the fix-ups that failed
  confirmed, \* confirmedStopped
  halted,    \* the domain was inactive at some moment since the stop request
  fresh,     \* the domain was launched since the stop request
  stopOk     \* StepShutdown's StopVM was accepted and answered so

hostVars == <<dom, task, auto, cd, nic, mac, ran, stoppedAt>>
stepVars == <<pc, boot>>
ghostVars == <<halted, fresh>>
vars == <<stepVars, ctxDone, api, env, hostVars, bag, listener, warned, confirmed, ghostVars, stopOk>>

NoMac == 9
MaxMac == 2        \* the NIC is attached twice at most
VmMac == 0         \* vm_mac is read before the first attach and never again
Active == dom \in {"running", "blocked"}
Provisioning == {"provision", "command", "shutstop", "shutpoll", "done"}

TypeOK ==
  /\ pc \in {"autostart", "detach", "attach", "refresh", "release", "wait", "start", "poll", "install",
             "stop", "shutoff", "check", "disable", "halt"} \cup Provisioning
  /\ boot \in {1, 2} /\ ctxDone \in BOOLEAN /\ api \in BOOLEAN
  /\ env \in [skew : Skews, macIds : BOOLEAN]
  /\ dom \in {"nostate", "running", "blocked", "off"}
  /\ task \in {"none", "create", "start", "stop", "teardown", "hung"}
  /\ auto \in BOOLEAN /\ cd \in BOOLEAN
  /\ nic \in {"disabled", "gone", "attached"} /\ mac \in 0 .. MaxMac
  /\ ran \in [cd : BOOLEAN, nic : BOOLEAN]
  /\ stoppedAt \in {"zero", "before", "after"}
  /\ bag \in [iso : BOOLEAN, net : {"none", "live", "stale"}, macId : 0 .. MaxMac \cup {NoMac}]
  /\ listener \in BOOLEAN /\ warned \subseteq {"autostart", "fixnic", "iso", "nic"}
  /\ confirmed \in BOOLEAN /\ halted \in BOOLEAN /\ fresh \in BOOLEAN /\ stopOk \in BOOLEAN

\* StepCreateVM has found its VM.  What it read of it may lack the storages or the
\* networks: nothing waits for the creation task before this.
Init ==
  /\ pc = "autostart" /\ boot = 1 /\ ctxDone = FALSE /\ api = TRUE
  /\ env \in [skew : Skews, macIds : BOOLEAN]
  /\ dom = "nostate" /\ task \in {"create", "none"} /\ auto = TRUE /\ cd = TRUE
  /\ nic = "disabled" /\ mac = VmMac /\ ran = [cd |-> FALSE, nic |-> FALSE] /\ stoppedAt = "zero"
  /\ bag \in [iso : BOOLEAN, net : {"none", "live"}, macId : {IF env.macIds THEN mac ELSE NoMac}]
  /\ listener = TRUE /\ warned = {} /\ confirmed = FALSE /\ halted = FALSE /\ fresh = FALSE
  /\ stopOk = FALSE

-----------------------------------------------------------------------------
(* The host *)

TaskFree == api /\ task = "none"

\* POST .../actions/start: refused for an active domain, and with 409 while a task
\* is active; during the teardown of a stop it may be accepted and silently fail.
StartAccepted ==
  \/ TaskFree /\ ~Active /\ task' = "start"
  \/ api /\ task \in {"teardown", "hung"} /\ UNCHANGED task

StopAccepted == TaskFree /\ task' = "stop"

\* The domain is launched with the disks and the NIC of the record.  bhyve fails
\* if the plugin holds its VNC port, and may fail anyhow.
StartRuns ==
  /\ task = "start" /\ task' = "none"
  /\ dom' \in (IF listener THEN {"nostate"} ELSE {"running", "off", "nostate"})
  /\ ran' = [cd |-> cd, nic |-> nic = "attached"] /\ fresh' = TRUE
  /\ UNCHANGED <<auto, cd, nic, mac, stoppedAt, halted>>

\* The domain halts.  The stop is stamped with the host's clock, which is behind
\* the plugin's by more than the stop took, or is not; only the poll that waits for
\* the stamp reads it.
StopHalts ==
  /\ task = "stop" /\ task' = "teardown" /\ halted' = TRUE
  /\ IF Active THEN /\ dom' = "off"
                    /\ stoppedAt' = IF pc = "shutoff" /\ env.skew # "behind" THEN "after" ELSE "before"
               ELSE UNCHANGED <<dom, stoppedAt>>
  /\ UNCHANGED <<auto, cd, nic, mac, ran, fresh>>

TaskEnds ==
  /\ task \in {"create", "teardown"} /\ task' \in {"none"} \cup (IF Hangs THEN {"hung"} ELSE {})
  /\ task = "create" => task' = "none"
  /\ UNCHANGED <<dom, auto, cd, nic, mac, ran, stoppedAt, ghostVars>>

\* startAtBoot: a VM that stopped is started again.
AutoStarts ==
  /\ auto /\ dom = "off" /\ task = "none" /\ task' = "start"
  /\ UNCHANGED <<dom, auto, cd, nic, mac, ran, stoppedAt, ghostVars>>

\* A running guest idles, works, powers off or crashes.  When it reboots the
\* supervisor relaunches bhyve as it was, which changes nothing here.
GuestRuns ==
  /\ Active /\ dom' \in {"running", "blocked", "off"} \ {dom}
  /\ halted' = (halted \/ dom' = "off")
  /\ UNCHANGED <<task, auto, cd, nic, mac, ran, stoppedAt, fresh>>

OperatorActs ==
  /\ Operator /\ pc = "install" /\ task = "none"
  /\ task' = (IF Active THEN "stop" ELSE "start")
  /\ UNCHANGED <<dom, auto, cd, nic, mac, ran, stoppedAt, ghostVars>>

Host ==
  /\ StartRuns \/ StopHalts \/ TaskEnds \/ AutoStarts \/ GuestRuns \/ OperatorActs
  /\ UNCHANGED <<stepVars, ctxDone, api, env, bag, listener, warned, confirmed, stopOk>>

ApiChanges ==
  /\ ApiFails /\ pc \notin {"done", "halt"} /\ api' = ~api
  /\ UNCHANGED <<stepVars, ctxDone, env, hostVars, bag, listener, warned, confirmed, ghostVars, stopOk>>

Cancel ==
  /\ ~ctxDone /\ ctxDone' = TRUE
  /\ UNCHANGED <<stepVars, api, env, hostVars, bag, listener, warned, confirmed, ghostVars, stopOk>>

-----------------------------------------------------------------------------
(* The end of StepCreateVM.Run: fix-ups, each of which only warns *)

Halt == ctxDone /\ pc' = "halt"
Same == UNCHANGED <<ctxDone, api, env>>
SameHost == UNCHANGED hostVars
SamePower == UNCHANGED <<dom, task, ran, stoppedAt>>
SameDisk == UNCHANGED <<auto, cd>>
SameNic == UNCHANGED <<nic, mac>>
SameEnd == UNCHANGED <<confirmed, ghostVars, stopOk>>
Warns(w) == warned' = warned \cup {w}

NicOr(next) == IF bag.net # "none" THEN "detach" ELSE next

DisableStartAtBootOmits ==   \* mutant: startAtBoot=false is left out of the body
  /\ pc = "autostart" /\ pc' = NicOr("release")
  /\ UNCHANGED auto /\ ((api /\ UNCHANGED warned) \/ Warns("autostart"))
  /\ Same /\ SamePower /\ SameNic /\ SameEnd /\ UNCHANGED <<boot, cd, bag, listener>>

DisableStartAtBoot ==
  /\ pc = "autostart" /\ pc' = NicOr("release")
  /\ \/ api /\ auto' = FALSE /\ UNCHANGED warned
     \/ Warns("autostart") /\ (UNCHANGED auto \/ (Lossy /\ api /\ auto' = FALSE))
  /\ Same /\ SamePower /\ SameNic /\ SameEnd /\ UNCHANGED <<boot, cd, bag, listener>>

\* The NIC is detached and attached before each boot; Sylve does so for an inactive
\* domain only, and knows the record by the id the attach gave it.
NicWarning == IF boot = 1 THEN "fixnic" ELSE "nic"
AfterNic == IF boot = 1 THEN "release" ELSE "start"

ServerDetaches == /\ api /\ ~Active /\ bag.net = "live"
                  /\ nic' = "gone" /\ bag' = [bag EXCEPT !.net = "stale"]

Detach ==
  /\ pc = "detach"
  /\ \/ ServerDetaches /\ pc' = "attach" /\ UNCHANGED warned
     \/ /\ Warns(NicWarning) /\ pc' = AfterNic
        /\ UNCHANGED <<nic, bag>> \/ (Lossy /\ ServerDetaches)
  /\ Same /\ SamePower /\ SameDisk /\ SameEnd /\ UNCHANGED <<boot, mac, listener>>

ServerAttachesAnew ==   \* mutant: the MAC object is not passed on
  api /\ ~Active /\ nic' = "attached" /\ mac' = IF mac < MaxMac THEN mac + 1 ELSE mac

\* Without a MAC object the NIC gets a new MAC.
ServerAttaches ==
  api /\ ~Active /\ nic' = "attached" /\ mac' = IF bag.macId = NoMac THEN mac + 1 ELSE bag.macId

Attach ==
  /\ pc = "attach"
  /\ \/ ServerAttaches /\ pc' = (IF boot = 1 THEN "refresh" ELSE "start") /\ UNCHANGED warned
     \/ /\ Warns(NicWarning) /\ pc' = AfterNic
        /\ SameNic \/ (Lossy /\ ServerAttaches)
  /\ Same /\ SamePower /\ SameDisk /\ SameEnd /\ UNCHANGED <<boot, bag, listener>>

\* The new record's ids replace the old ones, if they can be read; the MAC does not.
Refresh ==
  /\ pc = "refresh" /\ pc' = "release"
  /\ \/ api /\ bag' = [bag EXCEPT !.net = "live", !.macId = IF env.macIds THEN mac ELSE NoMac]
     \/ ~api /\ UNCHANGED bag
  /\ Same /\ SameHost /\ SameEnd /\ UNCHANGED <<boot, listener, warned>>

-----------------------------------------------------------------------------
(* StepStartVM.Run, and the second half of StepRestartAfterInstall.Run *)

Quiet == Same /\ SameHost /\ SameEnd /\ UNCHANGED <<boot, bag, listener, warned>>

Release ==
  /\ pc = "release" /\ pc' = "wait" /\ listener' = FALSE
  /\ Same /\ SameHost /\ SameEnd /\ UNCHANGED <<boot, bag, warned>>

AfterWait == IF boot = 1 THEN "start" ELSE NicOr("start")

\* A look-up that fails is repeated.
TaskWait ==
  /\ pc = "wait" /\ Quiet
  /\ \/ TaskFree /\ pc' = AfterWait
     \/ Halt

TaskWaitGivesUp == pc = "wait" /\ pc' = AfterWait /\ Quiet

\* A start that is refused is repeated.
StartVM ==
  /\ pc = "start"
  /\ \/ StartAccepted /\ pc' = "poll"
     \/ UNCHANGED task /\ Halt
     \/ Lossy /\ StartAccepted /\ UNCHANGED pc
  /\ Same /\ SameDisk /\ SameNic /\ SameEnd /\ UNCHANGED <<dom, ran, stoppedAt, boot, bag, listener, warned>>

StartGivesUp == pc = "start" /\ pc' = "halt" /\ Quiet

PollTakesAny ==   \* mutant: an answer of any state ends the poll
  /\ pc = "poll" /\ Quiet
  /\ \/ api /\ pc' = (IF boot = 1 THEN "install" ELSE "provision")
     \/ Halt

\* Blocked counts as running.
Poll ==
  /\ pc = "poll" /\ Quiet
  /\ \/ api /\ Active /\ pc' = (IF boot = 1 THEN "install" ELSE "provision")
     \/ Halt

PollGivesUp == pc = "poll" /\ pc' = "halt" /\ Quiet

\* The boot command step types the installation.
Install == pc = "install" /\ pc' \in {"stop", "halt"} /\ Quiet

-----------------------------------------------------------------------------
(* The first half of StepRestartAfterInstall.Run *)

IsoOr(next) == IF bag.iso THEN "disable" ELSE next

\* The time is taken, then the stop requested; what it returns is ignored.  A stamp
\* from before reads as later if the host's clock is far enough ahead.
ForceStop ==
  /\ pc = "stop" /\ pc' = "shutoff" /\ boot' = 2
  /\ StopAccepted \/ UNCHANGED task
  /\ stoppedAt' = (IF stoppedAt # "zero" /\ env.skew = "ahead" THEN "after" ELSE stoppedAt)
  /\ halted' = ~Active /\ fresh' = FALSE
  /\ Same /\ SameDisk /\ SameNic /\ UNCHANGED <<dom, ran, bag, listener, warned, confirmed, stopOk>>

ShutoffOnAnyStamp ==   \* mutant: any stoppedAt will do
  /\ pc = "shutoff" /\ Same /\ SameHost /\ UNCHANGED <<boot, bag, listener, warned, ghostVars, stopOk>>
  /\ \/ api /\ stoppedAt # "zero" /\ confirmed' = TRUE /\ pc' = IsoOr("release")
     \/ Halt /\ UNCHANGED confirmed

\* stoppedAt is later than the request.
Shutoff ==
  /\ pc = "shutoff" /\ Same /\ SameHost /\ UNCHANGED <<boot, bag, listener, warned, ghostVars, stopOk>>
  /\ \/ api /\ stoppedAt = "after" /\ confirmed' = TRUE /\ pc' = IsoOr("release")
     \/ Halt /\ UNCHANGED confirmed

ShutoffGivesUpOnAnswer ==   \* mutant: the deadline is looked at after an answer only
  pc = "shutoff" /\ api /\ pc' = "check" /\ Quiet

ShutoffGivesUp == pc = "shutoff" /\ pc' = "check" /\ Quiet

\* A stop that was not confirmed and a task that is active: the build halts.  A
\* look-up that fails counts as no task.
CheckTask ==
  /\ pc = "check" /\ Quiet
  /\ \/ api /\ task # "none" /\ pc' = "halt"
     \/ (~api \/ task = "none") /\ pc' = IsoOr("release")

DisableIsoReenables ==   \* mutant: enable=false is left out of the body, which changes nothing
  /\ pc = "disable" /\ pc' = "release"
  /\ (TaskFree /\ UNCHANGED <<cd, warned>>) \/ (Warns("iso") /\ UNCHANGED cd)
  /\ Same /\ SamePower /\ SameNic /\ SameEnd /\ UNCHANGED <<auto, boot, bag, listener>>

\* The storage update needs the lock an active task holds.
DisableIso ==
  /\ pc = "disable" /\ pc' = "release"
  /\ \/ TaskFree /\ cd' = FALSE /\ UNCHANGED warned
     \/ Warns("iso") /\ (UNCHANGED cd \/ (Lossy /\ TaskFree /\ cd' = FALSE))
  /\ Same /\ SamePower /\ SameNic /\ SameEnd /\ UNCHANGED <<auto, boot, bag, listener>>

-----------------------------------------------------------------------------
(* Discovery, connection and provisioning, then StepShutdown.Run *)

Provision == pc = "provision" /\ pc' \in {"command", "halt"} /\ Quiet

\* No communicator, or a command that does not start, halts.
ShutdownCommand == pc = "command" /\ pc' \in {"shutstop", "halt"} /\ Quiet

ShutdownStop ==
  /\ pc = "shutstop" /\ pc' = "shutpoll"
  /\ \/ StopAccepted /\ stopOk' \in {TRUE} \cup (IF Lossy THEN {FALSE} ELSE {})
     \/ UNCHANGED <<task, stopOk>>
  /\ Same /\ SameDisk /\ SameNic
  /\ UNCHANGED <<dom, ran, stoppedAt, boot, bag, listener, warned, confirmed, ghostVars>>

\* Any state but Running is taken for stopped.
ShutdownPoll ==
  /\ pc = "shutpoll" /\ Quiet
  /\ \/ api /\ dom # "running" /\ pc' = "done"
     \/ Halt

\* At the deadline the VM is stopped once more, and the build goes on.
ShutdownForces ==
  /\ pc = "shutpoll" /\ pc' = "done"
  /\ \/ StopAccepted /\ stopOk' \in {TRUE} \cup (IF Lossy THEN {stopOk} ELSE {})
     \/ UNCHANGED <<task, stopOk>>
  /\ Same /\ SameDisk /\ SameNic
  /\ UNCHANGED <<dom, ran, stoppedAt, boot, bag, listener, warned, confirmed, ghostVars>>

FixUps  == DisableStartAtBoot \/ Detach \/ Attach \/ Refresh
Boot    == Release \/ TaskWait \/ StartVM \/ Poll \/ Install
Restart == ForceStop \/ Shutoff \/ CheckTask \/ DisableIso
Finish  == Provision \/ ShutdownCommand \/ ShutdownStop \/ ShutdownPoll
GivesUp == TaskWaitGivesUp \/ StartGivesUp \/ PollGivesUp \/ ShutoffGivesUp \/ ShutdownForces
Steps   == FixUps \/ Boot \/ Restart \/ Finish \/ GivesUp

Next == Steps \/ Host \/ ApiChanges \/ Cancel

Spec == Init /\ [][Next]_vars

\* The build is scheduled, its calls, the installation, the provisioning and the
\* shutdown command return, and its deadlines pass.  Nothing is assumed of Sylve's
\* tasks, the API, the guest or the user.
FairSpec == Spec /\ WF_vars(Steps) /\ WF_vars(GivesUp)

-----------------------------------------------------------------------------
(* Properties *)

\* The VM that is provisioned, and kept, was last launched without the ISO, unless
\* the storage was not found or a warning said that it could not be disabled.
InstalledOsBoots == pc \in Provisioning /\ bag.iso /\ "iso" \notin warned => ~ran.cd

\* The restart step goes on only with a domain launched since its stop request: the
\* installer's own domain, never stopped, is not taken for the second boot.
SecondBootIsFresh == pc \in Provisioning => fresh

\* A stop counts as confirmed only if the domain was inactive since the request,
\* whatever Sylve stopped before, unless the host's clock is ahead.
ConfirmedMeansHalted == confirmed /\ env.skew # "ahead" => halted

\* If no warning was given for the NIC, the guest that is provisioned has it, with the
\* MAC that the IP discovery looks for.
GuestHasItsNic ==
  pc \in Provisioning /\ bag.net # "none" /\ "nic" \notin warned
    => ran.nic /\ (env.macIds => mac = VmMac)

\* Where startAtBoot was disabled and a stop of StepShutdown accepted, the build goes
\* on with a guest that is off, or will be.
StoppedStays ==
  pc = "done" /\ stopOk /\ "autostart" \notin warned => task = "stop" \/ (~Active /\ task # "start")

\* bhyve is never launched against the plugin's own listener on its VNC port.
LaunchFindsPortFree == [][StartRuns => ~listener]_vars

\* Whatever the API, the tasks and the guest do, the steps end.
StepsEnd == <>(pc \in {"done", "halt"})

\* Not kept (step_restart_after_install.go:68): a stoppedAt later than the request means
\* that the domain has halted.
LateStampMeansHalted == confirmed => halted
=============================================================================
