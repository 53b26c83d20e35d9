# TLA+ models of packer-plugin-sylve

Packer plugin for Sylve, a manager of bhyve VMs on FreeBSD. The plugin builds
images by driving VMs on a Sylve host over its HTTP API and over VNC. This
directory holds TLA+ models of the plugin's core logic, TLC configurations that
check them on small instances, and TLAPS proofs for all instances.

## Inventory

| Component | State it keeps | Operations | Hard behaviour |
|---|---|---|---|
| VNC view server, `builder/sylve/iso/vnc_view_server.go` | upstream connection, stopped flag, stop channel, connection-changed channel, wait group, viewers, listener | start, Stop, Wait, WaitForNewConn, swapConn, startPoller, spawnReconnect, pollers, viewer handlers | many goroutines; guest reboots at any time; Stop against a reconnect in flight; contexts derived from contexts |
| Boot command step, `step_vnc_boot_command.go` | first connection, index of the command | Run, the reconnect closure | dial loops with deadlines, failure in the middle of a command, exits that skip Stop |
| ISO builder, `iso/builder.go` | token, config, runner | ensureAuth, checkSylveReady, ensureSwitch, Run, buildArtifact | a login wait around the client's own retries, cancellation between steps, what counts as success |
| VM creation and clean-up, `iso/step_create_vm.go`, `common/step_delete_vm.go` | vmRID, `vm_rid`, `vm_rid_final` in the bag | RID loop, wait for the VM, fix-ups, StepDeleteVM, Cleanup | a VM the step does not yet know; RIDs reused by other users; keep_on_error and destroy against cancellation |
| HTTP client, `internal/client/client.go`, `retry.go` | token | do, and one wrapper per endpoint | POST and DELETE repeated after a lost answer; errors told apart by their text |
| ISO download, `iso/step_download_iso.go` | `iso_uuid` | Run | two builds share one download record; a stale failed record |
| Start, restart, shutdown, `iso/step_start_vm.go`, `step_restart_after_install.go`, `step_shutdown.go` | deadlines | Run | asynchronous lifecycle tasks of Sylve, a stop that hangs, clock skew in stoppedAt, startAtBoot, NIC and ISO changes that only warn |
| IP discovery, `common/step_discover_ip.go` | `instance_ip` | Run | polling with a deadline, stale leases |
| VM builder, `builder/sylve/vm/` | RID, NIC ids in the bag | clone, bootstrap start, NIC fix, crash detection, tunnel, shutdown, delete | asynchronous clone, loops that ignore the context or the deadline, RID allocation without a lock |
| WinRM tunnel and bastion, `vm/step_winrm_tunnel.go`, `ssh_bastion.go` | listener, SSH connection, forwards; the surrounding (`~/.ssh/config`, key files, agent) | Run, forwardConns, Cleanup; applyAutoBastion, resolveBastionSSHParams | goroutines that outlive Run, connections accepted while Cleanup runs; one order of credentials in three places |
| Configuration, `iso/config.go`, `vm/config.go` | none beyond one call | Prepare | the bastion's credentials again |
| Generated HCL code, artifacts, stubs (jail, provisioner, post-processor, data source), entry point | none beyond one call | | |

Interaction: Packer calls `Builder.Run`, which hands a list of steps and a shared
state bag to the SDK's `multistep.BasicRunner`. Steps talk to Sylve through
`internal/client`, to each other through the bag (`vm_rid`, `vm_id`,
`vnc_view_listener`, `error`, ...), and the runner calls every entered step's
Cleanup in reverse order. Inside the boot command step, the step's goroutine, the
pollers, the reconnectors and the viewers share one `vncViewServer`.

What makes each part correct:

- view server: one driver of the upstream at a time, no orphaned connection,
  nothing left after Stop and Wait, a retry only on a newer connection, reboots
  noticed, Run returns;
- ISO builder: the VM is deleted or kept as destroy, keep_on_error and the outcome
  demand, no VM of somebody else is touched, a session opened is closed;
- download: nobody clears a record another build waits for or uses, no build fails,
  or crashes, for a record another build removes, the progress bar is settled;
- login: a Sylve that is starting is waited for, for a bounded time, and a session is
  opened once;
- start, restart, shutdown: the second boot is a new launch, from disk and with the
  NIC whose MAC the IP discovery looks for, a stop that is older than the request
  does not count as one, a VM that was stopped stays so, every wait is bounded;
- tunnel and bastion: the same credentials everywhere, in the documented order, and
  no client, channel or copy left behind by a tunnel that was torn down;
- VM builder: every loop ends, what it starts, rewires and deletes is its own clone,
  the clone boots with its NIC attached, is removed when the build fails and is
  kept, stopped, when it is to be kept.

## Modules

| Module | What it is |
|---|---|
| `VncView` | the view server and the step that owns it |
| `VncSlot` | abstract specification: the one VNC connection Sylve grants a VM |
| `VncViewProofs` | theorems about `VncView` |
| `MCVncView` | the instances TLC checks |
| `IsoBuild` | one ISO build against a shared host, from login to artifact |
| `VmDisposition` | abstract specification: what a build owes the host |
| `IsoBuildProofs` | theorems about `IsoBuild` |
| `MCIsoBuild` | the instances TLC checks |
| `DownloadIso` | the download step of several builds that share a host's record |
| `DownloadIsoProofs` | theorems about `DownloadIso` |
| `MCDownloadIso` | the instances TLC checks |
| `VmBuild` | one VM build, from login to artifact; implements `VmDisposition` too |
| `VmBuildProofs` | theorems about `VmBuild` |
| `MCVmBuild` | the instances TLC checks |
| `PowerCycle` | the ISO builder's VM from its creation to its shutdown: boots, tasks, ISO, NIC |
| `PowerCycleProofs` | theorems about `PowerCycle` |
| `MCPowerCycle` | the instances TLC checks |
| `BastionAuth` | who resolves which user and key for the SSH bastion; no state |
| `BastionAuthProofs` | theorems about `BastionAuth` |
| `WinRMTunnel` | the tunnel step, its accept loop and its forwards; uses `BastionAuth` |
| `Forwarding` | abstract specification: what the tunnel promises its client |
| `WinRMTunnelProofs` | theorems about `WinRMTunnel` |
| `MCWinRMTunnel` | the instances TLC checks |
| `LoginWait` | ensureAuth's loop around the client's retries |
| `LoginWaitProofs` | theorems about `LoginWait` |
| `MCLoginWait` | the instances TLC checks |

### VncView

The actions are grouped by goroutine; a variable that holds a control point names
the place in the code. `main` runs `StepVNCBootCommand.Run`: `DialOk` and
`DialGivesUp` (the dial loop), `Serve` (view server and first poller), `BootWait`,
`NextCommand` to `RetryFails` (the command loop), `WaitArm`, `WaitWake`,
`WaitRecheck` (`WaitForNewConn`), `StopSignal` to `StopNotify` (`Stop`, whose lock
covers only `StopMark`) and `Join` (`Wait`). Connection *g* is the *g*-th
established. Poller *g* is `runFramebufferPollerInner` on the message channel of
connection *g*; reconnector *g* is the goroutine poller *g* spawns. The critical
sections under `ss.mu` (`PollerSpawn`, `RecSwap`, `RecStartPoller`, `StopMark`) are
single actions, and what the code does between them is separate.

A context is modelled by who cancelled it: `rctx` of reconnector *g* is derived
from the context of poller *g*, which is `rctx` of reconnector *g - 1*. That chain
decides whether a poller survives the reconnector that started it (it does not:
see `EveryConnWatched` below). `connCh`, closed and replaced on each change, is the
counter `epoch`: a select on an old channel is a comparison with an old epoch.

Abstracted: pixels, the RFB handshake, the forwarding of keys, the text of boot
commands (a command may fail on a connection that is not up, and may succeed on
one, because a command made of waits does), and times (a deadline is the flag
`expired`, which may be set at any moment the loop it bounds is running).

### IsoBuild

`pc` and `stage` are the control point of `Builder.Run` and of the runner. The
steps that do not create or delete VMs are one action, `OtherStep`, that continues
or halts, with an error in the bag or, for the SDK's StepConnect and StepProvision
under cancellation, without. `SelectPort` to `FixAndRemember` are
`StepCreateVM.Run`, whose last act is to remember the VM; `DeleteStep` and
`DeleteVM` are `StepDeleteVM.Run`; `Cleanup` and `CleanupDelete` are
`StepCreateVM.Cleanup`. `LostRetry` and `LostForGood` are the two ways `client.do`
goes on after an attempt that brought no usable answer; with `Lossy` the server may
have acted on such an attempt or not. `OtherVM` is everybody else: a slot (RID) is
taken and freed by other users, and becomes free when the build deletes its VM.

Cleanup decides by two signs of a cancellation: the note in the bag, which the runner's
watcher writes some time after it, and the step's own look at the context. The history
variable `told` keeps whether the context was cancelled when Cleanup looked;
`KeptUnlessCancelled` says of both cases what becomes of the VM, also where the bag does not
have the note yet and where the build is cancelled after that look.

External to the repository, modelled from how its code relies on them: the SDK's
runner (`Advance`, `HaltStep`, `RunnerNext`, `RunnerCancelled`, `RunnerDone`,
`WatcherCancels`: it checks the context before each step, notes a halt, notes a
cancellation some time after it happened), Sylve's POST and DELETE on VMs
(`CanCreate`, `ServerCreates`, `ServerDeletes`) and its other users.

Abstracted: `selectVNCPort`, `checkSylveReady` and `ensureSwitch` are one success
or failure; the fix-ups of boot order and NIC after creation only warn and are left
out; GET requests are an outcome; times are left out.

### DownloadIso

`id` and `status` are the one record Sylve keeps for the URL all builds want; each
build has a control point in `StepDownloadISO.Run`. `FindDone` to `FindNothing` are
the first look-up and its switch, `Clear` and `ClearFails` the deletion of a stale
failed record by the id seen, `Trigger` and `TriggerFails` the POST, `StartTracker`
the HEAD request and the progress bar, `PollDone` to `PollTimesOut` the poll loop.
A look-up and the switch on what it returned are one action, since nothing of the
record is read again later but the id that `Clear` uses, which is kept in `seen`.
A poll that fails or finds the download in progress changes nothing and is a
stutter. `iso` remembers which record a build took its UUID from.

External: the host (`Progress`, `ServerTriggers`, `ServerDeletes`). The code relies
on one record for each URL (`FindDownloadByURL` takes the first), on ids that are
not given out twice, on a failed record staying failed (the step's comment), and on
a trigger for a URL that has a record doing nothing. The host may already hold a
record when the builds begin.

### VmBuild

`pc` and `stage` are the control point of `Builder.Run` and its ten steps, as in
`IsoBuild`; `entered` says which clean-ups the runner calls. `FindRID` to
`WaitGivesUp` are `StepCreateFromTemplate.Run`, `FixNIC` to `Refetch`
`StepFixNIC.Run`, `StartVM` to `StartGivesUp` `StepStartVM.Run` with its two
counters, `DiscoverIP` to `DiscoverGivesUp` `StepDiscoverIP.Run`, `Shutdown` to
`ShutdownForces` `StepShutdown.Run`, and `CleanStart`, `CleanPoll`, `CleanCreate` the
two clean-ups that do something. `waitForVM` reads the VM and then the task in two
requests, hence two actions (`WaitGetVM`, `WaitTask`), between which the clone may go
on; the networks it saw in the first are those it returns.

The build's VM on the host is `vm`, `clone`, `dom`, `task`, `nic`, `booted` and `mac`.
A clone is accepted (it reserves the RID), becomes visible while its task runs, and
is done or, with `CloneFails`, fails and frees the RID. Under the refinement mapping
a failed clone counts as present: its end is not the build's doing. A start or stop is accepted
as a lifecycle task, one at a time, and takes effect at any later moment
(`TaskRuns`); `booted` is the NIC the domain last started with. The bag's MAC is the VM's
or, where the template's was preserved, the template's: `FindLease` takes the first lease of
that MAC, which is the guest's own, if it booted with it, or one of the template or of
another clone that kept it. The guest idles,
works, powers off or crashes at will. With `ApiFails` the API goes out of reach and
comes back, or does not, at any moment; with `Lossy` a call may be answered with an
error after it took effect. `OtherVM` is everybody else, as in `IsoBuild`.

External: the SDK's runner and its communicator steps, Sylve, and the guest, from
how the steps rely on them: the comments on `HasActiveLifecycleTask`,
`DetachVMNetwork` and `ReattachVMNetwork` say what Sylve does with tasks and NICs.

Abstracted: the switch name is found or not; the tunnel, connection and provisioning
are one outcome each; DELETE is not repeated here (`IsoBuild` models the client's
retries); logs and times are left out, and a deadline may pass at any look at it.

### PowerCycle

`boot` is 1 while the installer is booted and typed at, 2 from the restart on; the
two boots share `Release`, `TaskWait`, `StartVM` and `Poll`, as `StepStartVM` and
`StepRestartAfterInstall` do the same in the same order (`IsoOr`, `NicOr` and
`AfterWait` say where a boot goes on). `DisableStartAtBoot` to `Refresh` are the
fix-ups at the end of `StepCreateVM`, `ForceStop` to `DisableIso` the stop between
the boots, `ShutdownCommand` to `ShutdownForces` `StepShutdown`. What only warns in
the code adds to `warned`, so that a property can say "unless a warning was given".

The host is `dom`, `task`, `auto` (startAtBoot), `cd` (the ISO is enabled), `nic`, `mac`,
`ran` (with what the domain was last launched) and `stoppedAt`. Of the times only what
the code compares is kept: whether `stoppedAt` is zero, before or after the stop
request by the plugin's clock, for a host clock that is equal, ahead or behind
(`env.skew`). A MAC is a number that goes up when Sylve makes a new one; `env.macIds`
says whether Sylve names its MAC objects, which decides if a re-attach keeps the MAC.
`Hangs` lets a stop task never end, `Operator` lets a user of Sylve start and stop the
VM, `ApiFails` and `Lossy` are as in `VmBuild`. `fresh`, `halted` and `stopOk` are history
variables: a launch since the stop request, an inactive domain since it, an accepted
stop of `StepShutdown`.

External: Sylve's tasks, startAtBoot and clock, the guest, the operator. Abstracted:
installation and provisioning are one outcome each; a VM that is gone during the
shutdown poll (`step_shutdown.go:102-105`) and the boot order of the ISO
(`step_create_vm.go:263-271`) are left out.

### WinRMTunnel and BastionAuth

`BastionAuth` holds the three copies of the code that resolve the bastion's user and key
(`applyAutoBastion`, `resolveBastionSSHParams`, the ISO builder's `Prepare`), each by itself;
they share `sshConfigForHost` only, as in the code. They work over a surrounding `env`: a home directory or none, the lines of `~/.ssh/config`, the keys
that exist, an agent. `sshConfigForHost` is the code's loop as a fold over the lines, of
which `ConfLine` is the body: a `host` line opens or closes a block, the first value
of a directive that is not empty stays, a directive the code does not read changes
nothing. `Documented` is the order that the comment of `ssh_bastion.go` states, written
as a choice and not as a loop.

`WinRMTunnel`: `pc` is `StepWinRMTunnel.Run` and, after `BuildEnds`, its Cleanup in its
two closes (`CloseListener`, `CloseSsh`); `accept` is the accept loop, `conn[c]` the
goroutine of connection *c* (queued, dialling, copying, over), `up[c]` and `down[c]`
its two copies. A copy ends when what it reads is at an end, or when it writes to what
is gone; nothing passes a half close on. `SshDies` may end the bastion's connection at
any moment; the end of it, also by `CloseSsh`, ends the channels open over it, and nothing
else: a dial in flight, a connection accepted just before and the copies go on until they
find out. `AcceptErrs` is an error of Accept while the listener is open, after which the
loop is over and clients queue for nobody. The module implements `Forwarding`: `Link` is the
SSH connection with the listener yet to come, up, or down, and `Fwd(c)` says, from the state
of the forward alone, whether connection *c* waits, is carried to the guest, or is over; only
what is carried ends when the link falls, what waits then must never be carried, and what the
goroutines of a connection do when it is over shows in `Forwarding` no more. Not modelled: host patterns (a host line matches or not), the parsing of
keys, `dialBastionSSH`'s handshake.

### LoginWait

`AttemptRefused`, `AttemptLost` and `AttemptSucceeds` are one attempt of `client.do`
with the answers a Sylve that is down, behind a gateway that answers for it, or up may
give; `Classify` and `Sleep` are `ensureAuth`'s loop. Errors are classes: a transport
error the client knows (`refused`, `unanswered`), no route to the host or no address for
its name (`unreachable`), which waiting mends and the client does not know, another
transport error, such as a certificate (`transport`), an answer cut short or garbled, a
denial, a gateway's status, another status. `WaitsForSylve` says which errors end the wait
early and names `unreachable` among them; `UnreachableIsWaitedFor`, what the documentation of
`sylve_api_login_timeout` promises of it, does not hold. The code tells some of them apart by words in the
text of the error, and the text of a denial quotes the user name: `user.words` says that
it holds such words. `late` counts the logins begun after the deadline.

## Runs

| Run | Expectation | What it shows |
|---|---|---|
| `vnc_safety` | pass | every interleaving of one step, up to three connections, two commands, one viewer |
| `vnc_live` | pass | `RunReturns`, `CancelEndsGoroutines` under fairness |
| `iso_lossy` | pass | leaks, kept VMs, foreign VMs and the refinement, on a network that loses and repeats, with a cancellation at any moment |
| `download` | pass | three builds, failing look-ups and lost answers; `BuildEnds` under fairness |
| `download_nil_record` | violation | a poll that finds no record dereferences nil |
| `vm_reliable` | pass | the kept VM, its NIC and its guest, with an API that comes and goes |
| `vm_lossy` | pass | leaks, foreign VMs and the refinement, with clones that fail and answers that are lost |
| `vm_live` | pass | every wait outside StepFixNIC ends, under fairness |
| `power` | pass | two boots, the restart and the shutdown under every fault; `StepsEnd` under fairness |
| `winrm` | pass | every surrounding of the bastion; two connections against Cleanup, an end of the SSH connection or of the accept loop; the refinement of `Forwarding`; `TunnelEnds` under fairness |
| `login` | pass | five attempts within a login wait; `LoginEnds` under fairness |
| `login_unreachable` | violation | no route to Sylve's host, or no address for its name, ends the build at its first login |

The violation runs are statements of a comment and of the documentation that the code
does not keep; `PROJECT.json` quotes them under `findings`.

The runs check what takes several steps, often of several actors, to go wrong. The
modules state more: `TypeOK` of `IsoBuild`, `DownloadIso`, `PowerCycle`, `LoginWait` and
`WinRMTunnel`, `BagRidIsOurs`, `ForeignUntouched`, `SessionClosed`, `PollerOwnsConn`, `BarSettled`, `LaunchFindsPortFree`,
`TransientAbsorbed` and `DenialIsFinal` are proved for all constants and not run.

### Further disagreements

The modules state more of what comments say and the code does not do, each at the
end of its module and with a configuration for which TLC prints a counterexample (of
those a configuration lists, the first it meets: comment out the others to see one).
They are not among the runs, and nothing else depends on them.

| Configuration | What the counterexample shows |
|---|---|
| `VncNotKept.cfg`: `EveryConnWatched` | the poller of a reconnected connection dies with the reconnector that started it, and nothing watches the connection (`vnc_view_server.go:537`) |
| `VncNotKept.cfg`: `NoGoroutineOutlivesStep` | halting exits of the boot command step skip Stop and Wait (`step_vnc_boot_command.go:470`) |
| `VncNotKept.cfg`: `StopDisconnectsViewers` | a viewer that registers during Stop stays connected (`vnc_view_server.go:249`) |
| `IsoFailedBuildLeavesNoVm.cfg` | a VM the create step does not yet know is leaked (`step_create_vm.go:314`) |
| `VmBootstrapWaitEnds.cfg` | failing polls skip the deadline of the bootstrap wait (`step_fix_nic.go:120`) |
| `PowerLateStampMeansHalted.cfg` | with a host clock ahead, the stamp of an earlier stop, by an operator, is later than the request, and the running guest is taken for stopped (`step_restart_after_install.go:67-89`) |
| `WinRMNotKept.cfg`: `IsoBastionAsDocumented` | with `ssh_bastion_username` set, the ISO builder does not look for the key in the documented order (`iso/config.go:372-457`) |
| `WinRMNotKept.cfg`: `BuildersResolveAlike` | the ISO builder and the VM builder resolve different credentials from the same settings (`vm/ssh_bastion.go:6-8`, `178-179`) |
| `WinRMNotKept.cfg`: `OnlyCleanupEndsAccept` | any error of Accept ends the accept loop, though only a closed listener is expected there, and later clients queue until Cleanup (`vm/step_winrm_tunnel.go:132-136`) |
| `LoginWrongCredentialsNotRetried.cfg` | the denial of a user whose name holds the words of a transport error (`GEOFF` holds `EOF`) is retried (`retry.go:63-72`, `auth.go:27`) |
| `VncWaitSeesSwap.cfg` | a swap complete before `WaitForNewConn` subscribes is missed (`vnc_view_server.go:130`) |
| `IsoArtifactOnlyOnSuccess.cfg`, `VmArtifactOnlyOnSuccess.cfg` | a build cancelled between two steps, in StepProvision or in boot_wait has no error in the bag and reports an artifact (`iso/builder.go:167`, `vm/builder.go:172`) |
| `IsoCollisionIsSomeoneElses.cfg` | a POST repeated after a lost answer collides with its own effect, and the create loop looks for another RID (`step_create_vm.go:188`) |
| `IsoSuccessLeavesVm.cfg` | cancelled after its last step, a successful build deletes the VM its artifact names (`step_create_vm.go:363`) |
| `DownloadStaleError.cfg` | if the first look-up fails, the stale failed record fails the build (`step_download_iso.go:81`) |
| `DownloadClearedByAnyone.cfg` | of two builds that clear the same stale record the second halts (`step_download_iso.go:96`) |
| `VmDisposableIsOwnClone.cfg` | the clone failed, another user's VM has its RID, is adopted and deleted (`step_create_from_template.go:117`) |
| `VmNotKept.cfg`: `FailedBuildLeavesNoVm` | a clone the step does not yet know is leaked (`step_create_from_template.go:74`) |
| `VmNotKept.cfg`: `NetworksOfCreatedVm` | the VM returned was read before the clone was complete, and StepFixNIC is skipped (`step_create_from_template.go:117`) |
| `VmNotKept.cfg`: `CleanupOnStoppedDomain` | a guest started by StepFixNIC, or late, is deleted while it runs (`step_start_vm.go:182`) |
| `VmCreationComplete.cfg` | a failing task check ends the wait for the clone (`step_create_from_template.go:124`) |
| `VmIpIsOfThisVm.cfg` | though Sylve gives the NIC a new MAC, the template's stays in the bag, and the address found is another guest's (`step_fix_nic.go:201`) |
| `VmNotRunningIsStopped.cfg` | StepShutdown takes an idle (Blocked) guest for stopped (`vm/step_shutdown.go:108`) |

`IpIsOfThisVm` speaks of a NIC that gets a new MAC. Where Sylve preserves the template's,
nothing is claimed: the lease found may be the template's or another clone's, as
`step_fix_nic.go:40-44` and `178-180` warn.

Three more that need no model: `tls_skip_verify = false` is not kept, since both builders
set it to true when it is false (`iso/config.go:269-276`, `vm/config.go:167-172`);
`sylve_api_login_timeout = 0s` becomes two minutes (`iso/builder.go:82-84`); and
ensureAuth has no context, so that a cancelled build waits on for its login deadline
(`iso/builder.go:123`).

Bounds. Three connections give two reconnects, the least at which the hand-over
poller, reconnector, poller, reconnector has a second round and a stale poller
could meet a connection two generations later; further generations repeat the
second. Two commands let a drop fall inside one and between two. One viewer is
enough because viewers do not interact. Liveness is checked with two connections,
one command and no viewer, which contains every loop. Two RIDs and two attempts
reach every collision and every retry; `iso_lossy` has three of each so that a
retried DELETE can meet a slot that was reused. Three builds and two ids let a
stale record be cleared by one build, replaced by another, and fail again while a
third polls; when the ids are used up a trigger can only fail. In `VmBuild` the thresholds of the two counters are 2, the
least at which one count can be reset by the other's state, and two RIDs let others
take the slot the build wanted, or freed. `vm_live` needs one RID and thresholds of
1: no wait depends on them. `power` has two boots, as the code does, all three skews and
every fault at once, and no other bound. `winrm` has two connections, the least of
which one is accepted while the other is copied, up to three lines of `~/.ssh/config`
and two keys, so that a first and a second value of a directive, in and out of a
matching block, differ, and an empty value and an unread directive can stand before them. `login` has the code's own five attempts. The theorems remove the bounds of the modules they are
about.
Deadlock checking is off: a step that has returned, and a build that has ended,
have nothing more to do.

Fairness (`FairSpec` of `VncView`): weak fairness of each goroutine (the Go
scheduler is fair), of deadlines (time passes) and of the goroutines that turn a
closed channel or context into a cancellation. Nothing is assumed of the guest, of
the viewers, of the user who may cancel, or of a dial ever succeeding.
`DownloadIso` assumes weak fairness of each build's own next call, which returns
because the client has a timeout, and of its deadline, and nothing of the download.
`VmBuild` assumes weak fairness of the build and strong fairness of the looks at
its deadlines: a loop leaves and re-enters the point where it looks, and once the
deadline has passed the next look finds it passed. Nothing is assumed of the API,
the tasks, the guest or the other users. `PowerCycle` assumes weak fairness of the
steps and of their deadlines, `WinRMTunnel` of the step, of Accept failing once the
listener is closed and of each forward's goroutines (the dials return; the SSH dial
itself has no timeout, which is listed among the hazards), `LoginWait` of the loops and
of the deadline; nothing is assumed of Sylve, the guest, the client or the network.

Each property of a passing run has a mutant, a small bug in one mapped definition
that the run finds; the mutated operators stand before the definitions they
replace and are marked `mutant`.

## Proofs

Two kinds of theorem recur. Safety: the properties the runs check, from one inductive
invariant per module. Running down: `...RunDown` gives a module a measure, `Left`, which
is bounded, which each step of the code lowers and which nothing else raises. This is the
part of each liveness property that does not speak of fairness: that a step is taken at
all, and that a look that finds nothing is followed at last by one that finds the deadline
passed, is what fairness adds, and what TLC checks. Where goroutines wait for each other
a second theorem says that none waits in vain (`NoGoroutineStuck`, `NotStuck`).

`VncViewProofs` proves, for any number of connections, commands and viewers:
`TypeOK`, `OneDriver`, `PollerOwnsConn`, `NoOrphan`, `CleanStop` (invariants),
`RetryOnNewer` (action property) and that `VncView` implements `VncSlot`. After Stop or a
cancellation every live poller has a step to take and Wait waits for goroutines that exist
and can be cancelled (`NoGoroutineStuck`), none of which goes back (`GoroutinesRunDown`).
The only assumption is `BoundsAssumption`. The inductive invariant `IInv` adds to the
properties: the wait group counts the tracked goroutines that have not returned
(`WgInv`; without it neither `wg >= 0` nor "Join implies nothing runs" is
inductive); all goroutines of a generation are over, or returning, once a later
poller exists (`Chain`); whoever drives the upstream works on the current
connection unless the server was stopped (`Owner`); and where `main` is, given the
stopped flag (`StopPC`, `Early`).

`IsoBuildProofs` proves, for any set of slots and any bounds: `TypeOK`,
`NoKnownLeak`, `KeptUnlessCancelled`, `SessionClosed`, `OnlyCancelHidesFailure` and that
`IsoBuild` implements `VmDisposition`, on any network. `BagRidIsOurs` and
`ForeignUntouched` do not hold on a network that loses answers: a DELETE repeated after a
lost answer can meet a VM somebody else put in the freed slot. That this is the only case
is `ForeignOnlyIfLost`, proved on any network: a foreign VM that the build deletes stood
at the RID in the bag, and the build's own VM had been deleted before (`OwnUnlessLost`).
The two properties under `~Lossy` are its corollaries. `BuildRunsDown`: 128 steps at most,
besides requests sent again, whose number the two bounds on attempts limit. The inductive invariant says which VM each of `rid`, `sRid`, `bagRid` and
`finalRid` names at each control point (`Remembered`, `Present`), that names are
unique (`OneVM`), what each exit of the runner implies (`Exits`), and what Cleanup
left (`AfterCleanup`). A step that halts is treated once (`HaltInv`), every other
step by its action.

`DownloadIsoProofs` proves `TypeOK`, `IsoStays`, `BarSettled`, `OnlyFailedCleared` and
`ClearedErrorFailsNoBuild` for any number of builds and ids, and `BuildsRunDown`: a build
takes six steps at most besides polls that find nothing to act on, and no other build puts
it back. The strengthening is that ids seen are ids given
out, and that a record a build is about to clear has failed and stays so, if it is
still the same record: only then is a later delete by id harmless.

`VmBuildProofs` proves, for any slots and thresholds: `TypeOK`, `NoKnownLeak`,
`KeptVmStopped`, `BootedWithNic`, `SessionClosed`, `OnlyCancelHidesFailure` and that `VmBuild` implements `VmDisposition`, whatever fails;
`ArtifactVmKept` and so `VmKept` under `~CloneFails`. `ForeignOnlyIfGone`, whatever fails:
a foreign VM is deleted only at the RID in the bag, after the clone failed or a DELETE took
effect whose answer was lost; with neither, `BagRidIsOurs` and `ForeignUntouched` follow. The
invariant: which VM of the host is the build's and when the build knows of it
(`Remembered`, `OneVM`); what each exit of the runner left (`Exits`); that no start
is pending past `StepStartVM` and that what was seen stopped at the end stays so
(`Guest`); and that while `StepStartVM` polls the domain has booted with the attached
NIC or is about to (`Nic`), which is what makes a late start harmless. A step that halts
is treated once (`HaltKeeps`), every other action by itself.

`PowerCycleProofs` proves, for every choice of skews and faults: `TypeOK`,
`InstalledOsBoots`, `SecondBootIsFresh`, `ConfirmedMeansHalted`, `GuestHasItsNic`,
`StoppedStays`, `LaunchFindsPortFree` and `StepsRunDown`: no wait is entered twice in a boot,
and giving up at a deadline always goes on. The invariant says for each boot what is
settled from which step on: the ISO once disabled stays so and what runs was launched
since (`IsoInv`), the same of the NIC (`NicInv`) and of startAtBoot (`StopInv`), no stamp
is later than a request that was not made (`StampInv`), and a start is accepted for a
domain that is down only (`FreshInv`).

`LoginWaitProofs` proves `TypeOK`, `TransientAbsorbed`, `DenialIsFinal`, `WaitsForSylve`,
`OneLateLogin`, `SecondSessionOnlyIfLost` and `LoginRunsDown` for any number of attempts.

`BastionAuthProofs` proves, for a `~/.ssh/config` of any length and content and any list of
default keys: the loop over the lines returns the first value of each directive in a block
of the host (`ConfigIsFirstValue`), `applyAutoBastion` keeps to the documented order
(`AutoBastionDocumented`), so does the tunnel's copy with nothing explicit
(`TunnelDocumented`), and hence the two agree (`TunnelAndBastionAgree`), by what each
computes and not by a definition they share. The
loop is a fold. The community modules define it with an operator that chooses a function
by its recursion, and the induction theorems of the library take an operator as a
parameter, which no prover here can instantiate. Instead, `FoldingExists` shows that there is
such a function and `FoldByLine` that the fold is its value at the last line; an induction
is done by contradiction, the least line that fails (`LeastNat`, from the well-foundedness
of `<`) being preceded by one that does not (`NatInSet`). The statement carried along is
`SaysUpTo`: what the loop holds after *n* lines is whether line *n* + 1 stands in a block and the
first value in the lines so far. `KeysAssumption` is used: names of default keys are not empty.

`WinRMTunnelProofs` proves, for any connections and surroundings: `TypeOK`,
`BastionCredentials` (from the theorems of `BastionAuthProofs`),
`NoneLeftBehind`, that `WinRMTunnel` implements `Forwarding`, and of the
goroutines that outlive Run: after Cleanup none
is stuck (`NotStuck`) and each forward has at most four steps left (`ForwardRunsDown`). The
invariant ties the listener, the accept loop and the SSH connection to the control point
(`StepInv`), and the two ends and copies of a connection to its stage (`ConnInv`): a
connection is queued only while the listener is open, only one that is copied has a
channel or a copy, and a channel only while the SSH connection stands.

Only model-checked: the liveness properties, `RunReturns`, `CancelEndsGoroutines`, `BuildEnds`,
`WaitsEnd`, `StepsEnd`, `LoginEnds` and `TunnelEnds`. A proof from fairness needs ENABLED, which
this prover cannot treat; of each but `WaitsEnd` the part without fairness is proved as said
above. Every safety property and refinement that a run checks is stated by a theorem, for all
constants but where the hypotheses `~Lossy` and `~CloneFails` are named above.

## Not modelled

- VNC ports: `selectVNCPort` probes a port and releases it long before bhyve binds it
  (`step_create_vm.go:463`), so that two builds may choose the same. The outcome, a
  start that fails, is one that `PowerCycle` allows at any time; what Sylve does with
  two VMs on one port cannot be read from this repository.
- The SDK's communicators and provisioners, the RFB protocol, pixels, key events, and
  the rendering of boot commands: data, or code outside the repository.
- `ensureSwitch`'s creation of a switch, the ISO boot order, a VM that vanishes during
  the shutdown poll: named above where they are left out.
- Defaults and validation of the configuration other than the bastion's credentials,
  the generated HCL code, artifacts, the stubs, the entry point: they keep no state
  beyond one call.
- Backoff times: a wait is a step, and a deadline a flag that may be set at any look.

Possible continuations: `OtherStep` of `IsoBuild` replaced by `PowerCycle`'s actions, so
that one instance shows a VM through both; two builds of either kind on one host; and a
measure for `VmBuild`, whose loops re-enter their points.
