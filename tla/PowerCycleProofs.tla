-------------------------- MODULE PowerCycleProofs --------------------------
(***************************************************************************)
(* The safety properties of PowerCycle hold for every choice of its        *)
(* constants: whatever the clocks, the faults and the operator.            *)
(***************************************************************************)
EXTENDS PowerCycle, TLAPS

\* The parts of TypeOK, by who keeps the state: the steps, the host, and flags.
StepTyped ==
  /\ pc \in {"autostart", "detach", "attach", "refresh", "release", "wait", "start", "poll", "install",
             "stop", "shutoff", "check", "disable", "halt"} \cup Provisioning
  /\ boot \in {1, 2} /\ env \in [skew : Skews, macIds : BOOLEAN]
  /\ bag \in [iso : BOOLEAN, net : {"none", "live", "stale"}, macId : 0 .. MaxMac \cup {NoMac}]
  /\ warned \subseteq {"autostart", "fixnic", "iso", "nic"}

HostTyped ==
  /\ dom \in {"nostate", "running", "blocked", "off"}
  /\ task \in {"none", "create", "start", "stop", "teardown", "hung"}
  /\ nic \in {"disabled", "gone", "attached"} /\ mac \in 0 .. MaxMac
  /\ ran \in [cd : BOOLEAN, nic : BOOLEAN] /\ stoppedAt \in {"zero", "before", "after"}

FlagsTyped ==
  /\ ctxDone \in BOOLEAN /\ api \in BOOLEAN /\ auto \in BOOLEAN /\ cd \in BOOLEAN
  /\ listener \in BOOLEAN /\ confirmed \in BOOLEAN /\ halted \in BOOLEAN /\ fresh \in BOOLEAN
  /\ stopOk \in BOOLEAN

\* Which boot the steps are at.
Places ==
  /\ pc \in {"autostart", "refresh", "install", "stop"} => boot = 1
  /\ pc \in {"shutoff", "check", "disable"} \cup Provisioning => boot = 2

\* The listener is closed before anything can launch the domain.
PortInv ==
  listener => /\ boot = 1 /\ pc \in {"autostart", "detach", "attach", "refresh", "release"}
              /\ task \in {"create", "none"} /\ dom = "nostate"

\* One attach for each boot.
MacInv ==
  /\ bag.macId \in {0, 1, NoMac}
  /\ boot = 1 /\ pc \in {"autostart", "detach", "attach"} => mac = 0
  /\ boot = 1 \/ pc \in {"shutoff", "check", "disable", "release", "wait", "detach", "attach"} => mac <= 1
  /\ env.macIds => mac = VmMac /\ bag.macId = VmMac

\* A task that is not a start or a stop waiting to take effect finds the domain down.
TaskInv == task \in {"create", "teardown", "hung"} => ~Active

\* A start is accepted for a domain that is down only.
FreshInv ==
  /\ boot = 2 /\ pc = "poll" /\ Active => fresh
  /\ SecondBootIsFresh

PastIso == boot = 2 /\ pc \in {"release", "wait", "detach", "attach", "start", "poll"} \cup Provisioning

\* Once disabled the ISO stays so, and what runs was launched since.
IsoInv ==
  bag.iso /\ "iso" \notin warned =>
    /\ PastIso => ~cd
    /\ boot = 2 /\ pc = "poll" /\ Active => ~ran.cd
    /\ pc \in Provisioning => ~ran.cd

\* No stamp is later than a request that has not been made.
StampInv ==
  /\ boot = 1 => stoppedAt # "after" /\ ~confirmed
  /\ env.skew # "ahead" /\ (confirmed \/ (boot = 2 /\ stoppedAt = "after")) => halted

\* Once attached the NIC stays so, and what runs was launched since.
NicInv ==
  bag.net # "none" /\ "nic" \notin warned =>
    /\ boot = 2 /\ pc \in {"start", "poll"} \cup Provisioning => nic = "attached"
    /\ boot = 2 /\ pc \in {"start", "poll"} /\ Active => ran.nic
    /\ pc \in Provisioning => ran.nic

\* Nothing starts a guest that StepShutdown stops.
StopInv ==
  /\ pc # "autostart" /\ "autostart" \notin warned => ~auto
  /\ pc \notin {"shutpoll", "done", "halt"} => ~stopOk
  /\ pc \in {"shutpoll", "done"} /\ stopOk /\ "autostart" \notin warned
       => task = "stop" \/ (~Active /\ task # "start")

Rest ==
  /\ Places /\ PortInv /\ MacInv /\ TaskInv /\ FreshInv /\ IsoInv /\ StampInv /\ NicInv /\ StopInv

IInv == TypeOK /\ Rest

LEMMA TypeParts == TypeOK <=> StepTyped /\ HostTyped /\ FlagsTyped
  BY DEF TypeOK, StepTyped, HostTyped, FlagsTyped

LEMMA InitInv == Init => IInv
  <1> SUFFICES ASSUME Init PROVE IInv
    OBVIOUS
  <1>1. StepTyped /\ HostTyped
    BY DEF Init, StepTyped, HostTyped, NoMac, MaxMac, VmMac, Provisioning
  <1>2. FlagsTyped
    BY DEF Init, FlagsTyped
  <1>3. Places /\ PortInv /\ MacInv /\ TaskInv /\ FreshInv
    BY DEF Init, Places, PortInv, MacInv, TaskInv, FreshInv, SecondBootIsFresh, NoMac, VmMac, Active, Provisioning
  <1>4. IsoInv /\ StampInv /\ NicInv /\ StopInv
    BY DEF Init, IsoInv, PastIso, StampInv, NicInv, StopInv, Provisioning
  <1> QED BY <1>1, <1>2, <1>3, <1>4 DEF IInv, TypeOK, StepTyped, HostTyped, FlagsTyped, Rest

-----------------------------------------------------------------------------
(* The frames that the actions are built of *)

USE DEF hostVars, stepVars, ghostVars, Same, SameHost, SamePower, SameDisk, SameNic, SameEnd, Quiet, Warns,
        NoMac, MaxMac, VmMac, Active, Provisioning

\* The end of StepCreateVM: the NIC, startAtBoot, the ids in the bag.
LEMMA FixUpsKeeps == IInv /\ FixUps => IInv'
  <1> SUFFICES ASSUME IInv, FixUps PROVE IInv'
    OBVIOUS
  <1>1. StepTyped'
    BY DEF FixUps, DisableStartAtBoot, NicOr, Detach, ServerDetaches, NicWarning, AfterNic, Attach,
        ServerAttaches, Refresh, StepTyped, IInv, Rest, TypeOK, MacInv, Places
  <1>2. HostTyped'
    BY DEF FixUps, DisableStartAtBoot, NicOr, Detach, ServerDetaches, NicWarning, AfterNic, Attach,
        ServerAttaches, Refresh, HostTyped, IInv, Rest, TypeOK, MacInv, Places
  <1>3. FlagsTyped'
    BY DEF FixUps, DisableStartAtBoot, NicOr, Detach, ServerDetaches, NicWarning, AfterNic, Attach,
        ServerAttaches, Refresh, FlagsTyped, IInv, TypeOK
  <1>4. Rest'
    <2>1. CASE DisableStartAtBoot
      BY <2>1 DEF DisableStartAtBoot, NicOr, IInv, TypeOK, Rest, Places, PortInv, MacInv, TaskInv, FreshInv,
          SecondBootIsFresh, IsoInv, PastIso, StampInv, NicInv, StopInv
    <2>2. CASE Detach
      BY <2>2 DEF Detach, ServerDetaches, NicWarning, AfterNic, IInv, TypeOK, Rest, Places, PortInv, MacInv,
          TaskInv, FreshInv, SecondBootIsFresh, IsoInv, PastIso, StampInv, NicInv, StopInv
    <2>3. CASE Attach
      BY <2>3 DEF Attach, ServerAttaches, NicWarning, AfterNic, IInv, TypeOK, Rest, Places, PortInv, MacInv,
          TaskInv, FreshInv, SecondBootIsFresh, IsoInv, PastIso, StampInv, NicInv, StopInv
    <2>4. CASE Refresh
      <3>1. MacInv'
        BY <2>4 DEF Refresh, IInv, TypeOK, Rest, MacInv, Places
      <3>2. (NicInv /\ IsoInv)'
        BY <2>4 DEF Refresh, IInv, TypeOK, Rest, Places, IsoInv, PastIso, NicInv
      <3>3. (Places /\ PortInv /\ TaskInv /\ FreshInv /\ StampInv /\ StopInv)'
        BY <2>4 DEF Refresh, IInv, TypeOK, Rest, Places, PortInv, TaskInv, FreshInv, SecondBootIsFresh,
            StampInv, StopInv
      <3> QED BY <3>1, <3>2, <3>3 DEF Rest
    <2> QED BY <2>1, <2>2, <2>3, <2>4 DEF FixUps
  <1> QED BY <1>1, <1>2, <1>3, <1>4 DEF IInv, TypeOK, StepTyped, HostTyped, FlagsTyped

\* A boot: the port, the tasks, the start, the poll.
LEMMA BootKeeps == IInv /\ Boot => IInv'
  <1> SUFFICES ASSUME IInv, Boot PROVE IInv'
    OBVIOUS
  <1>1. StepTyped'
    BY DEF Boot, Release, TaskWait, TaskFree, AfterWait, NicOr, Halt, StartVM, StartAccepted, Poll, Install,
        StepTyped, IInv, Rest, TypeOK, MacInv, Places
  <1>2. HostTyped'
    BY DEF Boot, Release, TaskWait, TaskFree, AfterWait, NicOr, Halt, StartVM, StartAccepted, Poll, Install,
        HostTyped, IInv, Rest, TypeOK, MacInv, Places
  <1>3. FlagsTyped'
    BY DEF Boot, Release, TaskWait, TaskFree, AfterWait, NicOr, Halt, StartVM, StartAccepted, Poll, Install,
        FlagsTyped, IInv, TypeOK
  <1>4. Rest'
    <2>1. CASE Release
      BY <2>1 DEF Release, IInv, TypeOK, Rest, Places, PortInv, MacInv, TaskInv, FreshInv, SecondBootIsFresh,
          IsoInv, PastIso, StampInv, NicInv, StopInv
    <2>2. CASE TaskWait
      BY <2>2 DEF TaskWait, TaskFree, AfterWait, NicOr, Halt, IInv, TypeOK, Rest, Places, PortInv, MacInv,
          TaskInv, FreshInv, SecondBootIsFresh, IsoInv, PastIso, StampInv, NicInv, StopInv
    <2>3. CASE StartVM
      BY <2>3 DEF StartVM, StartAccepted, TaskFree, Halt, IInv, TypeOK, Rest, Places, PortInv, MacInv,
          TaskInv, FreshInv, SecondBootIsFresh, IsoInv, PastIso, StampInv, NicInv, StopInv
    <2>4. CASE Poll
      BY <2>4 DEF Poll, Halt, IInv, TypeOK, Rest, Places, PortInv, MacInv, TaskInv, FreshInv,
          SecondBootIsFresh, IsoInv, PastIso, StampInv, NicInv, StopInv
    <2>5. CASE Install
      BY <2>5 DEF Install, IInv, TypeOK, Rest, Places, PortInv, MacInv, TaskInv, FreshInv, SecondBootIsFresh,
          IsoInv, PastIso, StampInv, NicInv, StopInv
    <2> QED BY <2>1, <2>2, <2>3, <2>4, <2>5 DEF Boot
  <1> QED BY <1>1, <1>2, <1>3, <1>4 DEF IInv, TypeOK, StepTyped, HostTyped, FlagsTyped

\* The stop after the installation, up to the ISO.
LEMMA RestartKeeps == IInv /\ Restart => IInv'
  <1> SUFFICES ASSUME IInv, Restart PROVE IInv'
    OBVIOUS
  <1>1. StepTyped'
    BY DEF Restart, ForceStop, StopAccepted, TaskFree, Shutoff, IsoOr, Halt, CheckTask, DisableIso,
        StepTyped, IInv, Rest, TypeOK, MacInv, Places
  <1>2. HostTyped'
    BY DEF Restart, ForceStop, StopAccepted, TaskFree, Shutoff, IsoOr, Halt, CheckTask, DisableIso,
        HostTyped, IInv, Rest, TypeOK, MacInv, Places
  <1>3. FlagsTyped'
    BY DEF Restart, ForceStop, StopAccepted, TaskFree, Shutoff, IsoOr, Halt, CheckTask, DisableIso,
        FlagsTyped, IInv, TypeOK
  <1>4. Rest'
    <2>1. CASE ForceStop
      BY <2>1 DEF ForceStop, StopAccepted, TaskFree, IInv, TypeOK, Rest, Places, PortInv, MacInv, TaskInv,
          FreshInv, SecondBootIsFresh, IsoInv, PastIso, StampInv, NicInv, StopInv
    <2>2. CASE Shutoff
      BY <2>2 DEF Shutoff, IsoOr, Halt, IInv, TypeOK, Rest, Places, PortInv, MacInv, TaskInv, FreshInv,
          SecondBootIsFresh, IsoInv, PastIso, StampInv, NicInv, StopInv
    <2>3. CASE CheckTask
      BY <2>3 DEF CheckTask, IsoOr, IInv, TypeOK, Rest, Places, PortInv, MacInv, TaskInv, FreshInv,
          SecondBootIsFresh, IsoInv, PastIso, StampInv, NicInv, StopInv
    <2>4. CASE DisableIso
      BY <2>4 DEF DisableIso, TaskFree, IInv, TypeOK, Rest, Places, PortInv, MacInv, TaskInv, FreshInv,
          SecondBootIsFresh, IsoInv, PastIso, StampInv, NicInv, StopInv
    <2> QED BY <2>1, <2>2, <2>3, <2>4 DEF Restart
  <1> QED BY <1>1, <1>2, <1>3, <1>4 DEF IInv, TypeOK, StepTyped, HostTyped, FlagsTyped

\* Provisioning and StepShutdown.
LEMMA FinishKeeps == IInv /\ Finish => IInv'
  <1> SUFFICES ASSUME IInv, Finish PROVE IInv'
    OBVIOUS
  <1>1. StepTyped'
    BY DEF Finish, Provision, ShutdownCommand, ShutdownStop, StopAccepted, TaskFree, ShutdownPoll, Halt,
        StepTyped, IInv, Rest, TypeOK, MacInv, Places
  <1>2. HostTyped'
    BY DEF Finish, Provision, ShutdownCommand, ShutdownStop, StopAccepted, TaskFree, ShutdownPoll, Halt,
        HostTyped, IInv, Rest, TypeOK, MacInv, Places
  <1>3. FlagsTyped'
    BY DEF Finish, Provision, ShutdownCommand, ShutdownStop, StopAccepted, TaskFree, ShutdownPoll, Halt,
        FlagsTyped, IInv, TypeOK
  <1>4. Rest'
    <2>1. CASE Provision
      BY <2>1 DEF Provision, IInv, TypeOK, Rest, Places, PortInv, MacInv, TaskInv, FreshInv,
          SecondBootIsFresh, IsoInv, PastIso, StampInv, NicInv, StopInv
    <2>2. CASE ShutdownCommand
      BY <2>2 DEF ShutdownCommand, IInv, TypeOK, Rest, Places, PortInv, MacInv, TaskInv, FreshInv,
          SecondBootIsFresh, IsoInv, PastIso, StampInv, NicInv, StopInv
    <2>3. CASE ShutdownStop
      <3>1. StopInv'
        <4>1. CASE StopAccepted
          BY <2>3, <4>1 DEF ShutdownStop, StopAccepted, TaskFree, IInv, TypeOK, Rest, Places, StopInv
        <4>2. CASE UNCHANGED <<task, stopOk>>
          BY <2>3, <4>2 DEF ShutdownStop, IInv, TypeOK, Rest, Places, StopInv, TaskInv
        <4> QED BY <2>3, <4>1, <4>2 DEF ShutdownStop
      <3>2. /\ pc = "shutstop" /\ pc' = "shutpoll" /\ task' \in {task, "stop"}
            /\ UNCHANGED <<boot, env, dom, auto, cd, nic, mac, ran, stoppedAt, bag, listener, warned>>
            /\ UNCHANGED <<confirmed, halted, fresh>>
        BY <2>3 DEF ShutdownStop, StopAccepted
      <3>3. (Places /\ PortInv /\ MacInv /\ TaskInv /\ FreshInv)'
        BY <3>2 DEF IInv, TypeOK, Rest, Places, PortInv, MacInv, TaskInv, FreshInv, SecondBootIsFresh
      <3>4. (IsoInv /\ StampInv /\ NicInv)'
        BY <3>2 DEF IInv, TypeOK, Rest, Places, IsoInv, PastIso, StampInv, NicInv
      <3> QED BY <3>1, <3>3, <3>4 DEF Rest
    <2>4. CASE ShutdownPoll
      BY <2>4 DEF ShutdownPoll, Halt, IInv, TypeOK, Rest, Places, PortInv, MacInv, TaskInv, FreshInv,
          SecondBootIsFresh, IsoInv, PastIso, StampInv, NicInv, StopInv
    <2> QED BY <2>1, <2>2, <2>3, <2>4 DEF Finish
  <1> QED BY <1>1, <1>2, <1>3, <1>4 DEF IInv, TypeOK, StepTyped, HostTyped, FlagsTyped

\* The deadlines.
LEMMA GivesUpKeeps == IInv /\ GivesUp => IInv'
  <1> SUFFICES ASSUME IInv, GivesUp PROVE IInv'
    OBVIOUS
  <1>1. StepTyped'
    BY DEF GivesUp, TaskWaitGivesUp, AfterWait, NicOr, StartGivesUp, PollGivesUp, ShutoffGivesUp,
        ShutdownForces, StopAccepted, TaskFree, StepTyped, IInv, Rest, TypeOK, MacInv, Places
  <1>2. HostTyped'
    BY DEF GivesUp, TaskWaitGivesUp, AfterWait, NicOr, StartGivesUp, PollGivesUp, ShutoffGivesUp,
        ShutdownForces, StopAccepted, TaskFree, HostTyped, IInv, Rest, TypeOK, MacInv, Places
  <1>3. FlagsTyped'
    BY DEF GivesUp, TaskWaitGivesUp, AfterWait, NicOr, StartGivesUp, PollGivesUp, ShutoffGivesUp,
        ShutdownForces, StopAccepted, TaskFree, FlagsTyped, IInv, TypeOK
  <1>4. Rest'
    <2>1. CASE TaskWaitGivesUp
      BY <2>1 DEF TaskWaitGivesUp, AfterWait, NicOr, IInv, TypeOK, Rest, Places, PortInv, MacInv, TaskInv,
          FreshInv, SecondBootIsFresh, IsoInv, PastIso, StampInv, NicInv, StopInv
    <2>2. CASE StartGivesUp
      BY <2>2 DEF StartGivesUp, IInv, TypeOK, Rest, Places, PortInv, MacInv, TaskInv, FreshInv,
          SecondBootIsFresh, IsoInv, PastIso, StampInv, NicInv, StopInv
    <2>3. CASE PollGivesUp
      BY <2>3 DEF PollGivesUp, IInv, TypeOK, Rest, Places, PortInv, MacInv, TaskInv, FreshInv,
          SecondBootIsFresh, IsoInv, PastIso, StampInv, NicInv, StopInv
    <2>4. CASE ShutoffGivesUp
      BY <2>4 DEF ShutoffGivesUp, IInv, TypeOK, Rest, Places, PortInv, MacInv, TaskInv, FreshInv,
          SecondBootIsFresh, IsoInv, PastIso, StampInv, NicInv, StopInv
    <2>5. CASE ShutdownForces
      <3>1. StopInv'
        <4>1. CASE StopAccepted
          BY <2>5, <4>1 DEF ShutdownForces, StopAccepted, TaskFree, IInv, TypeOK, Rest, Places, StopInv
        <4>2. CASE UNCHANGED <<task, stopOk>>
          BY <2>5, <4>2 DEF ShutdownForces, IInv, TypeOK, Rest, Places, StopInv, TaskInv
        <4> QED BY <2>5, <4>1, <4>2 DEF ShutdownForces
      <3>2. /\ pc = "shutpoll" /\ pc' = "done" /\ task' \in {task, "stop"}
            /\ UNCHANGED <<boot, env, dom, auto, cd, nic, mac, ran, stoppedAt, bag, listener, warned>>
            /\ UNCHANGED <<confirmed, halted, fresh>>
        BY <2>5 DEF ShutdownForces, StopAccepted
      <3>3. (Places /\ PortInv /\ MacInv /\ TaskInv /\ FreshInv)'
        BY <3>2 DEF IInv, TypeOK, Rest, Places, PortInv, MacInv, TaskInv, FreshInv, SecondBootIsFresh
      <3>4. (IsoInv /\ StampInv /\ NicInv)'
        BY <3>2 DEF IInv, TypeOK, Rest, Places, IsoInv, PastIso, StampInv, NicInv
      <3> QED BY <3>1, <3>3, <3>4 DEF Rest
    <2> QED BY <2>1, <2>2, <2>3, <2>4, <2>5 DEF GivesUp
  <1> QED BY <1>1, <1>2, <1>3, <1>4 DEF IInv, TypeOK, StepTyped, HostTyped, FlagsTyped

\* Sylve, the guest and the operator.
LEMMA HostKeeps == IInv /\ Host => IInv'
  <1> SUFFICES ASSUME IInv, Host PROVE IInv'
    OBVIOUS
  <1>1. StepTyped'
    BY DEF Host, StartRuns, StopHalts, TaskEnds, AutoStarts, GuestRuns, OperatorActs, StepTyped, IInv, Rest,
        TypeOK, MacInv, Places
  <1>2. HostTyped'
    <2>1. CASE StartRuns
      <3>1. ran' \in [cd : BOOLEAN, nic : BOOLEAN]
        BY <2>1 DEF StartRuns, IInv, TypeOK
      <3> QED BY <2>1, <3>1 DEF StartRuns, HostTyped, IInv, TypeOK
    <2>2. CASE StopHalts \/ TaskEnds \/ AutoStarts \/ GuestRuns \/ OperatorActs
      BY <2>2 DEF StopHalts, TaskEnds, AutoStarts, GuestRuns, OperatorActs, HostTyped, IInv, TypeOK
    <2> QED BY <2>1, <2>2 DEF Host
  <1>3. FlagsTyped'
    BY DEF Host, StartRuns, StopHalts, TaskEnds, AutoStarts, GuestRuns, OperatorActs, FlagsTyped, IInv,
        TypeOK
  <1>4. Rest'
    <2>1. CASE StartRuns
      <3>1. nic = "attached" => ran'.nic
        BY <2>1 DEF StartRuns
      <3>2. NicInv'
        BY <2>1, <3>1 DEF StartRuns, Host, IInv, TypeOK, Rest, NicInv, Places
      <3>3. (Places /\ PortInv /\ MacInv /\ TaskInv /\ FreshInv /\ IsoInv /\ StampInv /\ StopInv)'
        BY <2>1 DEF StartRuns, Host, IInv, TypeOK, Rest, Places, PortInv, MacInv, TaskInv, FreshInv,
            SecondBootIsFresh, IsoInv, PastIso, StampInv, StopInv
      <3> QED BY <3>2, <3>3 DEF Rest
    <2>2. CASE StopHalts
      BY <2>2 DEF StopHalts, IInv, TypeOK, Rest, Places, PortInv, MacInv, TaskInv, FreshInv,
          SecondBootIsFresh, IsoInv, PastIso, StampInv, NicInv, StopInv, Host
    <2>3. CASE TaskEnds
      BY <2>3 DEF TaskEnds, IInv, TypeOK, Rest, Places, PortInv, MacInv, TaskInv, FreshInv, SecondBootIsFresh,
          IsoInv, PastIso, StampInv, NicInv, StopInv, Host
    <2>4. CASE AutoStarts
      BY <2>4 DEF AutoStarts, IInv, TypeOK, Rest, Places, PortInv, MacInv, TaskInv, FreshInv,
          SecondBootIsFresh, IsoInv, PastIso, StampInv, NicInv, StopInv, Host
    <2>5. CASE GuestRuns
      BY <2>5 DEF GuestRuns, IInv, TypeOK, Rest, Places, PortInv, MacInv, TaskInv, FreshInv,
          SecondBootIsFresh, IsoInv, PastIso, StampInv, NicInv, StopInv, Host
    <2>6. CASE OperatorActs
      BY <2>6 DEF OperatorActs, IInv, TypeOK, Rest, Places, PortInv, MacInv, TaskInv, FreshInv,
          SecondBootIsFresh, IsoInv, PastIso, StampInv, NicInv, StopInv, Host
    <2> QED BY <2>1, <2>2, <2>3, <2>4, <2>5, <2>6 DEF Host
  <1> QED BY <1>1, <1>2, <1>3, <1>4 DEF IInv, TypeOK, StepTyped, HostTyped, FlagsTyped

\* The API, the context, and steps that change nothing.
LEMMA OthersKeep == IInv /\ (ApiChanges \/ Cancel \/ UNCHANGED vars) => IInv'
  <1> SUFFICES ASSUME IInv, ApiChanges \/ Cancel \/ UNCHANGED vars PROVE IInv'
    OBVIOUS
  <1>1. /\ UNCHANGED <<stepVars, env, hostVars, bag, listener, warned, confirmed, ghostVars, stopOk>>
        /\ ctxDone' \in BOOLEAN /\ api' \in BOOLEAN
    BY DEF ApiChanges, Cancel, vars, IInv, TypeOK
  <1>2. TypeOK'
    BY <1>1 DEF IInv, TypeOK
  <1>3. Rest'
    BY <1>1 DEF IInv, Rest, Places, PortInv, MacInv, TaskInv, FreshInv, SecondBootIsFresh, IsoInv, PastIso,
                StampInv, NicInv, StopInv
  <1> QED BY <1>2, <1>3 DEF IInv

-----------------------------------------------------------------------------

\* Every reachable state of the power cycle satisfies the inductive invariant.
THEOREM Inductive == Spec => []IInv
  <1>1. IInv /\ [Next]_vars => IInv'
    BY FixUpsKeeps, BootKeeps, RestartKeeps, FinishKeeps, GivesUpKeeps, HostKeeps, OthersKeep DEF Next, Steps
  <1> QED BY InitInv, <1>1, PTL DEF Spec

\* Every reachable state is well typed: the NIC gets two new MACs at most.
THEOREM TypeCorrect == Spec => []TypeOK
  <1>1. IInv => TypeOK
    BY DEF IInv
  <1> QED BY Inductive, <1>1, PTL

\* The guest that is provisioned was not launched with the ISO, unless a warning was
\* given or the storage not found, whatever else starts and stops it.
THEOREM InstalledOsBootsThm == Spec => []InstalledOsBoots
  <1>1. IInv => InstalledOsBoots
    BY DEF IInv, Rest, IsoInv, InstalledOsBoots
  <1> QED BY Inductive, <1>1, PTL

\* StepRestartAfterInstall never goes on with the domain the installer ran in.
THEOREM SecondBootIsFreshThm == Spec => []SecondBootIsFresh
  <1>1. IInv => SecondBootIsFresh
    BY DEF IInv, Rest, FreshInv
  <1> QED BY Inductive, <1>1, PTL

\* A stop is confirmed of a domain that halted, unless the host's clock is ahead.
THEOREM ConfirmedMeansHaltedThm == Spec => []ConfirmedMeansHalted
  <1>1. IInv => ConfirmedMeansHalted
    BY DEF IInv, Rest, StampInv, ConfirmedMeansHalted
  <1> QED BY Inductive, <1>1, PTL

\* Without a warning for the NIC the guest that is provisioned has it, with the MAC
\* that StepDiscoverIP looks for.
THEOREM GuestHasItsNicThm == Spec => []GuestHasItsNic
  <1>1. IInv => GuestHasItsNic
    BY DEF IInv, Rest, NicInv, MacInv, GuestHasItsNic
  <1> QED BY Inductive, <1>1, PTL

\* A guest that StepShutdown stopped is not started again.
THEOREM StoppedStaysThm == Spec => []StoppedStays
  <1>1. IInv => StoppedStays
    BY DEF IInv, Rest, StopInv, StoppedStays
  <1> QED BY Inductive, <1>1, PTL

\* No start of Sylve's finds the plugin's listener on the VNC port.
THEOREM LaunchFindsPortFreeThm == Spec => LaunchFindsPortFree
  <1>1. IInv => (StartRuns => ~listener)
    BY DEF IInv, Rest, PortInv, StartRuns
  <1> QED BY Inductive, <1>1, PTL DEF LaunchFindsPortFree

-----------------------------------------------------------------------------
(* What StepsEnd rests on *)

\* The control points ahead of the steps, in the order they are entered in.
Left ==
  CASE pc \in {"done", "halt"}      -> 0
    [] pc = "shutpoll"             -> 1
    [] pc = "shutstop"             -> 2
    [] pc = "command"              -> 3
    [] pc = "provision"            -> 4
    [] pc = "poll" /\ boot = 2     -> 5
    [] pc = "start" /\ boot = 2    -> 6
    [] pc = "attach" /\ boot = 2   -> 7
    [] pc = "detach" /\ boot = 2   -> 8
    [] pc = "wait" /\ boot = 2     -> 9
    [] pc = "release" /\ boot = 2  -> 10
    [] pc = "disable"              -> 11
    [] pc = "check"                -> 12
    [] pc = "shutoff"              -> 13
    [] pc = "stop"                 -> 14
    [] pc = "install"              -> 15
    [] pc = "poll" /\ boot = 1     -> 16
    [] pc = "start" /\ boot = 1    -> 17
    [] pc = "wait" /\ boot = 1     -> 18
    [] pc = "release" /\ boot = 1  -> 19
    [] pc = "refresh"              -> 20
    [] pc = "attach" /\ boot = 1   -> 21
    [] pc = "detach" /\ boot = 1   -> 22
    [] pc = "autostart"            -> 23

\* Each step goes on to a later control point, and so does each deadline; only a start that
\* was answered with an error although Sylve accepted it is repeated.  Nothing that Sylve,
\* the guest, the operator or a cancellation does sends the steps back.
StepsRunDown ==
  [][/\ Left \in 0 .. 23 /\ Left' <= Left
     /\ Steps => Left' < Left \/ (Lossy /\ pc = "start" /\ UNCHANGED pc)
     /\ GivesUp => Left' < Left]_vars

\* The power cycle takes at most 23 steps besides repeated starts and looks that find nothing
\* to act on, both bounded by the deadlines: no wait is entered twice in a boot.
THEOREM StepsRunDownThm == Spec => StepsRunDown
  <1> DEFINE Down(m, n) == m \in 0 .. 23 /\ n \in 0 .. 23 /\ n < m
  <1>1. ASSUME IInv, IInv', [Next]_vars
        PROVE  [/\ Left \in 0 .. 23 /\ Left' <= Left
                /\ Steps => Left' < Left \/ (Lossy /\ pc = "start" /\ UNCHANGED pc)
                /\ GivesUp => Left' < Left]_vars
    <2> SUFFICES ASSUME Next
                 PROVE  /\ Left \in 0 .. 23 /\ Left' <= Left
                        /\ Steps => Left' < Left \/ (Lossy /\ pc = "start" /\ UNCHANGED pc)
                        /\ GivesUp => Left' < Left
      BY <1>1
    <2>1. StepTyped /\ Places
      BY <1>1 DEF IInv, TypeOK, StepTyped, Rest
    <2>2. Left \in 0 .. 23
      BY <2>1 DEF StepTyped, Provisioning, Left
    <2>3. CASE FixUps
      <3>1. Down(Left, Left')
        <4>1. CASE DisableStartAtBoot
          BY <2>1, <4>1 DEF DisableStartAtBoot, NicOr, Places, Left
        <4>2. CASE Detach
          BY <2>1, <4>2 DEF Detach, AfterNic, StepTyped, Left
        <4>3. CASE Attach
          BY <2>1, <4>3 DEF Attach, AfterNic, StepTyped, Left
        <4>4. CASE Refresh
          BY <2>1, <4>4 DEF Refresh, Places, Left
        <4> QED BY <2>3, <4>1, <4>2, <4>3, <4>4 DEF FixUps
      <3> QED BY <3>1
    <2>4. CASE Boot
      <3>1. Down(Left, Left') \/ (Lossy /\ pc = "start" /\ UNCHANGED <<pc, boot>>)
        <4>1. CASE Release
          BY <2>1, <4>1 DEF Release, StepTyped, Left
        <4>2. CASE TaskWait
          BY <2>1, <4>2 DEF TaskWait, Halt, Quiet, AfterWait, NicOr, StepTyped, Left
        <4>3. CASE StartVM
          <5>1. pc = "start" /\ boot' = boot /\ (pc' \in {"poll", "halt"} \/ (Lossy /\ pc' = pc))
            BY <4>3 DEF StartVM, Halt
          <5> QED BY <2>1, <5>1 DEF StepTyped, Left
        <4>4. CASE Poll
          BY <2>1, <4>4 DEF Poll, Halt, Quiet, StepTyped, Left
        <4>5. CASE Install
          <5>1. pc = "install" /\ (pc' = "stop" \/ pc' = "halt")
            BY <4>5 DEF Install
          <5>2. Left = 15
            BY <5>1 DEF Left
          <5>3. pc' = "stop" => Left' = 14
            BY <5>1 DEF Left
          <5>4. pc' = "halt" => Left' = 0
            BY <5>1 DEF Left
          <5> QED BY <5>1, <5>2, <5>3, <5>4
        <4> QED BY <2>4, <4>1, <4>2, <4>3, <4>4, <4>5 DEF Boot
      <3>2. UNCHANGED <<pc, boot>> => Left' = Left
        BY DEF Left
      <3>3. pc = "start" => ~GivesUp \/ pc' = "halt"
        BY DEF GivesUp, TaskWaitGivesUp, StartGivesUp, PollGivesUp, ShutoffGivesUp, ShutdownForces
      <3> QED BY <2>2, <3>1, <3>2, <3>3
    <2>5. CASE Restart
      <3>1. Down(Left, Left')
        <4>1. CASE ForceStop
          BY <2>1, <4>1 DEF ForceStop, Left
        <4>2. CASE Shutoff
          <5>1. pc = "shutoff" /\ boot' = 2 /\ (pc' = "disable" \/ pc' = "release" \/ pc' = "halt")
            BY <2>1, <4>2 DEF Shutoff, IsoOr, Halt, Places
          <5>2. Left = 13
            BY <5>1 DEF Left
          <5>3. pc' = "disable" => Left' = 11
            BY <5>1 DEF Left
          <5>4. pc' = "release" => Left' = 10
            BY <5>1 DEF Left
          <5>5. pc' = "halt" => Left' = 0
            BY <5>1 DEF Left
          <5> QED BY <5>1, <5>2, <5>3, <5>4, <5>5
        <4>3. CASE CheckTask
          <5>1. pc = "check" /\ boot' = 2 /\ (pc' = "disable" \/ pc' = "release" \/ pc' = "halt")
            BY <2>1, <4>3 DEF CheckTask, IsoOr, Quiet, Places
          <5>2. Left = 12
            BY <5>1 DEF Left
          <5>3. pc' = "disable" => Left' = 11
            BY <5>1 DEF Left
          <5>4. pc' = "release" => Left' = 10
            BY <5>1 DEF Left
          <5>5. pc' = "halt" => Left' = 0
            BY <5>1 DEF Left
          <5> QED BY <5>1, <5>2, <5>3, <5>4, <5>5
        <4>4. CASE DisableIso
          BY <2>1, <4>4 DEF DisableIso, Places, Left
        <4> QED BY <2>5, <4>1, <4>2, <4>3, <4>4 DEF Restart
      <3> QED BY <3>1
    <2>6. CASE Finish
      <3>1. Down(Left, Left')
        <4>1. CASE Provision
          <5>1. pc = "provision" /\ (pc' = "command" \/ pc' = "halt")
            BY <4>1 DEF Provision
          <5>2. Left = 4
            BY <5>1 DEF Left
          <5>3. pc' = "command" => Left' = 3
            BY <5>1 DEF Left
          <5>4. pc' = "halt" => Left' = 0
            BY <5>1 DEF Left
          <5> QED BY <5>1, <5>2, <5>3, <5>4
        <4>2. CASE ShutdownCommand
          <5>1. pc = "command" /\ (pc' = "shutstop" \/ pc' = "halt")
            BY <4>2 DEF ShutdownCommand
          <5>2. Left = 3
            BY <5>1 DEF Left
          <5>3. pc' = "shutstop" => Left' = 2
            BY <5>1 DEF Left
          <5>4. pc' = "halt" => Left' = 0
            BY <5>1 DEF Left
          <5> QED BY <5>1, <5>2, <5>3, <5>4
        <4>3. CASE ShutdownStop
          <5>1. pc = "shutstop" /\ pc' = "shutpoll"
            BY <4>3 DEF ShutdownStop
          <5> QED BY <5>1 DEF Left
        <4>4. CASE ShutdownPoll
          <5>1. pc = "shutpoll" /\ (pc' = "done" \/ pc' = "halt")
            BY <4>4 DEF ShutdownPoll, Halt
          <5>2. Left = 1
            BY <5>1 DEF Left
          <5>3. pc' = "done" => Left' = 0
            BY <5>1 DEF Left
          <5>4. pc' = "halt" => Left' = 0
            BY <5>1 DEF Left
          <5> QED BY <5>1, <5>2, <5>3, <5>4
        <4> QED BY <2>6, <4>1, <4>2, <4>3, <4>4 DEF Finish
      <3> QED BY <3>1
    <2>7. CASE GivesUp
      <3>1. Down(Left, Left')
        <4>1. CASE TaskWaitGivesUp
          BY <2>1, <4>1 DEF TaskWaitGivesUp, AfterWait, NicOr, Quiet, StepTyped, Left
        <4>2. CASE StartGivesUp \/ PollGivesUp
          BY <2>1, <4>2 DEF StartGivesUp, PollGivesUp, StepTyped, Left
        <4>3. CASE ShutoffGivesUp
          BY <4>3 DEF ShutoffGivesUp, Left
        <4>4. CASE ShutdownForces
          <5>1. pc = "shutpoll" /\ pc' = "done"
            BY <4>4 DEF ShutdownForces
          <5> QED BY <5>1 DEF Left
        <4> QED BY <2>7, <4>1, <4>2, <4>3, <4>4 DEF GivesUp
      <3> QED BY <3>1
    <2>8. CASE ~Steps
      <3>1. UNCHANGED <<pc, boot>>
        BY <2>8 DEF Next, Host, ApiChanges, Cancel, stepVars
      <3>2. Left' = Left
        BY <3>1 DEF Left
      <3> QED BY <2>2, <2>8, <3>2 DEF Steps
    <2> QED BY <2>3, <2>4, <2>5, <2>6, <2>7, <2>8 DEF Steps
  <1> QED BY <1>1, Inductive, PTL DEF Spec, StepsRunDown
=============================================================================
