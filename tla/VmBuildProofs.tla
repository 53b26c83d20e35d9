---------------------------- MODULE VmBuildProofs ----------------------------
(***************************************************************************)
(* Theorems about the VM build, for any slots, any thresholds and every    *)
(* fault.  IInv is the inductive invariant: where the runner is, what it   *)
(* remembers of its VM, which VM of the host is its own, and what it may   *)
(* rely on of a guest and a NIC that change behind its back.               *)
(***************************************************************************)
EXTENDS VmBuild, TLAPS

Creating == {"clone", "waitvm", "waittask"}
Fixing == {"boot", "bootpoll", "bootstop", "stoppoll", "detach", "attach", "refetch"}
Starting == {"starttask", "startcall", "startpoll"}
Cleaning == {"cleanstart", "cleanpoll", "cleancreate"}
Over == {"finish", "logout", "end"}
Busy == {"step"} \cup Creating \cup Fixing \cup Starting \cup {"ippoll", "shutstop", "shutpoll", "delete"}

\* Where the runner is.
Where ==
  /\ pc = "auth" => stage = 1 /\ entered = 0
  /\ pc = "runner" => entered = stage - 1
  /\ pc = "step" => stage < DoneStage /\ entered = stage
  /\ pc \in Creating => stage = 1 /\ entered = 1
  /\ pc \in Fixing => stage = 2 /\ entered = 2 /\ bagNet
  /\ pc \in Starting => stage = 3 /\ entered = 3
  /\ pc = "ippoll" => stage = 5 /\ entered = 5 /\ bagMac # "none"
  /\ pc \in {"shutstop", "shutpoll"} => stage = 9 /\ entered = 9
  /\ pc = "delete" => stage = 10 /\ entered = 10 /\ ~cfg.keep
  /\ entered = stage \/ entered = stage - 1
  /\ outcome = "running" <=> pc \notin {"logout", "end"}

\* What the build remembers of its VM.
Remembered ==
  /\ pc \in Creating \/ stage > 1 => rid \in RIDs
  /\ stage = 1 => bagRid = NoRID
  /\ stage > 1 => bagRid \in {NoRID, rid}
  /\ stage > 1 /\ bagRid = NoRID => (stage = DoneStage /\ ~cfg.keep) \/ (pc \in Over /\ (cancelled \/ halted))

\* The build's one VM.
OneVM ==
  /\ \A r \in RIDs : vm[r] = "ours" => r = rid /\ clone \in {"accepted", "visible", "done"}
  /\ clone \in {"accepted", "visible", "done"} => rid \in RIDs /\ vm[rid] = "ours"
  /\ past => clone = "none" /\ stage > 1
  /\ stage = 1 /\ pc \in {"auth", "runner", "step", "clone"} => clone = "none"
  /\ past => (stage = DoneStage /\ ~cfg.keep) \/ (pc \in Over /\ (cancelled \/ halted))
  /\ ~CloneFails => clone # "failed"
  /\ pc \in {"waitvm", "waittask"} \/ stage > 1 => past \/ clone # "none"
  /\ past => bagRid = NoRID \/ (Lossy /\ refused)

\* Why the runner stopped.
Exits ==
  /\ cancelled => ctxDone
  /\ halted \/ bagErr => pc \in Cleaning \cup Over /\ stage < DoneStage
  /\ pc \in Cleaning => stage = DoneStage \/ cancelled \/ halted
  /\ pc \in Cleaning \cup {"finish"} /\ stage # DoneStage => bagErr \/ ctxDone
  /\ stage = DoneStage /\ bagRid # NoRID => cfg.keep \/ refused
  /\ pc \in Over /\ bagRid # NoRID => refused \/ (cfg.keep /\ stage = DoneStage)
  /\ pc \in {"logout", "end"} /\ stage = DoneStage => outcome = "artifact" /\ artRid = bagRid
  /\ artRid # NoRID => artRid = bagRid /\ pc \in {"logout", "end"}
  /\ OnlyCancelHidesFailure

\* Starts that are accepted, and guests that are seen stopped.
Guest ==
  /\ task = "start" => ~Active
  /\ stage > StartStage => task # "start"
  /\ pc \in {"cleancreate"} \cup Over /\ stage = DoneStage /\ bagRid # NoRID /\ ~stopFailed => ~Active

\* The NIC the domain boots with.
Nic ==
  /\ pc = "refetch" => nic = "attached"
  /\ stage > 2 /\ bagNet => nic = "attached"
  /\ pc = "startpoll" /\ bagNet => booted = "attached" \/ task = "start"
  /\ stage > StartStage /\ bagNet => booted = "attached"

\* A session is opened once and closed on the way out.
Sessions == (pc = "auth" => session = "none") /\ SessionClosed

Rest == Where /\ Remembered /\ OneVM /\ Exits /\ Guest /\ Nic /\ Sessions

\* The parts of TypeOK, by who keeps the state.
StepTyped ==
  /\ cfg \in [keep : BOOLEAN, token : BOOLEAN, nic : BOOLEAN, samemac : BOOLEAN]
  /\ pc \in PCs /\ stage \in 1 .. DoneStage /\ entered \in 0 .. DoneStage - 1
  /\ ctxDone \in BOOLEAN /\ cancelled \in BOOLEAN /\ halted \in BOOLEAN /\ bagErr \in BOOLEAN
  /\ api \in BOOLEAN

HostTyped ==
  /\ vm \in [RIDs -> {"free", "ours", "theirs"}]
  /\ clone \in {"none", "accepted", "visible", "done", "failed"} /\ past \in BOOLEAN

GuestTyped ==
  /\ dom \in {"nostate", "running", "blocked", "off"} /\ task \in {"none", "start", "stop"}
  /\ nic \in {"disabled", "detached", "attached"} /\ booted \in {"disabled", "detached", "attached"}
  /\ mac \in {"template", "fresh"}

BagTyped ==
  /\ rid \in RIDs \cup {NoRID} /\ bagRid \in RIDs \cup {NoRID} /\ bagNet \in BOOLEAN
  /\ bagMac \in {"none", "template", "fresh"} /\ ip \in {"none", "own", "other"}
  /\ crashes \in 0 .. CrashThreshold - 1 /\ nostates \in 0 .. NoStateThreshold - 1

EndTyped ==
  /\ stopFailed \in BOOLEAN /\ refused \in BOOLEAN
  /\ session \in {"none", "live", "over", "abandoned"}
  /\ outcome \in {"running", "artifact", "error"} /\ artRid \in RIDs \cup {NoRID}

IInv == TypeOK /\ Rest

LEMMA TypeParts == TypeOK <=> StepTyped /\ HostTyped /\ GuestTyped /\ BagTyped /\ EndTyped
  BY DEF TypeOK, StepTyped, HostTyped, GuestTyped, BagTyped, EndTyped

\* Which step is at which place.
LEMMA StepPlaces ==
  \A s \in 1 .. 10 :
    /\ Steps[s] = "create" <=> s = 1
    /\ Steps[s] = "fixnic" <=> s = 2
    /\ Steps[s] = "start" <=> s = 3
    /\ Steps[s] = "bootwait" <=> s = 4
    /\ Steps[s] = "ip" <=> s = 5
    /\ Steps[s] \in {"tunnel", "connect", "provision"} <=> s \in {6, 7, 8}
    /\ Steps[s] = "shutdown" <=> s = 9
    /\ Steps[s] = "delete" <=> s = 10
  <1> TAKE s \in 1 .. 10
  <1>1. s = 1 \/ s = 2 \/ s = 3 \/ s = 4 \/ s = 5 \/ s = 6 \/ s = 7 \/ s = 8 \/ s = 9 \/ s = 10
    OBVIOUS
  <1> QED BY <1>1 DEF Steps

USE VmAssumption DEF hostVars, guestVars, bagVars, pollVars, doneVars, runVars, NoRID, DoneStage, StartStage,
  Goto, Advance, HaltStep, HaltOnCancel, At, SameGuest, Active, CallFails, Creating, Fixing, Starting,
  Cleaning, Over

LEMMA InitInv == Init => IInv
  <1> SUFFICES ASSUME Init PROVE IInv
    OBVIOUS
  <1>1. StepTyped /\ HostTyped /\ GuestTyped /\ BagTyped /\ EndTyped
    <2>1. StepTyped
      <3>1. stage \in 1 .. DoneStage /\ entered \in 0 .. DoneStage - 1 /\ pc \in PCs
        BY DEF Init, PCs
      <3> QED BY <3>1, Zenon DEF Init, StepTyped
    <2>2. HostTyped
      BY DEF Init, HostTyped
    <2>3. GuestTyped /\ EndTyped
      BY DEF Init, GuestTyped, EndTyped
    <2>4. BagTyped
      <3>1. CrashThreshold \in Nat \ {0} /\ NoStateThreshold \in Nat \ {0}
        BY DEF VmAssumption
      <3>2. crashes \in 0 .. CrashThreshold - 1 /\ nostates \in 0 .. NoStateThreshold - 1
        BY <3>1 DEF Init
      <3> QED BY <3>2 DEF Init, BagTyped
    <2> QED BY <2>1, <2>2, <2>3, <2>4
  <1>2. Where /\ Remembered /\ Exits /\ Guest /\ Nic /\ Sessions
    <2>1. Where /\ Remembered
      BY DEF Init, Where, Remembered
    <2>2. Exits
      BY DEF Init, Exits, OnlyCancelHidesFailure
    <2>3. Guest /\ Nic /\ Sessions
      BY DEF Init, Guest, Nic, Sessions, SessionClosed
    <2> QED BY <2>1, <2>2, <2>3
  <1>3. OneVM
    BY DEF Init, OneVM
  <1> QED BY <1>1, <1>2, <1>3, TypeParts DEF IInv, Rest

-----------------------------------------------------------------------------
(* The two ways a step ends: it halts, which is treated once, or it leaves *)
(* the flags of the runner alone.                                          *)

Halts ==
  /\ pc \in Busy /\ UNCHANGED <<doneVars, bagRid>>
  /\ \E e \in BOOLEAN : HaltStep(e) /\ (e \/ ctxDone)

Moves == UNCHANGED <<halted, bagErr>>

LEMMA HaltKeeps ==
  ASSUME IInv, Halts
  PROVE  (StepTyped /\ Exits)'
  <1> PICK e \in BOOLEAN : HaltStep(e) /\ (e \/ ctxDone)
    BY DEF Halts
  <1>1. /\ halted' \in BOOLEAN /\ bagErr' \in BOOLEAN /\ pc' = "cleanstart" /\ pc' \in PCs
        /\ UNCHANGED <<stage, ctxDone, cancelled, cfg, entered, api, bagRid, refused, artRid, outcome>>
    BY Zenon DEF IInv, TypeOK, PCs, Halts
  <1>2. (cancelled \/ halted') /\ (bagErr' \/ ctxDone')
    BY Zenon DEF IInv, TypeOK
  <1>3. stage < DoneStage /\ outcome = "running"
    BY DEF IInv, TypeOK, Rest, Where, Busy, Halts
  <1>4. artRid = NoRID
    BY DEF IInv, TypeOK, Rest, Exits, Busy, Halts
  <1>5. StepTyped'
    BY <1>1 DEF IInv, TypeOK, StepTyped
  <1>6. Exits'
    BY <1>1, <1>2, <1>3, <1>4 DEF IInv, TypeOK, Rest, Exits, OnlyCancelHidesFailure
  <1> QED BY <1>5, <1>6

\* What DELETE does to the host.
LEMMA DeletesTyped ==
  ASSUME IInv, NEW r \in RIDs, ServerDeletes(r)
  PROVE  HostTyped'
  BY DEF IInv, TypeOK, ServerDeletes, HostTyped

\* The two polls of StepStartVM that count.
LEMMA CountingPolls ==
  ASSUME IInv, StartPollOff \/ StartPollNoState
  PROVE  (Where /\ Remembered /\ OneVM /\ Guest /\ Nic /\ Sessions)'
  <1>1. /\ UNCHANGED <<hostVars, guestVars, rid, bagVars, doneVars, runVars, stage>>
        /\ pc = "startpoll" /\ ~Active /\ pc' \in {"startpoll", "cleanstart"}
    BY Zenon DEF StartPollOff, StartPollNoState
  <1>2. stage = 3 /\ entered = 3
    BY <1>1 DEF IInv, Rest, Where
  <1>3. Where'
    BY <1>1, <1>2 DEF IInv, TypeOK, Rest, Where
  <1>4. Remembered'
    BY <1>1, <1>2 DEF IInv, TypeOK, Rest, Remembered
  <1>5. OneVM'
    BY <1>1, <1>2 DEF IInv, TypeOK, Rest, OneVM
  <1>6. Guest' /\ Nic' /\ Sessions'
    BY <1>1, <1>2 DEF IInv, TypeOK, Rest, Guest, Nic, Sessions, SessionClosed
  <1> QED BY <1>3, <1>4, <1>5, <1>6

-----------------------------------------------------------------------------
(* Every action keeps the invariant *)

\* Sylve, the guest, the network, the user and the others.
HostMoves ==
  \/ TaskRuns \/ GuestRuns \/ CloneRuns \/ ApiChanges \/ WatcherCancels \/ Cancel
  \/ \E r \in RIDs : OtherVM(r)

\* The runner and the frame of Builder.Run.
LEMMA RunnerKeeps == IInv /\ Runner => IInv'
  <1> SUFFICES ASSUME IInv, Runner PROVE IInv'
    OBVIOUS
  <1>1. (StepTyped /\ Exits)'
    <2>1. StepTyped'
      <3>1. CASE EnsureAuth
        BY <3>1 DEF EnsureAuth, StepTyped, IInv, TypeOK, Rest, PCs, Where
      <3>2. CASE RunnerNext
        BY <3>2 DEF RunnerNext, StepTyped, IInv, TypeOK, Rest, PCs, Where
      <3>3. CASE RunnerCancelled
        BY <3>3 DEF RunnerCancelled, StepTyped, IInv, TypeOK, Rest, PCs, Where
      <3>4. CASE RunnerDone
        BY <3>4 DEF RunnerDone, StepTyped, IInv, TypeOK, Rest, PCs, Where
      <3>5. CASE Finish
        BY <3>5 DEF Finish, StepTyped, IInv, TypeOK, Rest, PCs, Where
      <3>6. CASE Logout
        BY <3>6 DEF Logout, StepTyped, IInv, TypeOK, Rest, PCs, Where
      <3> QED BY <3>1, <3>2, <3>3, <3>4, <3>5, <3>6 DEF Runner
    <2>2. Exits'
      BY DEF Runner, EnsureAuth, RunnerNext, RunnerCancelled, RunnerDone, Finish, Logout, IInv, TypeOK,
          Rest, Exits, Where, Remembered, OnlyCancelHidesFailure
    <2> QED BY <2>1, <2>2
  <1>2. HostTyped'
    BY DEF Runner, EnsureAuth, RunnerNext, RunnerCancelled, RunnerDone, Finish, Logout, HostTyped, IInv,
        TypeOK
  <1>3. GuestTyped'
    BY DEF Runner, EnsureAuth, RunnerNext, RunnerCancelled, RunnerDone, Finish, Logout, GuestTyped, IInv,
        TypeOK
  <1>4. BagTyped'
    BY DEF Runner, EnsureAuth, RunnerNext, RunnerCancelled, RunnerDone, Finish, Logout, BagTyped, IInv,
        TypeOK
  <1>5. EndTyped'
    BY DEF Runner, EnsureAuth, RunnerNext, RunnerCancelled, RunnerDone, Finish, Logout, EndTyped, IInv,
        TypeOK
  <1>6. (Where /\ Remembered /\ OneVM /\ Guest /\ Nic /\ Sessions)'
    <2>1. CASE EnsureAuth
      BY <2>1, StepPlaces DEF EnsureAuth, IInv, TypeOK, Rest, Where, Remembered, OneVM, Exits, Guest, Nic,
          Sessions, SessionClosed, OnlyCancelHidesFailure
    <2>2. CASE RunnerNext
      BY <2>2, StepPlaces DEF RunnerNext, IInv, TypeOK, Rest, Where, Remembered, OneVM, Exits, Guest, Nic,
          Sessions, SessionClosed, OnlyCancelHidesFailure
    <2>3. CASE RunnerCancelled
      BY <2>3, StepPlaces DEF RunnerCancelled, IInv, TypeOK, Rest, Where, Remembered, OneVM, Exits, Guest,
          Nic, Sessions, SessionClosed, OnlyCancelHidesFailure
    <2>4. CASE RunnerDone
      BY <2>4, StepPlaces DEF RunnerDone, IInv, TypeOK, Rest, Where, Remembered, OneVM, Exits, Guest, Nic,
          Sessions, SessionClosed, OnlyCancelHidesFailure
    <2>5. CASE Finish
      BY <2>5, StepPlaces DEF Finish, IInv, TypeOK, Rest, Where, Remembered, OneVM, Exits, Guest, Nic, Sessions, SessionClosed, OnlyCancelHidesFailure
    <2>6. CASE Logout
      BY <2>6, StepPlaces DEF Logout, IInv, TypeOK, Rest, Where, Remembered, OneVM, Exits, Guest, Nic, Sessions, SessionClosed, OnlyCancelHidesFailure
    <2> QED BY <2>1, <2>2, <2>3, <2>4, <2>5, <2>6 DEF Runner
  <1> QED BY <1>1, <1>2, <1>3, <1>4, <1>5, <1>6
         DEF IInv, Rest, TypeOK, StepTyped, HostTyped, GuestTyped, BagTyped, EndTyped

\* StepCreateFromTemplate.
LEMMA CreateKeeps == IInv /\ Create => IInv'
  <1> SUFFICES ASSUME IInv, Create PROVE IInv'
    OBVIOUS
  <1>1. (StepTyped /\ Exits)'
    <2>1. Halts \/ Moves
      BY Zenon DEF Create, FindRID, Listed, CreateVMFromTemplate, CanClone, ServerClones, WaitGetVM,
          WaitTask, RememberVM, Halts, Moves, Busy
    <2>2. CASE Halts
      BY <2>2, HaltKeeps
    <2>3. CASE Moves
      <3>1. StepTyped'
        BY <2>3, StepPlaces DEF Create, FindRID, Listed, CreateVMFromTemplate, CanClone, ServerClones,
            WaitGetVM, WaitTask, RememberVM, Moves, StepTyped, IInv, TypeOK, Rest, PCs, Where
      <3>2. Exits'
        BY <2>3, StepPlaces DEF Create, FindRID, Listed, CreateVMFromTemplate, CanClone, ServerClones,
            WaitGetVM, WaitTask, RememberVM, Moves, IInv, TypeOK, Rest, Exits, Where, Remembered,
            OnlyCancelHidesFailure
      <3> QED BY <3>1, <3>2
    <2> QED BY <2>1, <2>2, <2>3
  <1>2. HostTyped'
    BY DEF Create, FindRID, Listed, CreateVMFromTemplate, CanClone, ServerClones, WaitGetVM, WaitTask,
        RememberVM, HostTyped, IInv, TypeOK
  <1>3. GuestTyped'
    BY DEF Create, FindRID, Listed, CreateVMFromTemplate, CanClone, ServerClones, WaitGetVM, WaitTask,
        RememberVM, GuestTyped, IInv, TypeOK
  <1>4. BagTyped'
    <2>1. CASE WaitGetVM
      <3>1. bagNet' \in BOOLEAN
        BY <2>1 DEF WaitGetVM, IInv, TypeOK
      <3> QED BY <2>1, <3>1 DEF WaitGetVM, BagTyped, IInv, TypeOK
    <2>2. CASE FindRID \/ CreateVMFromTemplate \/ WaitTask
      BY <2>2 DEF FindRID, CreateVMFromTemplate, WaitTask, RememberVM, BagTyped, IInv, TypeOK
    <2> QED BY <2>1, <2>2 DEF Create
  <1>5. EndTyped'
    BY DEF Create, FindRID, Listed, CreateVMFromTemplate, CanClone, ServerClones, WaitGetVM, WaitTask,
        RememberVM, EndTyped, IInv, TypeOK
  <1>6. (Where /\ Remembered /\ OneVM /\ Guest /\ Nic /\ Sessions)'
    <2>1. CASE FindRID
      BY <2>1, StepPlaces DEF FindRID, Listed, IInv, TypeOK, Rest, Where, Remembered, OneVM, Exits, Guest,
          Nic, Sessions, SessionClosed, OnlyCancelHidesFailure
    <2>2. CASE CreateVMFromTemplate
      BY <2>2, StepPlaces DEF CreateVMFromTemplate, CanClone, ServerClones, IInv, TypeOK, Rest, Where,
          Remembered, OneVM, Exits, Guest, Nic, Sessions, SessionClosed, OnlyCancelHidesFailure
    <2>3. CASE WaitGetVM
      BY <2>3, StepPlaces DEF WaitGetVM, Listed, IInv, TypeOK, Rest, Where, Remembered, OneVM, Exits, Guest,
          Nic, Sessions, SessionClosed, OnlyCancelHidesFailure
    <2>4. CASE WaitTask
      BY <2>4, StepPlaces DEF WaitTask, RememberVM, IInv, TypeOK, Rest, Where, Remembered, OneVM, Exits,
          Guest, Nic, Sessions, SessionClosed, OnlyCancelHidesFailure
    <2> QED BY <2>1, <2>2, <2>3, <2>4 DEF Create
  <1> QED BY <1>1, <1>2, <1>3, <1>4, <1>5, <1>6
         DEF IInv, Rest, TypeOK, StepTyped, HostTyped, GuestTyped, BagTyped, EndTyped

\* StepFixNIC.
LEMMA FixStepsKeeps == IInv /\ FixSteps => IInv'
  <1> SUFFICES ASSUME IInv, FixSteps PROVE IInv'
    OBVIOUS
  <1>1. (StepTyped /\ Exits)'
    <2>1. Halts \/ Moves
      BY Zenon DEF FixSteps, FixNIC, BootstrapStart, StartAccepted, BootstrapPoll, BootstrapStop,
          StopAccepted, StopPoll, Detach, Attach, ServerAttaches, Refetch, Halts, Moves, Busy
    <2>2. CASE Halts
      BY <2>2, HaltKeeps
    <2>3. CASE Moves
      <3>1. StepTyped'
        BY <2>3, StepPlaces DEF FixSteps, FixNIC, BootstrapStart, StartAccepted, BootstrapPoll,
            BootstrapStop, StopAccepted, StopPoll, Detach, Attach, ServerAttaches, Refetch, Moves, StepTyped,
            IInv, TypeOK, Rest, PCs, Where
      <3>2. Exits'
        BY <2>3, StepPlaces DEF FixSteps, FixNIC, BootstrapStart, StartAccepted, BootstrapPoll,
            BootstrapStop, StopAccepted, StopPoll, Detach, Attach, ServerAttaches, Refetch, Moves, IInv, TypeOK,
            Rest, Exits, Where, Remembered, OnlyCancelHidesFailure
      <3> QED BY <3>1, <3>2
    <2> QED BY <2>1, <2>2, <2>3
  <1>2. HostTyped'
    BY DEF FixSteps, FixNIC, BootstrapStart, StartAccepted, BootstrapPoll, BootstrapStop, StopAccepted,
        StopPoll, Detach, Attach, ServerAttaches, Refetch, HostTyped, IInv, TypeOK
  <1>3. GuestTyped'
    BY DEF FixSteps, FixNIC, BootstrapStart, StartAccepted, BootstrapPoll, BootstrapStop, StopAccepted,
        StopPoll, Detach, Attach, ServerAttaches, Refetch, GuestTyped, IInv, TypeOK
  <1>4. BagTyped'
    BY DEF FixSteps, FixNIC, BootstrapStart, StartAccepted, BootstrapPoll, BootstrapStop, StopAccepted,
        StopPoll, Detach, Attach, ServerAttaches, Refetch, BagTyped, IInv, TypeOK
  <1>5. EndTyped'
    BY DEF FixSteps, FixNIC, BootstrapStart, StartAccepted, BootstrapPoll, BootstrapStop, StopAccepted,
        StopPoll, Detach, Attach, ServerAttaches, Refetch, EndTyped, IInv, TypeOK
  <1>6. (Where /\ Remembered /\ OneVM /\ Guest /\ Nic /\ Sessions)'
    <2>1. CASE FixNIC
      BY <2>1, StepPlaces DEF FixNIC, IInv, TypeOK, Rest, Where, Remembered, OneVM, Exits, Guest, Nic, Sessions, SessionClosed, OnlyCancelHidesFailure
    <2>2. CASE BootstrapStart
      BY <2>2, StepPlaces DEF BootstrapStart, StartAccepted, IInv, TypeOK, Rest, Where, Remembered, OneVM,
          Exits, Guest, Nic, Sessions, SessionClosed, OnlyCancelHidesFailure
    <2>3. CASE BootstrapPoll
      BY <2>3, StepPlaces DEF BootstrapPoll, IInv, TypeOK, Rest, Where, Remembered, OneVM, Exits, Guest,
          Nic, Sessions, SessionClosed, OnlyCancelHidesFailure
    <2>4. CASE BootstrapStop
      BY <2>4, StepPlaces DEF BootstrapStop, StopAccepted, IInv, TypeOK, Rest, Where, Remembered, OneVM,
          Exits, Guest, Nic, Sessions, SessionClosed, OnlyCancelHidesFailure
    <2>5. CASE StopPoll
      BY <2>5, StepPlaces DEF StopPoll, IInv, TypeOK, Rest, Where, Remembered, OneVM, Exits, Guest, Nic,
          Sessions, SessionClosed, OnlyCancelHidesFailure
    <2>6. CASE Detach
      BY <2>6, StepPlaces DEF Detach, IInv, TypeOK, Rest, Where, Remembered, OneVM, Exits, Guest, Nic, Sessions, SessionClosed, OnlyCancelHidesFailure
    <2>7. CASE Attach
      BY <2>7, StepPlaces DEF Attach, ServerAttaches, IInv, TypeOK, Rest, Where, Remembered, OneVM, Exits,
          Guest, Nic, Sessions, SessionClosed, OnlyCancelHidesFailure
    <2>8. CASE Refetch
      BY <2>8, StepPlaces DEF Refetch, IInv, TypeOK, Rest, Where, Remembered, OneVM, Exits, Guest, Nic,
          Sessions, SessionClosed, OnlyCancelHidesFailure
    <2> QED BY <2>1, <2>2, <2>3, <2>4, <2>5, <2>6, <2>7, <2>8 DEF FixSteps
  <1> QED BY <1>1, <1>2, <1>3, <1>4, <1>5, <1>6
         DEF IInv, Rest, TypeOK, StepTyped, HostTyped, GuestTyped, BagTyped, EndTyped

\* StepStartVM.
LEMMA StartKeeps == IInv /\ Start => IInv'
  <1> SUFFICES ASSUME IInv, Start PROVE IInv'
    OBVIOUS
  <1>1. (StepTyped /\ Exits)'
    <2>1. Halts \/ Moves
      BY Zenon DEF Start, StartVM, StartTaskWait, StartCall, StartAccepted, StartPollActive, StartPollOff,
          StartPollNoState, Halts, Moves, Busy
    <2>2. CASE Halts
      BY <2>2, HaltKeeps
    <2>3. CASE Moves
      <3>1. StepTyped'
        BY <2>3, StepPlaces DEF Start, StartVM, StartTaskWait, StartCall, StartAccepted, StartPollActive,
            StartPollOff, StartPollNoState, Moves, StepTyped, IInv, TypeOK, Rest, PCs, Where
      <3>2. Exits'
        BY <2>3, StepPlaces DEF Start, StartVM, StartTaskWait, StartCall, StartAccepted, StartPollActive,
            StartPollOff, StartPollNoState, Moves, IInv, TypeOK, Rest, Exits, Where, Remembered,
            OnlyCancelHidesFailure
      <3> QED BY <3>1, <3>2
    <2> QED BY <2>1, <2>2, <2>3
  <1>2. HostTyped'
    BY DEF Start, StartVM, StartTaskWait, StartCall, StartAccepted, StartPollActive, StartPollOff,
        StartPollNoState, HostTyped, IInv, TypeOK
  <1>3. GuestTyped'
    BY DEF Start, StartVM, StartTaskWait, StartCall, StartAccepted, StartPollActive, StartPollOff,
        StartPollNoState, GuestTyped, IInv, TypeOK
  <1>4. BagTyped'
    BY DEF Start, StartVM, StartTaskWait, StartCall, StartAccepted, StartPollActive, StartPollOff,
        StartPollNoState, BagTyped, IInv, TypeOK
  <1>5. EndTyped'
    BY DEF Start, StartVM, StartTaskWait, StartCall, StartAccepted, StartPollActive, StartPollOff,
        StartPollNoState, EndTyped, IInv, TypeOK
  <1>6. (Where /\ Remembered /\ OneVM /\ Guest /\ Nic /\ Sessions)'
    <2>1. CASE StartVM
      BY <2>1, StepPlaces DEF StartVM, IInv, TypeOK, Rest, Where, Remembered, OneVM, Exits, Guest, Nic,
          Sessions, SessionClosed, OnlyCancelHidesFailure
    <2>2. CASE StartTaskWait
      BY <2>2, StepPlaces DEF StartTaskWait, IInv, TypeOK, Rest, Where, Remembered, OneVM, Exits, Guest,
          Nic, Sessions, SessionClosed, OnlyCancelHidesFailure
    <2>3. CASE StartCall
      BY <2>3, StepPlaces DEF StartCall, StartAccepted, IInv, TypeOK, Rest, Where, Remembered, OneVM, Exits,
          Guest, Nic, Sessions, SessionClosed, OnlyCancelHidesFailure
    <2>4. CASE StartPollActive
      BY <2>4, StepPlaces DEF StartPollActive, IInv, TypeOK, Rest, Where, Remembered, OneVM, Exits, Guest,
          Nic, Sessions, SessionClosed, OnlyCancelHidesFailure
    <2>5. CASE StartPollOff
      BY <2>5, CountingPolls
    <2>6. CASE StartPollNoState
      BY <2>6, CountingPolls
    <2> QED BY <2>1, <2>2, <2>3, <2>4, <2>5, <2>6 DEF Start
  <1> QED BY <1>1, <1>2, <1>3, <1>4, <1>5, <1>6
         DEF IInv, Rest, TypeOK, StepTyped, HostTyped, GuestTyped, BagTyped, EndTyped

\* The deadlines.
LEMMA GivesUpKeeps == IInv /\ GivesUp => IInv'
  <1> SUFFICES ASSUME IInv, GivesUp PROVE IInv'
    OBVIOUS
  <1>1. (StepTyped /\ Exits)'
    <2>1. Halts \/ Moves
      BY Zenon DEF GivesUp, WaitGivesUp, StartGivesUp, DiscoverGivesUp, ShutdownForces, StopAccepted, Halts,
          Moves, Busy
    <2>2. CASE Halts
      BY <2>2, HaltKeeps
    <2>3. CASE Moves
      <3>1. StepTyped'
        BY <2>3, StepPlaces DEF GivesUp, WaitGivesUp, StartGivesUp, DiscoverGivesUp, ShutdownForces,
            StopAccepted, Moves, StepTyped, IInv, TypeOK, Rest, PCs, Where
      <3>2. Exits'
        BY <2>3, StepPlaces DEF GivesUp, WaitGivesUp, StartGivesUp, DiscoverGivesUp, ShutdownForces,
            StopAccepted, Moves, IInv, TypeOK, Rest, Exits, Where, Remembered, OnlyCancelHidesFailure
      <3> QED BY <3>1, <3>2
    <2> QED BY <2>1, <2>2, <2>3
  <1>2. HostTyped'
    BY DEF GivesUp, WaitGivesUp, StartGivesUp, DiscoverGivesUp, ShutdownForces, StopAccepted, HostTyped,
        IInv, TypeOK
  <1>3. GuestTyped'
    BY DEF GivesUp, WaitGivesUp, StartGivesUp, DiscoverGivesUp, ShutdownForces, StopAccepted, GuestTyped,
        IInv, TypeOK
  <1>4. BagTyped'
    BY DEF GivesUp, WaitGivesUp, StartGivesUp, DiscoverGivesUp, ShutdownForces, StopAccepted, BagTyped,
        IInv, TypeOK
  <1>5. EndTyped'
    BY DEF GivesUp, WaitGivesUp, StartGivesUp, DiscoverGivesUp, ShutdownForces, StopAccepted, EndTyped,
        IInv, TypeOK
  <1>6. (Where /\ Remembered /\ OneVM /\ Guest /\ Nic /\ Sessions)'
    <2>1. CASE WaitGivesUp
      BY <2>1, StepPlaces DEF WaitGivesUp, IInv, TypeOK, Rest, Where, Remembered, OneVM, Exits, Guest, Nic,
          Sessions, SessionClosed, OnlyCancelHidesFailure
    <2>2. CASE StartGivesUp
      BY <2>2, StepPlaces DEF StartGivesUp, IInv, TypeOK, Rest, Where, Remembered, OneVM, Exits, Guest, Nic,
          Sessions, SessionClosed, OnlyCancelHidesFailure
    <2>3. CASE DiscoverGivesUp
      BY <2>3, StepPlaces DEF DiscoverGivesUp, IInv, TypeOK, Rest, Where, Remembered, OneVM, Exits, Guest,
          Nic, Sessions, SessionClosed, OnlyCancelHidesFailure
    <2>4. CASE ShutdownForces
      BY <2>4, StepPlaces DEF ShutdownForces, StopAccepted, IInv, TypeOK, Rest, Where, Remembered, OneVM,
          Exits, Guest, Nic, Sessions, SessionClosed, OnlyCancelHidesFailure
    <2> QED BY <2>1, <2>2, <2>3, <2>4 DEF GivesUp
  <1> QED BY <1>1, <1>2, <1>3, <1>4, <1>5, <1>6
         DEF IInv, Rest, TypeOK, StepTyped, HostTyped, GuestTyped, BagTyped, EndTyped

\* From the boot wait to StepDeleteVM.
LEMMA LastStepsKeeps == IInv /\ LastSteps => IInv'
  <1> SUFFICES ASSUME IInv, LastSteps PROVE IInv'
    OBVIOUS
  <1>1. (StepTyped /\ Exits)'
    <2>1. Halts \/ Moves
      BY Zenon DEF LastSteps, BootWait, DiscoverIP, FindLease, OtherStep, Shutdown, ShutdownStop,
          StopAccepted, ShutdownPoll, DeleteStep, DeleteVM, ServerDeletes, DeleteFails, Halts, Moves, Busy
    <2>2. CASE Halts
      BY <2>2, HaltKeeps
    <2>3. CASE Moves
      <3>1. StepTyped'
        BY <2>3, StepPlaces DEF LastSteps, BootWait, DiscoverIP, FindLease, OtherStep, Shutdown,
            ShutdownStop, StopAccepted, ShutdownPoll, DeleteStep, DeleteVM, ServerDeletes, DeleteFails, Moves,
            StepTyped, IInv, TypeOK, Rest, PCs, Where
      <3>2. Exits'
        BY <2>3, StepPlaces DEF LastSteps, BootWait, DiscoverIP, FindLease, OtherStep, Shutdown,
            ShutdownStop, StopAccepted, ShutdownPoll, DeleteStep, DeleteVM, ServerDeletes, DeleteFails, Moves,
            IInv, TypeOK, Rest, Exits, Where, Remembered, OnlyCancelHidesFailure
      <3> QED BY <3>1, <3>2
    <2> QED BY <2>1, <2>2, <2>3
  <1>2. HostTyped'
    <2>1. CASE DeleteVM
      <3>1. bagRid \in RIDs
        BY <2>1 DEF DeleteVM, IInv, TypeOK, Rest, Where, Remembered
      <3> QED BY <2>1, <3>1, DeletesTyped DEF DeleteVM, DeleteFails, HostTyped, IInv, TypeOK
    <2>2. CASE BootWait \/ DiscoverIP \/ FindLease \/ OtherStep \/ Shutdown \/ ShutdownStop \/ ShutdownPoll \/ DeleteStep
      BY <2>2 DEF BootWait, DiscoverIP, FindLease, OtherStep, Shutdown, ShutdownStop, StopAccepted,
          ShutdownPoll, DeleteStep, HostTyped, IInv, TypeOK
    <2> QED BY <2>1, <2>2 DEF LastSteps
  <1>3. GuestTyped'
    BY DEF LastSteps, BootWait, DiscoverIP, FindLease, OtherStep, Shutdown, ShutdownStop, StopAccepted,
        ShutdownPoll, DeleteStep, DeleteVM, ServerDeletes, DeleteFails, GuestTyped, IInv, TypeOK
  <1>4. BagTyped'
    BY DEF LastSteps, BootWait, DiscoverIP, FindLease, OtherStep, Shutdown, ShutdownStop, StopAccepted,
        ShutdownPoll, DeleteStep, DeleteVM, ServerDeletes, DeleteFails, BagTyped, IInv, TypeOK
  <1>5. EndTyped'
    <2>1. CASE DeleteVM
      BY <2>1 DEF DeleteVM, EndTyped, IInv, TypeOK
    <2>2. CASE BootWait \/ DiscoverIP \/ FindLease \/ OtherStep \/ Shutdown \/ ShutdownStop \/ ShutdownPoll \/ DeleteStep
      BY <2>2 DEF BootWait, DiscoverIP, FindLease, OtherStep, Shutdown, ShutdownStop, StopAccepted,
          ShutdownPoll, DeleteStep, EndTyped, IInv, TypeOK
    <2> QED BY <2>1, <2>2 DEF LastSteps
  <1>6. (Where /\ Remembered /\ OneVM /\ Guest /\ Nic /\ Sessions)'
    <2>1. CASE BootWait
      BY <2>1, StepPlaces DEF BootWait, IInv, TypeOK, Rest, Where, Remembered, OneVM, Exits, Guest, Nic,
          Sessions, SessionClosed, OnlyCancelHidesFailure
    <2>2. CASE DiscoverIP
      BY <2>2, StepPlaces DEF DiscoverIP, IInv, TypeOK, Rest, Where, Remembered, OneVM, Exits, Guest, Nic,
          Sessions, SessionClosed, OnlyCancelHidesFailure
    <2>3. CASE FindLease
      BY <2>3, StepPlaces DEF FindLease, IInv, TypeOK, Rest, Where, Remembered, OneVM, Exits, Guest, Nic,
          Sessions, SessionClosed, OnlyCancelHidesFailure
    <2>4. CASE OtherStep
      BY <2>4, StepPlaces DEF OtherStep, IInv, TypeOK, Rest, Where, Remembered, OneVM, Exits, Guest, Nic,
          Sessions, SessionClosed, OnlyCancelHidesFailure
    <2>5. CASE Shutdown
      BY <2>5, StepPlaces DEF Shutdown, IInv, TypeOK, Rest, Where, Remembered, OneVM, Exits, Guest, Nic,
          Sessions, SessionClosed, OnlyCancelHidesFailure
    <2>6. CASE ShutdownStop
      BY <2>6, StepPlaces DEF ShutdownStop, StopAccepted, IInv, TypeOK, Rest, Where, Remembered, OneVM,
          Exits, Guest, Nic, Sessions, SessionClosed, OnlyCancelHidesFailure
    <2>7. CASE ShutdownPoll
      BY <2>7, StepPlaces DEF ShutdownPoll, IInv, TypeOK, Rest, Where, Remembered, OneVM, Exits, Guest, Nic,
          Sessions, SessionClosed, OnlyCancelHidesFailure
    <2>8. CASE DeleteStep
      BY <2>8, StepPlaces DEF DeleteStep, IInv, TypeOK, Rest, Where, Remembered, OneVM, Exits, Guest, Nic,
          Sessions, SessionClosed, OnlyCancelHidesFailure
    <2>9. CASE DeleteVM
      BY <2>9, StepPlaces DEF DeleteVM, ServerDeletes, DeleteFails, IInv, TypeOK, Rest, Where, Remembered,
          OneVM, Exits, Guest, Nic, Sessions, SessionClosed, OnlyCancelHidesFailure
    <2> QED BY <2>1, <2>2, <2>3, <2>4, <2>5, <2>6, <2>7, <2>8, <2>9 DEF LastSteps
  <1> QED BY <1>1, <1>2, <1>3, <1>4, <1>5, <1>6
         DEF IInv, Rest, TypeOK, StepTyped, HostTyped, GuestTyped, BagTyped, EndTyped

\* The clean-ups.
LEMMA CleanUpKeeps == IInv /\ CleanUp => IInv'
  <1> SUFFICES ASSUME IInv, CleanUp PROVE IInv'
    OBVIOUS
  <1>1. (StepTyped /\ Exits)'
    <2>1. StepTyped'
      <3>1. CASE CleanStart
        BY <3>1 DEF CleanStart, StopAccepted, StepTyped, IInv, TypeOK, Rest, PCs, Where
      <3>2. CASE CleanPoll
        BY <3>2 DEF CleanPoll, StepTyped, IInv, TypeOK, Rest, PCs, Where
      <3>3. CASE CleanCreate
        BY <3>3 DEF CleanCreate, CleanCreateKeeps, ServerDeletes, DeleteFails, StepTyped, IInv, TypeOK,
            Rest, PCs, Where
      <3> QED BY <3>1, <3>2, <3>3 DEF CleanUp
    <2>2. Exits'
      BY DEF CleanUp, CleanStart, StopAccepted, CleanPoll, CleanCreate, CleanCreateKeeps, ServerDeletes,
          DeleteFails, IInv, TypeOK, Rest, Exits, Where, Remembered, OnlyCancelHidesFailure
    <2> QED BY <2>1, <2>2
  <1>2. HostTyped'
    <2>1. CASE CleanCreate
      <3>1. CASE CleanCreateKeeps
        BY <2>1, <3>1 DEF CleanCreate, HostTyped, IInv, TypeOK
      <3>2. CASE ~CleanCreateKeeps
        <4>1. bagRid \in RIDs
          BY <3>2 DEF CleanCreateKeeps, IInv, TypeOK
        <4> QED BY <2>1, <3>2, <4>1, DeletesTyped DEF CleanCreate, DeleteFails, HostTyped, IInv, TypeOK
      <3> QED BY <3>1, <3>2
    <2>2. CASE CleanStart \/ CleanPoll
      BY <2>2 DEF CleanStart, StopAccepted, CleanPoll, HostTyped, IInv, TypeOK
    <2> QED BY <2>1, <2>2 DEF CleanUp
  <1>3. GuestTyped'
    BY DEF CleanUp, CleanStart, StopAccepted, CleanPoll, CleanCreate, CleanCreateKeeps, ServerDeletes,
        DeleteFails, GuestTyped, IInv, TypeOK
  <1>4. BagTyped'
    BY DEF CleanUp, CleanStart, StopAccepted, CleanPoll, CleanCreate, CleanCreateKeeps, ServerDeletes,
        DeleteFails, BagTyped, IInv, TypeOK
  <1>5. EndTyped'
    <2>1. CASE CleanCreate
      BY <2>1 DEF CleanCreate, EndTyped, IInv, TypeOK
    <2>2. CASE CleanStart \/ CleanPoll
      BY <2>2 DEF CleanStart, StopAccepted, CleanPoll, EndTyped, IInv, TypeOK
    <2> QED BY <2>1, <2>2 DEF CleanUp
  <1>6. (Where /\ Remembered /\ OneVM /\ Guest /\ Nic /\ Sessions)'
    <2>1. CASE CleanStart
      BY <2>1, StepPlaces DEF CleanStart, StopAccepted, IInv, TypeOK, Rest, Where, Remembered, OneVM, Exits,
          Guest, Nic, Sessions, SessionClosed, OnlyCancelHidesFailure
    <2>2. CASE CleanPoll
      BY <2>2, StepPlaces DEF CleanPoll, IInv, TypeOK, Rest, Where, Remembered, OneVM, Exits, Guest, Nic,
          Sessions, SessionClosed, OnlyCancelHidesFailure
    <2>3. CASE CleanCreate
      BY <2>3, StepPlaces DEF CleanCreate, CleanCreateKeeps, ServerDeletes, DeleteFails, IInv, TypeOK, Rest,
          Where, Remembered, OneVM, Exits, Guest, Nic, Sessions, SessionClosed, OnlyCancelHidesFailure
    <2> QED BY <2>1, <2>2, <2>3 DEF CleanUp
  <1> QED BY <1>1, <1>2, <1>3, <1>4, <1>5, <1>6
         DEF IInv, Rest, TypeOK, StepTyped, HostTyped, GuestTyped, BagTyped, EndTyped

\* Everybody else.
LEMMA HostMovesKeeps == IInv /\ HostMoves => IInv'
  <1> SUFFICES ASSUME IInv, HostMoves PROVE IInv'
    OBVIOUS
  <1>1. (StepTyped /\ Exits)'
    <2>1. StepTyped'
      <3>1. CASE TaskRuns
        BY <3>1 DEF TaskRuns, StepTyped, IInv, TypeOK, Rest, PCs, Where
      <3>2. CASE GuestRuns
        BY <3>2 DEF GuestRuns, StepTyped, IInv, TypeOK, Rest, PCs, Where
      <3>3. CASE CloneRuns
        BY <3>3 DEF CloneRuns, StepTyped, IInv, TypeOK, Rest, PCs, Where
      <3>4. CASE ApiChanges
        BY <3>4 DEF ApiChanges, StepTyped, IInv, TypeOK, Rest, PCs, Where
      <3>5. CASE WatcherCancels
        BY <3>5 DEF WatcherCancels, StepTyped, IInv, TypeOK, Rest, PCs, Where
      <3>6. CASE Cancel
        BY <3>6 DEF Cancel, StepTyped, IInv, TypeOK, Rest, PCs, Where
      <3>7. CASE \E r \in RIDs : OtherVM(r)
        BY <3>7 DEF OtherVM, StepTyped, IInv, TypeOK, Rest, PCs, Where
      <3> QED BY <3>1, <3>2, <3>3, <3>4, <3>5, <3>6, <3>7 DEF HostMoves
    <2>2. Exits'
      BY DEF HostMoves, TaskRuns, GuestRuns, CloneRuns, ApiChanges, WatcherCancels, Cancel, OtherVM, IInv,
          TypeOK, Rest, Exits, Where, Remembered, OnlyCancelHidesFailure
    <2> QED BY <2>1, <2>2
  <1>2. HostTyped'
    BY DEF HostMoves, TaskRuns, GuestRuns, CloneRuns, ApiChanges, WatcherCancels, Cancel, OtherVM,
        HostTyped, IInv, TypeOK
  <1>3. GuestTyped'
    BY DEF HostMoves, TaskRuns, GuestRuns, CloneRuns, ApiChanges, WatcherCancels, Cancel, OtherVM,
        GuestTyped, IInv, TypeOK
  <1>4. BagTyped'
    BY DEF HostMoves, TaskRuns, GuestRuns, CloneRuns, ApiChanges, WatcherCancels, Cancel, OtherVM, BagTyped,
        IInv, TypeOK
  <1>5. EndTyped'
    BY DEF HostMoves, TaskRuns, GuestRuns, CloneRuns, ApiChanges, WatcherCancels, Cancel, OtherVM, EndTyped,
        IInv, TypeOK
  <1>6. (Where /\ Remembered /\ OneVM /\ Guest /\ Nic /\ Sessions)'
    <2>1. CASE TaskRuns
      BY <2>1, StepPlaces DEF TaskRuns, IInv, TypeOK, Rest, Where, Remembered, OneVM, Exits, Guest, Nic,
          Sessions, SessionClosed, OnlyCancelHidesFailure
    <2>2. CASE GuestRuns
      BY <2>2, StepPlaces DEF GuestRuns, IInv, TypeOK, Rest, Where, Remembered, OneVM, Exits, Guest, Nic,
          Sessions, SessionClosed, OnlyCancelHidesFailure
    <2>3. CASE CloneRuns
      BY <2>3, StepPlaces DEF CloneRuns, IInv, TypeOK, Rest, Where, Remembered, OneVM, Exits, Guest, Nic,
          Sessions, SessionClosed, OnlyCancelHidesFailure
    <2>4. CASE ApiChanges
      BY <2>4, StepPlaces DEF ApiChanges, IInv, TypeOK, Rest, Where, Remembered, OneVM, Exits, Guest, Nic,
          Sessions, SessionClosed, OnlyCancelHidesFailure
    <2>5. CASE WatcherCancels
      BY <2>5, StepPlaces DEF WatcherCancels, IInv, TypeOK, Rest, Where, Remembered, OneVM, Exits, Guest,
          Nic, Sessions, SessionClosed, OnlyCancelHidesFailure
    <2>6. CASE Cancel
      BY <2>6, StepPlaces DEF Cancel, IInv, TypeOK, Rest, Where, Remembered, OneVM, Exits, Guest, Nic, Sessions, SessionClosed, OnlyCancelHidesFailure
    <2>7. CASE \E r \in RIDs : OtherVM(r)
      BY <2>7, StepPlaces DEF OtherVM, IInv, TypeOK, Rest, Where, Remembered, OneVM, Exits, Guest, Nic,
          Sessions, SessionClosed, OnlyCancelHidesFailure
    <2> QED BY <2>1, <2>2, <2>3, <2>4, <2>5, <2>6, <2>7 DEF HostMoves
  <1> QED BY <1>1, <1>2, <1>3, <1>4, <1>5, <1>6
         DEF IInv, Rest, TypeOK, StepTyped, HostTyped, GuestTyped, BagTyped, EndTyped

LEMMA StutterKeeps == IInv /\ UNCHANGED vars => IInv'
  <1> SUFFICES ASSUME IInv, UNCHANGED vars PROVE IInv'
    OBVIOUS
  <1>1. TypeOK'
    BY DEF vars, IInv, TypeOK
  <1>2. Rest'
    BY DEF vars, IInv, Rest, Where, Remembered, OneVM, Exits, Guest, Nic, Sessions, SessionClosed,
           OnlyCancelHidesFailure
  <1> QED BY <1>1, <1>2 DEF IInv

-----------------------------------------------------------------------------

\* Every reachable state of the build satisfies the inductive invariant.
THEOREM Inductive == Spec => []IInv
  <1>1. IInv /\ [Next]_vars => IInv'
    BY RunnerKeeps, CreateKeeps, FixStepsKeeps, StartKeeps, GivesUpKeeps, LastStepsKeeps, CleanUpKeeps,
       HostMovesKeeps, StutterKeeps DEF Next, Build, HostMoves
  <1> QED BY InitInv, <1>1, PTL DEF Spec

\* Every reachable state is well typed: the two counters of StepStartVM stay below
\* their thresholds.
THEOREM TypeCorrect == Spec => []TypeOK
  <1>1. IInv => TypeOK
    BY DEF IInv
  <1> QED BY Inductive, <1>1, PTL

\* A VM the build knows of is deleted when the build failed, and when keep_registered
\* is off, unless Sylve refused: whatever fails, and on any network.
THEOREM NoKnownLeakThm == Spec => []NoKnownLeak
  <1>1. IInv => NoKnownLeak
    BY DEF IInv, TypeOK, Rest, Where, Exits, NoKnownLeak
  <1> QED BY Inductive, <1>1, PTL

\* A VM that is kept is not left running, unless the clean-up could not stop it.
THEOREM KeptVmStoppedThm == Spec => []KeptVmStopped
  <1>1. IInv => KeptVmStopped
    BY DEF IInv, TypeOK, Rest, Exits, Guest, KeptVmStopped
  <1> QED BY Inductive, <1>1, PTL

\* Past StepStartVM the guest has booted with the NIC that StepFixNIC attached.
THEOREM BootedWithNicThm == Spec => []BootedWithNic
  <1>1. IInv => BootedWithNic
    BY DEF IInv, Rest, Nic, BootedWithNic
  <1> QED BY Inductive, <1>1, PTL

\* Whatever way a build ends, it has tried to log out of the session it opened.
THEOREM SessionClosedThm == Spec => []SessionClosed
  <1>1. IInv => SessionClosed
    BY DEF IInv, Rest, Sessions
  <1> QED BY Inductive, <1>1, PTL

\* A build that did not run all its steps and reports an artifact was cancelled.
THEOREM OnlyCancelHidesFailureThm == Spec => []OnlyCancelHidesFailure
  <1>1. IInv => OnlyCancelHidesFailure
    BY DEF IInv, Rest, Exits
  <1> QED BY Inductive, <1>1, PTL

-----------------------------------------------------------------------------
(* The build's own VM *)

\* keep_registered leaves the VM the artifact names.
THEOREM ArtifactVmKeptThm ==
  ASSUME ~CloneFails
  PROVE  Spec => []ArtifactVmKept
  <1>1. IInv => ArtifactVmKept
    <2> SUFFICES ASSUME IInv, pc = "end", stage = DoneStage, cfg.keep, ~ctxDone PROVE artRid \in Ours
      BY DEF ArtifactVmKept
    <2>1. ~cancelled /\ ~halted /\ artRid = bagRid
      BY DEF IInv, TypeOK, Rest, Exits
    <2>2. bagRid = rid /\ rid \in RIDs
      BY <2>1 DEF IInv, TypeOK, Rest, Remembered
    <2>3. ~past
      BY <2>1 DEF IInv, TypeOK, Rest, OneVM
    <2>4. vm[rid] = "ours"
      BY <2>3 DEF IInv, TypeOK, Rest, OneVM
    <2> QED BY <2>1, <2>2, <2>4 DEF Ours
  <1> QED BY Inductive, <1>1, PTL

\* keep_registered leaves that VM, and leaves it stopped.
THEOREM VmKeptThm ==
  ASSUME ~CloneFails
  PROVE  Spec => []VmKept
  <1>1. ArtifactVmKept /\ KeptVmStopped => VmKept
    BY DEF VmKept
  <1> QED BY <1>1, ArtifactVmKeptThm, KeptVmStoppedThm, PTL

\* A slot in the bag that is not the build's own lost its VM to a failed clone, or to a
\* delete whose answer was lost.
LEMMA OwnGone ==
  ASSUME IInv, bagRid # NoRID, vm[bagRid] # "ours"
  PROVE  (CloneFails /\ clone = "failed") \/ (Lossy /\ past /\ refused)
  <1>1. stage > 1 /\ bagRid = rid
    BY DEF IInv, TypeOK, Rest, Remembered
  <1>2. clone \in {"none", "failed"}
    BY <1>1 DEF IInv, TypeOK, Rest, OneVM
  <1>3. clone = "failed" => CloneFails
    BY DEF IInv, TypeOK, Rest, OneVM
  <1>4. clone = "none" => Lossy /\ past /\ refused
    BY <1>1 DEF IInv, TypeOK, Rest, OneVM
  <1> QED BY <1>2, <1>3, <1>4

\* The RID in the bag is never that of somebody else's VM, nor of none, while the
\* steps and clean-ups use it.
THEOREM BagRidIsOursThm ==
  ASSUME ~CloneFails, ~Lossy
  PROVE  Spec => []BagRidIsOurs
  <1>1. IInv => BagRidIsOurs
    BY OwnGone DEF BagRidIsOurs
  <1> QED BY Inductive, <1>1, PTL

\* Only the clone and the two deletions write to the slots.
LEMMA SlotWriters ==
  ASSUME Build
  PROVE  UNCHANGED vm \/ CreateVMFromTemplate \/ DeleteVM \/ CleanCreate
  BY DEF Build, Runner, Create, FixSteps, Start, GivesUp, LastSteps, CleanUp, EnsureAuth, RunnerNext,
    RunnerCancelled, RunnerDone, Finish, Logout, FindRID, WaitGetVM, WaitTask, FixNIC, BootstrapStart,
    BootstrapPoll, BootstrapStop, StopPoll, Detach, Attach, Refetch, StartVM, StartTaskWait, StartCall,
    StartPollActive, StartPollOff, StartPollNoState, WaitGivesUp, StartGivesUp, DiscoverGivesUp,
    ShutdownForces, BootWait, DiscoverIP, FindLease, OtherStep, Shutdown, ShutdownStop, ShutdownPoll,
    DeleteStep, CleanStart, CleanPoll

\* A build deletes somebody else's VM only after its own has gone from the slot, with a
\* clone that Sylve gave up or a delete that was answered with an error, whatever the
\* host, the other users and the network do.
THEOREM ForeignOnlyIfGoneThm == Spec => ForeignOnlyIfGone
  <1>1. ASSUME IInv, Build, NEW r \in RIDs, vm[r] = "theirs", vm'[r] # "theirs"
        PROVE  r = bagRid /\ ((CloneFails /\ clone = "failed") \/ (Lossy /\ past /\ refused))
    <2>1. ~CreateVMFromTemplate
      BY <1>1 DEF CreateVMFromTemplate, CanClone, ServerClones, IInv, TypeOK
    <2>2. CASE DeleteVM
      <3>1. stage > 1
        BY <1>1, <2>2 DEF DeleteVM, IInv, Rest, Where
      <3>2. r = bagRid
        BY <1>1, <2>2 DEF DeleteVM, ServerDeletes, DeleteFails, IInv, TypeOK
      <3> QED BY <1>1, <3>1, <3>2, OwnGone
    <2>3. CASE CleanCreate
      <3>1. bagRid # NoRID /\ r = bagRid
        BY <1>1, <2>3 DEF CleanCreate, CleanCreateKeeps, ServerDeletes, DeleteFails, IInv, TypeOK
      <3> QED BY <1>1, <3>1, OwnGone DEF IInv, Rest, Remembered
    <2> QED BY <1>1, <2>1, <2>2, <2>3, SlotWriters
  <1>2. IInv /\ [Next]_vars
          => [\A r \in RIDs : Build /\ vm[r] = "theirs" /\ vm'[r] # "theirs"
                => r = bagRid /\ ((CloneFails /\ clone = "failed") \/ (Lossy /\ past /\ refused))]_vars
    BY <1>1
  <1> QED BY <1>2, Inductive, PTL DEF Spec, ForeignOnlyIfGone

\* A build on a host that keeps an accepted clone, and a network that loses nothing,
\* deletes no VM but its own, whatever RIDs it finds reused.
THEOREM ForeignUntouchedThm ==
  ASSUME ~CloneFails, ~Lossy
  PROVE  Spec => ForeignUntouched
  <1>1. [\A r \in RIDs : Build /\ vm[r] = "theirs" /\ vm'[r] # "theirs"
           => r = bagRid /\ ((CloneFails /\ clone = "failed") \/ (Lossy /\ past /\ refused))]_vars
          => [Build => \A r \in RIDs : vm[r] = "theirs" => vm'[r] = "theirs"]_vars
    OBVIOUS
  <1> QED BY <1>1, ForeignOnlyIfGoneThm, PTL DEF ForeignOnlyIfGone, ForeignUntouched

-----------------------------------------------------------------------------

\* A build owes the host what VmDisposition says, whatever fails.
THEOREM DispositionRefinement == Spec => DispositionSpec
  <1>1. Init => Disposition!Init
    BY DEF Init, Disposition!Init
  <1>2. ASSUME IInv, [Next]_vars PROVE [Disposition!Next]_Disposition!vars
    <2> USE <1>2 DEF Disposition!Next, Disposition!vars
    <2>1. CASE UNCHANGED <<clone, past, outcome>>
      BY <2>1
    <2>2. CASE UNCHANGED <<clone, past>> /\ outcome = "running" /\ outcome' \in {"artifact", "error"}
      BY <2>2 DEF Disposition!Report
    <2>3. ASSUME pc = "clone", CanClone, ServerClones, UNCHANGED outcome
          PROVE  [Disposition!Next]_Disposition!vars
      <3>1. clone = "none" /\ ~past /\ outcome = "running"
        BY <2>3 DEF IInv, TypeOK, Rest, Where, OneVM
      <3> QED BY <2>3, <3>1 DEF ServerClones, Disposition!Create
    <2>4. ASSUME NEW r \in RIDs, ServerDeletes(r), outcome = "running", UNCHANGED outcome
          PROVE  [Disposition!Next]_Disposition!vars
      <3>1. CASE vm[r] = "ours"
        <4>1. ~past /\ clone # "none" /\ past'
          BY <2>4, <3>1 DEF ServerDeletes, IInv, TypeOK, Rest, OneVM
        <4> QED BY <2>4, <4>1 DEF Disposition!Delete
      <3>2. CASE vm[r] # "ours"
        BY <2>1, <2>4, <3>2 DEF ServerDeletes
      <3> QED BY <3>1, <3>2
    <2>5. CASE CloneRuns
      <3>1. UNCHANGED <<past, outcome>> /\ clone # "none" /\ clone' # "none"
        BY <2>5 DEF CloneRuns
      <3> QED BY <3>1
    <2>6. CASE DeleteVM
      <3>1. bagRid \in RIDs /\ outcome = "running"
        BY <2>6 DEF DeleteVM, IInv, TypeOK, Rest, Where, Remembered
      <3> QED BY <2>1, <2>4, <2>6, <3>1 DEF DeleteVM, DeleteFails
    <2>7. CASE CleanCreate
      <3>1. CleanCreateKeeps \/ bagRid \in RIDs
        BY DEF CleanCreateKeeps, IInv, TypeOK
      <3>2. outcome = "running"
        BY <2>7 DEF CleanCreate, IInv, TypeOK, Rest, Where
      <3> QED BY <2>1, <2>4, <2>7, <3>1, <3>2 DEF CleanCreate, DeleteFails
    <2>8. CASE CreateVMFromTemplate
      BY <2>1, <2>3, <2>8 DEF CreateVMFromTemplate
    <2>9. CASE EnsureAuth \/ Finish
      BY <2>1, <2>2, <2>9 DEF EnsureAuth, Finish, IInv, TypeOK, Rest, Where
    <2>10. CASE Build /\ ~DeleteVM /\ ~CleanCreate /\ ~CreateVMFromTemplate /\ ~EnsureAuth /\ ~Finish
      <3>1. UNCHANGED <<clone, past, outcome>>
        BY <2>10 DEF Build, Runner, Create, FixSteps, Start, GivesUp, LastSteps, CleanUp, RunnerNext,
          RunnerCancelled, RunnerDone, Logout, FindRID, WaitGetVM, WaitTask, FixNIC, BootstrapStart,
          BootstrapPoll, BootstrapStop, StopPoll, Detach, Attach, Refetch, StartVM, StartTaskWait, StartCall,
          StartPollActive, StartPollOff, StartPollNoState, WaitGivesUp, StartGivesUp, DiscoverGivesUp,
          ShutdownForces, BootWait, DiscoverIP, FindLease, OtherStep, Shutdown, ShutdownStop, ShutdownPoll,
          DeleteStep, CleanStart, CleanPoll
      <3> QED BY <2>1, <3>1
    <2>11. CASE TaskRuns \/ GuestRuns \/ ApiChanges \/ WatcherCancels \/ Cancel \/ (\E r \in RIDs : OtherVM(r))
                \/ UNCHANGED vars
      BY <2>1, <2>11 DEF TaskRuns, GuestRuns, ApiChanges, WatcherCancels, Cancel, OtherVM, vars
    <2> QED BY <2>5, <2>6, <2>7, <2>8, <2>9, <2>10, <2>11 DEF Next
  <1> QED BY <1>1, <1>2, Inductive, PTL DEF Spec, DispositionSpec, Disposition!Spec
=============================================================================
