------------------------- MODULE WinRMTunnelProofs -------------------------
(***************************************************************************)
(* Proofs about WinRMTunnel for any set of connections, any surroundings   *)
(* and a ~/.ssh/config of any length.                                      *)
(***************************************************************************)
EXTENDS WinRMTunnel, BastionAuthProofs

\* The parts of the state: the step's own, and those of the connections.
StepTypes ==
  /\ pc \in {"run", "dial", "listen", "active"} \cup CleanUp
  /\ cfg \in [winrm : BOOLEAN, host : BOOLEAN, ip : BOOLEAN, url : {"bad", "local", "remote"}]
  /\ env \in Envs \cup {NoEnv} /\ (cred = NoCred \/ cred.agent = (cred.key = ""))
LinkTypes ==
  /\ listener \in {"none", "open", "closed"} /\ ssh \in {"none", "open", "dead", "closed"}
  /\ accept \in {"none", "running", "over"} /\ target \in {"guest", "tunnel"}
ConnTypes ==
  /\ conn \in [Conns -> {"none", "queued", "dialling", "copying", "over", "refused"}]
  /\ cli \in [Conns -> {"none", "open", "closed"}]
  /\ guest \in [Conns -> BOOLEAN] /\ up \in [Conns -> BOOLEAN] /\ down \in [Conns -> BOOLEAN]

\* The listener and its accept loop exist from Listen on, over an SSH connection; both
\* are given up by Cleanup.
StepInv ==
  /\ pc \in {"run", "dial"} => ssh = "none"
  /\ pc \in {"dial", "listen"} => Tunnels
  /\ pc = "listen" => ssh \in {"open", "dead"}
  /\ pc = "over" => ssh # "open"
  /\ ssh = "none" => listener = "none"
  /\ ssh = "open" => Tunnels
  /\ listener = "open" => pc \in {"active", "closelistener"}
  /\ listener = "none" <=> accept = "none"
  /\ listener = "none" <=> target = "guest"
  /\ listener # "none" => pc \in {"active"} \cup CleanUp

\* What the two ends and the two copies of a connection are at each of its stages.
ConnInv == \A c \in Conns :
  /\ conn[c] # "none" => listener # "none"
  /\ conn[c] = "none" <=> cli[c] = "none"
  /\ conn[c] = "queued" => listener = "open"
  /\ conn[c] \in {"over", "refused"} => cli[c] = "closed"
  /\ conn[c] # "copying" => ~guest[c] /\ ~up[c] /\ ~down[c]
  /\ guest[c] => ssh = "open"

IInv == StepTypes /\ LinkTypes /\ ConnTypes /\ StepInv /\ ConnInv

-----------------------------------------------------------------------------
(* After Cleanup *)

\* The goroutines of a forward have a step to take.
CanMove(c) ==
  \/ conn[c] = "dialling"
  \/ up[c] /\ cli[c] = "closed"
  \/ down[c] /\ ~guest[c]
  \/ conn[c] = "copying" /\ ~up[c] /\ ~down[c]

\* The steps that a forward's goroutines may still take.
Left(c) ==
  (IF conn[c] = "dialling" THEN 4 ELSE IF conn[c] = "copying" THEN 1 ELSE 0)
    + (IF up[c] THEN 1 ELSE 0) + (IF down[c] THEN 1 ELSE 0)

Handled(c) == conn[c] \in {"dialling", "copying"}

\* After Cleanup the accept loop that is not over has found its listener closed, and a
\* forward that is not over has a step to take once its client has closed,
NotStuck ==
  pc = "over" => /\ accept = "running" => listener = "closed"
                 /\ \A c \in Conns : Handled(c) /\ cli[c] = "closed" => CanMove(c)

\* and each step of its goroutines brings its end nearer, while nothing else puts it off.
ForwardRunsDown ==
  [][pc = "over" => \A c \in Conns : Left(c)' <= Left(c) /\ (Forward(c) => Left(c)' < Left(c))]_vars

-----------------------------------------------------------------------------
(* The inductive invariant *)

LEMMA InitInv == Init => IInv
<1> SUFFICES ASSUME Init PROVE IInv
  OBVIOUS
<1>1. env \in Envs \cup {NoEnv}
  <2>1. env \in IF Tunnels THEN Envs ELSE {NoEnv}
    BY DEF Init
  <2> QED BY <2>1
<1>2. StepTypes /\ LinkTypes /\ ConnTypes
  BY <1>1 DEF Init, StepTypes, LinkTypes, ConnTypes
<1>3. StepInv /\ ConnInv
  BY DEF Init, StepInv, ConnInv, CleanUp
<1> QED BY <1>2, <1>3 DEF IInv

\* No step changes the configuration.
LEMMA TunnelsKept == cfg' = cfg => Tunnels' = Tunnels
BY DEF Tunnels, Wanted

LEMMA RunKeeps ==
  ASSUME IInv, RunSkips \/ RunHaltsWithoutIp
  PROVE  IInv'
<1>1. StepTypes /\ LinkTypes /\ ConnTypes /\ StepInv /\ ConnInv
  BY DEF IInv
<1>2. StepTypes'
  BY <1>1 DEF RunSkips, RunHaltsWithoutIp, StepTypes, CleanUp
<1>3. LinkTypes'
  BY <1>1 DEF RunSkips, RunHaltsWithoutIp, LinkTypes
<1>4. ConnTypes'
  BY <1>1 DEF RunSkips, RunHaltsWithoutIp, connVars, ConnTypes
<1>5. StepInv'
  BY <1>1, TunnelsKept
    DEF RunSkips, RunHaltsWithoutIp, connVars, StepTypes, LinkTypes, StepInv, ConnInv, CleanUp,
        Tunnels, Wanted
<1>6. ConnInv'
  BY <1>1 DEF RunSkips, RunHaltsWithoutIp, connVars, ConnTypes, LinkTypes, StepInv, ConnInv
<1> QED BY <1>2, <1>3, <1>4, <1>5, <1>6 DEF IInv

LEMMA ResolveKeeps ==
  ASSUME IInv, Resolve
  PROVE  IInv'
<1>1. StepTypes /\ LinkTypes /\ ConnTypes /\ StepInv /\ ConnInv
  BY DEF IInv
<1>2. cred'.agent = (cred'.key = "")
  <2>1. cred' = [user |-> tunnelUser(env), key |-> tunnelKey(env), agent |-> (tunnelKey(env) = "")]
    BY Zenon DEF Resolve, resolveBastionSSHParams
  <2> QED BY <2>1
<1>3. StepTypes'
  BY <1>1, <1>2 DEF Resolve, StepTypes
<1>4. LinkTypes'
  BY <1>1 DEF Resolve, LinkTypes
<1>5. ConnTypes'
  BY <1>1 DEF Resolve, connVars, ConnTypes
<1>6. StepInv'
  BY <1>1, TunnelsKept DEF Resolve, connVars, StepTypes, LinkTypes, StepInv, ConnInv, CleanUp
<1>7. ConnInv'
  BY <1>1 DEF Resolve, connVars, ConnTypes, LinkTypes, StepInv, ConnInv
<1> QED BY <1>3, <1>4, <1>5, <1>6, <1>7 DEF IInv

LEMMA DialBastionKeeps ==
  ASSUME IInv, DialBastion
  PROVE  IInv'
<1>1. StepTypes /\ LinkTypes /\ ConnTypes /\ StepInv /\ ConnInv
  BY DEF IInv
<1>2. StepTypes'
  BY <1>1 DEF DialBastion, StepTypes, CleanUp
<1>3. LinkTypes'
  BY <1>1 DEF DialBastion, LinkTypes
<1>4. ConnTypes'
  BY <1>1 DEF DialBastion, connVars, ConnTypes
<1>5. StepInv'
  BY <1>1, TunnelsKept DEF DialBastion, connVars, StepTypes, LinkTypes, StepInv, ConnInv, CleanUp
<1>6. ConnInv'
  BY <1>1 DEF DialBastion, connVars, ConnTypes, LinkTypes, StepInv, ConnInv
<1> QED BY <1>2, <1>3, <1>4, <1>5, <1>6 DEF IInv

LEMMA ListenKeeps ==
  ASSUME IInv, Listen \/ ListenFails
  PROVE  IInv'
<1>1. StepTypes /\ LinkTypes /\ ConnTypes /\ StepInv /\ ConnInv
  BY DEF IInv
<1>2. StepTypes'
  BY <1>1 DEF Listen, ListenFails, StepTypes, CleanUp
<1>3. LinkTypes'
  BY <1>1 DEF Listen, ListenFails, LinkTypes
<1>4. ConnTypes'
  BY <1>1 DEF Listen, ListenFails, connVars, ConnTypes
<1>5. StepInv'
  BY <1>1, TunnelsKept
    DEF Listen, ListenFails, connVars, StepTypes, LinkTypes, StepInv, ConnInv, CleanUp
<1>6. ConnInv'
  <2>1. listener = "none"
    BY <1>1 DEF Listen, ListenFails, StepInv, CleanUp
  <2>2. \A c \in Conns : /\ conn[c] = "none" /\ cli[c] = "none"
                          /\ ~guest[c] /\ ~up[c] /\ ~down[c]
    BY <1>1, <2>1 DEF ConnInv
  <2>3. UNCHANGED <<conn, cli, guest, up, down>>
    BY DEF Listen, ListenFails, connVars
  <2> QED BY <2>2, <2>3 DEF ConnInv
<1> QED BY <1>2, <1>3, <1>4, <1>5, <1>6 DEF IInv

LEMMA CleanUpKeeps ==
  ASSUME IInv, BuildEnds \/ CloseListener \/ CloseSsh
  PROVE  IInv'
<1>1. StepTypes /\ LinkTypes /\ ConnTypes /\ StepInv /\ ConnInv
  BY DEF IInv
<1>2. StepTypes'
  BY <1>1 DEF BuildEnds, CloseListener, CloseSsh, StepTypes, CleanUp
<1>3. LinkTypes'
  BY <1>1 DEF BuildEnds, CloseListener, CloseSsh, LinkTypes
<1>4. ConnTypes'
  BY <1>1 DEF BuildEnds, CloseListener, CloseSsh, connVars, ConnTypes
<1>5. StepInv'
  BY <1>1, TunnelsKept
    DEF BuildEnds, CloseListener, CloseSsh, connVars, StepTypes, LinkTypes, StepInv, ConnInv,
        CleanUp
<1>6. ConnInv'
  BY <1>1 DEF BuildEnds, CloseListener, CloseSsh, connVars, ConnTypes, LinkTypes, StepInv, ConnInv
<1> QED BY <1>2, <1>3, <1>4, <1>5, <1>6 DEF IInv

LEMMA AcceptKeeps ==
  ASSUME IInv, NEW c \in Conns, AcceptFails \/ AcceptErrs \/ Accept(c)
  PROVE  IInv'
<1>1. StepTypes /\ LinkTypes /\ ConnTypes /\ StepInv /\ ConnInv
  BY DEF IInv
<1>2. StepTypes'
  BY <1>1 DEF AcceptFails, AcceptErrs, Accept, SameStep, SameLinks, StepTypes, CleanUp
<1>3. LinkTypes'
  BY <1>1 DEF AcceptFails, AcceptErrs, Accept, SameStep, SameLinks, LinkTypes
<1>4. ConnTypes'
  BY <1>1 DEF AcceptFails, AcceptErrs, Accept, SameStep, SameLinks, connVars, ConnTypes
<1>5. StepInv'
  BY <1>1, TunnelsKept
    DEF AcceptFails, AcceptErrs, Accept, SameStep, SameLinks, connVars, StepTypes, LinkTypes, StepInv, ConnInv,
        CleanUp
<1>6. ConnInv'
  BY <1>1 DEF AcceptFails, AcceptErrs, Accept, SameStep, SameLinks, connVars, LinkTypes, ConnTypes, StepInv, ConnInv
<1> QED BY <1>2, <1>3, <1>4, <1>5, <1>6 DEF IInv

LEMMA DialGuestKeeps ==
  ASSUME IInv, NEW c \in Conns, DialGuest(c)
  PROVE  IInv'
<1>1. StepTypes /\ LinkTypes /\ ConnTypes /\ StepInv /\ ConnInv
  BY DEF IInv
<1>2. StepTypes'
  BY <1>1 DEF DialGuest, HangUp, SameStep, SameLinks, StepTypes, CleanUp
<1>3. LinkTypes'
  BY <1>1 DEF DialGuest, HangUp, SameStep, SameLinks, LinkTypes
<1>4. ConnTypes'
  BY <1>1 DEF DialGuest, HangUp, SameStep, SameLinks, connVars, ConnTypes
<1>5. StepInv'
  BY <1>1, TunnelsKept
    DEF DialGuest, HangUp, SameStep, SameLinks, connVars, StepTypes, LinkTypes, StepInv, ConnInv,
        CleanUp
<1>6. ConnInv'
  BY <1>1 DEF DialGuest, HangUp, SameStep, SameLinks, connVars, LinkTypes, ConnTypes, StepInv, ConnInv
<1> QED BY <1>2, <1>3, <1>4, <1>5, <1>6 DEF IInv

LEMMA CopiesKeep ==
  ASSUME IInv, NEW c \in Conns, UpEnds(c) \/ DownEnds(c) \/ WriteFails(c)
  PROVE  IInv'
<1>1. StepTypes /\ LinkTypes /\ ConnTypes /\ StepInv /\ ConnInv
  BY DEF IInv
<1>2. StepTypes'
  BY <1>1 DEF UpEnds, DownEnds, WriteFails, SameStep, SameLinks, StepTypes, CleanUp
<1>3. LinkTypes'
  BY <1>1 DEF UpEnds, DownEnds, WriteFails, SameStep, SameLinks, LinkTypes
<1>4. ConnTypes'
  BY <1>1 DEF UpEnds, DownEnds, WriteFails, SameStep, SameLinks, connVars, ConnTypes
<1>5. StepInv'
  BY <1>1, TunnelsKept
    DEF UpEnds, DownEnds, WriteFails, SameStep, SameLinks, connVars, StepTypes, LinkTypes, StepInv,
        ConnInv, CleanUp
<1>6. ConnInv'
  BY <1>1
    DEF UpEnds, DownEnds, WriteFails, SameStep, SameLinks, connVars, LinkTypes, ConnTypes, StepInv,
        ConnInv
<1> QED BY <1>2, <1>3, <1>4, <1>5, <1>6 DEF IInv

LEMMA ForwardEndsKeeps ==
  ASSUME IInv, NEW c \in Conns, ForwardEnds(c)
  PROVE  IInv'
<1>1. StepTypes /\ LinkTypes /\ ConnTypes /\ StepInv /\ ConnInv
  BY DEF IInv
<1>2. StepTypes'
  BY <1>1 DEF ForwardEnds, HangUp, SameStep, SameLinks, StepTypes, CleanUp
<1>3. LinkTypes'
  BY <1>1 DEF ForwardEnds, HangUp, SameStep, SameLinks, LinkTypes
<1>4. ConnTypes'
  BY <1>1 DEF ForwardEnds, HangUp, SameStep, SameLinks, connVars, ConnTypes
<1>5. StepInv'
  BY <1>1, TunnelsKept
    DEF ForwardEnds, HangUp, SameStep, SameLinks, connVars, StepTypes, LinkTypes, StepInv, ConnInv,
        CleanUp
<1>6. ConnInv'
  BY <1>1 DEF ForwardEnds, HangUp, SameStep, SameLinks, connVars, LinkTypes, ConnTypes, StepInv, ConnInv
<1> QED BY <1>2, <1>3, <1>4, <1>5, <1>6 DEF IInv

LEMMA ConnectKeeps ==
  ASSUME IInv, NEW c \in Conns, Connect(c)
  PROVE  IInv'
<1>1. StepTypes /\ LinkTypes /\ ConnTypes /\ StepInv /\ ConnInv
  BY DEF IInv
<1>2. StepTypes'
  BY <1>1 DEF Connect, SameStep, SameLinks, StepTypes, CleanUp
<1>3. LinkTypes'
  BY <1>1 DEF Connect, SameStep, SameLinks, LinkTypes
<1>4. ConnTypes'
  BY <1>1 DEF Connect, SameStep, SameLinks, connVars, ConnTypes
<1>5. StepInv'
  BY <1>1, TunnelsKept
    DEF Connect, SameStep, SameLinks, connVars, StepTypes, LinkTypes, StepInv, ConnInv, CleanUp
<1>6. ConnInv'
  BY <1>1 DEF Connect, SameStep, SameLinks, connVars, LinkTypes, ConnTypes, StepInv, ConnInv
<1> QED BY <1>2, <1>3, <1>4, <1>5, <1>6 DEF IInv

LEMMA WorldKeeps ==
  ASSUME IInv, NEW c \in Conns, ClientCloses(c) \/ GuestCloses(c) \/ SshDies
  PROVE  IInv'
<1>1. StepTypes /\ LinkTypes /\ ConnTypes /\ StepInv /\ ConnInv
  BY DEF IInv
<1>2. StepTypes'
  BY <1>1 DEF ClientCloses, GuestCloses, SshDies, SameStep, SameLinks, StepTypes, CleanUp
<1>3. LinkTypes'
  BY <1>1 DEF ClientCloses, GuestCloses, SshDies, SameStep, SameLinks, LinkTypes
<1>4. ConnTypes'
  BY <1>1 DEF ClientCloses, GuestCloses, SshDies, SameStep, SameLinks, connVars, ConnTypes
<1>5. StepInv'
  BY <1>1, TunnelsKept
    DEF ClientCloses, GuestCloses, SshDies, SameStep, SameLinks, connVars, StepTypes, LinkTypes,
        StepInv, ConnInv, CleanUp
<1>6. ConnInv'
  BY <1>1
    DEF ClientCloses, GuestCloses, SshDies, SameStep, SameLinks, connVars, LinkTypes, ConnTypes,
        StepInv, ConnInv
<1> QED BY <1>2, <1>3, <1>4, <1>5, <1>6 DEF IInv

\* Every reachable state satisfies the inductive invariant, for every set of connections
\* and every surrounding.
THEOREM Inductive == Spec => []IInv
<1>1. IInv /\ [Next]_vars => IInv'
  <2> SUFFICES ASSUME IInv, [Next]_vars PROVE IInv'
    OBVIOUS
  <2>1. CASE Step \/ BuildEnds
    BY <2>1, RunKeeps, ResolveKeeps, DialBastionKeeps, ListenKeeps, CleanUpKeeps DEF Step
  <2>2. CASE AcceptFails \/ AcceptErrs \/ SshDies
    <3>1. PICK c \in Conns : TRUE
      BY TunnelAssumption
    <3> QED BY <2>2, <3>1, AcceptKeeps, WorldKeeps
  <2>3. ASSUME NEW c \in Conns, Forward(c) PROVE IInv'
    BY <2>3, AcceptKeeps, DialGuestKeeps, CopiesKeep, ForwardEndsKeeps DEF Forward
  <2>4. ASSUME NEW c \in Conns, World(c) PROVE IInv'
    BY <2>4, ConnectKeeps, CopiesKeep, WorldKeeps DEF World
  <2>5. CASE UNCHANGED vars
    <3>1. StepTypes'
      BY <2>5 DEF vars, IInv, StepTypes
    <3>2. LinkTypes'
      BY <2>5 DEF vars, IInv, LinkTypes
    <3>3. ConnTypes'
      BY <2>5 DEF vars, connVars, IInv, ConnTypes
    <3>4. StepInv'
      BY <2>5, TunnelsKept DEF vars, IInv, StepInv
    <3>5. ConnInv'
      BY <2>5 DEF vars, connVars, IInv, ConnInv
    <3> QED BY <3>1, <3>2, <3>3, <3>4, <3>5 DEF IInv
  <2> QED BY <2>1, <2>2, <2>3, <2>4, <2>5 DEF Next
<1> QED BY InitInv, <1>1, PTL DEF Spec

-----------------------------------------------------------------------------

\* Every reachable state of the tunnel and its connections is well typed.
THEOREM TypeCorrect == Spec => []TypeOK
<1>1. IInv => TypeOK
  BY DEF IInv, StepTypes, LinkTypes, ConnTypes, TypeOK
<1> QED BY <1>1, Inductive, PTL

\* Whatever is explicit, whatever ~/.ssh/config holds and however long it is, the
\* credentials are resolved in the documented order, and alike for tunnel and bastion.
THEOREM BastionCredentialsThm == Spec => []BastionCredentials
<1>1. ASSUME IInv PROVE BastionCredentials
  <2>1. Readable(env)
    <3>1. CASE env \in Envs
      BY <3>1, TunnelAssumption DEF Readable, Lines
    <3>2. CASE env = NoEnv
      <4>1. env.home = FALSE /\ env.conf = <<>> /\ env.envUser = "" /\ env.envKey = ""
        BY <3>2 DEF NoEnv
      <4>2. <<>> \in Lines
        BY EmptySeq DEF Lines
      <4> QED BY <4>1, <4>2 DEF Readable, Text
    <3> QED BY <1>1, <3>1, <3>2 DEF IInv, StepTypes
  <2>2. ASSUME NEW c \in Explicit PROVE applyAutoBastion(c, env) = Documented(c, env)
    <3> DEFINE V == Text \cup {"", "hcl"}
    <3>1. c \in [user : V, password : V, key : V, agent : BOOLEAN]
      BY DEF Explicit
    <3> QED BY <2>1, <3>1, AutoBastionDocumented
  <2>3. ConsistentCredentials
    BY <2>1, TunnelAndBastionAgree DEF ConsistentCredentials
  <2> QED BY <2>2, <2>3
    DEF BastionCredentials, AutoBastionAsDocumented
<1> QED BY <1>1, Inductive, PTL

\* No connection is left behind, however many of them race with Cleanup and with each
\* other: neither the client's end, nor the channel to the guest, nor a copy.
THEOREM NoneLeftBehindThm == Spec => []NoneLeftBehind
<1>1. ASSUME IInv, NEW c \in Conns
      PROVE  /\ cli[c] = "open" => (conn[c] = "queued" /\ listener = "open") \/ conn[c] \in {"dialling", "copying"}
             /\ guest[c] => conn[c] = "copying" /\ ssh = "open" /\ pc # "over"
             /\ up[c] \/ down[c] => conn[c] = "copying"
  BY <1>1 DEF IInv, ConnTypes, StepInv, ConnInv
<1>2. IInv => NoneLeftBehind
  BY <1>1 DEF NoneLeftBehind
<1> QED BY <1>2, Inductive, PTL

\* After Cleanup no goroutine waits for ever: the accept loop sees the closed listener, and
\* a forward whose client has closed is over or has a step to take.
THEOREM NotStuckThm == Spec => []NotStuck
<1>1. IInv => NotStuck
  BY DEF IInv, LinkTypes, ConnTypes, StepInv, ConnInv, NotStuck, Handled, CanMove
<1> QED BY <1>1, Inductive, PTL

\* After Cleanup the steps of a forward bring its end nearer and nothing puts it off:
\* with NotStuck, the goroutines of each forward end after at most four steps.
THEOREM ForwardRunsDownThm == Spec => ForwardRunsDown
<1>1. ASSUME IInv, [Next]_vars
      PROVE  [pc = "over" => \A c \in Conns : Left(c)' <= Left(c) /\ (Forward(c) => Left(c)' < Left(c))]_vars
  <2> SUFFICES ASSUME pc = "over", Next, NEW c \in Conns
               PROVE  Left(c)' <= Left(c) /\ (Forward(c) => Left(c)' < Left(c))
    BY <1>1
  <2>1. ConnTypes /\ LinkTypes /\ ConnInv /\ ssh # "open" /\ listener # "open"
    BY <1>1 DEF IInv, StepInv
  <2>2. ASSUME NEW d \in Conns, Forward(d)
        PROVE  Left(c)' <= Left(c) /\ (d = c => Left(c)' < Left(c))
    BY <2>1, <2>2
    DEF Forward, Accept, DialGuest, HangUp, UpEnds, DownEnds, ForwardEnds, Left, ConnTypes, ConnInv
  <2>3. ASSUME NEW d \in Conns, World(d) PROVE Left(c)' <= Left(c)
    BY <2>1, <2>3 DEF World, Connect, ClientCloses, WriteFails, GuestCloses, Left, ConnTypes
  <2>4. ASSUME Step \/ BuildEnds \/ AcceptFails \/ AcceptErrs \/ SshDies PROVE Left(c)' <= Left(c)
    <3>1. UNCHANGED <<conn, up, down>>
      BY <2>4
    DEF Step, RunSkips, RunHaltsWithoutIp, Resolve, DialBastion, ListenFails, Listen, CloseListener,
                  CloseSsh, BuildEnds, AcceptFails, AcceptErrs, SshDies, connVars
    <3> QED BY <3>1 DEF Left
  <2>5. Left(c)' <= Left(c)
    BY <2>2, <2>3, <2>4 DEF Next
  <2>6. Forward(c) => Left(c)' < Left(c)
    BY <2>2
  <2> QED BY <2>5, <2>6
<1> QED BY <1>1, Inductive, PTL DEF Spec, ForwardRunsDown

-----------------------------------------------------------------------------
\* Every step of the tunnel is a step of Forwarding or changes nothing that it speaks of.
THEOREM ForwardingRefinement == Spec => ForwardingSpec
<1> DEFINE fwd == [c \in Conns |-> Fwd(c)]
<1>1. Init => Carried!Init
  BY DEF Init, Carried!Init, Link, Fwd
<1>2. ASSUME IInv, IInv', [Next]_vars PROVE [Carried!Next]_Carried!vars
  <2>1. LinkTypes /\ ConnTypes /\ StepInv /\ ConnInv /\ ConnTypes'
    BY <1>2 DEF IInv
  <2>2. CASE Link' = Link /\ UNCHANGED <<conn, guest>>
    <3>1. \A c \in Conns : Fwd(c)' = Fwd(c)
      BY <2>2 DEF Fwd
    <3> QED BY <2>2, <3>1 DEF Carried!vars
  <2>3. CASE DialBastion
    <3>1. Link = "before" /\ Link' \in {"up", "down"}
      BY <2>1, <2>3 DEF DialBastion, Link, StepInv
    <3>2. \A c \in Conns : Fwd(c) = "waiting" /\ Fwd(c)' = Fwd(c)
      BY <2>1, <2>3, <3>1 DEF DialBastion, Fwd, connVars, LinkTypes, ConnTypes, StepInv, ConnInv
    <3>3. CASE Link' = "up"
      BY <3>1, <3>2, <3>3 DEF Carried!Next, Carried!Raise
    <3>4. CASE Link' = "down"
      <4>1. fwd' = [c \in Conns |-> IF fwd[c] = "carried" THEN "over" ELSE fwd[c]]
        BY <3>2
      <4> QED BY <3>1, <3>4, <4>1 DEF Carried!Next, Carried!Fall
    <3> QED BY <3>1, <3>3, <3>4
  \* The link falls: the channels end, and nothing else happens to the connections.
  <2>4. CASE Link # "down" /\ Link' = "down" /\ conn' = conn /\ \A c \in Conns : ~guest'[c]
    <3>1. \A c \in Conns : Fwd(c)' = IF Fwd(c) = "carried" THEN "over" ELSE Fwd(c)
      BY <2>4 DEF Fwd
    <3>2. fwd' = [c \in Conns |-> IF fwd[c] = "carried" THEN "over" ELSE fwd[c]]
      BY <3>1
    <3> QED BY <2>4, <3>2 DEF Carried!Next, Carried!Fall
  \* Connections end: all that are queued, or one.
  <2>5. ASSUME NEW S \in SUBSET Conns, Link # "before", Link' = Link,
               \A c \in Conns : Fwd(c)' = IF c \in S THEN "over" ELSE Fwd(c)
        PROVE  Carried!Next
    <3>1. fwd' = [c \in Conns |-> IF c \in S THEN "over" ELSE fwd[c]]
      BY <2>5
    <3> QED BY <2>5, <3>1 DEF Carried!Next, Carried!End
  <2>6. ASSUME NEW d \in Conns, Forward(d) \/ World(d) PROVE [Carried!Next]_Carried!vars
    <3>1. Link' = Link /\ Link # "before"
      <4>1. ssh' = ssh /\ pc' = pc
        BY <2>6
        DEF Forward, Accept, DialGuest, UpEnds, DownEnds, ForwardEnds, World, Connect, ClientCloses,
            WriteFails, GuestCloses, SameStep, SameLinks
      <4>2. ssh # "none"
        BY <2>1, <2>6
        DEF Forward, Accept, DialGuest, UpEnds, DownEnds, ForwardEnds, World, Connect, ClientCloses,
            WriteFails, GuestCloses, StepInv, ConnInv, LinkTypes, ConnTypes
      <4> QED BY <4>1, <4>2 DEF Link
    <3>2. \A c \in Conns : c # d => Fwd(c)' = Fwd(c)
      BY <2>1, <2>6
      DEF Forward, Accept, DialGuest, HangUp, UpEnds, DownEnds, ForwardEnds, World, Connect,
          ClientCloses, WriteFails, GuestCloses, Fwd, ConnTypes
    <3>3. CASE Fwd(d)' = Fwd(d)
      BY <3>1, <3>2, <3>3 DEF Carried!vars
    <3>4. CASE Fwd(d)' = "over"
      <4>1. \A c \in Conns : Fwd(c)' = IF c \in {d} THEN "over" ELSE Fwd(c)
        BY <3>2, <3>4
      <4> QED BY <2>5, <3>1, <4>1
    <3>5. CASE Link = "up" /\ Fwd(d) = "waiting" /\ Fwd(d)' = "carried"
      <4>1. fwd' = [fwd EXCEPT ![d] = "carried"] /\ fwd[d] = "waiting"
        BY <3>2, <3>5
      <4> QED BY <3>1, <3>5, <4>1 DEF Carried!Next, Carried!Carry
    <3>6. Fwd(d)' = Fwd(d) \/ Fwd(d)' = "over" \/ (Link = "up" /\ Fwd(d) = "waiting" /\ Fwd(d)' = "carried")
      BY <2>1, <2>6
      DEF Forward, Accept, DialGuest, HangUp, UpEnds, DownEnds, ForwardEnds, World, Connect,
          ClientCloses, WriteFails, GuestCloses, Fwd, Link, ConnTypes
    <3> QED BY <3>3, <3>4, <3>5, <3>6
  <2>7. CASE CloseListener
    <3> DEFINE S == {c \in Conns : conn[c] = "queued"}
    <3>1. Link' = Link
      BY <2>7 DEF CloseListener, Link
    <3>2. \A c \in Conns : Fwd(c)' = IF c \in S THEN "over" ELSE Fwd(c)
      BY <2>1, <2>7 DEF CloseListener, Fwd, ConnTypes
    <3>3. Link # "before"
      BY <2>7 DEF CloseListener, Link
    <3> QED BY <2>5, <3>1, <3>2, <3>3
  <2>8. ASSUME RunSkips \/ RunHaltsWithoutIp \/ Resolve \/ ListenFails \/ Listen \/ BuildEnds
               \/ CloseSsh \/ AcceptFails \/ AcceptErrs \/ SshDies \/ UNCHANGED vars
        PROVE  \/ Link' = Link /\ UNCHANGED <<conn, guest>>
               \/ Link # "down" /\ Link' = "down" /\ conn' = conn /\ \A c \in Conns : ~guest'[c]
    <3>1. CASE RunSkips \/ RunHaltsWithoutIp \/ Resolve
      BY <2>1, <3>1 DEF RunSkips, RunHaltsWithoutIp, Resolve, connVars, Link, StepInv, ConnInv
    <3>2. CASE ListenFails \/ Listen \/ BuildEnds
      <4>1. ListenFails => \A c \in Conns : ~guest[c]
        <5> SUFFICES ASSUME ListenFails, NEW c \in Conns PROVE ~guest[c]
          OBVIOUS
        <5>1. listener = "none"
          BY <2>1 DEF ListenFails, StepInv, CleanUp
        <5> QED BY <2>1, <5>1 DEF ConnInv
      <4> QED BY <2>1, <3>2, <4>1 DEF ListenFails, Listen, BuildEnds, connVars, Link, StepInv, LinkTypes
    <3>3. CASE CloseSsh \/ SshDies
      <4>1. conn' = conn /\ \A c \in Conns : ~guest'[c]
        BY <3>3 DEF CloseSsh, SshDies
      <4>2. Link' = "down"
        BY <2>1, <3>3 DEF CloseSsh, SshDies, SameStep, Link, LinkTypes
      <4>3. CASE Link = "down"
        <5>1. \A c \in Conns : ~guest[c]
          BY <2>1, <4>3 DEF Link, ConnInv, ConnTypes
        <5>2. guest' = guest
          <6>1. guest' = [c \in Conns |-> FALSE]
            BY <3>3 DEF CloseSsh, SshDies
          <6>2. guest = [c \in Conns |-> FALSE]
            BY <2>1, <5>1 DEF ConnTypes
          <6> QED BY <6>1, <6>2
        <5> QED BY <4>1, <4>2, <4>3, <5>2
      <4> QED BY <4>1, <4>2, <4>3
    <3>4. CASE AcceptFails \/ AcceptErrs \/ UNCHANGED vars
      BY <3>4 DEF AcceptFails, AcceptErrs, SameStep, SameLinks, vars, connVars, Link
    <3> QED BY <2>8, <3>1, <3>2, <3>3, <3>4
  <2> QED BY <1>2, <2>2, <2>3, <2>4, <2>6, <2>7, <2>8 DEF Next, Step
<1>3. Spec => Carried!Spec
  BY <1>1, <1>2, Inductive, PTL DEF Spec, Carried!Spec
<1> QED BY <1>3 DEF ForwardingSpec
=============================================================================
