---------------------------- MODULE WinRMTunnel ----------------------------
(***************************************************************************)
(* StepWinRMTunnel of the VM builder: an SSH connection to a remote Sylve  *)
(* host, a local listener, and one forward per WinRM connection, each with *)
(* a goroutine for either direction, against Cleanup, the WinRM client,    *)
(* the guest and the network.                                              *)
(***************************************************************************)
EXTENDS Naturals, BastionAuth

CONSTANTS Conns,  \* the connections the WinRM client opens
          Envs    \* the surroundings in which the step may run

\* The lines of ~/.ssh/config are any lines; a default key is in some state.
ASSUME TunnelAssumption ==
  /\ Conns # {} /\ Envs # {}
  /\ \A e \in Envs : /\ e.home \in BOOLEAN /\ e.envUser \in Text /\ e.envKey \in Text
                     /\ e.conf \in Seq([key : Text, value : Text])

VARIABLES
  pc,       \* control point of the step
  cfg,      \* the communicator, winrm_host given, instance_ip known, what sylve_url names
  env,      \* the surroundings, until they have been read (they are read for a tunnel only)
  cred,     \* the credentials resolved
  listener, \* none, open, closed
  ssh,      \* none, open, dead (by the network), closed
  accept,   \* forwardConns: none, running, over
  target,   \* where StepConnect will connect
  conn,     \* each connection: none, queued, dialling, copying, over, refused
  cli,      \* the client's end of it
  guest,    \* its channel through the SSH connection to the guest is open
  up, down  \* the copies to the guest and from it are running

connVars == <<conn, cli, guest, up, down>>
vars == <<pc, cfg, env, cred, listener, ssh, accept, target, connVars>>

NoCred == [user |-> "", key |-> "", agent |-> FALSE]
NoEnv == [home |-> FALSE, conf |-> <<>>, envUser |-> "", envKey |-> "",
          keys |-> [k \in {DefaultKeys[i] : i \in DOMAIN DefaultKeys} |-> "absent"]]
CleanUp == {"closelistener", "closessh", "over"}

Wanted == cfg.winrm /\ ~cfg.host
Tunnels == Wanted /\ cfg.ip /\ cfg.url = "remote"

TypeOK ==
  /\ pc \in {"run", "dial", "listen", "active"} \cup CleanUp
  /\ cfg \in [winrm : BOOLEAN, host : BOOLEAN, ip : BOOLEAN, url : {"bad", "local", "remote"}]
  /\ env \in Envs \cup {NoEnv} /\ (cred = NoCred \/ cred.agent = (cred.key = ""))
  /\ listener \in {"none", "open", "closed"} /\ ssh \in {"none", "open", "dead", "closed"}
  /\ accept \in {"none", "running", "over"} /\ target \in {"guest", "tunnel"}
  /\ conn \in [Conns -> {"none", "queued", "dialling", "copying", "over", "refused"}]
  /\ cli \in [Conns -> {"none", "open", "closed"}]
  /\ guest \in [Conns -> BOOLEAN] /\ up \in [Conns -> BOOLEAN] /\ down \in [Conns -> BOOLEAN]

Init ==
  /\ pc = "run" /\ cred = NoCred
  /\ cfg \in [winrm : BOOLEAN, host : BOOLEAN, ip : BOOLEAN, url : {"bad", "local", "remote"}]
  /\ env \in (IF Tunnels THEN Envs ELSE {NoEnv})
  /\ listener = "none" /\ ssh = "none" /\ accept = "none" /\ target = "guest"
  /\ conn = [c \in Conns |-> "none"] /\ cli = [c \in Conns |-> "none"]
  /\ guest = [c \in Conns |-> FALSE] /\ up = [c \in Conns |-> FALSE] /\ down = [c \in Conns |-> FALSE]

-----------------------------------------------------------------------------
(* StepWinRMTunnel.Run and Cleanup.  A step that halts goes straight to Cleanup. *)

\* Not WinRM, a winrm_host, no host in the URL, or a local host: nothing to do.
RunSkips ==
  /\ pc = "run" /\ (~Wanted \/ (cfg.ip /\ cfg.url # "remote"))
  /\ pc' = "active" /\ env' = NoEnv
  /\ UNCHANGED <<cfg, cred, listener, ssh, accept, target, connVars>>

RunHaltsWithoutIp ==
  /\ pc = "run" /\ Wanted /\ ~cfg.ip
  /\ pc' = "closelistener" /\ env' = NoEnv
  /\ UNCHANGED <<cfg, cred, listener, ssh, accept, target, connVars>>

Resolve ==
  /\ pc = "run" /\ Tunnels
  /\ pc' = "dial" /\ cred' = resolveBastionSSHParams(env) /\ env' = NoEnv
  /\ UNCHANGED <<cfg, listener, ssh, accept, target, connVars>>

\* dialBastionSSH: the key is read and parsed, or the agent asked.
DialBastion ==
  /\ pc = "dial"
  /\ \/ (cred.key # "" \/ cred.agent) /\ pc' = "listen" /\ ssh' = "open"
     \/ pc' = "closelistener" /\ UNCHANGED ssh
  /\ UNCHANGED <<cfg, env, cred, listener, accept, target, connVars>>

ListenFails ==
  /\ pc = "listen" /\ pc' = "closelistener" /\ ssh' = "closed"
  /\ UNCHANGED <<cfg, env, cred, listener, accept, target, connVars>>

\* The accept loop is started, and the address of the guest replaced.
Listen ==
  /\ pc = "listen" /\ pc' = "active"
  /\ listener' = "open" /\ accept' = "running" /\ target' = "tunnel"
  /\ UNCHANGED <<cfg, env, cred, ssh, connVars>>

\* The rest of the build, and the clean-ups of later steps.
BuildEnds ==
  /\ pc = "active" /\ pc' = "closelistener"
  /\ UNCHANGED <<cfg, env, cred, listener, ssh, accept, target, connVars>>

\* Connections that nobody accepted are reset.
CloseListener ==
  /\ pc = "closelistener" /\ pc' = "closessh"
  /\ listener' = (IF listener = "open" THEN "closed" ELSE listener)
  /\ conn' = [c \in Conns |-> IF conn[c] = "queued" THEN "refused" ELSE conn[c]]
  /\ cli' = [c \in Conns |-> IF conn[c] = "queued" THEN "closed" ELSE cli[c]]
  /\ UNCHANGED <<cfg, env, cred, ssh, accept, target, guest, up, down>>

\* The end of an SSH connection is the end of the channels that are open over it.
CloseSsh ==
  /\ pc = "closessh" /\ pc' = "over" /\ ssh' = (IF ssh = "none" THEN ssh ELSE "closed")
  /\ guest' = [c \in Conns |-> FALSE]
  /\ UNCHANGED <<cfg, env, cred, listener, accept, target, conn, cli, up, down>>

Step == RunSkips \/ RunHaltsWithoutIp \/ Resolve \/ DialBastion \/ ListenFails \/ Listen
        \/ CloseListener \/ CloseSsh

-----------------------------------------------------------------------------
(* forwardConns and its goroutines *)

SameStep == UNCHANGED <<pc, cfg, env, cred, target>>
SameLinks == UNCHANGED <<listener, ssh>>

Accept(c) ==
  /\ accept = "running" /\ conn[c] = "queued" /\ conn' = [conn EXCEPT ![c] = "dialling"]
  /\ SameStep /\ SameLinks /\ UNCHANGED <<accept, cli, guest, up, down>>

AcceptFails ==
  /\ accept = "running" /\ listener = "closed" /\ accept' = "over"
  /\ SameStep /\ SameLinks /\ UNCHANGED connVars

\* The loop takes any error for the listener's end: too many open files, say.
AcceptErrs ==
  /\ accept = "running" /\ listener = "open" /\ accept' = "over"
  /\ SameStep /\ SameLinks /\ UNCHANGED connVars

HangUpNot(c) ==   \* mutant: the local connection is kept for another dial
  conn' = [conn EXCEPT ![c] = "dialling"] /\ UNCHANGED cli

HangUpLeaks(c) ==   \* mutant: the local connection is not closed
  conn' = [conn EXCEPT ![c] = "over"] /\ UNCHANGED cli

HangUp(c) == conn' = [conn EXCEPT ![c] = "over"] /\ cli' = [cli EXCEPT ![c] = "closed"]

DialGuestRepeats(c) ==   \* mutant: a dial that failed is repeated for ever
  /\ conn[c] = "dialling" /\ SameStep /\ SameLinks /\ UNCHANGED <<accept, cli>>
  /\ ssh = "open" /\ conn' = [conn EXCEPT ![c] = "copying"]
  /\ guest' = [guest EXCEPT ![c] = TRUE]
  /\ up' = [up EXCEPT ![c] = TRUE] /\ down' = [down EXCEPT ![c] = TRUE]

\* sshConn.Dial, and the two copies.  A dial that fails closes the local connection.
DialGuest(c) ==
  /\ conn[c] = "dialling" /\ SameStep /\ SameLinks /\ UNCHANGED accept
  /\ \/ /\ ssh = "open" /\ conn' = [conn EXCEPT ![c] = "copying"] /\ UNCHANGED cli
        /\ guest' = [guest EXCEPT ![c] = TRUE]
        /\ up' = [up EXCEPT ![c] = TRUE] /\ down' = [down EXCEPT ![c] = TRUE]
     \/ HangUp(c) /\ UNCHANGED <<guest, up, down>>

\* The copy to the guest ends when the client has closed.
UpEnds(c) ==
  /\ up[c] /\ cli[c] = "closed" /\ up' = [up EXCEPT ![c] = FALSE]
  /\ SameStep /\ SameLinks /\ UNCHANGED <<accept, conn, cli, guest, down>>

\* The copy from the guest ends when the channel is at its end.
DownEnds(c) ==
  /\ down[c] /\ ~guest[c] /\ down' = [down EXCEPT ![c] = FALSE]
  /\ SameStep /\ SameLinks /\ UNCHANGED <<accept, conn, cli, guest, up>>

\* Both copies are over: the channel and the local connection are closed.
ForwardEnds(c) ==
  /\ conn[c] = "copying" /\ ~up[c] /\ ~down[c]
  /\ HangUp(c) /\ guest' = [guest EXCEPT ![c] = FALSE]
  /\ SameStep /\ SameLinks /\ UNCHANGED <<accept, up, down>>

Forward(c) == Accept(c) \/ DialGuest(c) \/ UpEnds(c) \/ DownEnds(c) \/ ForwardEnds(c)

-----------------------------------------------------------------------------
(* The client, the guest and the network *)

Connect(c) ==
  /\ target = "tunnel" /\ listener = "open" /\ conn[c] = "none"
  /\ conn' = [conn EXCEPT ![c] = "queued"] /\ cli' = [cli EXCEPT ![c] = "open"]
  /\ SameStep /\ SameLinks /\ UNCHANGED <<accept, guest, up, down>>

ClientCloses(c) ==
  /\ cli[c] = "open" /\ cli' = [cli EXCEPT ![c] = "closed"]
  /\ SameStep /\ SameLinks /\ UNCHANGED <<accept, conn, guest, up, down>>

\* A write to a channel that is gone ends the copy; so does one to a client that is.
WriteFails(c) ==
  /\ \/ up[c] /\ ~guest[c] /\ cli[c] = "open" /\ up' = [up EXCEPT ![c] = FALSE] /\ UNCHANGED down
     \/ down[c] /\ guest[c] /\ cli[c] = "closed" /\ down' = [down EXCEPT ![c] = FALSE] /\ UNCHANGED up
  /\ SameStep /\ SameLinks /\ UNCHANGED <<accept, conn, cli, guest>>

GuestCloses(c) ==
  /\ guest[c] /\ guest' = [guest EXCEPT ![c] = FALSE]
  /\ SameStep /\ SameLinks /\ UNCHANGED <<accept, conn, cli, up, down>>

SshDies ==
  /\ ssh = "open" /\ ssh' = "dead" /\ guest' = [c \in Conns |-> FALSE]
  /\ SameStep /\ UNCHANGED <<listener, accept, conn, cli, up, down>>

World(c) == Connect(c) \/ ClientCloses(c) \/ WriteFails(c) \/ GuestCloses(c)

Next ==
  \/ Step \/ BuildEnds \/ AcceptFails \/ AcceptErrs \/ SshDies
  \/ \E c \in Conns : Forward(c) \/ World(c)

Spec == Init /\ [][Next]_vars

\* The step and the goroutines are scheduled; the dials return.  Nothing is assumed
\* of the length of the build, of the client, of the guest or of the network.
FairSpec ==
  /\ Spec /\ WF_vars(Step) /\ WF_vars(AcceptFails)
  /\ \A c \in Conns : WF_vars(Forward(c))

-----------------------------------------------------------------------------
(* Properties *)

\* applyAutoBastion keeps to the documented order of users and keys, whatever is set
\* explicitly and whatever ~/.ssh/config says.
Explicit == [user : {"", "hcl"}, password : {"", "hcl"}, key : {"", "hcl"}, agent : BOOLEAN]
AutoBastionAsDocumented ==
  pc = "run" => \A c \in Explicit : applyAutoBastion(c, env) = Documented(c, env)

\* The WinRM tunnel and the SSH bastion authenticate with the same credentials where
\* none are explicit.
ConsistentCredentials ==
  pc = "run" =>
    LET a == applyAutoBastion([user |-> "", password |-> "", key |-> "", agent |-> FALSE], env)
    IN  resolveBastionSSHParams(env) = [user |-> a.user, key |-> a.key, agent |-> a.agent]

\* The resolution of the bastion's credentials: as documented, and the same for both
\* of its users.
BastionCredentials == AutoBastionAsDocumented /\ ConsistentCredentials

\* However connections race with Cleanup and with each other, none is left behind: one
\* that the client holds open waits at a listener that is open or is in the hands of a
\* forward; an open channel to the guest belongs to a forward, over a connection that
\* stands, and to none after Cleanup, not even for a dial that Cleanup overtook; and no
\* copy outlives its forward.
NoneLeftBehind == \A c \in Conns :
  /\ cli[c] = "open" => (conn[c] = "queued" /\ listener = "open") \/ conn[c] \in {"dialling", "copying"}
  /\ guest[c] => conn[c] = "copying" /\ ssh = "open" /\ pc # "over"
  /\ up[c] \/ down[c] => conn[c] = "copying"

\* The tunnel implements Forwarding: no connection is carried twice, none is carried
\* once the link has fallen, and what was carried then has ended with it, however the
\* goroutines race with Cleanup and the network.
Link == IF ssh = "open" THEN "up" ELSE IF ssh = "none" /\ pc \in {"run", "dial"} THEN "before" ELSE "down"

Fwd(c) ==
  CASE conn[c] \in {"none", "queued", "dialling"} -> "waiting"
    [] conn[c] = "copying" /\ guest[c] -> "carried"
    [] OTHER -> "over"

Carried == INSTANCE Forwarding WITH link <- Link, fwd <- [c \in Conns |-> Fwd(c)]
ForwardingSpec == Carried!Spec

\* After Cleanup the accept loop ends,
AcceptLoopEnds == pc = "over" ~> accept # "running"

\* and so does each forward whose client has closed.
ForwardsEnd == \A c \in Conns :
  (pc = "over" /\ cli[c] = "closed") ~> (conn[c] \notin {"dialling", "copying"})

\* The goroutines that outlive Run end after Cleanup.
TunnelEnds == AcceptLoopEnds /\ ForwardsEnd

\* Not kept (iso/config.go:372): the ISO builder's resolution of the key is the
\* documented one, whether or not ssh_bastion_username is set.
IsoBastionAsDocumented ==
  pc = "run" => \A c \in Explicit : PrepareBastion(c, env) = Documented(c, env)

\* Not kept (vm/ssh_bastion.go:7): the two builders resolve alike.
BuildersResolveAlike ==
  pc = "run" => \A c \in Explicit : PrepareBastion(c, env) = applyAutoBastion(c, env)

\* Not kept (vm/step_winrm_tunnel.go:134): the accept loop ends only because Cleanup has
\* closed the listener.
OnlyCleanupEndsAccept == accept = "over" => listener = "closed"
=============================================================================
