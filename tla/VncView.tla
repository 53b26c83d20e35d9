------------------------------ MODULE VncView ------------------------------
(***************************************************************************)
(* The VNC view server of the ISO builder and the build step that owns it: *)
(* builder/sylve/iso/vnc_view_server.go and step_vnc_boot_command.go.      *)
(*                                                                         *)
(* The step dials the console of the VM, hands the connection to the view  *)
(* server, and types the boot commands.  When the guest reboots the        *)
(* upstream connection drops; the framebuffer poller notices and spawns a  *)
(* reconnect goroutine, which dials again, swaps the new connection in and *)
(* starts the next poller.  Stop and Wait end everything.                  *)
(*                                                                         *)
(* Connection g is the g-th connection ever established.  Poller g reads   *)
(* the message channel of connection g, and reconnector g is the goroutine *)
(* poller g spawns: it is the one that establishes connection g + 1.       *)
(***************************************************************************)
EXTENDS Integers, FiniteSets

CONSTANTS MaxConn,    \* bound: how many connections the VM's console accepts
          Commands,   \* the number of boot_command entries
          Viewers     \* the local VNC viewers that may connect

ASSUME BoundsAssumption == MaxConn \in Nat \ {0} /\ Commands \in Nat

Gen == 1 .. MaxConn
NoConn == 0           \* a nil *vnc.ClientConn

VARIABLES
  main,       \* control point of StepVNCBootCommand.Run
  cmd,        \* boot commands sent so far
  cur,        \* the local variable currentConn, then newConn
  seen,       \* the connCh a WaitForNewConn caller selects on, as an epoch
  expired,    \* the deadline of the loop main is in has passed
  ctxDone,    \* the build's context is cancelled
  stopCh,     \* ss.stopCh is closed
  stopped,    \* ss.stopped
  conn,       \* ss.conn
  taken,      \* the connection Stop took from ss.conn
  epoch,      \* how often connCh was closed and replaced
  listener,   \* ss.listener
  sock,       \* state of each connection
  poller,     \* control point of each framebuffer poller
  rec,        \* control point of each reconnect goroutine
  cancelled,  \* rctx of each reconnect goroutine has been cancelled
  wg,         \* counter of ss.wg
  viewer      \* each local viewer's connection

mainVars == <<main, cmd, cur, seen, expired>>
stopVars == <<stopCh, stopped, taken, listener>>
connVars == <<conn, epoch, sock>>
goVars   == <<poller, rec, cancelled, wg>>
vars == <<mainVars, stopVars, connVars, goVars, ctxDone, viewer>>

MainPC == {"dial", "setup", "bootwait", "next", "send", "check", "wait", "recheck",
           "retry", "signal", "mark", "close", "notify", "join", "done", "halted"}
PollerPC == {"none", "start", "loop", "spawn", "exit", "done"}
RecPC == {"none", "top", "dial", "swap", "notify", "poll", "ret", "done"}

Open(g) == sock[g] \in {"up", "dropped"}
Close(c) == [g \in Gen |-> IF g = c THEN "closed" ELSE sock[g]]

\* rctx of reconnector g: derived from the context of poller g, which is the
\* build's context for the first poller and rctx of reconnector g - 1 after that.
PollerCtxDone(g) == ctxDone \/ \E h \in Gen : h < g /\ cancelled[h]
RecCtxDone(g) == ctxDone \/ \E h \in Gen : h <= g /\ cancelled[h]

TypeOK ==
  /\ main \in MainPC /\ cmd \in 0 .. Commands /\ cur \in 0 .. MaxConn
  /\ seen \in Nat /\ expired \in BOOLEAN /\ ctxDone \in BOOLEAN
  /\ stopCh \in BOOLEAN /\ stopped \in BOOLEAN
  /\ conn \in 0 .. MaxConn /\ taken \in 0 .. MaxConn /\ epoch \in Nat
  /\ listener \in {"none", "open", "closed"}
  /\ sock \in [Gen -> {"none", "up", "dropped", "closed"}]
  /\ poller \in [Gen -> PollerPC] /\ rec \in [Gen -> RecPC]
  /\ cancelled \in [Gen -> BOOLEAN] /\ wg \in Nat
  /\ viewer \in [Viewers -> {"away", "accepted", "served", "closed"}]

Init ==
  /\ main = "dial" /\ cmd = 0 /\ cur = NoConn /\ seen = 0 /\ expired = FALSE
  /\ ctxDone = FALSE /\ stopCh = FALSE /\ stopped = FALSE
  /\ conn = NoConn /\ taken = NoConn /\ epoch = 0 /\ listener = "none"
  /\ sock = [g \in Gen |-> "none"]
  /\ poller = [g \in Gen |-> "none"] /\ rec = [g \in Gen |-> "none"]
  /\ cancelled = [g \in Gen |-> FALSE] /\ wg = 0
  /\ viewer = [v \in Viewers |-> "away"]

-----------------------------------------------------------------------------
(* StepVNCBootCommand.Run *)

\* Returning ActionHalt: the only clean-up is the deferred Close of the first
\* connection.  Neither Stop nor Wait is called.
Halt ==
  /\ main' = "halted" /\ sock' = Close(1)
  /\ UNCHANGED <<cmd, cur, seen, expired, stopVars, conn, epoch, goVars, ctxDone, viewer>>

Goto(pc) == main' = pc /\ UNCHANGED <<stopVars, connVars, goVars, ctxDone, viewer>>

DialOk ==
  /\ main = "dial"
  /\ main' = "setup" /\ sock' = [sock EXCEPT ![1] = "up"] /\ expired' = FALSE
  /\ UNCHANGED <<cmd, cur, seen, stopVars, conn, epoch, goVars, ctxDone, viewer>>

\* A failed dial or handshake that is not followed by another attempt.
DialGivesUp == main = "dial" /\ (expired \/ ctxDone) /\ Halt

\* newVNCViewServer, start, and the first startPoller.  The fallback listener
\* may fail to bind; the step goes on without one.
Serve ==
  /\ main = "setup"
  /\ main' = "bootwait" /\ conn' = 1 /\ listener' \in {"none", "open"}
  /\ poller' = [poller EXCEPT ![1] = "start"] /\ wg' = wg + 1
  /\ UNCHANGED <<cmd, cur, seen, expired, stopCh, stopped, taken, epoch, sock, rec,
                 cancelled, ctxDone, viewer>>

BootWait ==
  /\ main = "bootwait"
  /\ \/ ctxDone /\ Halt
     \/ Goto("next") /\ UNCHANGED <<cmd, cur, seen, expired>>

\* The top of the command loop: GetConn, parse, look at the context.
NextCommand ==
  /\ main = "next" /\ cmd < Commands
  /\ \/ Halt                                    \* the command does not parse
     \/ ctxDone /\ Halt
     \/ ~ctxDone /\ Goto("send") /\ cur' = conn /\ UNCHANGED <<cmd, seen, expired>>

CommandsSent ==
  main = "next" /\ cmd = Commands /\ Goto("signal") /\ UNCHANGED <<cmd, cur, seen, expired>>

\* seq.Do returns nil.  A command made of waits succeeds on a dead connection.
SendOk ==
  /\ main \in {"send", "retry"}
  /\ Goto("next") /\ cmd' = cmd + 1 /\ UNCHANGED <<cur, seen, expired>>

SendCanFail == sock[cur] # "up" \/ ctxDone

SendFails ==
  /\ main = "send" /\ SendCanFail
  /\ Goto("check") /\ expired' = FALSE /\ UNCHANGED <<cmd, cur, seen>>

RetryFails == main = "retry" /\ SendCanFail /\ Halt

\* The head of the loop in WaitForNewConn, and the channel the select evaluates.
WaitArm ==
  /\ main = "check"
  /\ \/ (stopped \/ expired) /\ Halt
     \/ ~stopped /\ ~expired /\ Goto("wait") /\ seen' = epoch /\ UNCHANGED <<cmd, cur, expired>>

WaitWake ==
  /\ main = "wait"
  /\ \/ ctxDone /\ Halt
     \/ seen # epoch /\ Goto("recheck") /\ UNCHANGED <<cmd, cur, seen, expired>>
     \/ expired /\ Goto("check") /\ UNCHANGED <<cmd, cur, seen, expired>>

WaitRecheckAnyConn ==   \* mutant: WaitForNewConn does not compare with old
  main = "recheck" /\ conn # NoConn /\ Goto("retry") /\ cur' = conn /\ UNCHANGED <<cmd, seen, expired>>

WaitRecheck ==
  /\ main = "recheck"
  /\ \/ conn \notin {NoConn, cur} /\ Goto("retry") /\ cur' = conn /\ UNCHANGED <<cmd, seen, expired>>
     \/ conn \in {NoConn, cur} /\ Goto("check") /\ UNCHANGED <<cmd, cur, seen, expired>>

\* The overall dial deadline, or waitForNewConnDeadline.
DeadlinePasses ==
  /\ main \in {"dial", "wait"} /\ ~expired /\ expired' = TRUE
  /\ UNCHANGED <<main, cmd, cur, seen, stopVars, connVars, goVars, ctxDone, viewer>>

-----------------------------------------------------------------------------
(* Stop and Wait, run by the step once every command was sent *)

StopSignal ==
  /\ main = "signal" /\ main' = "mark" /\ stopCh' = TRUE
  /\ UNCHANGED <<cmd, cur, seen, expired, stopped, taken, listener, connVars, goVars, ctxDone, viewer>>

StopMark ==
  /\ main = "mark" /\ main' = "close"
  /\ stopped' = TRUE /\ taken' = conn /\ conn' = NoConn
  /\ UNCHANGED <<cmd, cur, seen, expired, stopCh, listener, epoch, sock, goVars, ctxDone, viewer>>

\* Closes the connection taken, the listener, and every registered viewer.
StopClose ==
  /\ main = "close" /\ main' = "notify"
  /\ sock' = Close(taken)
  /\ listener' = IF listener = "open" THEN "closed" ELSE listener
  /\ viewer' = [v \in Viewers |-> IF viewer[v] = "served" THEN "closed" ELSE viewer[v]]
  /\ UNCHANGED <<cmd, cur, seen, expired, stopCh, stopped, taken, conn, epoch, goVars, ctxDone>>

StopNotify ==
  /\ main = "notify" /\ main' = "join" /\ epoch' = epoch + 1
  /\ UNCHANGED <<cmd, cur, seen, expired, stopVars, conn, sock, goVars, ctxDone, viewer>>

\* Wait returns; so does Run, with the deferred Close of the first connection.
Join ==
  /\ main = "join" /\ wg = 0
  /\ main' = "done" /\ sock' = Close(1)
  /\ UNCHANGED <<cmd, cur, seen, expired, stopVars, conn, epoch, goVars, ctxDone, viewer>>

-----------------------------------------------------------------------------
(* runFramebufferPollerInner *)

PollerGoto(g, pc) ==
  /\ poller' = [poller EXCEPT ![g] = pc]
  /\ UNCHANGED <<mainVars, stopVars, connVars, rec, cancelled, wg, ctxDone, viewer>>

PollerStart(g) ==
  /\ poller[g] = "start"
  /\ PollerGoto(g, IF stopped \/ conn = NoConn THEN "exit" ELSE "loop")

PollerCtx(g) == poller[g] = "loop" /\ PollerCtxDone(g) /\ PollerGoto(g, "exit")

\* The ticker: the heartbeat write goes to ss.conn, whatever connection that is.
PollerTick(g) ==
  /\ poller[g] = "loop"
  /\ \/ (stopped \/ conn = NoConn) /\ PollerGoto(g, "exit")
     \/ ~stopped /\ conn # NoConn /\ sock[conn] # "up" /\ PollerGoto(g, "spawn")

\* The message channel of connection g was closed.
PollerChClosed(g) ==
  /\ poller[g] = "loop" /\ sock[g] # "up"
  /\ PollerGoto(g, IF stopped THEN "exit" ELSE "spawn")

PollerSpawnUntracked(g) ==   \* mutant: the reconnect goroutine is not added to the wait group
  /\ poller[g] = "spawn" /\ poller' = [poller EXCEPT ![g] = "exit"]
  /\ rec' = IF stopped THEN rec ELSE [rec EXCEPT ![g] = "top"]
  /\ UNCHANGED <<mainVars, stopVars, connVars, cancelled, wg, ctxDone, viewer>>

PollerSpawnKeepsPolling(g) ==   \* mutant: the poller goes on after it spawned a reconnect
  /\ poller[g] = "spawn" /\ rec[g] = "none" /\ ~stopped
  /\ poller' = [poller EXCEPT ![g] = "loop"]
  /\ rec' = [rec EXCEPT ![g] = "top"] /\ wg' = wg + 1
  /\ UNCHANGED <<mainVars, stopVars, connVars, cancelled, ctxDone, viewer>>

\* spawnReconnect, under the lock.
PollerSpawn(g) ==
  /\ poller[g] = "spawn" /\ poller' = [poller EXCEPT ![g] = "exit"]
  /\ \/ stopped /\ UNCHANGED <<rec, wg>>
     \/ ~stopped /\ rec' = [rec EXCEPT ![g] = "top"] /\ wg' = wg + 1
  /\ UNCHANGED <<mainVars, stopVars, connVars, cancelled, ctxDone, viewer>>

PollerExit(g) ==
  /\ poller[g] = "exit" /\ poller' = [poller EXCEPT ![g] = "done"] /\ wg' = wg - 1
  /\ UNCHANGED <<mainVars, stopVars, connVars, rec, cancelled, ctxDone, viewer>>

-----------------------------------------------------------------------------
(* The reconnect closure and swapConn *)

RecGoto(g, pc) ==
  /\ rec' = [rec EXCEPT ![g] = pc]
  /\ UNCHANGED <<mainVars, stopVars, poller, cancelled, ctxDone, viewer>>

RecTopForever(g) ==   \* mutant: the reconnect loop does not look at its context
  rec[g] = "top" /\ RecGoto(g, "dial") /\ UNCHANGED <<connVars, wg>>

\* The context is looked at before every attempt and in the pause after a failed one.
RecTop(g) ==
  /\ rec[g] = "top" /\ UNCHANGED <<connVars, wg>>
  /\ \/ RecCtxDone(g) /\ RecGoto(g, "ret")
     \/ ~RecCtxDone(g) /\ RecGoto(g, "dial")

RecDialFails(g) == rec[g] = "dial" /\ RecGoto(g, "top") /\ UNCHANGED <<connVars, wg>>

\* The dial does not take rctx: it may succeed after the server was stopped.
RecDialOk(g) ==
  /\ rec[g] = "dial" /\ g < MaxConn /\ RecGoto(g, "swap")
  /\ sock' = [sock EXCEPT ![g + 1] = "up"] /\ UNCHANGED <<conn, epoch, wg>>

RecSwapUnguarded(g) ==   \* mutant: swapConn without the stopped guard
  /\ rec[g] = "swap" /\ sock' = Close(conn) /\ conn' = g + 1
  /\ RecGoto(g, "notify") /\ UNCHANGED <<epoch, wg>>

RecSwapKeepsOld(g) ==   \* mutant: swapConn does not close the connection it replaces
  /\ rec[g] = "swap"
  /\ \/ stopped /\ sock' = Close(g + 1) /\ RecGoto(g, "ret") /\ UNCHANGED conn
     \/ ~stopped /\ conn' = g + 1 /\ RecGoto(g, "notify") /\ UNCHANGED sock
  /\ UNCHANGED <<epoch, wg>>

\* The critical section of swapConn.
RecSwap(g) ==
  /\ rec[g] = "swap"
  /\ \/ stopped /\ sock' = Close(g + 1) /\ RecGoto(g, "ret") /\ UNCHANGED conn
     \/ ~stopped /\ sock' = Close(conn) /\ conn' = g + 1 /\ RecGoto(g, "notify")
  /\ UNCHANGED <<epoch, wg>>

RecNotify(g) ==
  rec[g] = "notify" /\ epoch' = epoch + 1 /\ RecGoto(g, "poll") /\ UNCHANGED <<conn, sock, wg>>

\* startPoller, under the lock.
RecStartPoller(g) ==
  /\ rec[g] = "poll" /\ rec' = [rec EXCEPT ![g] = "ret"]
  /\ \/ stopped /\ UNCHANGED <<poller, wg>>
     \/ ~stopped /\ poller' = [poller EXCEPT ![g + 1] = "start"] /\ wg' = wg + 1
  /\ UNCHANGED <<mainVars, stopVars, connVars, cancelled, ctxDone, viewer>>

\* The deferred calls of the goroutine in spawnReconnect: cancel, then wg.Done.
RecReturn(g) ==
  /\ rec[g] = "ret" /\ rec' = [rec EXCEPT ![g] = "done"]
  /\ cancelled' = [cancelled EXCEPT ![g] = TRUE] /\ wg' = wg - 1
  /\ UNCHANGED <<mainVars, stopVars, connVars, poller, ctxDone, viewer>>

\* The goroutine that turns a closed stopCh into a cancelled rctx.
StopChCancels(g) ==
  /\ stopCh /\ rec[g] \notin {"none", "done"} /\ ~cancelled[g]
  /\ cancelled' = [cancelled EXCEPT ![g] = TRUE]
  /\ UNCHANGED <<mainVars, stopVars, connVars, poller, rec, wg, ctxDone, viewer>>

-----------------------------------------------------------------------------
(* Local viewers, the build's context, and the VM *)

SetViewer(v, s) ==
  viewer' = [viewer EXCEPT ![v] = s] /\ UNCHANGED <<mainVars, stopVars, connVars, goVars, ctxDone>>

Accept(v) == viewer[v] = "away" /\ listener = "open" /\ SetViewer(v, "accepted")
Register(v) == viewer[v] = "accepted" /\ SetViewer(v, "served")
Leave(v) == viewer[v] \in {"accepted", "served"} /\ SetViewer(v, "closed")

Cancel == ~ctxDone /\ ctxDone' = TRUE /\ UNCHANGED <<mainVars, stopVars, connVars, goVars, viewer>>

CtxClosesListener ==
  /\ ctxDone /\ listener = "open" /\ listener' = "closed"
  /\ UNCHANGED <<mainVars, stopCh, stopped, taken, connVars, goVars, ctxDone, viewer>>

\* The guest reboots or bhyve exits: the upstream side of g goes away.
Drop(g) ==
  /\ sock[g] = "up" /\ sock' = [sock EXCEPT ![g] = "dropped"]
  /\ UNCHANGED <<mainVars, stopVars, conn, epoch, goVars, ctxDone, viewer>>

-----------------------------------------------------------------------------
Main ==
  \/ DialOk \/ DialGivesUp \/ Serve \/ BootWait \/ NextCommand \/ CommandsSent
  \/ SendOk \/ SendFails \/ RetryFails \/ WaitArm \/ WaitWake \/ WaitRecheck
  \/ StopSignal \/ StopMark \/ StopClose \/ StopNotify \/ Join

Poller(g) ==
  \/ PollerStart(g) \/ PollerCtx(g) \/ PollerTick(g) \/ PollerChClosed(g)
  \/ PollerSpawn(g) \/ PollerExit(g)

Rec(g) ==
  \/ RecTop(g) \/ RecDialFails(g) \/ RecDialOk(g) \/ RecSwap(g) \/ RecNotify(g)
  \/ RecStartPoller(g) \/ RecReturn(g)

Next ==
  \/ Main \/ DeadlinePasses \/ Cancel \/ CtxClosesListener
  \/ \E g \in Gen : Poller(g) \/ Rec(g) \/ StopChCancels(g) \/ Drop(g)
  \/ \E v \in Viewers : Accept(v) \/ Register(v) \/ Leave(v)

Spec == Init /\ [][Next]_vars

\* Every goroutine that can run is eventually scheduled, and time passes.  The
\* VM, the viewers and the user owe nothing.
Fairness ==
  /\ WF_vars(Main) /\ WF_vars(DeadlinePasses) /\ WF_vars(CtxClosesListener)
  /\ \A g \in Gen : WF_vars(Poller(g)) /\ WF_vars(Rec(g)) /\ WF_vars(StopChCancels(g))

FairSpec == Spec /\ Fairness

-----------------------------------------------------------------------------
(* Properties *)

PollerRuns(g) == poller[g] \in {"start", "loop", "spawn"}
RecRuns(g) == rec[g] \in {"top", "dial", "swap", "notify", "poll"}

\* The upstream is driven by one goroutine at a time, a poller or a reconnector:
\* swapConn's "only one active poller goroutine at any time", across any number
\* of guest reboots and any race with Stop.
OneDriver ==
  \A g, h \in Gen : (PollerRuns(g) \/ RecRuns(g)) /\ (PollerRuns(h) \/ RecRuns(h))
                      => g = h /\ ~(PollerRuns(g) /\ RecRuns(g))

\* Sylve gives a VM one VNC connection.  A connection that is open is the one
\* the server holds, or some goroutine is about to install or to close it: no
\* interleaving of swapConn and Stop orphans one.
NoOrphan ==
  \A g \in Gen : Open(g) =>
    \/ conn = g
    \/ main \in {"dial", "setup"}
    \/ main = "close" /\ taken = g
    \/ \E h \in Gen : g = h + 1 /\ rec[h] = "swap"

\* When Run has returned ActionContinue nothing is left behind: no connection,
\* no listener, no poller and no reconnector (Stop followed by Wait).
CleanStop ==
  main = "done" =>
    /\ \A g \in Gen : ~Open(g) /\ poller[g] \in {"none", "done"} /\ rec[g] \in {"none", "done"}
    /\ conn = NoConn /\ listener # "open"

\* The heartbeat of poller g is written to connection g: a poller never requests
\* frames on, or reconnects because of, a connection that is not its own.
PollerOwnsConn == \A g \in Gen : PollerRuns(g) => conn = g \/ stopped

\* The retry of a failed boot command uses a connection made after the one that
\* failed (WaitForNewConn returns "a truly new conn").
RetryOnNewer == [][main = "recheck" /\ main' = "retry" => cur' > cur]_vars

\* The server implements VncSlot: the slot is released for good by Stop even when
\* a reconnect is between its dial and swapConn.
Slot == INSTANCE VncSlot WITH
  phase <- IF stopped THEN "released" ELSE IF conn = NoConn THEN "idle" ELSE "serving",
  current <- conn
SlotSpec == Slot!Spec

\* Run returns: no deadline, reconnect or Wait keeps it for ever.
RunReturns == <>(main \in {"done", "halted"})

\* Cancelling the build ends every tracked goroutine, also on the paths that
\* return without Stop.
CancelEndsGoroutines == ctxDone ~> [](wg = 0)

-----------------------------------------------------------------------------
(* What comments of the source say and the code does not do *)

\* swapConn: "New poller after swapConn also gets autoReconnect=true so that a
\* subsequent guest reboot is detected and triggers another reconnect."
EveryConnWatched ==
  conn # NoConn /\ ~ctxDone /\ main \in {"bootwait", "next", "send", "check", "wait", "recheck", "retry"}
    => \E g \in Gen : PollerRuns(g) \/ RecRuns(g)

\* WaitForNewConn "blocks until the upstream conn differs from old, then returns
\* the new conn": once a swap is complete no caller is blocked holding its old one.
WaitSeesSwap ==
  main = "wait" /\ seen = epoch /\ (\A g \in Gen : rec[g] # "notify") => conn \in {NoConn, cur}

\* Wait: "leaked goroutines cannot outlive the build step".
NoGoroutineOutlivesStep == main \in {"done", "halted"} => wg = 0

\* Stop "closes all connected viewer clients so they receive a clean disconnect".
StopDisconnectsViewers == main = "done" => \A v \in Viewers : viewer[v] # "served"
=============================================================================
