--------------------------- MODULE VncViewProofs ---------------------------
(***************************************************************************)
(* Theorems about the VNC view server, for any number of connections,      *)
(* boot commands and viewers.  IInv is the inductive invariant; each of    *)
(* its parts names one reason why Stop followed by Wait is clean.          *)
(***************************************************************************)
EXTENDS VncView, FiniteSetTheorems, TLAPS

LiveP == {g \in Gen : poller[g] \notin {"none", "done"}}
LiveR == {g \in Gen : rec[g] \notin {"none", "done"}}

\* The wait group counts the tracked goroutines that have not returned.
WgInv == wg = Cardinality(LiveP) + Cardinality(LiveR)

\* Poller and reconnector hand over to each other: all of an earlier generation
\* is over, or returning, once a later poller exists.
Chain ==
  \A g, h \in Gen : g < h /\ poller[h] # "none"
                      => poller[g] \in {"exit", "done"} /\ rec[g] \in {"ret", "done"}
RecAfterPoller == \A g \in Gen : rec[g] # "none" => poller[g] \in {"exit", "done"}
RecBound == \A g \in Gen : rec[g] \in {"swap", "notify", "poll"} => g < MaxConn

\* Before the view server exists.
Early ==
  main \in {"dial", "setup"} =>
    /\ conn = NoConn /\ cur = NoConn
    /\ \A g \in Gen : poller[g] = "none" /\ rec[g] = "none" /\ (g # 1 => sock[g] = "none")

StopPC ==
  /\ stopped <=> main \in {"close", "notify", "join", "done"}
  /\ stopped => conn = NoConn
  /\ main \notin {"dial", "setup", "halted"} /\ ~stopped => conn # NoConn
  /\ main \in {"notify", "join", "done"} => listener # "open"

\* Whoever drives the upstream works on the current connection.
Owner ==
  \A g \in Gen :
    /\ (PollerRuns(g) \/ rec[g] \in {"top", "dial", "swap"}) /\ ~stopped => conn = g
    /\ rec[g] \in {"notify", "poll"} /\ ~stopped => conn = g + 1

Quiet == main = "done" => LiveP = {} /\ LiveR = {}

CurInv == ~stopped => cur <= conn

Sending == main \in {"send", "check", "wait", "recheck", "retry"}
CmdInv == Sending => cmd < Commands

IInv ==
  /\ TypeOK /\ WgInv /\ Chain /\ RecAfterPoller /\ RecBound /\ Early /\ StopPC /\ Owner
  /\ NoOrphan /\ Quiet /\ CurInv /\ CmdInv

-----------------------------------------------------------------------------
LEMMA LiveFinite ==
  /\ IsFiniteSet(LiveP) /\ Cardinality(LiveP) \in Nat
  /\ IsFiniteSet(LiveR) /\ Cardinality(LiveR) \in Nat
<1>1. IsFiniteSet(Gen)
  BY BoundsAssumption, FS_Interval DEF Gen
<1>2. LiveP \in SUBSET Gen /\ LiveR \in SUBSET Gen
  BY DEF LiveP, LiveR
<1> QED
  BY <1>1, <1>2, FS_Subset, FS_CardinalityType

\* The steps of main other than Serve leave the goroutines alone.
LEMMA MainFrame ==
  ASSUME Main, ~Serve
  PROVE  UNCHANGED goVars
BY DEF Main, Serve, DialOk, DialGivesUp, Halt, Goto, BootWait, NextCommand, CommandsSent, SendOk,
  SendFails, RetryFails, WaitArm, WaitWake, WaitRecheck, StopSignal, StopMark, StopClose, StopNotify,
  Join, goVars

\* The first and the last generation are generations.
LEMMA GenFacts ==
  1 \in Gen /\ Gen \subseteq Nat \ {0} /\ \A g \in Gen : g < MaxConn => g + 1 \in Gen
BY BoundsAssumption DEF Gen

LEMMA RecBoundStep ==
  ASSUME TypeOK, RecBound, Early, [Next]_vars
  PROVE  RecBound'
<1>1. CASE Main
  <2>1. CASE Serve
    BY <2>1, <1>1 DEF Serve, RecBound
  <2> QED BY <1>1, <2>1, MainFrame DEF goVars, RecBound
<1>2. ASSUME NEW g \in Gen, Poller(g) PROVE RecBound'
  BY <1>2 DEF Poller, PollerStart, PollerCtx, PollerTick, PollerChClosed, PollerSpawn, PollerExit,
    PollerGoto, RecBound, TypeOK
<1>3. ASSUME NEW g \in Gen, Rec(g) PROVE RecBound'
  BY <1>3 DEF Rec, RecTop, RecDialFails, RecDialOk, RecSwap, RecNotify, RecStartPoller, RecReturn,
    RecGoto, RecBound, TypeOK
<1> QED
  BY <1>1, <1>2, <1>3 DEF Next, DeadlinePasses, Cancel, CtxClosesListener, StopChCancels, Drop, Accept,
    Register, Leave, SetViewer, goVars, vars, RecBound

LEMMA HandoverStep ==
  ASSUME TypeOK, Chain, RecAfterPoller, RecBound, Early, [Next]_vars
  PROVE  Chain' /\ RecAfterPoller'
<1> USE GenFacts DEF Chain, RecAfterPoller
<1>1. CASE Main
  <2>1. CASE Serve
    BY <2>1, <1>1 DEF Serve, Early, TypeOK
  <2> QED BY <1>1, <2>1, MainFrame DEF goVars
<1>2. ASSUME NEW g \in Gen, Poller(g) PROVE Chain' /\ RecAfterPoller'
  BY <1>2 DEF Poller, PollerStart, PollerCtx, PollerTick, PollerChClosed, PollerSpawn, PollerExit,
    PollerGoto, TypeOK
<1>3. ASSUME NEW g \in Gen, Rec(g) PROVE Chain' /\ RecAfterPoller'
  BY <1>3 DEF Rec, RecTop, RecDialFails, RecDialOk, RecSwap, RecNotify, RecStartPoller, RecReturn,
    RecGoto, RecBound, TypeOK
<1> QED
  BY <1>1, <1>2, <1>3 DEF Next, DeadlinePasses, Cancel, CtxClosesListener, StopChCancels, Drop, Accept,
    Register, Leave, SetViewer, goVars, vars

LEMMA OneDriverFact ==
  ASSUME TypeOK, Chain, RecAfterPoller
  PROVE  OneDriver
BY DEF TypeOK, Chain, RecAfterPoller, OneDriver, PollerRuns, RecRuns, Gen

LEMMA WgStep ==
  ASSUME TypeOK, WgInv, Chain, RecAfterPoller, RecBound, Early, [Next]_vars
  PROVE  WgInv' /\ wg' \in Nat
<1> USE LiveFinite, GenFacts DEF TypeOK
<1>1. CASE UNCHANGED <<poller, rec, wg>>
  BY <1>1 DEF WgInv, LiveP, LiveR
<1>2. CASE Serve
  <2>1. LiveP' = LiveP \cup {1} /\ 1 \notin LiveP /\ LiveR' = LiveR /\ wg' = wg + 1
    BY <1>2 DEF Serve, Early, LiveP, LiveR
  <2>2. Cardinality(LiveP') = Cardinality(LiveP) + 1
    BY <2>1, FS_AddElement
  <2> QED BY <2>1, <2>2 DEF WgInv
<1>3. ASSUME NEW g \in Gen, Poller(g) PROVE WgInv' /\ wg' \in Nat
  <2>1. CASE PollerStart(g) \/ PollerCtx(g) \/ PollerTick(g) \/ PollerChClosed(g)
    <3>1. LiveP' = LiveP /\ LiveR' = LiveR /\ wg' = wg
      BY <2>1 DEF PollerStart, PollerCtx, PollerTick, PollerChClosed, PollerGoto, LiveP, LiveR
    <3> QED BY <3>1 DEF WgInv
  <2>2. CASE PollerSpawn(g) /\ stopped
    <3>1. LiveP' = LiveP /\ LiveR' = LiveR /\ wg' = wg
      BY <2>2 DEF PollerSpawn, LiveP, LiveR
    <3> QED BY <3>1 DEF WgInv
  <2>3. CASE PollerSpawn(g) /\ ~stopped
    <3>1. LiveP' = LiveP /\ LiveR' = LiveR \cup {g} /\ g \notin LiveR /\ wg' = wg + 1
      BY <2>3 DEF PollerSpawn, RecAfterPoller, LiveP, LiveR
    <3>2. Cardinality(LiveR') = Cardinality(LiveR) + 1
      BY <3>1, FS_AddElement
    <3> QED BY <3>1, <3>2 DEF WgInv
  <2>4. CASE PollerExit(g)
    <3>1. LiveP' = LiveP \ {g} /\ g \in LiveP /\ LiveR' = LiveR /\ wg' = wg - 1
      BY <2>4 DEF PollerExit, LiveP, LiveR
    <3>2. Cardinality(LiveP') = Cardinality(LiveP) - 1 /\ Cardinality(LiveP') \in Nat
      BY <3>1, FS_RemoveElement, FS_CardinalityType
    <3> QED BY <3>1, <3>2 DEF WgInv
  <2> QED BY <1>3, <2>1, <2>2, <2>3, <2>4 DEF Poller
<1>4. ASSUME NEW g \in Gen, Rec(g) PROVE WgInv' /\ wg' \in Nat
  <2>1. CASE RecTop(g) \/ RecDialFails(g) \/ RecDialOk(g) \/ RecSwap(g) \/ RecNotify(g)
    <3>1. LiveP' = LiveP /\ LiveR' = LiveR /\ wg' = wg
      BY <2>1 DEF RecTop, RecDialFails, RecDialOk, RecSwap, RecNotify, RecGoto, LiveP, LiveR
    <3> QED BY <3>1 DEF WgInv
  <2>2. CASE RecStartPoller(g) /\ stopped
    <3>1. LiveP' = LiveP /\ LiveR' = LiveR /\ wg' = wg
      BY <2>2 DEF RecStartPoller, LiveP, LiveR
    <3> QED BY <3>1 DEF WgInv
  <2>3. CASE RecStartPoller(g) /\ ~stopped
    <3>1. g + 1 \in Gen /\ poller[g + 1] = "none"
      BY <2>3 DEF RecStartPoller, RecBound, Chain
    <3>2. LiveP' = LiveP \cup {g + 1} /\ g + 1 \notin LiveP /\ LiveR' = LiveR /\ wg' = wg + 1
      BY <2>3, <3>1 DEF RecStartPoller, LiveP, LiveR
    <3>3. Cardinality(LiveP') = Cardinality(LiveP) + 1
      BY <3>2, FS_AddElement
    <3> QED BY <3>2, <3>3 DEF WgInv
  <2>4. CASE RecReturn(g)
    <3>1. LiveP' = LiveP /\ LiveR' = LiveR \ {g} /\ g \in LiveR /\ wg' = wg - 1
      BY <2>4 DEF RecReturn, LiveP, LiveR
    <3>2. Cardinality(LiveR') = Cardinality(LiveR) - 1 /\ Cardinality(LiveR') \in Nat
      BY <3>1, FS_RemoveElement, FS_CardinalityType
    <3> QED BY <3>1, <3>2 DEF WgInv
  <2> QED BY <1>4, <2>1, <2>2, <2>3, <2>4 DEF Rec
<1>5. CASE Main /\ ~Serve
  BY <1>1, <1>5, MainFrame DEF goVars
<1> QED
  BY <1>1, <1>2, <1>3, <1>4, <1>5 DEF Next, DeadlinePasses, Cancel, CtxClosesListener, StopChCancels,
    Drop, Accept, Register, Leave, SetViewer, goVars, vars

LEMMA TypeStep ==
  ASSUME TypeOK, RecBound, CmdInv, wg' \in Nat, [Next]_vars
  PROVE  TypeOK'
<1> USE GenFacts, BoundsAssumption DEF TypeOK
<1>1. CASE Main
  <2> USE DEF MainPC, PollerPC, goVars, connVars, stopVars, mainVars, NoConn, Goto, Halt, Close
  <2>1. CASE SendOk
    BY <2>1 DEF SendOk, CmdInv, Sending
  <2>2. CASE StopClose
    BY <2>2 DEF StopClose
  <2>3. CASE Serve
    BY <2>3 DEF Serve
  <2>4. CASE DialOk
    BY <2>4 DEF DialOk
  <2>5. CASE DialGivesUp
    BY <2>5 DEF DialGivesUp
  <2>6. CASE BootWait
    BY <2>6 DEF BootWait
  <2>7. CASE NextCommand
    BY <2>7 DEF NextCommand
  <2>8. CASE CommandsSent
    BY <2>8 DEF CommandsSent
  <2>9. CASE SendFails
    BY <2>9 DEF SendFails
  <2>10. CASE RetryFails
    BY <2>10 DEF RetryFails
  <2>11. CASE WaitArm
    BY <2>11 DEF WaitArm
  <2>12. CASE WaitWake
    BY <2>12 DEF WaitWake
  <2>13. CASE WaitRecheck
    BY <2>13 DEF WaitRecheck
  <2>14. CASE StopSignal
    BY <2>14 DEF StopSignal
  <2>15. CASE StopMark
    BY <2>15 DEF StopMark
  <2>16. CASE StopNotify
    BY <2>16 DEF StopNotify
  <2>17. CASE Join
    BY <2>17 DEF Join
  <2> QED BY <1>1, <2>1, <2>2, <2>3, <2>4, <2>5, <2>6, <2>7, <2>8, <2>9, <2>10, <2>11, <2>12, <2>13, <2>14, <2>15, <2>16, <2>17 DEF Main
<1>2. ASSUME NEW g \in Gen, Poller(g) PROVE TypeOK'
  BY <1>2 DEF Poller, PollerStart, PollerCtx, PollerTick, PollerChClosed, PollerSpawn, PollerExit,
    PollerGoto, PollerPC, RecPC, goVars, connVars, stopVars, mainVars
<1>3. ASSUME NEW g \in Gen, Rec(g) PROVE TypeOK'
  <2> USE DEF RecGoto, PollerPC, RecPC, goVars, connVars, stopVars, mainVars
  <2>1. CASE RecTop(g) \/ RecDialFails(g)
    BY <2>1 DEF RecTop, RecDialFails
  <2>5. CASE RecNotify(g)
    BY <2>5 DEF RecNotify
  <2>6. CASE RecReturn(g)
    BY <2>6 DEF RecReturn
  <2>2. CASE RecDialOk(g)
    BY <2>2 DEF RecDialOk
  <2>3. CASE RecSwap(g)
    <3>1. g + 1 \in 0 .. MaxConn
      BY <2>3 DEF RecSwap, RecBound, Gen
    <3> QED BY <2>3, <3>1 DEF RecSwap, Close
  <2>4. CASE RecStartPoller(g)
    BY <2>4 DEF RecStartPoller
  <2> QED BY <1>3, <2>1, <2>2, <2>3, <2>4, <2>5, <2>6 DEF Rec
<1> QED
  BY <1>1, <1>2, <1>3 DEF Next, DeadlinePasses, Cancel, CtxClosesListener, StopChCancels,
    Drop, Accept, Register, Leave, SetViewer, goVars, connVars, stopVars, mainVars, vars

\* The steps of main that leave the connection alone: everything up to Serve is
\* Early, and after it only StopMark writes ss.conn.
LEMMA EarlyStep ==
  ASSUME TypeOK, Early, Chain, RecAfterPoller, StopPC, NoOrphan, [Next]_vars
  PROVE  Early'
<1> USE DEF Early, TypeOK
<1>1. CASE Main
  BY <1>1 DEF Main, Serve, DialOk, DialGivesUp, Halt, Goto, BootWait, NextCommand, CommandsSent, SendOk,
    SendFails, RetryFails, WaitArm, WaitWake, WaitRecheck, StopSignal, StopMark, StopClose, StopNotify,
    Join, goVars, connVars, stopVars, mainVars
<1>2. ASSUME NEW g \in Gen, Poller(g) PROVE Early'
  BY <1>2 DEF Poller, PollerStart, PollerCtx, PollerTick, PollerChClosed, PollerSpawn, PollerExit,
    PollerGoto, connVars, mainVars
<1>3. ASSUME NEW g \in Gen, Rec(g) PROVE Early'
  BY <1>3 DEF Rec, RecTop, RecDialFails, RecDialOk, RecSwap, RecNotify, RecStartPoller, RecReturn,
    RecGoto, mainVars
<1> QED
  BY <1>1, <1>2, <1>3 DEF Next, DeadlinePasses, Cancel, CtxClosesListener, StopChCancels,
    Drop, Accept, Register, Leave, SetViewer, goVars, connVars, stopVars, mainVars, vars

LEMMA StopPCStep ==
  ASSUME TypeOK, Early, StopPC, [Next]_vars
  PROVE  StopPC'
<1> USE DEF StopPC, TypeOK, NoConn
<1>1. CASE Main
  BY <1>1 DEF Main, Serve, DialOk, DialGivesUp, Halt, Goto, BootWait, NextCommand, CommandsSent, SendOk,
    SendFails, RetryFails, WaitArm, WaitWake, WaitRecheck, StopSignal, StopMark, StopClose, StopNotify,
    Join, connVars, stopVars
<1>2. ASSUME NEW g \in Gen, Poller(g) PROVE StopPC'
  BY <1>2 DEF Poller, PollerStart, PollerCtx, PollerTick, PollerChClosed, PollerSpawn, PollerExit,
    PollerGoto, connVars, mainVars, stopVars
<1>3. ASSUME NEW g \in Gen, Rec(g) PROVE StopPC'
  BY <1>3, GenFacts DEF Rec, RecTop, RecDialFails, RecDialOk, RecSwap, RecNotify, RecStartPoller,
    RecReturn, RecGoto, connVars, mainVars, stopVars
<1> QED
  BY <1>1, <1>2, <1>3 DEF Next, DeadlinePasses, Cancel, CtxClosesListener, StopChCancels,
    Drop, Accept, Register, Leave, SetViewer, goVars, connVars, stopVars, mainVars, vars

LEMMA OwnerStep ==
  ASSUME TypeOK, Chain, RecAfterPoller, RecBound, Early, StopPC, Owner, OneDriver, [Next]_vars
  PROVE  Owner'
<1> USE GenFacts DEF Owner, TypeOK, PollerRuns, RecRuns, OneDriver
<1>1. CASE Main
  <2>1. CASE Serve
    BY <1>1, <2>1 DEF Serve, Early
  <2>2. CASE ~Serve
    <3>1. UNCHANGED <<poller, rec>>
      BY <1>1, <2>2, MainFrame DEF goVars
    <3>2. stopped' \/ (~stopped /\ conn' = conn)
      BY <1>1, <2>2 DEF Main, DialOk, DialGivesUp, Halt, Goto, BootWait, NextCommand, CommandsSent,
        SendOk, SendFails, RetryFails, WaitArm, WaitWake, WaitRecheck, StopSignal, StopMark, StopClose,
        StopNotify, Join, connVars, stopVars, StopPC
    <3> QED BY <3>1, <3>2
  <2> QED BY <2>1, <2>2
<1>2. ASSUME NEW g \in Gen, Poller(g) PROVE Owner'
  BY <1>2 DEF Poller, PollerStart, PollerCtx, PollerTick, PollerChClosed, PollerSpawn, PollerExit,
    PollerGoto, connVars, stopVars, RecAfterPoller
<1>3. ASSUME NEW g \in Gen, Rec(g) PROVE Owner'
  <2> USE DEF RecGoto, connVars, stopVars
  <2>1. CASE RecTop(g) \/ RecDialFails(g) \/ RecDialOk(g) \/ RecNotify(g) \/ RecReturn(g)
    BY <2>1 DEF RecTop, RecDialFails, RecDialOk, RecNotify, RecReturn
  <2>2. CASE RecSwap(g)
    BY <2>2 DEF RecSwap
  <2>3. CASE RecStartPoller(g)
    BY <2>3 DEF RecStartPoller
  <2> QED BY <1>3, <2>1, <2>2, <2>3 DEF Rec
<1> QED
  BY <1>1, <1>2, <1>3 DEF Next, DeadlinePasses, Cancel, CtxClosesListener, StopChCancels,
    Drop, Accept, Register, Leave, SetViewer, goVars, connVars, stopVars, mainVars, vars

LEMMA CurStep ==
  ASSUME TypeOK, Early, StopPC, Owner, CurInv, [Next]_vars
  PROVE  CurInv'
<1> USE GenFacts DEF CurInv, TypeOK, StopPC, NoConn
<1>1. CASE Main
  BY <1>1 DEF Main, Serve, DialOk, DialGivesUp, Halt, Goto, BootWait, NextCommand, CommandsSent, SendOk,
    SendFails, RetryFails, WaitArm, WaitWake, WaitRecheck, StopSignal, StopMark, StopClose, StopNotify,
    Join, connVars, stopVars, Early
<1>2. ASSUME NEW g \in Gen, Poller(g) PROVE CurInv'
  BY <1>2 DEF Poller, PollerStart, PollerCtx, PollerTick, PollerChClosed, PollerSpawn, PollerExit,
    PollerGoto, connVars, mainVars, stopVars
<1>3. ASSUME NEW g \in Gen, Rec(g) PROVE CurInv'
  BY <1>3 DEF Rec, RecTop, RecDialFails, RecDialOk, RecSwap, RecNotify, RecStartPoller,
    RecReturn, RecGoto, connVars, mainVars, stopVars, Owner
<1> QED
  BY <1>1, <1>2, <1>3 DEF Next, DeadlinePasses, Cancel, CtxClosesListener, StopChCancels,
    Drop, Accept, Register, Leave, SetViewer, goVars, connVars, stopVars, mainVars, vars

LEMMA CmdStep ==
  ASSUME TypeOK, CmdInv, [Next]_vars
  PROVE  CmdInv'
<1> USE DEF CmdInv, Sending, TypeOK
<1>1. CASE Main
  BY <1>1 DEF Main, Serve, DialOk, DialGivesUp, Halt, Goto, BootWait, NextCommand, CommandsSent, SendOk,
    SendFails, RetryFails, WaitArm, WaitWake, WaitRecheck, StopSignal, StopMark, StopClose, StopNotify,
    Join
<1>2. ASSUME NEW g \in Gen, Poller(g) PROVE CmdInv'
  BY <1>2 DEF Poller, PollerStart, PollerCtx, PollerTick, PollerChClosed, PollerSpawn, PollerExit,
    PollerGoto, mainVars
<1>3. ASSUME NEW g \in Gen, Rec(g) PROVE CmdInv'
  BY <1>3 DEF Rec, RecTop, RecDialFails, RecDialOk, RecSwap, RecNotify, RecStartPoller, RecReturn,
    RecGoto, mainVars
<1> QED
  BY <1>1, <1>2, <1>3 DEF Next, DeadlinePasses, Cancel, CtxClosesListener, StopChCancels,
    Drop, Accept, Register, Leave, SetViewer, mainVars, vars

\* Nothing starts a goroutine once Wait has returned.
LEMMA QuietStep ==
  ASSUME TypeOK, WgInv, Quiet, [Next]_vars
  PROVE  Quiet'
<1> USE DEF Quiet, TypeOK
<1>1. CASE Main
  <2>1. CASE Join
    <3>1. Cardinality(LiveP) = 0 /\ Cardinality(LiveR) = 0
      BY <2>1, LiveFinite DEF Join, WgInv
    <3>2. LiveP = {} /\ LiveR = {}
      BY <3>1, LiveFinite, FS_EmptySet
    <3> QED BY <2>1, <3>2 DEF Join, goVars, LiveP, LiveR
  <2>2. CASE ~Join
    BY <1>1, <2>2 DEF Main, Serve, DialOk, DialGivesUp, Halt, Goto, BootWait, NextCommand, CommandsSent,
      SendOk, SendFails, RetryFails, WaitArm, WaitWake, WaitRecheck, StopSignal, StopMark, StopClose,
      StopNotify
  <2> QED BY <2>1, <2>2
<1>2. ASSUME NEW g \in Gen, Poller(g) PROVE Quiet'
  BY <1>2 DEF Poller, PollerStart, PollerCtx, PollerTick, PollerChClosed, PollerSpawn, PollerExit,
    PollerGoto, mainVars, LiveP, LiveR
<1>3. ASSUME NEW g \in Gen, Rec(g) PROVE Quiet'
  BY <1>3 DEF Rec, RecTop, RecDialFails, RecDialOk, RecSwap, RecNotify, RecStartPoller, RecReturn,
    RecGoto, mainVars, LiveP, LiveR
<1> QED
  BY <1>1, <1>2, <1>3 DEF Next, DeadlinePasses, Cancel, CtxClosesListener, StopChCancels,
    Drop, Accept, Register, Leave, SetViewer, mainVars, goVars, vars, LiveP, LiveR

LEMMA OrphanStep ==
  ASSUME TypeOK, RecAfterPoller, RecBound, Early, StopPC, Owner, OneDriver, NoOrphan, [Next]_vars
  PROVE  NoOrphan'
<1> USE GenFacts DEF NoOrphan, Open, TypeOK
<1>1. CASE Main
  <2> USE DEF Goto, Halt, Close, goVars, connVars, stopVars, mainVars
  <2>1. CASE DialOk
    BY <2>1 DEF DialOk
  <2>2. CASE Serve
    BY <2>2 DEF Serve, Early
  <2>3. CASE DialGivesUp
    BY <2>3 DEF DialGivesUp, Early
  <2>4. CASE StopMark
    BY <2>4 DEF StopMark
  <2>5. CASE StopClose
    BY <2>5 DEF StopClose
  <2>6. CASE BootWait
    BY <2>6 DEF BootWait
  <2>7. CASE NextCommand
    BY <2>7 DEF NextCommand
  <2>8. CASE CommandsSent \/ SendOk \/ SendFails \/ RetryFails \/ WaitRecheck
    BY <2>8 DEF CommandsSent, SendOk, SendFails, RetryFails, WaitRecheck
  <2>9. CASE WaitArm
    BY <2>9 DEF WaitArm
  <2>10. CASE WaitWake
    BY <2>10 DEF WaitWake
  <2>11. CASE StopSignal \/ StopNotify \/ Join
    BY <2>11 DEF StopSignal, StopNotify, Join
  <2> QED
    BY <1>1, <2>1, <2>2, <2>3, <2>4, <2>5, <2>6, <2>7, <2>8, <2>9, <2>10, <2>11 DEF Main
<1>2. ASSUME NEW g \in Gen, Poller(g) PROVE NoOrphan'
  BY <1>2 DEF Poller, PollerStart, PollerCtx, PollerTick, PollerChClosed, PollerSpawn, PollerExit,
    PollerGoto, connVars, mainVars, stopVars, RecAfterPoller
<1>3. ASSUME NEW g \in Gen, Rec(g) PROVE NoOrphan'
  <2> USE DEF RecGoto, connVars, mainVars, stopVars
  <2>1. CASE RecTop(g) \/ RecDialFails(g) \/ RecNotify(g)
    BY <2>1 DEF RecTop, RecDialFails, RecNotify
  <2>2. CASE RecDialOk(g)
    BY <2>2 DEF RecDialOk
  <2>3. CASE RecSwap(g)
    <3>1. \A h \in Gen : rec[h] = "swap" => h = g
      BY <2>3 DEF RecSwap, OneDriver, RecRuns
    <3>2. main \notin {"dial", "setup"} /\ (main = "close" => stopped)
      BY <2>3 DEF RecSwap, Early, StopPC
    <3> QED BY <2>3, <3>1, <3>2 DEF RecSwap, Close
  <2>4. CASE RecStartPoller(g) \/ RecReturn(g)
    BY <2>4 DEF RecStartPoller, RecReturn
  <2> QED BY <1>3, <2>1, <2>2, <2>3, <2>4 DEF Rec
<1>4. ASSUME NEW g \in Gen, Drop(g) PROVE NoOrphan'
  BY <1>4 DEF Drop, goVars, mainVars, stopVars
<1> QED
  BY <1>1, <1>2, <1>3, <1>4 DEF Next, DeadlinePasses, Cancel, CtxClosesListener, StopChCancels,
    Accept, Register, Leave, SetViewer, goVars, connVars, stopVars, mainVars, vars

-----------------------------------------------------------------------------
THEOREM InitIInv == Init => IInv
<1> SUFFICES ASSUME Init PROVE IInv
  OBVIOUS
<1> USE GenFacts, BoundsAssumption DEF Init
<1>1. TypeOK
  <2>1. NoConn \in 0 .. MaxConn /\ 0 \in 0 .. Commands
    BY DEF NoConn
  <2>2. /\ sock \in [Gen -> {"none", "up", "dropped", "closed"}]
        /\ viewer \in [Viewers -> {"away", "accepted", "served", "closed"}]
    OBVIOUS
  <2>3. poller \in [Gen -> PollerPC] /\ rec \in [Gen -> RecPC] /\ cancelled \in [Gen -> BOOLEAN]
    BY DEF PollerPC, RecPC
  <2> QED BY <2>1, <2>2, <2>3 DEF TypeOK, MainPC
<1>2. LiveP = {} /\ LiveR = {}
  BY DEF LiveP, LiveR
<1>3. WgInv /\ Quiet
  BY <1>2, FS_EmptySet DEF WgInv, Quiet
<1>4. Chain /\ RecAfterPoller /\ RecBound /\ Early /\ StopPC /\ CurInv /\ CmdInv
  BY DEF Chain, RecAfterPoller, RecBound, Early, StopPC, CurInv, CmdInv, Sending, NoConn
<1>5. Owner /\ NoOrphan
  BY DEF Owner, NoOrphan, PollerRuns, Open
<1> QED BY <1>1, <1>3, <1>4, <1>5 DEF IInv

THEOREM StepIInv == IInv /\ [Next]_vars => IInv'
<1> SUFFICES ASSUME IInv, [Next]_vars PROVE IInv'
  OBVIOUS
<1> USE DEF IInv
<1>1. WgInv' /\ wg' \in Nat
  BY WgStep
<1>2. TypeOK'
  BY <1>1, TypeStep
<1>3. Chain' /\ RecAfterPoller' /\ RecBound' /\ Early' /\ StopPC'
  BY HandoverStep, RecBoundStep, EarlyStep, StopPCStep
<1>4. Owner' /\ NoOrphan'
  BY OneDriverFact, OwnerStep, OrphanStep
<1>5. Quiet' /\ CurInv' /\ CmdInv'
  BY QuietStep, CurStep, CmdStep
<1> QED BY <1>1, <1>2, <1>3, <1>4, <1>5

THEOREM Inductive == Spec => []IInv
BY InitIInv, StepIInv, PTL DEF Spec

\* The types, and in particular that the wait group's counter never goes
\* negative (a negative counter panics), hold in every reachable state.
THEOREM TypeCorrect == Spec => []TypeOK
<1>1. IInv => TypeOK
  BY DEF IInv
<1> QED BY <1>1, Inductive, PTL

\* One goroutine drives the upstream, however often the guest reboots.
THEOREM OneDriverThm == Spec => []OneDriver
<1>1. IInv => OneDriver
  BY OneDriverFact DEF IInv
<1> QED BY <1>1, Inductive, PTL

\* A poller works on its own connection (heartbeats and reconnects).
THEOREM PollerOwnsConnThm == Spec => []PollerOwnsConn
<1>1. IInv => PollerOwnsConn
  BY DEF IInv, Owner, PollerOwnsConn
<1> QED BY <1>1, Inductive, PTL

\* No connection is orphaned by a race of swapConn and Stop.
THEOREM NoOrphanThm == Spec => []NoOrphan
<1>1. IInv => NoOrphan
  BY DEF IInv
<1> QED BY <1>1, Inductive, PTL

\* A step that returns ActionContinue leaves no connection, listener, poller or
\* reconnector behind.
THEOREM CleanStopThm == Spec => []CleanStop
<1>1. ASSUME IInv, main = "done" PROVE CleanStop
  <2> USE <1>1, GenFacts DEF IInv
  <2>1. stopped /\ conn = NoConn /\ listener # "open"
    BY DEF StopPC
  <2>2. \A g \in Gen : poller[g] \in {"none", "done"} /\ rec[g] \in {"none", "done"}
    BY DEF Quiet, LiveP, LiveR
  <2>3. \A g \in Gen : ~Open(g)
    BY <2>1, <2>2 DEF NoOrphan, NoConn
  <2> QED BY <2>1, <2>2, <2>3 DEF CleanStop
<1>2. IInv => CleanStop
  BY <1>1 DEF CleanStop
<1> QED BY <1>2, Inductive, PTL

\* A retried boot command is typed on a connection newer than the one that failed.
THEOREM RetryOnNewerThm == Spec => RetryOnNewer
<1>1. ASSUME IInv, [Next]_vars
      PROVE  [main = "recheck" /\ main' = "retry" => cur' > cur]_vars
  <2>1. SUFFICES ASSUME main = "recheck", main' = "retry" PROVE cur' > cur
    OBVIOUS
  <2>2. WaitRecheck
    BY <1>1, <2>1 DEF Next, vars, mainVars, Main, DialOk, DialGivesUp, Halt, Serve, BootWait, NextCommand,
      CommandsSent, SendOk, SendFails, RetryFails, WaitArm, WaitWake, StopSignal, StopMark, StopClose,
      StopNotify, Join, Goto, DeadlinePasses, Cancel, CtxClosesListener, Poller, PollerStart, PollerCtx,
      PollerTick, PollerChClosed, PollerSpawn, PollerExit, PollerGoto, Rec, RecTop, RecDialFails,
      RecDialOk, RecSwap, RecNotify, RecStartPoller, RecReturn, RecGoto, StopChCancels, Drop, Accept,
      Register, Leave, SetViewer
  <2>3. ~stopped /\ cur <= conn /\ conn \in Nat /\ cur \in Nat
    BY <1>1, <2>1 DEF IInv, StopPC, CurInv, TypeOK
  <2> QED BY <2>1, <2>2, <2>3 DEF WaitRecheck, Goto
<1> QED BY <1>1, Inductive, PTL DEF Spec, RetryOnNewer

-----------------------------------------------------------------------------
\* Every step of the view server is a step of VncSlot or leaves the slot alone.
THEOREM SlotRefinement == Spec => SlotSpec
<1> USE GenFacts DEF NoConn
<1>1. Init => Slot!Init
  BY DEF Init, Slot!Init
<1>2. ASSUME IInv, [Next]_vars PROVE [Slot!Next]_Slot!vars
  <2> USE <1>2 DEF IInv, Slot!Next, Slot!vars
  <2>1. CASE UNCHANGED <<conn, stopped>>
    BY <2>1
  <2>2. CASE Serve
    BY <2>2 DEF Serve, Early, StopPC, Slot!Take
  <2>3. CASE StopMark
    BY <2>3 DEF StopMark, StopPC, Slot!Release
  <2>4. ASSUME NEW g \in Gen, RecSwap(g) PROVE [Slot!Next]_Slot!vars
    BY <2>4 DEF RecSwap, RecGoto, stopVars, Owner, Slot!Replace
  <2>5. CASE Main /\ ~Serve /\ ~StopMark
    BY <2>1, <2>5 DEF Main, DialOk, DialGivesUp, Halt, BootWait, NextCommand, CommandsSent, SendOk,
      SendFails, RetryFails, WaitArm, WaitWake, WaitRecheck, StopSignal, StopClose, StopNotify, Join,
      Goto, connVars, stopVars
  <2>6. ASSUME NEW g \in Gen, Rec(g), ~RecSwap(g) PROVE UNCHANGED <<conn, stopped>>
    BY <2>6 DEF Rec, RecTop, RecDialFails, RecDialOk, RecNotify, RecStartPoller, RecReturn, RecGoto,
      connVars, stopVars
  <2>7. ASSUME NEW g \in Gen, Poller(g) PROVE UNCHANGED <<conn, stopped>>
    BY <2>7 DEF Poller, PollerStart, PollerCtx, PollerTick, PollerChClosed, PollerSpawn, PollerExit,
      PollerGoto, connVars, stopVars
  <2> QED
    BY <2>1, <2>2, <2>3, <2>4, <2>5, <2>6, <2>7 DEF Next, DeadlinePasses, Cancel, CtxClosesListener,
      StopChCancels, Drop, Accept, Register, Leave, SetViewer, connVars, stopVars, vars
<1> QED BY <1>1, <1>2, Inductive, PTL DEF Spec, SlotSpec, Slot!Spec

-----------------------------------------------------------------------------
(* What RunReturns and CancelEndsGoroutines rest on: a goroutine that is   *)
(* told to end has a step to take, and only so many steps left.            *)

\* The control points ahead of poller g and of reconnector g, a cancelled one for rec.
PollerLeft(g) ==
  CASE poller[g] = "none"  -> 5
    [] poller[g] = "start" -> 4
    [] poller[g] = "loop"  -> 3
    [] poller[g] = "spawn" -> 2
    [] poller[g] = "exit"  -> 1
    [] poller[g] = "done"  -> 0
RecLeft(g) ==
  CASE rec[g] = "none"   -> 7
    [] rec[g] = "dial"   -> 6
    [] rec[g] = "top"    -> 5
    [] rec[g] = "swap"   -> 4
    [] rec[g] = "notify" -> 3
    [] rec[g] = "poll"   -> 2
    [] rec[g] = "ret"    -> 1
    [] rec[g] = "done"   -> 0

\* No poller is started twice and none goes back; nor does a reconnector whose context is
\* done, whatever it is doing, and its context stays done.  So after a cancellation the
\* goroutines of all generations together have a bounded number of steps left.
GoroutinesRunDown ==
  [][\A g \in Gen :
       /\ PollerLeft(g)' <= PollerLeft(g) /\ (Poller(g) => PollerLeft(g)' < PollerLeft(g))
       /\ RecCtxDone(g) => /\ RecCtxDone(g)'
                           /\ RecLeft(g)' <= RecLeft(g) /\ (Rec(g) => RecLeft(g)' < RecLeft(g))]_vars

PollerCanMove(g) ==
  \/ poller[g] \in {"start", "spawn", "exit"}
  \/ poller[g] = "loop" /\ (PollerCtxDone(g) \/ stopped \/ conn = NoConn \/ sock[conn] # "up" \/ sock[g] # "up")

\* After Stop or a cancellation no poller waits for a message that does not come, and Wait
\* waits only for goroutines there are, whose contexts can all be cancelled.
NoGoroutineStuck ==
  /\ stopped \/ ctxDone => \A g \in LiveP : PollerCanMove(g)
  /\ main = "join" => stopCh /\ (wg = 0 \/ LiveP # {} \/ LiveR # {})

StopSignalled == main \in {"mark", "close", "notify", "join", "done"} => stopCh

LEMMA StopSignalledThm == Spec => []StopSignalled
<1>1. Init => StopSignalled
  BY DEF Init, StopSignalled
<1>2. StopSignalled /\ [Next]_vars => StopSignalled'
  BY DEF StopSignalled, Next, vars, mainVars, stopVars, Main, DialOk, DialGivesUp, Halt, Serve, BootWait,
    NextCommand, CommandsSent, SendOk, SendFails, RetryFails, WaitArm, WaitWake, WaitRecheck, StopSignal,
    StopMark, StopClose, StopNotify, Join, Goto, DeadlinePasses, Cancel, CtxClosesListener, Poller,
    PollerStart, PollerCtx, PollerTick, PollerChClosed, PollerSpawn, PollerExit, PollerGoto, Rec, RecTop,
    RecDialFails, RecDialOk, RecSwap, RecNotify, RecStartPoller, RecReturn, RecGoto, StopChCancels, Drop,
    Accept, Register, Leave, SetViewer
<1> QED BY <1>1, <1>2, PTL DEF Spec

\* Stop and a cancellation reach every poller, and Wait is not left waiting for nobody.
THEOREM NoGoroutineStuckThm == Spec => []NoGoroutineStuck
<1>1. ASSUME IInv, StopSignalled PROVE NoGoroutineStuck
  <2>1. ASSUME stopped \/ ctxDone, NEW g \in LiveP PROVE PollerCanMove(g)
    BY <1>1, <2>1 DEF IInv, TypeOK, PollerPC, LiveP, PollerCanMove, PollerCtxDone
  <2>2. LiveP = {} /\ LiveR = {} => wg = 0
    BY <1>1, FS_EmptySet DEF IInv, WgInv
  <2> QED BY <1>1, <2>1, <2>2 DEF NoGoroutineStuck, StopSignalled
<1> QED BY <1>1, Inductive, StopSignalledThm, PTL

\* The goroutines run down, for any number of reconnects and in every interleaving.
THEOREM GoroutinesRunDownThm == Spec => GoroutinesRunDown
<1> USE GenFacts
<1>1. ASSUME IInv, IInv', [Next]_vars, NEW g \in Gen
      PROVE  /\ PollerLeft(g)' <= PollerLeft(g) /\ (Poller(g) => PollerLeft(g)' < PollerLeft(g))
             /\ RecCtxDone(g) => /\ RecCtxDone(g)'
                                 /\ RecLeft(g)' <= RecLeft(g) /\ (Rec(g) => RecLeft(g)' < RecLeft(g))
  <2>1. TypeOK /\ TypeOK' /\ Chain /\ RecAfterPoller /\ RecBound /\ Early
    BY <1>1 DEF IInv
  <2>2. ASSUME poller'[g] = poller[g] PROVE PollerLeft(g)' <= PollerLeft(g)
    BY <2>1, <2>2 DEF PollerLeft, TypeOK, PollerPC
  <2>3. ASSUME rec'[g] = rec[g] PROVE RecLeft(g)' <= RecLeft(g)
    BY <2>1, <2>3 DEF RecLeft, TypeOK, RecPC
  <2>4. Poller(g) => PollerLeft(g)' < PollerLeft(g)
    BY <2>1 DEF Poller, PollerStart, PollerCtx, PollerTick, PollerChClosed, PollerSpawn, PollerExit,
      PollerGoto, PollerLeft, TypeOK
  <2>5. RecCtxDone(g) /\ Rec(g) => RecLeft(g)' < RecLeft(g)
    BY <2>1 DEF Rec, RecTop, RecDialFails, RecDialOk, RecSwap, RecNotify, RecStartPoller, RecReturn,
      RecGoto, RecLeft, TypeOK
  <2>6. PollerLeft(g)' <= PollerLeft(g)
    <3>1. CASE Serve
      BY <2>1, <2>2, <3>1 DEF Serve, Early, PollerLeft, TypeOK
    <3>2. ASSUME NEW h \in Gen, RecStartPoller(h) PROVE PollerLeft(g)' <= PollerLeft(g)
      <4>1. CASE g = h + 1 /\ poller'[g] = "start"
        <5>1. poller[g] = "none"
          BY <2>1, <3>2, <4>1 DEF RecStartPoller, Chain
        <5> QED BY <4>1, <5>1 DEF PollerLeft
      <4>2. CASE ~(g = h + 1 /\ poller'[g] = "start")
        <5>1. poller'[g] = poller[g]
          BY <2>1, <3>2, <4>2 DEF RecStartPoller, TypeOK, RecBound
        <5> QED BY <2>2, <5>1
      <4> QED BY <4>1, <4>2
    <3>3. ASSUME NEW h \in Gen, Poller(h), h # g PROVE poller'[g] = poller[g]
      BY <2>1, <3>3 DEF Poller, PollerStart, PollerCtx, PollerTick, PollerChClosed, PollerSpawn, PollerExit,
        PollerGoto, TypeOK
    <3>4. ASSUME NEW h \in Gen, Rec(h), ~RecStartPoller(h) PROVE poller'[g] = poller[g]
      BY <3>4 DEF Rec, RecTop, RecDialFails, RecDialOk, RecSwap, RecNotify, RecReturn, RecGoto
    <3>5. CASE Main /\ ~Serve
      BY <2>2, <3>5, MainFrame DEF goVars
    <3>6. PollerLeft(g) \in Nat /\ PollerLeft(g)' \in Nat
      BY <2>1 DEF PollerLeft, TypeOK, PollerPC
    <3>7. ASSUME NEW h \in Gen, Poller(h) PROVE PollerLeft(g)' <= PollerLeft(g)
      BY <2>2, <2>4, <3>3, <3>6, <3>7
    <3>8. CASE DeadlinePasses \/ Cancel \/ CtxClosesListener \/ UNCHANGED vars
      BY <2>2, <3>8 DEF DeadlinePasses, Cancel, CtxClosesListener, vars, goVars
    <3>9. ASSUME NEW h \in Gen, StopChCancels(h) \/ Drop(h) PROVE poller' = poller
      BY <3>9 DEF StopChCancels, Drop, goVars
    <3>10. ASSUME NEW v \in Viewers, Accept(v) \/ Register(v) \/ Leave(v) PROVE poller' = poller
      BY <3>10 DEF Accept, Register, Leave, SetViewer, goVars
    <3> QED BY <1>1, <2>2, <3>1, <3>2, <3>4, <3>5, <3>7, <3>8, <3>9, <3>10 DEF Next
  <2>7. ASSUME RecCtxDone(g) PROVE RecCtxDone(g)' /\ RecLeft(g)' <= RecLeft(g)
    <3>1. RecCtxDone(g)'
      <4>1. ctxDone => ctxDone'
        BY <1>1 DEF Next, vars, Main, DialOk, DialGivesUp, Halt, Serve, BootWait, NextCommand, CommandsSent,
          SendOk, SendFails, RetryFails, WaitArm, WaitWake, WaitRecheck, StopSignal, StopMark, StopClose,
          StopNotify, Join, Goto, DeadlinePasses, Cancel, CtxClosesListener, Poller, PollerStart, PollerCtx,
          PollerTick, PollerChClosed, PollerSpawn, PollerExit, PollerGoto, Rec, RecTop, RecDialFails,
          RecDialOk, RecSwap, RecNotify, RecStartPoller, RecReturn, RecGoto, StopChCancels, Drop, Accept,
          Register, Leave, SetViewer
      <4>2. \A h \in Gen : cancelled[h] => cancelled'[h]
        <5>1. CASE cancelled' = cancelled
          BY <5>1
        <5>2. ASSUME NEW h \in Gen, RecReturn(h) \/ StopChCancels(h) PROVE \A k \in Gen : cancelled[k] => cancelled'[k]
          BY <2>1, <5>2 DEF RecReturn, StopChCancels, TypeOK
        <5>3. CASE Main
          BY <5>1, <5>3, MainFrame DEF Serve, goVars
        <5>4. ASSUME NEW h \in Gen, Poller(h) \/ Drop(h) \/ (Rec(h) /\ ~RecReturn(h)) PROVE cancelled' = cancelled
          BY <5>4 DEF Poller, PollerStart, PollerCtx, PollerTick, PollerChClosed, PollerSpawn, PollerExit,
            PollerGoto, Rec, RecTop, RecDialFails, RecDialOk, RecSwap, RecNotify, RecStartPoller, RecGoto, Drop,
            goVars
        <5>5. CASE DeadlinePasses \/ Cancel \/ CtxClosesListener \/ UNCHANGED vars
          BY <5>1, <5>5 DEF DeadlinePasses, Cancel, CtxClosesListener, vars, goVars
        <5>6. ASSUME NEW v \in Viewers, Accept(v) \/ Register(v) \/ Leave(v) PROVE cancelled' = cancelled
          BY <5>6 DEF Accept, Register, Leave, SetViewer, goVars
        <5> QED BY <1>1, <5>1, <5>2, <5>3, <5>4, <5>5, <5>6 DEF Next
      <4> QED BY <2>7, <4>1, <4>2 DEF RecCtxDone
    <3>2. RecLeft(g) \in Nat /\ RecLeft(g)' \in Nat
      BY <2>1 DEF RecLeft, TypeOK, RecPC
    <3>3. ASSUME NEW h \in Gen, Rec(h) PROVE RecLeft(g)' <= RecLeft(g)
      <4>1. h # g => rec'[g] = rec[g]
        BY <2>1, <3>3 DEF Rec, RecTop, RecDialFails, RecDialOk, RecSwap, RecNotify, RecStartPoller, RecReturn,
          RecGoto, TypeOK
      <4> QED BY <2>3, <2>5, <2>7, <3>2, <3>3, <4>1
    <3>4. ASSUME NEW h \in Gen, Poller(h) PROVE RecLeft(g)' <= RecLeft(g)
      <4>1. CASE rec'[g] = rec[g]
        BY <2>3, <4>1
      <4>2. CASE rec'[g] # rec[g]
        <5>1. rec[g] = "none" /\ rec'[g] = "top"
          BY <2>1, <3>4, <4>2 DEF Poller, PollerStart, PollerCtx, PollerTick, PollerChClosed, PollerSpawn,
            PollerExit, PollerGoto, TypeOK, RecAfterPoller
        <5> QED BY <5>1 DEF RecLeft
      <4> QED BY <4>1, <4>2
    <3>5. ASSUME Main PROVE RecLeft(g)' <= RecLeft(g)
      BY <2>3, <3>5, MainFrame DEF Serve, goVars
    <3>6. ASSUME DeadlinePasses \/ Cancel \/ CtxClosesListener \/ UNCHANGED vars
          PROVE  RecLeft(g)' <= RecLeft(g)
      BY <2>3, <3>6 DEF DeadlinePasses, Cancel, CtxClosesListener, vars, goVars
    <3>7. ASSUME NEW h \in Gen, StopChCancels(h) \/ Drop(h) PROVE rec' = rec
      BY <3>7 DEF StopChCancels, Drop, goVars
    <3>8. ASSUME NEW v \in Viewers, Accept(v) \/ Register(v) \/ Leave(v) PROVE rec' = rec
      BY <3>8 DEF Accept, Register, Leave, SetViewer, goVars
    <3>9. RecLeft(g)' <= RecLeft(g)
      BY <1>1, <2>3, <3>3, <3>4, <3>5, <3>6, <3>7, <3>8 DEF Next
    <3> QED BY <3>1, <3>9
  <2> QED BY <2>4, <2>5, <2>6, <2>7
<1>2. ASSUME IInv, IInv', [Next]_vars
      PROVE  [\A g \in Gen :
                /\ PollerLeft(g)' <= PollerLeft(g) /\ (Poller(g) => PollerLeft(g)' < PollerLeft(g))
                /\ RecCtxDone(g) => /\ RecCtxDone(g)'
                                    /\ RecLeft(g)' <= RecLeft(g) /\ (Rec(g) => RecLeft(g)' < RecLeft(g))]_vars
  BY <1>1, <1>2, Zenon
<1> QED BY <1>2, Inductive, PTL DEF Spec, GoroutinesRunDown
=============================================================================
