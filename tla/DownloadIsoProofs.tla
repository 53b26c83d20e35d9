-------------------------- MODULE DownloadIsoProofs --------------------------
(***************************************************************************)
(* Theorems about DownloadIso, for any set of builds and any bound on ids. *)
(***************************************************************************)
EXTENDS DownloadIso, TLAPS

\* A build about to clear a record saw that very record fail: ids are given out
\* once, and a failed record stays failed until it is removed.
ClearsFailed == \A b \in Builds : pc[b] = "clear" => seen[b] # None /\ (seen[b] = id => status = "failed")

\* The ids that builds remember have been given out.
SeenGiven == \A b \in Builds : seen[b] <= lastId

IInv ==
  /\ TypeOK
  /\ ClearsFailed
  /\ SeenGiven
  /\ IsoStays
  /\ \A b \in Builds : pc[b] = "continue" => id # None
  /\ BarSettled
  /\ \A b \in Builds : pc[b] \notin {"poll"} \cup Final => tracker[b] = "none"
  /\ \A b \in Builds : pc[b] = "poll" => tracker[b] \in {"none", "open"}

LEMMA InitIInv == Init => IInv
  BY DownloadAssumption DEF Init, IInv, TypeOK, ClearsFailed, SeenGiven, IsoStays, BarSettled, Ids, None, Final

\* A build that leaves the record alone.
LEMMA QuietStep ==
  ASSUME IInv, NEW b \in Builds, UNCHANGED hostVars,
         \/ Begin(b) \/ FindDone(b) \/ FindFailed(b) \/ FindActive(b) \/ FindNothing(b)
         \/ StartTracker(b) \/ PollDone(b) \/ PollFailed(b) \/ PollNothing(b)
         \/ PollCancelled(b) \/ PollTimesOut(b)
         \/ (ClearFails(b) /\ UNCHANGED hostVars) \/ (TriggerFails(b) /\ UNCHANGED hostVars)
  PROVE  IInv'
<1> USE DownloadAssumption DEF IInv, TypeOK, ClearsFailed, SeenGiven, IsoStays, BarSettled, Ids, None, Final,
         hostVars, Goto, Settle
<1>1. CASE Begin(b)
  BY <1>1 DEF Begin
<1>2. CASE FindDone(b)
  BY <1>2 DEF FindDone, Continue
<1>3. CASE FindFailed(b)
  BY <1>3 DEF FindFailed
<1>4. CASE FindActive(b)
  BY <1>4 DEF FindActive
<1>5. CASE FindNothing(b)
  BY <1>5 DEF FindNothing
<1>6. CASE StartTracker(b)
  BY <1>6 DEF StartTracker
<1>7. CASE PollDone(b)
  BY <1>7 DEF PollDone, Continue
<1>8. CASE PollFailed(b)
  BY <1>8 DEF PollFailed, Halt
<1>9. CASE PollNothing(b)
  BY <1>9 DEF PollNothing
<1>10. CASE PollCancelled(b)
  BY <1>10 DEF PollCancelled, Halt
<1>11. CASE PollTimesOut(b)
  BY <1>11 DEF PollTimesOut, Halt
<1>12. CASE ClearFails(b)
  BY <1>12 DEF ClearFails, Halt
<1>13. CASE TriggerFails(b)
  BY <1>13 DEF TriggerFails, Halt
<1> QED
  BY <1>1, <1>2, <1>3, <1>4, <1>5, <1>6, <1>7, <1>8, <1>9, <1>10, <1>11, <1>12, <1>13

\* A build whose DELETE removes the record: it is the failed one it saw, so
\* nobody went on with it.
LEMMA DeletingStep ==
  ASSUME IInv, NEW b \in Builds, pc[b] = "clear", ServerDeletes(seen[b]), Clear(b) \/ ClearFails(b)
  PROVE  IInv'
<1> USE DownloadAssumption DEF IInv, TypeOK, ClearsFailed, SeenGiven, IsoStays, BarSettled, Ids, None, Final,
         Goto, Settle, ServerDeletes
<1>1. status = "failed" /\ \A c \in Builds : pc[c] # "continue"
  OBVIOUS
<1>2. CASE Clear(b)
  BY <1>1, <1>2 DEF Clear
<1>3. CASE ClearFails(b)
  BY <1>1, <1>3 DEF ClearFails, Halt
<1> QED
  BY <1>2, <1>3

\* A build whose POST reached the host: a new record has an id nobody has seen.
LEMMA TriggeringStep ==
  ASSUME IInv, NEW b \in Builds, pc[b] = "trigger", ServerTriggers, Trigger(b) \/ TriggerFails(b)
  PROVE  IInv'
<1> USE DownloadAssumption DEF IInv, TypeOK, ClearsFailed, SeenGiven, IsoStays, BarSettled, Ids, None, Final,
         Goto, Settle, ServerTriggers, hostVars
<1>1. CASE Trigger(b)
  <2>1. CASE UNCHANGED hostVars
    BY <1>1, <2>1 DEF Trigger
  <2>2. CASE id = 0 /\ lastId < MaxId /\ lastId' = lastId + 1 /\ id' = lastId + 1 /\ status' = "pending"
    BY <1>1, <2>2 DEF Trigger
  <2> QED
    BY <2>1, <2>2
<1>2. CASE TriggerFails(b)
  <2>1. CASE UNCHANGED hostVars
    BY <1>2, <2>1 DEF TriggerFails, Halt
  <2>2. CASE id = 0 /\ lastId < MaxId /\ lastId' = lastId + 1 /\ id' = lastId + 1 /\ status' = "pending"
    BY <1>2, <2>2 DEF TriggerFails, Halt
  <2> QED
    BY <2>1, <2>2
<1> QED
  BY <1>1, <1>2

LEMMA NextIInv == IInv /\ [Next]_vars => IInv'
<1> SUFFICES ASSUME IInv, [Next]_vars PROVE IInv'
  OBVIOUS
<1>1. CASE Progress
  BY <1>1, DownloadAssumption DEF Progress, IInv, TypeOK, ClearsFailed, SeenGiven, IsoStays, BarSettled, Ids,
     None, Final, buildVars
<1>2. ASSUME NEW b \in Builds, Build(b) PROVE IInv'
  <2>1. CASE Clear(b)
    BY <2>1, DeletingStep DEF Clear
  <2>2. CASE ClearFails(b)
    BY <2>2, DeletingStep, QuietStep DEF ClearFails
  <2>3. CASE Trigger(b)
    BY <2>3, TriggeringStep DEF Trigger
  <2>4. CASE TriggerFails(b)
    BY <2>4, TriggeringStep, QuietStep DEF TriggerFails
  <2>5. CASE Begin(b) \/ Find(b) \/ StartTracker(b) \/ Poll(b)
    <3>1. UNCHANGED hostVars
      BY <2>5 DEF Begin, Find, FindDone, FindFailed, FindActive, FindNothing, StartTracker, Poll, PollDone,
         PollFailed, PollNothing, PollCancelled, PollTimesOut, Continue, hostVars
    <3> QED
      BY <2>5, <3>1, QuietStep DEF Find, Poll
  <2> QED
    BY <1>2, <2>1, <2>2, <2>3, <2>4, <2>5 DEF Build, Change
<1>3. CASE UNCHANGED vars
  BY <1>3 DEF vars, hostVars, buildVars, IInv, TypeOK, ClearsFailed, SeenGiven, IsoStays, BarSettled
<1> QED
  BY <1>1, <1>2, <1>3 DEF Next

LEMMA Inductive == Spec => []IInv
  BY InitIInv, NextIInv, PTL DEF Spec

-----------------------------------------------------------------------------
\* Type correctness of the model.
THEOREM TypeCorrect == Spec => []TypeOK
<1>1. IInv => TypeOK
  BY DEF IInv
<1> QED
  BY Inductive, <1>1, PTL

\* The ISO a build went on with stays on the host, whatever other builds do.
THEOREM IsoStaysThm == Spec => []IsoStays
<1>1. IInv => IsoStays
  BY DEF IInv
<1> QED
  BY Inductive, <1>1, PTL

\* Every exit of the step settles the progress bar.
THEOREM BarSettledThm == Spec => []BarSettled
<1>1. IInv => BarSettled
  BY DEF IInv
<1> QED
  BY Inductive, <1>1, PTL

\* No build ever removes a record that has not failed.
THEOREM OnlyFailedClearedThm == Spec => OnlyFailedCleared
<1>1. IInv /\ [Next]_vars => [id # None /\ id' # id => status = "failed"]_vars
  <2> SUFFICES ASSUME IInv, Next, id # None, id' # id PROVE status = "failed"
    OBVIOUS
  <2>1. PICK b \in Builds : Build(b)
    BY DEF Next, Progress
  <2>2. pc[b] = "clear" /\ ServerDeletes(seen[b])
    BY <2>1 DEF Build, Change, Clear, ClearFails, Trigger, TriggerFails, ServerTriggers, ServerDeletes, Begin,
       Find, FindDone, FindFailed, FindActive, FindNothing, StartTracker, Poll, PollDone, PollFailed,
       PollNothing, PollCancelled, PollTimesOut, Continue, hostVars
  <2> QED
    BY <2>2 DEF IInv, ClearsFailed, ServerDeletes
<1> QED
  BY Inductive, <1>1, PTL DEF Spec, OnlyFailedCleared

\* The record a build saw fail is gone once it has got past the clearing.
ClearedGone ==
  /\ \A b \in Builds : pc[b] \in {"idle", "find"} => seen[b] = None
  /\ \A b \in Builds : pc[b] \in {"trigger", "head", "poll"} /\ seen[b] # None => id # seen[b]

LEMMA ClearedGoneStep ==
  ASSUME IInv, ClearedGone, [Next]_vars
  PROVE  ClearedGone'
<1> USE DownloadAssumption DEF ClearedGone, IInv, TypeOK, SeenGiven, Ids, None, Final, Goto, hostVars, buildVars
<1>1. CASE Progress
  BY <1>1 DEF Progress
<1>2. ASSUME NEW b \in Builds, Begin(b) \/ Find(b) \/ StartTracker(b) PROVE ClearedGone'
  BY <1>2 DEF Begin, Find, FindDone, FindFailed, FindActive, FindNothing, StartTracker, Continue
<1>3. ASSUME NEW b \in Builds, Clear(b) PROVE ClearedGone'
  BY <1>3 DEF Clear, ServerDeletes
<1>4. ASSUME NEW b \in Builds, ClearFails(b) PROVE ClearedGone'
  BY <1>4 DEF ClearFails, ServerDeletes, Halt
<1>5. ASSUME NEW b \in Builds, Trigger(b) PROVE ClearedGone'
  BY <1>5 DEF Trigger, ServerTriggers
<1>6. ASSUME NEW b \in Builds, TriggerFails(b) PROVE ClearedGone'
  BY <1>6 DEF TriggerFails, ServerTriggers, Halt
<1>7. ASSUME NEW b \in Builds, Poll(b) PROVE ClearedGone'
  BY <1>7 DEF Poll, PollDone, PollFailed, PollNothing, PollCancelled, PollTimesOut, Continue, Halt
<1>8. CASE UNCHANGED vars
  BY <1>8 DEF vars
<1> QED
  BY <1>1, <1>2, <1>3, <1>4, <1>5, <1>6, <1>7, <1>8 DEF Next, Build, Change

\* No build fails for the stale error it saw and cleared.
THEOREM ClearedErrorFailsNoBuildThm == Spec => ClearedErrorFailsNoBuild
<1>1. Init => ClearedGone
  BY DEF Init, ClearedGone
<1>2. IInv /\ ClearedGone /\ [Next]_vars => ClearedGone'
  BY ClearedGoneStep
<1>3. IInv /\ ClearedGone /\ [Next]_vars
        => [\A b \in Builds : cause'[b] = "failed" /\ cause[b] # "failed" => id # seen[b]]_vars
  <2> SUFFICES ASSUME IInv, ClearedGone, Next, NEW c \in Builds, cause'[c] = "failed", cause[c] # "failed"
               PROVE  id # seen[c]
    OBVIOUS
  <2>1. PICK b \in Builds : Build(b)
    BY DEF Next, Progress, buildVars
  <2>2. PollFailed(b)
    BY <2>1 DEF Build, Begin, Find, FindDone, FindFailed, FindActive, FindNothing, Change, Clear, ClearFails,
       Trigger, TriggerFails, StartTracker, Poll, PollDone, PollNothing, PollCancelled, PollTimesOut, Continue,
       Halt, IInv, TypeOK
  <2>3. b = c /\ pc[c] = "poll" /\ id # None
    BY <2>2 DEF PollFailed, Halt, IInv, TypeOK
  <2> QED
    BY <2>3 DEF ClearedGone
<1> QED
  BY <1>1, <1>2, <1>3, Inductive, PTL DEF Spec, ClearedErrorFailsNoBuild

-----------------------------------------------------------------------------
(* What BuildEnds rests on *)

\* The steps ahead of a build at control point p.
Left(p) ==
  CASE p = "idle"    -> 6
    [] p = "find"    -> 5
    [] p = "clear"   -> 4
    [] p = "trigger" -> 3
    [] p = "head"    -> 2
    [] p = "poll"    -> 1
    [] p \in Final   -> 0

\* Each step of a build brings its end nearer, and no other build, nor the host, puts it
\* off by what it does to the record they share.
BuildsRunDown ==
  [][\A b \in Builds : /\ Left(pc[b]) \in 0 .. 6
                       /\ Build(b) => Left(pc'[b]) < Left(pc[b])
                       /\ ~Build(b) => pc'[b] = pc[b]]_vars

\* A step moves its build forward.
LEMMA Forward ==
  ASSUME IInv, NEW b \in Builds, Build(b)
  PROVE  \E p \in {"find", "clear", "trigger", "head", "poll"} \cup Final :
            Goto(b, p) /\ Left(p) < Left(pc[b])
<1>1. CASE Begin(b)
  BY <1>1 DEF Begin, Final, Left
<1>2. CASE FindFailed(b) \/ FindActive(b) \/ FindNothing(b)
  BY <1>2 DEF FindFailed, FindActive, FindNothing, Final, Left
<1>3. CASE FindDone(b) \/ PollDone(b)
  BY <1>3 DEF FindDone, PollDone, Continue, Final, Left
<1>4. CASE Clear(b) \/ Trigger(b) \/ StartTracker(b)
  BY <1>4 DEF Clear, Trigger, StartTracker, Final, Left
<1>5. CASE ClearFails(b) \/ TriggerFails(b) \/ PollFailed(b) \/ PollCancelled(b) \/ PollTimesOut(b)
  BY <1>5 DEF ClearFails, TriggerFails, PollFailed, PollCancelled, PollTimesOut, Halt, Final, Left
<1>6. CASE PollNothing(b)
  BY <1>6 DEF PollNothing, Final, Left
<1> QED
  BY <1>1, <1>2, <1>3, <1>4, <1>5, <1>6 DEF Build, Find, Change, Poll

\* A build takes six steps at most besides polls that find nothing to act on, however many
\* builds share the record.
THEOREM BuildsRunDownThm == Spec => BuildsRunDown
<1>1. ASSUME IInv, Next, NEW b \in Builds
      PROVE  /\ Left(pc[b]) \in 0 .. 6
             /\ Build(b) => Left(pc'[b]) < Left(pc[b])
             /\ ~Build(b) => pc'[b] = pc[b]
  <2>1. Left(pc[b]) \in 0 .. 6
    BY <1>1 DEF IInv, TypeOK, Final, Left
  <2>2. CASE Build(b)
    <3>1. PICK p \in {"find", "clear", "trigger", "head", "poll"} \cup Final :
                 Goto(b, p) /\ Left(p) < Left(pc[b])
      BY <1>1, <2>2, Forward
    <3>2. pc'[b] = p
      BY <1>1, <3>1 DEF Goto, IInv, TypeOK
    <3> QED BY <2>1, <2>2, <3>1, <3>2
  <2>3. CASE ~Build(b)
    <3>1. CASE Progress
      BY <2>1, <2>3, <3>1 DEF Progress, buildVars
    <3>2. ASSUME NEW c \in Builds, Build(c) PROVE pc'[b] = pc[b]
      <4>1. PICK p : Goto(c, p)
        BY <1>1, <3>2, Forward
      <4> QED BY <1>1, <2>3, <3>2, <4>1 DEF Goto, IInv, TypeOK
    <3> QED BY <1>1, <2>1, <2>3, <3>1, <3>2 DEF Next
  <2> QED BY <2>2, <2>3
<1>2. IInv /\ [Next]_vars
        => [\A b \in Builds : /\ Left(pc[b]) \in 0 .. 6
                              /\ Build(b) => Left(pc'[b]) < Left(pc[b])
                              /\ ~Build(b) => pc'[b] = pc[b]]_vars
  BY <1>1
<1> QED BY <1>2, Inductive, PTL DEF Spec, BuildsRunDown
=============================================================================
