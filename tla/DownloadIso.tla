----------------------------- MODULE DownloadIso -----------------------------
(***************************************************************************)
(* StepDownloadISO of several builds that want the same ISO from one Sylve *)
(* host: builder/sylve/iso/step_download_iso.go and the calls it makes in  *)
(* internal/client/downloads.go.                                           *)
(*                                                                         *)
(* The builds share the one download record Sylve keeps for a URL.  Each   *)
(* looks it up, may clear it, triggers a download and polls, and between   *)
(* two of its calls any other build may have made any of theirs.           *)
(***************************************************************************)
EXTENDS Integers

CONSTANTS Builds,     \* the builds that share the host
          MaxId,      \* a bound on the ids the host gives out
          ListFails,  \* the call that lists the downloads may fail
          Lossy       \* the answer to a DELETE or POST may be lost

ASSUME DownloadAssumption ==
  MaxId \in Nat \ {0} /\ ListFails \in BOOLEAN /\ Lossy \in BOOLEAN

VARIABLES
  id,       \* id of the record of the URL, 0 when there is none
  status,   \* its status
  lastId,   \* the last id given out
  pc,       \* control point of each build
  seen,     \* the id each build saw last
  iso,      \* "iso_uuid" of each build: the id it is of
  cause,    \* why a build halted
  stale,    \* the id that had failed already when the build began
  tracker   \* the progress bar of each build

hostVars  == <<id, status, lastId>>
buildVars == <<pc, seen, iso, cause, stale, tracker>>
vars == <<hostVars, buildVars>>

None == 0
Ids == 0 .. MaxId
Final == {"continue", "halt", "crashed"}

TypeOK ==
  /\ id \in Ids /\ lastId \in Ids /\ id <= lastId
  /\ status \in {"pending", "processing", "done", "failed"}
  /\ pc \in [Builds -> {"idle", "find", "clear", "trigger", "head", "poll"} \cup Final]
  /\ seen \in [Builds -> Ids] /\ iso \in [Builds -> Ids] /\ stale \in [Builds -> Ids]
  /\ cause \in [Builds -> {"none", "clear", "trigger", "ctx", "timeout", "failed"}]
  /\ tracker \in [Builds -> {"none", "open", "done", "cancelled"}]

\* A record that an earlier build left behind may have failed.
Init ==
  /\ \/ id = None /\ lastId = 0
     \/ id = 1 /\ lastId = 1
  /\ status \in IF id = None THEN {"pending"} ELSE {"processing", "done", "failed"}
  /\ pc = [b \in Builds |-> "idle"] /\ seen = [b \in Builds |-> None]
  /\ iso = [b \in Builds |-> None] /\ cause = [b \in Builds |-> "none"]
  /\ stale = [b \in Builds |-> None] /\ tracker = [b \in Builds |-> "none"]

-----------------------------------------------------------------------------
(* The host *)

\* Sylve works on the record until it is done or failed, and leaves it then.
Progress ==
  /\ id # None
  /\ \/ status = "pending" /\ status' = "processing"
     \/ status = "processing" /\ status' \in {"done", "failed"}
  /\ UNCHANGED <<id, lastId, buildVars>>

\* POST /utilities/downloads: one record for each URL, with a fresh id.
ServerTriggers ==
  \/ id # None /\ UNCHANGED hostVars
  \/ id = None /\ lastId < MaxId /\ lastId' = lastId + 1 /\ id' = lastId + 1 /\ status' = "pending"

\* DELETE /utilities/downloads/:id
ServerDeletes(n) == id = n /\ id' = None /\ UNCHANGED <<status, lastId>>

ServerDeletesAny(n) == id # None /\ id' = None /\ UNCHANGED <<status, lastId>>

-----------------------------------------------------------------------------
(* StepDownloadISO.Run of build b *)

Goto(b, p) == pc' = [pc EXCEPT ![b] = p]

\* The exits.  From the poll loop on they settle the progress bar, if any.
Settle(b, how) ==
  tracker' = [tracker EXCEPT ![b] = IF @ = "open" THEN how ELSE @]

Continue(b) ==
  /\ Goto(b, "continue") /\ iso' = [iso EXCEPT ![b] = id] /\ Settle(b, "done")
  /\ UNCHANGED <<seen, cause, stale, hostVars>>

Halt(b, why) ==
  /\ Goto(b, "halt") /\ cause' = [cause EXCEPT ![b] = why] /\ Settle(b, "cancelled")
  /\ UNCHANGED <<iso, stale>>

\* The build begins.
Begin(b) ==
  /\ pc[b] = "idle" /\ Goto(b, "find")
  /\ stale' = [stale EXCEPT ![b] = IF id # None /\ status = "failed" THEN id ELSE None]
  /\ UNCHANGED <<seen, iso, cause, tracker, hostVars>>

FindDone(b) == pc[b] = "find" /\ id # None /\ status = "done" /\ Continue(b)

FindFailed(b) ==
  /\ pc[b] = "find" /\ id # None /\ status = "failed"
  /\ Goto(b, "clear") /\ seen' = [seen EXCEPT ![b] = id]
  /\ UNCHANGED <<iso, cause, stale, tracker, hostVars>>

FindActiveClears(b) ==   \* mutant: a record in progress is cleared as well
  /\ pc[b] = "find" /\ id # None /\ status \in {"pending", "processing"}
  /\ Goto(b, "clear") /\ seen' = [seen EXCEPT ![b] = id]
  /\ UNCHANGED <<iso, cause, stale, tracker, hostVars>>

FindActive(b) ==
  /\ pc[b] = "find" /\ id # None /\ status \in {"pending", "processing"} /\ Goto(b, "head")
  /\ UNCHANGED <<seen, iso, cause, stale, tracker, hostVars>>

\* No record; an error of the call counts as none.
FindNothing(b) ==
  /\ pc[b] = "find" /\ (id = None \/ ListFails) /\ Goto(b, "trigger")
  /\ UNCHANGED <<seen, iso, cause, stale, tracker, hostVars>>

ClearByUrl(b) ==   \* mutant: the record of the URL is cleared, not the one that was seen
  /\ pc[b] = "clear" /\ ServerDeletesAny(seen[b]) /\ Goto(b, "trigger")
  /\ UNCHANGED <<seen, iso, cause, stale, tracker>>

ClearWarns(b) ==   \* mutant: a refused DELETE is a warning, and the step goes on to trigger
  /\ pc[b] = "clear" /\ (ServerDeletes(seen[b]) \/ UNCHANGED hostVars) /\ Goto(b, "trigger")
  /\ UNCHANGED <<seen, iso, cause, stale, tracker>>

\* The record that was seen failing is deleted, by its id.
Clear(b) ==
  /\ pc[b] = "clear" /\ ServerDeletes(seen[b]) /\ Goto(b, "trigger")
  /\ UNCHANGED <<seen, iso, cause, stale, tracker>>

\* 404 for a record that is gone, another refusal, or no answer.
ClearFails(b) ==
  /\ pc[b] = "clear" /\ Halt(b, "clear") /\ UNCHANGED seen
  /\ \/ UNCHANGED hostVars
     \/ Lossy /\ ServerDeletes(seen[b])

Trigger(b) ==
  /\ pc[b] = "trigger" /\ ServerTriggers /\ Goto(b, "head")
  /\ UNCHANGED <<seen, iso, cause, stale, tracker>>

TriggerFails(b) ==
  /\ pc[b] = "trigger" /\ Halt(b, "trigger") /\ UNCHANGED seen
  /\ \/ UNCHANGED hostVars
     \/ Lossy /\ ServerTriggers

\* A progress bar is started when the HEAD request told a size.
StartTracker(b) ==
  /\ pc[b] = "head" /\ Goto(b, "poll")
  /\ \/ tracker' = [tracker EXCEPT ![b] = "open"]
     \/ UNCHANGED tracker
  /\ UNCHANGED <<seen, iso, cause, stale, hostVars>>

PollDone(b) == pc[b] = "poll" /\ id # None /\ status = "done" /\ Continue(b)

PollFailed(b) ==
  /\ pc[b] = "poll" /\ id # None /\ status = "failed"
  /\ Halt(b, "failed") /\ seen' = [seen EXCEPT ![b] = id] /\ UNCHANGED hostVars

\* FindDownloadByURL returns nil without an error; dl.Status is read all the same.
PollNothing(b) ==
  /\ pc[b] = "poll" /\ id = None /\ Goto(b, "crashed")
  /\ UNCHANGED <<seen, iso, cause, stale, tracker, hostVars>>

\* The context may be cancelled at any time, and the deadline may pass.  A poll
\* that fails, or sees a download in progress, goes round the loop again.
PollCancelled(b) == pc[b] = "poll" /\ Halt(b, "ctx") /\ UNCHANGED <<seen, hostVars>>

PollTimesOutNever(b) ==   \* mutant: the deadline is looked at only when the download has failed
  /\ pc[b] = "poll" /\ id # None /\ status = "failed" /\ Halt(b, "timeout") /\ UNCHANGED <<seen, hostVars>>

PollTimesOut(b) == pc[b] = "poll" /\ Halt(b, "timeout") /\ UNCHANGED <<seen, hostVars>>

Find(b)   == FindDone(b) \/ FindFailed(b) \/ FindActive(b) \/ FindNothing(b)
Change(b) == Clear(b) \/ ClearFails(b) \/ Trigger(b) \/ TriggerFails(b)
Poll(b)   == PollDone(b) \/ PollFailed(b) \/ PollNothing(b) \/ PollCancelled(b) \/ PollTimesOut(b)
Build(b)  == Begin(b) \/ Find(b) \/ Change(b) \/ StartTracker(b) \/ Poll(b)

Next == Progress \/ \E b \in Builds : Build(b)

Spec == Init /\ [][Next]_vars

\* The step is scheduled, its calls return (the client has a timeout), and the
\* deadline passes.  Nothing is assumed of the download.
FairSpec ==
  /\ Spec
  /\ \A b \in Builds :
       WF_vars(Find(b)) /\ WF_vars(Change(b)) /\ WF_vars(StartTracker(b)) /\ WF_vars(PollTimesOut(b))

-----------------------------------------------------------------------------
(* Properties *)

\* The ISO a build went on with is still on the host, whatever the other builds
\* of that URL did: nobody clears a download that somebody waits for or uses.
IsoStays == \A b \in Builds : pc[b] = "continue" => iso[b] = id /\ status = "done"

\* Only a record that has failed is ever removed: a build that saw a stale
\* record does not remove the fresh one another build put in its place.
OnlyFailedCleared == [][id # None /\ id' # id => status = "failed"]_vars

\* Every exit of the step has settled the progress bar (a pipe and a goroutine
\* reading it), and the bar is complete only if the download is.
BarSettled ==
  \A b \in Builds : pc[b] \in {"continue", "halt"} =>
    tracker[b] \in (IF pc[b] = "continue" THEN {"none", "done"} ELSE {"none", "cancelled"})

\* The stale error a build saw and cleared does not come back to fail it: the
\* record a later poll finds failed is another one, triggered since.
ClearedErrorFailsNoBuild ==
  [][\A b \in Builds : cause'[b] = "failed" /\ cause[b] # "failed" => id # seen[b]]_vars

\* A build that began ends, whatever the host and the other builds do.
BuildEnds == \A b \in Builds : pc[b] = "find" ~> pc[b] \in Final

-----------------------------------------------------------------------------
(* What comments of the source say and the code does not do *)

\* FindDownloadByURL returns "nil if not found": the caller must look.
NilIsLookedAt == \A b \in Builds : pc[b] # "crashed"

\* The stale record is cleared "instead of failing the build for a stale error".
StaleErrorFailsNoBuild == \A b \in Builds : cause[b] = "failed" => seen[b] # stale[b]

\* The same, of the clearing: it fails a build only if the stale record is
\* still there, not because another build has cleared it already.
ClearedByAnyoneIsCleared == [][\A b \in Builds : cause'[b] = "clear" /\ cause[b] # "clear" => id = seen[b]]_vars
=============================================================================
