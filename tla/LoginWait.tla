----------------------------- MODULE LoginWait -----------------------------
(***************************************************************************)
(* Builder.ensureAuth: a login that is repeated until Sylve is up or a     *)
(* deadline passes, each login being one client.do, which itself repeats   *)
(* the POST.  Two retry loops with two notions of a temporary error.       *)
(***************************************************************************)
EXTENDS Naturals

CONSTANT MaxAttempts   \* maxHTTPAttempts
ASSUME LoginAssumption == MaxAttempts \in Nat \ {0}

VARIABLES
  pc,       \* call: before an attempt; classify; sleep; end
  user,     \* the credentials are right; the texts of errors hold the words of a transport error
  api,      \* down, gateway (a proxy answers for Sylve), up
  attempt,  \* attempt of this do
  err,      \* the error of the last attempt
  expired,  \* the login deadline has passed
  late,     \* logins begun after that, up to 2
  sessions, \* sessions Sylve opened for this login, up to 2
  lost,     \* the answer that opened one did not arrive whole
  token,    \* the token of a session is known
  outcome   \* running, session, error, timeout

vars == <<pc, user, api, attempt, err, expired, late, sessions, lost, token, outcome>>

\* What an attempt ends with: a connection refused, or one that timed out; no route to the
\* host or its network, or no address for its name, as of a host that is booting; another
\* transport error, such as a certificate that is not accepted; no answer after the request
\* was sent; an answer cut short; a 2xx answer that is not JSON; 502 to 504; 401 or 403;
\* any other status.
Errors == {"refused", "unreachable", "transport", "unanswered", "cut", "garbled", "gateway", "denied", "status"}

TypeOK ==
  /\ pc \in {"call", "classify", "sleep", "end"} /\ user \in [right : BOOLEAN, words : BOOLEAN]
  /\ api \in {"down", "gateway", "up"} /\ attempt \in 1 .. MaxAttempts /\ err \in Errors \cup {"none"}
  /\ expired \in BOOLEAN /\ late \in 0 .. 2 /\ sessions \in 0 .. 2 /\ lost \in BOOLEAN
  /\ token \in BOOLEAN /\ outcome \in {"running", "session", "error", "timeout"}

Init ==
  /\ pc = "call" /\ user \in [right : BOOLEAN, words : BOOLEAN] /\ api \in {"down", "gateway", "up"}
  /\ attempt = 1 /\ err = "none" /\ expired = FALSE /\ late = 0 /\ sessions = 0 /\ lost = FALSE
  /\ token = FALSE /\ outcome = "running"

-----------------------------------------------------------------------------
(* client.do *)

\* The transport errors and statuses that do repeats.
isRetriableTransportError(e) == e \in {"refused", "unanswered"}
isRetriableHTTPStatus(e) == e = "gateway"

\* An attempt that failed: another one, or the error is returned.
Fails(e) ==
  /\ err' = e
  /\ IF attempt < MaxAttempts /\ (isRetriableTransportError(e) \/ isRetriableHTTPStatus(e))
     THEN attempt' = attempt + 1 /\ UNCHANGED pc
     ELSE pc' = "classify" /\ UNCHANGED attempt

OpenSession == user.right /\ sessions' = (IF sessions < 2 THEN sessions + 1 ELSE sessions)

\* Sylve, or the network, did not act on the request.
AttemptRefused ==
  /\ pc = "call"
  /\ \/ api = "down" /\ \E e \in {"refused", "unreachable", "transport"} : Fails(e)
     \/ api = "gateway" /\ Fails("gateway")
     \/ api = "up" /\ ~user.right /\ Fails("denied")
     \/ api = "up" /\ \E e \in {"unanswered", "cut", "status"} : Fails(e)
  /\ UNCHANGED <<user, api, expired, late, sessions, lost, token, outcome>>

\* Sylve opened a session, and its answer was lost, cut short or spoiled on the way.
AttemptLost ==
  /\ pc = "call" /\ api # "down" /\ OpenSession /\ lost' = TRUE
  /\ \E e \in {"unanswered", "cut", "garbled", "gateway"} : Fails(e)
  /\ UNCHANGED <<user, api, expired, late, token, outcome>>

AttemptForgetsToken ==   \* mutant: an answer without a token is taken for a Sylve that is starting
  /\ pc = "call" /\ api = "up" /\ OpenSession
  /\ pc' = "classify" /\ err' = "gateway"
  /\ UNCHANGED <<user, api, attempt, expired, late, lost, token, outcome>>

AttemptSucceeds ==
  /\ pc = "call" /\ api = "up" /\ OpenSession
  /\ pc' = "end" /\ token' = TRUE /\ outcome' = "session"
  /\ UNCHANGED <<user, api, attempt, err, expired, late, lost>>

-----------------------------------------------------------------------------
(* ensureAuth *)

LoginWaitMissesGateway(e) ==   \* mutant: a gateway's status ends the wait
  isRetriableTransportError(e) \/ e = "cut" \/ user.words

\* Judged by the words of the whole error, in which an answer cut short reads as
\* a transport error, and with which the user name and the answer's body are quoted.
IsRetriableLoginWaitError(e) == isRetriableTransportError(e) \/ e \in {"cut", "gateway"} \/ user.words

ClassifyLate ==   \* mutant: the deadline is looked at for a refused connection only
  /\ pc = "classify"
  /\ \/ ~IsRetriableLoginWaitError(err) /\ pc' = "end" /\ outcome' = "error"
     \/ IsRetriableLoginWaitError(err) /\ expired /\ err = "refused" /\ pc' = "end" /\ outcome' = "timeout"
     \/ IsRetriableLoginWaitError(err) /\ (~expired \/ err # "refused") /\ pc' = "sleep" /\ UNCHANGED outcome
  /\ UNCHANGED <<user, api, attempt, err, expired, late, sessions, lost, token>>

Classify ==
  /\ pc = "classify"
  /\ \/ ~IsRetriableLoginWaitError(err) /\ pc' = "end" /\ outcome' = "error"
     \/ IsRetriableLoginWaitError(err) /\ expired /\ pc' = "end" /\ outcome' = "timeout"
     \/ IsRetriableLoginWaitError(err) /\ ~expired /\ pc' = "sleep" /\ UNCHANGED outcome
  /\ UNCHANGED <<user, api, attempt, err, expired, late, sessions, lost, token>>

\* It sleeps until the deadline at most, and logs in again.
Sleep ==
  /\ pc = "sleep" /\ pc' = "call" /\ attempt' = 1
  /\ late' = (IF expired /\ late < 2 THEN late + 1 ELSE late)
  /\ UNCHANGED <<user, api, err, expired, sessions, lost, token, outcome>>

-----------------------------------------------------------------------------
(* Sylve and the time *)

ApiChanges ==
  /\ pc # "end" /\ api' \in {"down", "gateway", "up"} \ {api}
  /\ UNCHANGED <<pc, user, attempt, err, expired, late, sessions, lost, token, outcome>>

DeadlinePasses ==
  /\ pc # "end" /\ ~expired /\ expired' = TRUE
  /\ UNCHANGED <<pc, user, api, attempt, err, late, sessions, lost, token, outcome>>

Step == AttemptRefused \/ AttemptLost \/ AttemptSucceeds \/ Classify \/ Sleep
Next == Step \/ ApiChanges \/ DeadlinePasses

Spec == Init /\ [][Next]_vars

\* The loops are scheduled, calls return (the client has a timeout) and time passes.
FairSpec == Spec /\ WF_vars(Step) /\ WF_vars(DeadlinePasses)

-----------------------------------------------------------------------------
(* Properties *)

\* do returns an error it would repeat only after its last attempt.
TransientAbsorbed ==
  pc = "classify" /\ (isRetriableTransportError(err) \/ isRetriableHTTPStatus(err)) => attempt = MaxAttempts

\* A login that Sylve denied is not repeated, unless the error has the words of
\* a transport error in it.
DenialIsFinal == pc = "sleep" /\ err = "denied" => user.words

\* While connections to Sylve are refused, time out or break off, or a gateway answers
\* in its place, the wait ends no sooner than its deadline: an error before it comes of
\* an answer of Sylve, of a fault that waiting does not mend, or of a host that is not
\* reachable (for which see UnreachableIsWaitedFor).
WaitsForSylve ==
  outcome # "running" /\ ~expired =>
    outcome = "session" \/ err \in {"unreachable", "transport", "garbled", "denied", "status"}

\* After the deadline at most one more login begins, the one it slept for.
OneLateLogin == late <= 1

\* Sylve has a second session for the build only if it lost the answer to the first.
SecondSessionOnlyIfLost == sessions - (IF token THEN 1 ELSE 0) > 0 => lost

\* The login ends, even if Sylve never comes up.
LoginEnds == <>(pc = "end")

\* Not kept (docs/builders/sylve-iso.mdx:130, config.go:60): a login that fails because
\* Sylve's host is not reachable is repeated until sylve_api_login_timeout has passed.
UnreachableIsWaitedFor == outcome = "error" => err # "unreachable"

\* Not kept (retry.go:63): wrong credentials are not retriable.
WrongCredentialsNotRetried == ~(pc = "sleep" /\ err = "denied")
=============================================================================
