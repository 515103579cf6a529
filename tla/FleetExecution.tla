--------------------------- MODULE FleetExecution ---------------------------
(***************************************************************************)
(* FleetExecutor.execute_on_device: resolve the host once, submit the      *)
(* script, poll for its result until a deadline, and on a transient        *)
(* network error wait and submit it AGAIN, three attempts in all.          *)
(*                                                                         *)
(* One step of a call is one await of the coroutine: the time it takes,    *)
(* the answer it gets and everything the code does with the answer up to   *)
(* the next await.  Fleet and the host are the environment: a POST may     *)
(* reach Fleet although its reply is lost, and a host finishes a script    *)
(* (or never does) whether or not a call still waits for it.               *)
(*                                                                         *)
(* fleet[c][k] names a script execution by the call and the attempt that   *)
(* posted it, where Fleet uses an id of its own: each POST creates at most *)
(* one execution, so the two namings correspond one to one.                *)
(***************************************************************************)
EXTENDS Integers

CONSTANTS
    Calls,        \* concurrent calls of execute_on_device
    Hosts,        \* Fleet host ids
    NoHost,       \* _resolve_host_id's None
    PollInterval, \* _ASYNC_POLL_INTERVAL_SECONDS
    PollTimeout,  \* _ASYNC_POLL_TIMEOUT_SECONDS
    BackoffUnit,  \* the 30 of "wait = 30 * attempt"
    MaxLag,       \* longest time one request takes (httpx timeouts bound it)
    ClockBound    \* bound: no call is followed past this time

MaxAttempts == 3  \* range(3)
Attempts == 1..MaxAttempts

ASSUME HostAssumption == NoHost \notin Hosts
ASSUME TimeAssumption ==
    /\ PollInterval \in Nat \ {0}
    /\ PollTimeout \in Nat \ {0}
    /\ BackoffUnit \in Nat
    /\ MaxLag \in Nat
    /\ ClockBound \in Nat

VARIABLES
    pc,       \* pc[c]: the await the call is suspended at
    host,     \* host[c]: the local host_id
    attempt,  \* attempt[c]: loop variable of the retry loop, counted from 1
    now,      \* now[c]: monotonic clock, 0 when the call starts
    deadline, \* deadline[c]: the local deadline of _run_script
    outcome,  \* outcome[c]: what the caller has been told
    fleet     \* fleet[c][k]: the execution attempt k of call c created

vars == <<pc, host, attempt, now, deadline, outcome, fleet>>

Awaits == {"identifier", "query", "submit", "sleep", "poll", "backoff"}
NoRun == [state |-> "none", host |-> NoHost, hostTimeout |-> FALSE]
Runs == [state : {"none", "queued", "ok", "error"},
         host : Hosts \union {NoHost},
         hostTimeout : BOOLEAN]
Outcomes == {"pending", "ok", "error", "notfound", "failed", "raised"}

Init ==
    /\ pc = [c \in Calls |-> "identifier"]
    /\ host = [c \in Calls |-> NoHost]
    /\ attempt = [c \in Calls |-> 1]
    /\ now = [c \in Calls |-> 0]
    /\ deadline = [c \in Calls |-> 0]
    /\ outcome = [c \in Calls |-> "pending"]
    /\ fleet = [c \in Calls |-> [k \in Attempts |-> NoRun]]

-----------------------------------------------------------------------------
(* Building blocks of a step. *)

\* The clock moves on by d while the call is suspended.
Elapse(c, d) ==
    /\ now[c] + d <= ClockBound
    /\ now' = [now EXCEPT ![c] = @ + d]

Goto(c, l) ==
    /\ pc' = [pc EXCEPT ![c] = l]
    /\ UNCHANGED outcome

Finish(c, o) ==
    /\ pc' = [pc EXCEPT ![c] = "done"]
    /\ outcome' = [outcome EXCEPT ![c] = o]

\* Fleet takes the script in, or the POST never gets that far.
Post(c, accepted) ==
    fleet' = IF accepted
             THEN [fleet EXCEPT ![c][attempt[c]] =
                      [state |-> "queued", host |-> host[c], hostTimeout |-> FALSE]]
             ELSE fleet

\* Mutation: the last attempt's error becomes a failed result, the others raise.
TransientRaises(c) == UNCHANGED attempt /\ Finish(c, "raised")

\* Mutation: the range of attempts is tested after the increment.
TransientCountsOn(c) ==
    /\ attempt' = [attempt EXCEPT ![c] = @ + 1]
    /\ IF attempt[c] <= MaxAttempts THEN Goto(c, "backoff") ELSE Finish(c, "raised")

\* Mutation: the attempts are not counted.
TransientForever(c) == UNCHANGED attempt /\ Goto(c, "backoff")

\* The except clause of the retry loop: "continue" sleeps before the next
\* attempt, and the loop that runs out raises last_error.
Transient(c) ==
    IF attempt[c] < MaxAttempts
    THEN attempt' = [attempt EXCEPT ![c] = @ + 1] /\ Goto(c, "backoff")
    ELSE UNCHANGED attempt /\ Finish(c, "raised")

\* "while self._monotonic() < deadline", tested at the time the step ends.
PollLoop(c) ==
    IF now'[c] < deadline[c] THEN Goto(c, "sleep") ELSE Finish(c, "failed")

-----------------------------------------------------------------------------
(* _resolve_host_id: the exact-match lookup, then the fuzzy one.  Every     *)
(* failure of either is "not found".                                        *)

Resolved(c, h) ==
    /\ host' = [host EXCEPT ![c] = h]
    /\ Goto(c, "submit")

NotFound(c) ==
    /\ UNCHANGED host
    /\ Finish(c, "notfound")

\* Found; no such host or an error status (ask the other way); or an exception.
ResolveByIdentifier(c) ==
    /\ pc[c] = "identifier"
    /\ \E d \in 0..MaxLag : Elapse(c, d)
    /\ \/ \E h \in Hosts : Resolved(c, h)
       \/ UNCHANGED host /\ Goto(c, "query")
       \/ NotFound(c)
    /\ UNCHANGED <<attempt, deadline, fleet>>

\* The first host of a fuzzy match; or no match, an error status, an exception.
ResolveByQuery(c) ==
    /\ pc[c] = "query"
    /\ \E d \in 0..MaxLag : Elapse(c, d)
    /\ \/ \E h \in Hosts : Resolved(c, h)
       \/ NotFound(c)
    /\ UNCHANGED <<attempt, deadline, fleet>>

-----------------------------------------------------------------------------
(* _run_script: POST /scripts/run, then poll /scripts/results/{exec_id}.    *)

\* The reply names the execution: polling starts, with a fresh deadline.
SubmitAcknowledged(c) ==
    /\ pc[c] = "submit"
    /\ \E d \in 0..MaxLag : Elapse(c, d)
    /\ Post(c, TRUE)
    /\ deadline' = [deadline EXCEPT ![c] = now'[c] + PollTimeout]
    /\ Goto(c, "sleep")
    /\ UNCHANGED <<host, attempt>>

\* ConnectError, ConnectTimeout or RemoteProtocolError; the last can follow a
\* POST that Fleet has already taken in.
SubmitTransient(c) ==
    /\ pc[c] = "submit"
    /\ \E d \in 0..MaxLag : Elapse(c, d)
    /\ \E accepted \in BOOLEAN : Post(c, accepted)
    /\ Transient(c)
    /\ UNCHANGED <<host, deadline>>

\* An error status, a read timeout, a body that is not JSON or names no
\* execution: a failed result, whatever Fleet did with the script.
SubmitFailed(c) ==
    /\ pc[c] = "submit"
    /\ \E d \in 0..MaxLag : Elapse(c, d)
    /\ \E accepted \in BOOLEAN : Post(c, accepted)
    /\ Finish(c, "failed")
    /\ UNCHANGED <<host, attempt, deadline>>

\* asyncio.sleep(_ASYNC_POLL_INTERVAL_SECONDS)
PollSleep(c) ==
    /\ pc[c] = "sleep"
    /\ Elapse(c, PollInterval)
    /\ Goto(c, "poll")
    /\ UNCHANGED <<host, attempt, deadline, fleet>>

\* Mutation: the execution polled is the first one this call created.
PolledFirst(c) == fleet[c][1]

\* The execution exec_id names.
Polled(c) == fleet[c][attempt[c]]

\* The body has an exit_code: it is the result.
PollExitCode(c) ==
    /\ pc[c] = "poll"
    /\ Polled(c).state \in {"ok", "error"}
    /\ \E d \in 0..MaxLag : Elapse(c, d)
    /\ Finish(c, Polled(c).state)
    /\ UNCHANGED <<host, attempt, deadline, fleet>>

\* No exit_code, and Fleet has stopped waiting for the host.
PollHostTimeout(c) ==
    /\ pc[c] = "poll"
    /\ Polled(c).state = "queued"
    /\ Polled(c).hostTimeout
    /\ \E d \in 0..MaxLag : Elapse(c, d)
    /\ Finish(c, "failed")
    /\ UNCHANGED <<host, attempt, deadline, fleet>>

\* No exit_code yet, or a status other than 200: back to the loop's test.
PollAgain(c) ==
    /\ pc[c] = "poll"
    /\ \E d \in 0..MaxLag : Elapse(c, d)
    /\ PollLoop(c)
    /\ UNCHANGED <<host, attempt, deadline, fleet>>

\* A transient error while polling abandons the execution and submits another.
PollTransient(c) ==
    /\ pc[c] = "poll"
    /\ \E d \in 0..MaxLag : Elapse(c, d)
    /\ Transient(c)
    /\ UNCHANGED <<host, deadline, fleet>>

\* Any other exception while polling: a failed result.
PollFailed(c) ==
    /\ pc[c] = "poll"
    /\ \E d \in 0..MaxLag : Elapse(c, d)
    /\ Finish(c, "failed")
    /\ UNCHANGED <<host, attempt, deadline, fleet>>

\* Mutation: the wait is computed from a counter that starts at 1.
BackoffWaitFromOne(c) == BackoffUnit * attempt[c]

\* wait = 30 * attempt, where the code counts attempts from 0.
BackoffWait(c) == BackoffUnit * (attempt[c] - 1)

\* Mutation: the retry starts over, with the lookups.
BackoffThenResolve(c) ==
    /\ pc[c] = "backoff"
    /\ Elapse(c, BackoffWait(c))
    /\ Goto(c, "identifier")
    /\ UNCHANGED <<host, attempt, deadline, fleet>>

\* asyncio.sleep(wait), then the next attempt.
Backoff(c) ==
    /\ pc[c] = "backoff"
    /\ Elapse(c, BackoffWait(c))
    /\ Goto(c, "submit")
    /\ UNCHANGED <<host, attempt, deadline, fleet>>

-----------------------------------------------------------------------------
(* Fleet and the hosts.                                                     *)

\* The host ends an execution and Fleet records its exit code.
HostEnds(c, k) ==
    /\ fleet[c][k].state = "queued"
    /\ \E r \in {"ok", "error"} : fleet' = [fleet EXCEPT ![c][k].state = r]
    /\ UNCHANGED <<pc, host, attempt, now, deadline, outcome>>

\* Fleet reports host_timeout for an execution; the host may end it still.
FleetStopsWaiting(c, k) ==
    /\ fleet[c][k].state = "queued"
    /\ ~fleet[c][k].hostTimeout
    /\ fleet' = [fleet EXCEPT ![c][k].hostTimeout = TRUE]
    /\ UNCHANGED <<pc, host, attempt, now, deadline, outcome>>

-----------------------------------------------------------------------------

CallStep(c) ==
    \/ ResolveByIdentifier(c) \/ ResolveByQuery(c)
    \/ SubmitAcknowledged(c) \/ SubmitTransient(c) \/ SubmitFailed(c)
    \/ PollSleep(c)
    \/ PollExitCode(c) \/ PollHostTimeout(c) \/ PollAgain(c)
    \/ PollTransient(c) \/ PollFailed(c)
    \/ Backoff(c)

FleetStep(c) == \E k \in Attempts : HostEnds(c, k) \/ FleetStopsWaiting(c, k)

Next == \E c \in Calls : CallStep(c) \/ FleetStep(c)

Spec == Init /\ [][Next]_vars

\* The event loop resumes a coroutine whose sleep or request is over, and the
\* httpx timeouts end every request.  Nothing is assumed of Fleet or the hosts.
Fairness == \A c \in Calls : WF_vars(CallStep(c))

FairSpec == Spec /\ Fairness

-----------------------------------------------------------------------------
(* Properties. *)

\* A call is at one of its awaits or done, within its three attempts, and has
\* told its caller one of the outcomes execute_on_device can end in.
TypeOK ==
    /\ pc \in [Calls -> Awaits \union {"done"}]
    /\ host \in [Calls -> Hosts \union {NoHost}]
    /\ attempt \in [Calls -> Attempts]
    /\ now \in [Calls -> Nat]
    /\ deadline \in [Calls -> Nat]
    /\ outcome \in [Calls -> Outcomes]
    /\ fleet \in [Calls -> [Attempts -> Runs]]

\* An exit code the caller is given is the exit code of the execution its own
\* last attempt created, never of a copy an earlier attempt left behind.
AnswerIsTheLastRuns ==
    \A c \in Calls :
        outcome[c] \in {"ok", "error"} =>
            fleet[c][attempt[c]].state = outcome[c]

\* However many copies the retries leave behind, all are on the host resolved
\* at the start: execute_on_device resolves once, outside the retry loop.
RetriesStayOnOneHost ==
    \A c \in Calls, k \in Attempts :
        fleet[c][k].state # "none" => fleet[c][k].host = host[c] /\ host[c] \in Hosts

\* The time a call may take: two lookups, then for each attempt a POST, the
\* polling budget overrun by at most one sleep and one poll, and the waits.
ElapsedBound ==
    2 * MaxLag + MaxAttempts * (MaxLag + PollTimeout - 1 + PollInterval + MaxLag)
    + 3 * BackoffUnit

\* A call is never under way for longer than its retries and its polling
\* budget add up to, and ClockBound is never what stops it.
EndsInTime ==
    \A c \in Calls : now[c] <= ElapsedBound /\ ElapsedBound < ClockBound

\* The script is not posted again before the waits the docstring promises have
\* been slept, and an error is not raised to the caller before all of them have.
WaitsBeforeRetrying ==
    \A c \in Calls :
        /\ pc[c] = "submit" =>
              2 * now[c] >= BackoffUnit * (attempt[c] - 1) * attempt[c]
        /\ outcome[c] = "raised" => now[c] >= 3 * BackoffUnit

\* Every call ends, even if no host ever runs a script: the deadline ends the
\* polling and the range ends the retrying.
EveryCallEnds == \A c \in Calls : <>(pc[c] = "done")

\* The contract of an execution port.
endedBar ==
    [c \in Calls |-> [k \in Attempts |->
        IF fleet[c][k].state \in {"ok", "error"} THEN fleet[c][k].state ELSE "no"]]
startedBar ==
    [c \in Calls |-> {k \in Attempts : fleet[c][k].state # "none"}]

Contract == INSTANCE ScriptCall WITH started <- startedBar, ended <- endedBar

ImplementsContract == Contract!Spec
=============================================================================
