----------------------------- MODULE DeviceChecks -----------------------------
(***************************************************************************)
(* FleetExecutor.verify_device_state: run each check's command on the      *)
(* device, one execute_on_device call after another, and pass if none      *)
(* failed.                                                                 *)
(*                                                                         *)
(* What a call does is taken from its contract, ScriptCall, which          *)
(* FleetExecution is shown to implement: a call may leave copies behind    *)
(* that are still to end, and print, while a later check is running.       *)
(***************************************************************************)
EXTENDS Integers, Sequences

CONSTANTS
    MaxChecks,   \* bound: length of the list of checks
    MaxAttempts, \* copies of one command that the retries may start
    Text,        \* a non-empty expected or printed value
    Other,       \* a printed value that is neither empty nor Text
    None         \* no expected value

ASSUME BoundAssumption == MaxChecks \in Nat /\ MaxAttempts \in Nat

Index == 1..MaxChecks
Copies == 1..MaxAttempts
Printable == {"", Text, Other}

\* Of a check the code reads whether it has a command, and its expected value.
Check == [command : BOOLEAN, expected : {None, "", Text}]

VARIABLES
    checks,    \* the list the caller passed
    i,         \* the check the loop is at
    results,   \* what the loop has appended
    allPassed, \* the local all_passed
    verdict,   \* "pending", the VerificationResult's verdict, or "raised"
    outcome, started, ended, \* the calls, one per check: see ScriptCall
    printed    \* printed[c][k]: what copy k of check c printed

loopVars == <<checks, i, results, allPassed, verdict>>
callVars == <<outcome, started, ended, printed>>
vars == <<checks, i, results, allPassed, verdict, outcome, started, ended, printed>>

Call == INSTANCE ScriptCall WITH Calls <- Index

Init ==
    /\ checks \in UNION {[1..n -> Check] : n \in 0..MaxChecks}
    /\ i = 1
    /\ results = << >>
    /\ allPassed = TRUE
    /\ verdict = "pending"
    /\ Call!Init
    /\ printed = [c \in Index |-> [k \in Copies |-> ""]]

Running == verdict = "pending" /\ i <= Len(checks)

\* "if not command: continue"
SkipCheck ==
    /\ Running
    /\ ~checks[i].command
    /\ i' = i + 1
    /\ UNCHANGED <<checks, results, allPassed, verdict, callVars>>

\* The call of the check the loop is at makes a step of its own.
CallSteps ==
    /\ Running
    /\ checks[i].command
    /\ Call!Start(i) \/ Call!Answer(i) \/ Call!GiveUp(i)
    /\ UNCHANGED <<loopVars, printed>>

\* A copy ends on the device, whichever check the loop is at by then.
CopyEnds ==
    /\ \E c \in Index, k \in Copies :
          /\ Call!End(c, k)
          /\ \E p \in Printable : printed' = [printed EXCEPT ![c][k] = p]
    /\ UNCHANGED loopVars

LastCopy(c) == CHOOSE k \in started[c] : \A j \in started[c] : j <= k

\* exec_result: a call that learned nothing has exit code -1 and no output.
exit_code(c) == IF outcome[c] = "ok" THEN 0 ELSE IF outcome[c] = "error" THEN 1 ELSE -1
stdout(c) == IF outcome[c] \in {"ok", "error"} THEN printed[c][LastCopy(c)] ELSE ""

\* An expected value is compared with the output; without one, exit code 0.
passed(c) ==
    IF checks[c].expected # None THEN stdout(c) = checks[c].expected
    ELSE exit_code(c) = 0

\* Mutation: all_passed is the verdict on the latest check.
JudgeLatest ==
    /\ Running
    /\ checks[i].command
    /\ outcome[i] \notin {"pending", "raised"}
    /\ results' = Append(results, [check |-> i, pass |-> passed(i)])
    /\ allPassed' = passed(i)
    /\ i' = i + 1
    /\ UNCHANGED <<checks, verdict, callVars>>

\* Mutation: the first failed check ends the loop.
JudgeFailsFast ==
    /\ Running
    /\ checks[i].command
    /\ outcome[i] \notin {"pending", "raised"}
    /\ results' = Append(results, [check |-> i, pass |-> passed(i)])
    /\ allPassed' = (allPassed /\ passed(i))
    /\ i' = IF passed(i) THEN i + 1 ELSE Len(checks) + 1
    /\ UNCHANGED <<checks, verdict, callVars>>

\* The call has returned: its check passes or fails.
Judge ==
    /\ Running
    /\ checks[i].command
    /\ outcome[i] \notin {"pending", "raised"}
    /\ results' = Append(results, [check |-> i, pass |-> passed(i)])
    /\ allPassed' = (allPassed /\ passed(i))
    /\ i' = i + 1
    /\ UNCHANGED <<checks, verdict, callVars>>

\* Mutation: a call that raised fails its check, and the loop goes on from it.
RaiseGoesOn ==
    /\ Running
    /\ checks[i].command
    /\ outcome[i] = "raised"
    /\ results' = Append(results, [check |-> i, pass |-> FALSE])
    /\ allPassed' = FALSE
    /\ i' = i + 1
    /\ UNCHANGED <<checks, verdict, callVars>>

\* Mutation: a call that raised is made again, for as long as it takes.
RaiseRunsAgain ==
    /\ Running
    /\ checks[i].command
    /\ outcome[i] = "raised"
    /\ outcome' = [outcome EXCEPT ![i] = "pending"]
    /\ UNCHANGED <<loopVars, started, ended, printed>>

\* A transient error that outlives the retries leaves verify_device_state too,
\* with the results gathered so far.
Raise ==
    /\ Running
    /\ checks[i].command
    /\ outcome[i] = "raised"
    /\ verdict' = "raised"
    /\ UNCHANGED <<checks, i, results, allPassed, callVars>>

\* The early return for no checks, and the return after the loop.
Conclude ==
    /\ verdict = "pending"
    /\ i > Len(checks)
    /\ verdict' = IF allPassed THEN "pass" ELSE "fail"
    /\ UNCHANGED <<checks, i, results, allPassed, callVars>>

LoopStep == SkipCheck \/ CallSteps \/ Judge \/ Raise \/ Conclude

Next == LoopStep \/ CopyEnds

Spec == Init /\ [][Next]_vars

\* A call that goes on taking steps ends (FleetExecution's EveryCallEnds), and
\* the loop runs on when it has; the device promises nothing.
FairSpec == Spec /\ WF_vars(LoopStep)

-----------------------------------------------------------------------------
(* Properties. *)

HasCommand(c) == c \in DOMAIN checks /\ checks[c].command

\* What the device did with copy k is what check c asks for.
Satisfies(c, k) ==
    /\ ended[c][k] # "no"
    /\ IF checks[c].expected # None THEN printed[c][k] = checks[c].expected
       ELSE ended[c][k] = "ok"

\* A pass vouches for the device: for every command, save one that is expected
\* to print nothing, the copy started last ran to its end and did what its check
\* asks for.  No copy an earlier attempt left behind, no call that learned
\* nothing and no later check stands in for it.
PassVouches ==
    verdict = "pass" =>
        \A c \in Index : HasCommand(c) /\ checks[c].expected # "" =>
            started[c] # {} /\ Satisfies(c, LastCopy(c))

\* The calls are strictly one after another: a command is posted only when all
\* the earlier checks have been answered, so a check never observes a device on
\* which an earlier check's call is still resubmitting its own command.
OneCallAtATime ==
    \A a, b \in Index :
        a < b /\ started[b] # {} /\ HasCommand(a) => outcome[a] \notin {"pending", "raised"}

\* A verdict accounts for every command of the list, once and in order.
VerdictCoversAll ==
    verdict \in {"pass", "fail"} =>
        /\ \A c \in Index : HasCommand(c) <=> \E r \in DOMAIN results : results[r].check = c
        /\ \A r, s \in DOMAIN results : r < s => results[r].check < results[s].check

\* Every verification ends, whatever becomes of the copies it started.
EveryVerificationEnds == <>(verdict # "pending")
=============================================================================
