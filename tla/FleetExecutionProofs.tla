------------------------ MODULE FleetExecutionProofs ------------------------
(***************************************************************************)
(* Proofs about FleetExecution, for any number of calls and hosts and for  *)
(* any durations.                                                          *)
(***************************************************************************)
EXTENDS FleetExecution, TLAPS

-----------------------------------------------------------------------------
(* Type correctness. *)

\* The clock stays a number, and moves on by what was slept or waited.
LEMMA ElapseTyped ==
    ASSUME TypeOK, NEW c \in Calls, NEW d \in Nat, Elapse(c, d)
    PROVE  /\ now' \in [Calls -> Nat]
           /\ now'[c] = now[c] + d
  BY DEF TypeOK, Elapse

\* A request takes some time between nothing and MaxLag.
LEMMA LagTyped ==
    ASSUME TypeOK, NEW c \in Calls, \E d \in 0..MaxLag : Elapse(c, d)
    PROVE  now' \in [Calls -> Nat]
<1>1. PICK d \in 0..MaxLag : Elapse(c, d)
  OBVIOUS
<1>2. d \in Nat
  BY TimeAssumption
<1> QED
  BY <1>1, <1>2, ElapseTyped

LEMMA GotoTyped ==
    ASSUME TypeOK, NEW c \in Calls, NEW l \in Awaits, Goto(c, l)
    PROVE  /\ pc' \in [Calls -> Awaits \union {"done"}]
           /\ outcome' \in [Calls -> Outcomes]
  BY DEF TypeOK, Goto

LEMMA FinishTyped ==
    ASSUME TypeOK, NEW c \in Calls, NEW o \in Outcomes, Finish(c, o)
    PROVE  /\ pc' \in [Calls -> Awaits \union {"done"}]
           /\ outcome' \in [Calls -> Outcomes]
  BY DEF TypeOK, Finish

LEMMA TransientTyped ==
    ASSUME TypeOK, NEW c \in Calls, Transient(c)
    PROVE  /\ pc' \in [Calls -> Awaits \union {"done"}]
           /\ outcome' \in [Calls -> Outcomes]
           /\ attempt' \in [Calls -> Attempts]
<1>1. CASE attempt[c] < MaxAttempts
  BY <1>1, GotoTyped DEF Transient, TypeOK, Attempts, MaxAttempts, Awaits
<1>2. CASE ~(attempt[c] < MaxAttempts)
  BY <1>2, FinishTyped DEF Transient, TypeOK, Outcomes
<1> QED
  BY <1>1, <1>2

LEMMA PostTyped ==
    ASSUME TypeOK, NEW c \in Calls, NEW accepted \in BOOLEAN, Post(c, accepted)
    PROVE  fleet' \in [Calls -> [Attempts -> Runs]]
  BY DEF TypeOK, Post, Runs, Attempts

\* Replacing one execution by another changes nothing else at Fleet.
LEMMA RunTyped ==
    ASSUME TypeOK, NEW c \in Calls, NEW k \in Attempts, NEW r \in Runs,
           fleet' = [fleet EXCEPT ![c][k] = r]
    PROVE  fleet' \in [Calls -> [Attempts -> Runs]]
  BY DEF TypeOK

LEMMA LookupTyped ==
    ASSUME TypeOK, NEW c \in Calls,
           \/ \E h \in Hosts : Resolved(c, h)
           \/ UNCHANGED host /\ Goto(c, "query")
           \/ NotFound(c)
    PROVE  /\ pc' \in [Calls -> Awaits \union {"done"}]
           /\ outcome' \in [Calls -> Outcomes]
           /\ host' \in [Calls -> Hosts \union {NoHost}]
<1>1. ASSUME NEW h \in Hosts, Resolved(c, h)
      PROVE  /\ pc' \in [Calls -> Awaits \union {"done"}]
             /\ outcome' \in [Calls -> Outcomes]
             /\ host' \in [Calls -> Hosts \union {NoHost}]
  BY <1>1, GotoTyped DEF Resolved, TypeOK, Awaits
<1>2. CASE UNCHANGED host /\ Goto(c, "query")
  BY <1>2, GotoTyped DEF TypeOK, Awaits
<1>3. CASE NotFound(c)
  BY <1>3, FinishTyped DEF NotFound, TypeOK, Outcomes
<1> QED
  BY <1>1, <1>2, <1>3

LEMMA CallStepTyped ==
    ASSUME TypeOK, NEW c \in Calls, CallStep(c)
    PROVE  TypeOK'
<1> USE DEF TypeOK
<1>1. CASE ResolveByIdentifier(c)
  BY <1>1, LagTyped, LookupTyped DEF ResolveByIdentifier
<1>2. CASE ResolveByQuery(c)
  BY <1>2, LagTyped, LookupTyped DEF ResolveByQuery
<1>3. CASE SubmitAcknowledged(c)
  <2>1. now'[c] + PollTimeout \in Nat
    BY <1>3, LagTyped, TimeAssumption DEF SubmitAcknowledged
  <2>2. deadline' \in [Calls -> Nat]
    BY <1>3, <2>1 DEF SubmitAcknowledged
  <2> QED
    BY <1>3, <2>2, LagTyped, PostTyped, GotoTyped DEF SubmitAcknowledged, Awaits
<1>4. CASE SubmitTransient(c)
  BY <1>4, LagTyped, PostTyped, TransientTyped DEF SubmitTransient
<1>5. CASE SubmitFailed(c)
  BY <1>5, LagTyped, PostTyped, FinishTyped DEF SubmitFailed, Outcomes
<1>6. CASE PollSleep(c)
  BY <1>6, ElapseTyped, GotoTyped, TimeAssumption DEF PollSleep, Awaits
<1>7. CASE PollExitCode(c)
  BY <1>7, LagTyped, FinishTyped DEF PollExitCode, Polled, Outcomes
<1>8. CASE PollHostTimeout(c)
  BY <1>8, LagTyped, FinishTyped DEF PollHostTimeout, Outcomes
<1>9. CASE PollAgain(c)
  BY <1>9, LagTyped, GotoTyped, FinishTyped DEF PollAgain, PollLoop, Awaits, Outcomes
<1>10. CASE PollTransient(c)
  BY <1>10, LagTyped, TransientTyped DEF PollTransient
<1>11. CASE PollFailed(c)
  BY <1>11, LagTyped, FinishTyped DEF PollFailed, Outcomes
<1>12. CASE Backoff(c)
  <2>1. BackoffWait(c) \in Nat
    BY TimeAssumption DEF BackoffWait, Attempts, MaxAttempts
  <2> QED
    BY <1>12, <2>1, ElapseTyped, GotoTyped DEF Backoff, Awaits
<1> QED
  BY <1>1, <1>2, <1>3, <1>4, <1>5, <1>6, <1>7, <1>8, <1>9, <1>10, <1>11, <1>12
     DEF CallStep

\* A step of Fleet or of a host replaces one execution that is queued.
LEMMA FleetStepShape ==
    ASSUME TypeOK, NEW c \in Calls, FleetStep(c)
    PROVE  \E k \in Attempts, r \in Runs :
              /\ fleet' = [fleet EXCEPT ![c][k] = r]
              /\ fleet[c][k].state = "queued"
              /\ r.state # "none"
              /\ r.host = fleet[c][k].host
              /\ UNCHANGED <<pc, host, attempt, now, deadline, outcome>>
<1>1. ASSUME NEW k \in Attempts, HostEnds(c, k)
      PROVE  \E r \in Runs :
                /\ fleet' = [fleet EXCEPT ![c][k] = r]
                /\ r.state # "none"
                /\ r.host = fleet[c][k].host
  <2>1. PICK s \in {"ok", "error"} : fleet' = [fleet EXCEPT ![c][k].state = s]
    BY <1>1 DEF HostEnds
  <2> DEFINE r == [fleet[c][k] EXCEPT !.state = s]
  <2>2. r \in Runs /\ r.state # "none" /\ r.host = fleet[c][k].host
    <3>1. fleet[c][k] \in Runs
      BY DEF TypeOK
    <3> QED
      BY <3>1 DEF Runs
  <2>3. fleet' = [fleet EXCEPT ![c][k] = r]
    BY <2>1
  <2> QED
    BY <2>2, <2>3
<1>2. ASSUME NEW k \in Attempts, FleetStopsWaiting(c, k)
      PROVE  \E r \in Runs :
                /\ fleet' = [fleet EXCEPT ![c][k] = r]
                /\ r.state # "none"
                /\ r.host = fleet[c][k].host
  <2> DEFINE r == [fleet[c][k] EXCEPT !.hostTimeout = TRUE]
  <2>1. r \in Runs /\ r.state # "none" /\ r.host = fleet[c][k].host
    <3>1. fleet[c][k] \in Runs /\ fleet[c][k].state = "queued"
      BY <1>2 DEF TypeOK, FleetStopsWaiting
    <3> QED
      BY <3>1 DEF Runs
  <2>2. fleet' = [fleet EXCEPT ![c][k] = r]
    BY <1>2 DEF FleetStopsWaiting
  <2> QED
    BY <2>1, <2>2
<1> QED
  BY <1>1, <1>2 DEF FleetStep, HostEnds, FleetStopsWaiting

\* Every variable keeps its type: attempts stay in 1..3, the clock is a number.
THEOREM TypeCorrect == Spec => []TypeOK
<1>1. Init => TypeOK
  BY DEF Init, TypeOK, NoRun, Runs, Awaits, Outcomes, Attempts, MaxAttempts
<1>2. TypeOK /\ [Next]_vars => TypeOK'
  <2> SUFFICES ASSUME TypeOK, [Next]_vars
               PROVE  TypeOK'
    OBVIOUS
  <2>1. ASSUME NEW c \in Calls, FleetStep(c)
        PROVE  TypeOK'
    BY <2>1, FleetStepShape, RunTyped DEF TypeOK
  <2>2. CASE UNCHANGED vars
    BY <2>2 DEF vars, TypeOK
  <2> QED
    BY <2>1, <2>2, CallStepTyped DEF Next
<1> QED
  BY <1>1, <1>2, PTL DEF Spec

-----------------------------------------------------------------------------
(* The inductive invariant. *)

\* Where a call stands decides what it can have left behind at Fleet: nothing
\* before the first POST and for the attempts still to come, one execution of
\* the current attempt while it is polled.
CallInv(c) ==
    /\ pc[c] = "done" <=> outcome[c] # "pending"
    /\ pc[c] \in {"identifier", "query"} \/ outcome[c] = "notfound" =>
          \A k \in Attempts : fleet[c][k].state = "none"
    /\ \A k \in Attempts : k > attempt[c] => fleet[c][k].state = "none"
    /\ pc[c] \in {"submit", "backoff"} => fleet[c][attempt[c]].state = "none"
    /\ pc[c] \in {"sleep", "poll"} => fleet[c][attempt[c]].state # "none"
    /\ pc[c] \in {"submit", "sleep", "poll", "backoff"} => host[c] \in Hosts
    /\ outcome[c] \in {"ok", "error"} => fleet[c][attempt[c]].state = outcome[c]
    /\ \A k \in Attempts :
          fleet[c][k].state # "none" => fleet[c][k].host = host[c] /\ host[c] \in Hosts

IInv == TypeOK /\ \A c \in Calls : CallInv(c)

\* What a step of call c leaves of another call d: everything.
LEMMA OtherCallsUntouched ==
    ASSUME TypeOK, NEW c \in Calls, NEW d \in Calls \ {c},
           CallStep(c) \/ FleetStep(c)
    PROVE  /\ pc'[d] = pc[d] /\ host'[d] = host[d] /\ attempt'[d] = attempt[d]
           /\ outcome'[d] = outcome[d] /\ fleet'[d] = fleet[d]
<1> USE DEF TypeOK, Goto, Finish, Transient, Post
<1>1. ASSUME FleetStep(c)
      PROVE  /\ pc'[d] = pc[d] /\ host'[d] = host[d] /\ attempt'[d] = attempt[d]
             /\ outcome'[d] = outcome[d] /\ fleet'[d] = fleet[d]
  BY <1>1, FleetStepShape
<1>2. CASE ResolveByIdentifier(c)
  BY <1>2 DEF ResolveByIdentifier, Resolved, NotFound
<1>3. CASE ResolveByQuery(c)
  BY <1>3 DEF ResolveByQuery, Resolved, NotFound
<1>4. CASE SubmitAcknowledged(c)
  BY <1>4 DEF SubmitAcknowledged
<1>5. CASE SubmitTransient(c)
  BY <1>5 DEF SubmitTransient
<1>6. CASE SubmitFailed(c)
  BY <1>6 DEF SubmitFailed
<1>7. CASE PollSleep(c) \/ Backoff(c)
  BY <1>7 DEF PollSleep, Backoff
<1>8. CASE PollExitCode(c) \/ PollHostTimeout(c) \/ PollFailed(c)
  BY <1>8 DEF PollExitCode, PollHostTimeout, PollFailed
<1>9. CASE PollAgain(c) \/ PollTransient(c)
  BY <1>9 DEF PollAgain, PollLoop, PollTransient
<1> QED
  BY <1>1, <1>2, <1>3, <1>4, <1>5, <1>6, <1>7, <1>8, <1>9 DEF CallStep

\* A lookup posts nothing, and leaves a host behind only where it goes on.
LEMMA LookupInv ==
    ASSUME TypeOK, NEW c \in Calls, CallInv(c),
           pc[c] \in {"identifier", "query"},
           UNCHANGED <<attempt, fleet>>,
           \/ \E h \in Hosts : Resolved(c, h)
           \/ UNCHANGED host /\ Goto(c, "query")
           \/ NotFound(c)
    PROVE  CallInv(c)'
  BY DEF CallInv, TypeOK, Resolved, NotFound, Goto, Finish, Attempts, MaxAttempts

\* The execution a POST creates is the current attempt's, on the host resolved.
LEMMA PostShape ==
    ASSUME TypeOK, NEW c \in Calls, NEW accepted \in BOOLEAN, Post(c, accepted)
    PROVE  /\ \A k \in Attempts : k # attempt[c] => fleet'[c][k] = fleet[c][k]
           /\ accepted => /\ fleet'[c][attempt[c]].state = "queued"
                          /\ fleet'[c][attempt[c]].host = host[c]
           /\ ~accepted => fleet'[c][attempt[c]] = fleet[c][attempt[c]]
  BY DEF TypeOK, Post

LEMMA SubmitInv ==
    ASSUME TypeOK, NEW c \in Calls, CallInv(c), pc[c] = "submit",
           SubmitAcknowledged(c) \/ SubmitTransient(c) \/ SubmitFailed(c)
    PROVE  CallInv(c)'
<1> USE DEF TypeOK, CallInv, Attempts, MaxAttempts
<1>1. CASE SubmitAcknowledged(c)
  <2>1. Post(c, TRUE)
    BY <1>1 DEF SubmitAcknowledged
  <2>2. /\ \A k \in Attempts : k # attempt[c] => fleet'[c][k] = fleet[c][k]
        /\ fleet'[c][attempt[c]].state = "queued"
        /\ fleet'[c][attempt[c]].host = host[c]
    BY <2>1, Zenon, PostShape
  <2> QED
    BY <1>1, <2>2 DEF SubmitAcknowledged, Goto
<1>2. CASE SubmitTransient(c)
  <2>1. PICK accepted \in BOOLEAN : Post(c, accepted)
    BY <1>2 DEF SubmitTransient
  <2> QED
    BY <1>2, <2>1, PostShape DEF SubmitTransient, Transient, Goto, Finish
<1>3. CASE SubmitFailed(c)
  <2>1. PICK accepted \in BOOLEAN : Post(c, accepted)
    BY <1>3 DEF SubmitFailed
  <2> QED
    BY <1>3, <2>1, PostShape DEF SubmitFailed, Finish
<1> QED
  BY <1>1, <1>2, <1>3

LEMMA CallStepInv ==
    ASSUME TypeOK, NEW c \in Calls, CallInv(c), CallStep(c)
    PROVE  CallInv(c)'
<1>1. CASE ResolveByIdentifier(c)
  BY <1>1, LookupInv DEF ResolveByIdentifier
<1>2. CASE ResolveByQuery(c)
  BY <1>2, LookupInv DEF ResolveByQuery
<1>3. CASE SubmitAcknowledged(c) \/ SubmitTransient(c) \/ SubmitFailed(c)
  BY <1>3, SubmitInv DEF SubmitAcknowledged, SubmitTransient, SubmitFailed
<1> USE DEF TypeOK, CallInv, Attempts, MaxAttempts
<1>4. CASE PollSleep(c)
  BY <1>4 DEF PollSleep, Goto
<1>5. CASE PollExitCode(c)
  BY <1>5 DEF PollExitCode, Polled, Finish
<1>6. CASE PollHostTimeout(c) \/ PollFailed(c)
  BY <1>6 DEF PollHostTimeout, PollFailed, Finish
<1>7. CASE PollAgain(c)
  BY <1>7 DEF PollAgain, PollLoop, Goto, Finish
<1>8. CASE PollTransient(c)
  BY <1>8 DEF PollTransient, Transient, Goto, Finish
<1>9. CASE Backoff(c)
  BY <1>9 DEF Backoff, Goto
<1> QED
  BY <1>1, <1>2, <1>3, <1>4, <1>5, <1>6, <1>7, <1>8, <1>9 DEF CallStep

\* Only a queued execution changes, so an answer already given stays true.
LEMMA FleetStepInv ==
    ASSUME TypeOK, NEW c \in Calls, CallInv(c), FleetStep(c)
    PROVE  CallInv(c)'
<1>1. PICK k \in Attempts, r \in Runs :
              /\ fleet' = [fleet EXCEPT ![c][k] = r]
              /\ fleet[c][k].state = "queued"
              /\ r.state # "none"
              /\ r.host = fleet[c][k].host
              /\ UNCHANGED <<pc, host, attempt, now, deadline, outcome>>
  BY FleetStepShape
<1>2. \A j \in Attempts : j # k => fleet'[c][j] = fleet[c][j]
  BY <1>1 DEF TypeOK
<1>3. fleet'[c][k] = r
  BY <1>1 DEF TypeOK
<1> QED
  BY <1>1, <1>2, <1>3 DEF CallInv, TypeOK

\* The inductive invariant holds of every reachable state.
THEOREM Invariance == Spec => []IInv
<1>1. Init => IInv
  <2> SUFFICES ASSUME Init
               PROVE  \A c \in Calls : CallInv(c)
    BY DEF IInv, Init, TypeOK, NoRun, Runs, Awaits, Outcomes, Attempts, MaxAttempts
  <2> QED
    BY DEF Init, CallInv, NoRun, Attempts, MaxAttempts
<1>2. IInv /\ TypeOK' /\ [Next]_vars => IInv'
  <2> SUFFICES ASSUME IInv, [Next]_vars, NEW d \in Calls
               PROVE  CallInv(d)'
    BY DEF IInv
  <2>1. TypeOK /\ CallInv(d)
    BY DEF IInv
  <2>2. ASSUME NEW c \in Calls, CallStep(c) \/ FleetStep(c)
        PROVE  CallInv(d)'
    <3>1. CASE c = d
      BY <2>1, <2>2, <3>1, CallStepInv, FleetStepInv
    <3>2. CASE c # d
      BY <2>1, <2>2, <3>2, OtherCallsUntouched DEF CallInv
    <3> QED
      BY <3>1, <3>2
  <2>3. CASE UNCHANGED vars
    BY <2>1, <2>3 DEF vars, CallInv
  <2> QED
    BY <2>2, <2>3 DEF Next
<1> QED
  BY <1>1, <1>2, TypeCorrect, PTL DEF Spec

-----------------------------------------------------------------------------
(* What follows from it. *)

\* A caller is never given the exit code of a copy that an abandoned attempt
\* left running, whatever the retries, replies lost and late finishes.
THEOREM AnswerCorrect == Spec => []AnswerIsTheLastRuns
<1>1. IInv => AnswerIsTheLastRuns
  BY DEF IInv, CallInv, AnswerIsTheLastRuns
<1> QED
  BY <1>1, Invariance, PTL

\* All copies of a script that one call starts are started on one host.
THEOREM OneHost == Spec => []RetriesStayOnOneHost
<1>1. IInv => RetriesStayOnOneHost
  BY DEF IInv, CallInv, RetriesStayOnOneHost
<1> QED
  BY <1>1, Invariance, PTL

-----------------------------------------------------------------------------
(* The executor implements the contract of ScriptCall.                      *)

\* What a step of a call does, seen from outside: nothing, or it gives up, or it
\* answers, or it starts a copy and may end at once.
Silent == UNCHANGED <<fleet, outcome>>

GivesUp(c) ==
    /\ UNCHANGED fleet
    /\ \E o \in {"failed", "raised", "notfound"} :
          /\ o = "notfound" => \A k \in Attempts : fleet[c][k].state = "none"
          /\ outcome' = [outcome EXCEPT ![c] = o]

Answers(c) ==
    /\ UNCHANGED fleet
    /\ fleet[c][attempt[c]].state \in {"ok", "error"}
    /\ outcome' = [outcome EXCEPT ![c] = fleet[c][attempt[c]].state]

Starts(c) ==
    /\ fleet[c][attempt[c]].state = "none"
    /\ Post(c, TRUE)
    /\ \E o \in {"pending", "failed", "raised"} :
          outcome' = [outcome EXCEPT ![c] = o]

\* A transient error either is retried, unseen, or is raised.
LEMMA TransientShape ==
    ASSUME TypeOK, NEW c \in Calls, Transient(c)
    PROVE  \/ UNCHANGED outcome
           \/ outcome' = [outcome EXCEPT ![c] = "raised"]
  BY DEF Transient, Goto, Finish

\* A POST whose reply is lost or useless is a start, or nothing at all.
LEMMA SubmitShape ==
    ASSUME IInv, NEW c \in Calls, pc[c] = "submit",
           SubmitAcknowledged(c) \/ SubmitTransient(c) \/ SubmitFailed(c)
    PROVE  Silent \/ GivesUp(c) \/ Starts(c)
<1>1. /\ fleet[c][attempt[c]].state = "none"
      /\ outcome[c] = "pending"
      /\ outcome \in [Calls -> Outcomes]
  BY DEF IInv, CallInv, TypeOK
<1>2. UNCHANGED outcome => outcome' = [outcome EXCEPT ![c] = "pending"]
  BY <1>1
<1>3. CASE SubmitAcknowledged(c)
  BY <1>1, <1>2, <1>3 DEF SubmitAcknowledged, Goto, Starts
<1>4. CASE SubmitTransient(c)
  <2>1. PICK accepted \in BOOLEAN : Post(c, accepted)
    BY <1>4 DEF SubmitTransient
  <2>2. CASE accepted = TRUE
    BY <1>1, <1>2, <1>4, <2>1, <2>2, TransientShape DEF SubmitTransient, Starts, IInv
  <2>3. CASE accepted = FALSE
    <3>1. UNCHANGED fleet
      BY <2>1, <2>3 DEF Post
    <3> QED
      BY <1>4, <3>1, TransientShape DEF SubmitTransient, Silent, GivesUp, IInv
  <2> QED
    BY <2>2, <2>3
<1>5. CASE SubmitFailed(c)
  <2>1. PICK accepted \in BOOLEAN : Post(c, accepted)
    BY <1>5 DEF SubmitFailed
  <2>2. CASE accepted = TRUE
    BY <1>1, <1>5, <2>1, <2>2 DEF SubmitFailed, Finish, Starts
  <2>3. CASE accepted = FALSE
    <3>1. UNCHANGED fleet
      BY <2>1, <2>3 DEF Post
    <3> QED
      BY <1>5, <3>1 DEF SubmitFailed, Finish, GivesUp
  <2> QED
    BY <2>2, <2>3
<1> QED
  BY <1>3, <1>4, <1>5

LEMMA CallStepShape ==
    ASSUME IInv, NEW c \in Calls, CallStep(c)
    PROVE  /\ outcome[c] = "pending"
           /\ Silent \/ GivesUp(c) \/ Answers(c) \/ Starts(c)
<1>1. TypeOK /\ CallInv(c)
  BY DEF IInv
<1>2. pc[c] # "done"
  BY DEF CallStep, ResolveByIdentifier, ResolveByQuery, SubmitAcknowledged,
         SubmitTransient, SubmitFailed, PollSleep, PollExitCode, PollHostTimeout,
         PollAgain, PollTransient, PollFailed, Backoff
<1>3. outcome[c] = "pending"
  BY <1>1, <1>2 DEF CallInv
<1> USE DEF Silent, GivesUp, Answers, Goto, Finish
<1>4. CASE ResolveByIdentifier(c) \/ ResolveByQuery(c)
  BY <1>1, <1>3, <1>4 DEF ResolveByIdentifier, ResolveByQuery, Resolved, NotFound, CallInv
<1>5. CASE SubmitAcknowledged(c) \/ SubmitTransient(c) \/ SubmitFailed(c)
  BY <1>3, <1>5, SubmitShape DEF SubmitAcknowledged, SubmitTransient, SubmitFailed
<1>6. CASE PollSleep(c) \/ Backoff(c)
  BY <1>3, <1>6 DEF PollSleep, Backoff
<1>7. CASE PollExitCode(c)
  BY <1>3, <1>7 DEF PollExitCode, Polled
<1>8. CASE PollHostTimeout(c) \/ PollFailed(c) \/ PollAgain(c)
  BY <1>3, <1>8 DEF PollHostTimeout, PollFailed, PollAgain, PollLoop
<1>9. CASE PollTransient(c)
  BY <1>1, <1>3, <1>9, TransientShape DEF PollTransient
<1> QED
  BY <1>4, <1>5, <1>6, <1>7, <1>8, <1>9 DEF CallStep

\* Every started copy belongs to the attempt a call is at, or to an earlier one.
LEMMA StartedSoFar ==
    ASSUME IInv, NEW c \in Calls
    PROVE  /\ startedBar[c] = {k \in Attempts : fleet[c][k].state # "none"}
           /\ \A j \in startedBar[c] : j \in Attempts /\ j <= attempt[c]
           /\ attempt[c] \in Attempts
  BY DEF IInv, CallInv, TypeOK, startedBar, Attempts, MaxAttempts

LEMMA SameFleet ==
    ASSUME UNCHANGED fleet
    PROVE  startedBar' = startedBar /\ endedBar' = endedBar
  BY DEF startedBar, endedBar

LEMMA StartRefines ==
    ASSUME IInv, NEW c \in Calls, outcome[c] = "pending", Starts(c)
    PROVE  Contract!Start(c)
<1>1. TypeOK /\ attempt[c] \in Attempts
  BY DEF IInv, TypeOK
<1>2. /\ \A k \in Attempts : k # attempt[c] => fleet'[c][k] = fleet[c][k]
      /\ fleet'[c][attempt[c]].state = "queued"
  BY <1>1, Zenon, PostShape DEF Starts
<1>3. \A d \in Calls : d # c => fleet'[d] = fleet[d]
  BY <1>1 DEF Starts, Post, TypeOK
<1>4. startedBar' = [startedBar EXCEPT ![c] = @ \union {attempt[c]}]
  <2>1. \A d \in Calls : d # c => startedBar'[d] = startedBar[d]
    BY <1>3 DEF startedBar
  <2>2. \A k \in Attempts :
           fleet'[c][k].state # "none" <=> fleet[c][k].state # "none" \/ k = attempt[c]
    BY <1>1, <1>2
  <2>3. startedBar'[c] = startedBar[c] \union {attempt[c]}
    BY <1>1, <2>2 DEF startedBar
  <2>4. startedBar = [d \in Calls |-> startedBar[d]]
        /\ startedBar' = [d \in Calls |-> startedBar'[d]]
    BY DEF startedBar
  <2> QED
    BY <2>1, <2>3, <2>4
<1>5. endedBar' = endedBar
  <2>1. fleet[c][attempt[c]].state = "none"
    BY DEF Starts
  <2> QED
    BY <1>1, <1>2, <1>3, <2>1 DEF endedBar
<1>6. \A j \in startedBar[c] : j < attempt[c]
  BY <1>1, StartedSoFar DEF Starts, Attempts, MaxAttempts
<1> QED
  BY <1>1, <1>4, <1>5, <1>6 DEF Starts, Contract!Start, Contract!Attempts, Attempts

LEMMA AnswerRefines ==
    ASSUME IInv, NEW c \in Calls, outcome[c] = "pending", Answers(c)
    PROVE  Contract!Answer(c)
<1>1. /\ attempt[c] \in startedBar[c]
      /\ \A j \in startedBar[c] : j <= attempt[c]
  BY StartedSoFar DEF Answers
<1>2. endedBar[c][attempt[c]] = fleet[c][attempt[c]].state
  BY StartedSoFar DEF Answers, endedBar
<1> QED
  BY <1>1, <1>2, SameFleet DEF Answers, Contract!Answer

LEMMA GiveUpRefines ==
    ASSUME IInv, NEW c \in Calls, outcome[c] = "pending", GivesUp(c)
    PROVE  Contract!GiveUp(c)
<1>1. (\A k \in Attempts : fleet[c][k].state = "none") => startedBar[c] = {}
  BY DEF startedBar
<1> QED
  BY <1>1, SameFleet DEF GivesUp, Contract!GiveUp

\* A host that ends a copy is the contract's End; host_timeout is invisible.
LEMMA FleetStepRefines ==
    ASSUME IInv, NEW c \in Calls, FleetStep(c)
    PROVE  \/ \E k \in Attempts : Contract!End(c, k)
           \/ UNCHANGED <<outcome, startedBar, endedBar>>
<1>1. TypeOK
  BY DEF IInv
<1>2. PICK k \in Attempts : HostEnds(c, k) \/ FleetStopsWaiting(c, k)
  BY DEF FleetStep
<1>3. fleet[c][k] \in Runs /\ fleet[c][k].state = "queued"
  BY <1>1, <1>2 DEF TypeOK, HostEnds, FleetStopsWaiting
<1>4. \A d \in Calls, j \in Attempts : <<d, j>> # <<c, k>> => fleet'[d][j] = fleet[d][j]
  BY <1>1, <1>2 DEF TypeOK, HostEnds, FleetStopsWaiting
<1>5. CASE HostEnds(c, k)
  <2>1. PICK s \in {"ok", "error"} : fleet' = [fleet EXCEPT ![c][k].state = s]
    BY <1>5 DEF HostEnds
  <2>2. fleet'[c][k].state = s
    BY <1>1, <1>3, <2>1 DEF TypeOK, Runs
  <2>3. startedBar' = startedBar
    BY <1>3, <1>4, <2>2 DEF startedBar
  <2>4. endedBar' = [endedBar EXCEPT ![c][k] = s]
    <3>1. \A d \in Calls, j \in Attempts :
             endedBar'[d][j] = IF d = c /\ j = k THEN s ELSE endedBar[d][j]
      BY <1>4, <2>2 DEF endedBar
    <3>2. endedBar' = [d \in Calls |-> [j \in Attempts |-> endedBar'[d][j]]]
          /\ endedBar = [d \in Calls |-> [j \in Attempts |-> endedBar[d][j]]]
      BY DEF endedBar
    <3> QED
      BY <3>1, <3>2
  <2>5. k \in startedBar[c] /\ endedBar[c][k] = "no"
    BY <1>3 DEF startedBar, endedBar
  <2> QED
    BY <1>5, <2>3, <2>4, <2>5 DEF HostEnds, Contract!End
<1>6. CASE FleetStopsWaiting(c, k)
  <2>1. fleet'[c][k].state = "queued"
    BY <1>1, <1>3, <1>6 DEF FleetStopsWaiting, TypeOK, Runs
  <2> QED
    BY <1>3, <1>4, <1>6, <2>1 DEF FleetStopsWaiting, startedBar, endedBar
<1> QED
  BY <1>2, <1>5, <1>6

\* Every behaviour of the executor is one the contract allows.
THEOREM Refinement == Spec => ImplementsContract
<1>1. Init => Contract!Init
  BY DEF Init, NoRun, Contract!Init, startedBar, endedBar, Contract!Attempts, Attempts
<1>2. IInv /\ [Next]_vars => [Contract!Next]_(Contract!callVars)
  <2> SUFFICES ASSUME IInv, [Next]_vars
               PROVE  [Contract!Next]_(Contract!callVars)
    OBVIOUS
  <2>1. ASSUME NEW c \in Calls, CallStep(c)
        PROVE  [Contract!Next]_(Contract!callVars)
    <3>1. CASE Silent
      BY <3>1, SameFleet DEF Silent, Contract!callVars
    <3>2. CASE GivesUp(c) \/ Answers(c) \/ Starts(c)
      BY <2>1, <3>2, CallStepShape, GiveUpRefines, AnswerRefines, StartRefines
         DEF Contract!Next
    <3> QED
      BY <2>1, <3>1, <3>2, CallStepShape
  <2>2. ASSUME NEW c \in Calls, FleetStep(c)
        PROVE  [Contract!Next]_(Contract!callVars)
    BY <2>2, FleetStepRefines
       DEF Contract!Next, Contract!callVars, Contract!Attempts, Attempts
  <2>3. CASE UNCHANGED vars
    BY <2>3, SameFleet DEF vars, Contract!callVars
  <2> QED
    BY <2>1, <2>2, <2>3 DEF Next
<1> QED
  BY <1>1, <1>2, Invariance, PTL DEF Spec, ImplementsContract, Contract!Spec

-----------------------------------------------------------------------------
(* Time: what a call's clock shows, from what the call has been through.    *)

\* The longest one attempt takes: a POST, the polling budget overrun by one
\* sleep, and the poll that ends it.
Period == MaxLag + PollTimeout - 1 + PollInterval + MaxLag

\* Latest time at which attempt a posts the script.
PostedBy ==
    <<2 * MaxLag,
      2 * MaxLag + Period + BackoffUnit,
      2 * MaxLag + 2 * Period + 3 * BackoffUnit>>

\* What has been slept between attempts before attempt a.
Waited == <<0, BackoffUnit, 3 * BackoffUnit>>

\* The clock is bounded on both sides at every await: by the deadline while the
\* call polls, by the attempts before it elsewhere.  A call in backoff has
\* counted on already, and has not yet slept.
TimeInv(c) ==
    /\ pc[c] = "identifier" => attempt[c] = 1 /\ now[c] = 0
    /\ pc[c] = "query" => attempt[c] = 1 /\ now[c] <= MaxLag
    /\ pc[c] = "submit" =>
          now[c] <= PostedBy[attempt[c]] /\ now[c] >= Waited[attempt[c]]
    /\ pc[c] \in {"sleep", "poll"} =>
          /\ deadline[c] <= PostedBy[attempt[c]] + MaxLag + PollTimeout
          /\ deadline[c] <= now[c] + PollTimeout
          /\ now[c] >= Waited[attempt[c]]
    /\ pc[c] = "sleep" => now[c] < deadline[c]
    /\ pc[c] = "poll" => now[c] < deadline[c] + PollInterval
    /\ pc[c] = "backoff" =>
          /\ attempt[c] > 1
          /\ now[c] <= PostedBy[attempt[c] - 1] + Period
          /\ now[c] >= Waited[attempt[c] - 1]
    /\ outcome[c] = "raised" => now[c] >= Waited[MaxAttempts]
    /\ now[c] <= ElapsedBound

ScheduleInv == IInv /\ \A c \in Calls : TimeInv(c)

\* The attempts follow one another: each starts after the one before it has
\* taken its longest and the wait between them has been slept.
LEMMA Schedule ==
    /\ Period \in Nat
    /\ Period = MaxLag + PollTimeout - 1 + PollInterval + MaxLag
    /\ PostedBy[1] = 2 * MaxLag
    /\ Waited[1] = 0
    /\ Waited[MaxAttempts] = 3 * BackoffUnit
    /\ \A a \in Attempts :
          /\ PostedBy[a] \in Nat /\ PostedBy[a] + Period <= ElapsedBound
          /\ PostedBy[a] >= 2 * MaxLag
          /\ Waited[a] \in Nat
          /\ a > 1 =>
                /\ PostedBy[a] = PostedBy[a - 1] + Period + BackoffUnit * (a - 1)
                /\ Waited[a] = Waited[a - 1] + BackoffUnit * (a - 1)
<1>1. Period \in Nat
  BY TimeAssumption DEF Period
<1>2. ASSUME NEW a \in Attempts
      PROVE  /\ PostedBy[a] \in Nat /\ PostedBy[a] + Period <= ElapsedBound
             /\ PostedBy[a] >= 2 * MaxLag
             /\ Waited[a] \in Nat
             /\ a > 1 =>
                   /\ PostedBy[a] = PostedBy[a - 1] + Period + BackoffUnit * (a - 1)
                   /\ Waited[a] = Waited[a - 1] + BackoffUnit * (a - 1)
  <2>1. a = 1 \/ a = 2 \/ a = 3
    BY DEF Attempts, MaxAttempts
  <2>2. ElapsedBound = 2 * MaxLag + 3 * Period + 3 * BackoffUnit
    BY TimeAssumption DEF ElapsedBound, Period, MaxAttempts
  <2> QED
    BY <1>1, <2>1, <2>2, TimeAssumption DEF PostedBy, Waited
<1> QED
  BY <1>1, <1>2 DEF PostedBy, Waited, Period, MaxAttempts

\* A request moves the clock on by MaxLag at most.
LEMMA LagBounded ==
    ASSUME TypeOK, NEW c \in Calls, \E d \in 0..MaxLag : Elapse(c, d)
    PROVE  now'[c] \in Nat /\ now[c] <= now'[c] /\ now'[c] <= now[c] + MaxLag
<1>1. PICK d \in 0..MaxLag : Elapse(c, d)
  OBVIOUS
<1>2. d \in Nat /\ d <= MaxLag /\ now[c] \in Nat
  BY TimeAssumption DEF TypeOK
<1>3. now'[c] = now[c] + d
  BY <1>1, <1>2, ElapseTyped
<1> QED
  BY <1>2, <1>3, TimeAssumption

\* The clock and the deadline are the call's own.
LEMMA OtherClocksUntouched ==
    ASSUME TypeOK, NEW c \in Calls, NEW d \in Calls \ {c},
           CallStep(c) \/ FleetStep(c)
    PROVE  now'[d] = now[d] /\ deadline'[d] = deadline[d]
<1> USE DEF TypeOK, Elapse
<1>1. CASE FleetStep(c)
  BY <1>1, FleetStepShape
<1>2. CASE ResolveByIdentifier(c) \/ ResolveByQuery(c)
  BY <1>2 DEF ResolveByIdentifier, ResolveByQuery
<1>3. CASE SubmitAcknowledged(c) \/ SubmitTransient(c) \/ SubmitFailed(c)
  BY <1>3 DEF SubmitAcknowledged, SubmitTransient, SubmitFailed
<1>4. CASE PollSleep(c) \/ Backoff(c)
  BY <1>4 DEF PollSleep, Backoff
<1>5. CASE PollExitCode(c) \/ PollHostTimeout(c) \/ PollFailed(c)
  BY <1>5 DEF PollExitCode, PollHostTimeout, PollFailed
<1>6. CASE PollAgain(c) \/ PollTransient(c)
  BY <1>6 DEF PollAgain, PollTransient
<1> QED
  BY <1>1, <1>2, <1>3, <1>4, <1>5, <1>6 DEF CallStep

\* A call that is over keeps what its clock showed.
LEMMA EndsOnTime ==
    ASSUME TypeOK, NEW c \in Calls, NEW o \in Outcomes, Finish(c, o),
           now'[c] <= ElapsedBound,
           o = "raised" => now'[c] >= Waited[MaxAttempts]
    PROVE  TimeInv(c)'
<1>1. pc'[c] = "done" /\ outcome'[c] = o
  BY DEF Finish, TypeOK
<1> QED
  BY <1>1 DEF TimeInv

\* A transient error leaves the next attempt its whole share of the time.
LEMMA TransientTime ==
    ASSUME TypeOK, NEW c \in Calls, Transient(c), outcome[c] # "raised",
           now'[c] \in Nat,
           now'[c] <= PostedBy[attempt[c]] + Period,
           now'[c] >= Waited[attempt[c]]
    PROVE  TimeInv(c)'
<1>1. attempt[c] \in Attempts
  BY DEF TypeOK
<1>2. now'[c] <= ElapsedBound
  BY <1>1, Schedule, TimeAssumption DEF ElapsedBound, MaxAttempts
<1>3. CASE attempt[c] < MaxAttempts
  <2>1. /\ pc'[c] = "backoff" /\ outcome'[c] = outcome[c]
        /\ attempt'[c] = attempt[c] + 1
        /\ attempt'[c] > 1 /\ attempt'[c] - 1 = attempt[c]
    BY <1>1, <1>3 DEF Transient, Goto, TypeOK, Attempts, MaxAttempts
  <2> QED
    BY <1>2, <2>1 DEF TimeInv
<1>4. CASE ~(attempt[c] < MaxAttempts)
  <2>1. attempt[c] = MaxAttempts
    BY <1>1, <1>4 DEF Attempts, MaxAttempts
  <2> QED
    BY <1>2, <1>4, <2>1, EndsOnTime DEF Transient, Outcomes
<1> QED
  BY <1>3, <1>4

LEMMA LookupTime ==
    ASSUME TypeOK, NEW c \in Calls, CallInv(c), TimeInv(c),
           ResolveByIdentifier(c) \/ ResolveByQuery(c)
    PROVE  TimeInv(c)'
<1>1. /\ now'[c] \in Nat /\ now'[c] <= 2 * MaxLag
      /\ attempt[c] = 1 /\ attempt'[c] = 1
      /\ outcome[c] = "pending"
      /\ pc[c] = "identifier" => now'[c] <= MaxLag
  BY LagBounded, TimeAssumption
     DEF ResolveByIdentifier, ResolveByQuery, TimeInv, CallInv, TypeOK
<1>2. now'[c] <= ElapsedBound
  BY <1>1, Schedule, TimeAssumption DEF ElapsedBound, Attempts, MaxAttempts
<1>3. ASSUME NEW h \in Hosts, Resolved(c, h)
      PROVE  TimeInv(c)'
  <2>1. pc'[c] = "submit" /\ outcome'[c] = "pending"
    BY <1>1, <1>3 DEF Resolved, Goto, TypeOK
  <2> QED
    BY <1>1, <1>2, <2>1, Schedule DEF TimeInv
<1>4. ASSUME pc[c] = "identifier", Goto(c, "query")
      PROVE  TimeInv(c)'
  <2>1. pc'[c] = "query" /\ outcome'[c] = "pending"
    BY <1>1, <1>4 DEF Goto, TypeOK
  <2> QED
    BY <1>1, <1>2, <1>4, <2>1 DEF TimeInv
<1>5. ASSUME NotFound(c)
      PROVE  TimeInv(c)'
  BY <1>2, <1>5, EndsOnTime DEF NotFound, Outcomes
<1> QED
  BY <1>3, <1>4, <1>5 DEF ResolveByIdentifier, ResolveByQuery

LEMMA SubmitTime ==
    ASSUME TypeOK, NEW c \in Calls, CallInv(c), TimeInv(c),
           SubmitAcknowledged(c) \/ SubmitTransient(c) \/ SubmitFailed(c)
    PROVE  TimeInv(c)'
<1>1. /\ pc[c] = "submit" /\ outcome[c] = "pending"
      /\ attempt[c] \in Attempts
      /\ PostedBy[attempt[c]] \in Nat /\ Waited[attempt[c]] \in Nat
      /\ PostedBy[attempt[c]] + Period <= ElapsedBound
  BY Schedule DEF SubmitAcknowledged, SubmitTransient, SubmitFailed, CallInv, TypeOK
<1>2. /\ now'[c] \in Nat /\ now[c] \in Nat
      /\ now'[c] <= PostedBy[attempt[c]] + MaxLag
      /\ now'[c] >= Waited[attempt[c]]
  <2>1. now'[c] \in Nat /\ now[c] <= now'[c] /\ now'[c] <= now[c] + MaxLag
    BY LagBounded DEF SubmitAcknowledged, SubmitTransient, SubmitFailed
  <2>2. /\ now[c] \in Nat
        /\ now[c] <= PostedBy[attempt[c]] /\ now[c] >= Waited[attempt[c]]
    BY <1>1 DEF TimeInv, TypeOK
  <2> QED
    BY <1>1, <2>1, <2>2, TimeAssumption
<1>3. now'[c] <= PostedBy[attempt[c]] + Period /\ ElapsedBound \in Int
  BY <1>1, <1>2, Schedule, TimeAssumption DEF ElapsedBound, MaxAttempts
<1>4. now'[c] <= ElapsedBound
  BY <1>1, <1>2, <1>3, Schedule
<1>5. CASE SubmitAcknowledged(c)
  <2>1. /\ pc'[c] = "sleep" /\ outcome'[c] = "pending"
        /\ attempt'[c] = attempt[c]
        /\ deadline'[c] = now'[c] + PollTimeout
    BY <1>1, <1>5 DEF SubmitAcknowledged, Goto, TypeOK
  <2>2. /\ deadline'[c] <= PostedBy[attempt[c]] + MaxLag + PollTimeout
        /\ deadline'[c] <= now'[c] + PollTimeout
        /\ now'[c] < deadline'[c]
    BY <1>1, <1>2, <2>1, TimeAssumption
  <2> QED
    BY <1>2, <1>4, <2>1, <2>2 DEF TimeInv
<1>6. CASE SubmitTransient(c)
  BY <1>1, <1>2, <1>3, <1>6, TransientTime DEF SubmitTransient
<1>7. CASE SubmitFailed(c)
  BY <1>4, <1>7, EndsOnTime DEF SubmitFailed, Outcomes
<1> QED
  BY <1>5, <1>6, <1>7

LEMMA PollTime ==
    ASSUME TypeOK, NEW c \in Calls, CallInv(c), TimeInv(c), pc[c] = "poll",
           \/ PollExitCode(c) \/ PollHostTimeout(c) \/ PollAgain(c)
           \/ PollTransient(c) \/ PollFailed(c)
    PROVE  TimeInv(c)'
<1>1. /\ outcome[c] = "pending"
      /\ attempt[c] \in Attempts
      /\ PostedBy[attempt[c]] \in Nat /\ Waited[attempt[c]] \in Nat
      /\ PostedBy[attempt[c]] + Period <= ElapsedBound
      /\ now[c] \in Nat /\ deadline[c] \in Nat
      /\ deadline[c] <= PostedBy[attempt[c]] + MaxLag + PollTimeout
      /\ deadline[c] <= now[c] + PollTimeout
      /\ now[c] < deadline[c] + PollInterval
      /\ now[c] >= Waited[attempt[c]]
  BY Schedule DEF CallInv, TypeOK, TimeInv
<1>2. now'[c] \in Nat /\ now[c] <= now'[c] /\ now'[c] <= now[c] + MaxLag
  BY LagBounded DEF PollExitCode, PollHostTimeout, PollAgain, PollTransient, PollFailed
<1>3. /\ now'[c] <= PostedBy[attempt[c]] + Period /\ now'[c] >= Waited[attempt[c]]
      /\ deadline[c] <= now'[c] + PollTimeout
  BY <1>1, <1>2, Schedule, TimeAssumption
<1>4. now'[c] <= ElapsedBound
  BY <1>1, <1>2, <1>3, Schedule, TimeAssumption DEF ElapsedBound, MaxAttempts
<1>5. CASE PollExitCode(c)
  BY <1>4, <1>5, EndsOnTime DEF PollExitCode, Outcomes
<1>6. CASE PollHostTimeout(c) \/ PollFailed(c)
  BY <1>4, <1>6, EndsOnTime DEF PollHostTimeout, PollFailed, Outcomes
<1>7. CASE PollAgain(c)
  <2>1. attempt'[c] = attempt[c] /\ deadline'[c] = deadline[c]
    BY <1>7 DEF PollAgain
  <2>2. CASE now'[c] < deadline[c]
    <3>1. pc'[c] = "sleep" /\ outcome'[c] = "pending"
      BY <1>1, <1>7, <2>2 DEF PollAgain, PollLoop, Goto, TypeOK
    <3> QED
      BY <1>1, <1>3, <1>4, <2>1, <2>2, <3>1 DEF TimeInv
  <2>3. CASE ~(now'[c] < deadline[c])
    BY <1>4, <1>7, <2>3, EndsOnTime DEF PollAgain, PollLoop, Outcomes
  <2> QED
    BY <2>2, <2>3
<1>8. CASE PollTransient(c)
  BY <1>1, <1>2, <1>3, <1>8, TransientTime DEF PollTransient
<1> QED
  BY <1>5, <1>6, <1>7, <1>8

LEMMA SleepTime ==
    ASSUME TypeOK, NEW c \in Calls, CallInv(c), TimeInv(c), PollSleep(c)
    PROVE  TimeInv(c)'
<1>1. /\ pc[c] = "sleep" /\ outcome[c] = "pending"
      /\ attempt[c] \in Attempts
      /\ PostedBy[attempt[c]] \in Nat /\ Waited[attempt[c]] \in Nat
      /\ PostedBy[attempt[c]] + Period <= ElapsedBound
      /\ now[c] \in Nat /\ deadline[c] \in Nat
      /\ deadline[c] <= PostedBy[attempt[c]] + MaxLag + PollTimeout
      /\ deadline[c] <= now[c] + PollTimeout
      /\ now[c] < deadline[c]
      /\ now[c] >= Waited[attempt[c]]
  BY Schedule DEF PollSleep, CallInv, TypeOK, TimeInv
<1>2. now'[c] = now[c] + PollInterval
  BY ElapseTyped, TimeAssumption DEF PollSleep
<1>3. /\ pc'[c] = "poll" /\ outcome'[c] = "pending"
      /\ attempt'[c] = attempt[c] /\ deadline'[c] = deadline[c]
  BY <1>1 DEF PollSleep, Goto, TypeOK
<1>4. /\ now'[c] < deadline[c] + PollInterval /\ now'[c] >= Waited[attempt[c]]
      /\ deadline[c] <= now'[c] + PollTimeout
  BY <1>1, <1>2, TimeAssumption
<1>5. now'[c] <= ElapsedBound
  BY <1>1, <1>2, Schedule, TimeAssumption DEF ElapsedBound, MaxAttempts
<1> QED
  BY <1>1, <1>3, <1>4, <1>5 DEF TimeInv

LEMMA BackoffTime ==
    ASSUME TypeOK, NEW c \in Calls, CallInv(c), TimeInv(c), Backoff(c)
    PROVE  TimeInv(c)'
<1>1. /\ pc[c] = "backoff" /\ outcome[c] = "pending"
      /\ attempt[c] \in Attempts /\ attempt[c] > 1
      /\ attempt[c] - 1 \in Attempts
      /\ now[c] \in Nat
      /\ now[c] <= PostedBy[attempt[c] - 1] + Period
      /\ now[c] >= Waited[attempt[c] - 1]
  BY DEF Backoff, CallInv, TypeOK, TimeInv, Attempts, MaxAttempts
<1>2. BackoffWait(c) \in Nat
  BY <1>1, TimeAssumption DEF BackoffWait, Attempts, MaxAttempts
<1>3. now'[c] = now[c] + BackoffWait(c)
  BY <1>2, ElapseTyped DEF Backoff
<1>4. /\ PostedBy[attempt[c]] = PostedBy[attempt[c] - 1] + Period + BackoffWait(c)
      /\ Waited[attempt[c]] = Waited[attempt[c] - 1] + BackoffWait(c)
      /\ PostedBy[attempt[c] - 1] \in Nat /\ Waited[attempt[c] - 1] \in Nat
      /\ PostedBy[attempt[c]] \in Nat
      /\ PostedBy[attempt[c]] + Period <= ElapsedBound
  BY <1>1, Schedule DEF BackoffWait
<1>5. now'[c] <= PostedBy[attempt[c]] /\ now'[c] >= Waited[attempt[c]]
  BY <1>1, <1>2, <1>3, <1>4, Schedule
<1>6. now'[c] <= ElapsedBound
  BY <1>1, <1>2, <1>3, <1>4, <1>5, Schedule, TimeAssumption DEF ElapsedBound, MaxAttempts
<1>7. /\ pc'[c] = "submit" /\ outcome'[c] = "pending"
      /\ attempt'[c] = attempt[c]
  BY <1>1 DEF Backoff, Goto, TypeOK
<1> QED
  BY <1>5, <1>6, <1>7 DEF TimeInv

LEMMA CallStepTime ==
    ASSUME TypeOK, NEW c \in Calls, CallInv(c), TimeInv(c), CallStep(c)
    PROVE  TimeInv(c)'
  BY LookupTime, SubmitTime, PollTime, SleepTime, BackoffTime
     DEF CallStep, PollExitCode, PollHostTimeout, PollAgain, PollTransient, PollFailed

\* Every call keeps to its schedule, from both sides.
THEOREM OnSchedule == Spec => []ScheduleInv
<1>1. Init => \A c \in Calls : TimeInv(c)
  <2> SUFFICES ASSUME Init, NEW c \in Calls
               PROVE  TimeInv(c)
    OBVIOUS
  <2>1. 0 <= ElapsedBound
    BY Schedule, TimeAssumption DEF ElapsedBound, MaxAttempts
  <2> QED
    BY <2>1 DEF Init, TimeInv
<1>2. ScheduleInv /\ IInv' /\ [Next]_vars => ScheduleInv'
  <2> SUFFICES ASSUME ScheduleInv, [Next]_vars, NEW d \in Calls
               PROVE  TimeInv(d)'
    BY DEF ScheduleInv
  <2>1. TypeOK /\ CallInv(d) /\ TimeInv(d)
    BY DEF ScheduleInv, IInv
  <2>2. ASSUME NEW c \in Calls, CallStep(c)
        PROVE  TimeInv(d)'
    <3>1. CASE c = d
      BY <2>1, <2>2, <3>1, CallStepTime
    <3>2. CASE c # d
      BY <2>1, <2>2, <3>2, OtherCallsUntouched, OtherClocksUntouched DEF TimeInv
    <3> QED
      BY <3>1, <3>2
  <2>3. ASSUME NEW c \in Calls, FleetStep(c)
        PROVE  TimeInv(d)'
    BY <2>1, <2>3, FleetStepShape DEF TimeInv
  <2>4. CASE UNCHANGED vars
    BY <2>1, <2>4 DEF vars, TimeInv
  <2> QED
    BY <2>2, <2>3, <2>4 DEF Next
<1> QED
  BY <1>1, <1>2, Invariance, PTL DEF Spec, ScheduleInv

\* A call takes ElapsedBound at most.  ClockBound is the model's: the theorem
\* asks of it only that it lets a call run that long.
THEOREM InTime ==
    ASSUME ElapsedBound < ClockBound
    PROVE  Spec => []EndsInTime
<1>1. ScheduleInv => EndsInTime
  BY DEF ScheduleInv, TimeInv, EndsInTime
<1> QED
  BY <1>1, OnSchedule, PTL

\* A script is posted again only after the waits between the attempts, and the
\* error is raised only after all of them.
THEOREM WaitsKept == Spec => []WaitsBeforeRetrying
<1>1. ScheduleInv => WaitsBeforeRetrying
  <2> SUFFICES ASSUME ScheduleInv, NEW c \in Calls
               PROVE  /\ pc[c] = "submit" =>
                            2 * now[c] >= BackoffUnit * (attempt[c] - 1) * attempt[c]
                      /\ outcome[c] = "raised" => now[c] >= 3 * BackoffUnit
    BY DEF WaitsBeforeRetrying
  <2>1. TypeOK /\ TimeInv(c)
    BY DEF ScheduleInv, IInv
  <2>2. attempt[c] = 1 \/ attempt[c] = 2 \/ attempt[c] = 3
    BY <2>1 DEF TypeOK, Attempts, MaxAttempts
  <2>3. now[c] \in Nat
    BY <2>1 DEF TypeOK
  <2>4. pc[c] = "submit" => now[c] >= Waited[attempt[c]]
    BY <2>1 DEF TimeInv
  <2>5. outcome[c] = "raised" => now[c] >= 3 * BackoffUnit
    BY <2>1, Schedule DEF TimeInv
  <2> QED
    BY <2>2, <2>3, <2>4, <2>5, TimeAssumption DEF Waited
<1> QED
  BY <1>1, OnSchedule, PTL

-----------------------------------------------------------------------------
(* How many steps a call can take.                                          *)

\* The awaits an attempt can take: two lookups (which only the first attempt
\* makes), a POST, and a sleep and a poll for each unit of the polling budget.
Share == 2 * PollTimeout + 3

\* The awaits the current attempt has left.
StepsHere(c) ==
    CASE pc[c] = "identifier" -> Share
      [] pc[c] \in {"query", "backoff"} -> Share - 1
      [] pc[c] = "submit" -> Share - 2
      [] pc[c] = "sleep" -> 2 * (deadline[c] - now[c])
      [] pc[c] = "poll" ->
            IF now[c] < deadline[c] THEN 2 * (deadline[c] - now[c]) + 1 ELSE 1
      [] OTHER -> 0

\* A bound on the awaits the call has left.
StepsLeft(c) == (MaxAttempts - attempt[c]) * Share + StepsHere(c)

\* Every step of a call uses up at least one of the steps it has left, and no
\* other call, Fleet or host ever gives it one back.
StepsRunOut ==
    [][\A c \in Calls :
          /\ StepsLeft(c)' <= StepsLeft(c)
          /\ CallStep(c) => StepsLeft(c)' < StepsLeft(c)]_vars

LEMMA ShareTyped == Share \in Nat /\ Share = 2 * PollTimeout + 3 /\ Share >= 5
  BY TimeAssumption DEF Share

\* What the attempts to come are worth.
LEMMA LaterAttempts ==
    ASSUME NEW a \in Attempts
    PROVE  /\ (MaxAttempts - a) * Share \in Nat
           /\ (MaxAttempts - a) * Share <= 2 * Share
           /\ a < MaxAttempts =>
                 (MaxAttempts - a) * Share = (MaxAttempts - (a + 1)) * Share + Share
<1>1. a = 1 \/ a = 2 \/ a = 3
  BY DEF Attempts, MaxAttempts
<1> QED
  BY <1>1, ShareTyped DEF MaxAttempts

LEMMA StepsHereTyped ==
    ASSUME TypeOK, NEW c \in Calls, TimeInv(c)
    PROVE  StepsHere(c) \in Nat /\ (pc[c] # "done" => StepsHere(c) > 0)
<1>1. now[c] \in Nat /\ deadline[c] \in Nat /\ pc[c] \in Awaits \union {"done"}
  BY DEF TypeOK
<1>2. pc[c] = "sleep" => now[c] < deadline[c]
  BY DEF TimeInv
<1> QED
  BY <1>1, <1>2, ShareTyped DEF StepsHere, Awaits

\* A step that stays within the attempt counts down in it.
LEMMA SameAttemptDescends ==
    ASSUME TypeOK, NEW c \in Calls, attempt'[c] = attempt[c],
           StepsHere(c) \in Nat, StepsHere(c)' \in Nat,
           StepsHere(c)' < StepsHere(c)
    PROVE  StepsLeft(c)' < StepsLeft(c)
<1>1. attempt[c] \in Attempts
  BY DEF TypeOK
<1> QED
  BY <1>1, LaterAttempts DEF StepsLeft

\* The end of a call uses up whatever is left.
LEMMA FinishDescends ==
    ASSUME TypeOK, NEW c \in Calls, TimeInv(c), pc[c] # "done",
           NEW o \in Outcomes, Finish(c, o), attempt'[c] = attempt[c]
    PROVE  StepsLeft(c)' < StepsLeft(c)
<1>1. StepsHere(c)' = 0
  BY DEF Finish, TypeOK, StepsHere
<1> QED
  BY <1>1, StepsHereTyped, SameAttemptDescends

\* A retry gives up an attempt, and what is left of its share, for the next.
LEMMA TransientDescends ==
    ASSUME TypeOK, NEW c \in Calls, TimeInv(c), pc[c] \in Awaits, Transient(c)
    PROVE  StepsLeft(c)' < StepsLeft(c)
<1>1. /\ attempt[c] \in Attempts /\ StepsHere(c) \in Nat /\ StepsHere(c) > 0
      /\ pc[c] # "done"
  BY StepsHereTyped DEF TypeOK, Awaits
<1>2. CASE attempt[c] < MaxAttempts
  <2>1. attempt'[c] = attempt[c] + 1 /\ StepsHere(c)' = Share - 1
    BY <1>1, <1>2 DEF Transient, Goto, TypeOK, StepsHere
  <2>2. attempt'[c] \in Attempts
    BY <1>1, <1>2, <2>1 DEF Attempts, MaxAttempts
  <2> DEFINE later(a) == (MaxAttempts - a) * Share
  <2>3. /\ later(attempt[c]) = later(attempt'[c]) + Share
        /\ later(attempt[c]) \in Nat /\ later(attempt'[c]) \in Nat
    BY <1>1, <1>2, <2>1, <2>2, LaterAttempts
  <2>4. /\ StepsLeft(c) = later(attempt[c]) + StepsHere(c)
        /\ StepsLeft(c)' = later(attempt'[c]) + StepsHere(c)'
    BY DEF StepsLeft
  <2> HIDE DEF later
  <2> QED
    BY <1>1, <2>1, <2>3, <2>4, ShareTyped
<1>3. CASE ~(attempt[c] < MaxAttempts)
  BY <1>1, <1>3, FinishDescends DEF Transient, Outcomes
<1> QED
  BY <1>2, <1>3

LEMMA LookupDescends ==
    ASSUME TypeOK, NEW c \in Calls, TimeInv(c),
           ResolveByIdentifier(c) \/ ResolveByQuery(c)
    PROVE  StepsLeft(c)' < StepsLeft(c)
<1>1. attempt'[c] = attempt[c] /\ pc[c] \in {"identifier", "query"}
  BY DEF ResolveByIdentifier, ResolveByQuery
<1>2. ASSUME NEW l \in {"query", "submit"}, Goto(c, l), l = "query" => pc[c] = "identifier"
      PROVE  StepsLeft(c)' < StepsLeft(c)
  <2>1. pc'[c] = l
    BY <1>2 DEF Goto, TypeOK
  <2>2. /\ StepsHere(c) \in Nat /\ StepsHere(c)' \in Nat
        /\ StepsHere(c)' < StepsHere(c)
    BY <1>1, <1>2, <2>1, ShareTyped DEF StepsHere
  <2> QED
    BY <1>1, <2>2, SameAttemptDescends
<1>3. ASSUME NotFound(c)
      PROVE  StepsLeft(c)' < StepsLeft(c)
  BY <1>1, <1>3, FinishDescends DEF NotFound, Outcomes
<1>4. \/ \E h \in Hosts : Resolved(c, h)
      \/ pc[c] = "identifier" /\ Goto(c, "query")
      \/ NotFound(c)
  BY DEF ResolveByIdentifier, ResolveByQuery
<1> QED
  BY <1>2, <1>3, <1>4 DEF Resolved

LEMMA SubmitDescends ==
    ASSUME TypeOK, NEW c \in Calls, TimeInv(c),
           SubmitAcknowledged(c) \/ SubmitTransient(c) \/ SubmitFailed(c)
    PROVE  StepsLeft(c)' < StepsLeft(c)
<1>1. pc[c] = "submit" /\ pc[c] \in Awaits /\ pc[c] # "done"
  BY DEF SubmitAcknowledged, SubmitTransient, SubmitFailed, Awaits
<1>2. CASE SubmitAcknowledged(c)
  <2>1. /\ pc'[c] = "sleep" /\ attempt'[c] = attempt[c]
        /\ deadline'[c] = now'[c] + PollTimeout
        /\ now'[c] \in Nat
    BY <1>2, LagBounded DEF SubmitAcknowledged, Goto, TypeOK
  <2>2. StepsHere(c) = Share - 2 /\ StepsHere(c)' = 2 * PollTimeout
    BY <1>1, <2>1, TimeAssumption DEF StepsHere
  <2> QED
    BY <2>1, <2>2, ShareTyped, TimeAssumption, SameAttemptDescends
<1>3. CASE SubmitTransient(c)
  BY <1>1, <1>3, TransientDescends DEF SubmitTransient
<1>4. CASE SubmitFailed(c)
  BY <1>1, <1>4, FinishDescends DEF SubmitFailed, Outcomes
<1> QED
  BY <1>2, <1>3, <1>4

LEMMA PollDescends ==
    ASSUME TypeOK, NEW c \in Calls, TimeInv(c), pc[c] = "poll",
           \/ PollExitCode(c) \/ PollHostTimeout(c) \/ PollAgain(c)
           \/ PollTransient(c) \/ PollFailed(c)
    PROVE  StepsLeft(c)' < StepsLeft(c)
<1>1. pc[c] \in Awaits /\ pc[c] # "done"
  BY DEF Awaits
<1>2. CASE PollExitCode(c) \/ PollHostTimeout(c) \/ PollFailed(c)
  BY <1>1, <1>2, FinishDescends DEF PollExitCode, PollHostTimeout, PollFailed, Outcomes
<1>3. CASE PollAgain(c)
  <2>1. attempt'[c] = attempt[c] /\ deadline'[c] = deadline[c]
    BY <1>3 DEF PollAgain
  <2>2. CASE now'[c] < deadline[c]
    <3>1. pc'[c] = "sleep"
      BY <1>3, <2>2 DEF PollAgain, PollLoop, Goto, TypeOK
    <3>2. /\ now'[c] \in Nat /\ now[c] <= now'[c]
          /\ now[c] \in Nat /\ deadline[c] \in Nat
      BY <1>3, LagBounded DEF PollAgain, TypeOK
    <3>3. /\ StepsHere(c) = 2 * (deadline[c] - now[c]) + 1
          /\ StepsHere(c)' = 2 * (deadline[c] - now'[c])
      BY <2>1, <2>2, <3>1, <3>2 DEF StepsHere
    <3> QED
      BY <2>1, <2>2, <3>2, <3>3, SameAttemptDescends
  <2>3. CASE ~(now'[c] < deadline[c])
    BY <1>1, <1>3, <2>1, <2>3, FinishDescends DEF PollAgain, PollLoop, Outcomes
  <2> QED
    BY <2>2, <2>3
<1>4. CASE PollTransient(c)
  BY <1>1, <1>4, TransientDescends DEF PollTransient
<1> QED
  BY <1>2, <1>3, <1>4

LEMMA SleepDescends ==
    ASSUME TypeOK, NEW c \in Calls, TimeInv(c), PollSleep(c)
    PROVE  StepsLeft(c)' < StepsLeft(c)
<1>1. /\ pc[c] = "sleep" /\ now[c] < deadline[c]
      /\ now[c] \in Nat /\ deadline[c] \in Nat
  BY DEF PollSleep, TimeInv, TypeOK
<1>2. /\ pc'[c] = "poll" /\ attempt'[c] = attempt[c] /\ deadline'[c] = deadline[c]
  BY DEF PollSleep, Goto, TypeOK
<1>3. now'[c] = now[c] + PollInterval
  BY ElapseTyped, TimeAssumption DEF PollSleep
<1>4. /\ StepsHere(c) = 2 * (deadline[c] - now[c])
      /\ StepsHere(c)' = IF now'[c] < deadline[c]
                         THEN 2 * (deadline[c] - now'[c]) + 1 ELSE 1
  BY <1>1, <1>2 DEF StepsHere
<1>5. /\ StepsHere(c) \in Nat /\ StepsHere(c)' \in Nat
      /\ StepsHere(c)' < StepsHere(c)
  BY <1>1, <1>3, <1>4, TimeAssumption
<1> QED
  BY <1>2, <1>5, SameAttemptDescends

LEMMA BackoffDescends ==
    ASSUME TypeOK, NEW c \in Calls, TimeInv(c), Backoff(c)
    PROVE  StepsLeft(c)' < StepsLeft(c)
<1>1. /\ pc[c] = "backoff" /\ pc'[c] = "submit" /\ attempt'[c] = attempt[c]
  BY DEF Backoff, Goto, TypeOK
<1>2. StepsHere(c) = Share - 1 /\ StepsHere(c)' = Share - 2
  BY <1>1 DEF StepsHere
<1> QED
  BY <1>1, <1>2, ShareTyped, SameAttemptDescends

\* No call takes more steps than it has left, whatever Fleet, the hosts and the
\* other calls do: what EveryCallEnds needs besides a scheduler that runs it.
THEOREM Countdown == Spec => StepsRunOut
<1>1. ScheduleInv /\ [Next]_vars =>
          [\A c \in Calls :
              /\ StepsLeft(c)' <= StepsLeft(c)
              /\ CallStep(c) => StepsLeft(c)' < StepsLeft(c)]_vars
  <2> SUFFICES ASSUME ScheduleInv, Next, NEW d \in Calls
               PROVE  /\ StepsLeft(d)' <= StepsLeft(d)
                      /\ CallStep(d) => StepsLeft(d)' < StepsLeft(d)
    OBVIOUS
  <2>1. TypeOK /\ TimeInv(d) /\ StepsLeft(d) \in Nat
    <3>1. TypeOK /\ TimeInv(d) /\ attempt[d] \in Attempts
      BY DEF ScheduleInv, IInv, TypeOK
    <3> QED
      BY <3>1, StepsHereTyped, LaterAttempts DEF StepsLeft
  <2>2. CallStep(d) => StepsLeft(d)' < StepsLeft(d)
    BY <2>1, LookupDescends, SubmitDescends, PollDescends, SleepDescends, BackoffDescends
       DEF CallStep, PollExitCode, PollHostTimeout, PollAgain, PollTransient, PollFailed
  <2>3. ASSUME NEW c \in Calls, CallStep(c) \/ FleetStep(c)
        PROVE  StepsLeft(d)' <= StepsLeft(d)
    <3>1. CASE c # d \/ FleetStep(c)
      <4>1. /\ pc'[d] = pc[d] /\ attempt'[d] = attempt[d]
            /\ now'[d] = now[d] /\ deadline'[d] = deadline[d]
        BY <2>1, <2>3, <3>1, OtherCallsUntouched, OtherClocksUntouched, FleetStepShape
      <4>2. StepsLeft(d)' = StepsLeft(d)
        BY <4>1 DEF StepsLeft, StepsHere
      <4> QED
        BY <2>1, <4>2
    <3>2. CASE c = d /\ CallStep(d)
      <4>1. StepsLeft(d)' \in Int
        <5>1. attempt'[d] \in Attempts /\ now'[d] \in Nat /\ deadline'[d] \in Nat
          BY <2>1, <3>2, CallStepTyped DEF TypeOK
        <5> QED
          BY <5>1, ShareTyped, LaterAttempts DEF StepsLeft, StepsHere
      <4> QED
        BY <2>1, <2>2, <3>2, <4>1
    <3> QED
      BY <2>3, <3>1, <3>2
  <2> QED
    BY <2>2, <2>3 DEF Next
<1> QED
  BY <1>1, OnSchedule, PTL DEF Spec, StepsRunOut

\* What a call has left is never negative and is at most three shares: with
\* Countdown, no call takes more than 3 * Share steps.
THEOREM StepsAreBounded ==
    Spec => [](\A c \in Calls : StepsLeft(c) \in 0..(MaxAttempts * Share))
<1>1. ScheduleInv => \A c \in Calls : StepsLeft(c) \in 0..(MaxAttempts * Share)
  <2> SUFFICES ASSUME ScheduleInv, NEW c \in Calls
               PROVE  StepsLeft(c) \in 0..(MaxAttempts * Share)
    OBVIOUS
  <2>1. TypeOK /\ TimeInv(c) /\ attempt[c] \in Attempts
    BY DEF ScheduleInv, IInv, TypeOK
  <2>2. StepsHere(c) <= Share
    <3>1. now[c] \in Nat /\ deadline[c] \in Nat
      BY <2>1 DEF TypeOK
    <3>2. pc[c] \in {"sleep", "poll"} => deadline[c] - now[c] <= PollTimeout
      BY <2>1, <3>1, TimeAssumption DEF TimeInv
    <3> QED
      BY <3>1, <3>2, ShareTyped, TimeAssumption DEF StepsHere
  <2> QED
    BY <2>1, <2>2, ShareTyped, StepsHereTyped, LaterAttempts DEF StepsLeft, MaxAttempts
<1> QED
  BY <1>1, OnSchedule, PTL
=============================================================================
