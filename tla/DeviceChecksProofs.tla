------------------------- MODULE DeviceChecksProofs -------------------------
(***************************************************************************)
(* What a verdict vouches for, for lists of any length and any number of   *)
(* copies.  The invariant says how far the loop is, what the calls behind  *)
(* it were told, and that a copy that has ended stays as it is: only then  *)
(* may later checks and late copies do what they like.                     *)
(*                                                                         *)
(* And that a verification runs out of steps, whatever its calls do.       *)
(***************************************************************************)
EXTENDS DeviceChecks, SequenceTheorems, TLAPS

Endings == {"no", "ok", "error"}

TypeInv ==
    /\ checks \in Seq(Check) /\ Len(checks) <= MaxChecks
    /\ i \in 1..(Len(checks) + 1)
    /\ results \in Seq([check : Index, pass : BOOLEAN])
    /\ allPassed \in BOOLEAN
    /\ verdict \in {"pending", "pass", "fail", "raised"}
    /\ outcome \in [Index -> Call!Outcomes]
    /\ started \in [Index -> SUBSET Copies]
    /\ ended \in [Index -> [Copies -> Endings]]
    /\ printed \in [Index -> [Copies -> Printable]]

\* A call that was told how its script ended was told it of the last copy.
CallInv ==
    \A c \in Index : outcome[c] \in {"ok", "error"} =>
        started[c] # {} /\ LastCopy(c) \in Copies /\ ended[c][LastCopy(c)] = outcome[c]

\* The calls behind the loop are answered, those ahead of it have not begun.
OrderInv ==
    \A c \in Index :
        /\ c < i /\ HasCommand(c) => outcome[c] \notin {"pending", "raised"}
        /\ c > i => started[c] = {}

\* The results are those of the checks behind the loop, in order.
ResultsInv ==
    /\ \A r \in DOMAIN results : results[r].check < i /\ HasCommand(results[r].check)
    /\ \A c \in Index : c < i /\ HasCommand(c) => \E r \in DOMAIN results : results[r].check = c
    /\ \A r, s \in DOMAIN results : r < s => results[r].check < results[s].check

\* As long as all have passed, the device did what each check behind the loop
\* asks for.
PassInv ==
    allPassed =>
        \A c \in Index : c < i /\ HasCommand(c) /\ checks[c].expected # "" =>
            started[c] # {} /\ LastCopy(c) \in Copies /\ Satisfies(c, LastCopy(c))

VerdictInv ==
    /\ verdict \in {"pass", "fail"} => i > Len(checks)
    /\ verdict = "pass" => allPassed

IInv == TypeInv /\ CallInv /\ OrderInv /\ ResultsInv /\ PassInv /\ VerdictInv

LEMMA IndexNat == Index \subseteq Nat
  BY BoundAssumption DEF Index

\* A check of the list is behind a loop that has passed the list's end.
LEMMA Behind ==
    ASSUME NEW S, NEW list \in Seq(S), NEW c \in DOMAIN list, NEW at \in Nat, at > Len(list)
    PROVE  c < at
<1>1. Len(list) \in Nat /\ DOMAIN list = 1..Len(list)
  BY LenProperties
<1> QED
  BY <1>1

LEMMA Distinct ==
    ASSUME NEW a \in Nat, NEW b \in Nat, a < b
    PROVE  a # b
  OBVIOUS

LEMMA IndexOfLoop ==
    ASSUME TypeInv, i <= Len(checks)
    PROVE  i \in Index /\ i \in DOMAIN checks /\ checks[i] \in Check
  BY BoundAssumption DEF TypeInv, Index

LEMMA SameLastCopy ==
    ASSUME UNCHANGED started
    PROVE  \A c : LastCopy(c)' = LastCopy(c)
  BY DEF LastCopy

\* What the loop has not changed is as it was.
LEMMA SameCalls ==
    ASSUME CallInv, UNCHANGED <<outcome, started, ended>>
    PROVE  CallInv'
<1> SUFFICES ASSUME NEW c \in Index, outcome'[c] \in {"ok", "error"}
             PROVE  /\ started'[c] # {} /\ LastCopy(c)' \in Copies
                    /\ ended'[c][LastCopy(c)'] = outcome'[c]
  BY DEF CallInv
<1>1. LastCopy(c)' = LastCopy(c)
  BY SameLastCopy
<1> QED
  BY <1>1 DEF CallInv

LEMMA SameSatisfies ==
    ASSUME NEW c, UNCHANGED <<checks, started, ended, printed>>, Satisfies(c, LastCopy(c))
    PROVE  Satisfies(c, LastCopy(c))'
<1>1. LastCopy(c)' = LastCopy(c)
  BY SameLastCopy
<1> QED
  BY <1>1 DEF Satisfies

LEMMA SamePasses ==
    ASSUME PassInv, UNCHANGED <<checks, i, allPassed, started, ended, printed>>
    PROVE  PassInv'
<1> SUFFICES ASSUME allPassed', NEW c \in Index, c < i', HasCommand(c)', checks'[c].expected # ""
             PROVE  /\ started'[c] # {} /\ LastCopy(c)' \in Copies
                    /\ Satisfies(c, LastCopy(c))'
  BY DEF PassInv
<1>1. started[c] # {} /\ LastCopy(c) \in Copies /\ Satisfies(c, LastCopy(c))
  BY DEF PassInv, HasCommand
<1> QED
  BY <1>1, SameSatisfies, SameLastCopy

LEMMA LoopNat == TypeInv => i \in Nat
<1> SUFFICES ASSUME TypeInv PROVE i \in Nat
  OBVIOUS
<1>1. i \in 1..(Len(checks) + 1) /\ checks \in Seq(Check)
  BY DEF TypeInv
<1>2. Len(checks) \in Nat
  BY <1>1, LenProperties
<1> QED
  BY <1>1, <1>2

LEMMA ResultsTyped ==
    ASSUME TypeInv
    PROVE  /\ results \in Seq([check : Index, pass : BOOLEAN]) /\ Len(results) \in Nat
           /\ DOMAIN results = 1..Len(results)
           /\ \A r \in DOMAIN results : results[r].check \in Index /\ results[r].check \in Nat
<1>1. results \in Seq([check : Index, pass : BOOLEAN])
  BY DEF TypeInv
<1>2. Len(results) \in Nat /\ DOMAIN results = 1..Len(results)
  BY <1>1, LenProperties
<1>3. \A r \in DOMAIN results : results[r] \in [check : Index, pass : BOOLEAN]
  BY <1>1, <1>2, ElementOfSeq
<1>4. Index \subseteq Nat
  BY BoundAssumption DEF Index
<1> QED
  BY <1>1, <1>2, <1>3, <1>4

LEMMA InitInv == Init => IInv
<1> SUFFICES ASSUME Init PROVE IInv
  OBVIOUS
<1>1. PICK n \in 0..MaxChecks : checks \in [1..n -> Check]
  BY DEF Init
<1>2. checks \in Seq(Check) /\ Len(checks) = n
  BY <1>1, BoundAssumption
<1>3. i = 1 /\ results = << >> /\ verdict = "pending" /\ allPassed = TRUE
  BY DEF Init
<1>4. TypeInv
  <2>1. /\ outcome \in [Index -> Call!Outcomes] /\ started \in [Index -> SUBSET Copies]
        /\ ended \in [Index -> [Copies -> Endings]] /\ printed \in [Index -> [Copies -> Printable]]
    BY DEF Init, Call!Init, Call!Outcomes, Call!Attempts, Copies, Endings, Printable
  <2>2. Len(checks) <= MaxChecks /\ i \in 1..(Len(checks) + 1)
    BY <1>1, <1>2, <1>3, BoundAssumption
  <2>3. results \in Seq([check : Index, pass : BOOLEAN])
    BY <1>3
  <2> QED
    BY <1>2, <1>3, <2>1, <2>2, <2>3 DEF TypeInv
<1>5. CallInv /\ OrderInv
  <2>1. \A c \in Index : outcome[c] = "pending" /\ started[c] = {}
    BY DEF Init, Call!Init
  <2>2. \A c \in Index : ~ (c < i)
    BY <1>3, BoundAssumption DEF Index
  <2> QED
    BY <2>1, <2>2 DEF CallInv, OrderInv
<1>6. ResultsInv /\ PassInv /\ VerdictInv
  <2>1. \A c \in Index : ~ (c < i)
    BY <1>3, BoundAssumption DEF Index
  <2>2. DOMAIN results = {}
    BY <1>3
  <2> QED
    BY <1>3, <2>1, <2>2 DEF ResultsInv, PassInv, VerdictInv
<1> QED
  BY <1>4, <1>5, <1>6 DEF IInv

LEMMA SkipCheckInv == IInv /\ SkipCheck => IInv'
<1> SUFFICES ASSUME IInv, SkipCheck PROVE IInv'
  OBVIOUS
<1>1. /\ i' = i + 1 /\ ~checks[i].command /\ i <= Len(checks) /\ verdict = "pending"
      /\ UNCHANGED <<checks, results, allPassed, verdict, outcome, started, ended, printed>>
  BY DEF SkipCheck, Running, callVars
<1>2. i \in Index /\ i \in Nat
  BY <1>1, IndexOfLoop, BoundAssumption DEF IInv, Index
<1>3. TypeInv'
  BY <1>1, <1>2 DEF IInv, TypeInv
<1>4. \A c \in Index : c < i' /\ HasCommand(c) => c < i
  BY <1>1, <1>2 DEF HasCommand, Index
<1>5. CallInv' /\ VerdictInv'
  BY <1>1, SameCalls DEF IInv, VerdictInv
<1>6. OrderInv'
  BY <1>1, <1>2, <1>4 DEF IInv, OrderInv, HasCommand, Index
<1>7. ResultsInv'
  <2>1. \A r \in DOMAIN results : results[r].check \in Nat
    BY ResultsTyped DEF IInv
  <2>2. \A c : HasCommand(c)' <=> HasCommand(c)
    BY <1>1 DEF HasCommand
  <2>3. \A r \in DOMAIN results : results[r].check < i' /\ HasCommand(results[r].check)
    BY <1>1, <1>2, <2>1 DEF IInv, ResultsInv
  <2>4. \A c \in Index : c < i' /\ HasCommand(c) => \E r \in DOMAIN results : results[r].check = c
    BY <1>4 DEF IInv, ResultsInv
  <2>5. \A r, s \in DOMAIN results : r < s => results[r].check < results[s].check
    BY DEF IInv, ResultsInv
  <2> QED
    BY <1>1, <2>2, <2>3, <2>4, <2>5 DEF ResultsInv
<1>8. PassInv'
  <2> SUFFICES ASSUME allPassed', NEW c \in Index, c < i', HasCommand(c)', checks'[c].expected # ""
               PROVE  /\ started'[c] # {} /\ LastCopy(c)' \in Copies
                      /\ Satisfies(c, LastCopy(c))'
    BY DEF PassInv
  <2>1. started[c] # {} /\ LastCopy(c) \in Copies /\ Satisfies(c, LastCopy(c))
    BY <1>1, <1>4 DEF IInv, PassInv, HasCommand
  <2> QED
    BY <1>1, <2>1, SameSatisfies, SameLastCopy
<1> QED
  BY <1>3, <1>5, <1>6, <1>7, <1>8 DEF IInv

\* A call that was pending takes its step: only its own state changes.
LEMMA CallStepsInv == IInv /\ CallSteps => IInv'
<1> SUFFICES ASSUME IInv, CallSteps PROVE IInv'
  OBVIOUS
<1>1. /\ i <= Len(checks) /\ checks[i].command /\ verdict = "pending" /\ outcome[i] = "pending"
      /\ UNCHANGED <<checks, i, results, allPassed, verdict, printed, ended>>
  BY DEF CallSteps, Running, loopVars, Call!Start, Call!Answer, Call!GiveUp
<1>2. i \in Index /\ i \in Nat
  BY <1>1, IndexOfLoop, BoundAssumption DEF IInv, Index
<1>3. /\ outcome' = [outcome EXCEPT ![i] = outcome'[i]] /\ outcome'[i] \in Call!Outcomes
      /\ started' = [started EXCEPT ![i] = started'[i]] /\ started'[i] \in SUBSET Copies
  <2>1. CASE Call!Start(i)
    BY <1>2, <2>1 DEF IInv, TypeInv, Call!Start, Call!Attempts, Copies, Call!Outcomes
  <2>2. CASE Call!Answer(i)
    <3>1. PICK k \in started[i] : ended[i][k] # "no" /\ outcome' = [outcome EXCEPT ![i] = ended[i][k]]
      BY <2>2 DEF Call!Answer
    <3>2. ended[i][k] \in {"ok", "error"}
      BY <1>2, <3>1 DEF IInv, TypeInv, Endings
    <3> QED
      BY <1>2, <2>2, <3>1, <3>2 DEF IInv, TypeInv, Call!Answer, Call!Outcomes
  <2>3. CASE Call!GiveUp(i)
    BY <1>2, <2>3 DEF IInv, TypeInv, Call!GiveUp, Call!Outcomes
  <2> QED
    BY <2>1, <2>2, <2>3 DEF CallSteps
<1>4. TypeInv'
  BY <1>1, <1>2, <1>3 DEF IInv, TypeInv
<1>5. \A c \in Index : c # i => outcome'[c] = outcome[c] /\ started'[c] = started[c]
  BY <1>2, <1>3 DEF IInv, TypeInv
<1>6. CallInv'
  <2> SUFFICES ASSUME NEW c \in Index, outcome'[c] \in {"ok", "error"}
               PROVE  /\ started'[c] # {} /\ LastCopy(c)' \in Copies
                      /\ ended'[c][LastCopy(c)'] = outcome'[c]
    BY DEF CallInv
  <2>1. CASE c # i
    <3>1. started'[c] = started[c] /\ outcome'[c] = outcome[c]
      BY <1>5, <2>1
    <3>2. LastCopy(c)' = LastCopy(c)
      BY <3>1 DEF LastCopy
    <3> QED
      BY <1>1, <3>1, <3>2 DEF IInv, CallInv
  <2>2. CASE c = i
    <3>1. Call!Answer(i)
      BY <1>1, <1>2, <2>2 DEF CallSteps, Call!Start, Call!GiveUp, IInv, TypeInv
    <3>2. PICK k \in started[i] : /\ \A j \in started[i] : j <= k
                                  /\ ended[i][k] # "no" /\ outcome'[i] = ended[i][k]
      BY <1>2, <3>1 DEF Call!Answer, IInv, TypeInv
    <3>3. started'[i] = started[i] /\ started[i] \subseteq Nat /\ started[i] \subseteq Copies
      BY <1>2, <3>1, BoundAssumption DEF Call!Answer, IInv, TypeInv, Copies
    <3>4. LastCopy(c)' = k
      BY <2>2, <3>2, <3>3 DEF LastCopy
    <3> QED
      BY <1>1, <2>2, <3>2, <3>3, <3>4
  <2> QED
    BY <2>1, <2>2
<1>7. OrderInv'
  BY <1>1, <1>2, <1>5 DEF IInv, OrderInv, HasCommand, Index
<1>8. ResultsInv' /\ VerdictInv'
  BY <1>1 DEF IInv, ResultsInv, VerdictInv, HasCommand
<1>9. PassInv'
  <2> SUFFICES ASSUME allPassed', NEW c \in Index, c < i', HasCommand(c)', checks'[c].expected # ""
               PROVE  /\ started'[c] # {} /\ LastCopy(c)' \in Copies
                      /\ Satisfies(c, LastCopy(c))'
    BY DEF PassInv
  <2>1. started[c] # {} /\ LastCopy(c) \in Copies /\ Satisfies(c, LastCopy(c))
    BY <1>1 DEF IInv, PassInv, HasCommand
  <2>2. started'[c] = started[c]
    <3>1. c \in Nat /\ c < i
      BY <1>1, IndexNat
    <3>2. c # i
      BY <1>2, <3>1, Distinct
    <3> QED
      BY <1>5, <3>2
  <2>3. LastCopy(c)' = LastCopy(c)
    BY <2>2 DEF LastCopy
  <2> QED
    BY <1>1, <2>1, <2>2, <2>3 DEF Satisfies
<1> QED
  BY <1>4, <1>6, <1>7, <1>8, <1>9 DEF IInv

\* A copy ends once: what was said of copies that had ended still holds.
LEMMA CopyEndsInv == IInv /\ CopyEnds => IInv'
<1> SUFFICES ASSUME IInv, CopyEnds PROVE IInv'
  OBVIOUS
<1>1. UNCHANGED <<checks, i, results, allPassed, verdict, outcome, started>>
  BY DEF CopyEnds, loopVars, Call!End
<1>2. PICK d \in Index, k \in Copies : /\ Call!End(d, k)
                                       /\ \E p \in Printable : printed' = [printed EXCEPT ![d][k] = p]
  BY DEF CopyEnds
<1>3. /\ ended[d][k] = "no"
      /\ \E r \in {"ok", "error"} : ended' = [ended EXCEPT ![d][k] = r]
  BY <1>2 DEF Call!End
<1>4. ended' \in [Index -> [Copies -> Endings]] /\ printed' \in [Index -> [Copies -> Printable]]
  BY <1>2, <1>3 DEF IInv, TypeInv, Endings
<1>5. \A c \in Index, j \in Copies : ended[c][j] # "no" =>
          ended'[c][j] = ended[c][j] /\ printed'[c][j] = printed[c][j]
  BY <1>2, <1>3 DEF IInv, TypeInv
<1>6. TypeInv'
  BY <1>1, <1>4 DEF IInv, TypeInv
<1>7. \A c : LastCopy(c)' = LastCopy(c)
  BY <1>1 DEF LastCopy
<1>8. CallInv'
  BY <1>1, <1>5, <1>7 DEF IInv, CallInv
<1>9. PassInv'
  <2> SUFFICES ASSUME allPassed', NEW c \in Index, c < i', HasCommand(c)', checks'[c].expected # ""
               PROVE  /\ started'[c] # {} /\ LastCopy(c)' \in Copies
                      /\ Satisfies(c, LastCopy(c))'
    BY DEF PassInv
  <2>1. started[c] # {} /\ LastCopy(c) \in Copies /\ Satisfies(c, LastCopy(c))
    BY <1>1 DEF IInv, PassInv, HasCommand
  <2>2. /\ ended'[c][LastCopy(c)] = ended[c][LastCopy(c)]
        /\ printed'[c][LastCopy(c)] = printed[c][LastCopy(c)]
    BY <1>5, <2>1 DEF Satisfies
  <2> QED
    BY <1>1, <1>7, <2>1, <2>2 DEF Satisfies
<1>10. OrderInv' /\ ResultsInv' /\ VerdictInv'
  BY <1>1 DEF IInv, OrderInv, ResultsInv, VerdictInv, HasCommand
<1> QED
  BY <1>6, <1>8, <1>9, <1>10 DEF IInv

LEMMA OkCode ==
    ASSUME NEW c, exit_code(c) = 0
    PROVE  outcome[c] = "ok"
<1>1. CASE outcome[c] = "error"
  BY <1>1 DEF exit_code
<1>2. CASE outcome[c] \notin {"ok", "error"}
  BY <1>2 DEF exit_code
<1> QED
  BY <1>1, <1>2

\* What a check passes on: its last copy's own end and output, unless it expects
\* no output.
LEMMA PassedMeans ==
    ASSUME CallInv, NEW c \in Index, passed(c), checks[c].expected # ""
    PROVE  started[c] # {} /\ LastCopy(c) \in Copies /\ Satisfies(c, LastCopy(c))
<1>1. outcome[c] \in {"ok", "error"}
  <2>1. CASE checks[c].expected # None
    BY <2>1 DEF passed, stdout
  <2>2. CASE checks[c].expected = None
    BY <2>2, OkCode DEF passed
  <2> QED
    BY <2>1, <2>2
<1>2. started[c] # {} /\ LastCopy(c) \in Copies /\ ended[c][LastCopy(c)] = outcome[c]
  BY <1>1 DEF CallInv
<1>3. CASE checks[c].expected # None
  BY <1>1, <1>2, <1>3 DEF passed, stdout, Satisfies
<1>4. CASE checks[c].expected = None
  <2>1. outcome[c] = "ok"
    BY <1>4, OkCode DEF passed
  <2> QED
    BY <1>2, <1>4, <2>1 DEF Satisfies
<1> QED
  BY <1>3, <1>4

LEMMA JudgeInv == IInv /\ Judge => IInv'
<1> SUFFICES ASSUME IInv, Judge PROVE IInv'
  OBVIOUS
<1> DEFINE result == [check |-> i, pass |-> passed(i)]
<1>1. /\ i' = i + 1 /\ checks[i].command /\ i <= Len(checks) /\ verdict = "pending"
      /\ outcome[i] \notin {"pending", "raised"}
      /\ results' = Append(results, result) /\ allPassed' = (allPassed /\ passed(i))
      /\ UNCHANGED <<checks, verdict, outcome, started, ended, printed>>
  BY DEF Judge, Running, callVars
<1>2. i \in Index /\ i \in Nat /\ HasCommand(i)
  BY <1>1, IndexOfLoop, BoundAssumption DEF IInv, Index, HasCommand
<1>3. passed(i) \in BOOLEAN
  BY DEF passed
<1>4. TypeInv'
  <2>1. result \in [check : Index, pass : BOOLEAN]
    BY <1>2, <1>3
  <2> QED
    BY <1>1, <1>2, <1>3, <2>1 DEF IInv, TypeInv
<1>5. CallInv' /\ VerdictInv'
  BY <1>1, SameCalls DEF IInv, VerdictInv
<1>6. \A c \in Index : c < i' => c < i \/ c = i
  BY <1>1, <1>2, BoundAssumption DEF Index
<1>7. OrderInv'
  BY <1>1, <1>2, <1>6 DEF IInv, OrderInv, HasCommand, Index
<1>8. ResultsInv'
  <2>1. results \in Seq([check : Index, pass : BOOLEAN]) /\ Len(results) \in Nat
    BY ResultsTyped DEF IInv
  <2>2. /\ DOMAIN results' = 1..(Len(results) + 1) /\ DOMAIN results = 1..Len(results)
        /\ \A r \in DOMAIN results : results'[r] = results[r]
        /\ results'[Len(results) + 1].check = i
    BY <1>1, <2>1
  <2>3. \A r \in DOMAIN results : results[r].check \in Nat /\ results[r].check < i
    BY ResultsTyped DEF IInv, ResultsInv
  <2>4. ASSUME NEW r \in DOMAIN results'
        PROVE  results'[r].check < i' /\ HasCommand(results[r].check)'
    <3>1. CASE r \in DOMAIN results
      <4>1. results'[r].check = results[r].check /\ HasCommand(results[r].check)
        BY <2>2, <3>1 DEF IInv, ResultsInv
      <4>2. results[r].check < i'
        BY <1>1, <1>2, <2>3, <3>1
      <4> QED
        BY <1>1, <4>1, <4>2 DEF HasCommand
    <3>2. CASE r = Len(results) + 1
      <4>1. results'[r].check = i /\ i < i'
        BY <1>1, <1>2, <2>2, <3>2
      <4>2. i \in DOMAIN checks' /\ checks'[i].command
        BY <1>1, <1>2 DEF HasCommand
      <4> QED
        BY <4>1, <4>2 DEF HasCommand
    <3> QED
      BY <2>1, <2>2, <3>1, <3>2
  <2>5. ASSUME NEW c \in Index, c < i', HasCommand(c)' PROVE \E r \in DOMAIN results' : results'[r].check = c
    <3>1. CASE c < i
      <4>1. PICK r \in DOMAIN results : results[r].check = c
        BY <1>1, <2>5, <3>1 DEF IInv, ResultsInv, HasCommand
      <4> QED
        BY <2>1, <2>2, <4>1
    <3>2. CASE c = i
      BY <2>1, <2>2, <3>2
    <3> QED
      BY <1>6, <2>5, <3>1, <3>2
  <2>6. ASSUME NEW r \in DOMAIN results', NEW s \in DOMAIN results', r < s
        PROVE  results'[r].check < results'[s].check
    <3>1. r \in DOMAIN results
      BY <2>1, <2>2, <2>6
    <3>2. CASE s \in DOMAIN results
      BY <2>2, <2>6, <3>1, <3>2 DEF IInv, ResultsInv
    <3>3. CASE s = Len(results) + 1
      BY <2>2, <2>3, <3>1, <3>3
    <3> QED
      BY <2>1, <2>2, <3>2, <3>3
  <2> QED
    <3>1. \A c \in Index : c < i' /\ HasCommand(c)' => \E r \in DOMAIN results' : results'[r].check = c
      BY <2>5
    <3>2. \A r, s \in DOMAIN results' : r < s => results'[r].check < results'[s].check
      BY <2>6
    <3> QED
      BY <2>4, <3>1, <3>2 DEF ResultsInv
<1>9. PassInv'
  <2> SUFFICES ASSUME allPassed', NEW c \in Index, c < i', HasCommand(c)', checks'[c].expected # ""
               PROVE  /\ started'[c] # {} /\ LastCopy(c)' \in Copies
                      /\ Satisfies(c, LastCopy(c))'
    BY DEF PassInv
  <2>1. started[c] # {} /\ LastCopy(c) \in Copies /\ Satisfies(c, LastCopy(c))
    <3>1. CASE c < i
      BY <1>1, <3>1 DEF IInv, PassInv, HasCommand
    <3>2. CASE c = i
      BY <1>1, <3>2, PassedMeans DEF IInv
    <3> QED
      BY <1>6, <3>1, <3>2
  <2> QED
    BY <1>1, <2>1, SameSatisfies, SameLastCopy
<1> QED
  BY <1>4, <1>5, <1>7, <1>8, <1>9 DEF IInv

LEMMA EndInv == IInv /\ (Raise \/ Conclude) => IInv'
<1> SUFFICES ASSUME IInv, Raise \/ Conclude PROVE IInv'
  OBVIOUS
<1>1. /\ UNCHANGED <<checks, i, results, allPassed, outcome, started, ended, printed>>
      /\ verdict' \in {"pass", "fail", "raised"}
      /\ verdict' \in {"pass", "fail"} => i > Len(checks)
      /\ verdict' = "pass" => allPassed
  BY DEF Raise, Conclude, callVars
<1>2. TypeInv' /\ VerdictInv'
  BY <1>1 DEF IInv, TypeInv, VerdictInv
<1>3. CallInv' /\ PassInv'
  BY <1>1, SameCalls, SamePasses DEF IInv
<1>4. OrderInv' /\ ResultsInv'
  BY <1>1 DEF IInv, OrderInv, ResultsInv, HasCommand
<1> QED
  BY <1>2, <1>3, <1>4 DEF IInv

LEMMA StutterInv == IInv /\ UNCHANGED vars => IInv'
<1> SUFFICES ASSUME IInv, UNCHANGED vars PROVE IInv'
  OBVIOUS
<1>1. TypeInv' /\ VerdictInv'
  BY DEF IInv, TypeInv, VerdictInv, vars
<1>2. CallInv' /\ PassInv'
  BY SameCalls, SamePasses DEF IInv, vars
<1>3. OrderInv' /\ ResultsInv'
  BY DEF IInv, OrderInv, ResultsInv, HasCommand, vars
<1> QED
  BY <1>1, <1>2, <1>3 DEF IInv

LEMMA StepInv == IInv /\ [Next]_vars => IInv'
  BY SkipCheckInv, CallStepsInv, CopyEndsInv, JudgeInv, EndInv, StutterInv DEF Next, LoopStep

-----------------------------------------------------------------------------

\* How far the loop is, and what stands behind it.
THEOREM Invariance == Spec => []IInv
  BY InitInv, StepInv, PTL DEF Spec

\* A pass vouches for the device, for every command that is expected to show.
THEOREM PassesVouch == Spec => []PassVouches
<1>1. IInv => PassVouches
  <2> SUFFICES ASSUME IInv, verdict = "pass", NEW c \in Index, HasCommand(c),
                      checks[c].expected # ""
               PROVE  started[c] # {} /\ Satisfies(c, LastCopy(c))
    BY DEF PassVouches
  <2>1. allPassed /\ i > Len(checks) /\ checks \in Seq(Check)
    BY DEF IInv, VerdictInv, TypeInv
  <2>2. c \in DOMAIN checks /\ i \in Nat
    BY LoopNat DEF HasCommand, IInv
  <2>3. c < i
    BY <2>1, <2>2, Behind
  <2> QED
    BY <2>1, <2>3 DEF IInv, PassInv
<1> QED
  BY <1>1, Invariance, PTL

\* No check starts over a call that is under way.
THEOREM OneCallAtOnce == Spec => []OneCallAtATime
<1>1. IInv => OneCallAtATime
  <2> SUFFICES ASSUME IInv, NEW a \in Index, NEW b \in Index, a < b, started[b] # {}, HasCommand(a)
               PROVE  outcome[a] \notin {"pending", "raised"}
    BY DEF OneCallAtATime
  <2>1. a < i
    BY BoundAssumption DEF IInv, OrderInv, TypeInv, Index
  <2> QED
    BY <2>1 DEF IInv, OrderInv
<1> QED
  BY <1>1, Invariance, PTL

\* A verdict accounts for the whole list, once and in order.
THEOREM VerdictsCoverAll == Spec => []VerdictCoversAll
<1>1. IInv => VerdictCoversAll
  <2> SUFFICES ASSUME IInv, verdict \in {"pass", "fail"}, NEW c \in Index
               PROVE  HasCommand(c) <=> \E r \in DOMAIN results : results[r].check = c
    BY DEF VerdictCoversAll, IInv, ResultsInv
  <2>1. HasCommand(c) => c < i
    BY BoundAssumption DEF IInv, VerdictInv, TypeInv, HasCommand, Index
  <2> QED
    BY <2>1 DEF IInv, ResultsInv
<1> QED
  BY <1>1, Invariance, PTL

-----------------------------------------------------------------------------
(* How many steps the loop can take.                                        *)

\* The steps of one check: its copies' starts, the call's end and the judging.
Share == MaxAttempts + 2

\* The attempt whose copy was the last to start, 0 before the first.
Latest(c) == IF started[c] = {} THEN 0 ELSE LastCopy(c)

\* A bound on the steps that the check the loop is at has left.
StepsHere == IF outcome[i] = "pending" THEN (MaxAttempts - Latest(i)) + 2 ELSE 1

\* A bound on the steps the loop has left, the conclusion included.
StepsLeft ==
    IF verdict # "pending" THEN 0
    ELSE IF i > Len(checks) THEN 1
    ELSE (Len(checks) - i) * Share + StepsHere + 1

\* Every step of the loop uses up at least one of the steps it has left, and a
\* copy that ends, now or later, gives none back.
StepsRunOut == [][IF LoopStep THEN StepsLeft' < StepsLeft ELSE StepsLeft' = StepsLeft]_vars

\* Of the copies that were started, one was started last.
LatestInv ==
    \A c \in Index : started[c] # {} =>
        LastCopy(c) \in started[c] /\ \A j \in started[c] : j <= LastCopy(c)

CountInv == IInv /\ LatestInv

LEMMA ShareTyped == MaxAttempts \in Nat /\ Share \in Nat /\ Share = MaxAttempts + 2
  BY BoundAssumption DEF Share

\* What the checks after the one the loop is at are worth.
LEMMA LaterChecks ==
    ASSUME NEW n \in Nat
    PROVE  /\ n * Share \in Nat
           /\ (n + 1) * Share = n * Share + Share
           /\ \A m \in Nat : n <= m => n * Share <= m * Share
  BY ShareTyped

\* Starting a copy makes it the latest.
LEMMA StartIsLatest ==
    ASSUME NEW c \in Index, TypeInv, LatestInv, Call!Start(c)
    PROVE  /\ LatestInv'
           /\ Latest(c)' \in 1..MaxAttempts /\ Latest(c) < Latest(c)'
<1>1. PICK k \in Copies : /\ \A j \in started[c] : j < k
                          /\ started' = [started EXCEPT ![c] = @ \union {k}]
  BY DEF Call!Start, Call!Attempts, Copies
<1>2. /\ started'[c] = started[c] \union {k}
      /\ \A d \in Index : d # c => started'[d] = started[d]
      /\ \A d \in Index : started[d] \subseteq Copies
      /\ k \in Nat /\ k \in 1..MaxAttempts /\ Copies \subseteq Nat
  BY <1>1, ShareTyped DEF TypeInv, Copies
<1>3. k \in started'[c] /\ \A j \in started'[c] : j <= k /\ (k <= j => j = k)
  <2> SUFFICES ASSUME NEW j \in started'[c] PROVE j <= k /\ (k <= j => j = k)
    BY <1>2
  <2>1. j = k \/ (j \in started[c] /\ j \in Nat /\ j < k)
    BY <1>1, <1>2
  <2> QED
    BY <1>2, <2>1
<1>4. LastCopy(c)' = k
  BY <1>3 DEF LastCopy
<1>5. LatestInv'
  <2> SUFFICES ASSUME NEW d \in Index, started'[d] # {}
               PROVE  LastCopy(d)' \in started'[d] /\ \A j \in started'[d] : j <= LastCopy(d)'
    BY DEF LatestInv
  <2>1. CASE d = c
    BY <1>3, <1>4, <2>1, Zenon
  <2>2. CASE d # c
    <3>1. started'[d] = started[d]
      BY <1>2, <2>2
    <3>2. LastCopy(d)' = LastCopy(d)
      BY <3>1 DEF LastCopy
    <3> QED
      BY <3>1, <3>2 DEF LatestInv
  <2> QED
    BY <2>1, <2>2
<1>6. Latest(c)' = k
  BY <1>3, <1>4 DEF Latest
<1>7. Latest(c) < k
  <2>1. CASE started[c] = {}
    BY <1>2, <2>1 DEF Latest
  <2>2. CASE started[c] # {}
    <3>1. LastCopy(c) \in started[c]
      BY <2>2 DEF LatestInv
    <3> QED
      BY <1>1, <2>2, <3>1 DEF Latest
  <2> QED
    BY <2>1, <2>2
<1> QED
  BY <1>2, <1>5, <1>6, <1>7

LEMMA SameLatest ==
    ASSUME UNCHANGED started
    PROVE  (LatestInv => LatestInv') /\ \A c : Latest(c)' = Latest(c)
<1>1. \A c : LastCopy(c)' = LastCopy(c)
  BY SameLastCopy
<1> QED
  BY <1>1 DEF LatestInv, Latest

\* The copies started for a call are ordered by its attempts.
THEOREM LatestInvariance == Spec => []CountInv
<1>1. Init => CountInv
  BY InitInv DEF CountInv, LatestInv, Init, Call!Init
<1>2. CountInv /\ [Next]_vars => CountInv'
  <2> SUFFICES ASSUME CountInv, [Next]_vars PROVE CountInv'
    OBVIOUS
  <2>1. IInv'
    BY StepInv DEF CountInv
  <2>2. CASE UNCHANGED started
    BY <2>1, <2>2, SameLatest DEF CountInv
  <2>3. CASE CallSteps /\ Call!Start(i)
    <3>1. i \in Index
      BY <2>3, IndexOfLoop DEF CallSteps, Running, CountInv, IInv
    <3> QED
      BY <2>1, <2>3, <3>1, StartIsLatest DEF CountInv, IInv
  <2>4. UNCHANGED started \/ (CallSteps /\ Call!Start(i))
    BY DEF Next, LoopStep, SkipCheck, CallSteps, CopyEnds, Judge, Raise, Conclude,
           Call!Answer, Call!GiveUp, Call!End, callVars, vars
  <2> QED
    BY <2>2, <2>3, <2>4
<1> QED
  BY <1>1, <1>2, PTL DEF Spec

LEMMA LatestTyped ==
    ASSUME CountInv, NEW c \in Index
    PROVE  Latest(c) \in 0..MaxAttempts
<1>1. started[c] \subseteq 1..MaxAttempts
  BY DEF CountInv, IInv, TypeInv, Copies
<1> QED
  BY <1>1, ShareTyped DEF CountInv, LatestInv, Latest

\* A check is worth between one step and its share, wherever its call stands.
LEMMA StepsHereTyped ==
    ASSUME CountInv, i <= Len(checks)
    PROVE  StepsHere \in 1..Share
<1>1. i \in Index
  BY IndexOfLoop DEF CountInv, IInv
<1> QED
  BY <1>1, LatestTyped, ShareTyped DEF StepsHere

LEMMA StepsLeftTyped == ASSUME CountInv PROVE StepsLeft \in Nat
<1>1. i \in Nat /\ Len(checks) \in Nat
  BY LoopNat, LenProperties DEF CountInv, IInv, TypeInv
<1>2. CASE i <= Len(checks)
  <2>1. Len(checks) - i \in Nat
    BY <1>1, <1>2
  <2> QED
    BY <1>1, <1>2, <2>1, LaterChecks, StepsHereTyped, ShareTyped DEF StepsLeft
<1>3. CASE i > Len(checks)
  BY <1>3 DEF StepsLeft
<1> QED
  BY <1>1, <1>2, <1>3

\* Going on to the next check uses up what the one behind it had left.
LEMMA NextCheckDescends ==
    ASSUME CountInv, CountInv', verdict = "pending", i <= Len(checks), i' = i + 1,
           checks' = checks, verdict' = verdict
    PROVE  StepsLeft' < StepsLeft
<1> DEFINE n == Len(checks) - i
<1>1. i \in Nat /\ Len(checks) \in Nat /\ n \in Nat
  BY LoopNat, LenProperties DEF CountInv, IInv, TypeInv
<1>2. StepsLeft = n * Share + StepsHere + 1 /\ StepsHere \in 1..Share
  BY <1>1, StepsHereTyped DEF StepsLeft
<1>3. CASE n = 0
  <2>1. StepsLeft' = 1
    BY <1>1, <1>3 DEF StepsLeft
  <2>2. n * Share \in Nat
    BY <1>1, LaterChecks
  <2> QED
    BY <1>2, <2>1, <2>2, ShareTyped
<1>4. CASE n # 0
  <2>1. n - 1 \in Nat /\ n - 1 = Len(checks') - i' /\ i' <= Len(checks')
    BY <1>1, <1>4
  <2>2. StepsHere' \in 1..Share
    <3>1. (CountInv /\ i <= Len(checks) => StepsHere \in 1..Share)'
      BY StepsHereTyped, PTL
    <3> QED
      BY <2>1, <3>1 DEF Share
  <2>3. StepsLeft' = (n - 1) * Share + StepsHere' + 1
    BY <1>1, <2>1 DEF StepsLeft, Share
  <2>4. (n - 1) * Share \in Nat /\ n * Share = (n - 1) * Share + Share
    <3> DEFINE m == n - 1
    <3>1. m \in Nat /\ n = m + 1
      BY <1>1, <2>1
    <3> HIDE DEF m
    <3>2. m * Share \in Nat /\ (m + 1) * Share = m * Share + Share
      BY <3>1, LaterChecks
    <3> QED
      BY <3>1, <3>2 DEF m
  <2> HIDE DEF n
  <2> QED
    BY <1>2, <2>2, <2>3, <2>4, ShareTyped
<1> QED
  BY <1>3, <1>4

\* A call's own step is one of the steps its check has left.
LEMMA CallStepsDescend ==
    ASSUME CountInv, CallSteps
    PROVE  StepsLeft' < StepsLeft
<1>1. /\ verdict = "pending" /\ i <= Len(checks) /\ outcome[i] = "pending"
      /\ UNCHANGED <<checks, i, verdict>>
  BY DEF CallSteps, Running, loopVars, Call!Start, Call!Answer, Call!GiveUp
<1>2. i \in Index /\ i \in Nat /\ Len(checks) \in Nat
  BY <1>1, IndexOfLoop, LoopNat, LenProperties DEF CountInv, IInv, TypeInv
<1>3. Latest(i) \in 0..MaxAttempts /\ StepsHere = (MaxAttempts - Latest(i)) + 2
  BY <1>1, <1>2, LatestTyped DEF StepsHere
<1>4. StepsHere' < StepsHere /\ StepsHere' \in Int
  <2>1. CASE Call!Start(i)
    <3>1. PICK c \in Index : c = i
      BY <1>2
    <3>2. Latest(c)' \in 1..MaxAttempts /\ Latest(c) < Latest(c)'
      BY <2>1, <3>1, StartIsLatest DEF CountInv, IInv
    <3>3. i' = c /\ Latest(i) = Latest(c)
      BY <1>1, <3>1
    <3>4. StepsHere' = IF outcome'[c] = "pending" THEN (MaxAttempts - Latest(c)') + 2 ELSE 1
      BY <3>3 DEF StepsHere
    <3> QED
      BY <1>3, <3>2, <3>3, <3>4, ShareTyped
  <2>2. CASE Call!Answer(i) \/ Call!GiveUp(i)
    <3>1. outcome'[i] # "pending"
      <4>1. CASE Call!Answer(i)
        <5>1. PICK k \in started[i] : ended[i][k] # "no" /\ outcome' = [outcome EXCEPT ![i] = ended[i][k]]
          BY <4>1 DEF Call!Answer
        <5>2. ended[i][k] \in {"ok", "error"}
          BY <1>2, <5>1 DEF CountInv, IInv, TypeInv, Endings
        <5> QED
          BY <1>2, <5>1, <5>2 DEF CountInv, IInv, TypeInv
      <4>2. CASE Call!GiveUp(i)
        BY <1>2, <4>2 DEF CountInv, IInv, TypeInv, Call!GiveUp
      <4> QED
        BY <2>2, <4>1, <4>2
    <3>2. StepsHere' = 1
      BY <1>1, <3>1 DEF StepsHere
    <3> QED
      BY <1>3, <3>2, ShareTyped
  <2> QED
    BY <2>1, <2>2 DEF CallSteps
<1>5. /\ StepsLeft = (Len(checks) - i) * Share + StepsHere + 1
      /\ StepsLeft' = (Len(checks) - i) * Share + StepsHere' + 1
  BY <1>1, <1>2 DEF StepsLeft, Share
<1>6. (Len(checks) - i) * Share \in Nat
  <2>1. Len(checks) - i \in Nat
    BY <1>1, <1>2
  <2> QED
    BY <2>1, LaterChecks
<1>7. StepsHere \in Int
  BY <1>3, ShareTyped
<1> DEFINE later == (Len(checks) - i) * Share
<1>8. later \in Nat /\ StepsLeft = later + StepsHere + 1 /\ StepsLeft' = later + StepsHere' + 1
  BY <1>5, <1>6
<1>9. ASSUME NEW rest \in Nat, NEW before \in Int, NEW after \in Int, after < before
      PROVE  rest + after + 1 < rest + before + 1
  BY <1>9
<1>10. later + StepsHere' + 1 < later + StepsHere + 1
  BY <1>4, <1>7, <1>8, <1>9
<1> QED
  BY <1>8, <1>10

\* The step that ends the loop uses up whatever it had left.
LEMMA EndDescends ==
    ASSUME CountInv, Raise \/ Conclude
    PROVE  StepsLeft' < StepsLeft
<1>1. verdict = "pending" /\ verdict' # "pending"
  BY DEF Raise, Conclude, Running
<1>2. StepsLeft' = 0
  BY <1>1 DEF StepsLeft
<1>3. StepsLeft >= 1
  <2>1. i \in Nat /\ Len(checks) \in Nat
    BY LoopNat, LenProperties DEF CountInv, IInv, TypeInv
  <2>2. CASE i <= Len(checks)
    <3>1. Len(checks) - i \in Nat
      BY <2>1, <2>2
    <3>2. (Len(checks) - i) * Share \in Nat /\ StepsHere \in 1..Share
      BY <2>2, <3>1, LaterChecks, StepsHereTyped
    <3>3. StepsLeft = (Len(checks) - i) * Share + StepsHere + 1
      BY <1>1, <2>1, <2>2 DEF StepsLeft
    <3> QED
      BY <3>2, <3>3, ShareTyped
  <2>3. CASE i > Len(checks)
    BY <1>1, <2>3 DEF StepsLeft
  <2> QED
    BY <2>1, <2>2, <2>3
<1> QED
  BY <1>2, <1>3, StepsLeftTyped

\* The loop takes no more steps than it has left, whatever the calls are told
\* and whenever copies end: what EveryVerificationEnds needs besides a scheduler
\* that runs the loop.
THEOREM Countdown == Spec => StepsRunOut
<1>1. CountInv /\ CountInv' /\ [Next]_vars =>
          [IF LoopStep THEN StepsLeft' < StepsLeft ELSE StepsLeft' = StepsLeft]_vars
  <2> SUFFICES ASSUME CountInv, CountInv', Next
               PROVE  IF LoopStep THEN StepsLeft' < StepsLeft ELSE StepsLeft' = StepsLeft
    OBVIOUS
  <2>1. CASE LoopStep
    <3>1. CASE SkipCheck \/ Judge
      <4>1. /\ verdict = "pending" /\ i <= Len(checks) /\ i' = i + 1
            /\ checks' = checks /\ verdict' = verdict
        BY <3>1 DEF SkipCheck, Judge, Running
      <4> QED
        BY <2>1, <4>1, NextCheckDescends
    <3> QED
      BY <2>1, <3>1, CallStepsDescend, EndDescends DEF LoopStep
  <2>2. CASE ~LoopStep
    <3>1. UNCHANGED <<checks, i, verdict, outcome, started>>
      BY <2>2 DEF Next, CopyEnds, loopVars, Call!End
    <3>2. StepsHere' = StepsHere
      BY <3>1 DEF StepsHere, Latest, LastCopy
    <3> QED
      BY <2>2, <3>1, <3>2 DEF StepsLeft, Share
  <2> QED
    BY <2>1, <2>2
<1> QED
  BY <1>1, LatestInvariance, PTL DEF Spec, StepsRunOut

\* What the loop has left is never negative, and at most a share for each check
\* and the conclusion: with Countdown, no verification takes more steps.
THEOREM StepsAreBounded == Spec => [](StepsLeft \in 0..(Len(checks) * Share + 1))
<1>1. CountInv => StepsLeft \in 0..(Len(checks) * Share + 1)
  <2> SUFFICES ASSUME CountInv PROVE StepsLeft <= Len(checks) * Share + 1
    <3>1. Len(checks) * Share + 1 \in Nat
      BY LenProperties, LaterChecks, ShareTyped DEF CountInv, IInv, TypeInv
    <3> QED
      BY <3>1, StepsLeftTyped
  <2>1. i \in Nat /\ i >= 1 /\ Len(checks) \in Nat
    BY LoopNat, LenProperties DEF CountInv, IInv, TypeInv
  <2>2. CASE i <= Len(checks)
    <3> DEFINE n == Len(checks) - i
    <3>1. n \in Nat /\ n + 1 <= Len(checks) /\ n + 1 \in Nat
      BY <2>1, <2>2
    <3>2. StepsLeft = n * Share + StepsHere + 1 \/ StepsLeft = 0
      BY <2>1, <2>2 DEF StepsLeft
    <3>3. StepsHere \in 1..Share
      BY <2>2, StepsHereTyped
    <3> HIDE DEF n
    <3>4. n * Share \in Nat /\ (n + 1) * Share = n * Share + Share
      BY <3>1, LaterChecks
    <3>5. (n + 1) * Share <= Len(checks) * Share /\ Len(checks) * Share \in Nat
      BY <2>1, <3>1, LaterChecks
    <3> QED
      BY <3>2, <3>3, <3>4, <3>5, ShareTyped
  <2>3. CASE i > Len(checks)
    <3>1. Len(checks) * Share \in Nat
      BY <2>1, LaterChecks
    <3>2. StepsLeft \in {0, 1}
      BY <2>3 DEF StepsLeft
    <3> QED
      BY <3>1, <3>2
  <2> QED
    BY <2>1, <2>2, <2>3
<1> QED
  BY <1>1, LatestInvariance, PTL
=============================================================================
