----------------------- MODULE WorkflowExecutorProofs -----------------------
(***************************************************************************)
(* Proofs about WorkflowExecutor, for every set of steps, every number of  *)
(* retries and of crashes, and about WorkflowPasses, for every set of      *)
(* passes: that the loop over passes that keep EffectContract implements   *)
(* WorkflowExecutor, and what a step has done to the world over all its    *)
(* passes.                                                                 *)
(***************************************************************************)
EXTENDS WorkflowPasses, TLAPS

-----------------------------------------------------------------------------
(* Types.                                                                   *)

XnchTyped ==
    /\ status \in [Steps -> {"APPROVED"} \union Held \union Ended]
    /\ failures \in [Steps -> 0..Enough]
    /\ \A s \in Steps : failures[s] = Enough <=> status[s] = "FAILED"

LoopTyped ==
    /\ pc \in {"sleep", "claiming", "granted", "starting", "running", "acted",
               "reporting", "applied"}
    /\ current \in Steps \union {Nothing}
    /\ current = Nothing <=> pc \in {"sleep", "claiming"}
    /\ outcome \in Outcomes \union {"none"}
    /\ outcome = "none" <=> pc \notin {"reporting", "applied"}

CountsTyped ==
    /\ runs \in [Steps -> 0..2]
    /\ late \in [Steps -> [Outcomes -> 0..MaxLate]]
    /\ crashes \in 0..MaxCrashes
    /\ wired \in BOOLEAN
    /\ passes \in [Steps -> 0..Enough]
    /\ UNION {loose, deferred, unclean} \subseteq Steps

LEMMA UpToStays ==
    ASSUME NEW bound \in Nat, NEW n \in 0..bound
    PROVE  UpTo(bound, n) \in 0..bound /\ UpTo(bound, n) >= n /\ UpTo(bound, n) <= n + 1
  BY DEF UpTo

LEMMA GivenUp ==
    ASSUME TypeOK, GiveUp
    PROVE  late' \in [Steps -> [Outcomes -> 0..MaxLate]]
<1>1. CASE pc = "reporting"
  <2>1. current \in Steps /\ outcome \in Outcomes
    BY <1>1 DEF TypeOK
  <2>2. late[current][outcome] \in 0..MaxLate /\ MaxLate \in Nat
    BY <2>1, NumbersAssumption DEF TypeOK
  <2>3. UpTo(MaxLate, late[current][outcome]) \in 0..MaxLate
    BY <2>2, UpToStays
  <2>4. QED
    BY <1>1, <2>1, <2>3 DEF GiveUp, TypeOK
<1>2. CASE pc # "reporting"
  BY <1>2 DEF GiveUp, TypeOK
<1>3. QED
  BY <1>1, <1>2

LEMMA TakeTyped ==
    ASSUME XnchTyped, NEW s \in Steps, NEW o \in Outcomes, Accept(s, o)
    PROVE  XnchTyped'
<1>1. CASE UNCHANGED xnchVars
  BY <1>1 DEF XnchTyped, xnchVars
<1>2. CASE status[s] \notin Ended /\ Take(s, o) /\ o = "SUCCESS"
  BY <1>2, NumbersAssumption DEF XnchTyped, Take, Held, Ended, Enough
<1>3. CASE status[s] \notin Ended /\ Take(s, o) /\ o # "SUCCESS"
  <2>1. failures[s] \in 0..MaxRetries /\ failures[s] + 1 \in 0..Enough
    BY <1>3, NumbersAssumption DEF XnchTyped, Ended, Enough
  <2>2. /\ failures' = [failures EXCEPT ![s] = @ + 1]
        /\ status' = [status EXCEPT ![s] =
                         IF failures[s] = MaxRetries THEN "FAILED" ELSE "APPROVED"]
    BY <1>3 DEF Take
  <2>3. QED
    BY <2>1, <2>2, NumbersAssumption DEF XnchTyped, Held, Ended, Enough
<1>4. QED
  BY <1>1, <1>2, <1>3 DEF Accept, xnchVars

LEMMA TypeInit == Init => TypeOK
  BY NumbersAssumption, NothingAssumption
  DEF Init, TypeOK, Outcomes, Held, Ended, Enough

LEMMA TypeStep == TypeOK /\ [Next]_vars => TypeOK'
<1> SUFFICES ASSUME TypeOK, [Next]_vars PROVE TypeOK'
  OBVIOUS
<1>0. XnchTyped /\ LoopTyped /\ CountsTyped
  BY DEF TypeOK, XnchTyped, LoopTyped, CountsTyped
<1>1. CASE UNCHANGED vars
  BY <1>1 DEF TypeOK, vars, xnchVars, worldVars, loopVars, historyVars
<1>2. CASE Poll \/ ReceiveClaim \/ ClaimFails
  BY <1>2, NothingAssumption DEF Poll, ReceiveClaim, ClaimFails, TypeOK, xnchVars, worldVars, historyVars
<1>3. CASE PassStarts
  <2>1. current \in Steps
    BY <1>3 DEF PassStarts, TypeOK
  <2>2. UpTo(Enough, passes[current]) \in 0..Enough
    BY <2>1, UpToStays, NumbersAssumption DEF TypeOK, Enough
  <2>3. QED
    BY <1>3, <2>1, <2>2 DEF PassStarts, TypeOK, xnchVars, worldVars
<1>4. CASE PassActs
  <2>1. current \in Steps
    BY <1>4 DEF PassActs, TypeOK
  <2>2. UpTo(2, runs[current]) \in 0..2
    BY <2>1, UpToStays DEF TypeOK
  <2>3. QED
    BY <1>4, <2>1, <2>2 DEF PassActs, TypeOK, xnchVars, worldVars, historyVars
<1>5. CASE PassIsNotCallable \/ StepExecutes \/ StepDeferred \/ StepRefused \/ StepFails
  BY <1>5 DEF PassIsNotCallable, StepExecutes, StepDeferred, StepRefused, StepFails,
              PassReturns, PassRaises, LeftBehind, Report,
              OutcomeOf, Outcomes, TypeOK, xnchVars, worldVars, historyVars
<1>6. CASE ReportReturns
  BY <1>6, NothingAssumption DEF ReportReturns, TypeOK, xnchVars, worldVars, historyVars
<1>7. CASE ReportFails
  BY <1>7, GivenUp, NothingAssumption DEF ReportFails, TypeOK, xnchVars, worldVars
<1>8. ASSUME NEW s \in Steps, XnchGrants(s) PROVE TypeOK'
  BY <1>8, NothingAssumption DEF XnchGrants, TypeOK, Held, Ended, worldVars, historyVars
<1>9. ASSUME NEW s \in Steps, LoosePassActs(s) PROVE TypeOK'
  <2>1. UpTo(2, runs[s]) \in 0..2
    BY UpToStays DEF TypeOK
  <2>2. QED
    BY <1>9, <2>1 DEF LoosePassActs, TypeOK, xnchVars, worldVars, loopVars, historyVars
<1>10. ASSUME NEW s \in Steps, XnchAccepts(s) PROVE TypeOK'
  <2>1. outcome \in Outcomes /\ Accept(s, outcome)
    BY <1>10 DEF XnchAccepts, TypeOK
  <2>2. XnchTyped'
    BY <1>0, <2>1, TakeTyped
  <2>3. LoopTyped' /\ CountsTyped'
    BY <1>0, <1>10 DEF XnchAccepts, LoopTyped, CountsTyped, worldVars, historyVars
  <2>4. QED
    BY <2>2, <2>3 DEF TypeOK, XnchTyped, LoopTyped, CountsTyped
<1>11. ASSUME NEW s \in Steps, NEW o \in Outcomes, XnchAcceptsLate(s, o) PROVE TypeOK'
  <2>1. XnchTyped'
    BY <1>0, <1>11, TakeTyped DEF XnchAcceptsLate
  <2>2. late[s][o] - 1 \in 0..MaxLate
    BY <1>11, NumbersAssumption DEF XnchAcceptsLate, TypeOK
  <2>3. LoopTyped' /\ CountsTyped'
    BY <1>0, <1>11, <2>2 DEF XnchAcceptsLate, LoopTyped, CountsTyped, loopVars, worldVars, historyVars
  <2>4. QED
    BY <2>1, <2>3 DEF TypeOK, XnchTyped, LoopTyped, CountsTyped
<1>12. ASSUME NEW s \in Steps, NEW o \in Outcomes, OutcomeLost(s, o) PROVE TypeOK'
  <2>1. late[s][o] - 1 \in 0..MaxLate
    BY <1>12, NumbersAssumption DEF OutcomeLost, TypeOK
  <2>2. QED
    BY <1>12, <2>1 DEF OutcomeLost, TypeOK, xnchVars, worldVars, loopVars, historyVars
<1>13. ASSUME NEW s \in Steps, LeaseLapses(s) PROVE TypeOK'
  BY <1>13 DEF LeaseLapses, TypeOK, Held, Ended, loopVars, worldVars, historyVars
<1>14. CASE Restart
  BY <1>14, GivenUp, NumbersAssumption, NothingAssumption
  DEF Restart, Stop, LeftBehind, TypeOK, xnchVars, worldVars
<1>15. QED
  BY <1>1, <1>2, <1>3, <1>4, <1>5, <1>6, <1>7, <1>8, <1>9, <1>10, <1>11, <1>12,
     <1>13, <1>14 DEF Next, Loop

\* Every variable keeps its type, the counts their bounds, and a step is FAILED
\* exactly when its retries are used up.
THEOREM TypeCorrect == Spec => []TypeOK
  BY TypeInit, TypeStep, PTL DEF Spec

-----------------------------------------------------------------------------
(* What the end of a step says of its executions.                           *)

\* The loop is about to report a success.
SuccessDue(s) ==
    current = s /\ (pc = "acted" \/ (pc = "reporting" /\ outcome = "SUCCESS"))

\* A step the loop never lost sight of has nothing under way behind its back.
\* While the loop holds it xnch does too, and it was executed, or deferred,
\* exactly when it is DONE or about to be reported so.
CleanInv ==
    \A s \in Steps :
        /\ s \in loose => s \in unclean
        /\ \A o \in Outcomes : late[s][o] > 0 => s \in unclean
        /\ s \notin unclean =>
              /\ runs[s] = IF s \notin deferred /\ (status[s] = "DONE" \/ SuccessDue(s))
                           THEN 1 ELSE 0
              /\ s \in deferred => status[s] = "DONE" \/ (SuccessDue(s) /\ pc # "acted")
              /\ current = s /\ pc # "applied" => status[s] \in Held

\* Every SUCCESS, late or not, is about an execution, taken or deferred.
DispatchedInv ==
    \A s \in Steps :
        status[s] = "DONE" \/ SuccessDue(s) \/ late[s]["SUCCESS"] > 0 =>
            runs[s] > 0 \/ s \in deferred

LEMMA CleanInit == Init => CleanInv /\ DispatchedInv
  BY NothingAssumption DEF Init, CleanInv, DispatchedInv, SuccessDue, Outcomes, Held

\* What the loop gives up is only late for the step it holds.
LEMMA GivenUpElsewhere ==
    ASSUME TypeOK, GiveUp, NEW s \in Steps, s # current
    PROVE  late'[s] = late[s]
  BY DEF GiveUp, TypeOK

LEMMA CleanStep == TypeOK /\ CleanInv /\ [Next]_vars => CleanInv'
<1> SUFFICES ASSUME TypeOK, CleanInv, [Next]_vars PROVE CleanInv'
  OBVIOUS
<1>1. CASE UNCHANGED vars
  BY <1>1 DEF CleanInv, SuccessDue, vars, xnchVars, worldVars, loopVars, historyVars
<1>2. CASE Poll \/ ReceiveClaim \/ ClaimFails \/ PassStarts \/ ReportReturns
  BY <1>2, NothingAssumption
  DEF Poll, ReceiveClaim, ClaimFails, PassStarts, ReportReturns,
      CleanInv, SuccessDue, TypeOK, xnchVars, worldVars, historyVars
<1>3. CASE PassActs
  <2>1. current \in Steps /\ pc = "running"
    BY <1>3 DEF PassActs, TypeOK
  <2>2. current \notin unclean => runs[current] = 0
    BY <2>1 DEF CleanInv, SuccessDue, Held
  <2>3. current \notin unclean => current \notin deferred
    BY <2>1 DEF CleanInv, SuccessDue, Held
  <2>4. \A s \in Steps : s # current => runs'[s] = runs[s]
    BY <1>3 DEF PassActs, TypeOK
  <2>5. current \notin unclean => runs'[current] = 1
    BY <1>3, <2>1, <2>2 DEF PassActs, TypeOK, UpTo
  <2>6. QED
    BY <1>3, <2>1, <2>3, <2>4, <2>5
    DEF PassActs, CleanInv, SuccessDue, Held, xnchVars, worldVars, historyVars
<1>4. CASE PassIsNotCallable \/ StepExecutes \/ StepRefused
  BY <1>4 DEF PassIsNotCallable, StepExecutes, StepRefused, PassReturns, Report,
              OutcomeOf, CleanInv, SuccessDue, TypeOK, xnchVars, worldVars, historyVars
<1>5. CASE StepDeferred
  <2>1. /\ current \in Steps /\ pc = "running" /\ pc' = "reporting" /\ outcome' = "SUCCESS"
        /\ deferred' = deferred \union {current}
        /\ UNCHANGED <<status, runs, loose, late, current, unclean>>
    BY <1>5 DEF StepDeferred, PassReturns, Report, OutcomeOf, TypeOK, xnchVars, historyVars
  <2>2. current \notin unclean => runs[current] = 0 /\ status[current] \in Held
    BY <2>1 DEF CleanInv, SuccessDue, Held
  <2>3. QED
    BY <2>1, <2>2 DEF CleanInv, SuccessDue
<1>6. CASE StepFails
  <2>1. /\ current \in unclean' /\ unclean \subseteq unclean' /\ loose' \subseteq loose \union {current}
        /\ UNCHANGED <<status, runs, deferred, late, current>>
    BY <1>6 DEF StepFails, PassRaises, LeftBehind, xnchVars
  <2>2. QED
    BY <2>1 DEF CleanInv, SuccessDue
<1>7. CASE ReportFails
  <2>1. /\ \A s \in Steps \ unclean' : late'[s] = late[s] /\ s # current
        /\ UNCHANGED <<status, runs, loose, deferred>> /\ current' = Nothing
        /\ unclean \subseteq unclean' /\ current \in unclean'
    BY <1>7, GivenUpElsewhere DEF ReportFails, xnchVars, worldVars
  <2>2. QED
    BY <2>1, NothingAssumption DEF CleanInv, SuccessDue
<1>8. CASE Restart
  <2>1. /\ \A s \in Steps \ unclean' : late'[s] = late[s] /\ s # current
        /\ UNCHANGED <<status, runs, deferred>> /\ current' = Nothing
        /\ unclean \subseteq unclean' /\ loose' \ loose \subseteq unclean'
    BY <1>8, GivenUpElsewhere, NothingAssumption
  DEF Restart, Stop, LeftBehind, TypeOK, xnchVars, worldVars
  <2>2. QED
    BY <2>1, NothingAssumption DEF CleanInv, SuccessDue
<1>9. ASSUME NEW s \in Steps, XnchGrants(s) PROVE CleanInv'
  BY <1>9, NothingAssumption
  DEF XnchGrants, CleanInv, SuccessDue, TypeOK, Held, worldVars, historyVars
<1>10. ASSUME NEW s \in Steps, LoosePassActs(s) PROVE CleanInv'
  BY <1>10 DEF LoosePassActs, CleanInv, SuccessDue, TypeOK, xnchVars, worldVars, loopVars, historyVars
<1>11. ASSUME NEW s \in Steps, XnchAccepts(s) PROVE CleanInv'
  <2>1. /\ pc = "reporting" /\ current = s /\ pc' = "applied" /\ outcome \in Outcomes
        /\ UNCHANGED <<worldVars, current, outcome, late, unclean>>
        /\ Accept(s, outcome)
    BY <1>11 DEF XnchAccepts, TypeOK, worldVars, historyVars
  <2>2. \A t \in Steps : t # s => status'[t] = status[t]
    BY <2>1 DEF Accept, Take, TypeOK, xnchVars, worldVars
  <2>3. s \notin unclean => status'[s] = "DONE" <=> outcome = "SUCCESS"
    BY <2>1 DEF Accept, Take, TypeOK, xnchVars, worldVars, Held, Ended, CleanInv
  <2>4. s \notin unclean => status[s] # "DONE"
    BY <2>1 DEF CleanInv, Held
  <2>5. QED
    BY <2>1, <2>2, <2>3, <2>4 DEF CleanInv, SuccessDue, worldVars
<1>12. ASSUME NEW s \in Steps, NEW o \in Outcomes, XnchAcceptsLate(s, o) PROVE CleanInv'
  <2>1. /\ s \in unclean /\ UNCHANGED <<worldVars, pc, current, outcome, unclean>>
        /\ \A t \in Steps : t # s => status'[t] = status[t] /\ late'[t] = late[t]
    BY <1>12 DEF XnchAcceptsLate, Accept, Take, TypeOK, CleanInv, xnchVars, worldVars, loopVars, historyVars
  <2>2. QED
    BY <2>1 DEF CleanInv, SuccessDue, worldVars
<1>13. ASSUME NEW s \in Steps, NEW o \in Outcomes, OutcomeLost(s, o) PROVE CleanInv'
  <2>1. /\ s \in unclean /\ UNCHANGED <<status, worldVars, pc, current, outcome, unclean>>
        /\ \A t \in Steps : t # s => late'[t] = late[t]
    BY <1>13 DEF OutcomeLost, TypeOK, CleanInv, xnchVars, worldVars, loopVars, historyVars
  <2>2. QED
    BY <2>1 DEF CleanInv, SuccessDue, worldVars
<1>14. ASSUME NEW s \in Steps, LeaseLapses(s) PROVE CleanInv'
  BY <1>14 DEF LeaseLapses, CleanInv, SuccessDue, TypeOK, Held, loopVars, worldVars, historyVars
<1>15. QED
  BY <1>1, <1>2, <1>3, <1>4, <1>7, <1>8, <1>9, <1>10, <1>11, <1>12, <1>13, <1>14, <1>5, <1>6
  DEF Next, Loop

LEMMA GivenUpBy ==
    ASSUME TypeOK, GiveUp, NEW s \in Steps, NEW o \in Outcomes
    PROVE  /\ late'[s][o] # late[s][o] =>
                  pc = "reporting" /\ current = s /\ outcome = o
           /\ late[s][o] <= late'[s][o] /\ late'[s][o] <= late[s][o] + 1
<1>1. late[s][o] \in 0..MaxLate /\ late[s][o] \in Nat
  BY NumbersAssumption DEF TypeOK
<1>2. CASE pc = "reporting"
  <2>1. late'[s][o] = IF current = s /\ outcome = o THEN UpTo(MaxLate, late[s][o])
                      ELSE late[s][o]
    BY <1>2 DEF GiveUp, TypeOK
  <2>2. /\ UpTo(MaxLate, late[s][o]) >= late[s][o]
        /\ UpTo(MaxLate, late[s][o]) <= late[s][o] + 1
    BY <1>1, UpToStays, NumbersAssumption
  <2>3. late[s][o] <= late[s][o] /\ late[s][o] <= late[s][o] + 1
    BY <1>1
  <2>4. CASE current = s /\ outcome = o
    BY <1>2, <2>1, <2>2, <2>4
  <2>5. CASE ~(current = s /\ outcome = o)
    BY <2>1, <2>3, <2>5
  <2>6. QED
    BY <2>4, <2>5
<1>3. CASE pc # "reporting"
  BY <1>1, <1>3 DEF GiveUp
<1>4. QED
  BY <1>2, <1>3

LEMMA DispatchedStep == TypeOK /\ DispatchedInv /\ [Next]_vars => DispatchedInv'
<1> SUFFICES ASSUME TypeOK, DispatchedInv, [Next]_vars PROVE DispatchedInv'
  OBVIOUS
<1> "SUCCESS" \in Outcomes
  BY DEF Outcomes
<1>1. CASE UNCHANGED vars
  BY <1>1 DEF DispatchedInv, SuccessDue, vars, xnchVars, worldVars, loopVars, historyVars
<1>2. CASE Poll \/ ReceiveClaim \/ ClaimFails \/ PassStarts \/ ReportReturns
  BY <1>2, NothingAssumption
  DEF Poll, ReceiveClaim, ClaimFails, PassStarts, ReportReturns,
      DispatchedInv, SuccessDue, TypeOK, xnchVars, worldVars, historyVars
<1>3. CASE PassActs
  <2>1. \A s \in Steps : runs'[s] >= runs[s] /\ (s = current => runs'[s] > 0)
    BY <1>3 DEF PassActs, TypeOK, UpTo
  <2>2. \A s \in Steps : runs[s] \in 0..2 /\ runs'[s] \in 0..2
    BY <1>3, TypeStep DEF TypeOK
  <2>3. /\ UNCHANGED <<status, deferred, late, current, outcome>>
        /\ \A s \in Steps : SuccessDue(s)' => s = current
    BY <1>3 DEF PassActs, SuccessDue, xnchVars, worldVars
  <2>4. \A s \in Steps : runs[s] > 0 => runs'[s] > 0
    BY <2>1, <2>2
  <2>5. QED
    BY <2>1, <2>3, <2>4 DEF DispatchedInv
<1>4. CASE PassIsNotCallable \/ StepExecutes \/ StepDeferred \/ StepRefused \/ StepFails
  BY <1>4 DEF PassIsNotCallable, StepExecutes, StepDeferred, StepRefused, StepFails,
              PassReturns, PassRaises, LeftBehind, Report,
              OutcomeOf, DispatchedInv, SuccessDue, TypeOK, xnchVars, worldVars, historyVars
<1>5. CASE ReportFails \/ Restart
  <2>1. GiveUp /\ UNCHANGED <<status, runs, deferred>> /\ current' = Nothing
    BY <1>5 DEF ReportFails, Restart, Stop, xnchVars, worldVars
  <2>2. \A s \in Steps : late'[s]["SUCCESS"] # late[s]["SUCCESS"] => SuccessDue(s)
    BY <2>1, GivenUpBy DEF SuccessDue
  <2>3. QED
    BY <2>1, <2>2, NothingAssumption DEF DispatchedInv, SuccessDue
<1>6. ASSUME NEW s \in Steps, XnchGrants(s) \/ LeaseLapses(s) PROVE DispatchedInv'
  BY <1>6, NothingAssumption
  DEF XnchGrants, LeaseLapses, DispatchedInv, SuccessDue, TypeOK, loopVars, worldVars, historyVars
<1>7. ASSUME NEW s \in Steps, LoosePassActs(s) PROVE DispatchedInv'
  <2>1. \A t \in Steps : runs'[t] >= runs[t]
    BY <1>7 DEF LoosePassActs, TypeOK, UpTo
  <2>2. \A t \in Steps : runs[t] \in 0..2 /\ runs'[t] \in 0..2
    BY <1>7, TypeStep DEF TypeOK
  <2>3. QED
    BY <1>7, <2>1, <2>2
    DEF LoosePassActs, DispatchedInv, SuccessDue, xnchVars, worldVars, loopVars, historyVars
<1>8. ASSUME NEW s \in Steps, XnchAccepts(s) PROVE DispatchedInv'
  <2>1. /\ pc = "reporting" /\ current = s /\ pc' = "applied"
        /\ UNCHANGED <<runs, deferred, late>> /\ Accept(s, outcome)
    BY <1>8 DEF XnchAccepts, worldVars
  <2>2. \A t \in Steps : status'[t] = "DONE" => status[t] = "DONE" \/ SuccessDue(t)
    BY <2>1 DEF Accept, Take, TypeOK, SuccessDue, xnchVars, worldVars
  <2>3. QED
    BY <2>1, <2>2 DEF DispatchedInv, SuccessDue
<1>9. ASSUME NEW s \in Steps, NEW o \in Outcomes, XnchAcceptsLate(s, o) PROVE DispatchedInv'
  <2>1. UNCHANGED <<runs, deferred, pc, current, outcome>> /\ Accept(s, o) /\ late[s][o] > 0
    BY <1>9 DEF XnchAcceptsLate, worldVars, loopVars
  <2>2. \A t \in Steps : late'[t]["SUCCESS"] > 0 => late[t]["SUCCESS"] > 0
    BY <1>9, NumbersAssumption DEF XnchAcceptsLate, TypeOK
  <2>3. \A t \in Steps : status'[t] = "DONE" => status[t] = "DONE" \/ late[t]["SUCCESS"] > 0
    BY <2>1 DEF Accept, Take, TypeOK, xnchVars, worldVars
  <2>4. QED
    BY <2>1, <2>2, <2>3 DEF DispatchedInv, SuccessDue
<1>10. ASSUME NEW s \in Steps, NEW o \in Outcomes, OutcomeLost(s, o) PROVE DispatchedInv'
  <2>1. \A t \in Steps : late'[t]["SUCCESS"] > 0 => late[t]["SUCCESS"] > 0
    BY <1>10, NumbersAssumption DEF OutcomeLost, TypeOK
  <2>2. QED
    BY <1>10, <2>1 DEF OutcomeLost, DispatchedInv, SuccessDue, xnchVars, worldVars, loopVars
<1>11. QED
  BY <1>1, <1>2, <1>3, <1>4, <1>5, <1>6, <1>7, <1>8, <1>9, <1>10 DEF Next, Loop

-----------------------------------------------------------------------------
(* What FAILED says of the passes.                                          *)

\* The pass that runs, or whose failure is being reported.
InFlight(s) ==
    IF /\ current = s
       /\ pc \in {"running", "acted"} \/ (pc = "reporting" /\ outcome = "FAILURE")
    THEN 1 ELSE 0

Accounted(s) == failures[s] + late[s]["FAILURE"] + InFlight(s)

\* Every failure counted by xnch or still to be counted has a pass of its own.
EarnedInv ==
    wired => \A s \in Steps : passes[s] # Enough => Accounted(s) <= passes[s]

LEMMA EarnedInit == Init => EarnedInv
  BY NothingAssumption DEF Init, EarnedInv, Accounted, InFlight, Outcomes

LEMMA AccountedTyped ==
    ASSUME TypeOK, NEW s \in Steps
    PROVE  /\ failures[s] \in Nat /\ late[s]["FAILURE"] \in Nat
           /\ passes[s] \in 0..Enough /\ Enough \in Nat /\ InFlight(s) \in {0, 1}
<1>1. "FAILURE" \in Outcomes /\ Enough \in Nat
  BY NumbersAssumption DEF Outcomes, Enough
<1>2. QED
  BY <1>1, NumbersAssumption DEF TypeOK, InFlight

LEMMA Accounting ==
    ASSUME TypeOK, TypeOK', EarnedInv, wired' = wired,
           NEW s \in Steps,
           wired => \/ passes'[s] = passes[s] /\ Accounted(s)' <= Accounted(s)
                    \/ /\ passes'[s] = UpTo(Enough, passes[s])
                       /\ Accounted(s)' <= Accounted(s) + 1,
           wired, passes'[s] # Enough
    PROVE  Accounted(s)' <= passes'[s]
<1>1. /\ Accounted(s) \in Nat /\ Accounted(s)' \in Nat
      /\ passes[s] \in Nat /\ passes[s] <= Enough /\ Enough \in Nat
  <2>1. Accounted(s) \in Nat /\ passes[s] \in Nat /\ passes[s] <= Enough /\ Enough \in Nat
    BY AccountedTyped DEF Accounted
  <2>2. failures'[s] \in Nat /\ late'[s]["FAILURE"] \in Nat /\ InFlight(s)' \in {0, 1}
    <3>1. "FAILURE" \in Outcomes
      BY DEF Outcomes
    <3>2. QED
      BY <3>1, NumbersAssumption DEF TypeOK, InFlight, Enough
  <2>3. QED
    BY <2>1, <2>2 DEF Accounted
<1>2. passes[s] # Enough /\ Accounted(s) <= passes[s]
  BY <1>1 DEF EarnedInv, UpTo
<1>3. QED
  BY <1>1, <1>2 DEF UpTo

LEMMA EarnedStep == TypeOK /\ EarnedInv /\ [Next]_vars => EarnedInv'
<1> SUFFICES ASSUME TypeOK, EarnedInv, [Next]_vars PROVE EarnedInv'
  OBVIOUS
<1>0. TypeOK' /\ "FAILURE" \in Outcomes
  BY TypeStep DEF Outcomes
<1>1. wired' = wired
  BY DEF vars, Next, Loop, Poll, ReceiveClaim, ClaimFails, PassStarts, PassIsNotCallable,
         PassActs, StepExecutes, StepDeferred, StepRefused, StepFails, PassReturns, PassRaises,
         ReportReturns, ReportFails,
         XnchGrants, LoosePassActs, XnchAccepts, LeaseLapses, XnchAcceptsLate,
         OutcomeLost, Restart, Stop
<1> SUFFICES ASSUME wired, NEW t \in Steps, passes'[t] # Enough
             PROVE  Accounted(t)' <= passes'[t]
  BY <1>1 DEF EarnedInv
<1>2. /\ failures[t] \in Nat /\ late[t]["FAILURE"] \in Nat
      /\ passes[t] \in 0..Enough /\ Enough \in Nat /\ InFlight(t) \in {0, 1}
  BY AccountedTyped
<1>3. SUFFICES \/ passes'[t] = passes[t] /\ Accounted(t)' <= Accounted(t)
               \/ /\ passes'[t] = UpTo(Enough, passes[t])
                  /\ Accounted(t)' <= Accounted(t) + 1
  BY <1>0, <1>1, Accounting
<1>4. ASSUME UNCHANGED <<failures, late, passes>>, InFlight(t)' <= InFlight(t)
      PROVE  passes'[t] = passes[t] /\ Accounted(t)' <= Accounted(t)
  <2>1. InFlight(t)' \in {0, 1}
    BY DEF InFlight
  <2>2. QED
    BY <1>2, <1>4, <2>1 DEF Accounted
<1>5. CASE UNCHANGED vars
  BY <1>2, <1>4, <1>5 DEF vars, xnchVars, worldVars, loopVars, historyVars, InFlight
<1>6. CASE Poll \/ ReceiveClaim \/ ClaimFails \/ ReportReturns
  <2>1. UNCHANGED <<failures, late, passes>> /\ InFlight(t)' = 0
    BY <1>6, NothingAssumption
    DEF Poll, ReceiveClaim, ClaimFails, ReportReturns, InFlight, xnchVars, worldVars, historyVars
  <2>2. QED
    BY <1>2, <1>4, <2>1
<1>7. CASE PassStarts
  <2>1. UNCHANGED <<failures, late, current, outcome>> /\ pc = "starting"
    BY <1>7 DEF PassStarts, xnchVars, worldVars
  <2>2. CASE current = t
    <3>1. passes'[t] = UpTo(Enough, passes[t])
      BY <1>7, <2>2 DEF PassStarts, TypeOK
    <3>2. Accounted(t)' <= Accounted(t) + 1
      BY <1>2, <2>1 DEF Accounted, InFlight
    <3>3. QED
      BY <3>1, <3>2
  <2>3. CASE current # t
    <3>1. passes'[t] = passes[t] /\ InFlight(t)' = 0 /\ InFlight(t) = 0
      BY <1>7, <2>1, <2>3 DEF PassStarts, TypeOK, InFlight
    <3>2. QED
      BY <1>2, <2>1, <3>1 DEF Accounted
  <2>4. QED
    BY <2>2, <2>3
<1>8. CASE PassActs \/ StepExecutes \/ StepDeferred \/ StepRefused \/ StepFails
  <2>1. UNCHANGED <<failures, late, passes, current>>
        /\ pc \in {"running", "acted"}
    BY <1>8 DEF PassActs, StepExecutes, StepDeferred, StepRefused, StepFails, PassReturns,
                PassRaises, xnchVars, worldVars, historyVars
  <2>2. InFlight(t)' <= InFlight(t)
    BY <2>1 DEF InFlight
  <2>3. QED
    BY <1>4, <2>1, <2>2
<1>9. CASE PassIsNotCallable
  BY <1>9 DEF PassIsNotCallable
<1>10. CASE ReportFails \/ Restart
  <2>1. UNCHANGED <<failures, passes>> /\ GiveUp /\ InFlight(t)' = 0
    BY <1>10, NothingAssumption DEF ReportFails, Restart, Stop, xnchVars, worldVars, InFlight
  <2>2. late'[t]["FAILURE"] <= late[t]["FAILURE"] + InFlight(t)
    BY <1>0, <1>2, <2>1, GivenUpBy DEF InFlight
  <2>3. late'[t]["FAILURE"] \in Nat
    BY <1>0, NumbersAssumption DEF TypeOK
  <2>4. QED
    BY <1>2, <2>1, <2>2, <2>3 DEF Accounted
<1>11. ASSUME NEW s \in Steps, XnchGrants(s)
       PROVE  passes'[t] = passes[t] /\ Accounted(t)' <= Accounted(t)
  <2>1. UNCHANGED <<failures, late, passes>> /\ InFlight(t)' = 0
    BY <1>11 DEF XnchGrants, InFlight, worldVars, historyVars
  <2>2. QED
    BY <1>2, <1>4, <2>1
<1>12. ASSUME NEW s \in Steps, LoosePassActs(s) \/ LeaseLapses(s)
       PROVE  passes'[t] = passes[t] /\ Accounted(t)' <= Accounted(t)
  <2>1. UNCHANGED <<failures, late, passes>> /\ InFlight(t)' = InFlight(t)
    BY <1>12 DEF LoosePassActs, LeaseLapses, InFlight, xnchVars, worldVars, loopVars, historyVars
  <2>2. QED
    BY <1>2, <1>4, <2>1
<1>13. ASSUME NEW s \in Steps, XnchAccepts(s)
       PROVE  passes'[t] = passes[t] /\ Accounted(t)' <= Accounted(t)
  <2>1. /\ UNCHANGED <<late, passes, current, outcome>> /\ InFlight(t)' = 0
        /\ pc = "reporting" /\ current = s /\ Accept(s, outcome)
    BY <1>13 DEF XnchAccepts, InFlight, worldVars, historyVars
  <2>2. failures'[t] <= failures[t] + InFlight(t) /\ failures'[t] \in Nat
    <3>1. outcome \in Outcomes
      BY <2>1 DEF TypeOK
    <3>2. CASE s = t /\ outcome = "FAILURE"
      BY <1>2, <2>1, <3>2 DEF Accept, Take, TypeOK, InFlight, xnchVars, worldVars
    <3>3. CASE ~(s = t /\ outcome = "FAILURE")
      BY <1>2, <2>1, <3>1, <3>3 DEF Accept, Take, TypeOK, InFlight, xnchVars, worldVars, Outcomes
    <3>4. QED
      BY <3>2, <3>3
  <2>3. QED
    BY <1>2, <2>1, <2>2 DEF Accounted
<1>14. ASSUME NEW s \in Steps, NEW o \in Outcomes, XnchAcceptsLate(s, o) \/ OutcomeLost(s, o)
       PROVE  passes'[t] = passes[t] /\ Accounted(t)' <= Accounted(t)
  <2>1. /\ UNCHANGED passes /\ InFlight(t)' = InFlight(t)
        /\ late' = [late EXCEPT ![s][o] = @ - 1] /\ late[s][o] > 0
        /\ UNCHANGED failures \/ Accept(s, o)
    BY <1>14 DEF XnchAcceptsLate, OutcomeLost, InFlight, xnchVars, worldVars, loopVars, historyVars
  <2>2. CASE s = t /\ o = "FAILURE"
    <3>1. /\ late'[t]["FAILURE"] = late[t]["FAILURE"] - 1 /\ late[t]["FAILURE"] > 0
          /\ failures'[t] \in {failures[t], failures[t] + 1}
      BY <1>0, <2>1, <2>2 DEF Accept, Take, TypeOK, xnchVars, worldVars
    <3>2. QED
      BY <1>2, <2>1, <3>1 DEF Accounted
  <2>3. CASE ~(s = t /\ o = "FAILURE")
    <3>1. late'[t]["FAILURE"] = late[t]["FAILURE"] /\ failures'[t] = failures[t]
      BY <1>0, <2>1, <2>3 DEF Accept, Take, TypeOK, xnchVars, worldVars, Outcomes
    <3>2. QED
      BY <1>2, <2>1, <3>1 DEF Accounted
  <2>4. QED
    BY <2>2, <2>3
<1>15. QED
  BY <1>5, <1>6, <1>7, <1>8, <1>9, <1>10, <1>11, <1>12, <1>13, <1>14 DEF Next, Loop

-----------------------------------------------------------------------------
(* The theorems.                                                            *)

\* For a step the loop never lost sight of, DONE was executed exactly once, or
\* deferred and not executed, and FAILED was neither: workflow_executor_loop's
\* serialized claim, pass and report.
THEOREM EndIsWhatHappenedAlways == Spec => []EndIsWhatHappened
<1>1. CleanInv => EndIsWhatHappened
  BY DEF CleanInv, EndIsWhatHappened, SuccessDue, Held
<1>2. QED
  BY <1>1, TypeInit, TypeStep, CleanInit, CleanStep, PTL DEF Spec

\* A step is never DONE without a dispatch, whatever was late or given up.
THEOREM DoneWasDispatchedAlways == Spec => []DoneWasDispatched
<1>1. DispatchedInv => DoneWasDispatched
  BY DEF DispatchedInv, DoneWasDispatched
<1>2. QED
  BY <1>1, TypeInit, TypeStep, CleanInit, DispatchedStep, PTL DEF Spec

\* A step is FAILED only after MaxRetries + 1 passes, given an execute_fn that
\* can run.
THEOREM FailedIsEarnedAlways == Spec => []FailedIsEarned
<1>1. TypeOK /\ EarnedInv => FailedIsEarned
  <2> SUFFICES ASSUME TypeOK, EarnedInv, wired, NEW s \in Steps, status[s] = "FAILED"
               PROVE  passes[s] = Enough
    BY DEF FailedIsEarned
  <2>1. failures[s] = Enough
    BY DEF TypeOK
  <2>2. /\ failures[s] \in Nat /\ late[s]["FAILURE"] \in Nat
        /\ passes[s] \in 0..Enough /\ Enough \in Nat /\ InFlight(s) \in {0, 1}
    BY AccountedTyped
  <2>3. passes[s] # Enough => Accounted(s) <= passes[s]
    BY DEF EarnedInv
  <2>4. QED
    BY <2>1, <2>2, <2>3 DEF Accounted
<1>2. QED
  BY <1>1, TypeInit, TypeStep, EarnedInit, EarnedStep, PTL DEF Spec

-----------------------------------------------------------------------------
(* The loop and its passes: types.                                          *)

PassTypes == Contract!TypeOK /\ owner \in [Passes -> Steps \union {Nothing}]

Joint == TypeOK /\ PassTypes /\ PassesInv

\* What a step of the passes leaves of the other passes.
LEMMA ActsFrame ==
    ASSUME PassTypes, NEW p \in Passes, NEW ref \in Refs, Contract!Run(p, ref)
    PROVE  /\ Ran(p)' /\ ~Ran(p)
           /\ \A q \in Passes \ {p} : effect'[q] = effect[q]
           /\ \A q \in Passes \ {p} : Ran(q)' <=> Ran(q)
           /\ answer' = answer /\ authorised' = authorised
           /\ answer[p] \in {"none", "unknown"} /\ effect[p] = {}
           /\ effect' \in [Passes -> SUBSET Contract!Effects]
           /\ effect'[p] = {<<"run", ref>>}
<1>1. /\ effect' = [effect EXCEPT ![p] = {<<"run", ref>>}] /\ effect[p] = {}
      /\ answer' = answer /\ authorised' = authorised
      /\ answer[p] \in {"none", "unknown"}
  BY DEF Contract!Run
<1>2. effect \in [Passes -> SUBSET Contract!Effects] /\ <<"run", ref>> \in Contract!Effects
  BY DEF PassTypes, Contract!TypeOK, Contract!Effects
<1>3. effect'[p] = {<<"run", ref>>} /\ \A q \in Passes \ {p} : effect'[q] = effect[q]
  BY <1>1, <1>2
<1>4. QED
  BY <1>1, <1>2, <1>3 DEF Ran

LEMMA AnswerFrame ==
    ASSUME PassTypes, NEW p \in Passes, NEW a \in {"executing", "refused", "unknown"},
           Contract!Answer(p, a)
    PROVE  /\ answer'[p] = a /\ answer[p] = "none"
           /\ \A q \in Passes \ {p} : answer'[q] = answer[q]
           /\ effect' = effect /\ authorised' = authorised
           /\ \A q \in Passes : Ran(q)' <=> Ran(q)
           /\ answer' \in [Passes -> Contract!Answers]
           /\ a = "refused" => effect[p] = {}
  BY DEF PassTypes, Contract!TypeOK, Contract!Answer, Contract!Answers, Ran

LEMMA StubFrame ==
    ASSUME PassTypes, NEW p \in Passes, NEW ref \in Refs, Contract!Stub(p, ref)
    PROVE  /\ \A q \in Passes : Ran(q)' <=> Ran(q)
           /\ \A q \in Passes \ {p} : effect'[q] = effect[q]
           /\ answer' = answer /\ authorised' = authorised
           /\ answer[p] # "refused" /\ effect[p] = {}
           /\ effect' \in [Passes -> SUBSET Contract!Effects]
           /\ effect'[p] = {<<"stub", ref>>}
<1>1. /\ effect' = [effect EXCEPT ![p] = {<<"stub", ref>>}] /\ effect[p] = {}
      /\ answer' = answer /\ authorised' = authorised /\ answer[p] # "refused"
  BY DEF Contract!Stub
<1>2. effect \in [Passes -> SUBSET Contract!Effects] /\ <<"stub", ref>> \in Contract!Effects
  BY DEF PassTypes, Contract!TypeOK, Contract!Effects
<1>3. effect'[p] = {<<"stub", ref>>} /\ \A q \in Passes \ {p} : effect'[q] = effect[q]
  BY <1>1, <1>2
<1>4. ~Ran(p) /\ ~Ran(p)'
  BY <1>1, <1>3 DEF Ran
<1>5. QED
  BY <1>1, <1>2, <1>3, <1>4 DEF Ran

\* A pass that is open is the one the loop waits for.
LEMMA OpenIsCurrent ==
    ASSUME Joint, NEW p \in Passes, Open(p)
    PROVE  /\ owner[p] = current /\ current \in Steps
           /\ pc = IF Ran(p) THEN "acted" ELSE "running"
           /\ \A q \in Passes \ {p} : ~Open(q)
  BY DEF Joint, PassesInv, Open

LEMMA TypesInit == PassesInit => PassTypes
  BY DEF PassesInit, PassTypes, Contract!Init, Contract!TypeOK, Contract!Answers

LEMMA TypesStep ==
    Joint /\ [PassesNext]_<<vars, passVars>> => PassTypes'
<1> SUFFICES ASSUME Joint, [PassesNext]_<<vars, passVars>> PROVE PassTypes'
  OBVIOUS
<1>0. PassTypes
  BY DEF Joint
<1>1. ASSUME UNCHANGED passVars PROVE PassTypes'
  BY <1>0, <1>1 DEF PassTypes, Contract!TypeOK, passVars, contractVars
<1>2. ASSUME NEW p \in Passes, Starts(p) PROVE PassTypes'
  <2>1. current \in Steps /\ owner' = [owner EXCEPT ![p] = current]
        /\ UNCHANGED <<authorised, effect, answer>>
    BY <1>2 DEF Starts, PassStarts, Joint, TypeOK, contractVars
  <2>2. QED
    BY <1>0, <2>1 DEF PassTypes, Contract!TypeOK
<1>3. ASSUME NEW p \in Passes, XnchAuthorises(p) PROVE PassTypes'
  BY <1>0, <1>3 DEF PassTypes, Contract!TypeOK, XnchAuthorises, Contract!Authorise
<1>4. ASSUME NEW p \in Passes, Ends(p) PROVE PassTypes'
  <2>1. UNCHANGED owner /\ \E a \in {"executing", "refused", "unknown"} : Contract!Answer(p, a)
    BY <1>4 DEF Ends
  <2>2. QED
    BY <1>0, <2>1, AnswerFrame DEF PassTypes, Contract!TypeOK
<1>5. ASSUME NEW p \in Passes, NEW ref \in Refs, Acts(p, ref) PROVE PassTypes'
  BY <1>0, <1>5, ActsFrame DEF PassTypes, Contract!TypeOK, Acts
<1>6. ASSUME NEW p \in Passes, NEW ref \in Refs, Stubs(p, ref) PROVE PassTypes'
  BY <1>0, <1>6, StubFrame DEF PassTypes, Contract!TypeOK, Stubs
<1>7. CASE Stops
  <2>1. UNCHANGED owner /\ (UNCHANGED contractVars \/ \E p \in Passes : Contract!Answer(p, "unknown"))
    BY <1>7 DEF Stops
  <2>2. CASE UNCHANGED contractVars
    BY <1>1, <2>1, <2>2 DEF passVars
  <2>3. ASSUME NEW p \in Passes, Contract!Answer(p, "unknown") PROVE PassTypes'
    BY <1>0, <2>1, <2>3, AnswerFrame DEF PassTypes, Contract!TypeOK
  <2>4. QED
    BY <2>1, <2>2, <2>3
<1>8. QED
  BY <1>1, <1>2, <1>3, <1>4, <1>5, <1>6, <1>7 DEF PassesNext, Aside, passVars

-----------------------------------------------------------------------------
(* The loop and its passes: every joint step is a step of WorkflowExecutor. *)

\* What the passes left changes only with the passes that are left.
LEMMA LeftUnchanged ==
    ASSUME UNCHANGED owner, \A q \in Passes : LeftOver(q)' <=> LeftOver(q)
    PROVE  Loose' = Loose
  BY DEF Loose

LEMMA DeferredUnchanged ==
    ASSUME UNCHANGED owner, \A q \in Passes : WithoutRunner(q)' <=> WithoutRunner(q)
    PROVE  Deferred' = Deferred
  BY DEF Deferred

LEMMA PassesInvInit == PassesInit => PassesInv
<1> SUFFICES ASSUME PassesInit PROVE PassesInv
  OBVIOUS
<1>1. \A p \in Passes : owner[p] = Nothing /\ answer[p] = "none" /\ effect[p] = {}
  BY DEF PassesInit, Contract!Init
<1>2. Loose = {} /\ Deferred = {}
  BY <1>1 DEF Loose, Deferred, LeftOver, WithoutRunner
<1>3. QED
  BY <1>1, <1>2 DEF PassesInit, Init, PassesInv, Begun, Open

LEMMA StartsStep ==
    ASSUME Joint, NEW p \in Passes, Starts(p)
    PROVE  PassStarts /\ PassesInv'
<1>1. /\ PassStarts /\ pc = "starting" /\ pc' = "running" /\ current' = current
      /\ UNCHANGED <<loose, deferred>> /\ current \in Steps
      /\ owner' = [owner EXCEPT ![p] = current] /\ ~Begun(p)
      /\ UNCHANGED <<authorised, effect, answer>>
  BY DEF Starts, PassStarts, Joint, TypeOK, contractVars, worldVars
<1>2. /\ answer[p] = "none" /\ effect[p] = {}
      /\ \A q \in Passes : ~Open(q)
  BY <1>1 DEF Joint, PassesInv
<1>3. /\ owner'[p] = current
      /\ \A q \in Passes \ {p} : owner'[q] = owner[q]
      /\ \A q \in Passes : Ran(q)' <=> Ran(q)
  BY <1>1 DEF Joint, PassTypes, Ran
<1>4. \A q \in Passes : Open(q)' <=> q = p
  BY <1>1, <1>2, <1>3, NothingAssumption DEF Open, Begun
<1>5. \A q \in Passes : /\ LeftOver(q)' <=> LeftOver(q)
                        /\ WithoutRunner(q)' <=> WithoutRunner(q)
                        /\ q = p => ~LeftOver(q) /\ ~WithoutRunner(q)
  BY <1>1, <1>2, <1>3 DEF LeftOver, WithoutRunner
<1>6. Loose' = Loose /\ Deferred' = Deferred
  BY <1>3, <1>5 DEF Loose, Deferred
<1>7. ~Ran(p)'
  BY <1>1, <1>2 DEF Ran
<1>8. QED
  BY <1>1, <1>2, <1>3, <1>4, <1>6, <1>7, NothingAssumption DEF Joint, PassesInv, Begun

LEMMA StubsStep ==
    ASSUME Joint, NEW p \in Passes,
           XnchAuthorises(p) \/ \E ref \in Refs : Stubs(p, ref)
    PROVE  UNCHANGED vars /\ PassesInv'
<1>1. /\ UNCHANGED <<pc, current, loose, deferred, owner, answer>>
      /\ UNCHANGED vars /\ Begun(p)
      /\ \A q \in Passes \ {p} : effect'[q] = effect[q]
      /\ \A q \in Passes : Ran(q)' <=> Ran(q)
  <2>1. CASE XnchAuthorises(p)
    BY <2>1 DEF XnchAuthorises, Contract!Authorise, vars, loopVars, worldVars, Ran
  <2>2. CASE \E ref \in Refs : Stubs(p, ref)
    <3>1. PICK ref \in Refs : Stubs(p, ref)
      BY <2>2
    <3>2. QED
      BY <3>1, StubFrame DEF Stubs, vars, loopVars, worldVars, Joint
  <2>3. QED
    BY <2>1, <2>2
<1>2. \A q \in Passes : /\ Open(q)' <=> Open(q)
                        /\ Begun(q)' <=> Begun(q)
                        /\ LeftOver(q)' <=> LeftOver(q)
                        /\ WithoutRunner(q)' <=> WithoutRunner(q)
  BY <1>1 DEF Open, Begun, LeftOver, WithoutRunner
<1>3. Loose' = Loose /\ Deferred' = Deferred
  BY <1>1, <1>2, LeftUnchanged, DeferredUnchanged
<1>4. QED
  BY <1>1, <1>2, <1>3 DEF Joint, PassesInv

LEMMA ActsStep ==
    ASSUME Joint, NEW p \in Passes, NEW ref \in Refs, Acts(p, ref)
    PROVE  /\ PassActs \/ \E s \in Steps : LoosePassActs(s)
           /\ PassesInv'
<1>1. /\ Begun(p) /\ owner[p] \in Steps /\ UNCHANGED <<owner, answer>>
      /\ Ran(p)' /\ ~Ran(p) /\ answer[p] \in {"none", "unknown"}
      /\ \A q \in Passes \ {p} : effect'[q] = effect[q]
      /\ \A q \in Passes \ {p} : Ran(q)' <=> Ran(q)
      /\ runs' = [runs EXCEPT ![owner[p]] = UpTo(2, @)]
      /\ pc' = IF Open(p) THEN "acted" ELSE pc
      /\ loose' = Loose' /\ deferred' = Deferred'
      /\ loose = Loose /\ deferred = Deferred
      /\ UNCHANGED <<xnchVars, current, outcome, late, crashes, wired, historyVars>>
  BY ActsFrame DEF Acts, AsThePassesSay, Joint, PassesInv
<1>2. \A q \in Passes : Open(q)' <=> Open(q)
  BY <1>1 DEF Open, Begun
<1>3. Deferred' = Deferred
  <2>1. \A q \in Passes : WithoutRunner(q)' <=> WithoutRunner(q)
    BY <1>1 DEF WithoutRunner
  <2>2. QED
    BY <1>1, <2>1, DeferredUnchanged
<1>4. CASE Open(p)
  <2>1. \A q \in Passes : LeftOver(q)' <=> LeftOver(q)
    BY <1>1, <1>4 DEF LeftOver, Open
  <2>2. Loose' = Loose
    BY <1>1, <2>1, LeftUnchanged
  <2>3. owner[p] = current /\ pc = "running" /\ \A q \in Passes \ {p} : ~Open(q)
    BY <1>1, <1>4, OpenIsCurrent
  <2>4. PassActs
    BY <1>1, <1>3, <1>4, <2>2, <2>3 DEF PassActs
  <2>5. PassesInv'
    BY <1>1, <1>2, <1>4, <2>3 DEF Joint, PassesInv, Begun
  <2>6. QED
    BY <2>4, <2>5
<1>5. CASE ~Open(p)
  <2>1. answer[p] = "unknown" /\ LeftOver(p) /\ ~LeftOver(p)'
    BY <1>1, <1>5 DEF Open, LeftOver
  <2>2. \A q \in Passes \ {p} : LeftOver(q)' <=> LeftOver(q)
    BY <1>1 DEF LeftOver
  <2>3. owner[p] \in Loose /\ Loose' \in {Loose, Loose \ {owner[p]}}
    BY <1>1, <2>1, <2>2 DEF Loose
  <2>4. LoosePassActs(owner[p])
    BY <1>1, <1>3, <1>5, <2>3 DEF LoosePassActs, loopVars
  <2>5. PassesInv'
    BY <1>1, <1>2, <1>5 DEF Joint, PassesInv, Begun
  <2>6. QED
    BY <1>1, <2>4, <2>5
<1>6. QED
  BY <1>4, <1>5

LEMMA EndsStep ==
    ASSUME Joint, NEW p \in Passes, Ends(p)
    PROVE  /\ StepExecutes \/ StepDeferred \/ StepRefused \/ StepFails
           /\ PassesInv'
<1>1. PICK a \in {"executing", "refused", "unknown"} : Contract!Answer(p, a)
  BY DEF Ends
<1>2. /\ answer'[p] = a /\ answer[p] = "none" /\ effect' = effect
      /\ \A q \in Passes \ {p} : answer'[q] = answer[q]
      /\ \A q \in Passes : Ran(q)' <=> Ran(q)
      /\ a = "refused" => effect[p] = {}
  BY <1>1, AnswerFrame DEF Joint
<1>3. /\ a = "executing" => PassReturns("EXECUTING")
      /\ a = "refused" => PassReturns("ESCALATED")
      /\ a = "unknown" => PassRaises
  <2>1. \/ Contract!Answer(p, "executing") /\ PassReturns("EXECUTING")
        \/ Contract!Answer(p, "refused") /\ PassReturns("ESCALATED")
        \/ Contract!Answer(p, "unknown") /\ PassRaises
    BY DEF Ends
  <2>2. \A b \in {"executing", "refused", "unknown"} : Contract!Answer(p, b) => b = a
    BY <1>2, AnswerFrame DEF Joint
  <2>3. QED
    BY <2>1, <2>2
<1>4. /\ Open(p) /\ UNCHANGED <<runs, owner>>
      /\ loose' = Loose' /\ deferred' = Deferred' /\ loose = Loose /\ deferred = Deferred
  BY DEF Ends, AsThePassesSay, Joint, PassesInv
<1>5. /\ owner[p] = current /\ pc = IF Ran(p) THEN "acted" ELSE "running"
      /\ \A q \in Passes \ {p} : ~Open(q)
  BY <1>4, OpenIsCurrent
<1>6. pc' = "reporting" /\ current' = current
  BY <1>3 DEF PassReturns, PassRaises, Report
<1>7. \A q \in Passes : ~Open(q)' /\ (Begun(q)' <=> Begun(q))
  BY <1>2, <1>4, <1>5 DEF Open, Begun
<1>8. /\ \A q \in Passes \ {p} : /\ LeftOver(q)' <=> LeftOver(q)
                                 /\ WithoutRunner(q)' <=> WithoutRunner(q)
      /\ ~LeftOver(p) /\ ~WithoutRunner(p)
      /\ LeftOver(p)' <=> a = "unknown" /\ ~Ran(p)
      /\ WithoutRunner(p)' <=> a = "executing" /\ ~Ran(p)
  BY <1>2 DEF LeftOver, WithoutRunner
<1>9. /\ Loose' = IF a = "unknown" /\ ~Ran(p) THEN Loose \union {current} ELSE Loose
      /\ Deferred' = IF a = "executing" /\ ~Ran(p) THEN Deferred \union {current} ELSE Deferred
  BY <1>4, <1>5, <1>8 DEF Loose, Deferred
<1>10. PassesInv'
  BY <1>2, <1>4, <1>6, <1>7 DEF Joint, PassesInv, Open, Begun
<1>11. CASE a = "executing"
  <2>1. PassReturns("EXECUTING") /\ UNCHANGED <<runs, loose>>
    BY <1>3, <1>4, <1>9, <1>11
  <2>2. CASE Ran(p)
    <3>1. pc = "acted" /\ deferred' = deferred
      BY <1>4, <1>5, <1>9, <2>2
    <3>2. QED
      BY <1>10, <2>1, <3>1 DEF StepExecutes, worldVars
  <2>3. CASE ~Ran(p)
    <3>1. pc = "running" /\ deferred' = deferred \union {current}
      BY <1>4, <1>5, <1>9, <1>11, <2>3
    <3>2. QED
      BY <1>10, <2>1, <3>1 DEF StepDeferred
  <2>4. QED
    BY <2>2, <2>3
<1>12. CASE a = "refused"
  <2>1. ~Ran(p)
    BY <1>2, <1>12 DEF Ran
  <2>2. PassReturns("ESCALATED") /\ pc = "running" /\ UNCHANGED <<runs, loose, deferred>>
    BY <1>3, <1>4, <1>5, <1>9, <1>12, <2>1
  <2>3. QED
    BY <1>10, <2>2 DEF StepRefused, worldVars
<1>13. CASE a = "unknown"
  <2>1. PassRaises /\ UNCHANGED <<runs, deferred>>
    BY <1>3, <1>4, <1>9, <1>13
  <2>2. loose' = LeftBehind
    BY <1>4, <1>5, <1>9, <1>13 DEF LeftBehind
  <2>3. QED
    BY <1>10, <2>1, <2>2 DEF StepFails
<1>14. QED
  BY <1>11, <1>12, <1>13

LEMMA StopsStep ==
    ASSUME Joint, Stops
    PROVE  Restart /\ PassesInv'
<1>1. /\ Stop /\ pc' = "sleep" /\ current' = Nothing
      /\ UNCHANGED <<runs, owner>>
      /\ loose' = Loose' /\ deferred' = Deferred' /\ loose = Loose /\ deferred = Deferred
  BY DEF Stops, Stop, AsThePassesSay, Joint, PassesInv
<1>2. CASE \E p \in Passes : Open(p) /\ Contract!Answer(p, "unknown")
  <2>1. PICK p \in Passes : Open(p) /\ Contract!Answer(p, "unknown")
    BY <1>2
  <2>2. /\ answer'[p] = "unknown" /\ answer[p] = "none" /\ effect' = effect
        /\ \A q \in Passes \ {p} : answer'[q] = answer[q]
        /\ \A q \in Passes : Ran(q)' <=> Ran(q)
    BY <2>1, AnswerFrame DEF Joint
  <2>3. /\ owner[p] = current /\ pc = IF Ran(p) THEN "acted" ELSE "running"
        /\ \A q \in Passes \ {p} : ~Open(q)
    BY <2>1, OpenIsCurrent
  <2>4. \A q \in Passes : ~Open(q)' /\ (Begun(q)' <=> Begun(q))
    BY <1>1, <2>2, <2>3 DEF Open, Begun
  <2>5. /\ \A q \in Passes \ {p} : /\ LeftOver(q)' <=> LeftOver(q)
                                   /\ WithoutRunner(q)' <=> WithoutRunner(q)
        /\ ~LeftOver(p) /\ ~WithoutRunner(p) /\ ~WithoutRunner(p)'
        /\ LeftOver(p)' <=> ~Ran(p)
    BY <2>2 DEF LeftOver, WithoutRunner
  <2>6. Loose' = (IF ~Ran(p) THEN Loose \union {current} ELSE Loose) /\ Deferred' = Deferred
    BY <1>1, <2>3, <2>5 DEF Loose, Deferred
  <2>7. Restart
    BY <1>1, <2>3, <2>6 DEF Restart, LeftBehind
  <2>8. PassesInv'
    BY <1>1, <2>1, <2>2, <2>4 DEF Joint, PassesInv, Open, Begun
  <2>9. QED
    BY <2>7, <2>8
<1>3. CASE (\A p \in Passes : ~Open(p)) /\ UNCHANGED contractVars
  <2>1. \A q \in Passes : /\ ~Open(q)' /\ (Begun(q)' <=> Begun(q))
                          /\ LeftOver(q)' <=> LeftOver(q)
                          /\ WithoutRunner(q)' <=> WithoutRunner(q)
    BY <1>1, <1>3 DEF Open, Begun, LeftOver, WithoutRunner, Ran, contractVars
  <2>2. Loose' = Loose /\ Deferred' = Deferred
    BY <1>1, <2>1, LeftUnchanged, DeferredUnchanged
  <2>3. pc # "running"
    BY <1>3 DEF Joint, PassesInv
  <2>4. Restart
    BY <1>1, <2>2, <2>3 DEF Restart, LeftBehind
  <2>5. PassesInv'
    BY <1>1, <1>3, <2>1 DEF Joint, PassesInv, Begun, contractVars
  <2>6. QED
    BY <2>4, <2>5
<1>4. QED
  BY <1>2, <1>3 DEF Stops

LEMMA AsideStep ==
    ASSUME Joint, Aside
    PROVE  Next /\ PassesInv'
<1>1. Next /\ UNCHANGED <<authorised, effect, answer, owner>>
  BY DEF Aside, Next, Loop, passVars, contractVars
<1>2. /\ \/ UNCHANGED <<pc, current>>
         \/ {pc, pc'} \intersect {"running", "acted"} = {}
      /\ UNCHANGED <<loose, deferred>>
  BY DEF Aside, Poll, ReceiveClaim, ClaimFails, PassIsNotCallable, ReportReturns, ReportFails,
         XnchGrants, XnchAccepts, LeaseLapses, XnchAcceptsLate, OutcomeLost, Report,
         loopVars, worldVars
<1>3. \A q \in Passes : /\ Open(q)' <=> Open(q)
                        /\ Begun(q)' <=> Begun(q)
                        /\ Ran(q)' <=> Ran(q)
                        /\ LeftOver(q)' <=> LeftOver(q)
                        /\ WithoutRunner(q)' <=> WithoutRunner(q)
  BY <1>1 DEF Open, Begun, LeftOver, WithoutRunner, Ran
<1>4. Loose' = Loose /\ Deferred' = Deferred
  BY <1>1, <1>3, LeftUnchanged, DeferredUnchanged
<1>5. QED
  BY <1>1, <1>2, <1>3, <1>4 DEF Joint, PassesInv

LEMMA JointStep ==
    Joint /\ [PassesNext]_<<vars, passVars>> => [Next]_vars /\ Joint'
<1> SUFFICES ASSUME Joint, [PassesNext]_<<vars, passVars>> PROVE [Next]_vars /\ Joint'
  OBVIOUS
<1>1. [Next]_vars /\ PassesInv'
  <2>1. CASE UNCHANGED <<vars, passVars>>
    <3>1. Loose' = Loose /\ Deferred' = Deferred
      BY <2>1 DEF Loose, Deferred, LeftOver, WithoutRunner, Ran, passVars, contractVars
    <3>2. QED
      BY <2>1, <3>1 DEF Joint, PassesInv, Open, Begun, Ran, passVars, contractVars,
                        vars, loopVars, worldVars
  <2>2. ASSUME NEW p \in Passes, Starts(p) PROVE [Next]_vars /\ PassesInv'
    BY <2>2, StartsStep DEF Next, Loop
  <2>3. ASSUME NEW p \in Passes, XnchAuthorises(p) \/ \E ref \in Refs : Stubs(p, ref)
        PROVE  [Next]_vars /\ PassesInv'
    BY <2>3, StubsStep
  <2>4. ASSUME NEW p \in Passes, Ends(p) PROVE [Next]_vars /\ PassesInv'
    BY <2>4, EndsStep DEF Next, Loop
  <2>5. ASSUME NEW p \in Passes, NEW ref \in Refs, Acts(p, ref)
        PROVE  [Next]_vars /\ PassesInv'
    BY <2>5, ActsStep DEF Next, Loop
  <2>6. CASE Stops
    BY <2>6, StopsStep DEF Next
  <2>7. CASE Aside
    BY <2>7, AsideStep
  <2>8. QED
    BY <2>1, <2>2, <2>3, <2>4, <2>5, <2>6, <2>7 DEF PassesNext
<1>2. TypeOK'
  BY <1>1, TypeStep DEF Joint
<1>3. QED
  BY <1>1, <1>2, TypesStep DEF Joint

LEMMA JointInit == PassesInit => Init /\ Joint
  BY TypeInit, TypesInit, PassesInvInit DEF PassesInit, Joint

\* The loop waits for one pass at a time, whose step it holds, and what it knows
\* nothing of is what its passes left.
THEOREM PassesInvAlways == PassesSpec => []PassesInv
<1>1. Joint => PassesInv
  BY DEF Joint
<1>2. QED
  BY <1>1, JointInit, JointStep, PTL DEF PassesSpec

\* What WorkflowExecutor assumes of a pass follows from what EffectContract
\* promises of every pass: run by run of the loop over its passes.
THEOREM ExecutorRefinement == PassesSpec => ImplementsExecutor
  BY JointInit, JointStep, PTL DEF PassesSpec, ImplementsExecutor, Spec

LEMMA PassesKeepContract ==
    ASSUME [PassesNext]_<<vars, passVars>>
    PROVE  [Contract!Next]_(Contract!vars)
<1>1. ASSUME NEW p \in Passes, Starts(p) \/ XnchAuthorises(p) \/ Ends(p)
      PROVE  Contract!Next \/ UNCHANGED Contract!vars
  <2>1. \/ UNCHANGED contractVars \/ Contract!Authorise(p)
        \/ \E a \in {"executing", "refused", "unknown"} : Contract!Answer(p, a)
    BY <1>1 DEF Starts, XnchAuthorises, Ends
  <2>2. QED
    BY <2>1 DEF Contract!Next, Contract!Answers, Contract!vars, contractVars
<1>2. ASSUME NEW p \in Passes, NEW ref \in Refs, Acts(p, ref) \/ Stubs(p, ref)
      PROVE  Contract!Next
  BY <1>2 DEF Acts, Stubs, Contract!Next
<1>3. CASE Stops
  <2>1. \/ UNCHANGED contractVars
        \/ \E p \in Passes : Contract!Answer(p, "unknown")
    BY <1>3 DEF Stops
  <2>2. QED
    BY <2>1 DEF Contract!Next, Contract!Answers, Contract!vars, contractVars
<1>4. CASE Aside \/ UNCHANGED <<vars, passVars>>
  BY <1>4 DEF Aside, passVars, contractVars, Contract!vars
<1>5. QED
  BY <1>1, <1>2, <1>3, <1>4 DEF PassesNext

\* The loop asks nothing of its passes that their contract does not give.
THEOREM ContractRefinement == PassesSpec => ImplementsContract
<1>1. PassesInit => Contract!Init
  BY DEF PassesInit
<1>2. QED
  BY <1>1, PassesKeepContract, PTL DEF PassesSpec, ImplementsContract, Contract!Spec

-----------------------------------------------------------------------------
(* What a step has done to the world over all its passes.                   *)

\* xnch knows, or is being told, that a pass of the step answered EXECUTING.
Answered(s) ==
    status[s] = "DONE" \/ (current = s /\ pc = "reporting" /\ outcome = "SUCCESS")

\* A pass has one effect at most and a refused one none; a step the loop never
\* lost sight of has no pass that was given up, and one pass that answered
\* EXECUTING exactly when xnch knows of it or is being told.
StepInv ==
    /\ \A p \in Passes :
          /\ answer[p] = "refused" => effect[p] = {}
          /\ \A e, f \in effect[p] : e = f
    /\ \A s \in Steps \ unclean :
          /\ \A p \in Passes : owner[p] = s => answer[p] # "unknown"
          /\ \A p, q \in Passes :
                owner[p] = s /\ owner[q] = s /\ answer[p] = "executing"
                             /\ answer[q] = "executing" => p = q
          /\ Answered(s) <=> \E p \in Passes : owner[p] = s /\ answer[p] = "executing"

LEMMA StepInvInit == PassesInit => StepInv
<1> SUFFICES ASSUME PassesInit PROVE StepInv
  OBVIOUS
<1>1. \A p \in Passes : answer[p] = "none" /\ effect[p] = {}
  BY DEF PassesInit, Contract!Init
<1>2. \A s \in Steps : ~Answered(s)
  BY DEF PassesInit, Init, Answered
<1>3. QED
  BY <1>1, <1>2 DEF StepInv

\* What xnch and the loop do without a pass leaves open no question about one.
LEMMA AnsweredAside ==
    ASSUME TypeOK, CleanInv, Aside
    PROVE  /\ unclean \subseteq unclean'
           /\ \A s \in Steps \ unclean' : Answered(s)' <=> Answered(s)
<1>1. CASE \/ Poll \/ ReceiveClaim \/ ClaimFails \/ PassIsNotCallable \/ ReportReturns
           \/ ReportFails
  BY <1>1, NothingAssumption
  DEF Poll, ReceiveClaim, ClaimFails, PassIsNotCallable, ReportReturns, ReportFails, Report,
      Answered, TypeOK, xnchVars, historyVars
<1>2. ASSUME NEW s \in Steps, XnchGrants(s) \/ LeaseLapses(s)
      PROVE  /\ unclean \subseteq unclean'
             /\ \A t \in Steps \ unclean' : Answered(t)' <=> Answered(t)
  BY <1>2 DEF XnchGrants, LeaseLapses, Answered, TypeOK, loopVars, historyVars
<1>3. ASSUME NEW s \in Steps, XnchAccepts(s)
      PROVE  /\ unclean \subseteq unclean'
             /\ \A t \in Steps \ unclean' : Answered(t)' <=> Answered(t)
  <2>1. /\ pc = "reporting" /\ current = s /\ pc' = "applied" /\ Accept(s, outcome)
        /\ UNCHANGED <<current, outcome, unclean>> /\ outcome \in Outcomes
    BY <1>3 DEF XnchAccepts, TypeOK, historyVars
  <2>2. \A t \in Steps : t # s => status'[t] = status[t]
    BY <2>1 DEF Accept, Take, TypeOK, xnchVars
  <2>3. s \notin unclean => status[s] \in Held
    BY <2>1 DEF CleanInv
  <2>4. s \notin unclean => (status'[s] = "DONE" <=> outcome = "SUCCESS")
    BY <2>1, <2>3 DEF Accept, Take, TypeOK, xnchVars, Held, Ended
  <2>5. QED
    BY <2>1, <2>2, <2>3, <2>4 DEF Answered, Held
<1>4. ASSUME NEW s \in Steps, NEW o \in Outcomes, XnchAcceptsLate(s, o) \/ OutcomeLost(s, o)
      PROVE  /\ unclean \subseteq unclean'
             /\ \A t \in Steps \ unclean' : Answered(t)' <=> Answered(t)
  <2>1. /\ s \in unclean /\ UNCHANGED <<pc, current, outcome, unclean>>
        /\ \A t \in Steps : t # s => status'[t] = status[t]
    BY <1>4 DEF XnchAcceptsLate, OutcomeLost, Accept, Take, TypeOK, CleanInv, xnchVars,
                loopVars, historyVars
  <2>2. QED
    BY <2>1 DEF Answered
<1>5. QED
  BY <1>1, <1>2, <1>3, <1>4 DEF Aside

\* While a pass of a step is open xnch knows of no pass of it.
LEMMA OpenUnanswered ==
    ASSUME Joint, CleanInv, NEW p \in Passes, Open(p), owner[p] \notin unclean
    PROVE  ~Answered(owner[p])
<1>1. owner[p] = current /\ current \in Steps /\ pc \in {"running", "acted"}
  BY OpenIsCurrent
<1>2. status[current] \in Held
  BY <1>1 DEF CleanInv
<1>3. QED
  BY <1>1, <1>2 DEF Answered, Held

LEMMA StepInvEnds ==
    ASSUME Joint, CleanInv, StepInv, NEW p \in Passes, Ends(p)
    PROVE  StepInv'
<1>1. PICK a \in {"executing", "refused", "unknown"} :
         /\ Contract!Answer(p, a)
         /\ \/ a = "executing" /\ PassReturns("EXECUTING")
            \/ a = "refused" /\ PassReturns("ESCALATED")
            \/ a = "unknown" /\ PassRaises
  BY DEF Ends
<1>2. /\ answer'[p] = a /\ effect' = effect /\ owner' = owner
      /\ \A q \in Passes \ {p} : answer'[q] = answer[q]
      /\ answer[p] = "none" /\ (a = "refused" => effect[p] = {})
  BY <1>1, AnswerFrame DEF Joint, Ends
<1>3. /\ Open(p) /\ owner[p] = current /\ current \in Steps /\ pc \in {"running", "acted"}
      /\ current' = current /\ pc' = "reporting" /\ status' = status
      /\ outcome' = IF a = "executing" THEN "SUCCESS" ELSE "FAILURE"
      /\ unclean' = IF a = "unknown" THEN unclean \union {current} ELSE unclean
  <2>1. Open(p)
    BY DEF Ends
  <2>2. QED
    BY <1>1, <2>1, OpenIsCurrent
    DEF PassReturns, PassRaises, Report, OutcomeOf, xnchVars, historyVars
<1>4. \A q \in Passes : /\ answer'[q] = "refused" => effect'[q] = {}
                        /\ \A e, f \in effect'[q] : e = f
  BY <1>2 DEF StepInv
<1>5. ASSUME NEW s \in Steps \ unclean', s # current
      PROVE  /\ \A q \in Passes : owner'[q] = s => answer'[q] # "unknown"
             /\ \A q, r \in Passes :
                   owner'[q] = s /\ owner'[r] = s /\ answer'[q] = "executing"
                                 /\ answer'[r] = "executing" => q = r
             /\ Answered(s)' <=> \E q \in Passes : owner'[q] = s /\ answer'[q] = "executing"
  <2>1. s \notin unclean /\ (Answered(s)' <=> Answered(s))
    BY <1>3, <1>5 DEF Answered
  <2>2. \A q \in Passes : owner[q] = s => answer'[q] = answer[q]
    BY <1>2, <1>3, <1>5
  <2>3. QED
    BY <1>2, <2>1, <2>2 DEF StepInv
<1>6. ASSUME current \notin unclean'
      PROVE  /\ \A q \in Passes : owner'[q] = current => answer'[q] # "unknown"
             /\ \A q, r \in Passes :
                   owner'[q] = current /\ owner'[r] = current /\ answer'[q] = "executing"
                                       /\ answer'[r] = "executing" => q = r
             /\ Answered(current)' <=>
                   \E q \in Passes : owner'[q] = current /\ answer'[q] = "executing"
  <2>1. a # "unknown" /\ current \notin unclean
    BY <1>3, <1>6
  <2>2. ~Answered(current) /\ status[current] # "DONE"
    BY <1>3, <2>1, OpenUnanswered DEF Answered
  <2>3. /\ \A q \in Passes : owner[q] = current => answer[q] \notin {"unknown", "executing"}
    BY <1>3, <2>1, <2>2 DEF StepInv
  <2>4. \A q \in Passes \ {p} :
           owner[q] = current => answer'[q] \notin {"unknown", "executing"}
    BY <1>2, <2>3
  <2>5. Answered(current)' <=> a = "executing"
    BY <1>3, <2>2 DEF Answered
  <2>6. QED
    BY <1>2, <1>3, <2>1, <2>4, <2>5
<1>7. QED
  BY <1>3, <1>4, <1>5, <1>6 DEF StepInv

LEMMA StepInvStops ==
    ASSUME Joint, CleanInv, StepInv, Stops
    PROVE  StepInv'
<1>1. /\ status' = status /\ owner' = owner /\ current' = Nothing /\ pc' = "sleep"
      /\ unclean' = unclean \union ({current} \ {Nothing})
  BY DEF Stops, Stop, xnchVars
<1>2. \A s \in Steps \ unclean' : s \notin unclean /\ s # current
  BY <1>1, NothingAssumption
<1>3. \A s \in Steps \ unclean' : Answered(s)' <=> Answered(s)
  BY <1>1, <1>2, NothingAssumption DEF Answered
<1>4. /\ effect' = effect
      /\ \A q \in Passes : answer'[q] = answer[q] \/ (owner[q] = current /\ answer'[q] = "unknown")
  <2>1. CASE \E p \in Passes : Open(p) /\ Contract!Answer(p, "unknown")
    BY <2>1, AnswerFrame, OpenIsCurrent DEF Joint
  <2>2. CASE UNCHANGED contractVars
    BY <2>2 DEF contractVars
  <2>3. QED
    BY <2>1, <2>2 DEF Stops
<1>5. \A q \in Passes : /\ answer'[q] = "refused" => effect'[q] = {}
                        /\ \A e, f \in effect'[q] : e = f
  BY <1>4 DEF StepInv
<1>6. \A s \in Steps \ unclean' : \A q \in Passes : owner[q] = s => answer'[q] = answer[q]
  BY <1>2, <1>4
<1>7. QED
  BY <1>1, <1>2, <1>3, <1>5, <1>6 DEF StepInv

LEMMA StepInvStep ==
    Joint /\ CleanInv /\ StepInv /\ [PassesNext]_<<vars, passVars>> => StepInv'
<1> SUFFICES ASSUME Joint, CleanInv, StepInv, [PassesNext]_<<vars, passVars>> PROVE StepInv'
  OBVIOUS
<1>1. ASSUME UNCHANGED <<answer, effect, owner>>, unclean \subseteq unclean',
             \A s \in Steps \ unclean' : Answered(s)' <=> Answered(s)
      PROVE  StepInv'
  BY <1>1 DEF StepInv
<1>2. CASE UNCHANGED <<vars, passVars>>
  BY <1>1, <1>2
  DEF Answered, vars, xnchVars, loopVars, historyVars, passVars, contractVars
<1>3. CASE Aside
  <2>1. UNCHANGED <<answer, effect, owner>>
    BY <1>3 DEF Aside, passVars, contractVars
  <2>2. QED
    BY <1>1, <1>3, <2>1, AnsweredAside DEF Joint
<1>4. ASSUME NEW p \in Passes, Starts(p) PROVE StepInv'
  <2>1. /\ UNCHANGED <<answer, effect, status, unclean>> /\ ~Begun(p)
        /\ pc = "starting" /\ pc' = "running"
        /\ owner' = [owner EXCEPT ![p] = current]
    BY <1>4 DEF Starts, PassStarts, contractVars, xnchVars
  <2>2. answer[p] = "none" /\ \A q \in Passes \ {p} : owner'[q] = owner[q]
    BY <2>1 DEF Joint, PassTypes, PassesInv
  <2>3. \A s \in Steps : Answered(s)' <=> Answered(s)
    BY <2>1 DEF Answered
  <2>4. \A q \in Passes : answer[q] \in {"executing", "unknown"} => owner'[q] = owner[q]
    BY <2>2
  <2>5. QED
    BY <2>1, <2>3, <2>4 DEF StepInv
<1>5. ASSUME NEW p \in Passes, XnchAuthorises(p) PROVE StepInv'
  BY <1>1, <1>5
  DEF XnchAuthorises, Contract!Authorise, Answered, vars, xnchVars, loopVars, historyVars
<1>6. ASSUME NEW p \in Passes, NEW ref \in Refs, Acts(p, ref) \/ Stubs(p, ref)
      PROVE  StepInv'
  <2>1. /\ UNCHANGED <<answer, owner, status, current, outcome, unclean>>
        /\ \A q \in Passes \ {p} : effect'[q] = effect[q]
        /\ answer[p] # "refused" /\ \E e : effect'[p] = {e}
    <3>1. CASE Acts(p, ref)
      BY <3>1, ActsFrame DEF Acts, Joint, xnchVars, historyVars
    <3>2. CASE Stubs(p, ref)
      BY <3>2, StubFrame DEF Stubs, Joint, vars, xnchVars, loopVars, historyVars
    <3>3. QED
      BY <1>6, <3>1, <3>2
  <2>2. pc' = "reporting" <=> pc = "reporting"
    <3>1. CASE Acts(p, ref) /\ Open(p)
      BY <3>1, OpenIsCurrent DEF Acts
    <3>2. CASE (Acts(p, ref) /\ ~Open(p)) \/ Stubs(p, ref)
      BY <3>2 DEF Acts, Stubs, vars, loopVars
    <3>3. QED
      BY <1>6, <3>1, <3>2
  <2>3. \A s \in Steps : Answered(s)' <=> Answered(s)
    BY <2>1, <2>2 DEF Answered
  <2>4. \A q \in Passes : /\ answer'[q] = "refused" => effect'[q] = {}
                          /\ \A e, f \in effect'[q] : e = f
    BY <2>1 DEF StepInv
  <2>5. QED
    BY <2>1, <2>3, <2>4 DEF StepInv
<1>7. QED
  BY <1>2, <1>3, <1>4, <1>5, <1>6, StepInvEnds, StepInvStops DEF PassesNext

\* Along every run of the loop over its passes all the invariants hold together.
LEMMA JointAlways == PassesSpec => [](Joint /\ CleanInv /\ StepInv)
<1>1. PassesInit => Joint /\ CleanInv /\ StepInv
  BY JointInit, CleanInit, StepInvInit
<1>2. Joint /\ CleanInv /\ StepInv /\ [PassesNext]_<<vars, passVars>>
          => (Joint /\ CleanInv /\ StepInv)'
  BY JointStep, CleanStep, StepInvStep DEF Joint
<1>3. QED
  BY <1>1, <1>2, PTL DEF PassesSpec

\* However often a step is claimed, and whatever its passes do after the loop has
\* their answer, a step the loop never lost sight of has one effect at most on
\* the world: the retries of a step do not execute it twice.
THEOREM OneEffectPerStepAlways == PassesSpec => []OneEffectPerStep
<1>1. Joint /\ CleanInv /\ StepInv => OneEffectPerStep
  <2> SUFFICES ASSUME Joint, CleanInv, StepInv, NEW s \in Steps \ unclean,
                      NEW p \in Passes, NEW q \in Passes, owner[p] = s, owner[q] = s,
                      NEW e \in effect[p], NEW f \in effect[q]
               PROVE  p = q /\ e = f
    BY DEF OneEffectPerStep
  <2>1. /\ answer[p] \in {"none", "executing"} /\ answer[q] \in {"none", "executing"}
        /\ Begun(p) /\ Begun(q)
    BY NothingAssumption DEF StepInv, Joint, PassTypes, Contract!TypeOK, Contract!Answers, Begun
  <2>2. CASE answer[p] = "executing" /\ answer[q] = "executing"
    BY <2>2 DEF StepInv
  <2>3. CASE answer[p] = "none"
    <3>1. Open(p) /\ ~Answered(s)
      BY <2>1, <2>3, OpenUnanswered DEF Open
    <3>2. Open(q)
      BY <2>1, <3>1 DEF StepInv, Open
    <3>3. QED
      BY <3>1, <3>2 DEF Joint, PassesInv, StepInv
  <2>4. CASE answer[q] = "none"
    <3>1. Open(q) /\ ~Answered(s)
      BY <2>1, <2>4, OpenUnanswered DEF Open
    <3>2. Open(p)
      BY <2>1, <3>1 DEF StepInv, Open
    <3>3. QED
      BY <3>1, <3>2 DEF Joint, PassesInv, StepInv
  <2>5. QED
    BY <2>1, <2>2, <2>3, <2>4
<1>2. QED
  BY <1>1, JointAlways, PTL

\* The end xnch records of a step that the loop never lost sight of is the answer
\* of one of its passes: DONE was answered EXECUTING, and all the passes of a
\* FAILED one were refused, without effect then or later.
THEOREM EndIsAPassAlways == PassesSpec => []EndIsAPass
<1>1. Joint /\ CleanInv /\ StepInv => EndIsAPass
  <2> SUFFICES ASSUME Joint, CleanInv, StepInv, NEW s \in Steps \ unclean
               PROVE  /\ status[s] = "DONE" =>
                           \E p \in Passes : owner[p] = s /\ answer[p] = "executing"
                      /\ status[s] = "FAILED" => \A p \in Passes :
                           owner[p] = s => answer[p] = "refused" /\ effect[p] = {}
    BY DEF EndIsAPass
  <2>1. status[s] = "DONE" => \E p \in Passes : owner[p] = s /\ answer[p] = "executing"
    BY DEF StepInv, Answered
  <2>2. ASSUME status[s] = "FAILED", NEW p \in Passes, owner[p] = s
        PROVE  answer[p] = "refused" /\ effect[p] = {}
    <3>1. ~(current = s /\ pc # "applied")
      BY <2>2 DEF CleanInv, Held
    <3>2. ~Answered(s)
      BY <2>2, <3>1 DEF Answered
    <3>3. ~Open(p)
      BY <2>2, <3>1, OpenIsCurrent
    <3>4. answer[p] \notin {"none", "unknown", "executing"}
      BY <2>2, <3>2, <3>3, NothingAssumption DEF StepInv, Open, Begun
    <3>5. QED
      BY <3>4 DEF StepInv, Joint, PassTypes, Contract!TypeOK, Contract!Answers
  <2>3. QED
    BY <2>1, <2>2
<1>2. QED
  BY <1>1, JointAlways, PTL

\* What is proved of the loop alone holds of it over its passes.
THEOREM PassesKeepTheEnds ==
    PassesSpec => [](EndIsWhatHappened /\ DoneWasDispatched /\ FailedIsEarned)
  BY ExecutorRefinement, EndIsWhatHappenedAlways, DoneWasDispatchedAlways,
     FailedIsEarnedAlways, PTL DEF ImplementsExecutor
=============================================================================
