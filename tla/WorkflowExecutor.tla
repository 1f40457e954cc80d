-------------------------- MODULE WorkflowExecutor --------------------------
(***************************************************************************)
(* workflow_executor_loop (workflow/executor.py): one serialized loop that *)
(* claims an approved workflow step from xnch, runs one pipeline pass for  *)
(* it and posts SUCCESS or FAILURE.                                        *)
(*                                                                         *)
(* xnch is external: it leases a step, counts the failures reported to it  *)
(* and ends a step as DONE or, out of retries, as FAILED.  An outcome names *)
(* the step but not the claim it belongs to, so xnch takes one that comes  *)
(* late for one of the current claim; whether it takes an outcome of a step *)
(* that nobody holds is left open.                                         *)
(*                                                                         *)
(* A pass is what EffectContract says of it, which WorkflowPasses shows.  A *)
(* request whose caller gave it up may be served at any later time, or     *)
(* never.                                                                  *)
(***************************************************************************)
EXTENDS Naturals

CONSTANTS
    Steps,       \* the approved steps
    Nothing,     \* not a step: the loop holds none
    MaxRetries,  \* how many failures of a step xnch forgives
    MaxLate,     \* bound: equal outcomes of one step that are late
    MaxCrashes   \* bound: restarts of the process

ASSUME NothingAssumption == Nothing \notin Steps
ASSUME NumbersAssumption == MaxRetries \in Nat /\ MaxLate \in Nat /\ MaxCrashes \in Nat

VARIABLES
    status,    \* of each step in xnch; "lapsed" is CLAIMED with an expired lease
    failures,  \* failures of each step that xnch counted
    runs,      \* executions of each step the runner took, as far as two
    pc,        \* what the loop waits for
    current,   \* the step it holds
    outcome,   \* what it reports of the step
    late,      \* how many outcomes were given up and may still reach xnch
    loose,     \* steps with a pass that was given up and may still be executed
    deferred,  \* steps with a pass that answered EXECUTING without the runner
    crashes,   \* restarts so far
    wired,     \* whether execute_fn is given the arguments of the pass
    \* history, for the properties only:
    passes,    \* passes run for each step, as far as MaxRetries + 1
    unclean    \* steps the loop lost sight of

xnchVars == <<status, failures>>
loopVars == <<pc, current, outcome>>
historyVars == <<passes, unclean>>
worldVars == <<runs, loose, deferred>>
vars == <<xnchVars, worldVars, loopVars, late, crashes, wired, historyVars>>

Outcomes == {"SUCCESS", "FAILURE"}
Held == {"CLAIMED", "lapsed"}
Ended == {"DONE", "FAILED"}
Enough == MaxRetries + 1

TypeOK ==
    /\ status \in [Steps -> {"APPROVED"} \union Held \union Ended]
    /\ failures \in [Steps -> 0..Enough]
    /\ \A s \in Steps : failures[s] = Enough <=> status[s] = "FAILED"
    /\ runs \in [Steps -> 0..2]
    /\ pc \in {"sleep", "claiming", "granted", "starting", "running", "acted",
               "reporting", "applied"}
    /\ current \in Steps \union {Nothing}
    /\ current = Nothing <=> pc \in {"sleep", "claiming"}
    /\ outcome \in Outcomes \union {"none"}
    /\ outcome = "none" <=> pc \notin {"reporting", "applied"}
    /\ late \in [Steps -> [Outcomes -> 0..MaxLate]]
    /\ crashes \in 0..MaxCrashes
    /\ wired \in BOOLEAN
    /\ passes \in [Steps -> 0..Enough]
    /\ UNION {loose, deferred, unclean} \subseteq Steps

\* main.py starts the loop with xnch alone; the tests give it an execute_fn that
\* can run.
Init ==
    /\ wired \in BOOLEAN
    /\ status = [s \in Steps |-> "APPROVED"]
    /\ failures = [s \in Steps |-> 0]
    /\ runs = [s \in Steps |-> 0]
    /\ pc = "sleep" /\ current = Nothing /\ outcome = "none"
    /\ late = [s \in Steps |-> [o \in Outcomes |-> 0]]
    /\ loose = {} /\ deferred = {}
    /\ crashes = 0
    /\ passes = [s \in Steps |-> 0]
    /\ unclean = {}

UpTo(bound, n) == IF n < bound THEN n + 1 ELSE n

-----------------------------------------------------------------------------
(* Claiming.                                                                *)

Poll ==
    /\ pc = "sleep"
    /\ pc' = "claiming"
    /\ UNCHANGED <<xnchVars, worldVars, current, outcome, late, crashes, wired, historyVars>>

\* External: xnch leases a step; the answer is on its way.
XnchGrants(s) ==
    /\ pc = "claiming"
    /\ status[s] \in {"APPROVED", "lapsed"}
    /\ status' = [status EXCEPT ![s] = "CLAIMED"]
    /\ pc' = "granted" /\ current' = s
    /\ UNCHANGED <<failures, worldVars, outcome, late, crashes, wired, historyVars>>

ReceiveClaim ==
    /\ pc = "granted"
    /\ pc' = "starting"
    /\ UNCHANGED <<xnchVars, worldVars, current, outcome, late, crashes, wired, historyVars>>

\* Defect: an error of the claim ends the loop.
ClaimFails_Stops ==
    /\ pc \in {"claiming", "granted"}
    /\ pc' = "stopped" /\ current' = Nothing
    /\ UNCHANGED <<xnchVars, worldVars, outcome, late, crashes, wired, historyVars>>

\* Nothing to claim, or no answer: a step leased in the meantime stays leased.
ClaimFails ==
    /\ pc \in {"claiming", "granted"}
    /\ pc' = "sleep" /\ current' = Nothing
    /\ UNCHANGED <<xnchVars, worldVars, outcome, late, crashes, wired, historyVars>>

-----------------------------------------------------------------------------
(* One step.                                                                *)

\* The outcome is posted.
Report(o) == pc' = "reporting" /\ outcome' = o

\* Defect: nothing but a completed execution counts as a success.
OutcomeOf_Completed(s) == IF s = "COMPLETED" THEN "SUCCESS" ELSE "FAILURE"

OutcomeOf(s) == IF s = "EXECUTING" THEN "SUCCESS" ELSE "FAILURE"

PassStarts ==
    /\ pc = "starting" /\ wired
    /\ pc' = "running"
    /\ passes' = [passes EXCEPT ![current] = UpTo(Enough, @)]
    /\ UNCHANGED <<xnchVars, worldVars, current, outcome, late, crashes, unclean, wired>>

\* run_pipeline_pass is called without its arguments: TypeError.
PassIsNotCallable ==
    /\ pc = "starting" /\ ~wired
    /\ Report("FAILURE")
    /\ UNCHANGED <<xnchVars, worldVars, current, late, crashes, wired, historyVars>>

\* The runner takes the execution that the pass dispatched.
PassActs ==
    /\ pc = "running"
    /\ runs' = [runs EXCEPT ![current] = UpTo(2, @)]
    /\ pc' = "acted"
    /\ UNCHANGED <<xnchVars, loose, deferred, current, outcome, late, crashes, wired,
                   historyVars>>

\* The loop's part of the end of a pass, whatever happened in the world: a
\* result, or an error that leaves open what happened.
PassReturns(result) ==
    /\ pc \in {"running", "acted"}
    /\ Report(OutcomeOf(result))
    /\ UNCHANGED <<xnchVars, current, late, crashes, wired, historyVars>>

PassRaises ==
    /\ pc \in {"running", "acted"}
    /\ Report("FAILURE")
    /\ unclean' = unclean \union {current}
    /\ UNCHANGED <<xnchVars, current, late, crashes, passes, wired>>

\* What may still be executed when the pass under way is given up.
LeftBehind == IF pc = "running" THEN loose \union {current} ELSE loose

StepExecutes ==
    /\ pc = "acted"
    /\ PassReturns("EXECUTING")
    /\ UNCHANGED worldVars

\* The runner cannot be reached: the pass answers EXECUTING, with no more than a
\* synthetic outcome.
StepDeferred ==
    /\ pc = "running"
    /\ PassReturns("EXECUTING")
    /\ deferred' = deferred \union {current}
    /\ UNCHANGED <<runs, loose>>

\* The pass escalates, or ends in an error before its dispatch: a question for
\* clarification is one of those errors here.
StepRefused ==
    /\ pc = "running"
    /\ PassReturns("ESCALATED")
    /\ UNCHANGED worldVars

\* Defect: the outcome is SUCCESS unless the pass says otherwise.
StepFails_Optimistic ==
    /\ pc \in {"running", "acted"}
    /\ Report("SUCCESS")
    /\ unclean' = unclean \union {current}
    /\ loose' = LeftBehind
    /\ UNCHANGED <<xnchVars, runs, deferred, current, late, crashes, passes, wired>>

\* The pass ends in an error at its dispatch: the runner has taken the
\* execution, or may still take it.
StepFails == PassRaises /\ loose' = LeftBehind /\ UNCHANGED <<runs, deferred>>

\* External: the runner takes an execution whose pass is over; another pass of
\* the step may be left behind still.
LoosePassActs(s) ==
    /\ s \in loose
    /\ runs' = [runs EXCEPT ![s] = UpTo(2, @)]
    /\ loose' \in {loose, loose \ {s}}
    /\ UNCHANGED <<xnchVars, deferred, loopVars, late, crashes, wired, historyVars>>

-----------------------------------------------------------------------------
(* Outcomes.                                                                *)

Take(s, o) ==
    IF o = "SUCCESS"
    THEN /\ status' = [status EXCEPT ![s] = "DONE"]
         /\ UNCHANGED failures
    ELSE /\ failures' = [failures EXCEPT ![s] = @ + 1]
         /\ status' = [status EXCEPT ![s] =
                          IF failures[s] = MaxRetries THEN "FAILED" ELSE "APPROVED"]

\* What xnch makes of an outcome; one of a step that has ended changes nothing.
Accept(s, o) ==
    \/ status[s] \notin Ended /\ Take(s, o)
    \/ status[s] \notin Held /\ UNCHANGED xnchVars

\* External: the outcome reaches xnch while the loop waits.
XnchAccepts(s) ==
    /\ pc = "reporting" /\ current = s
    /\ Accept(s, outcome)
    /\ pc' = "applied"
    /\ UNCHANGED <<worldVars, current, outcome, late, crashes, wired, historyVars>>

\* External: it does so after the loop gave it up.
XnchAcceptsLate(s, o) ==
    /\ late[s][o] > 0
    /\ late' = [late EXCEPT ![s][o] = @ - 1]
    /\ Accept(s, o)
    /\ UNCHANGED <<worldVars, loopVars, crashes, wired, historyVars>>

ReportReturns ==
    /\ pc = "applied"
    /\ pc' = "sleep" /\ current' = Nothing /\ outcome' = "none"
    /\ UNCHANGED <<xnchVars, worldVars, late, crashes, wired, historyVars>>

\* The loop no longer waits for the outcome that may be on its way.
GiveUp == late' = IF pc = "reporting"
                  THEN [late EXCEPT ![current][outcome] = UpTo(MaxLate, @)] ELSE late

\* Defect: an outcome that was not acknowledged is posted again.
ReportFails_Resends ==
    /\ pc \in {"reporting", "applied"}
    /\ GiveUp
    /\ pc' = "reporting"
    /\ unclean' = unclean \union {current}
    /\ UNCHANGED <<xnchVars, worldVars, current, outcome, crashes, passes, wired>>

\* The outcome or its answer is lost, or late; the loop goes on all the same.
ReportFails ==
    /\ pc \in {"reporting", "applied"}
    /\ GiveUp
    /\ pc' = "sleep" /\ current' = Nothing /\ outcome' = "none"
    /\ unclean' = unclean \union {current}
    /\ UNCHANGED <<xnchVars, worldVars, crashes, passes, wired>>

\* External: a late outcome never reaches xnch.
OutcomeLost(s, o) ==
    /\ late[s][o] > 0
    /\ late' = [late EXCEPT ![s][o] = @ - 1]
    /\ UNCHANGED <<xnchVars, worldVars, loopVars, crashes, wired, historyVars>>

-----------------------------------------------------------------------------
(* Leases and restarts.                                                     *)

\* External: the lease runs out, also under the loop, which does not renew it.
LeaseLapses(s) ==
    /\ status[s] = "CLAIMED"
    /\ status' = [status EXCEPT ![s] = "lapsed"]
    /\ UNCHANGED <<failures, worldVars, loopVars, late, crashes, wired, historyVars>>

\* The process stops at an await and starts again.
Stop ==
    /\ crashes < MaxCrashes
    /\ crashes' = crashes + 1
    /\ pc' = "sleep" /\ current' = Nothing /\ outcome' = "none"
    /\ GiveUp
    /\ unclean' = unclean \union ({current} \ {Nothing})
    /\ UNCHANGED <<xnchVars, passes, wired>>

\* Its passes stop with it.
Restart == Stop /\ loose' = LeftBehind /\ UNCHANGED <<runs, deferred>>

-----------------------------------------------------------------------------
Loop ==
    \/ Poll \/ ReceiveClaim \/ ClaimFails
    \/ PassStarts \/ PassIsNotCallable
    \/ PassActs \/ StepExecutes \/ StepDeferred \/ StepRefused \/ StepFails
    \/ ReportReturns \/ ReportFails

Next ==
    \/ Loop
    \/ \E s \in Steps :
          \/ XnchGrants(s) \/ LoosePassActs(s) \/ XnchAccepts(s) \/ LeaseLapses(s)
          \/ \E o \in Outcomes : XnchAcceptsLate(s, o) \/ OutcomeLost(s, o)
    \/ Restart

\* Every call of the loop ends, at the latest by its timeout, and so does every
\* pass.  A step that stays claimable is leased in the end, xnch does not miss
\* every answer to a claim or every outcome, and leases run out.
Fairness ==
    /\ WF_vars(Poll) /\ WF_vars(ClaimFails)
    /\ WF_vars(PassStarts \/ PassIsNotCallable)
    /\ WF_vars(StepExecutes \/ StepDeferred \/ StepRefused \/ StepFails)
    /\ WF_vars(ReportReturns \/ ReportFails)
    /\ \A s \in Steps :
          /\ SF_vars(XnchGrants(s)) /\ SF_vars(current = s /\ ReceiveClaim)
          /\ SF_vars(XnchAccepts(s))
          /\ WF_vars(LeaseLapses(s))

Spec == Init /\ [][Next]_vars
FairSpec == Spec /\ Fairness

-----------------------------------------------------------------------------
(* Properties.                                                              *)

\* For a step the loop never lost sight of - no error at the dispatch, no
\* outcome without an acknowledgement, no restart - the end xnch records is
\* what happened: DONE was executed exactly once, or deferred by its one pass
\* and never executed; FAILED was neither.  This holds although leases run out
\* while the loop holds the step.
EndIsWhatHappened ==
    \A s \in Steps \ unclean :
        /\ status[s] = "DONE" => runs[s] = IF s \in deferred THEN 0 ELSE 1
        /\ status[s] = "FAILED" => runs[s] = 0 /\ s \notin deferred

\* Even for the others DONE means that the runner took an execution or that a
\* pass deferred it: no error and no late outcome of another claim closes a step
\* that no pass dispatched.
DoneWasDispatched ==
    \A s \in Steps : status[s] = "DONE" => runs[s] > 0 \/ s \in deferred

\* With an execute_fn that can run, a step ends FAILED only after MaxRetries + 1
\* passes: no outcome is counted twice, late or not.
FailedIsEarned ==
    wired => \A s \in Steps : status[s] = "FAILED" => passes[s] = Enough

\* README.md:170, the executor "runs each through one full pipeline pass": no
\* step ends without a pass.
NoEndWithoutPass == \A s \in Steps : status[s] \in Ended => passes[s] > 0

\* Every approved step ends, whatever fails on the way.
EveryStepEnds == \A s \in Steps : <>(status[s] \in Ended)
=============================================================================
