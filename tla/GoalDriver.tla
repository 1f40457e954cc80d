----------------------------- MODULE GoalDriver -----------------------------
(***************************************************************************)
(* goal_driver_loop (goal/driver.py): one serialized loop that polls xnch  *)
(* for a goal, runs one pipeline pass for it and reports how that went.    *)
(* xnch's GoalStore is external: it leases a goal to the loop, applies the *)
(* updates it receives, takes back a goal whose lease ran out, and learns  *)
(* the outcome of an execution from the runner.                            *)
(*                                                                         *)
(* A pass is what EffectContract says of it, which GoalPasses shows: a     *)
(* refused or clarified pass has no effect, an executing one has had it    *)
(* unless the runner was out of reach, and one that ended in an error may  *)
(* have had it or may still have it.  A request whose caller stopped       *)
(* waiting may be served at any later time, or never.                      *)
(***************************************************************************)
EXTENDS Naturals

CONSTANTS
    Goals,      \* the goals xnch holds, all ACTIVE to begin with
    Nobody,     \* not a goal: the loop holds none
    Limit,      \* settings.goal_max_consecutive_step_errors
    MaxOwed,    \* bound: executions of a goal in progress at the same time
    MaxCrashes  \* bound: restarts of the process

ASSUME NobodyAssumption == Nobody \notin Goals
ASSUME LimitAssumption == Limit \in Nat \ {0}
ASSUME BoundsAssumption == MaxOwed \in Nat \ {0} /\ MaxCrashes \in Nat

VARIABLES
    status,   \* of each goal in xnch; "lapsed" is RUNNING with an expired lease
    owed,     \* executions of each goal, or synthetic outcomes in their place, that
              \* xnch has not heard the end of
    posted,   \* update requests on their way to xnch
    pc,       \* what the loop waits for
    current,  \* the goal it holds
    call,     \* the update it waits for, and why it was sent
    errors,   \* _consecutive_step_errors
    loose,    \* goals with a pass that is over and may still have its effect
    crashes,  \* restarts so far
    \* history, for the properties only:
    doubt,    \* goals that may be executed without the loop knowing
    late,     \* goals with an update that was given up and may still be applied
    stopped,  \* goals whose end xnch acknowledged to the loop
    over,     \* goals that reached the limit of consecutive errors
    again     \* how often in a row the loop handed each goal back after an error

xnchVars == <<status, owed, posted>>
loopVars == <<pc, current, call>>
historyVars == <<doubt, late, stopped, over, again>>
vars == <<xnchVars, loopVars, errors, loose, crashes, historyVars>>

Claimable == {"ACTIVE", "lapsed"}
Updates == [goal : Goals, status : {"ACTIVE", "BLOCKED"}]
Final == {"refused", "clarification", "limit"}
NoCall == [status |-> "none", why |-> "none"]
AgainCap == Limit * (MaxCrashes + 1)

TypeOK ==
    /\ status \in [Goals -> {"ACTIVE", "RUNNING", "lapsed", "BLOCKED", "COMPLETED"}]
    /\ owed \in [Goals -> 0..MaxOwed]
    /\ posted \subseteq Updates
    /\ pc \in {"sleep", "claiming", "granted", "stepping", "acted", "updating", "applied"}
    /\ current \in Goals \union {Nobody}
    /\ current = Nobody <=> pc \in {"sleep", "claiming"}
    /\ call \in [status : {"ACTIVE", "BLOCKED"}, why : Final \union {"error"}] \union {NoCall}
    /\ call = NoCall <=> pc \notin {"updating", "applied"}
    /\ errors \in [Goals -> 0..(Limit - 1)]
    /\ crashes \in 0..MaxCrashes
    /\ UNION {loose, doubt, late, stopped, over} \subseteq Goals
    /\ again \in [Goals -> 0..AgainCap]

Init ==
    /\ status = [g \in Goals |-> "ACTIVE"]
    /\ owed = [g \in Goals |-> 0]
    /\ posted = {}
    /\ pc = "sleep" /\ current = Nobody /\ call = NoCall
    /\ errors = [g \in Goals |-> 0]
    /\ loose = {}
    /\ crashes = 0
    /\ doubt = {} /\ late = {} /\ stopped = {} /\ over = {}
    /\ again = [g \in Goals |-> 0]

-----------------------------------------------------------------------------
(* Claiming.                                                                *)

Poll ==
    /\ pc = "sleep"
    /\ pc' = "claiming"
    /\ UNCHANGED <<xnchVars, current, call, errors, loose, crashes, historyVars>>

\* External: xnch leases a goal; the answer is on its way.
XnchGrants(g) ==
    /\ pc = "claiming"
    /\ status[g] \in Claimable
    /\ status' = [status EXCEPT ![g] = "RUNNING"]
    /\ pc' = "granted" /\ current' = g
    /\ UNCHANGED <<owed, posted, call, errors, loose, crashes, historyVars>>

ReceiveClaim ==
    /\ pc = "granted"
    /\ pc' = "stepping"
    /\ UNCHANGED <<xnchVars, current, call, errors, loose, crashes, historyVars>>

\* Nothing to claim, or no answer: a goal leased in the meantime stays leased.
ClaimFails ==
    /\ pc \in {"claiming", "granted"}
    /\ pc' = "sleep" /\ current' = Nobody
    /\ UNCHANGED <<xnchVars, call, errors, loose, crashes, historyVars>>

-----------------------------------------------------------------------------
(* One step: a pass, and what the loop makes of its answer.                 *)

\* The runner takes the execution that the pass dispatched, or the pass posts a
\* synthetic outcome for it.
PassActs ==
    /\ pc = "stepping"
    /\ owed[current] < MaxOwed
    /\ owed' = [owed EXCEPT ![current] = @ + 1]
    /\ pc' = "acted"
    /\ UNCHANGED <<status, posted, current, call, errors, loose, crashes, historyVars>>

\* The loop goes back to sleep and keeps no error of the goal.
Forget ==
    /\ pc' = "sleep" /\ current' = Nobody /\ call' = NoCall
    /\ errors' = [errors EXCEPT ![current] = 0]
    /\ again' = [again EXCEPT ![current] = 0]

\* update_goal is sent.
Post(s, why) ==
    /\ posted' = posted \union {[goal |-> current, status |-> s]}
    /\ call' = [status |-> s, why |-> why]
    /\ pc' = "updating"

\* Defect: one error too many is allowed.
LimitReached_OneMore(count) == count > Limit

LimitReached(count) == count >= Limit

\* The generic handler.  The counter is dropped before BLOCKED is sent.
HandleError ==
    LET count == errors[current] + 1
    IN  IF LimitReached(count)
        THEN /\ Post("BLOCKED", "limit")
             /\ errors' = [errors EXCEPT ![current] = 0]
             /\ over' = over \union {current}
             /\ again' = [again EXCEPT ![current] = 0]
        ELSE /\ Post("ACTIVE", "error")
             /\ errors' = [errors EXCEPT ![current] = count]
             /\ again' = [again EXCEPT ![current] = IF @ = AgainCap THEN @ ELSE @ + 1]
             /\ UNCHANGED over

\* The loop's part of the end of a pass, whatever happened in the world.  After
\* EXECUTING the goal stays leased: xnch moves it on when the outcome arrives.
PassReturns(result) ==
    /\ pc \in {"stepping", "acted"}
    /\ IF result = "EXECUTING"
       THEN Forget /\ UNCHANGED <<posted, over>>
       ELSE Post("BLOCKED", "refused") /\ UNCHANGED <<current, errors, over, again>>
    /\ UNCHANGED <<status, crashes, doubt, late, stopped>>

PassNeedsClarification ==
    /\ pc \in {"stepping", "acted"}
    /\ Post("BLOCKED", "clarification")
    /\ errors' = [errors EXCEPT ![current] = 0]
    /\ again' = [again EXCEPT ![current] = 0]
    /\ UNCHANGED <<status, current, crashes, doubt, late, stopped, over>>

\* What has been executed when the loop loses sight of the pass.
DoubtPass == doubt' = IF pc = "acted" THEN doubt \union {current} ELSE doubt

PassRaises ==
    /\ pc \in {"stepping", "acted"}
    /\ HandleError
    /\ DoubtPass
    /\ UNCHANGED <<status, current, crashes, late, stopped>>

\* Defect: the goal is handed back before its execution is over.
StepExecutes_HandsBack ==
    /\ pc = "acted"
    /\ Forget
    /\ status' = [status EXCEPT ![current] = "ACTIVE"]
    /\ UNCHANGED <<owed, posted, loose, crashes, doubt, late, stopped, over>>

StepExecutes ==
    /\ pc = "acted"
    /\ PassReturns("EXECUTING")
    /\ UNCHANGED <<owed, loose>>

\* The runner is out of reach and the synthetic outcome was not acknowledged: it
\* may be recorded late, or never.
StepDefers ==
    /\ pc = "stepping"
    /\ PassReturns("EXECUTING")
    /\ loose' = loose \union {current}
    /\ UNCHANGED owed

StepRefused ==
    /\ pc = "stepping"
    /\ PassReturns("ESCALATED")
    /\ UNCHANGED <<owed, loose>>

\* Defect: the goal is tried again although the question is still open.
StepClarifies_Retried ==
    /\ pc = "stepping"
    /\ Post("ACTIVE", "clarification")
    /\ errors' = [errors EXCEPT ![current] = 0]
    /\ again' = [again EXCEPT ![current] = 0]
    /\ UNCHANGED <<status, owed, current, loose, crashes, doubt, late, stopped, over>>

StepClarifies ==
    /\ pc = "stepping"
    /\ PassNeedsClarification
    /\ UNCHANGED <<owed, loose>>

\* A pass can fail before its dispatch, after the runner took its execution, or
\* before the runner serves a request that is on its way.
StepFails ==
    /\ PassRaises
    /\ loose' \in IF pc = "stepping" THEN {loose, loose \union {current}} ELSE {loose}
    /\ UNCHANGED owed

\* External: a pass that is over has its effect; another pass of the goal may be
\* left behind still.
LoosePassActs(g) ==
    /\ g \in loose
    /\ owed[g] < MaxOwed
    /\ owed' = [owed EXCEPT ![g] = @ + 1]
    /\ loose' \in {loose, loose \ {g}}
    /\ doubt' = doubt \union {g}
    /\ UNCHANGED <<status, posted, loopVars, errors, crashes, late, stopped, over, again>>

-----------------------------------------------------------------------------
(* Updates.                                                                 *)

Awaited(u) == pc = "updating" /\ current = u.goal /\ call.status = u.status

\* External: xnch applies an update, be it in time or long after the loop gave
\* it up.  A completed goal does not change.
XnchApplies(u) ==
    /\ u \in posted
    /\ posted' = posted \ {u}
    /\ status' = [status EXCEPT ![u.goal] = IF @ = "COMPLETED" THEN @ ELSE u.status]
    /\ pc' = IF Awaited(u) THEN "applied" ELSE pc
    /\ doubt' = IF Awaited(u) THEN doubt ELSE doubt \union {u.goal}
    /\ UNCHANGED <<owed, current, call, errors, loose, crashes, late, stopped, over, again>>

\* The answer arrives.  A step that was refused counts as one without error.
UpdateReturns ==
    /\ pc = "applied"
    /\ stopped' = IF call.why \in Final THEN stopped \union {current} ELSE stopped
    /\ IF call.why = "refused"
       THEN Forget
       ELSE /\ pc' = "sleep" /\ current' = Nobody /\ call' = NoCall
            /\ UNCHANGED <<errors, again>>
    /\ UNCHANGED <<xnchVars, loose, crashes, doubt, late, over>>

\* Defect: the client has no timeout.
UpdateFails_NoTimeout == FALSE

\* The request or its answer is lost, or late: the request may still be on its
\* way.  The BLOCKED of a refused step is sent inside the step, so that its
\* failure is an error of the step; that of the others is swallowed.
UpdateFails ==
    /\ pc \in {"updating", "applied"}
    /\ late' = IF [goal |-> current, status |-> call.status] \in posted
               THEN late \union {current} ELSE late
    /\ IF call.why = "refused"
       THEN HandleError /\ UNCHANGED current
       ELSE /\ pc' = "sleep" /\ current' = Nobody /\ call' = NoCall
            /\ UNCHANGED <<posted, errors, over, again>>
    /\ UNCHANGED <<status, owed, loose, crashes, doubt, stopped>>

\* External: an update never reaches xnch, or xnch does not take it.
UpdateLost(u) ==
    /\ u \in posted
    /\ posted' = posted \ {u}
    /\ UNCHANGED <<status, owed, loopVars, errors, loose, crashes, historyVars>>

-----------------------------------------------------------------------------
(* What else xnch does, and restarts.                                       *)

\* External: nobody renews a lease, so it runs out under a long step too.
LeaseLapses(g) ==
    /\ status[g] = "RUNNING"
    /\ status' = [status EXCEPT ![g] = "lapsed"]
    /\ doubt' = IF owed[g] > 0 \/ current = g THEN doubt \union {g} ELSE doubt
    /\ UNCHANGED <<owed, posted, loopVars, errors, loose, crashes, late, stopped, over, again>>

\* What xnch makes of the outcome of an execution: a running goal moves on.
MovesOn(g) ==
    \E s \in {"ACTIVE", "BLOCKED", "COMPLETED"} :
        status' = [status EXCEPT ![g] = IF @ \in {"RUNNING", "lapsed"} THEN s ELSE @]

\* External: the outcome of an execution arrives.
OutcomeArrives(g) ==
    /\ owed[g] > 0
    /\ owed' = [owed EXCEPT ![g] = @ - 1]
    /\ MovesOn(g)
    /\ UNCHANGED <<posted, loopVars, errors, loose, crashes, historyVars>>

\* External: an execution ends without an outcome.
OutcomeLost(g) ==
    /\ owed[g] > 0
    /\ owed' = [owed EXCEPT ![g] = @ - 1]
    /\ UNCHANGED <<status, posted, loopVars, errors, loose, crashes, historyVars>>

\* The process stops at an await and starts again with an empty dict.
Stop ==
    /\ crashes < MaxCrashes
    /\ crashes' = crashes + 1
    /\ pc' = "sleep" /\ current' = Nobody /\ call' = NoCall
    /\ errors' = [g \in Goals |-> 0]
    /\ DoubtPass
    /\ late' = IF pc = "updating" THEN late \union {current} ELSE late
    /\ UNCHANGED <<status, posted, stopped, over, again>>

\* Its passes stop with it.
Restart ==
    /\ Stop
    /\ loose' = IF pc = "stepping" THEN loose \union {current} ELSE loose
    /\ UNCHANGED owed

-----------------------------------------------------------------------------
Loop ==
    \/ Poll \/ ReceiveClaim \/ ClaimFails
    \/ PassActs
    \/ StepExecutes \/ StepDefers \/ StepRefused \/ StepClarifies \/ StepFails
    \/ UpdateReturns \/ UpdateFails

Next ==
    \/ Loop
    \/ \E g \in Goals :
          \/ XnchGrants(g) \/ LoosePassActs(g) \/ LeaseLapses(g)
          \/ OutcomeArrives(g) \/ OutcomeLost(g)
    \/ \E u \in Updates : XnchApplies(u) \/ UpdateLost(u)
    \/ Restart

\* Every call of the loop ends, at the latest by its timeout, and so does every
\* pass.  A goal that stays claimable is leased in the end, and xnch does not
\* miss every answer to a claim or every BLOCKED; leases run out.
Fairness ==
    /\ WF_vars(Poll) /\ WF_vars(ClaimFails)
    /\ WF_vars(StepExecutes \/ StepDefers \/ StepRefused \/ StepClarifies \/ StepFails)
    /\ WF_vars(UpdateReturns \/ UpdateFails)
    /\ \A g \in Goals :
          /\ SF_vars(XnchGrants(g)) /\ SF_vars(current = g /\ ReceiveClaim)
          /\ SF_vars(XnchApplies([goal |-> g, status |-> "BLOCKED"]))
          /\ WF_vars(LeaseLapses(g))

Spec == Init /\ [][Next]_vars
FairSpec == Spec /\ Fairness

-----------------------------------------------------------------------------
(* Properties.                                                              *)

\* Two executions of one goal are only in progress at the same time after a
\* pass whose answer was lost, a restart, a lapsed lease or a late update: in
\* the ordinary course the lease keeps the loop off a goal until its outcome.
NoOverlap == \A g \in Goals : owed[g] > 1 => g \in doubt

\* A goal whose BLOCKED xnch acknowledged stays blocked, unless an earlier
\* update that was given up is applied after it: no other path of the loop
\* hands such a goal back.
StoppedStaysBlocked ==
    \A g \in stopped \ late : status[g] \in {"BLOCKED", "COMPLETED"}

\* Between two steps of a goal that end without an error, the loop hands it back
\* at most Limit - 1 times in one life of the process before it reports it
\* BLOCKED, whatever mixture of failed passes and failed updates it meets.
RetriesBounded == \A g \in Goals : again[g] <= (Limit - 1) * (crashes + 1)

\* No goal is tried for ever in vain: either its steps are answered EXECUTING
\* again and again, or it is blocked or completed.
NoEndlessFailure ==
    \A g \in Goals :
        \/ []<><<current = g /\ (StepExecutes \/ StepDefers)>>_vars
        \/ <>(status[g] \in {"BLOCKED", "COMPLETED"})

\* README.md:166, a goal that "racks up too many consecutive step errors is
\* reported blocked to xnch instead of looping forever": after the limit was
\* reached no further step of the goal is run.
OverLimitIsOver == pc = "stepping" => current \notin over
=============================================================================
