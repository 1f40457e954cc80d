-------------------------- MODULE GoalDriverProofs --------------------------
(***************************************************************************)
(* Proofs about GoalDriver, for every set of goals, every limit of         *)
(* consecutive errors and every number of crashes, and about GoalPasses,   *)
(* for every finite set of passes: that the driver over passes that keep   *)
(* EffectContract implements GoalDriver, and that the lease keeps the      *)
(* passes of a goal apart.                                                 *)
(***************************************************************************)
EXTENDS GoalPasses, FiniteSetTheorems, TLAPS

-----------------------------------------------------------------------------
(* Types.                                                                   *)

LEMMA Numbers ==
    /\ Limit \in Nat /\ Limit > 0 /\ Limit - 1 \in Nat
    /\ AgainCap \in Nat /\ MaxOwed \in Nat /\ MaxCrashes \in Nat
  BY LimitAssumption, BoundsAssumption DEF AgainCap

LEMMA TypeInit == Init => TypeOK
  BY Numbers, NobodyAssumption DEF Init, TypeOK, NoCall

\* An update is sent for the goal that the loop holds.
LEMMA PostTyped ==
    ASSUME TypeOK, current \in Goals, NEW s \in {"ACTIVE", "BLOCKED"},
           NEW why \in Final \union {"error"}, Post(s, why)
    PROVE  /\ posted' \subseteq Updates /\ pc' = "updating" /\ call' # NoCall
           /\ call' \in [status : {"ACTIVE", "BLOCKED"}, why : Final \union {"error"}]
  BY DEF Post, TypeOK, Updates, NoCall

\* The generic handler keeps the counter below the limit.
LEMMA HandlerTyped ==
    ASSUME TypeOK, current \in Goals, HandleError
    PROVE  /\ posted' \subseteq Updates /\ pc' = "updating" /\ call' # NoCall
           /\ call' \in [status : {"ACTIVE", "BLOCKED"}, why : Final \union {"error"}]
           /\ errors' \in [Goals -> 0..(Limit - 1)] /\ again' \in [Goals -> 0..AgainCap]
           /\ over' \subseteq Goals
<1>1. CASE LimitReached(errors[current] + 1)
  <2>1. Post("BLOCKED", "limit")
    BY <1>1 DEF HandleError
  <2>2. /\ errors' = [errors EXCEPT ![current] = 0]
        /\ over' = over \union {current} /\ again' = [again EXCEPT ![current] = 0]
    BY <1>1 DEF HandleError
  <2>3. errors' \in [Goals -> 0..(Limit - 1)]
    BY <2>2, Numbers DEF TypeOK
  <2>4. again' \in [Goals -> 0..AgainCap] /\ over' \subseteq Goals
    BY <2>2, Numbers DEF TypeOK
  <2>5. QED
    BY <2>1, <2>3, <2>4, PostTyped DEF Final
<1>2. CASE ~LimitReached(errors[current] + 1)
  <2>1. Post("ACTIVE", "error")
    BY <1>2 DEF HandleError
  <2>2. /\ errors' = [errors EXCEPT ![current] = errors[current] + 1]
        /\ over' = over
        /\ again' = [again EXCEPT ![current] = IF @ = AgainCap THEN @ ELSE @ + 1]
    BY <1>2 DEF HandleError
  <2>3. errors[current] + 1 \in 0..(Limit - 1)
    BY <1>2, Numbers DEF LimitReached, TypeOK
  <2>4. (IF again[current] = AgainCap THEN again[current] ELSE again[current] + 1) \in 0..AgainCap
    BY Numbers DEF TypeOK
  <2>5. again' \in [Goals -> 0..AgainCap] /\ over' \subseteq Goals
    BY <2>2, <2>4 DEF TypeOK
  <2>6. errors' \in [Goals -> 0..(Limit - 1)]
    BY <2>2, <2>3 DEF TypeOK
  <2>7. QED
    BY <2>1, <2>5, <2>6, PostTyped
<1>3. QED
  BY <1>1, <1>2

LEMMA ForgetTyped ==
    ASSUME TypeOK, current \in Goals, Forget
    PROVE  /\ pc' = "sleep" /\ current' = Nobody /\ call' = NoCall
           /\ errors' \in [Goals -> 0..(Limit - 1)] /\ again' \in [Goals -> 0..AgainCap]
  BY Numbers DEF Forget, TypeOK

LEMMA TypeStep == TypeOK /\ [Next]_vars => TypeOK'
<1> SUFFICES ASSUME TypeOK, [Next]_vars PROVE TypeOK'
  OBVIOUS
<1>1. CASE UNCHANGED vars
  BY <1>1 DEF TypeOK, vars, xnchVars, loopVars, historyVars
<1>2. CASE Poll \/ ReceiveClaim \/ ClaimFails
  BY <1>2, NobodyAssumption DEF Poll, ReceiveClaim, ClaimFails, TypeOK, xnchVars, historyVars
<1>3. CASE PassActs
  <2>1. current \in Goals /\ owed[current] + 1 \in 0..MaxOwed
    BY <1>3, Numbers DEF PassActs, TypeOK
  <2>2. QED
    BY <1>3, <2>1 DEF PassActs, TypeOK, historyVars
<1>4. CASE StepExecutes \/ StepDefers
  <2>1. current \in Goals
    BY <1>4 DEF StepExecutes, StepDefers, PassReturns, TypeOK
  <2>2. QED
    BY <1>4, <2>1, ForgetTyped, NobodyAssumption
    DEF StepExecutes, StepDefers, PassReturns, TypeOK, xnchVars
<1>5. CASE StepRefused
  <2>1. current \in Goals
    BY <1>5 DEF StepRefused, PassReturns, TypeOK
  <2>2. /\ posted' \subseteq Updates /\ pc' = "updating" /\ call' # NoCall
        /\ call' \in [status : {"ACTIVE", "BLOCKED"}, why : Final \union {"error"}]
    BY <1>5, <2>1, PostTyped DEF StepRefused, PassReturns, Final
  <2>3. QED
    BY <1>5, <2>1, <2>2, NobodyAssumption DEF StepRefused, PassReturns, TypeOK, historyVars
<1>6. CASE StepClarifies
  <2>1. current \in Goals
    BY <1>6 DEF StepClarifies, PassNeedsClarification, TypeOK
  <2>2. /\ posted' \subseteq Updates /\ pc' = "updating" /\ call' # NoCall
        /\ call' \in [status : {"ACTIVE", "BLOCKED"}, why : Final \union {"error"}]
    BY <1>6, <2>1, PostTyped DEF StepClarifies, PassNeedsClarification, Final
  <2>3. errors' \in [Goals -> 0..(Limit - 1)] /\ again' \in [Goals -> 0..AgainCap]
    BY <1>6, <2>1, Numbers DEF StepClarifies, PassNeedsClarification, TypeOK
  <2>4. QED
    BY <1>6, <2>1, <2>2, <2>3, NobodyAssumption
    DEF StepClarifies, PassNeedsClarification, TypeOK
<1>7. CASE StepFails
  <2>1. current \in Goals
    BY <1>7 DEF StepFails, PassRaises, DoubtPass, TypeOK
  <2>2. /\ posted' \subseteq Updates /\ pc' = "updating" /\ call' # NoCall
        /\ call' \in [status : {"ACTIVE", "BLOCKED"}, why : Final \union {"error"}]
        /\ errors' \in [Goals -> 0..(Limit - 1)] /\ again' \in [Goals -> 0..AgainCap]
        /\ over' \subseteq Goals
    BY <1>7, <2>1, HandlerTyped DEF StepFails, PassRaises, DoubtPass
  <2>3. QED
    BY <1>7, <2>1, <2>2, NobodyAssumption DEF StepFails, PassRaises, DoubtPass, TypeOK
<1>8. CASE UpdateReturns
  <2>1. current \in Goals
    BY <1>8 DEF UpdateReturns, TypeOK
  <2>2. /\ pc' = "sleep" /\ current' = Nobody /\ call' = NoCall
        /\ errors' \in [Goals -> 0..(Limit - 1)] /\ again' \in [Goals -> 0..AgainCap]
    BY <1>8, <2>1, ForgetTyped DEF UpdateReturns, TypeOK
  <2>3. QED
    BY <1>8, <2>1, <2>2, NobodyAssumption DEF UpdateReturns, TypeOK, xnchVars
<1>9. CASE UpdateFails
  <2>1. current \in Goals
    BY <1>9 DEF UpdateFails, TypeOK
  <2>2. CASE call.why = "refused"
    <3>1. /\ posted' \subseteq Updates /\ pc' = "updating" /\ call' # NoCall
          /\ call' \in [status : {"ACTIVE", "BLOCKED"}, why : Final \union {"error"}]
          /\ errors' \in [Goals -> 0..(Limit - 1)] /\ again' \in [Goals -> 0..AgainCap]
          /\ over' \subseteq Goals
      BY <1>9, <2>1, <2>2, HandlerTyped DEF UpdateFails
    <3>2. QED
      BY <1>9, <2>1, <2>2, <3>1, NobodyAssumption DEF UpdateFails, TypeOK
  <2>3. CASE call.why # "refused"
    BY <1>9, <2>1, <2>3, NobodyAssumption DEF UpdateFails, TypeOK
  <2>4. QED
    BY <2>2, <2>3
<1>10. ASSUME NEW g \in Goals, XnchGrants(g) PROVE TypeOK'
  BY <1>10, NobodyAssumption DEF XnchGrants, TypeOK, historyVars
<1>11. ASSUME NEW g \in Goals, LoosePassActs(g) PROVE TypeOK'
  <2>1. owed[g] + 1 \in 0..MaxOwed
    BY <1>11, Numbers DEF LoosePassActs, TypeOK
  <2>2. QED
    BY <1>11, <2>1 DEF LoosePassActs, TypeOK, loopVars
<1>12. ASSUME NEW g \in Goals, LeaseLapses(g) PROVE TypeOK'
  BY <1>12 DEF LeaseLapses, TypeOK, loopVars
<1>13. ASSUME NEW g \in Goals, OutcomeArrives(g) PROVE TypeOK'
  <2>1. owed[g] - 1 \in 0..MaxOwed
    BY <1>13, Numbers DEF OutcomeArrives, TypeOK
  <2>2. QED
    BY <1>13, <2>1 DEF OutcomeArrives, MovesOn, TypeOK, loopVars, historyVars
<1>14. ASSUME NEW g \in Goals, OutcomeLost(g) PROVE TypeOK'
  <2>1. owed[g] - 1 \in 0..MaxOwed
    BY <1>14, Numbers DEF OutcomeLost, TypeOK
  <2>2. QED
    BY <1>14, <2>1 DEF OutcomeLost, TypeOK, loopVars, historyVars
<1>15. ASSUME NEW u \in Updates, XnchApplies(u) PROVE TypeOK'
  BY <1>15 DEF XnchApplies, Awaited, Updates, TypeOK
<1>16. ASSUME NEW u \in Updates, UpdateLost(u) PROVE TypeOK'
  BY <1>16 DEF UpdateLost, TypeOK, loopVars, historyVars
<1>17. CASE Restart
  <2>1. crashes + 1 \in 0..MaxCrashes /\ 0 \in 0..(Limit - 1)
    BY <1>17, Numbers DEF Restart, Stop, DoubtPass, TypeOK
  <2>2. QED
    BY <1>17, <2>1, NobodyAssumption DEF Restart, Stop, DoubtPass, TypeOK, xnchVars
<1>18. QED
  BY <1>1, <1>2, <1>3, <1>4, <1>5, <1>6, <1>7, <1>8, <1>9, <1>10, <1>11, <1>12,
     <1>13, <1>14, <1>15, <1>16, <1>17 DEF Next, Loop

\* Every variable keeps its type; no goal has more than Limit - 1 errors on
\* record.
THEOREM TypeCorrect == Spec => []TypeOK
  BY TypeInit, TypeStep, PTL DEF Spec

-----------------------------------------------------------------------------
(* Overlapping executions.                                                  *)

\* A goal without doubt has one execution at most, and while it has one its
\* lease keeps every loop off it.
CleanInv ==
    \A g \in Goals \ doubt :
        /\ owed[g] <= 1
        /\ owed[g] = 1 => status[g] = "RUNNING" /\ (current = g => pc = "acted")
        /\ current = g /\ pc \in {"granted", "stepping"} => status[g] = "RUNNING"

LEMMA CleanInit == Init => CleanInv
<1> SUFFICES ASSUME Init PROVE CleanInv
  OBVIOUS
<1>1. owed = [g \in Goals |-> 0] /\ current = Nobody
  BY DEF Init
<1>2. ASSUME NEW g \in Goals PROVE owed[g] <= 1 /\ owed[g] # 1 /\ current # g
  <2>1. owed[g] = 0 /\ current # g
    BY <1>1, NobodyAssumption
  <2>2. QED
    BY <2>1
<1>3. QED
  BY <1>2 DEF CleanInv

LEMMA CleanStep == TypeOK /\ CleanInv /\ [Next]_vars => CleanInv'
<1> SUFFICES ASSUME TypeOK, CleanInv, [Next]_vars PROVE CleanInv'
  OBVIOUS
<1>0. \A g \in Goals : owed[g] \in Nat
  BY Numbers DEF TypeOK
<1>1. CASE UNCHANGED vars
  BY <1>1 DEF CleanInv, vars, xnchVars, loopVars, historyVars
<1>2. CASE Poll \/ ReceiveClaim \/ ClaimFails
  BY <1>2, NobodyAssumption
  DEF Poll, ReceiveClaim, ClaimFails, TypeOK, CleanInv, xnchVars, historyVars
<1>3. CASE PassActs
  <2>1. /\ current \in Goals /\ pc = "stepping" /\ pc' = "acted"
        /\ UNCHANGED <<status, current, doubt>>
        /\ owed' = [owed EXCEPT ![current] = @ + 1]
    BY <1>3 DEF PassActs, TypeOK, historyVars
  <2>2. current \notin doubt => owed[current] = 0 /\ status[current] = "RUNNING"
    BY <1>0, <2>1 DEF CleanInv
  <2>3. \A g \in Goals : owed'[g] = IF g = current THEN owed[g] + 1 ELSE owed[g]
    BY <2>1 DEF TypeOK
  <2>4. QED
    BY <1>0, <2>1, <2>2, <2>3 DEF CleanInv
<1>4. CASE StepExecutes \/ StepDefers \/ UpdateReturns
  <2>1. UNCHANGED <<status, owed, doubt>> /\ current' = Nobody
    BY <1>4 DEF StepExecutes, StepDefers, PassReturns, UpdateReturns, Forget, xnchVars
  <2>2. QED
    BY <2>1, NobodyAssumption DEF CleanInv
<1>5. CASE StepRefused \/ StepClarifies \/ StepFails \/ UpdateFails
  <2>1. /\ UNCHANGED <<status, owed>> /\ doubt \subseteq doubt'
        /\ \/ current' = current /\ pc' = "updating"
           \/ current' = Nobody
        /\ pc = "acted" => current \in doubt'
    BY <1>5
    DEF StepRefused, PassReturns, StepClarifies, PassNeedsClarification, StepFails,
        PassRaises, DoubtPass, UpdateFails, HandleError, Post, historyVars
  <2>2. \A g \in Goals \ doubt' : owed[g] = 1 /\ current = g => FALSE
    BY <2>1 DEF CleanInv
  <2>3. QED
    BY <2>1, <2>2, NobodyAssumption DEF CleanInv
<1>6. ASSUME NEW g \in Goals, XnchGrants(g) PROVE CleanInv'
  <2>1. /\ pc = "claiming" /\ current = Nobody /\ status[g] # "RUNNING"
        /\ status' = [status EXCEPT ![g] = "RUNNING"]
        /\ pc' = "granted" /\ current' = g /\ UNCHANGED <<owed, doubt>>
    BY <1>6 DEF XnchGrants, Claimable, TypeOK, historyVars
  <2>2. g \notin doubt => owed[g] = 0
    BY <1>0, <2>1, NobodyAssumption DEF CleanInv
  <2>3. QED
    BY <2>1, <2>2, NobodyAssumption DEF CleanInv, TypeOK
<1>7. ASSUME NEW g \in Goals, LoosePassActs(g) \/ OutcomeLost(g) PROVE CleanInv'
  <2>1. UNCHANGED <<status, pc, current>> /\ doubt \subseteq doubt'
    BY <1>7 DEF LoosePassActs, OutcomeLost, loopVars, historyVars
  <2>2. \A h \in Goals \ doubt' : owed'[h] <= owed[h] /\ owed'[h] \in Nat
    BY <1>0, <1>7 DEF LoosePassActs, OutcomeLost, TypeOK
  <2>3. QED
    BY <1>0, <2>1, <2>2 DEF CleanInv
<1>8. ASSUME NEW g \in Goals, OutcomeArrives(g) PROVE CleanInv'
  <2>1. /\ UNCHANGED <<pc, current, doubt>>
        /\ \A h \in Goals : h # g => owed'[h] = owed[h] /\ status'[h] = status[h]
        /\ owed'[g] = owed[g] - 1 /\ owed[g] > 0
    BY <1>8 DEF OutcomeArrives, MovesOn, TypeOK, loopVars, historyVars
  <2>2. g \notin doubt => owed'[g] = 0 /\ (current = g => pc = "acted")
    BY <1>0, <2>1 DEF CleanInv
  <2>3. QED
    BY <2>1, <2>2 DEF CleanInv
<1>9. ASSUME NEW g \in Goals, LeaseLapses(g) PROVE CleanInv'
  <2>1. /\ UNCHANGED <<pc, current, owed>> /\ doubt \subseteq doubt'
        /\ \A h \in Goals : h # g => status'[h] = status[h]
        /\ g \in doubt' \/ (owed[g] = 0 /\ current # g)
    BY <1>0, <1>9 DEF LeaseLapses, TypeOK, loopVars
  <2>2. QED
    BY <2>1 DEF CleanInv
<1>10. ASSUME NEW u \in Updates, XnchApplies(u) PROVE CleanInv'
  <2>1. /\ UNCHANGED <<current, owed>> /\ doubt \subseteq doubt' /\ u.goal \in Goals
        /\ \A h \in Goals : h # u.goal => status'[h] = status[h]
        /\ pc' = IF Awaited(u) THEN "applied" ELSE pc
        /\ u.goal \in doubt' \/ Awaited(u)
    BY <1>10 DEF XnchApplies, TypeOK, Updates
  <2>2. CASE Awaited(u)
    <3>1. pc = "updating" /\ current = u.goal /\ pc' = "applied"
      BY <2>1, <2>2 DEF Awaited
    <3>2. QED
      BY <2>1, <3>1 DEF CleanInv
  <2>3. CASE ~Awaited(u)
    BY <2>1, <2>3 DEF CleanInv
  <2>4. QED
    BY <2>2, <2>3
<1>11. ASSUME NEW u \in Updates, UpdateLost(u) PROVE CleanInv'
  BY <1>11 DEF UpdateLost, CleanInv, loopVars, historyVars
<1>12. CASE Restart
  <2>1. /\ UNCHANGED <<status, owed>> /\ current' = Nobody /\ doubt \subseteq doubt'
        /\ pc = "acted" => current \in doubt'
    BY <1>12 DEF Restart, Stop, DoubtPass, xnchVars
  <2>2. QED
    BY <2>1, NobodyAssumption DEF CleanInv
<1>13. QED
  BY <1>1, <1>2, <1>3, <1>4, <1>5, <1>6, <1>7, <1>8, <1>9, <1>10, <1>11, <1>12
  DEF Next, Loop

-----------------------------------------------------------------------------
(* What a report of BLOCKED is worth.                                       *)

\* Updates on their way are awaited or were given up, and a goal whose BLOCKED
\* was acknowledged, or applied with its answer on the way, is blocked.
StoppedInv ==
    /\ \A u \in posted : u.goal \in late \/ Awaited(u)
    /\ \A g \in stopped \ late : status[g] \in {"BLOCKED", "COMPLETED"} /\ current # g
    /\ pc = "applied" /\ call.status = "BLOCKED" /\ current \notin late =>
           status[current] \in {"BLOCKED", "COMPLETED"}
    /\ pc \in {"updating", "applied"} => (call.status = "BLOCKED" <=> call.why \in Final)

LEMMA StoppedInit == Init => StoppedInv
  BY DEF Init, StoppedInv

\* What the handler posts is awaited, and posted with the reason it was sent for.
LEMMA HandlerPosts ==
    ASSUME HandleError
    PROVE  \E s \in {"ACTIVE", "BLOCKED"} :
              /\ posted' = posted \union {[goal |-> current, status |-> s]}
              /\ call'.status = s /\ pc' = "updating" /\ (s = "BLOCKED" <=> call'.why \in Final)
<1>1. CASE LimitReached(errors[current] + 1)
  <2>1. Post("BLOCKED", "limit")
    BY <1>1 DEF HandleError
  <2>2. QED
    BY <2>1 DEF Post, Final
<1>2. CASE ~LimitReached(errors[current] + 1)
  <2>1. Post("ACTIVE", "error")
    BY <1>2 DEF HandleError
  <2>2. QED
    BY <2>1 DEF Post, Final
<1>3. QED
  BY <1>1, <1>2

LEMMA StoppedStep == TypeOK /\ StoppedInv /\ [Next]_vars => StoppedInv'
<1> SUFFICES ASSUME TypeOK, StoppedInv, [Next]_vars PROVE StoppedInv'
  OBVIOUS
<1>1. CASE UNCHANGED vars
  BY <1>1 DEF StoppedInv, Awaited, vars, xnchVars, loopVars, historyVars
<1>2. CASE Poll \/ ReceiveClaim \/ ClaimFails \/ PassActs \/ StepExecutes \/ StepDefers
  <2>1. UNCHANGED <<status, posted, late, stopped>> /\ current' \in {current, Nobody}
    BY <1>2
    DEF Poll, ReceiveClaim, ClaimFails, PassActs, StepExecutes, StepDefers, PassReturns,
        Forget, xnchVars, historyVars
  <2>2. /\ pc' \notin {"updating", "applied"} /\ pc # "updating"
    BY <1>2
    DEF Poll, ReceiveClaim, ClaimFails, PassActs, StepExecutes, StepDefers, PassReturns,
        Forget
  <2>3. stopped \subseteq Goals
    BY DEF TypeOK
  <2>4. QED
    BY <2>1, <2>2, <2>3, NobodyAssumption DEF StoppedInv, Awaited
<1>3. ASSUME NEW s \in {"ACTIVE", "BLOCKED"},
             posted' = posted \union {[goal |-> current, status |-> s]},
             call'.status = s, pc' = "updating", s = "BLOCKED" <=> call'.why \in Final,
             UNCHANGED <<status, current, stopped>>, late \subseteq late',
             \A u \in posted : u.goal \in late'
      PROVE  StoppedInv'
  BY <1>3 DEF StoppedInv, Awaited
<1>4. CASE StepRefused \/ StepClarifies \/ StepFails
  <2>1. UNCHANGED <<status, current, stopped, late>> /\ pc # "updating"
    BY <1>4
    DEF StepRefused, PassReturns, StepClarifies, PassNeedsClarification, StepFails,
        PassRaises, DoubtPass, historyVars
  <2>2. \A u \in posted : u.goal \in late'
    BY <2>1 DEF StoppedInv, Awaited
  <2>3. \E s \in {"ACTIVE", "BLOCKED"} :
           /\ posted' = posted \union {[goal |-> current, status |-> s]}
           /\ call'.status = s /\ pc' = "updating" /\ (s = "BLOCKED" <=> call'.why \in Final)
    BY <1>4, HandlerPosts
    DEF StepRefused, PassReturns, StepClarifies, PassNeedsClarification, StepFails,
        PassRaises, DoubtPass, Post, Final
  <2>4. QED
    BY <1>3, <2>1, <2>2, <2>3
<1>5. CASE UpdateFails
  <2>1. /\ UNCHANGED <<status, stopped>> /\ late \subseteq late'
        /\ [goal |-> current, status |-> call.status] \in posted => current \in late'
    BY <1>5 DEF UpdateFails
  <2>2. \A u \in posted : u.goal \in late'
    <3> SUFFICES ASSUME NEW u \in posted, u.goal \notin late PROVE u.goal \in late'
      BY <2>1
    <3>1. u \in Updates /\ u.goal = current /\ u.status = call.status
      BY DEF StoppedInv, Awaited, TypeOK
    <3>2. u = [goal |-> current, status |-> call.status]
      BY <3>1 DEF Updates
    <3>3. QED
      BY <2>1, <3>1, <3>2
  <2>3. CASE call.why = "refused"
    <3>1. HandleError /\ UNCHANGED current
      BY <1>5, <2>3 DEF UpdateFails
    <3>2. QED
      BY <1>3, <2>1, <2>2, <3>1, HandlerPosts
  <2>4. CASE call.why # "refused"
    <3>1. UNCHANGED posted /\ pc' = "sleep" /\ current' = Nobody
      BY <1>5, <2>4 DEF UpdateFails
    <3>2. stopped \subseteq Goals
      BY DEF TypeOK
    <3>3. QED
      BY <2>1, <2>2, <3>1, <3>2, NobodyAssumption DEF StoppedInv
  <2>5. QED
    BY <2>3, <2>4
<1>6. CASE UpdateReturns
  <2>1. /\ UNCHANGED <<status, posted, late>> /\ current' = Nobody /\ pc' = "sleep"
        /\ pc = "applied" /\ stopped' \subseteq stopped \union {current}
        /\ call.why \notin Final => stopped' = stopped
    BY <1>6 DEF UpdateReturns, Forget, xnchVars
  <2>2. stopped' \subseteq Goals
    BY TypeStep DEF TypeOK
  <2>3. \A u \in posted : u.goal \in late
    BY <2>1 DEF StoppedInv, Awaited
  <2>4. QED
    BY <2>1, <2>2, <2>3, NobodyAssumption DEF StoppedInv
<1>7. ASSUME NEW g \in Goals, XnchGrants(g) PROVE StoppedInv'
  <2>1. /\ UNCHANGED <<posted, late, stopped>> /\ pc = "claiming" /\ pc' = "granted"
        /\ current' = g /\ status[g] \in {"ACTIVE", "lapsed"}
        /\ \A h \in Goals : h # g => status'[h] = status[h]
    BY <1>7 DEF XnchGrants, Claimable, TypeOK, historyVars
  <2>2. stopped \subseteq Goals
    BY DEF TypeOK
  <2>3. QED
    BY <2>1, <2>2 DEF StoppedInv, Awaited
<1>8. ASSUME NEW g \in Goals,
             LoosePassActs(g) \/ LeaseLapses(g) \/ OutcomeArrives(g) \/ OutcomeLost(g)
      PROVE  StoppedInv'
  <2>1. UNCHANGED <<posted, pc, current, call, late, stopped>>
    BY <1>8 DEF LoosePassActs, LeaseLapses, OutcomeArrives, OutcomeLost, loopVars, historyVars
  <2>2. \A h \in Goals : status[h] \in {"BLOCKED", "COMPLETED"} => status'[h] = status[h]
    BY <1>8 DEF LoosePassActs, LeaseLapses, OutcomeArrives, MovesOn, OutcomeLost, TypeOK
  <2>3. stopped \subseteq Goals /\ (pc = "applied" => current \in Goals)
    BY DEF TypeOK
  <2>4. QED
    BY <2>1, <2>2, <2>3 DEF StoppedInv, Awaited
<1>9. ASSUME NEW u \in Updates, XnchApplies(u) PROVE StoppedInv'
  <2>1. /\ u \in posted /\ posted' = posted \ {u} /\ UNCHANGED <<current, call, late, stopped>>
        /\ u.goal \in Goals /\ u.status \in {"ACTIVE", "BLOCKED"}
        /\ \A h \in Goals : h # u.goal => status'[h] = status[h]
        /\ u.status = "BLOCKED" => status'[u.goal] \in {"BLOCKED", "COMPLETED"}
        /\ pc' = IF Awaited(u) THEN "applied" ELSE pc
    BY <1>9 DEF XnchApplies, Updates, TypeOK
  <2>2. stopped \subseteq Goals /\ posted \subseteq Updates /\ (pc = "applied" => current \in Goals)
    BY DEF TypeOK
  <2>3. CASE Awaited(u)
    <3>1. pc = "updating" /\ current = u.goal /\ call.status = u.status /\ pc' = "applied"
      BY <2>1, <2>3 DEF Awaited
    <3>2. \A v \in posted' : v.goal \in late
      <4> SUFFICES ASSUME NEW v \in posted', v.goal \notin late PROVE FALSE
        OBVIOUS
      <4>1. v \in posted /\ v # u /\ v \in Updates
        BY <2>1, <2>2
      <4>2. v.goal = u.goal /\ v.status = u.status
        BY <3>1, <4>1 DEF StoppedInv, Awaited
      <4>3. QED
        BY <4>1, <4>2 DEF Updates
    <3>3. \A g \in stopped \ late : g # u.goal
      BY <3>1 DEF StoppedInv
    <3>4. QED
      BY <2>1, <2>2, <3>1, <3>2, <3>3 DEF StoppedInv
  <2>4. CASE ~Awaited(u)
    <3>1. u.goal \in late /\ pc' = pc
      BY <2>1, <2>4 DEF StoppedInv
    <3>2. \A v \in posted' : v.goal \in late \/ Awaited(v)'
      BY <2>1, <3>1 DEF StoppedInv, Awaited
    <3>3. QED
      BY <2>1, <2>2, <3>1, <3>2 DEF StoppedInv
  <2>5. QED
    BY <2>3, <2>4
<1>10. ASSUME NEW u \in Updates, UpdateLost(u) PROVE StoppedInv'
  BY <1>10 DEF UpdateLost, StoppedInv, Awaited, loopVars, historyVars
<1>11. CASE Restart
  <2>1. /\ UNCHANGED <<status, posted, stopped>> /\ current' = Nobody /\ pc' = "sleep"
        /\ late \subseteq late' /\ (pc = "updating" => current \in late')
    BY <1>11 DEF Restart, Stop, DoubtPass, xnchVars
  <2>2. stopped \subseteq Goals
    BY DEF TypeOK
  <2>3. \A u \in posted : u.goal \in late'
    BY <2>1 DEF StoppedInv, Awaited
  <2>4. QED
    BY <2>1, <2>2, <2>3, NobodyAssumption DEF StoppedInv
<1>12. QED
  BY <1>1, <1>2, <1>4, <1>5, <1>6, <1>7, <1>8, <1>9, <1>10, <1>11 DEF Next, Loop

-----------------------------------------------------------------------------
(* How often a goal is handed back.                                         *)

\* Each error on record stands for one time the goal was handed back; a restart
\* forgets Limit - 1 of them at most.
RetryInv ==
    \A g \in Goals : again[g] <= errors[g] + (Limit - 1) * crashes

LEMMA RetryInit == Init => RetryInv
<1> SUFFICES ASSUME Init, NEW g \in Goals
             PROVE  again[g] <= errors[g] + (Limit - 1) * crashes
  BY DEF RetryInv
<1>1. again[g] = 0 /\ errors[g] = 0 /\ (Limit - 1) * crashes = 0
  BY Numbers DEF Init
<1>2. QED
  BY <1>1

\* What the allowance of the restarts is, as far as the proof needs it.
LEMMA Allowance ==
    ASSUME NEW n \in Nat
    PROVE  /\ (Limit - 1) * n \in Nat
           /\ (Limit - 1) * (n + 1) = (Limit - 1) * n + (Limit - 1)
<1> DEFINE m == Limit - 1
<1>1. m \in Nat
  BY Numbers
<1> HIDE DEF m
<1>2. m * n \in Nat /\ m * (n + 1) = m * n + m
  BY <1>1
<1>3. QED
  BY <1>2 DEF m

LEMMA RetryStep == TypeOK /\ RetryInv /\ [Next]_vars => RetryInv'
<1> SUFFICES ASSUME TypeOK, RetryInv, [Next]_vars, NEW g \in Goals
             PROVE  again'[g] <= errors'[g] + (Limit - 1) * crashes'
  BY DEF RetryInv
<1> DEFINE spent == (Limit - 1) * crashes
<1>0. /\ again[g] \in Nat /\ errors[g] \in 0..(Limit - 1) /\ spent \in Nat
      /\ again[g] <= errors[g] + spent
  BY Numbers, Allowance DEF TypeOK, RetryInv
<1>1. ASSUME crashes' = crashes, again'[g] = again[g], errors'[g] = errors[g]
      PROVE  again'[g] <= errors'[g] + (Limit - 1) * crashes'
  BY <1>0, <1>1
<1>2. ASSUME crashes' = crashes, again'[g] = 0, errors'[g] = 0
      PROVE  again'[g] <= errors'[g] + (Limit - 1) * crashes'
  <2>1. (Limit - 1) * crashes' = spent
    BY <1>2
  <2>2. QED
    BY <1>0, <1>2, <2>1
<1>3. ASSUME HandleError, crashes' = crashes
      PROVE  again'[g] <= errors'[g] + (Limit - 1) * crashes'
  <2>1. CASE current # g
    <3>1. again'[g] = again[g] /\ errors'[g] = errors[g]
      BY <1>3, <2>1 DEF HandleError, TypeOK
    <3>2. QED
      BY <1>1, <1>3, <3>1
  <2>2. CASE current = g /\ LimitReached(errors[current] + 1)
    <3>1. again'[g] = 0 /\ errors'[g] = 0
      BY <1>3, <2>2 DEF HandleError, TypeOK
    <3>2. QED
      BY <1>2, <1>3, <3>1
  <2>3. CASE current = g /\ ~LimitReached(errors[current] + 1)
    <3>1. /\ again'[g] = IF again[g] = AgainCap THEN again[g] ELSE again[g] + 1
          /\ errors'[g] = errors[g] + 1
      BY <1>3, <2>3 DEF HandleError, TypeOK
    <3>2. (Limit - 1) * crashes' = spent
      BY <1>3
    <3> HIDE DEF spent
    <3>3. QED
      BY <1>0, <3>1, <3>2
  <2>4. QED
    BY <2>1, <2>2, <2>3
<1>4. ASSUME UNCHANGED <<errors, again, crashes>>
      PROVE  again'[g] <= errors'[g] + (Limit - 1) * crashes'
  BY <1>1, <1>4
<1>5. ASSUME errors' = [errors EXCEPT ![current] = 0], again' = [again EXCEPT ![current] = 0],
             crashes' = crashes
      PROVE  again'[g] <= errors'[g] + (Limit - 1) * crashes'
  <2>1. CASE current = g
    <3>1. again'[g] = 0 /\ errors'[g] = 0
      BY <1>5, <2>1 DEF TypeOK
    <3>2. QED
      BY <1>2, <1>5, <3>1
  <2>2. CASE current # g
    <3>1. again'[g] = again[g] /\ errors'[g] = errors[g]
      BY <1>5, <2>2 DEF TypeOK
    <3>2. QED
      BY <1>1, <1>5, <3>1
  <2>3. QED
    BY <2>1, <2>2
<1>6. CASE Restart
  <2>1. /\ again'[g] = again[g] /\ errors'[g] = 0 /\ crashes' = crashes + 1
        /\ crashes \in Nat
    BY <1>6, Numbers DEF Restart, Stop, DoubtPass, TypeOK
  <2>2. (Limit - 1) * crashes' = spent + (Limit - 1)
    BY <2>1, Allowance
  <2> HIDE DEF spent
  <2>3. QED
    BY <1>0, <2>1, <2>2, Numbers
<1>7. CASE StepExecutes \/ StepDefers \/ StepClarifies
  BY <1>5, <1>7
  DEF StepExecutes, StepDefers, PassReturns, StepClarifies, PassNeedsClarification, Forget
<1>8. CASE StepFails
  BY <1>3, <1>8 DEF StepFails, PassRaises, DoubtPass
<1>9. CASE UpdateFails
  BY <1>3, <1>4, <1>9 DEF UpdateFails
<1>10. CASE UpdateReturns
  BY <1>4, <1>5, <1>10 DEF UpdateReturns, Forget
<1>11. CASE \/ UNCHANGED vars \/ Poll \/ ReceiveClaim \/ ClaimFails \/ PassActs \/ StepRefused
  BY <1>4, <1>11
  DEF vars, Poll, ReceiveClaim, ClaimFails, PassActs, StepRefused, PassReturns, historyVars
<1>12. ASSUME NEW h \in Goals,
              \/ XnchGrants(h) \/ LoosePassActs(h) \/ LeaseLapses(h)
              \/ OutcomeArrives(h) \/ OutcomeLost(h)
       PROVE  again'[g] <= errors'[g] + (Limit - 1) * crashes'
  BY <1>4, <1>12
  DEF XnchGrants, LoosePassActs, LeaseLapses, OutcomeArrives, OutcomeLost, historyVars
<1>13. ASSUME NEW u \in Updates, XnchApplies(u) \/ UpdateLost(u)
       PROVE  again'[g] <= errors'[g] + (Limit - 1) * crashes'
  BY <1>4, <1>13 DEF XnchApplies, UpdateLost, historyVars
<1>14. QED
  BY <1>6, <1>7, <1>8, <1>9, <1>10, <1>11, <1>12, <1>13 DEF Next, Loop

-----------------------------------------------------------------------------
(* The theorems.                                                            *)

\* Without a lost answer, a restart, a lapsed lease or a late update no goal has
\* two executions in progress, however many goals the loop drives.
THEOREM NoOverlapAlways == Spec => []NoOverlap
<1>1. TypeOK /\ CleanInv => NoOverlap
  <2> SUFFICES ASSUME TypeOK, CleanInv, NEW g \in Goals, owed[g] > 1, g \notin doubt
               PROVE  FALSE
    BY DEF NoOverlap
  <2>1. owed[g] \in Nat /\ owed[g] <= 1
    BY Numbers DEF TypeOK, CleanInv
  <2>2. QED
    BY <2>1
<1>2. QED
  BY <1>1, TypeInit, TypeStep, CleanInit, CleanStep, PTL DEF Spec

\* A goal whose BLOCKED was acknowledged is not revived but by an older update.
THEOREM StoppedStaysBlockedAlways == Spec => []StoppedStaysBlocked
<1>1. TypeOK /\ StoppedInv => StoppedStaysBlocked
  BY DEF TypeOK, StoppedInv, StoppedStaysBlocked
<1>2. QED
  BY <1>1, TypeInit, TypeStep, StoppedInit, StoppedStep, PTL DEF Spec

\* The loop hands a goal back at most Limit - 1 times in one life of the process
\* between two steps without error, for every limit.
THEOREM RetriesBoundedAlways == Spec => []RetriesBounded
<1>1. TypeOK /\ RetryInv => RetriesBounded
  <2> SUFFICES ASSUME TypeOK, RetryInv, NEW g \in Goals
               PROVE  again[g] <= (Limit - 1) * (crashes + 1)
    BY DEF RetriesBounded
  <2> DEFINE spent == (Limit - 1) * crashes
  <2>1. /\ again[g] \in Nat /\ errors[g] \in 0..(Limit - 1) /\ spent \in Nat
        /\ again[g] <= errors[g] + spent
        /\ (Limit - 1) * (crashes + 1) = spent + (Limit - 1)
    BY Numbers, Allowance DEF TypeOK, RetryInv
  <2> HIDE DEF spent
  <2>2. QED
    BY <2>1, Numbers
<1>2. QED
  BY <1>1, TypeInit, TypeStep, RetryInit, RetryStep, PTL DEF Spec

-----------------------------------------------------------------------------
(* The driver over its passes: types and frames.                            *)

\* Only what a pass did can be heard of.
PassTypes ==
    /\ Contract!TypeOK
    /\ owner \in [Passes -> Goals \union {Nobody}]
    /\ heard \subseteq {p \in Passes : Acted(p)}

Joint == TypeOK /\ PassTypes /\ PassesInv

\* What a step of one pass leaves of the others.
LEMMA ActsFrame ==
    ASSUME PassTypes, NEW p \in Passes, NEW ref \in Refs,
           Contract!Run(p, ref) \/ Contract!Stub(p, ref)
    PROVE  /\ Acted(p)' /\ ~Acted(p)
           /\ \A q \in Passes \ {p} : Acted(q)' <=> Acted(q)
           /\ answer' = answer /\ authorised' = authorised
           /\ answer[p] \in {"none", "executing", "unknown"}
           /\ effect' \in [Passes -> SUBSET Contract!Effects]
<1>1. PICK e \in Contract!Effects :
         /\ effect' = [effect EXCEPT ![p] = {e}] /\ effect[p] = {}
         /\ answer' = answer /\ authorised' = authorised /\ answer[p] # "refused"
  <2>1. <<"run", ref>> \in Contract!Effects /\ <<"stub", ref>> \in Contract!Effects
    BY DEF Contract!Effects
  <2>2. CASE Contract!Run(p, ref)
    BY <2>1, <2>2 DEF Contract!Run
  <2>3. CASE Contract!Stub(p, ref)
    BY <2>1, <2>3 DEF Contract!Stub
  <2>4. QED
    BY <2>2, <2>3
<1>2. effect \in [Passes -> SUBSET Contract!Effects] /\ answer[p] \in Contract!Answers
  BY DEF PassTypes, Contract!TypeOK
<1>3. QED
  BY <1>1, <1>2 DEF Acted, Contract!Answers

LEMMA AnswerFrame ==
    ASSUME PassTypes, NEW p \in Passes, NEW a \in {"executing", "refused", "unknown"},
           Contract!Answer(p, a)
    PROVE  /\ answer'[p] = a /\ answer[p] = "none"
           /\ \A q \in Passes \ {p} : answer'[q] = answer[q]
           /\ effect' = effect /\ authorised' = authorised
           /\ \A q \in Passes : Acted(q)' <=> Acted(q)
           /\ answer' \in [Passes -> Contract!Answers]
           /\ a = "refused" => ~Acted(p)
  BY DEF PassTypes, Contract!TypeOK, Contract!Answer, Contract!Answers, Acted

\* A pass that is open is the one the loop waits for.
LEMMA OpenIsCurrent ==
    ASSUME Joint, NEW p \in Passes, Open(p)
    PROVE  /\ owner[p] = current /\ current \in Goals
           /\ pc = IF Acted(p) THEN "acted" ELSE "stepping"
           /\ \A q \in Passes \ {p} : ~Open(q)
  BY DEF Joint, PassesInv, Open

LEMMA TypesInit == PassesInit => PassTypes
  BY DEF PassesInit, PassTypes, Contract!Init, Contract!TypeOK, Contract!Answers

LEMMA TypesStep ==
    Joint /\ [PassesNext]_<<vars, passVars>> => PassTypes'
<1> SUFFICES ASSUME Joint, [PassesNext]_<<vars, passVars>> PROVE PassTypes'
  OBVIOUS
<1>0. PassTypes
  BY DEF Joint
<1>1. ASSUME UNCHANGED passVars PROVE PassTypes'
  BY <1>0, <1>1 DEF PassTypes, Contract!TypeOK, Acted, passVars, contractVars
<1>2. ASSUME NEW p \in Passes, Starts(p) PROVE PassTypes'
  <2>1. current \in Goals /\ owner' = [owner EXCEPT ![p] = current]
        /\ UNCHANGED <<authorised, effect, answer, heard>>
    BY <1>2 DEF Starts, ReceiveClaim, Joint, TypeOK, contractVars
  <2>2. QED
    BY <1>0, <2>1 DEF PassTypes, Contract!TypeOK, Acted
<1>3. ASSUME NEW p \in Passes, XnchAuthorises(p) PROVE PassTypes'
  BY <1>0, <1>3 DEF PassTypes, Contract!TypeOK, Acted, XnchAuthorises, Contract!Authorise
<1>4. ASSUME UNCHANGED <<owner, heard>>, NEW p \in Passes,
             NEW a \in {"executing", "refused", "unknown"}, Contract!Answer(p, a)
      PROVE  PassTypes'
  BY <1>0, <1>4, AnswerFrame DEF PassTypes, Contract!TypeOK
<1>5. ASSUME NEW p \in Passes, Ends(p) PROVE PassTypes'
  BY <1>4, <1>5 DEF Ends
<1>6. ASSUME NEW p \in Passes, NEW ref \in Refs, Acts(p, ref) PROVE PassTypes'
  BY <1>0, <1>6, ActsFrame DEF PassTypes, Contract!TypeOK, Acts
<1>7. ASSUME NEW p \in Passes, Hears(p) PROVE PassTypes'
  BY <1>0, <1>7 DEF PassTypes, Contract!TypeOK, Acted, Hears, UnderWay, contractVars
<1>8. CASE Stops
  <2>1. CASE UNCHANGED contractVars
    BY <1>1, <1>8, <2>1 DEF Stops, passVars
  <2>2. QED
    BY <1>4, <1>8, <2>1 DEF Stops
<1>9. QED
  BY <1>1, <1>2, <1>3, <1>5, <1>6, <1>7, <1>8 DEF PassesNext, Aside

-----------------------------------------------------------------------------
(* What the passes of a goal have under way, counted.                       *)

LEMMA UnderWayFinite ==
    ASSUME IsFiniteSet(Passes), NEW g
    PROVE  IsFiniteSet(UnderWay(g)) /\ Cardinality(UnderWay(g)) \in Nat
<1>1. UnderWay(g) \in SUBSET Passes
  BY DEF UnderWay
<1>2. QED
  BY <1>1, FS_Subset, FS_CardinalityType

LEMMA OwedUnchanged ==
    ASSUME UNCHANGED <<owner, heard>>, \A q \in Passes : Acted(q)' <=> Acted(q)
    PROVE  Owed' = Owed
<1>1. \A g \in Goals : UnderWay(g)' = UnderWay(g)
  BY DEF UnderWay
<1>2. QED
  BY <1>1 DEF Owed

LEMMA LooseUnchanged ==
    ASSUME UNCHANGED owner, \A q \in Passes : LeftOver(q)' <=> LeftOver(q)
    PROVE  Loose' = Loose
  BY DEF Loose

\* One pass more, or one less, that xnch waits for.
LEMMA OneMore ==
    ASSUME IsFiniteSet(Passes), NEW p \in Passes, owner[p] \in Goals, p \notin heard,
           UNCHANGED <<owner, heard>>, Acted(p)', ~Acted(p),
           \A q \in Passes \ {p} : Acted(q)' <=> Acted(q)
    PROVE  Owed' = [Owed EXCEPT ![owner[p]] = @ + 1]
<1>1. \A g \in Goals : UnderWay(g)' = IF g = owner[p] THEN UnderWay(g) \union {p}
                                                      ELSE UnderWay(g)
  BY DEF UnderWay
<1>2. p \notin UnderWay(owner[p])
  BY DEF UnderWay
<1>3. Cardinality(UnderWay(owner[p]) \union {p}) = Cardinality(UnderWay(owner[p])) + 1
  BY <1>2, UnderWayFinite, FS_AddElement
<1>4. QED
  BY <1>1, <1>3 DEF Owed

LEMMA OneLess ==
    ASSUME IsFiniteSet(Passes), NEW p \in Passes, owner[p] \in Goals, p \in UnderWay(owner[p]),
           UNCHANGED owner, heard' = heard \union {p},
           \A q \in Passes : Acted(q)' <=> Acted(q)
    PROVE  Owed' = [Owed EXCEPT ![owner[p]] = @ - 1] /\ Owed[owner[p]] > 0
<1>1. \A g \in Goals : UnderWay(g)' = IF g = owner[p] THEN UnderWay(g) \ {p} ELSE UnderWay(g)
  BY DEF UnderWay
<1>2. Cardinality(UnderWay(owner[p]) \ {p}) = Cardinality(UnderWay(owner[p])) - 1
  BY UnderWayFinite, FS_RemoveElement
<1>3. Cardinality(UnderWay(owner[p])) > 0
  <2>1. Cardinality(UnderWay(owner[p])) # 0 /\ Cardinality(UnderWay(owner[p])) \in Nat
    BY UnderWayFinite, FS_EmptySet
  <2>2. QED
    BY <2>1
<1>4. Owed[owner[p]] > 0
  BY <1>3 DEF Owed
<1>5. Owed' = [Owed EXCEPT ![owner[p]] = @ - 1]
  BY <1>1, <1>2 DEF Owed
<1>6. QED
  BY <1>4, <1>5

\* What an invariant of owed says of the passes.
LEMMA OwedIsUnderWay ==
    ASSUME IsFiniteSet(Passes), Joint, NEW g \in Goals
    PROVE  /\ owed[g] = 0 => UnderWay(g) = {}
           /\ owed[g] <= 1 => \A p, q \in UnderWay(g) : p = q
           /\ owed[g] \in Nat
<1>1. owed[g] = Cardinality(UnderWay(g)) /\ owed[g] \in Nat
  BY UnderWayFinite DEF Joint, PassesInv, Owed
<1>2. owed[g] = 0 => UnderWay(g) = {}
  BY <1>1, UnderWayFinite, FS_EmptySet
<1>3. owed[g] = 1 => \E x : UnderWay(g) = {x}
  BY <1>1, UnderWayFinite, FS_Singleton
<1>4. owed[g] <= 1 => owed[g] \in {0, 1}
  BY <1>1
<1>5. QED
  BY <1>1, <1>2, <1>3, <1>4

-----------------------------------------------------------------------------
(* Every joint step is a step of GoalDriver.                                *)

LEMMA PassesInvInit == PassesInit => PassesInv
<1> SUFFICES ASSUME PassesInit PROVE PassesInv
  OBVIOUS
<1>1. \A p \in Passes : owner[p] = Nobody /\ answer[p] = "none" /\ effect[p] = {}
  BY DEF PassesInit, Contract!Init
<1>2. Loose = {} /\ \A g \in Goals : UnderWay(g) = {}
  BY <1>1 DEF Loose, LeftOver, UnderWay, Acted
<1>3. Owed = [g \in Goals |-> 0]
  BY <1>2, FS_EmptySet DEF Owed
<1>4. QED
  BY <1>1, <1>2, <1>3 DEF PassesInit, Init, PassesInv, Begun, Open

LEMMA StartsStep ==
    ASSUME Joint, NEW p \in Passes, Starts(p)
    PROVE  ReceiveClaim /\ PassesInv'
<1>1. /\ ReceiveClaim /\ pc = "granted" /\ pc' = "stepping" /\ current' = current
      /\ UNCHANGED <<owed, loose>> /\ current \in Goals
      /\ owner' = [owner EXCEPT ![p] = current] /\ ~Begun(p)
      /\ UNCHANGED <<authorised, effect, answer, heard>>
  BY DEF Starts, ReceiveClaim, Joint, TypeOK, contractVars, xnchVars
<1>2. /\ answer[p] = "none" /\ effect[p] = {}
      /\ \A q \in Passes : ~Open(q)
  BY <1>1 DEF Joint, PassesInv
<1>3. /\ owner'[p] = current
      /\ \A q \in Passes \ {p} : owner'[q] = owner[q]
      /\ \A q \in Passes : Acted(q)' <=> Acted(q)
  BY <1>1 DEF Joint, PassTypes, Acted
<1>4. \A q \in Passes : Open(q)' <=> q = p
  BY <1>1, <1>2, <1>3, NobodyAssumption DEF Open, Begun
<1>5. /\ \A q \in Passes : LeftOver(q)' <=> LeftOver(q)
      /\ ~LeftOver(p) /\ ~Acted(p)
  BY <1>1, <1>2, <1>3 DEF LeftOver, Acted
<1>6. Loose' = Loose
  BY <1>3, <1>5 DEF Loose
<1>7. Owed' = Owed
  <2>1. \A g \in Goals : UnderWay(g)' = UnderWay(g)
    BY <1>1, <1>3, <1>5 DEF UnderWay
  <2>2. QED
    BY <2>1 DEF Owed
<1>8. QED
  BY <1>1, <1>2, <1>3, <1>4, <1>5, <1>6, <1>7, NobodyAssumption DEF Joint, PassesInv, Begun

LEMMA AuthorisesStep ==
    ASSUME Joint, NEW p \in Passes, XnchAuthorises(p)
    PROVE  UNCHANGED vars /\ PassesInv'
<1>1. UNCHANGED <<pc, current, owed, loose, owner, heard, answer, effect, vars>>
  BY DEF XnchAuthorises, Contract!Authorise, vars, xnchVars, loopVars
<1>2. \A q \in Passes : /\ Open(q)' <=> Open(q)
                        /\ Begun(q)' <=> Begun(q)
                        /\ Acted(q)' <=> Acted(q)
                        /\ LeftOver(q)' <=> LeftOver(q)
  BY <1>1 DEF Open, Begun, Acted, LeftOver
<1>3. Loose' = Loose /\ Owed' = Owed
  BY <1>1, <1>2, LooseUnchanged, OwedUnchanged
<1>4. QED
  BY <1>1, <1>2, <1>3 DEF Joint, PassesInv

LEMMA ActsStep ==
    ASSUME IsFiniteSet(Passes), Joint, NEW p \in Passes, NEW ref \in Refs, Acts(p, ref)
    PROVE  /\ PassActs \/ \E g \in Goals : LoosePassActs(g)
           /\ PassesInv'
<1>1. /\ Begun(p) /\ owner[p] \in Goals /\ UNCHANGED <<owner, heard, answer>>
      /\ Acted(p)' /\ ~Acted(p) /\ answer[p] \in {"none", "executing", "unknown"}
      /\ \A q \in Passes \ {p} : Acted(q)' <=> Acted(q)
      /\ owed[owner[p]] < MaxOwed
      /\ owed' = Owed' /\ loose' = Loose' /\ owed = Owed /\ loose = Loose
      /\ UNCHANGED <<status, posted, current, call, errors, crashes, late, stopped, over, again>>
  BY ActsFrame DEF Acts, AsThePassesSay, Joint, PassesInv
<1>2. \A q \in Passes : Open(q)' <=> Open(q)
  BY <1>1 DEF Open, Begun
<1>3. owed' = [owed EXCEPT ![owner[p]] = @ + 1]
  <2>1. p \notin heard
    BY <1>1 DEF Joint, PassTypes
  <2>2. QED
    BY <1>1, <2>1, OneMore
<1>4. CASE Open(p)
  <2>1. /\ owner[p] = current /\ pc = "stepping" /\ pc' = "acted" /\ UNCHANGED doubt
        /\ \A q \in Passes \ {p} : ~Open(q)
    BY <1>1, <1>4, OpenIsCurrent DEF Acts
  <2>2. \A q \in Passes : LeftOver(q)' <=> LeftOver(q)
    BY <1>1, <1>4 DEF LeftOver, Open
  <2>3. loose' = loose
    BY <1>1, <2>2, LooseUnchanged
  <2>4. PassActs
    BY <1>1, <1>3, <2>1, <2>3 DEF PassActs, historyVars
  <2>5. PassesInv'
    BY <1>1, <1>2, <1>4, <2>1 DEF Joint, PassesInv, Begun, Acted
  <2>6. QED
    BY <2>4, <2>5
<1>5. CASE ~Open(p)
  <2>1. pc' = pc /\ doubt' = doubt \union {owner[p]}
    BY <1>5 DEF Acts
  <2>2. LeftOver(p) /\ ~LeftOver(p)'
    BY <1>1, <1>5 DEF Open, LeftOver
  <2>3. \A q \in Passes \ {p} : LeftOver(q)' <=> LeftOver(q)
    BY <1>1 DEF LeftOver
  <2>4. owner[p] \in Loose /\ Loose' \in {Loose, Loose \ {owner[p]}}
    BY <1>1, <2>2, <2>3 DEF Loose
  <2>5. LoosePassActs(owner[p])
    BY <1>1, <1>3, <2>1, <2>4 DEF LoosePassActs, loopVars
  <2>6. PassesInv'
    BY <1>1, <1>2, <1>5, <2>1 DEF Joint, PassesInv, Begun, Acted
  <2>7. QED
    BY <1>1, <2>5, <2>6
<1>6. QED
  BY <1>4, <1>5

LEMMA EndsStep ==
    ASSUME Joint, NEW p \in Passes, Ends(p)
    PROVE  /\ StepExecutes \/ StepDefers \/ StepRefused \/ StepClarifies \/ StepFails
           /\ PassesInv'
<1>1. PICK a \in {"executing", "refused", "unknown"} :
         /\ Contract!Answer(p, a)
         /\ \/ a = "executing" /\ PassReturns("EXECUTING")
            \/ /\ a = "refused"
               /\ PassReturns("ESCALATED") \/ PassNeedsClarification \/ PassRaises
            \/ a = "unknown" /\ PassRaises
  BY DEF Ends
<1>2. /\ answer'[p] = a /\ answer[p] = "none" /\ effect' = effect
      /\ \A q \in Passes \ {p} : answer'[q] = answer[q]
      /\ \A q \in Passes : Acted(q)' <=> Acted(q)
      /\ a = "refused" => ~Acted(p)
  BY <1>1, AnswerFrame DEF Joint
<1>3. /\ Open(p) /\ UNCHANGED <<owner, heard>>
      /\ owed' = Owed' /\ loose' = Loose' /\ owed = Owed /\ loose = Loose
  BY DEF Ends, AsThePassesSay, Joint, PassesInv
<1>4. /\ owner[p] = current /\ pc = IF Acted(p) THEN "acted" ELSE "stepping"
      /\ \A q \in Passes \ {p} : ~Open(q)
  BY <1>3, OpenIsCurrent
<1>5. pc' \in {"sleep", "updating"}
  BY <1>1 DEF PassReturns, PassNeedsClarification, PassRaises, HandleError, Forget, Post
<1>6. \A q \in Passes : ~Open(q)' /\ (Begun(q)' <=> Begun(q))
  BY <1>2, <1>3, <1>4 DEF Open, Begun
<1>7. /\ \A q \in Passes \ {p} : LeftOver(q)' <=> LeftOver(q)
      /\ ~LeftOver(p) /\ (LeftOver(p)' <=> a # "refused" /\ ~Acted(p))
  BY <1>2 DEF LeftOver
<1>8. loose' = IF a # "refused" /\ ~Acted(p) THEN loose \union {current} ELSE loose
  BY <1>3, <1>4, <1>7 DEF Loose
<1>9. owed' = owed
  BY <1>2, <1>3, OwedUnchanged
<1>10. PassesInv'
  BY <1>2, <1>3, <1>5, <1>6 DEF Joint, PassesInv, Open, Begun
<1>11. CASE a = "executing"
  BY <1>1, <1>4, <1>8, <1>9, <1>10, <1>11 DEF StepExecutes, StepDefers
<1>12. CASE a = "refused"
  <2>1. pc = "stepping" /\ UNCHANGED <<owed, loose>>
    BY <1>2, <1>4, <1>8, <1>9, <1>12
  <2>2. QED
    BY <1>1, <1>10, <1>12, <2>1 DEF StepRefused, StepClarifies, StepFails
<1>13. CASE a = "unknown"
  <2>1. PassRaises
    BY <1>1, <1>13
  <2>2. QED
    BY <1>4, <1>8, <1>9, <1>10, <1>13, <2>1 DEF StepFails
<1>14. QED
  BY <1>11, <1>12, <1>13

LEMMA HearsStep ==
    ASSUME IsFiniteSet(Passes), Joint, NEW p \in Passes, Hears(p)
    PROVE  /\ \E g \in Goals : OutcomeArrives(g) \/ OutcomeLost(g)
           /\ PassesInv'
<1>1. /\ owner[p] \in Goals /\ p \in UnderWay(owner[p]) /\ heard' = heard \union {p}
      /\ UNCHANGED <<authorised, effect, answer, owner>>
      /\ owed' = Owed' /\ loose' = Loose' /\ owed = Owed /\ loose = Loose
  BY DEF Hears, AsThePassesSay, Joint, PassesInv, contractVars
<1>2. \A q \in Passes : /\ Open(q)' <=> Open(q)
                        /\ Begun(q)' <=> Begun(q)
                        /\ Acted(q)' <=> Acted(q)
                        /\ LeftOver(q)' <=> LeftOver(q)
  BY <1>1 DEF Open, Begun, Acted, LeftOver
<1>3. loose' = loose
  BY <1>1, <1>2, LooseUnchanged
<1>4. owed' = [owed EXCEPT ![owner[p]] = @ - 1] /\ owed[owner[p]] > 0
  BY <1>1, <1>2, OneLess
<1>5. OutcomeArrives(owner[p]) \/ OutcomeLost(owner[p])
  BY <1>3, <1>4 DEF Hears, OutcomeArrives, OutcomeLost
<1>6. PassesInv'
  <2>1. UNCHANGED <<pc, current>>
    BY DEF Hears, loopVars
  <2>2. QED
    BY <1>1, <1>2, <2>1 DEF Joint, PassesInv
<1>7. QED
  BY <1>1, <1>5, <1>6

LEMMA StopsStep ==
    ASSUME Joint, Stops
    PROVE  Restart /\ PassesInv'
<1>1. /\ Stop /\ pc' = "sleep" /\ UNCHANGED <<owner, heard>>
      /\ owed' = Owed' /\ loose' = Loose' /\ owed = Owed /\ loose = Loose
  BY DEF Stops, Stop, AsThePassesSay, Joint, PassesInv
<1>2. CASE \E p \in Passes : Open(p) /\ Contract!Answer(p, "unknown")
  <2>1. PICK p \in Passes : Open(p) /\ Contract!Answer(p, "unknown")
    BY <1>2
  <2>2. /\ answer'[p] = "unknown" /\ answer[p] = "none" /\ effect' = effect
        /\ \A q \in Passes \ {p} : answer'[q] = answer[q]
        /\ \A q \in Passes : Acted(q)' <=> Acted(q)
    BY <2>1, AnswerFrame DEF Joint
  <2>3. /\ owner[p] = current /\ pc = IF Acted(p) THEN "acted" ELSE "stepping"
        /\ \A q \in Passes \ {p} : ~Open(q)
    BY <2>1, OpenIsCurrent
  <2>4. \A q \in Passes : ~Open(q)' /\ (Begun(q)' <=> Begun(q))
    BY <1>1, <2>2, <2>3 DEF Open, Begun
  <2>5. /\ \A q \in Passes \ {p} : LeftOver(q)' <=> LeftOver(q)
        /\ ~LeftOver(p) /\ (LeftOver(p)' <=> ~Acted(p))
    BY <2>2 DEF LeftOver
  <2>6. loose' = IF pc = "stepping" THEN loose \union {current} ELSE loose
    BY <1>1, <2>3, <2>5 DEF Loose
  <2>7. owed' = owed
    BY <1>1, <2>2, OwedUnchanged
  <2>8. PassesInv'
    BY <1>1, <2>1, <2>2, <2>4 DEF Joint, PassesInv, Open, Begun
  <2>9. QED
    BY <1>1, <2>6, <2>7, <2>8 DEF Restart
<1>3. CASE (\A p \in Passes : ~Open(p)) /\ UNCHANGED contractVars
  <2>1. \A q \in Passes : /\ ~Open(q)' /\ (Begun(q)' <=> Begun(q))
                          /\ Acted(q)' <=> Acted(q)
                          /\ LeftOver(q)' <=> LeftOver(q)
    BY <1>1, <1>3 DEF Open, Begun, LeftOver, Acted, contractVars
  <2>2. UNCHANGED <<owed, loose>>
    BY <1>1, <2>1, LooseUnchanged, OwedUnchanged
  <2>3. pc # "stepping"
    BY <1>3 DEF Joint, PassesInv
  <2>4. PassesInv'
    BY <1>1, <1>3, <2>1 DEF Joint, PassesInv, Begun, contractVars
  <2>5. QED
    BY <1>1, <2>2, <2>3, <2>4 DEF Restart
<1>4. QED
  BY <1>2, <1>3 DEF Stops

LEMMA AsideStep ==
    ASSUME Joint, Aside
    PROVE  Next /\ PassesInv'
<1>1. Next /\ UNCHANGED <<authorised, effect, answer, owner, heard>>
  BY DEF Aside, Next, Loop, passVars, contractVars
<1>2. /\ \/ UNCHANGED <<pc, current>>
         \/ {pc, pc'} \intersect {"stepping", "acted"} = {}
      /\ UNCHANGED <<owed, loose>>
  BY DEF Aside, Poll, ClaimFails, UpdateReturns, UpdateFails, XnchGrants, LeaseLapses,
         XnchApplies, UpdateLost, Awaited, HandleError, Forget, Post, xnchVars, loopVars
<1>3. \A q \in Passes : /\ Open(q)' <=> Open(q)
                        /\ Begun(q)' <=> Begun(q)
                        /\ Acted(q)' <=> Acted(q)
                        /\ LeftOver(q)' <=> LeftOver(q)
  BY <1>1 DEF Open, Begun, Acted, LeftOver
<1>4. Loose' = Loose /\ Owed' = Owed
  BY <1>1, <1>3, LooseUnchanged, OwedUnchanged
<1>5. QED
  BY <1>1, <1>2, <1>3, <1>4 DEF Joint, PassesInv

LEMMA JointStep ==
    ASSUME IsFiniteSet(Passes)
    PROVE  Joint /\ [PassesNext]_<<vars, passVars>> => [Next]_vars /\ Joint'
<1> SUFFICES ASSUME Joint, [PassesNext]_<<vars, passVars>> PROVE [Next]_vars /\ Joint'
  OBVIOUS
<1>1. [Next]_vars /\ PassesInv'
  <2>1. CASE UNCHANGED <<vars, passVars>>
    <3>1. /\ UNCHANGED <<vars, pc, current, owed, loose, authorised, effect, answer, owner, heard>>
      BY <2>1 DEF vars, xnchVars, loopVars, passVars, contractVars
    <3>2. \A q \in Passes : /\ Open(q)' <=> Open(q)
                            /\ Begun(q)' <=> Begun(q)
                            /\ Acted(q)' <=> Acted(q)
                            /\ LeftOver(q)' <=> LeftOver(q)
      BY <3>1 DEF Open, Begun, Acted, LeftOver
    <3>3. Loose' = Loose /\ Owed' = Owed
      BY <3>1, <3>2, LooseUnchanged, OwedUnchanged
    <3>4. QED
      BY <3>1, <3>2, <3>3 DEF Joint, PassesInv
  <2>2. ASSUME NEW p \in Passes, Starts(p) PROVE [Next]_vars /\ PassesInv'
    BY <2>2, StartsStep DEF Next, Loop
  <2>3. ASSUME NEW p \in Passes, XnchAuthorises(p) PROVE [Next]_vars /\ PassesInv'
    BY <2>3, AuthorisesStep
  <2>4. ASSUME NEW p \in Passes, Ends(p) PROVE [Next]_vars /\ PassesInv'
    BY <2>4, EndsStep DEF Next, Loop
  <2>5. ASSUME NEW p \in Passes, Hears(p) PROVE [Next]_vars /\ PassesInv'
    BY <2>5, HearsStep DEF Next
  <2>6. ASSUME NEW p \in Passes, NEW ref \in Refs, Acts(p, ref)
        PROVE  [Next]_vars /\ PassesInv'
    BY <2>6, ActsStep DEF Next, Loop
  <2>7. CASE Stops
    BY <2>7, StopsStep DEF Next
  <2>8. CASE Aside
    BY <2>8, AsideStep
  <2>9. QED
    BY <2>1, <2>2, <2>3, <2>4, <2>5, <2>6, <2>7, <2>8 DEF PassesNext
<1>2. TypeOK'
  BY <1>1, TypeStep DEF Joint
<1>3. QED
  BY <1>1, <1>2, TypesStep DEF Joint

LEMMA JointInit == PassesInit => Init /\ Joint
  BY TypeInit, TypesInit, PassesInvInit DEF PassesInit, Joint

LEMMA PassesKeepContract ==
    ASSUME [PassesNext]_<<vars, passVars>>
    PROVE  [Contract!Next]_(Contract!vars)
<1>1. ASSUME NEW p \in Passes, Starts(p) \/ XnchAuthorises(p) \/ Ends(p) \/ Hears(p)
      PROVE  Contract!Next \/ UNCHANGED Contract!vars
  <2>1. \/ UNCHANGED contractVars \/ Contract!Authorise(p)
        \/ \E a \in {"executing", "refused", "unknown"} : Contract!Answer(p, a)
    BY <1>1 DEF Starts, XnchAuthorises, Ends, Hears
  <2>2. QED
    BY <2>1 DEF Contract!Next, Contract!Answers, Contract!vars, contractVars
<1>2. ASSUME NEW p \in Passes, NEW ref \in Refs, Acts(p, ref)
      PROVE  Contract!Next
  BY <1>2 DEF Acts, Contract!Next
<1>3. CASE Stops
  <2>1. UNCHANGED contractVars \/ \E p \in Passes : Contract!Answer(p, "unknown")
    BY <1>3 DEF Stops
  <2>2. QED
    BY <2>1 DEF Contract!Next, Contract!Answers, Contract!vars, contractVars
<1>4. CASE Aside \/ UNCHANGED <<vars, passVars>>
  BY <1>4 DEF Aside, passVars, contractVars, Contract!vars
<1>5. QED
  BY <1>1, <1>2, <1>3, <1>4 DEF PassesNext

-----------------------------------------------------------------------------
(* The theorems about the driver over its passes.                           *)

\* What GoalDriver assumes of a pass follows from what EffectContract promises
\* of every pass: the executions it counts are those of the passes.
THEOREM DriverRefinement ==
    ASSUME IsFiniteSet(Passes)
    PROVE  PassesSpec => ImplementsDriver
<1>1. PassesInit => Init /\ Joint
  BY JointInit
<1>2. Joint /\ [PassesNext]_<<vars, passVars>> => [Next]_vars /\ Joint'
  BY JointStep
<1>3. QED
  BY <1>1, <1>2, PTL DEF PassesSpec, ImplementsDriver, Spec

\* The driver asks nothing of its passes that their contract does not give.
THEOREM ContractRefinement == PassesSpec => ImplementsContract
<1>1. PassesInit => Contract!Init
  BY DEF PassesInit
<1>2. QED
  BY <1>1, PassesKeepContract, PTL DEF PassesSpec, ImplementsContract, Contract!Spec

LEMMA JointAlways ==
    ASSUME IsFiniteSet(Passes)
    PROVE  PassesSpec => [](Joint /\ CleanInv)
<1>1. PassesInit => Joint /\ CleanInv
  BY JointInit, CleanInit
<1>2. Joint /\ CleanInv /\ [PassesNext]_<<vars, passVars>> => (Joint /\ CleanInv)'
  BY JointStep, CleanStep DEF Joint
<1>3. QED
  BY <1>1, <1>2, PTL DEF PassesSpec

\* Two passes of one goal are under way at the same time only after the loop lost
\* sight of one of them, or the lease of the goal ran out.
THEOREM OneUnderWayAlways ==
    ASSUME IsFiniteSet(Passes)
    PROVE  PassesSpec => []OneUnderWay
<1>1. Joint /\ CleanInv => OneUnderWay
  BY OwedIsUnderWay DEF CleanInv, OneUnderWay
<1>2. QED
  BY <1>1, JointAlways, PTL

\* A step of a goal without such a doubt begins when the execution of the step
\* before it has ended, as far as xnch hears of it.
THEOREM StartsAfterOutcomeAlways ==
    ASSUME IsFiniteSet(Passes)
    PROVE  PassesSpec => StartsAfterOutcome
<1>1. Joint /\ CleanInv =>
         \A p \in Passes : Starts(p) /\ current \notin doubt => UnderWay(current) = {}
  <2> SUFFICES ASSUME Joint, CleanInv, NEW p \in Passes, Starts(p), current \notin doubt
               PROVE  UnderWay(current) = {}
    OBVIOUS
  <2>1. pc = "granted" /\ current \in Goals
    BY DEF Starts, ReceiveClaim, Joint, TypeOK
  <2>2. owed[current] <= 1 /\ owed[current] # 1
    BY <2>1 DEF CleanInv
  <2>3. owed[current] = 0
    BY <2>1, <2>2, OwedIsUnderWay
  <2>4. QED
    BY <2>1, <2>3, OwedIsUnderWay
<1>2. QED
  BY <1>1, JointAlways, PTL DEF StartsAfterOutcome

\* What is proved of the driver alone holds of it over its passes.
THEOREM PassesKeepTheDriver ==
    ASSUME IsFiniteSet(Passes)
    PROVE  PassesSpec => [](NoOverlap /\ StoppedStaysBlocked /\ RetriesBounded)
<1>1. PassesSpec => Spec
  BY DriverRefinement DEF ImplementsDriver
<1>2. QED
  BY <1>1, NoOverlapAlways, StoppedStaysBlockedAlways, RetriesBoundedAlways, PTL
=============================================================================
