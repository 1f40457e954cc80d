------------------------- MODULE PipelinePassProofs -------------------------
(***************************************************************************)
(* Proofs about PipelinePass: type correctness, the safety invariants and  *)
(* the step simulation of EffectContract, for every set of passes and      *)
(* every number of versions.                                               *)
(***************************************************************************)
EXTENDS PipelinePass, FiniteSetTheorems, TLAPS

-----------------------------------------------------------------------------
(* The inductive invariant.                                                 *)

\* Where an effect can be: with the pass waiting for the runner's answer, or
\* with a pass that ended without a refusal; an open call excludes any effect.
EffectInv(p) ==
    /\ executed[p] # {} =>
          /\ executed[p] = {dispatches[p]}
          /\ stubbed[p] = {}
          /\ \/ pc[p] = "await_runner" /\ rcall[p] = "accepted"
             \/ pc[p] = "done" /\ result[p] \in {"EXECUTING", "RAISED", "CANCELLED"}
    /\ stubbed[p] # {} =>
          /\ stubbed[p] = {dispatches[p]}
          /\ executed[p] = {}
          /\ rcall[p] = "recorded"
    /\ rcall[p] \in {"open", "expired", "rejected", "posting"} =>
          executed[p] = {} /\ stubbed[p] = {}
    /\ rcall[p] \in {"open", "accepted", "expired", "rejected"} =>
          \/ pc[p] = "await_runner"
          \/ pc[p] = "done" /\ result[p] \in {"RAISED", "CANCELLED"}
    /\ rcall[p] \in {"posting", "recorded"} =>
          /\ executed[p] = {}
          /\ \/ pc[p] = "stub"
             \/ pc[p] = "done" /\ result[p] \in {"EXECUTING", "CANCELLED"}
    /\ pc[p] # "done" <=> result[p] = "none"

\* No payload is built before xnch has issued a token.
TokenInv(p) ==
    /\ vcall[p] \in Verdicts /\ HasToken(vcall[p]) => authorised[p]
    /\ HasToken(seen[p]) => authorised[p]
    /\ dispatches[p] > 0 => authorised[p]
    /\ rcall[p] # "closed" => dispatches[p] > 0
    /\ pc[p] = "stub" => dispatches[p] > 0
    /\ executed[p] # {} \/ stubbed[p] # {} => dispatches[p] > 0
    /\ result[p] = "EXECUTING" => dispatches[p] > 0

\* How many calls each attempt has used up.
BudgetInv(p) ==
    /\ attempt[p] = "first" =>
          /\ submits[p] <= 1
          /\ pc[p] \in {"idle", "interpret", "load_context", "policy_filter",
                        "select", "submit"} => submits[p] = 0
    /\ attempt[p] = "stale" =>
          submits[p] <= 2 /\ (pc[p] = "submit" => submits[p] <= 1)
    /\ attempt[p] = "token" =>
          submits[p] <= 3 /\ (pc[p] = "submit" => submits[p] <= 2)
    /\ attempt[p] # "token" =>
          /\ dispatches[p] <= 1
          /\ pc[p] \notin {"await_runner", "stub", "done"} => dispatches[p] = 0
    /\ attempt[p] = "token" =>
          /\ dispatches[p] <= 2
          /\ pc[p] \in {"submit", "await_verdict", "dispatch"} => dispatches[p] <= 1
    /\ pc[p] \in {"idle", "interpret", "load_context", "policy_filter", "select",
                  "reload_context"} => attempt[p] = "first"

\* A stale refusal is about a version older than xnch's; the retry's is newer.
FreshInv(p) ==
    /\ session[p] <= xnchVersion
    /\ sent[p] <= xnchVersion
    /\ vcall[p] = "stale" => sent[p] < xnchVersion
    /\ pc[p] = "reload_context" => sent[p] < xnchVersion
    /\ pc[p] = "submit" /\ attempt[p] = "stale" => sent[p] < session[p]

IInv ==
    /\ TypeOK
    /\ \A p \in Passes : EffectInv(p) /\ TokenInv(p) /\ BudgetInv(p) /\ FreshInv(p)

-----------------------------------------------------------------------------
(* Type correctness.                                                        *)

\* Every way of handling a failed submission leads to a location and a result.
LEMMA AfterFailureTypes ==
    ASSUME TypeOK, NEW q \in Passes, NEW f, AfterFailure(q, f)
    PROVE  /\ pc' \in [Passes -> Locations]
           /\ result' \in [Passes -> {"none"} \union Results]
           /\ passOutcome' \in [Statuses -> Nat]
<1>1. CASE Goto(q, "reload_context") /\ UNCHANGED passOutcome
  BY <1>1 DEF TypeOK, Goto, Locations
<1>2. ASSUME NEW r \in {"HTTP_502", "HTTP_409"}, Finish(q, r), Record("ERROR")
      PROVE  /\ pc' \in [Passes -> Locations]
             /\ result' \in [Passes -> {"none"} \union Results]
             /\ passOutcome' \in [Statuses -> Nat]
  BY <1>2 DEF TypeOK, Finish, Record, Locations, Results, Statuses
<1>3. CASE Raise(q)
  BY <1>3 DEF TypeOK, Raise, Finish, Locations, Results
<1>4. QED
  BY <1>1, <1>2, <1>3 DEF AfterFailure

\* Every step leaves the variables in their types.
LEMMA TypeStep == TypeOK /\ [Next]_vars => TypeOK'
<1> SUFFICES ASSUME TypeOK, [Next]_vars PROVE TypeOK'
  OBVIOUS
<1> USE MaxVersionAssumption, StaleShownAssumption
    DEF TypeOK, Versions, Verdicts, Failures, Attempts, Statuses, Results, Locations,
        callVars, worldVars, Goto, Finish, Raise, Record
<1>1. CASE XnchAdvances
  BY <1>1 DEF XnchAdvances
<1>2. ASSUME NEW q \in Passes, Begin(q) PROVE TypeOK'
  BY <1>2 DEF Begin
<1>3. ASSUME NEW q \in Passes, Interpret(q) PROVE TypeOK'
  BY <1>3 DEF Interpret
<1>4. ASSUME NEW q \in Passes, LoadContext(q) PROVE TypeOK'
  BY <1>4 DEF LoadContext
<1>5. ASSUME NEW q \in Passes, FilterOptions(q) PROVE TypeOK'
  BY <1>5 DEF FilterOptions
<1>6. ASSUME NEW q \in Passes, SelectAndCompile(q) PROVE TypeOK'
  BY <1>6 DEF SelectAndCompile
<1>7. ASSUME NEW q \in Passes, SubmitVerdict(q) PROVE TypeOK'
  BY <1>7 DEF SubmitVerdict
<1>8. ASSUME NEW q \in Passes, ReceiveVerdict(q) PROVE TypeOK'
  BY <1>8 DEF ReceiveVerdict, StopsOnBlock
<1>9. ASSUME NEW q \in Passes, VerdictRefused(q) PROVE TypeOK'
  <2>1. /\ pc' \in [Passes -> Locations]
        /\ result' \in [Passes -> {"none"} \union Results]
        /\ passOutcome' \in [Statuses -> Nat]
    BY <1>9, AfterFailureTypes DEF VerdictRefused
  <2> HIDE DEF Versions, Verdicts, Attempts, Statuses, Results, Locations
  <2>2. QED
    BY <1>9, <2>1 DEF VerdictRefused
<1>10. ASSUME NEW q \in Passes, VerdictLost(q) PROVE TypeOK'
  <2>1. /\ pc' \in [Passes -> Locations]
        /\ result' \in [Passes -> {"none"} \union Results]
        /\ passOutcome' \in [Statuses -> Nat]
    BY <1>10, AfterFailureTypes DEF VerdictLost
  <2> HIDE DEF Versions, Verdicts, Attempts, Statuses, Results, Locations
  <2>2. QED
    BY <1>10, <2>1 DEF VerdictLost
<1>11. ASSUME NEW q \in Passes, ReloadContext(q) PROVE TypeOK'
  BY <1>11 DEF ReloadContext, FreshVersion
<1>12. ASSUME NEW q \in Passes, Dispatch(q) PROVE TypeOK'
  BY <1>12 DEF Dispatch
<1>13. ASSUME NEW q \in Passes, ReceiveExecution(q) PROVE TypeOK'
  BY <1>13 DEF ReceiveExecution, MayResubmit
<1>14. ASSUME NEW q \in Passes, ExecutionLost(q) PROVE TypeOK'
  BY <1>14 DEF ExecutionLost
<1>15. ASSUME NEW q \in Passes, RecordStubOutcome(q) PROVE TypeOK'
  BY <1>15 DEF RecordStubOutcome
<1>16. ASSUME NEW q \in Passes, Cancel(q) PROVE TypeOK'
  BY <1>16 DEF Cancel
<1>17. ASSUME NEW q \in Passes, XnchDecides(q) PROVE TypeOK'
  BY <1>17 DEF XnchDecides
<1>18. ASSUME NEW q \in Passes, XnchRefusesStale(q) PROVE TypeOK'
  BY <1>18 DEF XnchRefusesStale
<1>19. ASSUME NEW q \in Passes, XnchFails(q) PROVE TypeOK'
  BY <1>19 DEF XnchFails
<1>20. ASSUME NEW q \in Passes, RunnerAccepts(q) PROVE TypeOK'
  BY <1>20 DEF RunnerAccepts
<1>21. ASSUME NEW q \in Passes, RunnerRefuses(q) PROVE TypeOK'
  BY <1>21 DEF RunnerRefuses
<1>22. ASSUME NEW q \in Passes, XnchRecordsOutcome(q) PROVE TypeOK'
  BY <1>22 DEF XnchRecordsOutcome
<1>23. CASE UNCHANGED vars
  BY <1>23 DEF vars
<1>24. QED
  BY <1>1, <1>2, <1>3, <1>4, <1>5, <1>6, <1>7, <1>8, <1>9, <1>10, <1>11, <1>12,
     <1>13, <1>14, <1>15, <1>16, <1>17, <1>18, <1>19, <1>20, <1>21, <1>22, <1>23
     DEF Next, PassStep

LEMMA TypeInit == Init => TypeOK
  BY MaxVersionAssumption DEF Init, TypeOK, Versions, Attempts, Statuses, Locations

\* The type invariant of every pass, for any number of passes and versions.
THEOREM TypeCorrect == Spec => []TypeOK
  BY TypeInit, TypeStep, PTL DEF Spec

-----------------------------------------------------------------------------
(* The invariant is inductive.                                              *)

\* No step adds an effect to a pass that has one, was refused or has not sent.
LEMMA EffectStep ==
    TypeOK /\ (\A p \in Passes : EffectInv(p)) /\ [Next]_vars
        => \A p \in Passes : EffectInv(p)'
<1> SUFFICES ASSUME TypeOK, \A p \in Passes : EffectInv(p), [Next]_vars, NEW p \in Passes
             PROVE  EffectInv(p)'
  OBVIOUS
<1> USE DEF TypeOK, callVars, worldVars, Goto, Finish, Raise, Record, EffectInv,
           Verdicts, HasToken, Blocks, Results, Failures
<1>1. CASE XnchAdvances
  BY <1>1 DEF XnchAdvances
<1>2. ASSUME NEW q \in Passes, Begin(q) PROVE EffectInv(p)'
  BY <1>2 DEF Begin
<1>3. ASSUME NEW q \in Passes, Interpret(q) PROVE EffectInv(p)'
  BY <1>3 DEF Interpret
<1>4. ASSUME NEW q \in Passes, LoadContext(q) PROVE EffectInv(p)'
  BY <1>4 DEF LoadContext
<1>5. ASSUME NEW q \in Passes, FilterOptions(q) PROVE EffectInv(p)'
  BY <1>5 DEF FilterOptions
<1>6. ASSUME NEW q \in Passes, SelectAndCompile(q) PROVE EffectInv(p)'
  BY <1>6 DEF SelectAndCompile
<1>7. ASSUME NEW q \in Passes, SubmitVerdict(q) PROVE EffectInv(p)'
  BY <1>7 DEF SubmitVerdict
<1>8. ASSUME NEW q \in Passes, ReceiveVerdict(q) PROVE EffectInv(p)'
  BY <1>8 DEF ReceiveVerdict, StopsOnBlock
<1>9. ASSUME NEW q \in Passes, VerdictRefused(q) PROVE EffectInv(p)'
  BY <1>9 DEF VerdictRefused, AfterFailure
<1>10. ASSUME NEW q \in Passes, VerdictLost(q) PROVE EffectInv(p)'
  BY <1>10 DEF VerdictLost, AfterFailure
<1>11. ASSUME NEW q \in Passes, ReloadContext(q) PROVE EffectInv(p)'
  BY <1>11 DEF ReloadContext, FreshVersion
<1>12. ASSUME NEW q \in Passes, Dispatch(q) PROVE EffectInv(p)'
  BY <1>12 DEF Dispatch
<1>13. ASSUME NEW q \in Passes, ReceiveExecution(q) PROVE EffectInv(p)'
  BY <1>13 DEF ReceiveExecution, MayResubmit
<1>14. ASSUME NEW q \in Passes, ExecutionLost(q) PROVE EffectInv(p)'
  BY <1>14 DEF ExecutionLost
<1>15. ASSUME NEW q \in Passes, RecordStubOutcome(q) PROVE EffectInv(p)'
  BY <1>15 DEF RecordStubOutcome
<1>16. ASSUME NEW q \in Passes, Cancel(q) PROVE EffectInv(p)'
  BY <1>16 DEF Cancel
<1>17. ASSUME NEW q \in Passes, XnchDecides(q) PROVE EffectInv(p)'
  BY <1>17 DEF XnchDecides
<1>18. ASSUME NEW q \in Passes, XnchRefusesStale(q) PROVE EffectInv(p)'
  BY <1>18 DEF XnchRefusesStale
<1>19. ASSUME NEW q \in Passes, XnchFails(q) PROVE EffectInv(p)'
  BY <1>19 DEF XnchFails
<1>20. ASSUME NEW q \in Passes, RunnerAccepts(q) PROVE EffectInv(p)'
  BY <1>20 DEF RunnerAccepts
<1>21. ASSUME NEW q \in Passes, RunnerRefuses(q) PROVE EffectInv(p)'
  BY <1>21 DEF RunnerRefuses
<1>22. ASSUME NEW q \in Passes, XnchRecordsOutcome(q) PROVE EffectInv(p)'
  BY <1>22 DEF XnchRecordsOutcome
<1>23. CASE UNCHANGED vars
  BY <1>23 DEF vars
<1>24. QED
  BY <1>1, <1>2, <1>3, <1>4, <1>5, <1>6, <1>7, <1>8, <1>9, <1>10, <1>11, <1>12,
     <1>13, <1>14, <1>15, <1>16, <1>17, <1>18, <1>19, <1>20, <1>21, <1>22, <1>23
     DEF Next, PassStep

\* No step builds a payload without a token.
LEMMA TokenStep ==
    TypeOK /\ (\A p \in Passes : TokenInv(p)) /\ [Next]_vars
        => \A p \in Passes : TokenInv(p)'
<1> SUFFICES ASSUME TypeOK, \A p \in Passes : TokenInv(p), [Next]_vars, NEW p \in Passes
             PROVE  TokenInv(p)'
  OBVIOUS
<1> USE DEF TypeOK, callVars, worldVars, Goto, Finish, Raise, Record, TokenInv,
           Verdicts, HasToken, Blocks, Results, Failures
<1>1. CASE XnchAdvances
  BY <1>1 DEF XnchAdvances
<1>2. ASSUME NEW q \in Passes, Begin(q) PROVE TokenInv(p)'
  BY <1>2 DEF Begin
<1>3. ASSUME NEW q \in Passes, Interpret(q) PROVE TokenInv(p)'
  BY <1>3 DEF Interpret
<1>4. ASSUME NEW q \in Passes, LoadContext(q) PROVE TokenInv(p)'
  BY <1>4 DEF LoadContext
<1>5. ASSUME NEW q \in Passes, FilterOptions(q) PROVE TokenInv(p)'
  BY <1>5 DEF FilterOptions
<1>6. ASSUME NEW q \in Passes, SelectAndCompile(q) PROVE TokenInv(p)'
  BY <1>6 DEF SelectAndCompile
<1>7. ASSUME NEW q \in Passes, SubmitVerdict(q) PROVE TokenInv(p)'
  BY <1>7 DEF SubmitVerdict
<1>8. ASSUME NEW q \in Passes, ReceiveVerdict(q) PROVE TokenInv(p)'
  BY <1>8 DEF ReceiveVerdict, StopsOnBlock
<1>9. ASSUME NEW q \in Passes, VerdictRefused(q) PROVE TokenInv(p)'
  BY <1>9 DEF VerdictRefused, AfterFailure
<1>10. ASSUME NEW q \in Passes, VerdictLost(q) PROVE TokenInv(p)'
  BY <1>10 DEF VerdictLost, AfterFailure
<1>11. ASSUME NEW q \in Passes, ReloadContext(q) PROVE TokenInv(p)'
  BY <1>11 DEF ReloadContext, FreshVersion
<1>12. ASSUME NEW q \in Passes, Dispatch(q) PROVE TokenInv(p)'
  BY <1>12 DEF Dispatch
<1>13. ASSUME NEW q \in Passes, ReceiveExecution(q) PROVE TokenInv(p)'
  BY <1>13 DEF ReceiveExecution, MayResubmit
<1>14. ASSUME NEW q \in Passes, ExecutionLost(q) PROVE TokenInv(p)'
  BY <1>14 DEF ExecutionLost
<1>15. ASSUME NEW q \in Passes, RecordStubOutcome(q) PROVE TokenInv(p)'
  BY <1>15 DEF RecordStubOutcome
<1>16. ASSUME NEW q \in Passes, Cancel(q) PROVE TokenInv(p)'
  BY <1>16 DEF Cancel
<1>17. ASSUME NEW q \in Passes, XnchDecides(q) PROVE TokenInv(p)'
  BY <1>17 DEF XnchDecides
<1>18. ASSUME NEW q \in Passes, XnchRefusesStale(q) PROVE TokenInv(p)'
  BY <1>18 DEF XnchRefusesStale
<1>19. ASSUME NEW q \in Passes, XnchFails(q) PROVE TokenInv(p)'
  BY <1>19 DEF XnchFails
<1>20. ASSUME NEW q \in Passes, RunnerAccepts(q) PROVE TokenInv(p)'
  BY <1>20 DEF RunnerAccepts
<1>21. ASSUME NEW q \in Passes, RunnerRefuses(q) PROVE TokenInv(p)'
  BY <1>21 DEF RunnerRefuses
<1>22. ASSUME NEW q \in Passes, XnchRecordsOutcome(q) PROVE TokenInv(p)'
  BY <1>22 DEF XnchRecordsOutcome
<1>23. CASE UNCHANGED vars
  BY <1>23 DEF vars
<1>24. QED
  BY <1>1, <1>2, <1>3, <1>4, <1>5, <1>6, <1>7, <1>8, <1>9, <1>10, <1>11, <1>12,
     <1>13, <1>14, <1>15, <1>16, <1>17, <1>18, <1>19, <1>20, <1>21, <1>22, <1>23
     DEF Next, PassStep

\* Every call is one its attempt still had.
LEMMA BudgetStep ==
    TypeOK /\ (\A p \in Passes : BudgetInv(p)) /\ [Next]_vars
        => \A p \in Passes : BudgetInv(p)'
<1> SUFFICES ASSUME TypeOK, \A p \in Passes : BudgetInv(p), [Next]_vars, NEW p \in Passes
             PROVE  BudgetInv(p)'
  OBVIOUS
<1> USE DEF TypeOK, callVars, worldVars, Goto, Finish, Raise, Record, BudgetInv,
           Verdicts, Attempts, Locations, Failures
<1>1. CASE XnchAdvances
  BY <1>1 DEF XnchAdvances
<1>2. ASSUME NEW q \in Passes, Begin(q) PROVE BudgetInv(p)'
  BY <1>2 DEF Begin
<1>3. ASSUME NEW q \in Passes, Interpret(q) PROVE BudgetInv(p)'
  BY <1>3 DEF Interpret
<1>4. ASSUME NEW q \in Passes, LoadContext(q) PROVE BudgetInv(p)'
  BY <1>4 DEF LoadContext
<1>5. ASSUME NEW q \in Passes, FilterOptions(q) PROVE BudgetInv(p)'
  BY <1>5 DEF FilterOptions
<1>6. ASSUME NEW q \in Passes, SelectAndCompile(q) PROVE BudgetInv(p)'
  BY <1>6 DEF SelectAndCompile
<1>7. ASSUME NEW q \in Passes, SubmitVerdict(q) PROVE BudgetInv(p)'
  BY <1>7 DEF SubmitVerdict
<1>8. ASSUME NEW q \in Passes, ReceiveVerdict(q) PROVE BudgetInv(p)'
  BY <1>8 DEF ReceiveVerdict, StopsOnBlock
<1>9. ASSUME NEW q \in Passes, VerdictRefused(q) PROVE BudgetInv(p)'
  BY <1>9 DEF VerdictRefused, AfterFailure
<1>10. ASSUME NEW q \in Passes, VerdictLost(q) PROVE BudgetInv(p)'
  BY <1>10 DEF VerdictLost, AfterFailure
<1>11. ASSUME NEW q \in Passes, ReloadContext(q) PROVE BudgetInv(p)'
  BY <1>11 DEF ReloadContext, FreshVersion
<1>12. ASSUME NEW q \in Passes, Dispatch(q) PROVE BudgetInv(p)'
  BY <1>12 DEF Dispatch
<1>13. ASSUME NEW q \in Passes, ReceiveExecution(q) PROVE BudgetInv(p)'
  BY <1>13 DEF ReceiveExecution, MayResubmit
<1>14. ASSUME NEW q \in Passes, ExecutionLost(q) PROVE BudgetInv(p)'
  BY <1>14 DEF ExecutionLost
<1>15. ASSUME NEW q \in Passes, RecordStubOutcome(q) PROVE BudgetInv(p)'
  BY <1>15 DEF RecordStubOutcome
<1>16. ASSUME NEW q \in Passes, Cancel(q) PROVE BudgetInv(p)'
  BY <1>16 DEF Cancel
<1>17. ASSUME NEW q \in Passes, XnchDecides(q) PROVE BudgetInv(p)'
  BY <1>17 DEF XnchDecides
<1>18. ASSUME NEW q \in Passes, XnchRefusesStale(q) PROVE BudgetInv(p)'
  BY <1>18 DEF XnchRefusesStale
<1>19. ASSUME NEW q \in Passes, XnchFails(q) PROVE BudgetInv(p)'
  BY <1>19 DEF XnchFails
<1>20. ASSUME NEW q \in Passes, RunnerAccepts(q) PROVE BudgetInv(p)'
  BY <1>20 DEF RunnerAccepts
<1>21. ASSUME NEW q \in Passes, RunnerRefuses(q) PROVE BudgetInv(p)'
  BY <1>21 DEF RunnerRefuses
<1>22. ASSUME NEW q \in Passes, XnchRecordsOutcome(q) PROVE BudgetInv(p)'
  BY <1>22 DEF XnchRecordsOutcome
<1>23. CASE UNCHANGED vars
  BY <1>23 DEF vars
<1>24. QED
  BY <1>1, <1>2, <1>3, <1>4, <1>5, <1>6, <1>7, <1>8, <1>9, <1>10, <1>11, <1>12,
     <1>13, <1>14, <1>15, <1>16, <1>17, <1>18, <1>19, <1>20, <1>21, <1>22, <1>23
     DEF Next, PassStep

\* Versions only grow, and the retry adopts the current one.
LEMMA FreshStep ==
    TypeOK /\ (\A p \in Passes : FreshInv(p) /\ BudgetInv(p)) /\ [Next]_vars
        => \A p \in Passes : FreshInv(p)'
<1> SUFFICES ASSUME TypeOK, \A p \in Passes : FreshInv(p) /\ BudgetInv(p),
                    [Next]_vars, NEW p \in Passes
             PROVE  FreshInv(p)'
  OBVIOUS
<1> USE DEF TypeOK, callVars, worldVars, Goto, Finish, Raise, Record, FreshInv,
           BudgetInv, Versions, Verdicts, Attempts, Locations, Failures
<1>1. CASE XnchAdvances
  BY <1>1 DEF XnchAdvances
<1>2. ASSUME NEW q \in Passes, Begin(q) PROVE FreshInv(p)'
  BY <1>2 DEF Begin
<1>3. ASSUME NEW q \in Passes, Interpret(q) PROVE FreshInv(p)'
  BY <1>3 DEF Interpret
<1>4. ASSUME NEW q \in Passes, LoadContext(q) PROVE FreshInv(p)'
  BY <1>4 DEF LoadContext
<1>5. ASSUME NEW q \in Passes, FilterOptions(q) PROVE FreshInv(p)'
  BY <1>5 DEF FilterOptions
<1>6. ASSUME NEW q \in Passes, SelectAndCompile(q) PROVE FreshInv(p)'
  BY <1>6 DEF SelectAndCompile
<1>7. ASSUME NEW q \in Passes, SubmitVerdict(q) PROVE FreshInv(p)'
  BY <1>7 DEF SubmitVerdict
<1>8. ASSUME NEW q \in Passes, ReceiveVerdict(q) PROVE FreshInv(p)'
  BY <1>8 DEF ReceiveVerdict, StopsOnBlock
<1>9. ASSUME NEW q \in Passes, VerdictRefused(q) PROVE FreshInv(p)'
  BY <1>9 DEF VerdictRefused, AfterFailure
<1>10. ASSUME NEW q \in Passes, VerdictLost(q) PROVE FreshInv(p)'
  BY <1>10 DEF VerdictLost, AfterFailure
<1>11. ASSUME NEW q \in Passes, ReloadContext(q) PROVE FreshInv(p)'
  BY <1>11 DEF ReloadContext, FreshVersion
<1>12. ASSUME NEW q \in Passes, Dispatch(q) PROVE FreshInv(p)'
  BY <1>12 DEF Dispatch
<1>13. ASSUME NEW q \in Passes, ReceiveExecution(q) PROVE FreshInv(p)'
  BY <1>13 DEF ReceiveExecution, MayResubmit
<1>14. ASSUME NEW q \in Passes, ExecutionLost(q) PROVE FreshInv(p)'
  BY <1>14 DEF ExecutionLost
<1>15. ASSUME NEW q \in Passes, RecordStubOutcome(q) PROVE FreshInv(p)'
  BY <1>15 DEF RecordStubOutcome
<1>16. ASSUME NEW q \in Passes, Cancel(q) PROVE FreshInv(p)'
  BY <1>16 DEF Cancel
<1>17. ASSUME NEW q \in Passes, XnchDecides(q) PROVE FreshInv(p)'
  BY <1>17 DEF XnchDecides
<1>18. ASSUME NEW q \in Passes, XnchRefusesStale(q) PROVE FreshInv(p)'
  <2>1. sent[q] # xnchVersion
    BY <1>18 DEF XnchRefusesStale
  <2>2. /\ vcall'[p] = "stale" => p = q \/ vcall[p] = "stale"
        /\ UNCHANGED <<xnchVersion, pc, session, attempt, sent>>
    BY <1>18 DEF XnchRefusesStale
  <2>3. sent[q] < xnchVersion
    BY <2>1, SMTT(40)
  <2>4. QED
    BY <2>2, <2>3
<1>19. ASSUME NEW q \in Passes, XnchFails(q) PROVE FreshInv(p)'
  BY <1>19 DEF XnchFails
<1>20. ASSUME NEW q \in Passes, RunnerAccepts(q) PROVE FreshInv(p)'
  BY <1>20 DEF RunnerAccepts
<1>21. ASSUME NEW q \in Passes, RunnerRefuses(q) PROVE FreshInv(p)'
  BY <1>21 DEF RunnerRefuses
<1>22. ASSUME NEW q \in Passes, XnchRecordsOutcome(q) PROVE FreshInv(p)'
  BY <1>22 DEF XnchRecordsOutcome
<1>23. CASE UNCHANGED vars
  BY <1>23 DEF vars
<1>24. QED
  BY <1>1, <1>2, <1>3, <1>4, <1>5, <1>6, <1>7, <1>8, <1>9, <1>10, <1>11, <1>12,
     <1>13, <1>14, <1>15, <1>16, <1>17, <1>18, <1>19, <1>20, <1>21, <1>22, <1>23
     DEF Next, PassStep

LEMMA InvInit == Init => IInv
  BY TypeInit DEF Init, IInv, TypeOK, EffectInv, TokenInv, BudgetInv, FreshInv,
                  Verdicts, HasToken

LEMMA InvStep == IInv /\ [Next]_vars => IInv'
  BY TypeStep, EffectStep, TokenStep, BudgetStep, FreshStep DEF IInv

THEOREM Invariance == Spec => []IInv
  BY InvInit, InvStep, PTL DEF Spec

-----------------------------------------------------------------------------
(* What follows from it.                                                    *)

\* A decision acts at most once: the runner never takes two execution_refs of
\* one pass, and no stub outcome is posted for one it took.
THEOREM OneEffectAlways == Spec => []OneEffect
<1>1. IInv => OneEffect
  BY DEF IInv, TypeOK, EffectInv, OneEffect
<1>2. QED
  BY <1>1, Invariance, PTL

\* A refused caller may ask again: the refused pass has no effect, then or later.
THEOREM RefusalHasNoEffectAlways == Spec => []RefusalHasNoEffect
<1>1. IInv => RefusalHasNoEffect
  BY DEF IInv, TypeOK, EffectInv, RefusalHasNoEffect, Refusals
<1>2. QED
  BY <1>1, Invariance, PTL

\* At most three submissions and two dispatches, however often xnch's version
\* moves and the token expires.
THEOREM CallBudgetAlways == Spec => []CallBudget
<1>1. IInv => CallBudget
  BY DEF IInv, TypeOK, Attempts, BudgetInv, CallBudget
<1>2. QED
  BY <1>1, Invariance, PTL

\* Every stale retry carries a newer version than the submission it repeats.
THEOREM RetryIsFresh == Spec => RetryCarriesFreshVersion
<1> DEFINE Fresh == \A p \in Passes :
                       submits'[p] # submits[p] /\ attempt[p] = "stale" => sent'[p] > sent[p]
<1>1. IInv /\ [Next]_vars => [Fresh]_vars
  <2> SUFFICES ASSUME IInv, Next, NEW p \in Passes,
                      submits'[p] # submits[p], attempt[p] = "stale"
               PROVE  sent'[p] > sent[p]
    BY DEF Fresh
  <2>1. SubmitVerdict(p)
    BY DEF Next, PassStep, IInv, TypeOK, callVars, worldVars, Begin, Interpret,
           LoadContext, FilterOptions, SelectAndCompile, SubmitVerdict,
           ReceiveVerdict, VerdictRefused, VerdictLost, ReloadContext, Dispatch,
           ReceiveExecution, ExecutionLost, RecordStubOutcome, Cancel,
           XnchAdvances, XnchDecides, XnchRefusesStale, XnchFails,
           RunnerAccepts, RunnerRefuses, XnchRecordsOutcome
  <2>2. sent[p] < session[p]
    BY <2>1 DEF SubmitVerdict, IInv, FreshInv
  <2>3. sent'[p] = session[p]
    BY <2>1 DEF SubmitVerdict, IInv, TypeOK
  <2>4. QED
    BY <2>2, <2>3 DEF IInv, TypeOK, Versions
<1>2. QED
  BY <1>1, Invariance, PTL DEF Spec, RetryCarriesFreshVersion, Fresh

-----------------------------------------------------------------------------
(* The outcome counter.                                                     *)

\* The passes counted under status s.
Counted(s) == {p \in Passes : StatusOf(result[p]) = s}

\* A step of pass q either leaves the caller and the counter alone, or gives
\* the caller its one result and counts it under that result's status.
Tallied(q) ==
    \/ UNCHANGED <<result, passOutcome>>
    \/ /\ result[q] = "none"
       /\ result' = [result EXCEPT ![q] = result'[q]]
       /\ IF StatusOf(result'[q]) \in Statuses
          THEN passOutcome' = [passOutcome EXCEPT ![StatusOf(result'[q])] = @ + 1]
          ELSE UNCHANGED passOutcome

LEMMA UncountedResults ==
    /\ StatusOf("none") \notin Statuses
    /\ StatusOf("RAISED") \notin Statuses
    /\ StatusOf("CANCELLED") \notin Statuses
  BY DEF StatusOf, Statuses

LEMMA TalliedStep ==
    IInv /\ [Next]_vars =>
        UNCHANGED <<result, passOutcome>> \/ \E q \in Passes : Tallied(q)
<1> SUFFICES ASSUME IInv, [Next]_vars
             PROVE  UNCHANGED <<result, passOutcome>> \/ \E q \in Passes : Tallied(q)
  OBVIOUS
<1> USE DEF IInv, TypeOK, EffectInv, Tallied, StatusOf, Statuses, Goto, Finish, Raise,
            Record
<1>1. ASSUME NEW q \in Passes, Interpret(q) PROVE Tallied(q)
  BY <1>1 DEF Interpret
<1>2. ASSUME NEW q \in Passes, LoadContext(q) PROVE Tallied(q)
  BY <1>2 DEF LoadContext
<1>3. ASSUME NEW q \in Passes, FilterOptions(q) PROVE Tallied(q)
  BY <1>3 DEF FilterOptions
<1>4. ASSUME NEW q \in Passes, SelectAndCompile(q) PROVE Tallied(q)
  BY <1>4 DEF SelectAndCompile
<1>5. ASSUME NEW q \in Passes, ReceiveVerdict(q) PROVE Tallied(q)
  BY <1>5 DEF ReceiveVerdict, StopsOnBlock
<1>6. ASSUME NEW q \in Passes, VerdictRefused(q) PROVE Tallied(q)
  BY <1>6 DEF VerdictRefused, AfterFailure
<1>7. ASSUME NEW q \in Passes, VerdictLost(q) PROVE Tallied(q)
  BY <1>7 DEF VerdictLost, AfterFailure
<1>8. ASSUME NEW q \in Passes, ReloadContext(q) PROVE Tallied(q)
  BY <1>8 DEF ReloadContext, FreshVersion
<1>9. ASSUME NEW q \in Passes, Dispatch(q) PROVE Tallied(q)
  BY <1>9 DEF Dispatch
<1>10. ASSUME NEW q \in Passes, ReceiveExecution(q) PROVE Tallied(q)
  BY <1>10 DEF ReceiveExecution, MayResubmit
<1>11. ASSUME NEW q \in Passes, ExecutionLost(q) PROVE Tallied(q)
  BY <1>11 DEF ExecutionLost
<1>12. ASSUME NEW q \in Passes, RecordStubOutcome(q) PROVE Tallied(q)
  BY <1>12 DEF RecordStubOutcome
<1>13. ASSUME NEW q \in Passes, Cancel(q) PROVE Tallied(q)
  BY <1>13 DEF Cancel
<1>14. ASSUME NEW q \in Passes,
             \/ Begin(q) \/ SubmitVerdict(q) \/ XnchDecides(q) \/ XnchRefusesStale(q)
             \/ XnchFails(q) \/ RunnerAccepts(q) \/ RunnerRefuses(q)
             \/ XnchRecordsOutcome(q)
      PROVE  UNCHANGED <<result, passOutcome>>
  BY <1>14 DEF Begin, SubmitVerdict, XnchDecides, XnchRefusesStale, XnchFails,
               RunnerAccepts, RunnerRefuses, XnchRecordsOutcome
<1>15. XnchAdvances \/ UNCHANGED vars => UNCHANGED <<result, passOutcome>>
  BY DEF XnchAdvances, vars
<1> HIDE DEF IInv, TypeOK, EffectInv, Tallied, StatusOf, Statuses, Goto, Finish, Raise,
             Record
<1>16. QED
  BY <1>1, <1>2, <1>3, <1>4, <1>5, <1>6, <1>7, <1>8, <1>9, <1>10, <1>11, <1>12,
     <1>13, <1>14, <1>15 DEF Next, PassStep

LEMMA TallyKeepsAgreement ==
    ASSUME TypeOK, MetricsAgree, NEW q \in Passes, Tallied(q) PROVE MetricsAgree'
<1> SUFFICES ASSUME NEW s \in Statuses PROVE passOutcome'[s] = Cardinality(Counted(s)')
  BY DEF MetricsAgree, Counted
<1>1. passOutcome[s] = Cardinality(Counted(s))
  BY DEF MetricsAgree, Counted
<1>2. IsFiniteSet(Counted(s))
  BY PassesAssumption, FS_Subset DEF Counted
<1>3. CASE UNCHANGED <<result, passOutcome>>
  BY <1>1, <1>3 DEF Counted
<1>4. CASE ~UNCHANGED <<result, passOutcome>>
  <2>1. /\ result[q] = "none"
        /\ result' = [result EXCEPT ![q] = result'[q]]
        /\ IF StatusOf(result'[q]) \in Statuses
           THEN passOutcome' = [passOutcome EXCEPT ![StatusOf(result'[q])] = @ + 1]
           ELSE UNCHANGED passOutcome
    BY <1>4 DEF Tallied
  <2>2. q \notin Counted(s)
    BY <2>1, UncountedResults DEF Counted
  <2>3. \A p \in Passes \ {q} : result'[p] = result[p]
    BY <2>1 DEF TypeOK
  <2>4. CASE StatusOf(result'[q]) = s
    <3>1. Counted(s)' = Counted(s) \union {q}
      BY <2>3, <2>4 DEF Counted
    <3>2. Cardinality(Counted(s)') = Cardinality(Counted(s)) + 1
      BY <1>2, <2>2, <3>1, FS_AddElement
    <3>3. passOutcome'[s] = passOutcome[s] + 1
      BY <2>1, <2>4 DEF TypeOK
    <3>4. QED
      BY <1>1, <3>2, <3>3
  <2>5. CASE StatusOf(result'[q]) # s
    <3>1. Counted(s)' = Counted(s)
      BY <2>2, <2>3, <2>5 DEF Counted
    <3>2. passOutcome'[s] = passOutcome[s]
      BY <2>1, <2>5 DEF TypeOK
    <3>3. QED
      BY <1>1, <3>1, <3>2
  <2>6. QED
    BY <2>4, <2>5
<1>5. QED
  BY <1>3, <1>4

\* The counter of finished passes agrees with what the callers got, for any
\* finite number of concurrent passes.
THEOREM MetricsAlwaysAgree == Spec => []MetricsAgree
<1>1. Init => MetricsAgree
  <2> SUFFICES ASSUME Init, NEW s \in Statuses
               PROVE  passOutcome[s] = Cardinality({p \in Passes : StatusOf(result[p]) = s})
    BY DEF MetricsAgree
  <2>1. {p \in Passes : StatusOf(result[p]) = s} = {}
    BY UncountedResults DEF Init
  <2>2. QED
    BY <2>1, FS_EmptySet DEF Init
<1>2. IInv /\ MetricsAgree /\ [Next]_vars => MetricsAgree'
  <2> SUFFICES ASSUME IInv, MetricsAgree, [Next]_vars PROVE MetricsAgree'
    OBVIOUS
  <2>1. CASE UNCHANGED <<result, passOutcome>>
    BY <2>1 DEF MetricsAgree
  <2>2. QED
    BY <2>1, TalliedStep, TallyKeepsAgreement DEF IInv
<1>3. QED
  BY <1>1, <1>2, Invariance, PTL DEF Spec

-----------------------------------------------------------------------------
(* Refinement: every step of a pass is a step of its contract, or a stutter. *)

\* The answer of a pass that just ended is sound: a refusal hides no effect,
\* and EXECUTING was authorised.
SoundAnswer(q) ==
    /\ result[q] = "none"
    /\ result'[q] \in Results
    /\ result' = [result EXCEPT ![q] = result'[q]]
    /\ result'[q] \in Refusals => executed[q] = {} /\ stubbed[q] = {}
    /\ result'[q] = "EXECUTING" => authorised[q]

LEMMA Stutter ==
    UNCHANGED <<authorised, executed, stubbed, result>> => UNCHANGED Contract!vars
  BY DEF Contract!vars, EffectOf, AnswerOf

LEMMA Answering ==
    ASSUME TypeOK, NEW q \in Passes, SoundAnswer(q), UNCHANGED worldVars
    PROVE  Contract!Next
<1> DEFINE r == result'[q]
           a == IF r = "EXECUTING" THEN "executing"
                ELSE IF r \in Refusals THEN "refused" ELSE "unknown"
<1>1. r # "none"
  BY DEF SoundAnswer, Results
<1>2. UNCHANGED <<authorised, executed, stubbed>>
  BY DEF worldVars
<1>3. [p \in Passes |-> AnswerOf(p)]' = [[p \in Passes |-> AnswerOf(p)] EXCEPT ![q] = a]
  BY <1>1 DEF AnswerOf, TypeOK, SoundAnswer
<1>4. [p \in Passes |-> EffectOf(p)]' = [p \in Passes |-> EffectOf(p)]
  BY <1>2 DEF EffectOf
<1>5. AnswerOf(q) = "none" /\ (a = "refused" => EffectOf(q) = {})
  BY DEF AnswerOf, EffectOf, SoundAnswer
<1>6. a \in Contract!Answers \ {"none"} /\ (a = "executing" => authorised[q])
  BY DEF Contract!Answers, SoundAnswer
<1>7. Contract!Answer(q, a)
  BY <1>2, <1>3, <1>4, <1>5, <1>6 DEF Contract!Answer
<1>8. QED
  BY <1>6, <1>7 DEF Contract!Next

\* The steps of a pass that reach its caller.
LEMMA Endings ==
    ASSUME IInv, NEW q \in Passes,
           \/ Interpret(q) \/ LoadContext(q) \/ FilterOptions(q)
           \/ SelectAndCompile(q) \/ ReceiveVerdict(q) \/ VerdictRefused(q)
           \/ VerdictLost(q) \/ ReloadContext(q) \/ Dispatch(q)
           \/ ReceiveExecution(q) \/ ExecutionLost(q) \/ RecordStubOutcome(q)
           \/ Cancel(q)
    PROVE  UNCHANGED worldVars /\ (SoundAnswer(q) \/ UNCHANGED result)
<1> USE DEF IInv, TypeOK, EffectInv, TokenInv, SoundAnswer, Results, Refusals,
            Goto, Finish, Raise, worldVars
<1>1. CASE Interpret(q)
  BY <1>1 DEF Interpret
<1>2. CASE LoadContext(q)
  BY <1>2 DEF LoadContext
<1>3. CASE FilterOptions(q)
  BY <1>3 DEF FilterOptions
<1>4. CASE SelectAndCompile(q)
  BY <1>4 DEF SelectAndCompile
<1>5. CASE ReceiveVerdict(q)
  BY <1>5 DEF ReceiveVerdict, StopsOnBlock
<1>6. CASE VerdictRefused(q)
  BY <1>6 DEF VerdictRefused, AfterFailure
<1>7. CASE VerdictLost(q)
  BY <1>7 DEF VerdictLost, AfterFailure
<1>8. CASE ReloadContext(q)
  BY <1>8 DEF ReloadContext, FreshVersion
<1>9. CASE Dispatch(q)
  BY <1>9 DEF Dispatch
<1>10. CASE ReceiveExecution(q)
  BY <1>10 DEF ReceiveExecution, MayResubmit
<1>11. CASE ExecutionLost(q)
  BY <1>11 DEF ExecutionLost
<1>12. CASE RecordStubOutcome(q)
  BY <1>12 DEF RecordStubOutcome
<1>13. CASE Cancel(q)
  BY <1>13 DEF Cancel
<1>14. QED
  BY <1>1, <1>2, <1>3, <1>4, <1>5, <1>6, <1>7, <1>8, <1>9, <1>10, <1>11, <1>12, <1>13

LEMMA Running ==
    ASSUME IInv, NEW q \in Passes, RunnerAccepts(q) PROVE Contract!Next
<1> DEFINE ref == dispatches[q]
<1>1. /\ authorised[q] /\ executed[q] = {} /\ stubbed[q] = {} /\ ref \in 1..2
      /\ AnswerOf(q) \in {"none", "unknown"}
  BY DEF RunnerAccepts, IInv, TypeOK, EffectInv, TokenInv, BudgetInv, Attempts,
         AnswerOf, Refusals
<1>2. executed' = [executed EXCEPT ![q] = {ref}] /\ UNCHANGED <<authorised, stubbed, result>>
  BY <1>1 DEF RunnerAccepts, IInv, TypeOK
<1>3. [p \in Passes |-> EffectOf(p)]'
         = [[p \in Passes |-> EffectOf(p)] EXCEPT ![q] = {<<"run", ref>>}]
  <2>1. EffectOf(q)' = {<<"run", ref>>}
    BY <1>1, <1>2 DEF EffectOf, IInv, TypeOK
  <2>2. \A p \in Passes \ {q} : EffectOf(p)' = EffectOf(p)
    BY <1>2 DEF EffectOf, IInv, TypeOK
  <2>3. QED
    BY <2>1, <2>2
<1>4. EffectOf(q) = {} /\ [p \in Passes |-> AnswerOf(p)]' = [p \in Passes |-> AnswerOf(p)]
  BY <1>1, <1>2 DEF EffectOf, AnswerOf
<1>5. Contract!Run(q, ref)
  BY <1>1, <1>2, <1>3, <1>4 DEF Contract!Run
<1>6. QED
  BY <1>1, <1>5 DEF Contract!Next

LEMMA Authorising ==
    ASSUME IInv, NEW q \in Passes, XnchDecides(q)
    PROVE  Contract!Next \/ UNCHANGED Contract!vars
<1>1. UNCHANGED <<executed, stubbed, result>>
  BY DEF XnchDecides
<1>2. CASE authorised' = authorised
  BY <1>1, <1>2, Stutter
<1>3. CASE authorised' # authorised
  <2>1. authorised' = [authorised EXCEPT ![q] = TRUE]
    BY <1>3 DEF XnchDecides
  <2>2. /\ [p \in Passes |-> EffectOf(p)]' = [p \in Passes |-> EffectOf(p)]
        /\ [p \in Passes |-> AnswerOf(p)]' = [p \in Passes |-> AnswerOf(p)]
    BY <1>1 DEF EffectOf, AnswerOf
  <2>3. Contract!Authorise(q)
    BY <2>1, <2>2 DEF Contract!Authorise
  <2>4. QED
    BY <2>3 DEF Contract!Next
<1>4. QED
  BY <1>2, <1>3

LEMMA Stubbing ==
    ASSUME IInv, NEW q \in Passes, XnchRecordsOutcome(q) PROVE Contract!Next
<1> DEFINE ref == dispatches[q]
<1>1. /\ authorised[q] /\ executed[q] = {} /\ stubbed[q] = {} /\ ref \in 1..2
      /\ AnswerOf(q) # "refused"
  BY DEF XnchRecordsOutcome, IInv, TypeOK, EffectInv, TokenInv, BudgetInv, Attempts,
         AnswerOf, Refusals
<1>2. stubbed' = [stubbed EXCEPT ![q] = {ref}] /\ UNCHANGED <<authorised, executed, result>>
  BY <1>1 DEF XnchRecordsOutcome, IInv, TypeOK
<1>3. [p \in Passes |-> EffectOf(p)]'
         = [[p \in Passes |-> EffectOf(p)] EXCEPT ![q] = {<<"stub", ref>>}]
  <2>1. EffectOf(q)' = {<<"stub", ref>>}
    BY <1>1, <1>2 DEF EffectOf, IInv, TypeOK
  <2>2. \A p \in Passes \ {q} : EffectOf(p)' = EffectOf(p)
    BY <1>2 DEF EffectOf, IInv, TypeOK
  <2>3. QED
    BY <2>1, <2>2
<1>4. EffectOf(q) = {} /\ [p \in Passes |-> AnswerOf(p)]' = [p \in Passes |-> AnswerOf(p)]
  BY <1>1, <1>2 DEF EffectOf, AnswerOf
<1>5. Contract!Stub(q, ref)
  BY <1>1, <1>2, <1>3, <1>4 DEF Contract!Stub
<1>6. QED
  BY <1>1, <1>5 DEF Contract!Next

LEMMA ContractInit == Init => Contract!Init
  BY DEF Init, Contract!Init, EffectOf, AnswerOf

LEMMA ContractStep == IInv /\ [Next]_vars => [Contract!Next]_(Contract!vars)
<1> SUFFICES ASSUME IInv, [Next]_vars PROVE Contract!Next \/ UNCHANGED Contract!vars
  OBVIOUS
<1>1. CASE UNCHANGED vars
  BY <1>1, Stutter DEF vars
<1>2. CASE XnchAdvances
  BY <1>2, Stutter DEF XnchAdvances, worldVars
<1>3. ASSUME NEW q \in Passes,
             \/ Begin(q) \/ SubmitVerdict(q) \/ XnchRefusesStale(q)
             \/ XnchFails(q) \/ RunnerRefuses(q)
      PROVE  UNCHANGED Contract!vars
  BY <1>3, Stutter DEF Begin, SubmitVerdict, XnchRefusesStale, XnchFails,
                       RunnerRefuses, Goto, worldVars
<1>4. ASSUME NEW q \in Passes,
             \/ Interpret(q) \/ LoadContext(q) \/ FilterOptions(q)
             \/ SelectAndCompile(q) \/ ReceiveVerdict(q) \/ VerdictRefused(q)
             \/ VerdictLost(q) \/ ReloadContext(q) \/ Dispatch(q)
             \/ ReceiveExecution(q) \/ ExecutionLost(q) \/ RecordStubOutcome(q)
           \/ Cancel(q)
      PROVE  Contract!Next \/ UNCHANGED Contract!vars
  <2>1. UNCHANGED worldVars /\ (SoundAnswer(q) \/ UNCHANGED result)
    BY <1>4, Endings
  <2>2. QED
    BY <2>1, Answering, Stutter DEF IInv, worldVars
<1>5. QED
  BY <1>1, <1>2, <1>3, <1>4, Running, Authorising, Stubbing DEF Next, PassStep

\* A pass implements its contract: one effect at most, never unauthorised,
\* never behind a refusal.
THEOREM Refinement == Spec => ImplementsContract
  BY ContractInit, ContractStep, Invariance, PTL DEF Spec, ImplementsContract, Contract!Spec

-----------------------------------------------------------------------------
(* What the contract gives its clients, whoever implements it.              *)

\* An effect is never undone, replaced or joined by another, and was authorised
\* before it; a caller who was told that the pass stopped is told the truth, then
\* and later (pipeline/run.py, run_decision_pipeline).
THEOREM ContractPromises == Spec => Contract!EffectIsFinal /\ []Contract!RefusalIsTrue
<1>. DEFINE E == [p \in Passes |-> EffectOf(p)]
            Final == \A p \in Passes : E'[p] # E[p] => E[p] = {} /\ authorised[p]
<1>1. Contract!Next => Final
  <2>. SUFFICES ASSUME NEW p \in Passes,
                       \/ Contract!Authorise(p)
                       \/ \E ref \in 1..2 : Contract!Run(p, ref) \/ Contract!Stub(p, ref)
                       \/ \E a \in Contract!Answers \ {"none"} : Contract!Answer(p, a)
                PROVE  Final
    BY DEF Contract!Next
  <2>1. CASE UNCHANGED E
    BY <2>1
  <2>2. ASSUME NEW ref \in 1..2, Contract!Run(p, ref) \/ Contract!Stub(p, ref)
        PROVE  Final
    <3>1. PICK x : E' = [E EXCEPT ![p] = x]
      BY <2>2 DEF Contract!Run, Contract!Stub
    <3>2. E[p] = {} /\ authorised[p]
      BY <2>2 DEF Contract!Run, Contract!Stub
    <3>. QED BY <3>1, <3>2
  <2>. QED BY <2>1, <2>2 DEF Contract!Authorise, Contract!Answer
<1>2. [Contract!Next]_(Contract!vars) =>
        [\A p \in Passes : E'[p] # E[p] => E[p] = {} /\ authorised[p]]_(Contract!vars)
  BY <1>1
<1>3. Contract!Spec => Contract!EffectIsFinal
  BY <1>2, PTL DEF Contract!Spec, Contract!EffectIsFinal
<1>4. IInv => Contract!RefusalIsTrue
  <2>. SUFFICES ASSUME IInv, NEW p \in Passes, AnswerOf(p) = "refused"
                PROVE  EffectOf(p) = {}
    BY DEF Contract!RefusalIsTrue
  <2>1. result[p] \in Refusals
    BY DEF AnswerOf
  <2>2. executed[p] = {} /\ stubbed[p] = {}
    BY <2>1 DEF IInv, TypeOK, EffectInv, Refusals
  <2>. QED BY <2>2 DEF EffectOf
<1>. QED BY <1>3, <1>4, Refinement, Invariance, PTL DEF ImplementsContract
=============================================================================
