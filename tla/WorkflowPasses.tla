---------------------------- MODULE WorkflowPasses ----------------------------
(***************************************************************************)
(* The workflow loop composed with the passes it runs.  WorkflowExecutor   *)
(* says what may happen while the loop waits for a pass; here each pass is *)
(* one of EffectContract, which PipelinePass implements, and what happens  *)
(* to a step follows from what its passes do.  Every pass belongs to the   *)
(* step it was started for, and keeps its right to act after the loop, or  *)
(* the whole process, stopped waiting for it.                              *)
(***************************************************************************)
EXTENDS WorkflowExecutor

CONSTANTS Passes,  \* the passes
          Refs     \* the execution_refs a pass may make

VARIABLES authorised, effect, answer,  \* of each pass, as in EffectContract
          owner                        \* the step it was started for

Contract == INSTANCE EffectContract

contractVars == <<authorised, effect, answer>>
passVars == <<contractVars, owner>>

Begun(p) == owner[p] # Nothing
Open(p) == Begun(p) /\ answer[p] = "none"
Ran(p) == \E ref \in Refs : <<"run", ref>> \in effect[p]

PassesInit ==
    /\ Init
    /\ Contract!Init
    /\ owner = [p \in Passes |-> Nothing]

-----------------------------------------------------------------------------
(* What the passes make of loose and deferred.                              *)

\* A pass that was given up and has not been executed.
LeftOver(p) == answer[p] = "unknown" /\ ~Ran(p)

\* A pass that answered EXECUTING and was not executed.
WithoutRunner(p) == answer[p] = "executing" /\ ~Ran(p)

Loose == {owner[p] : p \in {q \in Passes : LeftOver(q)}}
Deferred == {owner[p] : p \in {q \in Passes : WithoutRunner(q)}}

AsThePassesSay == loose' = Loose' /\ deferred' = Deferred'

-----------------------------------------------------------------------------
(* The passes.                                                              *)

Starts(p) ==
    /\ ~Begun(p)
    /\ PassStarts
    /\ owner' = [owner EXCEPT ![p] = current]
    /\ UNCHANGED contractVars

XnchAuthorises(p) ==
    /\ Begun(p)
    /\ Contract!Authorise(p)
    /\ UNCHANGED <<vars, owner>>

\* The runner takes the execution of a pass, be it under way or long over.
Acts(p, ref) ==
    /\ Begun(p)
    /\ Contract!Run(p, ref)
    /\ runs' = [runs EXCEPT ![owner[p]] = UpTo(2, @)]
    /\ pc' = IF Open(p) THEN "acted" ELSE pc
    /\ UNCHANGED <<xnchVars, current, outcome, late, crashes, wired, historyVars, owner>>
    /\ AsThePassesSay

Stubs(p, ref) ==
    /\ Begun(p)
    /\ Contract!Stub(p, ref)
    /\ UNCHANGED <<vars, owner>>

\* The pass ends and the loop reports on it.
Ends(p) ==
    /\ Open(p)
    /\ \/ Contract!Answer(p, "executing") /\ PassReturns("EXECUTING")
       \/ Contract!Answer(p, "refused") /\ PassReturns("ESCALATED")
       \/ Contract!Answer(p, "unknown") /\ PassRaises
    /\ UNCHANGED <<runs, owner>>
    /\ AsThePassesSay

\* The process stops, and with it the pass under way if there is one.
Stops ==
    /\ Stop
    /\ \/ \E p \in Passes : Open(p) /\ Contract!Answer(p, "unknown")
       \/ (\A p \in Passes : ~Open(p)) /\ UNCHANGED contractVars
    /\ UNCHANGED <<runs, owner>>
    /\ AsThePassesSay

\* Whatever the loop and xnch do without a pass.
Aside ==
    /\ \/ Poll \/ ReceiveClaim \/ ClaimFails
       \/ PassIsNotCallable \/ ReportReturns \/ ReportFails
       \/ \E s \in Steps :
             \/ XnchGrants(s) \/ XnchAccepts(s) \/ LeaseLapses(s)
             \/ \E o \in Outcomes : XnchAcceptsLate(s, o) \/ OutcomeLost(s, o)
    /\ UNCHANGED passVars

PassesNext ==
    \/ \E p \in Passes :
          \/ Starts(p) \/ XnchAuthorises(p) \/ Ends(p)
          \/ \E ref \in Refs : Acts(p, ref) \/ Stubs(p, ref)
    \/ Stops
    \/ Aside

PassesSpec == PassesInit /\ [][PassesNext]_<<vars, passVars>>

-----------------------------------------------------------------------------
(* Properties.                                                              *)

\* The passes of a step and the loop agree on what is under way: one open pass
\* while the loop waits for one and none else, and loose and deferred are what
\* the passes left.
PassesInv ==
    /\ \A p \in Passes :
          /\ Begun(p) => owner[p] \in Steps
          /\ ~Begun(p) => answer[p] = "none" /\ effect[p] = {}
          /\ Open(p) => /\ pc = IF Ran(p) THEN "acted" ELSE "running"
                        /\ owner[p] = current
          /\ \A q \in Passes : Open(p) /\ Open(q) => p = q
    /\ pc \in {"running", "acted"} => \E p \in Passes : Open(p)
    /\ loose = Loose /\ deferred = Deferred

\* The loop does with its passes what WorkflowExecutor says, and each of them
\* what EffectContract says.
ImplementsExecutor == Spec
ImplementsContract == Contract!Spec

\* All the passes of a step that the loop never lost sight of have one effect on
\* the world between them, however often the step was claimed; a step that is
\* DONE was answered EXECUTING by one of its passes, and one that is FAILED has
\* had no effect.
OneEffectPerStep ==
    \A s \in Steps \ unclean : \A p, q \in Passes :
        owner[p] = s /\ owner[q] = s =>
            \A e \in effect[p], f \in effect[q] : p = q /\ e = f

EndIsAPass ==
    \A s \in Steps \ unclean :
        /\ status[s] = "DONE" =>
              \E p \in Passes : owner[p] = s /\ answer[p] = "executing"
        /\ status[s] = "FAILED" =>
              \A p \in Passes : owner[p] = s => answer[p] = "refused" /\ effect[p] = {}
=============================================================================
