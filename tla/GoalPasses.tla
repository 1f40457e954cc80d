------------------------------ MODULE GoalPasses ------------------------------
(***************************************************************************)
(* The goal driver composed with the passes it runs.  GoalDriver says what *)
(* may happen while the loop waits for a pass; here each pass is one of    *)
(* EffectContract, which PipelinePass implements, and the executions that  *)
(* xnch waits for are those of the passes.  Every pass belongs to the goal *)
(* it was started for, and keeps its right to act after the loop, or the   *)
(* whole process, stopped waiting for it.                                  *)
(***************************************************************************)
EXTENDS GoalDriver, FiniteSets

CONSTANTS Passes,  \* the passes
          Refs     \* the execution_refs a pass may make

VARIABLES authorised, effect, answer,  \* of each pass, as in EffectContract
          owner,                       \* the goal it was started for
          heard                        \* passes whose effect xnch heard the end of, or
                                       \* never will

Contract == INSTANCE EffectContract

contractVars == <<authorised, effect, answer>>
passVars == <<contractVars, owner, heard>>

Begun(p) == owner[p] # Nobody
Open(p) == Begun(p) /\ answer[p] = "none"
Acted(p) == effect[p] # {}

PassesInit ==
    /\ Init
    /\ Contract!Init
    /\ owner = [p \in Passes |-> Nobody]
    /\ heard = {}

-----------------------------------------------------------------------------
(* What the passes make of owed and loose.                                  *)

\* The passes of a goal that xnch waits for.
UnderWay(g) == {p \in Passes : owner[p] = g /\ Acted(p) /\ p \notin heard}
Owed == [g \in Goals |-> Cardinality(UnderWay(g))]

\* A pass that is over without its effect, and may still have it.
LeftOver(p) == answer[p] \in {"executing", "unknown"} /\ ~Acted(p)
Loose == {owner[p] : p \in {q \in Passes : LeftOver(q)}}

AsThePassesSay == owed' = Owed' /\ loose' = Loose'

-----------------------------------------------------------------------------
(* The passes.                                                              *)

Starts(p) ==
    /\ ~Begun(p)
    /\ ReceiveClaim
    /\ owner' = [owner EXCEPT ![p] = current]
    /\ UNCHANGED <<contractVars, heard>>

XnchAuthorises(p) ==
    /\ Begun(p)
    /\ Contract!Authorise(p)
    /\ UNCHANGED <<vars, owner, heard>>

\* The runner takes the execution of a pass, or xnch the synthetic outcome in its
\* place, be the pass under way or long over.
Acts(p, ref) ==
    /\ Begun(p)
    /\ Contract!Run(p, ref) \/ Contract!Stub(p, ref)
    /\ owed[owner[p]] < MaxOwed
    /\ IF Open(p)
       THEN pc' = "acted" /\ UNCHANGED doubt
       ELSE doubt' = doubt \union {owner[p]} /\ UNCHANGED pc
    /\ UNCHANGED <<status, posted, current, call, errors, crashes, late, stopped, over, again,
                   owner, heard>>
    /\ AsThePassesSay

\* The pass ends and the loop makes of it what it can.
Ends(p) ==
    /\ Open(p)
    /\ \/ Contract!Answer(p, "executing") /\ PassReturns("EXECUTING")
       \/ /\ Contract!Answer(p, "refused")
          /\ PassReturns("ESCALATED") \/ PassNeedsClarification \/ PassRaises
       \/ Contract!Answer(p, "unknown") /\ PassRaises
    /\ UNCHANGED <<owner, heard>>
    /\ AsThePassesSay

\* The outcome of an execution arrives, or is lost for good.
Hears(p) ==
    /\ Begun(p) /\ p \in UnderWay(owner[p])
    /\ heard' = heard \union {p}
    /\ MovesOn(owner[p]) \/ UNCHANGED status
    /\ UNCHANGED <<posted, loopVars, errors, crashes, historyVars, contractVars, owner>>
    /\ AsThePassesSay

\* The process stops, and with it the pass under way if there is one.
Stops ==
    /\ Stop
    /\ \/ \E p \in Passes : Open(p) /\ Contract!Answer(p, "unknown")
       \/ (\A p \in Passes : ~Open(p)) /\ UNCHANGED contractVars
    /\ UNCHANGED <<owner, heard>>
    /\ AsThePassesSay

\* Whatever the loop and xnch do without a pass.
Aside ==
    /\ \/ Poll \/ ClaimFails \/ UpdateReturns \/ UpdateFails
       \/ \E g \in Goals : XnchGrants(g) \/ LeaseLapses(g)
       \/ \E u \in Updates : XnchApplies(u) \/ UpdateLost(u)
    /\ UNCHANGED passVars

PassesNext ==
    \/ \E p \in Passes :
          \/ Starts(p) \/ XnchAuthorises(p) \/ Ends(p) \/ Hears(p)
          \/ \E ref \in Refs : Acts(p, ref)
    \/ Stops
    \/ Aside

PassesSpec == PassesInit /\ [][PassesNext]_<<vars, passVars>>

-----------------------------------------------------------------------------
(* Properties.                                                              *)

\* The passes of a goal and the loop agree on what is under way: one open pass
\* while the loop waits for one and none else, and owed and loose are what the
\* passes left.
PassesInv ==
    /\ \A p \in Passes :
          /\ Begun(p) => owner[p] \in Goals
          /\ ~Begun(p) => answer[p] = "none" /\ effect[p] = {}
          /\ Open(p) => /\ pc = IF Acted(p) THEN "acted" ELSE "stepping"
                        /\ owner[p] = current
          /\ \A q \in Passes : Open(p) /\ Open(q) => p = q
    /\ pc \in {"stepping", "acted"} => \E p \in Passes : Open(p)
    /\ owed = Owed /\ loose = Loose

\* The loop does with its passes what GoalDriver says, and each of them what
\* EffectContract says.
ImplementsDriver == Spec
ImplementsContract == Contract!Spec

\* Without a lost answer, a restart, a lapsed lease or a late update no two
\* passes of a goal are under way at the same time.
OneUnderWay == \A g \in Goals \ doubt : \A p, q \in UnderWay(g) : p = q

\* The next step of such a goal is started only when xnch has heard the end of
\* the one before it.
StartsAfterOutcome ==
    [][\A p \in Passes : Starts(p) /\ current \notin doubt => UnderWay(current) = {}]_
        <<vars, passVars>>
=============================================================================
