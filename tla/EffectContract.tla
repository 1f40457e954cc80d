--------------------------- MODULE EffectContract ---------------------------
(***************************************************************************)
(* What a decision pass promises the rest of the stack, apart from how     *)
(* pipeline/run.py keeps the promise.  A pass has at most one effect on    *)
(* the world: one execution taken by the runner ("run"), or one synthetic  *)
(* SUCCESS outcome ("stub"), each under its execution_ref.  No effect      *)
(* comes before xnch issued an execution token, and a pass that was        *)
(* answered "refused" has none, then or later.  An execution is taken      *)
(* before the caller is told, except by a caller who was never answered    *)
(* ("unknown").                                                            *)
(***************************************************************************)
CONSTANTS Passes,  \* the passes
          Refs     \* the execution_refs a pass may make

VARIABLES authorised,  \* has xnch issued a token for this pass's decision
          effect,      \* what the pass did to the world, a set of effects
          answer       \* what the caller was told

vars == <<authorised, effect, answer>>

Effects == {"run", "stub"} \X Refs
Answers == {"none", "executing", "refused", "unknown"}

TypeOK ==
    /\ authorised \in [Passes -> BOOLEAN]
    /\ effect \in [Passes -> SUBSET Effects]
    /\ answer \in [Passes -> Answers]

Init ==
    /\ authorised = [p \in Passes |-> FALSE]
    /\ effect = [p \in Passes |-> {}]
    /\ answer = [p \in Passes |-> "none"]

\* xnch may issue a token at any time, even to a pass that stopped waiting.
Authorise(p) ==
    /\ authorised' = [authorised EXCEPT ![p] = TRUE]
    /\ UNCHANGED <<effect, answer>>

\* The runner takes the action while the caller has no definite answer.
Run(p, ref) ==
    /\ authorised[p]
    /\ effect[p] = {}
    /\ answer[p] \in {"none", "unknown"}
    /\ effect' = [effect EXCEPT ![p] = {<<"run", ref>>}]
    /\ UNCHANGED <<authorised, answer>>

\* The synthetic outcome may be recorded after the caller stopped waiting for it.
Stub(p, ref) ==
    /\ authorised[p]
    /\ effect[p] = {}
    /\ answer[p] # "refused"
    /\ effect' = [effect EXCEPT ![p] = {<<"stub", ref>>}]
    /\ UNCHANGED <<authorised, answer>>

\* A refusal is definite: it is only given by a pass without effect.
Answer(p, a) ==
    /\ answer[p] = "none"
    /\ a = "refused" => effect[p] = {}
    /\ a = "executing" => authorised[p]
    /\ answer' = [answer EXCEPT ![p] = a]
    /\ UNCHANGED <<authorised, effect>>

Next == \E p \in Passes :
    \/ Authorise(p)
    \/ \E ref \in Refs : Run(p, ref) \/ Stub(p, ref)
    \/ \E a \in Answers \ {"none"} : Answer(p, a)

Spec == Init /\ [][Next]_vars

\* An effect is never undone, replaced or joined by another, and was authorised
\* beforehand: what dispatch_execution may assume of every pass that calls it.
EffectIsFinal ==
    [][\A p \in Passes : effect'[p] # effect[p] => effect[p] = {} /\ authorised[p]]_vars

\* A pass whose caller was told that it stopped has had no effect.
RefusalIsTrue == \A p \in Passes : answer[p] = "refused" => effect[p] = {}
=============================================================================
