----------------------------- MODULE MCPlanning -----------------------------
\* Three options, so that a ranking has a first, a second and a rest; options
\* that tie, that differ in one score only, that lack a type or a target; and
\* contexts with both kinds of weights, an agent, weights xnch got wrong, an
\* intent without a target and one without an entity class.
EXTENDS Planning

Spec1(type, target, fields) == [type |-> type, target |-> target, fields |-> fields]
Option(spec, reversible, effects) ==
    [action |-> spec.type, spec |-> spec, hash |-> spec,
     reversible |-> reversible, effects |-> effects]

MCTypes == {NoType, "BACKUP", "DEPLOY", "ANALYZE", "ESCALATE", "READ_FILE", "LIST"}
MCModelOptions ==
    {Option(Spec1("BACKUP", TRUE, {"scope"}), TRUE, 1),
     Option(Spec1("DEPLOY", TRUE, {"scope"}), FALSE, 5),
     Option(Spec1("DEPLOY", TRUE, {}), FALSE, 5),
     Option(Spec1(NoType, TRUE, {"scope"}), TRUE, 0),
     Option(Spec1("BACKUP", FALSE, {"scope"}), TRUE, 1)}
MCSpecs == {NoSpec, Spec1("BACKUP", TRUE, {}), Spec1(NoType, TRUE, {"scope"})}

Execution == [policy |-> 25, outcome |-> 30, risk |-> 35, fit |-> 10]
Query == [policy |-> 20, outcome |-> 30, risk |-> 20, fit |-> 30]
Heavy == [policy |-> 60, outcome |-> 30, risk |-> 35, fit |-> 10]

Context(sensitivity, agent, known, constraints, weights) ==
    [classed |-> TRUE, sensitivity |-> sensitivity, agent |-> agent,
     outcome |-> [t \in MCTypes |-> IF t = "BACKUP" THEN known ELSE 50],
     constraints |-> constraints, weights |-> weights]
Plain == Context(50, FALSE, 56, {"scope"}, Execution)
ByAgent == Context(90, TRUE, 10, {}, Query)
Unaddressed == Context(20, FALSE, 50, {"scope", "commit"}, Heavy)
Broken == Context(30, TRUE, 90, {}, Malformed)
Unclassed == [Context(30, FALSE, 50, {}, Query) EXCEPT !.classed = FALSE]
MCContexts == {Plain, ByAgent, Unaddressed, Broken, Unclassed}
MCAddressed == {Plain, ByAgent, Broken, Unclassed}
MCClassOf == [c \in MCContexts |-> IF c = ByAgent THEN "QUERY"
                                   ELSE IF c = Broken THEN "ESCALATION" ELSE "EXECUTION"]
MCOptions ==
    MCModelOptions \union
        {RuleBasedOption(Templates[MCClassOf[c]][i], c \in MCAddressed) :
            c \in MCContexts, i \in 1..3}
=============================================================================
