--------------------------- MODULE MCIntentCache ----------------------------
(* Instances of IntentCache for TLC: two spellings of a free text, two of a *)
(* text with a rule, and one of each that the injection scan does not pass. *)
EXTENDS IntentCache

MCInputs == {"foo", "Foo", "deploy", "Deploy", "FOO!"}
MCClean == MCInputs \ {"FOO!"}
MCKeys == {"foo", "deploy"}
MCKeyOf == [i \in MCInputs |-> IF i \in {"deploy", "Deploy"} THEN "deploy" ELSE "foo"]
MCRuleOf == [i \in MCInputs |-> IF i \in {"deploy", "Deploy"} THEN "DEPLOY" ELSE NoRule]
=============================================================================
