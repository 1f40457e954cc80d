---------------------------- MODULE IntentCache -----------------------------
(***************************************************************************)
(* IntentInterpreter.interpret (pipeline/intent_interpreter.py): what a    *)
(* request means is decided by a rule, by what Redis remembers of an       *)
(* earlier request, or by a language model, in this order; a model that    *)
(* does not answer is replaced by a harmless guess.  All but the recalled  *)
(* answers are stored for seven days under the lower-cased, stripped text. *)
(*                                                                         *)
(* Any number of requests run at the same time.  Between its lookup and    *)
(* its store a request waits for the model, and the others go on.  The     *)
(* Redis client is a synchronous one without a timeout: while a request is *)
(* in a call of Redis nothing else in the process moves.  Redis may refuse *)
(* at any time - then a lookup finds nothing and a store does nothing - or *)
(* fall silent: then a call does not end, and neither does the stand-still. *)
(***************************************************************************)
EXTENDS Naturals

CONSTANTS
    Requests,  \* concurrent calls of interpret, each with its own session
    Inputs,    \* the texts that are sent
    Clean,     \* those that pass the injection scan (external)
    Keys,      \* _intent_cache_key: texts that differ in case share a key
    KeyOf,     \* the key of each text
    Classes,   \* intent class and action type
    NoRule,    \* not a class
    RuleOf,    \* the class a rule gives each text, if one does
    Harmless,  \* QUERY/ANALYZE, the guess
    Nothing    \* no entry, no answer

ASSUME InputsAssumption == Clean \subseteq Inputs /\ KeyOf \in [Inputs -> Keys]
ASSUME ClassesAssumption == Harmless \in Classes /\ NoRule \notin Classes
ASSUME RulesAssumption == RuleOf \in [Inputs -> Classes \union {NoRule}]
\* The rules ignore case and surrounding space, like the key.
ASSUME RulesFollowKeys ==
    \A i, j \in Inputs : KeyOf[i] = KeyOf[j] => RuleOf[i] = RuleOf[j]

VARIABLES
    cache,    \* Redis
    pc,       \* where each request is
    input,    \* its text
    held,     \* the meaning it is about to store and return
    answer,   \* the intent it returned
    silent,   \* Redis takes calls and does not answer them any more
    \* history, for the properties only:
    blind,    \* requests whose lookup got no usable answer from Redis
    overtaken \* requests under whose key another one has stored since their lookup

vars == <<cache, pc, input, held, answer, silent, blind, overtaken>>

\* Whose entity the intent names, and whether the ambiguity score is that of a
\* guess (0.5) or of a classification (0).
Meanings == [class : Classes, target : Inputs, guess : BOOLEAN]
Intents == [meaning : Meanings, session : Requests]

ASSUME NothingAssumption == Nothing \notin Meanings \union Intents

TypeOK ==
    /\ cache \in [Keys -> Meanings \union {Nothing}]
    /\ pc \in [Requests -> {"idle", "recalling", "asking", "storing",
                            "answered", "clarify", "refused"}]
    /\ input \in [Requests -> Inputs]
    /\ held \in [Requests -> Meanings \union {Nothing}]
    /\ answer \in [Requests -> Intents \union {Nothing}]
    /\ \A r \in Requests : /\ pc[r] = "storing" <=> held[r] # Nothing
                           /\ pc[r] = "answered" <=> answer[r] # Nothing
    /\ silent \in BOOLEAN
    /\ blind \subseteq Requests /\ overtaken \subseteq Requests

Key(r) == KeyOf[input[r]]

\* Nobody is in a call of Redis, so that the event loop runs.
Free == \A r \in Requests : pc[r] \notin {"recalling", "storing"}

Init ==
    /\ cache = [k \in Keys |-> Nothing]
    /\ pc = [r \in Requests |-> "idle"]
    /\ input \in [Requests -> Inputs]
    /\ held = [r \in Requests |-> Nothing]
    /\ answer = [r \in Requests |-> Nothing]
    /\ silent = FALSE
    /\ blind = {} /\ overtaken = {}

-----------------------------------------------------------------------------

Ended == {"answered", "clarify", "refused"}

\* Defect: what the last call returned is still there.
Begin_KeepsAnswer(r) ==
    /\ pc[r] \in Ended /\ Free
    /\ pc' = [pc EXCEPT ![r] = "idle"]
    /\ \E i \in Inputs : input' = [input EXCEPT ![r] = i]
    /\ blind' = blind \ {r} /\ overtaken' = overtaken \ {r}
    /\ UNCHANGED <<cache, held, answer, silent>>

\* A caller asks for the meaning of another text.
Begin(r) ==
    /\ pc[r] \in Ended /\ Free
    /\ pc' = [pc EXCEPT ![r] = "idle"]
    /\ answer' = [answer EXCEPT ![r] = Nothing]
    /\ \E i \in Inputs : input' = [input EXCEPT ![r] = i]
    /\ blind' = blind \ {r} /\ overtaken' = overtaken \ {r}
    /\ UNCHANGED <<cache, held, silent>>

Refuse(r) ==
    /\ pc[r] = "idle" /\ input[r] \notin Clean /\ Free
    /\ pc' = [pc EXCEPT ![r] = "refused"]
    /\ UNCHANGED <<cache, input, held, answer, silent, blind, overtaken>>

Return(r, m) ==
    /\ pc' = [pc EXCEPT ![r] = "answered"]
    /\ answer' = [answer EXCEPT ![r] = [meaning |-> m, session |-> r]]

\* The meaning is made, and client.set is called.
SendStore(r, m) ==
    /\ Free
    /\ held' = [held EXCEPT ![r] = m]
    /\ pc' = [pc EXCEPT ![r] = "storing"]
    /\ UNCHANGED <<cache, input, answer, silent, blind, overtaken>>

\* A rule answers without a look at the cache, and stores its answer there.
AnswerByRule(r) ==
    /\ pc[r] = "idle" /\ input[r] \in Clean /\ RuleOf[input[r]] # NoRule
    /\ SendStore(r, [class |-> RuleOf[input[r]], target |-> input[r], guess |-> FALSE])

\* Defect: the cache is asked before the rules.
NeedsLookup_BeforeRules(r) == pc[r] = "idle" /\ input[r] \in Clean

\* Defect: the cache is asked before the injection scan.
NeedsLookup_BeforeScan(r) == pc[r] = "idle" /\ RuleOf[input[r]] = NoRule

NeedsLookup(r) ==
    /\ pc[r] = "idle" /\ input[r] \in Clean /\ RuleOf[input[r]] = NoRule

\* _recall_intent calls client.get.
LookUp(r) ==
    /\ NeedsLookup(r) /\ Free
    /\ pc' = [pc EXCEPT ![r] = "recalling"]
    /\ UNCHANGED <<cache, input, held, answer, silent, blind, overtaken>>

\* Defect: an entry that another spelling stored is passed over.
Hit_SameSpelling(r) == cache[Key(r)] # Nothing /\ cache[Key(r)].target = input[r]

\* The entry of any text with this key, whoever sent it.
Hit(r) == cache[Key(r)] # Nothing

\* The recalled intent gets the caller's session in place of the zero one.
Recall(r) ==
    /\ pc[r] = "recalling" /\ ~silent /\ Hit(r)
    /\ Return(r, cache[Key(r)])
    /\ UNCHANGED <<cache, input, held, silent, blind, overtaken>>

\* There is no entry, or Redis refuses the call, which counts as none.
Miss(r) ==
    /\ pc[r] = "recalling" /\ ~silent
    /\ \/ ~Hit(r) /\ UNCHANGED blind
       \/ blind' = blind \union {r}
    /\ pc' = [pc EXCEPT ![r] = "asking"]
    /\ UNCHANGED <<cache, input, held, answer, silent, overtaken>>

\* The model classifies, with an entity of its own reading of the text.
Classify(r) ==
    /\ pc[r] = "asking"
    /\ \E c \in Classes :
        SendStore(r, [class |-> c, target |-> input[r], guess |-> FALSE])

\* The model finds the text ambiguous: ClarificationRequired, nothing is stored.
Clarify(r) ==
    /\ pc[r] = "asking" /\ Free
    /\ pc' = [pc EXCEPT ![r] = "clarify"]
    /\ UNCHANGED <<cache, input, held, answer, silent, blind, overtaken>>

\* Defect: the client of the model has no timeout.
Guess_NoTimeout(r) == FALSE

\* No answer in time, or none that can be used: the guess is returned, and stored
\* like a classification.
Guess(r) ==
    /\ pc[r] = "asking"
    /\ SendStore(r, [class |-> Harmless, target |-> input[r], guess |-> TRUE])

\* Redis executes the SET of r.
Put(r) ==
    /\ cache' = [cache EXCEPT ![Key(r)] = held[r]]
    /\ overtaken' = overtaken \union
         {q \in Requests \ {r} : pc[q] = "asking" /\ Key(q) = Key(r)}

\* _persist_intent ends: stored, or refused, which costs a warning only.
EndStore(r) ==
    /\ pc[r] = "storing" /\ ~silent
    /\ Put(r) \/ UNCHANGED <<cache, overtaken>>
    /\ Return(r, held[r])
    /\ held' = [held EXCEPT ![r] = Nothing]
    /\ UNCHANGED <<input, silent, blind>>

\* External: Redis falls silent for good, before or after it executed the SET that
\* it was sent.
FallSilent ==
    /\ ~silent /\ silent' = TRUE
    /\ \/ UNCHANGED <<cache, overtaken>>
       \/ \E r \in Requests : pc[r] = "storing" /\ Put(r)
    /\ UNCHANGED <<pc, input, held, answer, blind>>

\* External: an entry's seven days are over, or Redis drops it.
Expire(k) ==
    /\ cache[k] # Nothing
    /\ cache' = [cache EXCEPT ![k] = Nothing]
    /\ UNCHANGED <<pc, input, held, answer, silent, blind, overtaken>>

Next ==
    \/ \E r \in Requests :
        \/ Begin(r) \/ Refuse(r) \/ AnswerByRule(r) \/ LookUp(r) \/ Recall(r) \/ Miss(r)
        \/ Classify(r) \/ Clarify(r) \/ Guess(r) \/ EndStore(r)
    \/ FallSilent
    \/ \E k \in Keys : Expire(k)

Spec == Init /\ [][Next]_vars

\* The event loop puts no request off for ever, however often others hold it up in
\* Redis, and the question to the model has a timeout.  A call of Redis ends only
\* while Redis answers or refuses.  The model need not answer, no entry has to
\* expire and no caller has to come back.
Fairness ==
    \A r \in Requests :
        /\ SF_vars(Refuse(r) \/ AnswerByRule(r) \/ LookUp(r))
        /\ SF_vars(Guess(r))
        /\ WF_vars(Recall(r) \/ Miss(r) \/ EndStore(r))

FairSpec == Spec /\ Fairness

-----------------------------------------------------------------------------

\* What a rule says of a text is never contradicted by what is stored under its
\* key, whichever spelling stored it: neither a model's reading nor a guess.
CacheAgreesWithRules ==
    \A i \in Inputs :
        RuleOf[i] # NoRule /\ cache[KeyOf[i]] # Nothing =>
            /\ cache[KeyOf[i]].class = RuleOf[i]
            /\ ~cache[KeyOf[i]].guess

\* Nothing that failed the injection scan comes back: every entity named by an
\* entry or an answer was read from a clean text with the same key, and an answer
\* carries the session of the request it is given to, recalled or not.
AnswersAreOwn ==
    /\ \A k \in Keys : cache[k] # Nothing =>
        cache[k].target \in Clean /\ KeyOf[cache[k].target] = k
    /\ \A r \in Requests : pc[r] = "answered" =>
        /\ answer[r].session = r
        /\ answer[r].meaning.target \in Clean
        /\ KeyOf[answer[r].meaning.target] = Key(r)

\* As long as it is stored, what a key means changes only by a request that was
\* overtaken while it waited for the model, or that Redis refused: the late guess of
\* a timed-out request can replace a classification (and stay for seven days), but
\* a request that looks after the store cannot.
MeaningIsStable ==
    [][\A k \in Keys :
         /\ cache[k] # Nothing /\ cache'[k] # Nothing
         /\ cache'[k].class # cache[k].class \/ cache'[k].guess # cache[k].guess
         => \E r \in Requests :
              pc[r] = "storing" /\ Key(r) = k /\ r \in blind \union overtaken]_vars

\* Every request ends - with an intent, a refusal or a question to the caller - or
\* the whole process stands still in a call that a silent Redis does not end.  The
\* model's silence costs a timeout; that of Redis, which has none, costs everything
\* that runs in the event loop.
EveryRequestEnds ==
    \A r \in Requests : pc[r] \notin Ended ~> pc[r] \in Ended \/ (silent /\ ~Free)
=============================================================================
