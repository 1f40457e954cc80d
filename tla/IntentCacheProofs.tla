-------------------------- MODULE IntentCacheProofs -------------------------
(***************************************************************************)
(* Proofs about IntentCache, for any number of concurrent requests and any *)
(* texts, rules and keys.                                                  *)
(*                                                                         *)
(* What the stated invariants lack to be inductive is what a request knows *)
(* at each of its stages: while it waits for Redis or the model, that its  *)
(* text is clean and has no rule; while it waits for the model, that       *)
(* nothing is stored, if Redis answered and nobody has overtaken it; and   *)
(* that what it stores fits its text.  One request at most is in a call of *)
(* Redis.                                                                  *)
(***************************************************************************)
EXTENDS IntentCache, TLAPS

\* A meaning is fit to be returned and stored by r: read from r's clean text, and
\* the rule's answer if the text has one.
Fit(r, m) ==
    /\ m \in Meanings
    /\ m.target = input[r] /\ input[r] \in Clean
    /\ RuleOf[input[r]] # NoRule => m.class = RuleOf[input[r]] /\ m.guess = FALSE

AskingKnows ==
    \A r \in Requests : pc[r] \in {"recalling", "asking"} =>
        /\ input[r] \in Clean /\ RuleOf[input[r]] = NoRule
        /\ pc[r] = "asking" /\ r \notin blind \union overtaken => cache[Key(r)] = Nothing

StoringKnows ==
    \A r \in Requests : pc[r] = "storing" =>
        /\ Fit(r, held[r])
        /\ RuleOf[input[r]] = NoRule /\ ~silent /\ r \notin blind \union overtaken
            => cache[Key(r)] = Nothing

InCall(r) == pc[r] \in {"recalling", "storing"}
OneCall == \A q, r \in Requests : InCall(q) /\ InCall(r) => q = r

KnowInv == AskingKnows /\ StoringKnows /\ OneCall

IInv == TypeOK /\ CacheAgreesWithRules /\ AnswersAreOwn /\ KnowInv

\* The key of a request is a key, whatever its text.
LEMMA KeyIsKey ==
    ASSUME TypeOK, NEW r \in Requests
    PROVE  Key(r) \in Keys /\ Key(r) = KeyOf[input[r]] /\ input[r] \in Inputs
BY InputsAssumption DEF TypeOK, Key

\* What a request fits does not depend on anything but its text.
LEMMA FitIsFixed ==
    ASSUME input' = input, NEW r \in Requests, NEW m, Fit(r, m)
    PROVE  Fit(r, m)'
BY DEF Fit

LEMMA InitEstablishes == Init => IInv
<1>. SUFFICES ASSUME Init PROVE IInv
    OBVIOUS
<1>1. TypeOK
    BY DEF Init, TypeOK
<1>2. CacheAgreesWithRules /\ AnswersAreOwn /\ KnowInv
    BY InputsAssumption DEF Init, CacheAgreesWithRules, AnswersAreOwn, KnowInv, AskingKnows,
                            StoringKnows, OneCall, InCall
<1>. QED BY <1>1, <1>2 DEF IInv

-----------------------------------------------------------------------------
(* Redis executes a SET.                                                   *)

\* The entries stay in line with the rules and with the texts they were read from,
\* and who waits for the model with an empty key is overtaken.
LEMMA PutKeeps ==
    ASSUME IInv, NEW r \in Requests, pc[r] = "storing",
           Put(r) \/ UNCHANGED <<cache, overtaken>>, UNCHANGED <<input, blind>>
    PROVE  /\ cache' \in [Keys -> Meanings \union {Nothing}] /\ overtaken' \subseteq Requests
           /\ CacheAgreesWithRules'
           /\ \A k \in Keys : cache'[k] # Nothing =>
                cache'[k].target \in Clean /\ KeyOf[cache'[k].target] = k
           /\ \A q \in Requests : pc[q] = "asking" /\ q \notin blind' \union overtaken' =>
                cache'[Key(q)] = Nothing
<1>1. Fit(r, held[r]) /\ held[r] \in Meanings
    BY DEF IInv, KnowInv, StoringKnows, Fit
<1>2. /\ Key(r) \in Keys /\ Key(r) = KeyOf[input[r]] /\ input[r] \in Inputs
      /\ \A q \in Requests : Key(q) \in Keys
    BY KeyIsKey DEF IInv
<1>3. cache' \in [Keys -> Meanings \union {Nothing}] /\ overtaken' \subseteq Requests
    BY <1>1, <1>2 DEF IInv, TypeOK, Put
<1>4. \A k \in Keys : cache'[k] = cache[k] \/ (k = Key(r) /\ cache'[k] = held[r])
    BY DEF IInv, TypeOK, Put
<1>5. CacheAgreesWithRules'
    <2>. SUFFICES ASSUME NEW i \in Inputs, RuleOf[i] # NoRule, cache'[KeyOf[i]] # Nothing
                  PROVE  cache'[KeyOf[i]].class = RuleOf[i] /\ ~cache'[KeyOf[i]].guess
        BY DEF CacheAgreesWithRules
    <2>1. KeyOf[i] \in Keys
        BY InputsAssumption
    <2>2. CASE cache'[KeyOf[i]] = cache[KeyOf[i]]
        BY <2>2 DEF IInv, CacheAgreesWithRules
    <2>3. CASE KeyOf[i] = Key(r) /\ cache'[KeyOf[i]] = held[r]
        <3>1. RuleOf[i] = RuleOf[input[r]]
            BY <1>2, <2>3, RulesFollowKeys
        <3>. QED BY <1>1, <2>3, <3>1 DEF Fit
    <2>. QED BY <1>4, <2>1, <2>2, <2>3
<1>6. ASSUME NEW k \in Keys, cache'[k] # Nothing
      PROVE  cache'[k].target \in Clean /\ KeyOf[cache'[k].target] = k
    BY <1>1, <1>2, <1>4, <1>6 DEF IInv, AnswersAreOwn, Fit
<1>7. ASSUME NEW q \in Requests, pc[q] = "asking", q \notin blind' \union overtaken'
      PROVE  cache'[Key(q)] = Nothing
    <2>1. q # r /\ q \notin blind \union overtaken
        BY <1>7 DEF Put
    <2>2. cache[Key(q)] = Nothing
        BY <1>7, <2>1 DEF IInv, KnowInv, AskingKnows
    <2>3. cache'[Key(q)] = cache[Key(q)]
        <3>1. CASE UNCHANGED <<cache, overtaken>>
            BY <3>1
        <3>2. CASE Put(r)
            <4>1. Key(q) # Key(r)
                BY <1>7, <2>1, <3>2 DEF Put
            <4>. QED BY <1>2, <3>2, <4>1 DEF IInv, TypeOK, Put
        <3>. QED BY <3>1, <3>2
    <2>. QED BY <2>2, <2>3
<1>. QED BY <1>3, <1>5, <1>6, <1>7

LEMMA EndStoreKeeps == ASSUME IInv, NEW r \in Requests, EndStore(r) PROVE IInv'
<1>. DEFINE intent == [meaning |-> held[r], session |-> r]
<1>1. /\ cache' \in [Keys -> Meanings \union {Nothing}] /\ overtaken' \subseteq Requests
      /\ CacheAgreesWithRules'
      /\ \A k \in Keys : cache'[k] # Nothing =>
            cache'[k].target \in Clean /\ KeyOf[cache'[k].target] = k
      /\ \A q \in Requests : pc[q] = "asking" /\ q \notin blind' \union overtaken' =>
            cache'[Key(q)] = Nothing
    BY PutKeeps DEF EndStore
<1>2. Fit(r, held[r]) /\ held[r] \in Meanings
    BY DEF IInv, KnowInv, StoringKnows, EndStore, Fit
<1>3. intent \in Intents /\ intent # Nothing
    BY <1>2, NothingAssumption DEF Intents
<1>4. \A q \in Requests : Key(q)' = Key(q) /\ Key(q) = KeyOf[input[q]]
    BY KeyIsKey DEF IInv, EndStore, Key
<1>5. /\ pc[r] = "storing" /\ pc'[r] = "answered" /\ held'[r] = Nothing
      /\ answer'[r] = intent
      /\ \A q \in Requests : q # r =>
            pc'[q] = pc[q] /\ held'[q] = held[q] /\ answer'[q] = answer[q]
    BY DEF EndStore, Return, IInv, TypeOK
<1>6. TypeOK'
    <2>1. /\ pc' \in [Requests -> {"idle", "recalling", "asking", "storing",
                                   "answered", "clarify", "refused"}]
          /\ held' \in [Requests -> Meanings \union {Nothing}]
          /\ answer' \in [Requests -> Intents \union {Nothing}]
        BY <1>3 DEF IInv, TypeOK, EndStore, Return
    <2>2. \A q \in Requests : /\ pc'[q] = "storing" <=> held'[q] # Nothing
                              /\ pc'[q] = "answered" <=> answer'[q] # Nothing
        BY <1>3, <1>5 DEF IInv, TypeOK
    <2>. QED BY <1>1, <2>1, <2>2 DEF IInv, TypeOK, EndStore
<1>7. AnswersAreOwn'
    <2>1. ASSUME NEW q \in Requests, pc'[q] = "answered"
          PROVE  /\ answer'[q].session = q
                 /\ answer'[q].meaning.target \in Clean
                 /\ KeyOf[answer'[q].meaning.target] = Key(q)'
        <3>1. CASE q = r
            BY <1>2, <1>4, <1>5, <3>1 DEF Fit
        <3>2. CASE q # r
            BY <1>4, <1>5, <2>1, <3>2 DEF IInv, AnswersAreOwn
        <3>. QED BY <3>1, <3>2
    <2>. QED BY <1>1, <2>1 DEF AnswersAreOwn
<1>8. AskingKnows'
    BY <1>1, <1>4, <1>5 DEF IInv, KnowInv, AskingKnows, EndStore
<1>9. \A q \in Requests : ~InCall(q)'
    BY <1>5 DEF IInv, KnowInv, OneCall, InCall
<1>10. StoringKnows' /\ OneCall'
    BY <1>9 DEF StoringKnows, OneCall, InCall
<1>. QED BY <1>1, <1>6, <1>7, <1>8, <1>10 DEF IInv, KnowInv

LEMMA FallSilentKeeps == IInv /\ FallSilent => IInv'
<1>. SUFFICES ASSUME IInv, FallSilent PROVE IInv'
    OBVIOUS
<1>1. \A q \in Requests : Key(q)' = Key(q)
    BY DEF FallSilent, Key
<1>2. silent' = TRUE /\ UNCHANGED <<pc, input, held, answer, blind>>
    BY DEF FallSilent
<1>3. /\ cache' \in [Keys -> Meanings \union {Nothing}] /\ overtaken' \subseteq Requests
      /\ CacheAgreesWithRules'
      /\ \A k \in Keys : cache'[k] # Nothing =>
            cache'[k].target \in Clean /\ KeyOf[cache'[k].target] = k
      /\ \A q \in Requests : pc[q] = "asking" /\ q \notin blind' \union overtaken' =>
            cache'[Key(q)] = Nothing
    <2>1. CASE UNCHANGED <<cache, overtaken>>
        BY <1>2, <2>1
        DEF IInv, TypeOK, CacheAgreesWithRules, AnswersAreOwn, KnowInv, AskingKnows
    <2>2. CASE \E r \in Requests : pc[r] = "storing" /\ Put(r)
        BY <1>2, <2>2, PutKeeps
    <2>. QED BY <2>1, <2>2 DEF FallSilent
<1>4. TypeOK'
    BY <1>2, <1>3 DEF IInv, TypeOK
<1>5. AnswersAreOwn'
    BY <1>1, <1>2, <1>3 DEF IInv, AnswersAreOwn
<1>6. AskingKnows'
    BY <1>1, <1>2, <1>3 DEF IInv, KnowInv, AskingKnows
<1>7. StoringKnows' /\ OneCall'
    BY <1>2, FitIsFixed DEF IInv, KnowInv, StoringKnows, OneCall, InCall
<1>. QED BY <1>3, <1>4, <1>5, <1>6, <1>7 DEF IInv, KnowInv

-----------------------------------------------------------------------------
(* A request makes a meaning of its own text and sends it to Redis.        *)

LEMMA SendStoreKeeps ==
    ASSUME IInv, NEW r \in Requests, NEW m, Fit(r, m), pc[r] \in {"idle", "asking"},
           RuleOf[input[r]] = NoRule => pc[r] = "asking",
           SendStore(r, m)
    PROVE  IInv'
<1>1. /\ UNCHANGED <<cache, input, answer, silent, blind, overtaken>>
      /\ \A q \in Requests : Key(q)' = Key(q)
    BY DEF SendStore, Key
<1>2. m \in Meanings /\ m # Nothing
    BY NothingAssumption DEF Fit
<1>3. /\ pc'[r] = "storing" /\ held'[r] = m
      /\ \A q \in Requests : q # r => pc'[q] = pc[q] /\ held'[q] = held[q]
    BY DEF SendStore, IInv, TypeOK
<1>4. TypeOK'
    <2>1. /\ pc' \in [Requests -> {"idle", "recalling", "asking", "storing",
                                   "answered", "clarify", "refused"}]
          /\ held' \in [Requests -> Meanings \union {Nothing}]
        BY <1>2 DEF IInv, TypeOK, SendStore
    <2>2. \A q \in Requests : /\ pc'[q] = "storing" <=> held'[q] # Nothing
                              /\ pc'[q] = "answered" <=> answer'[q] # Nothing
        BY <1>1, <1>2, <1>3 DEF IInv, TypeOK
    <2>. QED BY <1>1, <2>1, <2>2 DEF IInv, TypeOK
<1>5. CacheAgreesWithRules' /\ AnswersAreOwn'
    BY <1>1, <1>3 DEF IInv, CacheAgreesWithRules, AnswersAreOwn
<1>6. AskingKnows'
    BY <1>1, <1>3 DEF IInv, KnowInv, AskingKnows
<1>7. \A q \in Requests : ~InCall(q)
    BY DEF SendStore, Free, InCall
<1>8. StoringKnows'
    <2>1. Fit(r, m)'
        BY <1>1, FitIsFixed
    <2>2. RuleOf[input[r]] = NoRule /\ r \notin blind \union overtaken
            => cache[Key(r)] = Nothing
        BY DEF IInv, KnowInv, AskingKnows
    <2>3. \A q \in Requests : pc'[q] = "storing" => q = r
        BY <1>3, <1>7 DEF InCall
    <2>. QED BY <1>1, <1>3, <2>1, <2>2, <2>3 DEF StoringKnows
<1>9. OneCall'
    BY <1>3, <1>7 DEF OneCall, InCall
<1>. QED BY <1>4, <1>5, <1>6, <1>8, <1>9 DEF IInv, KnowInv

\* What a rule, the model and the guess make of a text is fit.
LEMMA MadeIsFit ==
    ASSUME IInv, NEW r \in Requests, NEW c \in Classes, NEW g \in BOOLEAN,
           input[r] \in Clean, RuleOf[input[r]] # NoRule => c = RuleOf[input[r]] /\ g = FALSE
    PROVE  Fit(r, [class |-> c, target |-> input[r], guess |-> g])
BY KeyIsKey DEF IInv, Fit, Meanings

LEMMA MakersKeep ==
    ASSUME IInv, NEW r \in Requests, AnswerByRule(r) \/ Classify(r) \/ Guess(r)
    PROVE  IInv'
<1>1. CASE AnswerByRule(r)
    <2>1. RuleOf[input[r]] \in Classes
        BY <1>1, KeyIsKey, RulesAssumption DEF IInv, AnswerByRule
    <2>2. Fit(r, [class |-> RuleOf[input[r]], target |-> input[r], guess |-> FALSE])
        BY <1>1, <2>1, MadeIsFit DEF AnswerByRule
    <2>. QED BY <1>1, <2>2, SendStoreKeeps DEF AnswerByRule
<1>2. CASE Classify(r)
    <2>1. PICK c \in Classes :
            SendStore(r, [class |-> c, target |-> input[r], guess |-> FALSE])
        BY <1>2 DEF Classify
    <2>2. pc[r] = "asking" /\ input[r] \in Clean /\ RuleOf[input[r]] = NoRule
        BY <1>2 DEF Classify, IInv, KnowInv, AskingKnows
    <2>. QED BY <2>1, <2>2, MadeIsFit, SendStoreKeeps
<1>3. CASE Guess(r)
    <2>1. pc[r] = "asking" /\ input[r] \in Clean /\ RuleOf[input[r]] = NoRule
        BY <1>3 DEF Guess, IInv, KnowInv, AskingKnows
    <2>. QED BY <1>3, <2>1, MadeIsFit, SendStoreKeeps, ClassesAssumption DEF Guess
<1>. QED BY <1>1, <1>2, <1>3

-----------------------------------------------------------------------------
(* The other actions.                                                      *)

LEMMA RecallKeeps == ASSUME IInv, NEW r \in Requests, Recall(r) PROVE IInv'
<1>. DEFINE intent == [meaning |-> cache[Key(r)], session |-> r]
<1>1. /\ \A q \in Requests : Key(q)' = Key(q) /\ Key(q) \in Keys
      /\ pc[r] = "recalling" /\ cache[Key(r)] # Nothing
      /\ UNCHANGED <<cache, input, held, silent, blind, overtaken>>
    BY KeyIsKey DEF IInv, Recall, Hit, Key
<1>2. cache[Key(r)] \in Meanings
    BY <1>1 DEF IInv, TypeOK
<1>3. intent \in Intents /\ intent # Nothing
    BY <1>2, NothingAssumption DEF Intents
<1>4. /\ pc'[r] = "answered" /\ answer'[r] = intent
      /\ \A q \in Requests : q # r => pc'[q] = pc[q] /\ answer'[q] = answer[q]
    BY DEF Recall, Return, IInv, TypeOK
<1>5. TypeOK'
    <2>1. /\ pc' \in [Requests -> {"idle", "recalling", "asking", "storing",
                                   "answered", "clarify", "refused"}]
          /\ answer' \in [Requests -> Intents \union {Nothing}]
        BY <1>3 DEF IInv, TypeOK, Recall, Return
    <2>2. \A q \in Requests : /\ pc'[q] = "storing" <=> held'[q] # Nothing
                              /\ pc'[q] = "answered" <=> answer'[q] # Nothing
        BY <1>1, <1>3, <1>4 DEF IInv, TypeOK
    <2>. QED BY <1>1, <2>1, <2>2 DEF IInv, TypeOK
<1>6. AnswersAreOwn'
    <2>1. ASSUME NEW q \in Requests, pc'[q] = "answered"
          PROVE  /\ answer'[q].session = q
                 /\ answer'[q].meaning.target \in Clean
                 /\ KeyOf[answer'[q].meaning.target] = Key(q)'
        <3>1. CASE q = r
            BY <1>1, <1>4, <3>1 DEF IInv, AnswersAreOwn
        <3>2. CASE q # r
            BY <1>1, <1>4, <2>1, <3>2 DEF IInv, AnswersAreOwn
        <3>. QED BY <3>1, <3>2
    <2>. QED BY <1>1, <2>1 DEF AnswersAreOwn, IInv
<1>7. KnowInv'
    BY <1>1, <1>4, FitIsFixed
    DEF IInv, KnowInv, AskingKnows, StoringKnows, OneCall, InCall
<1>. QED BY <1>1, <1>5, <1>6, <1>7 DEF IInv, CacheAgreesWithRules

LEMMA BeginKeeps == ASSUME IInv, NEW r \in Requests, Begin(r) PROVE IInv'
<1>1. /\ \A q \in Requests \ {r} : Key(q)' = Key(q) /\ input'[q] = input[q] /\ pc'[q] = pc[q]
      /\ pc'[r] = "idle"
    BY DEF IInv, TypeOK, Begin, Key
<1>2. TypeOK'
    BY DEF IInv, TypeOK, Begin, Ended
<1>3. AnswersAreOwn'
    BY <1>1 DEF IInv, TypeOK, Begin, AnswersAreOwn
<1>4. AskingKnows'
    BY <1>1 DEF IInv, KnowInv, Begin, AskingKnows
<1>5. \A q \in Requests : ~InCall(q)'
    BY <1>1 DEF Begin, Free, InCall
<1>6. StoringKnows' /\ OneCall'
    BY <1>5 DEF StoringKnows, OneCall, InCall
<1>. QED BY <1>2, <1>3, <1>4, <1>6 DEF IInv, KnowInv, CacheAgreesWithRules, Begin

\* Refusals, lookups, misses and questions to the caller only move the request on.
LEMMA MovesKeep ==
    ASSUME IInv, NEW r \in Requests, Refuse(r) \/ LookUp(r) \/ Miss(r) \/ Clarify(r)
    PROVE  IInv'
<1>1. /\ \A q \in Requests : Key(q)' = Key(q)
      /\ UNCHANGED <<cache, input, held, answer, silent, overtaken>>
    BY DEF Refuse, LookUp, Miss, Clarify, Key
<1>2. /\ pc[r] \in {"idle", "recalling", "asking"}
      /\ pc'[r] \in {"refused", "recalling", "asking", "clarify"}
      /\ \A q \in Requests : q # r => pc'[q] = pc[q]
      /\ blind' \in {blind, blind \union {r}}
    BY DEF IInv, TypeOK, Refuse, LookUp, NeedsLookup, Miss, Clarify
<1>3. pc' \in [Requests -> {"idle", "recalling", "asking", "storing",
                            "answered", "clarify", "refused"}]
    BY DEF IInv, TypeOK, Refuse, LookUp, Miss, Clarify
<1>4. TypeOK'
    BY <1>1, <1>2, <1>3 DEF IInv, TypeOK
<1>5. AnswersAreOwn'
    BY <1>1, <1>2 DEF IInv, AnswersAreOwn
<1>6. pc'[r] \in {"recalling", "asking"} => input[r] \in Clean /\ RuleOf[input[r]] = NoRule
    BY DEF IInv, TypeOK, KnowInv, AskingKnows, Refuse, LookUp, NeedsLookup, Miss, Clarify
<1>7. pc'[r] = "asking" /\ r \notin blind' => cache[Key(r)] = Nothing
    BY DEF IInv, TypeOK, Refuse, LookUp, Miss, Hit, Clarify
<1>8. AskingKnows'
    BY <1>1, <1>2, <1>6, <1>7 DEF IInv, KnowInv, AskingKnows
<1>9. StoringKnows'
    BY <1>1, <1>2, FitIsFixed DEF IInv, KnowInv, StoringKnows
<1>10. OneCall'
    <2>1. CASE pc'[r] = "recalling"
        <3>1. \A q \in Requests : ~InCall(q)
            BY <2>1 DEF IInv, TypeOK, Refuse, LookUp, Miss, Clarify, Free, InCall
        <3>. QED BY <1>2, <3>1 DEF OneCall, InCall
    <2>2. CASE pc'[r] # "recalling"
        BY <1>2, <2>2 DEF IInv, KnowInv, OneCall, InCall
    <2>. QED BY <2>1, <2>2
<1>. QED BY <1>1, <1>4, <1>5, <1>8, <1>9, <1>10 DEF IInv, KnowInv, CacheAgreesWithRules

LEMMA ExpireKeeps == ASSUME IInv, NEW k \in Keys, Expire(k) PROVE IInv'
<1>1. /\ \A q \in Requests : Key(q)' = Key(q) /\ Key(q) \in Keys
      /\ UNCHANGED <<pc, input, held, answer, silent, blind, overtaken>>
    BY KeyIsKey DEF Expire, Key, IInv
<1>2. \A j \in Keys : cache'[j] \in {cache[j], Nothing}
    BY DEF IInv, TypeOK, Expire
<1>3. TypeOK'
    BY DEF IInv, TypeOK, Expire
<1>4. CacheAgreesWithRules'
    BY <1>2, InputsAssumption DEF IInv, CacheAgreesWithRules
<1>5. AnswersAreOwn'
    BY <1>1, <1>2 DEF IInv, AnswersAreOwn
<1>6. AskingKnows'
    BY <1>1, <1>2 DEF IInv, KnowInv, AskingKnows
<1>7. StoringKnows' /\ OneCall'
    BY <1>1, <1>2, FitIsFixed DEF IInv, KnowInv, StoringKnows, OneCall, InCall
<1>. QED BY <1>3, <1>4, <1>5, <1>6, <1>7 DEF IInv, KnowInv

LEMMA StepKeeps == IInv /\ [Next]_vars => IInv'
<1>. SUFFICES ASSUME IInv, [Next]_vars PROVE IInv'
    OBVIOUS
<1>1. CASE UNCHANGED vars
    BY <1>1, FitIsFixed
    DEF IInv, TypeOK, CacheAgreesWithRules, AnswersAreOwn, KnowInv, AskingKnows,
        StoringKnows, OneCall, InCall, Key, vars
<1>2. ASSUME NEW r \in Requests,
             \/ Begin(r) \/ Refuse(r) \/ AnswerByRule(r) \/ LookUp(r) \/ Recall(r) \/ Miss(r)
             \/ Classify(r) \/ Clarify(r) \/ Guess(r) \/ EndStore(r)
      PROVE  IInv'
    BY <1>2, BeginKeeps, MovesKeep, MakersKeep, RecallKeeps, EndStoreKeeps
<1>3. ASSUME NEW k \in Keys, Expire(k) PROVE IInv'
    BY <1>3, ExpireKeeps
<1>. QED BY <1>1, <1>2, <1>3, FallSilentKeeps DEF Next

-----------------------------------------------------------------------------

\* The inductive invariant holds in every reachable state.
THEOREM Invariance == Spec => []IInv
BY InitEstablishes, StepKeeps, PTL DEF Spec

\* Every variable keeps its type, and a request has an answer exactly when interpret
\* has returned one.
THEOREM TypeCorrect == Spec => []TypeOK
BY Invariance, PTL DEF IInv

\* Neither the model nor the guess is ever stored under the key of a text that has
\* a rule (interpret, whose rules come before the cache).
THEOREM CacheAgreesWithRulesAlways == Spec => []CacheAgreesWithRules
BY Invariance, PTL DEF IInv

\* Whatever is recalled was read from a clean text with the same key and is given
\* the session of the request it answers (_recall_intent).
THEOREM AnswersAreOwnAlways == Spec => []AnswersAreOwn
BY Invariance, PTL DEF IInv

\* A stored meaning changes only by a request that was overtaken, or that Redis
\* refused, for any number of concurrent requests, even by the last SET that a Redis
\* executes before it falls silent.
THEOREM MeaningIsStableAlways == Spec => MeaningIsStable
<1>. DEFINE Changes(k) ==
        /\ cache[k] # Nothing /\ cache'[k] # Nothing
        /\ cache'[k].class # cache[k].class \/ cache'[k].guess # cache[k].guess
<1>. DEFINE ByLateOne(k) ==
        \E r \in Requests :
            pc[r] = "storing" /\ Key(r) = k /\ r \in blind \union overtaken
<1>1. ASSUME IInv, NEW k \in Keys, Changes(k), Next PROVE ByLateOne(k)
    <2>1. cache[k] \in Meanings /\ cache'[k] # cache[k]
        BY <1>1 DEF IInv, TypeOK, Meanings
    <2>2. \A j \in Keys : Expire(j) => FALSE
        BY <1>1, <2>1 DEF IInv, TypeOK, Expire
    <2>3. PICK r \in Requests : pc[r] = "storing" /\ ~silent /\ Put(r)
        BY <1>1, <2>1, <2>2
        DEF Next, Begin, Refuse, AnswerByRule, LookUp, Recall, Miss, Classify, Clarify, Guess,
            SendStore, EndStore, FallSilent
    <2>4. Key(r) = KeyOf[input[r]] /\ input[r] \in Inputs /\ Key(r) \in Keys
        BY <1>1, KeyIsKey DEF IInv
    <2>5. Key(r) = k /\ cache'[k] = held[r]
        BY <1>1, <2>1, <2>3, <2>4 DEF IInv, TypeOK, Put
    <2>6. Fit(r, held[r])
        BY <1>1, <2>3 DEF IInv, KnowInv, StoringKnows
    <2>7. RuleOf[input[r]] = NoRule
        <3>. SUFFICES ASSUME RuleOf[input[r]] # NoRule PROVE FALSE
            OBVIOUS
        <3>1. cache[k].class = RuleOf[input[r]] /\ ~cache[k].guess
            BY <1>1, <2>4, <2>5 DEF IInv, CacheAgreesWithRules
        <3>2. cache[k].guess = FALSE
            BY <2>1, <3>1 DEF Meanings
        <3>3. held[r].class = RuleOf[input[r]] /\ held[r].guess = FALSE
            BY <2>6 DEF Fit
        <3>. QED BY <1>1, <2>5, <3>1, <3>2, <3>3, Zenon
    <2>8. r \in blind \union overtaken
        BY <1>1, <2>3, <2>5, <2>7 DEF IInv, KnowInv, StoringKnows
    <2>. QED BY <2>3, <2>5, <2>8
<1>2. IInv /\ [Next]_vars => [\A k \in Keys : Changes(k) => ByLateOne(k)]_vars
    BY <1>1
<1>. QED BY Invariance, <1>2, PTL DEF Spec, MeaningIsStable

\* A text that a rule knows is always read as the rule reads it, as its own words
\* and for certain, whatever Redis holds under its key: the rules come before the
\* cache (intent_interpreter.py, interpret).
RulesDecide ==
    \A r \in Requests : pc[r] = "answered" /\ RuleOf[input[r]] # NoRule =>
        answer[r].meaning = [class |-> RuleOf[input[r]], target |-> input[r], guess |-> FALSE]

THEOREM RulesDecideAlways == Spec => []RulesDecide
<1>1. Init => RulesDecide
    BY DEF Init, RulesDecide
<1>2. IInv /\ RulesDecide /\ [Next]_vars => RulesDecide'
    <2>. SUFFICES ASSUME IInv, RulesDecide, [Next]_vars PROVE RulesDecide'
        OBVIOUS
    <2>. USE DEF RulesDecide
    <2>1. /\ pc \in [Requests -> {"idle", "recalling", "asking", "storing",
                                  "answered", "clarify", "refused"}]
          /\ input \in [Requests -> Inputs]
          /\ answer \in [Requests -> Intents \union {Nothing}]
        BY DEF IInv, TypeOK
    <2>2. CASE UNCHANGED vars \/ FallSilent \/ \E k \in Keys : Expire(k)
        BY <2>2 DEF vars, FallSilent, Expire
    <2>3. ASSUME NEW r \in Requests,
                 \/ Begin(r) \/ Refuse(r) \/ LookUp(r) \/ Miss(r) \/ Clarify(r)
                 \/ AnswerByRule(r) \/ Classify(r) \/ Guess(r)
          PROVE  RulesDecide'
        BY <2>1, <2>3
        DEF Begin, Refuse, LookUp, Miss, Clarify, AnswerByRule, Classify, Guess, SendStore
    <2>4. ASSUME NEW r \in Requests, Recall(r) PROVE RulesDecide'
        <3>1. RuleOf[input[r]] = NoRule /\ input' = input
            BY <2>4 DEF Recall, IInv, KnowInv, AskingKnows
        <3>2. \A q \in Requests \ {r} : pc'[q] = pc[q] /\ answer'[q] = answer[q]
            BY <2>1, <2>4 DEF Recall, Return
        <3>. QED BY <3>1, <3>2
    <2>5. ASSUME NEW r \in Requests, EndStore(r) PROVE RulesDecide'
        <3>1. input' = input /\ Fit(r, held[r])
            BY <2>5 DEF EndStore, IInv, KnowInv, StoringKnows
        <3>2. answer'[r].meaning = held[r]
            BY <2>1, <2>5 DEF EndStore, Return
        <3>3. \A q \in Requests \ {r} : pc'[q] = pc[q] /\ answer'[q] = answer[q]
            BY <2>1, <2>5 DEF EndStore, Return
        <3>4. RuleOf[input[r]] # NoRule =>
                held[r] = [class |-> RuleOf[input[r]], target |-> input[r], guess |-> FALSE]
            BY <3>1 DEF Fit, Meanings
        <3>. QED BY <3>1, <3>2, <3>3, <3>4
    <2>. QED BY <2>2, <2>3, <2>4, <2>5 DEF Next
<1>. QED BY <1>1, <1>2, Invariance, PTL DEF Spec
=============================================================================
