------------------------ MODULE PromptContextProofs -------------------------
(***************************************************************************)
(* PromptContext and the seeder and the queue it is composed of, for any   *)
(* number of facts, syncs, keys and prompts.  The inductive invariant says *)
(* that a sync whose read was whole and that nobody has overtaken misses   *)
(* only what is not stored; that every prefix is the cached one, and the   *)
(* cached ones are of their own facts; and that an event a scan has yet to *)
(* show is one it has yet to look at.                                      *)
(***************************************************************************)
EXTENDS PromptContext, TLAPS

MissingIsUnstored ==
    \A s \in Syncs : \A f \in missing[s] :
        sync[s] = "storing" => rows[f] = 0 \/ f \in overtaken[s] \/ s \in cut

SeedInv == SeedTypeOK /\ MissingIsUnstored

CacheIsOwn ==
    \A a \in Asked : cache[a] # Nothing => cache[a].facts = FactsOf(a)

PrefixIsCached ==
    \A p \in Prompts : Rendered(p) => cache[asked[p]] # Nothing /\ stable[p] = cache[asked[p]]

UnlistedIsAhead ==
    \A p \in Prompts :
        /\ unlisted[p] \subseteq (Present \ lapsed) \cap (due[p] \union toGet[p])
        /\ p \in ended => due[p] = {}
        /\ pc[p] # "scanning" => unlisted[p] = {}

IInv ==
    /\ SeedInv /\ QueueTypeOK /\ PromptTypeOK
    /\ CacheIsOwn /\ PrefixIsCached /\ UnlistedIsAhead

(***************************************************************************)
(* The seeder.                                                             *)
(***************************************************************************)

\* A read that is not cut off has seen every stored text.
LEMMA WholeRead ==
    ASSUME NEW R \in Fetched(ReadLimit), ~Overfull(ReadLimit), NEW f \in Facts, f \notin R,
           SeedTypeOK
    PROVE  rows[f] = 0
<1>1. R = Stored
    BY DEF Fetched
<1>. QED BY <1>1 DEF Stored

LEMMA BeginSyncKeeps ==
    ASSUME SeedInv, NEW s \in Syncs, BeginSync(s)
    PROVE  SeedInv'
<1>1. PICK R \in Fetched(ReadLimit) : missing' = [missing EXCEPT ![s] = YamlFacts \ R]
    BY DEF BeginSync
<1>2. SeedTypeOK'
    BY <1>1 DEF SeedInv, SeedTypeOK, BeginSync
<1>3. MissingIsUnstored'
    <2>. SUFFICES ASSUME NEW q \in Syncs, NEW f \in missing'[q], sync'[q] = "storing"
                  PROVE  rows'[f] = 0 \/ f \in overtaken'[q] \/ q \in cut'
        BY DEF MissingIsUnstored
    <2>1. CASE q # s
        BY <1>1, <2>1 DEF SeedInv, SeedTypeOK, MissingIsUnstored, BeginSync
    <2>2. CASE q = s /\ Overfull(ReadLimit)
        BY <2>2 DEF BeginSync
    <2>3. CASE q = s /\ ~Overfull(ReadLimit)
        <3>1. f \in YamlFacts \ R /\ f \in Facts
            BY <1>1, <2>3, FactsAssumption DEF SeedInv, SeedTypeOK
        <3>. QED BY <2>3, <3>1, WholeRead DEF SeedInv, BeginSync
    <2>. QED BY <2>1, <2>2, <2>3
<1>. QED BY <1>2, <1>3 DEF SeedInv

\* A fact that is inserted overtakes the other syncs under way.
LEMMA InsertKeeps ==
    ASSUME SeedInv, NEW s \in Syncs, NEW f \in missing[s], NEW own \in SUBSET YamlFacts,
           Insert(s, f, own), sync[s] = "storing"
    PROVE  /\ rows' \in [Facts -> 0..MaxCopies]
           /\ overtaken' \in [Syncs -> SUBSET YamlFacts]
           /\ overtaken'[s] = own
           /\ \A q \in Syncs \ {s} : sync[q] = "idle" => overtaken'[q] = {}
           /\ \A q \in Syncs \ {s} : sync[q] = "storing" => \A g \in missing[q] :
                rows'[g] = 0 \/ g \in overtaken'[q] \/ q \in cut
<1>1. f \in YamlFacts /\ f \in Facts
    BY FactsAssumption DEF SeedInv, SeedTypeOK
<1>2. rows' \in [Facts -> 0..MaxCopies]
    BY <1>1, ReadLimitAssumption DEF SeedInv, SeedTypeOK, Insert
<1>3. /\ overtaken' \in [Syncs -> SUBSET YamlFacts]
      /\ overtaken'[s] = own
      /\ \A q \in Syncs \ {s} : sync[q] = "idle" => overtaken'[q] = {}
    BY <1>1 DEF SeedInv, SeedTypeOK, Insert
<1>4. ASSUME NEW q \in Syncs \ {s}, sync[q] = "storing", NEW g \in missing[q]
      PROVE  rows'[g] = 0 \/ g \in overtaken'[q] \/ q \in cut
    <2>1. overtaken'[q] = overtaken[q] \union {f}
        BY <1>4 DEF Insert
    <2>2. CASE g = f
        BY <2>1, <2>2
    <2>3. CASE g # f
        <3>1. rows'[g] = rows[g]
            BY <2>3 DEF Insert, SeedInv, SeedTypeOK
        <3>. QED BY <1>4, <2>1, <3>1 DEF SeedInv, MissingIsUnstored
    <2>. QED BY <2>2, <2>3
<1>. QED BY <1>2, <1>3, <1>4

LEMMA StoreFactKeeps ==
    ASSUME SeedInv, NEW s \in Syncs, StoreFact(s)
    PROVE  SeedInv'
<1>1. PICK f \in missing[s] :
        Insert(s, f, overtaken[s]) /\ missing' = [missing EXCEPT ![s] = @ \ {f}]
    BY DEF StoreFact
<1>2. overtaken[s] \in SUBSET YamlFacts /\ sync[s] = "storing"
    BY DEF SeedInv, SeedTypeOK, StoreFact
<1>3. SeedTypeOK'
    BY <1>1, <1>2, InsertKeeps DEF SeedInv, SeedTypeOK, StoreFact
<1>4. MissingIsUnstored'
    <2>. SUFFICES ASSUME NEW q \in Syncs, NEW g \in missing'[q], sync'[q] = "storing"
                  PROVE  rows'[g] = 0 \/ g \in overtaken'[q] \/ q \in cut'
        BY DEF MissingIsUnstored
    <2>1. CASE q # s
        BY <1>1, <1>2, <2>1, InsertKeeps DEF SeedInv, SeedTypeOK, StoreFact
    <2>2. CASE q = s
        <3>1. g \in missing[s] /\ g # f
            BY <1>1, <2>2 DEF SeedInv, SeedTypeOK
        <3>2. rows'[g] = rows[g]
            BY <1>1, <3>1 DEF Insert, SeedInv, SeedTypeOK
        <3>3. overtaken'[s] = overtaken[s]
            BY <1>1, <1>2, InsertKeeps
        <3>. QED BY <1>2, <2>2, <3>1, <3>2, <3>3 DEF SeedInv, MissingIsUnstored, StoreFact
    <2>. QED BY <2>1, <2>2
<1>. QED BY <1>3, <1>4 DEF SeedInv

LEMMA StoreUnansweredKeeps ==
    ASSUME SeedInv, NEW s \in Syncs, StoreUnanswered(s)
    PROVE  SeedInv'
<1>1. PICK f \in missing[s] : Insert(s, f, {})
    BY DEF StoreUnanswered
<1>2. sync[s] = "storing" /\ {} \in SUBSET YamlFacts
    BY DEF StoreUnanswered
<1>3. SeedTypeOK'
    BY <1>1, <1>2, InsertKeeps DEF SeedInv, SeedTypeOK, StoreUnanswered, Leave
<1>4. MissingIsUnstored'
    BY <1>1, <1>2, InsertKeeps
    DEF SeedInv, SeedTypeOK, MissingIsUnstored, StoreUnanswered, Leave
<1>. QED BY <1>3, <1>4 DEF SeedInv

LEMMA EndSyncKeeps ==
    ASSUME SeedInv, NEW s \in Syncs, EndSync(s)
    PROVE  SeedInv'
BY DEF SeedInv, SeedTypeOK, MissingIsUnstored, EndSync, Leave

LEMMA SeedStep ==
    ASSUME SeedInv, SeedNext
    PROVE  SeedInv'
BY BeginSyncKeeps, StoreFactKeeps, StoreUnansweredKeeps, EndSyncKeeps DEF SeedNext

\* A row is only added by a sync that misses its fact.
LEMMA StoredAgain ==
    ASSUME SeedInv, SeedNext \/ SeedStop \/ UNCHANGED seedVars,
           NEW f \in Facts, rows[f] # 0, rows'[f] # rows[f]
    PROVE  \E s \in Syncs :
            /\ sync[s] = "storing" /\ f \in missing[s]
            /\ f \in overtaken[s] \/ s \in cut
<1>1. PICK s \in Syncs : StoreFact(s) \/ StoreUnanswered(s)
    BY DEF SeedNext, SeedStop, seedVars, BeginSync, EndSync
<1>2. PICK g \in missing[s] : rows' = [rows EXCEPT ![g] = @ + 1]
    BY <1>1 DEF StoreFact, StoreUnanswered, Insert
<1>3. g = f
    BY <1>2 DEF SeedInv, SeedTypeOK
<1>4. sync[s] = "storing"
    BY <1>1 DEF StoreFact, StoreUnanswered
<1>. QED BY <1>3, <1>4 DEF SeedInv, MissingIsUnstored

(***************************************************************************)
(* The prefix.                                                             *)
(***************************************************************************)

LEMMA FactsOfIsFacts ==
    ASSUME NEW a \in Asked
    PROVE  FactsOf(a) \in SUBSET Facts
BY FactsAssumption DEF Asked, FactsOf

LEMMA LoadedIsAsked ==
    ASSUME NEW facts \in LoadedFacts
    PROVE  facts \in Asked
<1>1. Stored \in SUBSET Facts /\ YamlFacts \in SUBSET Facts
    BY FactsAssumption DEF Stored
<1>2. Fetched(FactLimit) \subseteq SUBSET Facts
    BY <1>1 DEF Fetched
<1>. QED BY <1>1, <1>2 DEF LoadedFacts, Asked

\* What is rendered is of its own facts.
LEMMA RenderedIsOwn ==
    ASSUME PromptTypeOK, NEW a \in Asked, NEW prefix \in RenderStableCore(a)
    PROVE  /\ prefix \in Prefixes
           /\ prefix.facts = FactsOf(a)
<1>1. PICK v \in {0, version} : prefix = [facts |-> FactsOf(a), version |-> v]
    BY DEF RenderStableCore
<1>2. v \in 0..MaxVersion
    BY FactLimitAssumption DEF PromptTypeOK
<1>. QED BY <1>1, <1>2, FactsOfIsFacts DEF Prefixes

LEMMA PrefixIsNotNothing ==
    ASSUME NEW prefix \in Prefixes
    PROVE  prefix # Nothing
<1>1. prefix \in [facts : SUBSET Facts, version : Nat]
    BY FactLimitAssumption DEF Prefixes
<1>. QED BY <1>1, NothingAssumption

\* A prompt gets the cached prefix, and a prefix that is cached stays.
LEMMA BuildKeeps ==
    ASSUME PromptTypeOK, CacheIsOwn, PrefixIsCached, NEW p \in Prompts, NEW a \in Asked,
           BuildPromptSegments(p, a),
           \A q \in Prompts \ {p} : pc'[q] = pc[q]
    PROVE  /\ cache' \in [Asked -> Prefixes \union {Nothing}]
           /\ asked' \in [Prompts -> Asked]
           /\ stable' \in [Prompts -> Prefixes]
           /\ past' \subseteq Prompts
           /\ CacheIsOwn' /\ PrefixIsCached'
<1>1. PICK prefix \in IF cache[a] = Nothing THEN RenderStableCore(a) ELSE {cache[a]} :
        /\ stable' = [stable EXCEPT ![p] = prefix]
        /\ cache' = [cache EXCEPT ![a] = prefix]
    BY DEF BuildPromptSegments, StableCacheKey
<1>2. asked' = [asked EXCEPT ![p] = a]
    BY DEF BuildPromptSegments
<1>3. /\ prefix \in Prefixes
      /\ prefix.facts = FactsOf(a)
      /\ cache[a] # Nothing => prefix = cache[a]
    <2>1. CASE cache[a] = Nothing
        BY <1>1, <2>1, RenderedIsOwn
    <2>2. CASE cache[a] # Nothing
        BY <1>1, <2>2 DEF PromptTypeOK, CacheIsOwn
    <2>. QED BY <2>1, <2>2
<1>4. prefix # Nothing
    BY <1>3, PrefixIsNotNothing
<1>5. /\ cache' \in [Asked -> Prefixes \union {Nothing}]
      /\ asked' \in [Prompts -> Asked]
      /\ stable' \in [Prompts -> Prefixes]
      /\ past' \subseteq Prompts
    BY <1>1, <1>2, <1>3 DEF PromptTypeOK, BuildPromptSegments
<1>6. CacheIsOwn'
    BY <1>1, <1>3 DEF PromptTypeOK, CacheIsOwn, FactsOf
<1>7. PrefixIsCached'
    <2>. SUFFICES ASSUME NEW q \in Prompts, Rendered(q)'
                  PROVE  cache'[asked'[q]] # Nothing /\ stable'[q] = cache'[asked'[q]]
        BY DEF PrefixIsCached
    <2>1. CASE q = p
        BY <1>1, <1>2, <1>4, <2>1 DEF PromptTypeOK
    <2>2. CASE q # p
        <3>1. /\ asked'[q] = asked[q] /\ asked[q] \in Asked /\ stable'[q] = stable[q]
              /\ cache[asked[q]] # Nothing /\ stable[q] = cache[asked[q]]
            BY <1>1, <1>2, <2>2 DEF PromptTypeOK, PrefixIsCached, Rendered
        <3>2. cache'[asked[q]] = cache[asked[q]]
            BY <1>1, <1>3, <3>1 DEF PromptTypeOK
        <3>. QED BY <3>1, <3>2
    <2>. QED BY <2>1, <2>2
<1>. QED BY <1>5, <1>6, <1>7

LEMMA AssembleKeeps ==
    ASSUME IInv, NEW p \in Prompts, Assemble(p)
    PROVE  IInv'
<1>1. PICK facts \in LoadedFacts : BuildPromptSegments(p, facts)
    BY DEF Assemble
<1>2. facts \in Asked
    BY LoadedIsAsked
<1>3. \A q \in Prompts \ {p} : pc'[q] = pc[q]
    BY DEF Assemble, IInv, PromptTypeOK
<1>4. /\ cache' \in [Asked -> Prefixes \union {Nothing}]
      /\ asked' \in [Prompts -> Asked]
      /\ stable' \in [Prompts -> Prefixes]
      /\ past' \subseteq Prompts
      /\ CacheIsOwn' /\ PrefixIsCached'
    BY <1>1, <1>2, <1>3, BuildKeeps DEF IInv, Assemble
<1>5. Present \subseteq Keys
    BY DEF Present
<1>6. PromptTypeOK'
    BY <1>4, <1>5 DEF IInv, PromptTypeOK, Assemble
<1>7. UnlistedIsAhead'
    BY DEF IInv, PromptTypeOK, UnlistedIsAhead, Assemble, queueVars, Present
<1>8. SeedInv' /\ QueueTypeOK'
    BY DEF IInv, Assemble, SeedInv, SeedTypeOK, MissingIsUnstored, seedVars,
           QueueTypeOK, queueVars, Present
<1>. QED BY <1>4, <1>6, <1>7, <1>8 DEF IInv

LEMMA SystemPromptKeeps ==
    ASSUME IInv, NEW p \in Prompts, SystemPrompt(p)
    PROVE  IInv'
<1>1. AutoFacts \in Asked
    BY DEF Asked
<1>2. \A q \in Prompts \ {p} : pc'[q] = pc[q]
    BY DEF SystemPrompt, IInv, PromptTypeOK
<1>3. /\ cache' \in [Asked -> Prefixes \union {Nothing}]
      /\ asked' \in [Prompts -> Asked]
      /\ stable' \in [Prompts -> Prefixes]
      /\ past' \subseteq Prompts
      /\ CacheIsOwn' /\ PrefixIsCached'
    BY <1>1, <1>2, BuildKeeps DEF IInv, SystemPrompt
<1>4. PromptTypeOK'
    BY <1>3 DEF IInv, PromptTypeOK, SystemPrompt, scanVars
<1>5. UnlistedIsAhead'
    BY DEF IInv, PromptTypeOK, UnlistedIsAhead, SystemPrompt, scanVars, queueVars, Present
<1>6. SeedInv' /\ QueueTypeOK'
    BY DEF IInv, SystemPrompt, SeedInv, SeedTypeOK, MissingIsUnstored, seedVars,
           QueueTypeOK, queueVars, Present
<1>. QED BY <1>3, <1>4, <1>5, <1>6 DEF IInv

(***************************************************************************)
(* The scan.                                                               *)
(***************************************************************************)

\* A step that leaves a component alone keeps what is said of it.
LEMMA Untouched ==
    ASSUME IInv
    PROVE  /\ UNCHANGED seedVars => SeedInv'
           /\ UNCHANGED queueVars => QueueTypeOK'
           /\ UNCHANGED cache => CacheIsOwn'
           /\ UNCHANGED <<cache, asked, stable>> /\ (\A p \in Prompts : Rendered(p)' => Rendered(p))
                => PrefixIsCached'
<1>1. UNCHANGED seedVars => SeedInv'
    BY DEF IInv, SeedInv, SeedTypeOK, MissingIsUnstored, seedVars
<1>2. UNCHANGED queueVars => QueueTypeOK'
    BY DEF IInv, QueueTypeOK, queueVars, Present
<1>3. UNCHANGED cache => CacheIsOwn'
    BY DEF IInv, CacheIsOwn
<1>4. UNCHANGED <<cache, asked, stable>> /\ (\A p \in Prompts : Rendered(p)' => Rendered(p))
        => PrefixIsCached'
    BY DEF IInv, PrefixIsCached
<1>. QED BY <1>1, <1>2, <1>3, <1>4

LEMMA ScanKeeps ==
    ASSUME IInv, NEW p \in Prompts, Scan(p)
    PROVE  IInv'
<1>1. PICK batch \in SUBSET Present :
        /\ toGet' = [toGet EXCEPT ![p] = batch]
        /\ due' = [due EXCEPT ![p] = @ \ batch]
        /\ \/ ended' = ended
           \/ due[p] \subseteq batch /\ ended' = ended \union {p}
    BY DEF Scan
<1>2. batch \subseteq Keys
    BY DEF Present
<1>3. PromptTypeOK'
    BY <1>1, <1>2 DEF IInv, PromptTypeOK, Scan
<1>4. UnlistedIsAhead'
    BY <1>1 DEF IInv, PromptTypeOK, UnlistedIsAhead, Scan, queueVars, Present
<1>5. SeedInv' /\ QueueTypeOK' /\ CacheIsOwn' /\ PrefixIsCached'
    BY Untouched DEF Scan, Rendered
<1>. QED BY <1>3, <1>4, <1>5 DEF IInv

LEMMA GetKeeps ==
    ASSUME IInv, NEW p \in Prompts, Get(p)
    PROVE  IInv'
<1>1. PICK k \in toGet[p] :
        /\ toGet' = [toGet EXCEPT ![p] = @ \ {k}]
        /\ unlisted' = [unlisted EXCEPT ![p] = @ \ ({k} \cap (Present \ lapsed))]
    BY DEF Get
<1>2. PromptTypeOK'
    BY <1>1 DEF IInv, PromptTypeOK, Get
<1>3. UnlistedIsAhead'
    BY <1>1 DEF IInv, PromptTypeOK, UnlistedIsAhead, Get, queueVars, Present
<1>4. SeedInv' /\ QueueTypeOK' /\ CacheIsOwn' /\ PrefixIsCached'
    BY Untouched DEF Get, Rendered
<1>. QED BY <1>2, <1>3, <1>4 DEF IInv

LEMMA FinishKeeps ==
    ASSUME IInv, NEW p \in Prompts, Finish(p)
    PROVE  IInv'
<1>1. PromptTypeOK'
    BY DEF IInv, PromptTypeOK, Finish
<1>2. UnlistedIsAhead'
    BY DEF IInv, PromptTypeOK, UnlistedIsAhead, Finish, queueVars, Present
<1>3. \A q \in Prompts : Rendered(q)' => Rendered(q)
    BY DEF IInv, PromptTypeOK, Finish, Rendered
<1>4. SeedInv' /\ QueueTypeOK' /\ CacheIsOwn' /\ PrefixIsCached'
    BY <1>3, Untouched DEF Finish
<1>. QED BY <1>1, <1>2, <1>4 DEF IInv

\* Assemblies that are forgotten claim nothing.
LEMMA ForgetTyped ==
    ASSUME PromptTypeOK, NEW P \in SUBSET Prompts, Forget(P)
    PROVE  /\ pc' \in [Prompts -> {"idle", "scanning", "done"}]
           /\ asked' \in [Prompts -> Asked]
           /\ stable' \in [Prompts -> Prefixes]
           /\ due' \in [Prompts -> SUBSET Keys]
           /\ toGet' \in [Prompts -> SUBSET Keys]
           /\ ended' \subseteq Prompts /\ past' \subseteq Prompts
           /\ unlisted' \in [Prompts -> SUBSET Keys]
           /\ \A p \in Prompts : pc'[p] # "scanning" => toGet'[p] = {} /\ p \notin ended'
<1>1. Blank \in Prefixes
    BY FactLimitAssumption DEF Blank, Prefixes
<1>2. AutoFacts \in Asked
    BY DEF Asked
<1>3. /\ pc' \in [Prompts -> {"idle", "scanning", "done"}]
      /\ asked' \in [Prompts -> Asked]
      /\ stable' \in [Prompts -> Prefixes]
    BY <1>1, <1>2 DEF PromptTypeOK, Forget, Cleared
<1>4. /\ due' \in [Prompts -> SUBSET Keys]
      /\ toGet' \in [Prompts -> SUBSET Keys]
      /\ ended' \subseteq Prompts /\ past' \subseteq Prompts
      /\ unlisted' \in [Prompts -> SUBSET Keys]
    BY DEF PromptTypeOK, Forget, Cleared
<1>5. \A p \in Prompts : pc'[p] # "scanning" => toGet'[p] = {} /\ p \notin ended'
    BY DEF PromptTypeOK, Forget, Cleared
<1>. QED BY <1>3, <1>4, <1>5

LEMMA ForgetKeeps ==
    ASSUME IInv, NEW P \in SUBSET Prompts, Forget(P), UNCHANGED <<queue, lapsed>>
    PROVE  UnlistedIsAhead'
<1>. SUFFICES ASSUME NEW p \in Prompts
              PROVE  /\ unlisted'[p] \subseteq (Present \ lapsed)' \cap (due'[p] \union toGet'[p])
                     /\ p \in ended' => due'[p] = {}
                     /\ pc'[p] # "scanning" => unlisted'[p] = {}
    BY DEF UnlistedIsAhead
<1>1. CASE p \in P
    BY <1>1 DEF Forget, Cleared
<1>2. CASE p \notin P
    BY <1>2 DEF Forget, Cleared, IInv, UnlistedIsAhead, Present
<1>. QED BY <1>1, <1>2

LEMMA FailKeeps ==
    ASSUME IInv, NEW p \in Prompts, Fail(p)
    PROVE  IInv'
<1>1. Forget({p}) /\ {p} \in SUBSET Prompts
    BY DEF Fail
<1>2. PromptTypeOK'
    BY <1>1, ForgetTyped DEF IInv, PromptTypeOK, Fail
<1>3. UnlistedIsAhead'
    BY <1>1, ForgetKeeps DEF Fail, queueVars
<1>4. PrefixIsCached'
    BY <1>1 DEF IInv, PrefixIsCached, Rendered, Forget, Cleared, Fail
<1>5. SeedInv' /\ QueueTypeOK' /\ CacheIsOwn'
    BY Untouched DEF Fail
<1>. QED BY <1>2, <1>3, <1>4, <1>5 DEF IInv

(***************************************************************************)
(* Around it.                                                              *)
(***************************************************************************)

LEMMA RefreshKeeps ==
    ASSUME IInv, Refresh
    PROVE  IInv'
<1>1. /\ version \in Nat /\ MaxVersion \in Nat
      /\ version' = version + 1 /\ version < MaxVersion
    BY FactLimitAssumption DEF IInv, PromptTypeOK, Refresh
<1>2. PromptTypeOK'
    BY <1>1 DEF IInv, PromptTypeOK, Refresh, scanVars
<1>3. UnlistedIsAhead'
    BY DEF IInv, UnlistedIsAhead, Refresh, scanVars, queueVars, Present
<1>4. SeedInv' /\ QueueTypeOK' /\ CacheIsOwn' /\ PrefixIsCached'
    BY Untouched DEF Refresh, Rendered
<1>. QED BY <1>2, <1>3, <1>4 DEF IInv

LEMMA RestartKeeps ==
    ASSUME IInv, Restart
    PROVE  IInv'
<1>1. Forget(Prompts) /\ Prompts \in SUBSET Prompts
    BY DEF Restart
<1>2. version' = version
    BY DEF Restart
<1>3. PromptTypeOK'
    BY <1>1, <1>2, ForgetTyped DEF IInv, PromptTypeOK, Restart
<1>4. UnlistedIsAhead'
    BY <1>1, ForgetKeeps DEF Restart, QueueStop
<1>5. CacheIsOwn' /\ PrefixIsCached'
    BY DEF CacheIsOwn, PrefixIsCached, Rendered, Restart, Forget, Cleared
<1>6. SeedInv'
    BY DEF IInv, SeedInv, SeedTypeOK, MissingIsUnstored, Restart, SeedStop
<1>7. QueueTypeOK'
    BY DEF IInv, QueueTypeOK, Restart, QueueStop, Present
<1>. QED BY <1>3, <1>4, <1>5, <1>6, <1>7 DEF IInv

LEMMA SeedKeeps ==
    ASSUME IInv, Seed
    PROVE  IInv'
<1>1. SeedInv'
    BY SeedStep DEF IInv, Seed
<1>2. PromptTypeOK' /\ UnlistedIsAhead'
    BY DEF IInv, PromptTypeOK, UnlistedIsAhead, Seed, promptVars, scanVars, queueVars, Present
<1>3. QueueTypeOK' /\ CacheIsOwn' /\ PrefixIsCached'
    BY Untouched DEF Seed, promptVars, Rendered
<1>. QED BY <1>1, <1>2, <1>3 DEF IInv

\* An event is put under a key that is not there: nothing pending changes.
LEMMA PutKeeps ==
    ASSUME QueueTypeOK, NEW k \in Keys, NEW c \in Conditions, Put(k, c), todo' \subseteq Conditions
    PROVE  QueueTypeOK' /\ Present \ lapsed \subseteq (Present \ lapsed)'
<1>1. queue' = [queue EXCEPT ![k] = c] /\ k \notin Present /\ lapsed' = lapsed
    BY DEF Put
<1>2. Present \subseteq Present'
    BY <1>1, AbsentAssumption DEF QueueTypeOK, Present
<1>3. queue' \in [Keys -> Conditions \union {Absent}]
    BY <1>1 DEF QueueTypeOK
<1>4. k \notin lapsed
    BY <1>1 DEF QueueTypeOK
<1>. QED BY <1>1, <1>2, <1>3 DEF QueueTypeOK

LEMMA QueueKeeps ==
    ASSUME IInv, Queue
    PROVE  IInv'
<1>1. QueueTypeOK' /\ Present \ lapsed \subseteq (Present \ lapsed)'
    <2>1. CASE Evaluate \/ QueueFails
        BY <2>1 DEF Evaluate, QueueFails, IInv, QueueTypeOK, Present
    <2>2. ASSUME NEW k \in Keys, NEW c \in Conditions, QueueEvent(k, c) \/ QueueUnanswered(k, c)
          PROVE  QueueTypeOK' /\ Present \ lapsed \subseteq (Present \ lapsed)'
        <3>1. Put(k, c) /\ todo' \subseteq Conditions
            BY <2>2 DEF QueueEvent, QueueUnanswered, IInv, QueueTypeOK
        <3>. QED BY <3>1, PutKeeps DEF IInv
    <2>. QED BY <2>1, <2>2 DEF Queue, Unknown
<1>2. PromptTypeOK'
    BY DEF IInv, PromptTypeOK, Queue, promptVars, scanVars
<1>3. UnlistedIsAhead'
    BY <1>1 DEF IInv, UnlistedIsAhead, Queue, promptVars, scanVars
<1>4. SeedInv' /\ CacheIsOwn' /\ PrefixIsCached'
    BY Untouched DEF Queue, promptVars, Rendered
<1>. QED BY <1>1, <1>2, <1>3, <1>4 DEF IInv

\* A key that goes, or whose event lapses, is owed to no scan any more.
LEMMA DropKeeps ==
    ASSUME IInv, NEW k \in Keys, Drop(k) \/ Age(k)
    PROVE  IInv'
<1>1. QueueTypeOK' /\ (Present \ lapsed) \ {k} \subseteq (Present \ lapsed)'
    <2>1. CASE Drop(k)
        <3>1. queue' = [queue EXCEPT ![k] = Absent] /\ lapsed' = lapsed \ {k} /\ todo' = todo
            BY <2>1 DEF Drop, Evict
        <3>2. Present' = Present \ {k}
            BY <3>1 DEF IInv, QueueTypeOK, Present
        <3>3. queue' \in [Keys -> Conditions \union {Absent}]
            BY <3>1 DEF IInv, QueueTypeOK
        <3>4. lapsed' \subseteq Present'
            BY <3>1, <3>2 DEF IInv, QueueTypeOK
        <3>. QED BY <3>1, <3>2, <3>3, <3>4 DEF IInv, QueueTypeOK
    <2>2. CASE Age(k)
        <3>1. queue' = queue /\ lapsed' = lapsed \union {k} /\ todo' = todo /\ k \in Present
            BY <2>2 DEF Age, Lapse
        <3>2. Present' = Present
            BY <3>1 DEF Present
        <3>. QED BY <3>1, <3>2 DEF IInv, QueueTypeOK
    <2>. QED BY <2>1, <2>2
<1>2. PromptTypeOK'
    BY DEF IInv, PromptTypeOK, Drop, Age, Without
<1>3. UnlistedIsAhead'
    <2>. SUFFICES ASSUME NEW p \in Prompts
                  PROVE  /\ unlisted'[p] \subseteq (Present \ lapsed)' \cap (due'[p] \union toGet'[p])
                         /\ p \in ended' => due'[p] = {}
                         /\ pc'[p] # "scanning" => unlisted'[p] = {}
        BY DEF UnlistedIsAhead
    <2>1. /\ unlisted'[p] = unlisted[p] \ {k}
          /\ due'[p] = due[p] \ {k} \/ due'[p] = due[p]
          /\ UNCHANGED <<toGet, ended, pc>>
        BY DEF Drop, Age, Without
    <2>2. /\ unlisted[p] \subseteq (Present \ lapsed) \cap (due[p] \union toGet[p])
          /\ p \in ended => due[p] = {}
          /\ pc[p] # "scanning" => unlisted[p] = {}
        BY DEF IInv, UnlistedIsAhead
    <2>. QED BY <1>1, <2>1, <2>2
<1>4. SeedInv' /\ CacheIsOwn' /\ PrefixIsCached'
    BY Untouched DEF Drop, Age, Rendered
<1>. QED BY <1>1, <1>2, <1>3, <1>4 DEF IInv

LEMMA InitInv == Init => IInv
<1>. SUFFICES ASSUME Init PROVE IInv
    OBVIOUS
<1>1. SeedInv
    BY ReadLimitAssumption DEF Init, SeedInit, SeedInv, SeedTypeOK, MissingIsUnstored
<1>2. QueueTypeOK
    BY DEF Init, QueueInit, QueueTypeOK
<1>3. PromptTypeOK
    <2>1. Blank \in Prefixes /\ AutoFacts \in Asked
        BY FactLimitAssumption DEF Blank, Prefixes, Asked
    <2>2. version \in 0..MaxVersion
        BY FactLimitAssumption DEF Init
    <2>. QED BY <2>1, <2>2 DEF Init, PromptTypeOK
<1>4. CacheIsOwn /\ PrefixIsCached /\ UnlistedIsAhead
    BY DEF Init, CacheIsOwn, PrefixIsCached, Rendered, UnlistedIsAhead
<1>. QED BY <1>1, <1>2, <1>3, <1>4 DEF IInv

LEMMA StepInv == IInv /\ [Next]_vars => IInv'
<1>. SUFFICES ASSUME IInv, [Next]_vars PROVE IInv'
    OBVIOUS
<1>1. ASSUME NEW p \in Prompts,
             Assemble(p) \/ SystemPrompt(p) \/ Scan(p) \/ Get(p) \/ Finish(p) \/ Fail(p)
      PROVE  IInv'
    BY <1>1, AssembleKeeps, SystemPromptKeeps, ScanKeeps, GetKeeps, FinishKeeps, FailKeeps
<1>2. CASE Refresh \/ Restart \/ Seed \/ Queue
    BY <1>2, RefreshKeeps, RestartKeeps, SeedKeeps, QueueKeeps
<1>3. ASSUME NEW k \in Keys, Drop(k) \/ Age(k)
      PROVE  IInv'
    BY <1>3, DropKeeps
<1>4. CASE UNCHANGED vars
    <2>1. PromptTypeOK' /\ UnlistedIsAhead'
        BY <1>4
        DEF vars, promptVars, scanVars, queueVars, Present, IInv, PromptTypeOK, UnlistedIsAhead
    <2>2. SeedInv' /\ QueueTypeOK' /\ CacheIsOwn' /\ PrefixIsCached'
        BY <1>4, Untouched DEF vars, promptVars, Rendered
    <2>. QED BY <2>1, <2>2 DEF IInv
<1>. QED BY <1>1, <1>2, <1>3, <1>4 DEF Next

LEMMA InvAlways == Spec => []IInv
BY InitInv, StepInv, PTL DEF Spec

\* Facts, prompts and queue keep their types, and only an assembly that scans is
\* at some key, in every instance (context_assembler.py 96-190).
THEOREM TypeCorrect == Spec => []TypeOK
<1>1. IInv => TypeOK
    BY DEF IInv, SeedInv, TypeOK
<1>. QED BY <1>1, InvAlways, PTL

\* Every prompt has the facts it was asked for and the prefix of the prompts with
\* the same inputs, and misses no event that was pending throughout its scan,
\* however many assemblies, syncs and events there are.  What overlay the prefix
\* shows is not claimed.
THEOREM PromptIsSoundAlways == Spec => []PromptIsSound
<1>1. IInv => PrefixIsOwn
    BY DEF IInv, PromptTypeOK, CacheIsOwn, PrefixIsCached, PrefixIsOwn
<1>2. IInv => PrefixIsStable
    BY DEF IInv, PrefixIsCached, PrefixIsStable
<1>3. IInv => NothingMissed
    BY DEF IInv, UnlistedIsAhead, NothingMissed
<1>4. IInv => PromptIsSound
    BY <1>1, <1>2, <1>3 DEF PromptIsSound
<1>. QED BY <1>4, InvAlways, PTL

\* No failure and no restart stores a fact twice: only a sync that was overtaken,
\* or could not read every row, does (cold_start_seeder.py 13-42).
THEOREM DuplicateOnlyByOverlapAlways == Spec => DuplicateOnlyByOverlap
<1>1. IInv /\ [Next]_vars =>
        [\A f \in Facts : rows[f] # 0 /\ rows'[f] # rows[f] =>
            \E s \in Syncs :
                /\ sync[s] = "storing" /\ f \in missing[s]
                /\ f \in overtaken[s] \/ s \in cut]_seedVars
    <2>. SUFFICES ASSUME IInv, [Next]_vars, NEW f \in Facts, rows[f] # 0, rows'[f] # rows[f]
                  PROVE  \E s \in Syncs :
                            /\ sync[s] = "storing" /\ f \in missing[s]
                            /\ f \in overtaken[s] \/ s \in cut
        OBVIOUS
    <2>1. SeedNext \/ SeedStop \/ UNCHANGED seedVars
        BY DEF Next, vars, Assemble, SystemPrompt, Scan, Get, Finish, Fail, Refresh, Restart,
               Seed, Queue, Drop, Age
    <2>. QED BY <2>1, StoredAgain DEF IInv
<1>. QED BY <1>1, InvAlways, PTL DEF Spec, DuplicateOnlyByOverlap

\* A prefix that is rendered stays as it is until the process ends, and every
\* prompt under way with it: the overlay a refresh has replaced is shown until a
\* restart, however many refreshes there were (prompt_loader.py,
\* build_prompt_segments).
THEOREM PrefixIsKept ==
    Spec => [][\A a \in Asked : cache[a] # Nothing =>
                cache'[a] = cache[a] \/ \A p \in Prompts : pc'[p] = "idle"]_vars
<1>. DEFINE Kept == \A a \in Asked : cache[a] # Nothing =>
                        cache'[a] = cache[a] \/ \A p \in Prompts : pc'[p] = "idle"
<1>1. ASSUME IInv, Next PROVE Kept
    <2>1. ASSUME NEW p \in Prompts, NEW a \in Asked, BuildPromptSegments(p, a) PROVE Kept
        BY <1>1, <2>1 DEF BuildPromptSegments, StableCacheKey, IInv, PromptTypeOK
    <2>2. ASSUME NEW p \in Prompts, Assemble(p) \/ SystemPrompt(p) PROVE Kept
        BY <2>1, <2>2, LoadedIsAsked DEF Assemble, SystemPrompt, Asked
    <2>3. CASE Restart
        BY <2>3 DEF Restart, Forget, Cleared
    <2>4. CASE UNCHANGED cache
        BY <2>4
    <2>. QED BY <1>1, <2>2, <2>3, <2>4
         DEF Next, Scan, Get, Finish, Fail, Refresh, Seed, Queue, Drop, Age, promptVars
<1>2. IInv /\ [Next]_vars =>
        [\A a \in Asked : cache[a] # Nothing =>
            cache'[a] = cache[a] \/ \A p \in Prompts : pc'[p] = "idle"]_vars
    BY <1>1
<1>. QED BY <1>2, InvAlways, PTL DEF Spec

\* If syncs never overlap, a fact is stored again only by a sync that could not
\* read every row: nothing else is needed for "not already stored"
\* (cold_start_seeder.py 13-42).
THEOREM AloneStoresOnce ==
    ASSUME \A s, q \in Syncs : s = q
    PROVE  Spec => [][\A f \in Facts : rows[f] # 0 /\ rows'[f] # rows[f] =>
                        \E s \in Syncs : sync[s] = "storing" /\ f \in missing[s] /\ s \in cut
                     ]_seedVars
<1>. DEFINE Alone == \A s \in Syncs : overtaken[s] = {}
            Again == \A f \in Facts : rows[f] # 0 /\ rows'[f] # rows[f] =>
                        \E s \in Syncs : sync[s] = "storing" /\ f \in missing[s] /\ s \in cut
<1>1. Init => Alone
    BY DEF Init, SeedInit
<1>2. ASSUME IInv, [Next]_vars PROVE SeedNext \/ SeedStop \/ UNCHANGED seedVars
    BY <1>2 DEF Next, vars, Assemble, SystemPrompt, Scan, Get, Finish, Fail, Refresh, Restart,
           Seed, Queue, Drop, Age
<1>3. ASSUME IInv, Alone, [Next]_vars PROVE Alone'
    <2>1. overtaken \in [Syncs -> SUBSET YamlFacts]
        BY <1>3 DEF IInv, SeedInv, SeedTypeOK
    <2>2. ASSUME NEW s \in Syncs, StoreFact(s) \/ StoreUnanswered(s) PROVE Alone'
        BY <1>3, <2>2 DEF StoreFact, StoreUnanswered, Insert
    <2>3. CASE SeedStop \/ UNCHANGED seedVars
        BY <1>3, <2>3 DEF SeedStop, seedVars
    <2>4. ASSUME NEW s \in Syncs, BeginSync(s) \/ EndSync(s) PROVE Alone'
        BY <1>3, <2>1, <2>4 DEF BeginSync, EndSync
    <2>. QED BY <1>2, <1>3, <2>2, <2>3, <2>4 DEF SeedNext
<1>4. ASSUME IInv, Alone, [Next]_vars PROVE [Again]_seedVars
    <2>. SUFFICES ASSUME NEW f \in Facts, rows[f] # 0, rows'[f] # rows[f]
                  PROVE  \E s \in Syncs : sync[s] = "storing" /\ f \in missing[s] /\ s \in cut
        OBVIOUS
    <2>. QED BY <1>2, <1>4, StoredAgain DEF IInv
<1>. QED BY <1>1, <1>3, <1>4, InvAlways, PTL DEF Spec
=============================================================================
