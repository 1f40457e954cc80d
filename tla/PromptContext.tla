---------------------------- MODULE PromptContext ---------------------------
(***************************************************************************)
(* How the system prompt of a conversation is put together                 *)
(* (pipeline/context_assembler.py, character/prompt_loader.py) from the    *)
(* identity facts that IdentitySeeder stores, the overlay that the refresh *)
(* loop (CapabilityRefresh) rewrites, and the events of PendingEvents.     *)
(*                                                                         *)
(* The stable prefix is rendered once for each list of facts and kept for  *)
(* the life of the process, with the overlay there was at that moment:     *)
(* the overlay is not part of the key, and a refresh does not reach a      *)
(* prefix that is cached.  The pending events are found by a SCAN of     *)
(* Redis, which is not atomic: it returns each key that is there from its  *)
(* beginning to its end, and may or may not return the others.  Prompts    *)
(* are assembled concurrently, and any step may fail or the process stop.  *)
(*                                                                         *)
(* Of a prompt only the prefix and the observations are modelled; turns,   *)
(* episodes and entities are read from xnch and passed on.  Observations   *)
(* are a set: their order by priority, and the repetition of one whose key *)
(* SCAN returns twice, are left out, as is the order of the facts.         *)
(***************************************************************************)
EXTENDS IdentitySeeder, PendingEvents

CONSTANTS
    Prompts,    \* assemblies
    WithEngine, \* those that are given a ProactivityEngine
    FactLimit,  \* rows an assembly reads
    MaxVersion, \* bound: refreshes of the overlay
    AutoFacts,  \* the key of a prefix that names no facts
    Nothing     \* nothing cached

ASSUME WithEngineAssumption == WithEngine \subseteq Prompts
ASSUME FactLimitAssumption == FactLimit \in Nat \ {0} /\ MaxVersion \in Nat
ASSUME AutoAssumption == \A R \in SUBSET Facts : R # AutoFacts
ASSUME NothingAssumption == Nothing \notin [facts : SUBSET Facts, version : Nat]

VARIABLES
    version, \* of the overlay; in a prefix, 0 also stands for one that was not read
    cache,   \* _STABLE_CACHE
    pc,      \* where each assembly is
    asked,   \* the facts it asks a prefix for
    stable,  \* the prefix it got
    due,     \* keys that were there when its scan began and still are, not yet returned
    toGet,   \* keys returned that it has not looked at yet
    ended,   \* assemblies whose scan is at cursor 0 again
    \* history, for the properties only:
    past,    \* prompts rendered before the overlay was last refreshed
    unlisted \* events pending since its scan began that a prompt does not show

scanVars == <<due, toGet, ended, unlisted>>
promptVars == <<version, past, cache, pc, asked, stable, scanVars>>
vars == <<promptVars, seedVars, queueVars>>

Asked == {AutoFacts} \union SUBSET Facts
Prefixes == [facts : SUBSET Facts, version : 0..MaxVersion]
FactsOf(a) == IF a = AutoFacts THEN YamlFacts ELSE a

\* Only a scan is at some key.
PromptTypeOK ==
    /\ version \in 0..MaxVersion
    /\ past \subseteq Prompts
    /\ cache \in [Asked -> Prefixes \union {Nothing}]
    /\ pc \in [Prompts -> {"idle", "scanning", "done"}]
    /\ asked \in [Prompts -> Asked]
    /\ stable \in [Prompts -> Prefixes]
    /\ due \in [Prompts -> SUBSET Keys]
    /\ toGet \in [Prompts -> SUBSET Keys]
    /\ ended \subseteq Prompts
    /\ unlisted \in [Prompts -> SUBSET Keys]
    /\ \A p \in Prompts : pc[p] # "scanning" => toGet[p] = {} /\ p \notin ended

TypeOK == SeedTypeOK /\ QueueTypeOK /\ PromptTypeOK

\* The prefix of the prompt has been chosen.
Rendered(p) == pc[p] \in {"scanning", "done"}

Blank == [facts |-> {}, version |-> 0]

Init ==
    /\ SeedInit /\ QueueInit
    /\ version = 0 /\ past = {}
    /\ cache = [a \in Asked |-> Nothing]
    /\ pc = [p \in Prompts |-> "idle"]
    /\ asked = [p \in Prompts |-> AutoFacts]
    /\ stable = [p \in Prompts |-> Blank]
    /\ due = [p \in Prompts |-> {}]
    /\ toGet = [p \in Prompts |-> {}]
    /\ ended = {}
    /\ unlisted = [p \in Prompts |-> {}]

\* Assemblies that end without a prompt leave nothing.
Cleared(f, P, value) == [p \in Prompts |-> IF p \in P THEN value ELSE f[p]]
Forget(P) ==
    /\ pc' = Cleared(pc, P, "idle")
    /\ asked' = Cleared(asked, P, AutoFacts)
    /\ stable' = Cleared(stable, P, Blank)
    /\ due' = Cleared(due, P, {})
    /\ toGet' = Cleared(toGet, P, {})
    /\ ended' = ended \ P
    /\ past' = past \ P
    /\ unlisted' = Cleared(unlisted, P, {})

(***************************************************************************)
(* The prefix.                                                             *)
(***************************************************************************)

\* Defect: the facts are left out of the key.
X_StableCacheKey_NoFacts(a) == AutoFacts

\* The hash of the facts, "<auto>" for none.  Prompts that name facts show no
\* capabilities and the others do, so that this input adds nothing to the key.
StableCacheKey(a) == a

\* An overlay that cannot be read is left out, and so cached.
RenderStableCore(a) == {[facts |-> FactsOf(a), version |-> v] : v \in {0, version}}

\* build_prompt_segments: one step, nothing is awaited.
BuildPromptSegments(p, a) ==
    LET k == StableCacheKey(a) IN
    /\ asked' = [asked EXCEPT ![p] = a]
    /\ past' = past \ {p}
    /\ \E prefix \in IF cache[k] = Nothing THEN RenderStableCore(a) ELSE {cache[k]} :
        /\ stable' = [stable EXCEPT ![p] = prefix]
        /\ cache' = [cache EXCEPT ![k] = prefix]

\* _load_identity_facts: the texts it fetched, or the file's if there are none
\* or the fetch failed.
LoadedFacts == {IF R = {} THEN YamlFacts ELSE R : R \in Fetched(FactLimit) \union {{}}}

\* assemble_context up to the scan; without an engine there is none.  What was
\* fetched is not read again, so that fetching and rendering are one step.
Assemble(p) ==
    /\ pc[p] # "scanning"
    /\ \E facts \in LoadedFacts : BuildPromptSegments(p, facts)
    /\ IF p \in WithEngine
       THEN /\ pc' = [pc EXCEPT ![p] = "scanning"]
            /\ due' = [due EXCEPT ![p] = Present]
            /\ unlisted' = [unlisted EXCEPT ![p] = Present \ lapsed]
       ELSE /\ pc' = [pc EXCEPT ![p] = "done"]
            /\ UNCHANGED <<due, unlisted>>
    /\ UNCHANGED <<version, toGet, ended, seedVars, queueVars>>

\* get_nexi_system_prompt: no facts, no observations.
SystemPrompt(p) ==
    /\ pc[p] # "scanning"
    /\ BuildPromptSegments(p, AutoFacts)
    /\ pc' = [pc EXCEPT ![p] = "done"]
    /\ UNCHANGED <<version, scanVars, seedVars, queueVars>>

(***************************************************************************)
(* get_pending.                                                            *)
(***************************************************************************)

\* The next keys.  When the cursor is 0 again, every key that was there all the
\* time has been returned.
Scan(p) ==
    /\ pc[p] = "scanning" /\ p \notin ended /\ toGet[p] = {}
    /\ \E batch \in SUBSET Present :
        /\ toGet' = [toGet EXCEPT ![p] = batch]
        /\ due' = [due EXCEPT ![p] = @ \ batch]
        /\ \/ batch # {} /\ ended' = ended
           \/ due[p] \subseteq batch /\ ended' = ended \union {p}
    /\ UNCHANGED <<version, past, cache, pc, asked, stable, unlisted, seedVars, queueVars>>

\* Defect: a key that has gone ends the batch it is in.
X_Get_Breaks(p) ==
    /\ pc[p] = "scanning"
    /\ \E k \in toGet[p] :
        /\ toGet' = [toGet EXCEPT ![p] = IF k \in Present THEN @ \ {k} ELSE {}]
        /\ unlisted' = [unlisted EXCEPT ![p] = @ \ ({k} \cap (Present \ lapsed))]
    /\ UNCHANGED <<version, past, cache, pc, asked, stable, due, ended, seedVars, queueVars>>

\* One key of the batch: it may be gone, or its event past its time.
Get(p) ==
    /\ pc[p] = "scanning"
    /\ \E k \in toGet[p] :
        /\ toGet' = [toGet EXCEPT ![p] = @ \ {k}]
        /\ unlisted' = [unlisted EXCEPT ![p] = @ \ ({k} \cap (Present \ lapsed))]
    /\ UNCHANGED <<version, past, cache, pc, asked, stable, due, ended, seedVars, queueVars>>

\* Defect: the loop ends before it looks at the last batch.
X_Finish_Early(p) ==
    /\ pc[p] = "scanning" /\ p \in ended
    /\ pc' = [pc EXCEPT ![p] = "done"]
    /\ ended' = ended \ {p}
    /\ UNCHANGED <<version, past, cache, asked, stable, due, toGet, unlisted, seedVars, queueVars>>

Finish(p) ==
    /\ pc[p] = "scanning" /\ p \in ended /\ toGet[p] = {}
    /\ pc' = [pc EXCEPT ![p] = "done"]
    /\ ended' = ended \ {p}
    /\ UNCHANGED <<version, past, cache, asked, stable, due, toGet, unlisted, seedVars, queueVars>>

\* A call of Redis fails, and the assembly with it.
Fail(p) ==
    /\ pc[p] = "scanning"
    /\ Forget({p})
    /\ UNCHANGED <<version, cache, seedVars, queueVars>>

(***************************************************************************)
(* Around it.                                                              *)
(***************************************************************************)

\* The refresh loop replaces the overlay.
Refresh ==
    /\ version < MaxVersion
    /\ version' = version + 1
    /\ past' = {p \in Prompts : Rendered(p)}
    /\ UNCHANGED <<cache, pc, asked, stable, scanVars, seedVars, queueVars>>

\* The process stops, with all it has under way, and starts again.
Restart ==
    /\ cache' = [a \in Asked |-> Nothing]
    /\ Forget(Prompts)
    /\ SeedStop /\ QueueStop
    /\ UNCHANGED version

Seed == SeedNext /\ UNCHANGED <<promptVars, queueVars>>

\* Keys that no scan remembers: a new key is none of those.
Unknown == {k \in Keys : \A p \in Prompts : k \notin toGet[p]}

Queue ==
    /\ \/ Evaluate \/ QueueFails
       \/ \E k \in Unknown, c \in Conditions : QueueEvent(k, c) \/ QueueUnanswered(k, c)
    /\ UNCHANGED <<promptVars, seedVars>>

\* Of what a scan must return, or a prompt must show, a key drops out when it
\* goes, or its event lapses.
Without(f, k) == [p \in Prompts |-> f[p] \ {k}]

Drop(k) ==
    /\ Evict(k)
    /\ due' = Without(due, k) /\ unlisted' = Without(unlisted, k)
    /\ UNCHANGED <<version, past, cache, pc, asked, stable, toGet, ended, seedVars>>

Age(k) ==
    /\ Lapse(k)
    /\ unlisted' = Without(unlisted, k)
    /\ UNCHANGED <<version, past, cache, pc, asked, stable, due, toGet, ended, seedVars>>

Next ==
    \/ \E p \in Prompts :
        Assemble(p) \/ SystemPrompt(p) \/ Scan(p) \/ Get(p) \/ Finish(p) \/ Fail(p)
    \/ Refresh \/ Restart \/ Seed \/ Queue
    \/ \E k \in Keys : Drop(k) \/ Age(k)

Spec == Init /\ [][Next]_vars

(***************************************************************************)
(* Properties.                                                             *)
(***************************************************************************)

\* A prompt has the facts it was asked for.
PrefixIsOwn == \A p \in Prompts : Rendered(p) => stable[p].facts = FactsOf(asked[p])

\* Prompts of one life of the process about the same facts share their prefix,
\* byte for byte, also when the overlay could not be read for one of them.  It is
\* said of prompts between which the overlay was not refreshed: the code shares the
\* prefix across a refresh too, and its documents disagree about that (README).
PrefixIsStable ==
    \A p, q \in Prompts :
        Rendered(p) /\ Rendered(q) /\ asked[p] = asked[q] /\ (p \in past <=> q \in past)
            => stable[p] = stable[q]

\* A prompt shows each event that was pending from the beginning to the end of
\* its scan.
NothingMissed ==
    \A p \in Prompts : pc[p] = "done" => unlisted[p] = {}

\* No prompt gets the prefix of other facts, equal inputs give equal prefixes
\* ("keeping the stable prefix byte identical across calls", prompt_loader.py
\* 33-38), and a prompt shows every event that was pending throughout, though keys
\* come and go during the scan (engine.py 146-164).  Nothing is claimed of the
\* overlay in the prefix: it may be older than the last refresh.
PromptIsSound == PrefixIsOwn /\ PrefixIsStable /\ NothingMissed
=============================================================================
