--------------------------- MODULE IdentitySeeder ---------------------------
(***************************************************************************)
(* sync_identity_memories (character/cold_start_seeder.py): the facts of   *)
(* identity_facts.yaml are stored as identity episodes of xnch's memory.   *)
(* A sync reads what is stored, up to a limit, and stores what it did not  *)
(* find, one fact after the other.  Nothing is unique and nothing locked:  *)
(* syncs may overlap, and a fact taken out of the file stays stored.       *)
(***************************************************************************)
EXTENDS Naturals, FiniteSets, Functions

CONSTANTS
    Facts,     \* texts of identity episodes
    YamlFacts, \* those in the file
    Before,    \* those an earlier version of the file had stored, one row each
    Syncs,     \* calls of sync_identity_memories
    ReadLimit, \* rows a sync reads
    MaxCopies  \* bound: rows with the same text

ASSUME FactsAssumption == YamlFacts \subseteq Facts /\ Before \subseteq Facts
ASSUME ReadLimitAssumption == ReadLimit \in Nat \ {0} /\ MaxCopies \in Nat \ {0}

VARIABLES
    rows,     \* identity episodes with each text
    sync,     \* where each sync is
    missing,  \* facts it has yet to store
    \* history, for the properties only:
    overtaken, \* facts another sync has stored since this one read
    cut        \* syncs that did not see every row

seedVars == <<rows, sync, missing, overtaken, cut>>

SeedTypeOK ==
    /\ rows \in [Facts -> 0..MaxCopies]
    /\ sync \in [Syncs -> {"idle", "storing"}]
    /\ missing \in [Syncs -> SUBSET YamlFacts]
    /\ overtaken \in [Syncs -> SUBSET YamlFacts]
    /\ cut \subseteq Syncs
    /\ \A s \in Syncs : sync[s] = "idle" => missing[s] = {} /\ overtaken[s] = {} /\ s \notin cut

SeedInit ==
    /\ rows = [f \in Facts |-> IF f \in Before THEN 1 ELSE 0]
    /\ sync = [s \in Syncs |-> "idle"]
    /\ missing = [s \in Syncs |-> {}]
    /\ overtaken = [s \in Syncs |-> {}]
    /\ cut = {}

\* fetch_by_type (external): the texts of at most limit rows, any if there are
\* more.
Stored == {f \in Facts : rows[f] # 0}
Overfull(limit) == ~(SumFunction(rows) <= limit)
Fetched(limit) ==
    IF Overfull(limit)
    THEN {R \in SUBSET Stored : Cardinality(R) <= limit /\ limit <= SumFunctionOnSet(rows, R)}
    ELSE {Stored}

\* Defect: what is stored already is not looked at.
X_BeginSync_StoresAll(s) ==
    /\ sync[s] = "idle"
    /\ missing' = [missing EXCEPT ![s] = YamlFacts]
    /\ sync' = [sync EXCEPT ![s] = "storing"]
    /\ cut' = IF Overfull(ReadLimit) THEN cut \union {s} ELSE cut
    /\ UNCHANGED <<rows, overtaken>>

BeginSync(s) ==
    /\ sync[s] = "idle"
    /\ \E R \in Fetched(ReadLimit) : missing' = [missing EXCEPT ![s] = YamlFacts \ R]
    /\ sync' = [sync EXCEPT ![s] = "storing"]
    /\ cut' = IF Overfull(ReadLimit) THEN cut \union {s} ELSE cut
    /\ UNCHANGED <<rows, overtaken>>

\* s stores f; the other syncs under way have read before that.  own is what is
\* to be remembered of s itself.
Insert(s, f, own) ==
    /\ rows[f] < MaxCopies
    /\ rows' = [rows EXCEPT ![f] = @ + 1]
    /\ overtaken' = [q \in Syncs |->
                        IF q = s THEN own
                        ELSE IF sync[q] = "storing" THEN overtaken[q] \union {f} ELSE {}]

Leave(s) ==
    /\ sync' = [sync EXCEPT ![s] = "idle"]
    /\ missing' = [missing EXCEPT ![s] = {}]
    /\ cut' = cut \ {s}

StoreFact(s) ==
    /\ sync[s] = "storing"
    /\ \E f \in missing[s] :
        /\ Insert(s, f, overtaken[s])
        /\ missing' = [missing EXCEPT ![s] = @ \ {f}]
    /\ UNCHANGED <<sync, cut>>

\* The row is stored but the call fails, and the sync with it.
StoreUnanswered(s) ==
    /\ sync[s] = "storing"
    /\ \E f \in missing[s] : Insert(s, f, {})
    /\ Leave(s)

\* The sync has stored all it missed, or fails at one of them.
EndSync(s) ==
    /\ sync[s] = "storing"
    /\ Leave(s)
    /\ overtaken' = [overtaken EXCEPT ![s] = {}]
    /\ UNCHANGED rows

SeedNext ==
    \E s \in Syncs : BeginSync(s) \/ StoreFact(s) \/ StoreUnanswered(s) \/ EndSync(s)

\* The process ends: its syncs with it.
SeedStop ==
    /\ sync' = [s \in Syncs |-> "idle"]
    /\ missing' = [s \in Syncs |-> {}]
    /\ overtaken' = [s \in Syncs |-> {}]
    /\ cut' = {}
    /\ UNCHANGED rows

\* "Insert identity episodes that are not already stored": a fact that is stored
\* is stored again only by a sync that another one has overtaken with this fact
\* since it read, or that could not read every row.  In particular no failure
\* and no restart in the middle of a sync stores a fact twice
\* (cold_start_seeder.py 13-42).
DuplicateOnlyByOverlap ==
    [][\A f \in Facts : rows[f] # 0 /\ rows'[f] # rows[f] =>
        \E s \in Syncs :
            /\ sync[s] = "storing" /\ f \in missing[s]
            /\ f \in overtaken[s] \/ s \in cut]_seedVars
=============================================================================
