------------------------- MODULE CapabilityRefresh --------------------------
(***************************************************************************)
(* The self-description nexi serves (main.py, character/): a background    *)
(* task and any number of POST /nexi/refresh requests read the topology,   *)
(* probe the services one after the other, ask xnch for its tools, write   *)
(* the capabilities overlay and publish what they saw; the persona overlay *)
(* is built in the same way right after.  All of them run in one event     *)
(* loop, each await lets the others in, and none of them locks anything.   *)
(*                                                                         *)
(* What there is to see is a version of the world that only grows.  A      *)
(* description is the sequence of versions its parts were read at: the     *)
(* topology, each service, the tools and, of the persona, the inference    *)
(* backend.  A tool list taken from the local configuration, because xnch  *)
(* does not answer, is an answer like any other.                           *)
(***************************************************************************)
EXTENDS Naturals, Sequences

CONSTANTS
    Callers,    \* concurrent POST /nexi/refresh requests
    Task,       \* the background task
    Absent,     \* no file, nothing published
    Torn,       \* a file with less than the text that is being written
    Services,   \* how many services the topology names
    Period,     \* probes per overlay write: refresh interval / probe interval
    PersonaOn,  \* settings.persona_auto_refresh
    MaxWorld    \* bound: changes of the world

ASSUME TaskAssumption == Task \notin Callers
ASSUME PeriodAssumption == Period \in Nat \ {0}
ASSUME PersonaAssumption == PersonaOn \in BOOLEAN
ASSUME BoundsAssumption == {Services, MaxWorld} \subseteq Nat

VARIABLES
    world,    \* the version of hosts, services and tools
    pc,       \* where each refresher is
    job,      \* which description it is building
    seen,     \* the parts of it that it has read so far
    forced,   \* whether it is to write the capabilities overlay
    elapsed,  \* probes since the task last set out to write
    tmp,      \* the temporary file beside each generated one
    overlay,  \* the generated files, capabilities and persona
    memory,   \* _capability_state
    \* history, for the properties only:
    since,    \* the version of the world when each refresher set out
    trouble   \* what the last step cost: a run of the process, or a refresh of the task

jobVars == <<pc, job, seen, forced, since>>
vars == <<world, jobVars, elapsed, tmp, overlay, memory, trouble>>

Refreshers == Callers \union {Task}
Jobs == {"capabilities", "persona"}
Versions == 0..MaxWorld

\* Topology, services and tools; the persona also asks for the backend's health.
Parts(j) == Services + (IF j = "persona" THEN 3 ELSE 2)
Contents == UNION { [1..Parts(j) -> Versions] : j \in Jobs }
Files == Contents \union {Absent, Torn}

ASSUME FileAssumption == Absent \notin Contents /\ Torn \notin Contents \union {Absent}

TypeOK ==
    /\ world \in Versions
    /\ pc \in [Refreshers -> {"rest", "asking", "filling", "renaming"}]
    /\ job \in [Refreshers -> Jobs]
    /\ seen \in [Refreshers -> Seq(Versions)]
    /\ forced \in [Refreshers -> BOOLEAN]
    /\ elapsed \in 0..(Period - 1)
    /\ tmp \in [Jobs -> Files]
    /\ overlay \in [Jobs -> Files]
    /\ memory \in Contents \union {Absent}
    /\ since \in [Refreshers -> Versions]
    /\ trouble \in {"none", "build", "write", "crash"}

\* A write does not await, so while it lasts nobody else in the process moves.
Writing(r) == pc[r] \in {"filling", "renaming"}
Free == \A r \in Refreshers : ~Writing(r)

-----------------------------------------------------------------------------
(* Setting out. *)

\* Defect: requests work on the topology the process was started with.
SetOut_CachedTopology(r, j, f) ==
    /\ pc' = [pc EXCEPT ![r] = "asking"]
    /\ job' = [job EXCEPT ![r] = j]
    /\ forced' = [forced EXCEPT ![r] = f]
    /\ seen' = [seen EXCEPT ![r] = IF r = Task THEN <<world>> ELSE <<0>>]
    /\ since' = [since EXCEPT ![r] = world]

\* build_snapshot reads the manifests before the first await.
SetOut(r, j, f) ==
    /\ pc' = [pc EXCEPT ![r] = "asking"]
    /\ job' = [job EXCEPT ![r] = j]
    /\ forced' = [forced EXCEPT ![r] = f]
    /\ seen' = [seen EXCEPT ![r] = <<world>>]
    /\ since' = [since EXCEPT ![r] = world]

Rest(r) ==
    /\ pc' = [pc EXCEPT ![r] = "rest"]
    /\ seen' = [seen EXCEPT ![r] = <<>>]
    /\ since' = [since EXCEPT ![r] = 0]
    /\ UNCHANGED <<job, forced>>

\* The persona follows the capabilities, with nothing in between.
Proceed(r) ==
    IF job[r] = "capabilities" /\ PersonaOn THEN SetOut(r, "persona", TRUE) ELSE Rest(r)

\* An exception leaves _refresh_capabilities: the task logs it and goes on, the
\* request is answered 500.  build_persona lets none out.
GiveUp(r) == IF r = Task THEN Proceed(r) ELSE Rest(r)

Init ==
    /\ world = 0
    /\ pc = [r \in Refreshers |-> IF r = Task THEN "asking" ELSE "rest"]
    /\ job = [r \in Refreshers |-> "capabilities"]
    /\ seen = [r \in Refreshers |-> IF r = Task THEN <<0>> ELSE <<>>]
    /\ forced = [r \in Refreshers |-> TRUE]
    /\ elapsed = 0
    /\ tmp = [j \in Jobs |-> Absent] /\ overlay = [j \in Jobs |-> Absent]
    /\ memory = Absent
    /\ since = [r \in Refreshers |-> 0]
    /\ trouble = "none"

\* Defect: the interval is compared with > and the count is never reset.
Wake_CountsOn ==
    /\ pc[Task] = "rest" /\ Free
    /\ elapsed' = elapsed + 1
    /\ SetOut(Task, "capabilities", elapsed >= Period)
    /\ trouble' = "none"
    /\ UNCHANGED <<world, tmp, overlay, memory>>

\* Defect: every probe starts the interval again.
Wake_AlwaysReset ==
    /\ pc[Task] = "rest" /\ Free
    /\ elapsed' = 0
    /\ SetOut(Task, "capabilities", elapsed + 1 >= Period)
    /\ trouble' = "none"
    /\ UNCHANGED <<world, tmp, overlay, memory>>

\* The task's sleep ends.  It counts the interval as used before it has written.
Wake ==
    /\ pc[Task] = "rest" /\ Free
    /\ LET due == elapsed + 1 >= Period
       IN  /\ elapsed' = IF due THEN 0 ELSE elapsed + 1
           /\ SetOut(Task, "capabilities", due)
    /\ trouble' = "none"
    /\ UNCHANGED <<world, tmp, overlay, memory>>

Request(c) ==
    /\ pc[c] = "rest" /\ Free
    /\ SetOut(c, "capabilities", TRUE)
    /\ trouble' = "none"
    /\ UNCHANGED <<world, elapsed, tmp, overlay, memory>>

Complete(r) == pc[r] = "asking" /\ Len(seen[r]) = Parts(job[r])

\* One await: a service, xnch's tools or the backend is asked.  No answer is an
\* answer too - down, or the local configuration - so this always ends.
Answer(r) ==
    /\ pc[r] = "asking" /\ ~Complete(r) /\ Free
    /\ seen' = [seen EXCEPT ![r] = Append(@, world)]
    /\ trouble' = "none"
    /\ UNCHANGED <<world, pc, job, forced, since, elapsed, tmp, overlay, memory>>

\* A manifest, policy or template that cannot be used as it is: the build raises.
BuildFails(r) ==
    /\ pc[r] = "asking" /\ Free
    /\ GiveUp(r)
    /\ trouble' = IF r = Task THEN "build" ELSE "none"
    /\ UNCHANGED <<world, elapsed, tmp, overlay, memory>>

-----------------------------------------------------------------------------
(* The end of a refresh: write_overlay or write_persona_overlay, if it is  *)
(* to write at all, and what is published.                                 *)

Writes(r) == job[r] = "persona" \/ forced[r]

\* Defect: what was seen is published only along with the file.
Publish_WhenWritten(r) ==
    memory' = IF job[r] = "capabilities" /\ forced[r] THEN seen[r] ELSE memory

\* _capability_state.update.  The audit event of a changed file has no reader.
Publish(r) == memory' = IF job[r] = "capabilities" THEN seen[r] ELSE memory

\* Nothing to write, or the file holds the very text.  The text also holds the
\* second it was made in: one of the same versions need not be the same.
Finish(r) ==
    /\ Complete(r) /\ Free
    /\ Writes(r) => overlay[job[r]] = seen[r]
    /\ Publish(r)
    /\ Proceed(r)
    /\ trouble' = "none"
    /\ UNCHANGED <<world, elapsed, tmp, overlay>>

\* tmp.write_text opens the temporary file, which empties it, ...
Open(r) ==
    /\ Complete(r) /\ Writes(r) /\ Free
    /\ tmp' = [tmp EXCEPT ![job[r]] = Torn]
    /\ pc' = [pc EXCEPT ![r] = "filling"]
    /\ trouble' = "none"
    /\ UNCHANGED <<world, job, seen, forced, since, elapsed, overlay, memory>>

\* Defect: a write that stops short is not noticed.
Fill_Unchecked(r) ==
    /\ pc[r] = "filling"
    /\ \E text \in {seen[r], Torn} : tmp' = [tmp EXCEPT ![job[r]] = text]
    /\ pc' = [pc EXCEPT ![r] = "renaming"]
    /\ trouble' = "none"
    /\ UNCHANGED <<world, job, seen, forced, since, elapsed, overlay, memory>>

\* ... and fills and closes it.
Fill(r) ==
    /\ pc[r] = "filling"
    /\ tmp' = [tmp EXCEPT ![job[r]] = seen[r]]
    /\ pc' = [pc EXCEPT ![r] = "renaming"]
    /\ trouble' = "none"
    /\ UNCHANGED <<world, job, seen, forced, since, elapsed, overlay, memory>>

\* tmp.replace, and what follows it up to the next await.
Rename(r) ==
    /\ pc[r] = "renaming"
    /\ overlay' = [overlay EXCEPT ![job[r]] = tmp[job[r]]]
    /\ tmp' = [tmp EXCEPT ![job[r]] = Absent]
    /\ Publish(r)
    /\ Proceed(r)
    /\ trouble' = "none"
    /\ UNCHANGED <<world, elapsed>>

\* OSError, before the file is opened, while it is filled, or at the rename:
\* nothing is published, and the temporary file stays as it is.
WriteFails(r) ==
    /\ (Complete(r) /\ Writes(r) /\ Free) \/ Writing(r)
    /\ GiveUp(r)
    /\ trouble' = IF r = Task THEN "write" ELSE "none"
    /\ UNCHANGED <<world, elapsed, tmp, overlay, memory>>

-----------------------------------------------------------------------------

\* The process dies, at any point, and is started again.  Both files are left as
\* they are.
Crash ==
    /\ memory' = Absent
    /\ elapsed' = 0
    /\ pc' = [r \in Refreshers |-> IF r = Task THEN "asking" ELSE "rest"]
    /\ job' = [r \in Refreshers |-> "capabilities"]
    /\ forced' = [r \in Refreshers |-> TRUE]
    /\ seen' = [r \in Refreshers |-> IF r = Task THEN <<world>> ELSE <<>>]
    /\ since' = [r \in Refreshers |-> IF r = Task THEN world ELSE 0]
    /\ trouble' = "crash"
    /\ UNCHANGED <<world, tmp, overlay>>

\* GET /nexi/capabilities: before the first refresh, what load_capabilities finds
\* on disk (the hand-written base, when there is no overlay).
Served == IF memory # Absent THEN memory ELSE overlay["capabilities"]

\* External: hosts, services and tools change.
Change ==
    /\ world < MaxWorld
    /\ world' = world + 1
    /\ trouble' = "none"
    /\ UNCHANGED <<jobVars, elapsed, tmp, overlay, memory>>

Steps(r) == Answer(r) \/ Finish(r) \/ Open(r) \/ Fill(r) \/ Rename(r) \/ WriteFails(r)

Next ==
    \/ Wake \/ Crash \/ Change
    \/ \E c \in Callers : Request(c)
    \/ \E r \in Refreshers : Steps(r) \/ BuildFails(r)

Spec == Init /\ [][Next]_vars

\* Every question has a timeout, the task sleeps a fixed time, and the event loop
\* puts no ready task off for ever: a refresher that is held up by the writes of
\* others again and again still gets its turn.  Nobody has to ask for a refresh,
\* and no disk has to accept one.
Fairness ==
    /\ SF_vars(Wake \/ Steps(Task))
    /\ \A c \in Callers : SF_vars(Steps(c))

FairSpec == Spec /\ Fairness

-----------------------------------------------------------------------------

\* Whoever reads a generated file reads one that some refresher wrote in full, at
\* whatever point of a write the process dies or the disk refuses: what is renamed
\* over it is the temporary file that was filled, and the temporary files of
\* refreshers that build the same description are never filled at the same time,
\* although they have one name.  load_capabilities and load_persona can be called
\* at any moment, also by another process.
OverlayWhole == \A j \in Jobs : overlay[j] # Torn

\* Two refreshers overlap and the slower one publishes last, so what is served
\* can go back to an older state of a service.  Only one that set out before that
\* state was reached can do so: a refresh that starts after a change is published
\* never takes it back, in any of the parts that it asks for one by one.
StepBackOnlyByOverlap ==
    [][\A r \in Refreshers :
         /\ memory # Absent /\ memory' # memory
         /\ job[r] = "capabilities" /\ (Finish(r) \/ Rename(r))
         => \A p \in DOMAIN memory : memory'[p] >= memory[p] \/ since[r] < memory[p]]_vars

Current(c) == c \in Contents /\ \A p \in DOMAIN c : c[p] = world

\* The files the task writes.
Written == {"capabilities"} \union (IF PersonaOn THEN {"persona"} ELSE {})

\* Once the world stops changing, the process keeps running and the task can use its
\* manifests, what is served becomes and stays what there is, even if the disk never
\* accepts another overlay: a failed write costs only the refreshes that were to
\* write, one probe in a Period.
ServedEventuallyFresh ==
    <>[](trouble \in {"none", "write"}) => <>[]Current(Served)

\* If besides the task's writes stop failing, both generated files become and stay
\* what there is, although the interval is used up by every attempt, failed ones
\* included, and requests still in flight may write an older reading in between.
OverlayEventuallyFresh ==
    <>[](trouble = "none") => \A j \in Written : <>[]Current(overlay[j])
=============================================================================
