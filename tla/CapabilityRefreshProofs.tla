---------------------- MODULE CapabilityRefreshProofs -----------------------
(***************************************************************************)
(* Proofs about CapabilityRefresh, for any number of concurrent requests   *)
(* and services, any interval and any number of changes, faults and        *)
(* restarts.                                                               *)
(*                                                                         *)
(* The inductive invariant says of the files that one refresher at most    *)
(* writes, and that the temporary file it is about to rename holds what it *)
(* read; of the readings, that none is older than the moment its refresher *)
(* set out.  What is published is bounded from the other side too: nothing *)
(* is published that was not there, and the background task alone never    *)
(* takes anything back.                                                    *)
(***************************************************************************)
EXTENDS CapabilityRefresh, TLAPS

\* Every part was read after its refresher set out, and all of them before a write.
ReadAfterSettingOut ==
    \A r \in Refreshers :
        /\ since[r] <= world
        /\ pc[r] # "rest" => Len(seen[r]) \in 1..Parts(job[r])
        /\ Writing(r) => Len(seen[r]) = Parts(job[r])
        /\ \A p \in 1..Len(seen[r]) : since[r] <= seen[r][p]

OneWriter == \A q, r \in Refreshers : Writing(q) /\ Writing(r) => q = r

\* What is about to be renamed is the whole text.
FilledIsWhole == \A r \in Refreshers : pc[r] = "renaming" => tmp[job[r]] = seen[r]

WriterInv == ReadAfterSettingOut /\ OneWriter /\ FilledIsWhole

IInv == TypeOK /\ WriterInv /\ OverlayWhole

\* The types of what a refresher keeps.
JobTypes ==
    /\ pc \in [Refreshers -> {"rest", "asking", "filling", "renaming"}]
    /\ job \in [Refreshers -> Jobs]
    /\ seen \in [Refreshers -> Seq(Versions)]
    /\ forced \in [Refreshers -> BOOLEAN]
    /\ since \in [Refreshers -> Versions]

LEMMA PartsType == \A j \in Jobs : Parts(j) \in Nat /\ Parts(j) >= 2
BY BoundsAssumption DEF Parts

\* When all parts are read, they make a description.
LEMMA CompleteIsContent ==
    ASSUME TypeOK, NEW r \in Refreshers, Len(seen[r]) = Parts(job[r])
    PROVE  seen[r] \in Contents
<1>1. job[r] \in Jobs /\ seen[r] \in Seq(Versions)
    BY DEF TypeOK
<1>2. seen[r] \in [1..Parts(job[r]) -> Versions]
    BY <1>1
<1>. QED BY <1>1, <1>2 DEF Contents

\* Nothing changes for a refresher's readings while it sets out again or rests: the
\* types are kept, it has read nothing older than its start, and the others are not
\* disturbed, as the temporary file changes only if it was the one to write.
LEMMA SetOutKeeps ==
    ASSUME TypeOK, WriterInv, world' = world, NEW r \in Refreshers,
           tmp' = tmp \/ Writing(r), NEW j \in Jobs, NEW f \in BOOLEAN, SetOut(r, j, f)
    PROVE  JobTypes' /\ WriterInv'
<1>1. world \in Nat /\ world \in Versions /\ <<world>> \in Seq(Versions)
    BY BoundsAssumption DEF TypeOK, Versions
<1>2. JobTypes'
    BY <1>1 DEF TypeOK, SetOut, JobTypes
<1>3. pc'[r] = "asking" /\ job'[r] = j /\ seen'[r] = <<world>> /\ since'[r] = world
    BY DEF TypeOK, SetOut
<1>4. \A q \in Refreshers : q # r => /\ pc'[q] = pc[q] /\ job'[q] = job[q]
                                     /\ seen'[q] = seen[q] /\ since'[q] = since[q]
    BY DEF TypeOK, SetOut
<1>5. ReadAfterSettingOut'
    <2>1. 1 \in 1..Parts(j)
        BY PartsType
    <2>2. /\ since'[r] <= world'
          /\ Len(seen'[r]) \in 1..Parts(job'[r])
          /\ pc'[r] = "asking"
          /\ \A p \in 1..Len(seen'[r]) : since'[r] <= seen'[r][p]
        BY <1>1, <1>3, <2>1
    <2>. QED BY <1>4, <2>2 DEF WriterInv, ReadAfterSettingOut, Writing
<1>6. OneWriter'
    BY <1>3, <1>4 DEF WriterInv, OneWriter, Writing
<1>7. FilledIsWhole'
    BY <1>3, <1>4 DEF WriterInv, OneWriter, FilledIsWhole, Writing
<1>. QED BY <1>2, <1>5, <1>6, <1>7 DEF WriterInv

LEMMA RestKeeps ==
    ASSUME TypeOK, WriterInv, world' = world, NEW r \in Refreshers,
           tmp' = tmp \/ Writing(r), Rest(r)
    PROVE  JobTypes' /\ WriterInv'
<1>1. world \in Nat /\ 0 \in Versions /\ <<>> \in Seq(Versions)
    BY BoundsAssumption DEF TypeOK, Versions
<1>2. JobTypes'
    BY <1>1 DEF TypeOK, Rest, JobTypes
<1>3. pc'[r] = "rest" /\ seen'[r] = <<>> /\ since'[r] = 0 /\ job' = job
    BY DEF TypeOK, Rest
<1>4. \A q \in Refreshers : q # r => /\ pc'[q] = pc[q]
                                     /\ seen'[q] = seen[q] /\ since'[q] = since[q]
    BY DEF TypeOK, Rest
<1>5. ReadAfterSettingOut'
    BY <1>1, <1>3, <1>4 DEF WriterInv, ReadAfterSettingOut, Writing
<1>6. OneWriter'
    BY <1>3, <1>4 DEF WriterInv, OneWriter, Writing
<1>7. FilledIsWhole'
    BY <1>3, <1>4 DEF WriterInv, OneWriter, FilledIsWhole, Writing
<1>. QED BY <1>2, <1>5, <1>6, <1>7 DEF WriterInv

\* So does whatever follows a refresh, finished or given up.
LEMMA ProceedKeeps ==
    ASSUME TypeOK, WriterInv, world' = world, NEW r \in Refreshers,
           tmp' = tmp \/ Writing(r), Proceed(r) \/ GiveUp(r)
    PROVE  JobTypes' /\ WriterInv'
<1>1. SetOut(r, "persona", TRUE) \/ Rest(r)
    BY DEF Proceed, GiveUp
<1>2. "persona" \in Jobs
    BY DEF Jobs
<1>. QED BY <1>1, <1>2, SetOutKeeps, RestKeeps

-----------------------------------------------------------------------------

LEMMA InitEstablishes == Init => IInv
<1>. SUFFICES ASSUME Init PROVE IInv
    OBVIOUS
<1>1. 0 \in Versions /\ 0 \in 0..(Period - 1) /\ <<0>> \in Seq(Versions)
    BY BoundsAssumption, PeriodAssumption DEF Versions
<1>2. TypeOK
    BY <1>1 DEF Init, TypeOK, Jobs, Files
<1>3. OverlayWhole
    BY FileAssumption DEF Init, OverlayWhole
<1>4. 1 \in 1..Parts("capabilities")
    BY PartsType DEF Jobs
<1>5. WriterInv
    BY <1>4 DEF Init, WriterInv, ReadAfterSettingOut, OneWriter, FilledIsWhole, Writing
<1>. QED BY <1>2, <1>3, <1>5 DEF IInv

LEMMA WakeKeeps == IInv /\ Wake => IInv'
<1>. SUFFICES ASSUME IInv, Wake PROVE IInv'
    OBVIOUS
<1>. DEFINE due == elapsed + 1 >= Period
<1>1. Task \in Refreshers /\ "capabilities" \in Jobs /\ due \in BOOLEAN
    BY DEF Refreshers, Jobs
<1>2. SetOut(Task, "capabilities", due) /\ world' = world /\ tmp' = tmp
    BY DEF Wake
<1>3. elapsed' \in 0..(Period - 1)
    BY PeriodAssumption DEF IInv, TypeOK, Wake
<1>. HIDE DEF due
<1>4. JobTypes' /\ WriterInv'
    BY <1>1, <1>2, SetOutKeeps DEF IInv
<1>. QED BY <1>3, <1>4 DEF IInv, JobTypes, TypeOK, Wake, OverlayWhole

LEMMA RequestKeeps == ASSUME IInv, NEW c \in Callers, Request(c) PROVE IInv'
<1>1. c \in Refreshers /\ "capabilities" \in Jobs
    BY DEF Refreshers, Jobs
<1>2. JobTypes' /\ WriterInv'
    BY <1>1, SetOutKeeps DEF IInv, Request
<1>. QED BY <1>2 DEF IInv, JobTypes, TypeOK, Request, OverlayWhole

LEMMA AnswerKeeps == ASSUME IInv, NEW r \in Refreshers, Answer(r) PROVE IInv'
<1>1. /\ world \in Versions /\ world \in Nat /\ pc[r] = "asking" /\ world' = world
      /\ seen[r] \in Seq(Versions) /\ Len(seen[r]) \in Nat /\ job[r] \in Jobs
      /\ pc' = pc /\ job' = job /\ since' = since /\ tmp' = tmp
    BY DEF IInv, TypeOK, Answer, Versions
<1>2. seen'[r] = Append(seen[r], world) /\ \A q \in Refreshers : q # r => seen'[q] = seen[q]
    BY DEF IInv, TypeOK, Answer
<1>3. TypeOK'
    BY <1>1 DEF IInv, TypeOK, Answer
<1>4. Len(seen[r]) + 1 \in 1..Parts(job[r])
    BY <1>1, PartsType DEF IInv, WriterInv, ReadAfterSettingOut, Answer, Complete
<1>5. Len(seen'[r]) = Len(seen[r]) + 1
      /\ \A p \in 1..Len(seen'[r]) :
            seen'[r][p] = IF p <= Len(seen[r]) THEN seen[r][p] ELSE world
    BY <1>1, <1>2
<1>6. ReadAfterSettingOut'
    <2>1. ASSUME NEW q \in Refreshers, q # r
          PROVE  /\ since[q] <= world
                 /\ pc[q] # "rest" => Len(seen[q]) \in 1..Parts(job[q])
                 /\ Writing(q) => Len(seen[q]) = Parts(job[q])
                 /\ \A p \in 1..Len(seen[q]) : since[q] <= seen[q][p]
        BY DEF IInv, WriterInv, ReadAfterSettingOut
    <2>2. since[r] <= world /\ \A p \in 1..Len(seen[r]) : since[r] <= seen[r][p]
        BY DEF IInv, WriterInv, ReadAfterSettingOut
    <2>3. \A p \in 1..Len(seen'[r]) : since[r] <= seen'[r][p]
        BY <1>1, <1>5, <2>2
    <2>4. ~Writing(r)
        BY <1>1 DEF Writing
    <2>. QED BY <1>1, <1>2, <1>4, <1>5, <2>1, <2>2, <2>3, <2>4
             DEF ReadAfterSettingOut, Writing
<1>7. OneWriter'
    BY <1>1 DEF IInv, WriterInv, OneWriter, Writing
<1>8. FilledIsWhole'
    BY <1>1, <1>2 DEF IInv, WriterInv, FilledIsWhole
<1>. QED BY <1>3, <1>6, <1>7, <1>8 DEF IInv, WriterInv, Answer, OverlayWhole

\* What is published is what was served or what has just been read.
LEMMA PublishType ==
    ASSUME TypeOK, NEW r \in Refreshers, seen[r] \in Contents, Publish(r)
    PROVE  memory' \in Contents \union {Absent}
BY DEF TypeOK, Publish

LEMMA FinishKeeps == ASSUME IInv, NEW r \in Refreshers, Finish(r) PROVE IInv'
<1>1. seen[r] \in Contents
    BY CompleteIsContent DEF IInv, Finish, Complete
<1>2. memory' \in Contents \union {Absent}
    BY <1>1, PublishType DEF IInv, Finish
<1>3. JobTypes' /\ WriterInv'
    BY ProceedKeeps DEF IInv, Finish
<1>. QED BY <1>2, <1>3 DEF IInv, JobTypes, TypeOK, Finish, OverlayWhole

LEMMA OpenKeeps == ASSUME IInv, NEW r \in Refreshers, Open(r) PROVE IInv'
<1>1. TypeOK'
    BY DEF IInv, TypeOK, Open, Files
<1>2. /\ pc'[r] = "filling" /\ \A q \in Refreshers : q # r => pc'[q] = pc[q]
      /\ UNCHANGED <<world, job, seen, since>>
    BY DEF IInv, TypeOK, Open
<1>3. \A q \in Refreshers : ~Writing(q)
    BY DEF Open, Free
<1>4. Len(seen[r]) = Parts(job[r]) /\ pc[r] = "asking"
    BY DEF Open, Complete
<1>5. ReadAfterSettingOut'
    BY <1>2, <1>3, <1>4 DEF IInv, WriterInv, ReadAfterSettingOut, Writing
<1>6. OneWriter'
    BY <1>2, <1>3 DEF OneWriter, Writing
<1>7. FilledIsWhole'
    BY <1>2, <1>3 DEF FilledIsWhole, Writing
<1>. QED BY <1>1, <1>5, <1>6, <1>7 DEF IInv, WriterInv, OverlayWhole, Open

LEMMA FillKeeps == ASSUME IInv, NEW r \in Refreshers, Fill(r) PROVE IInv'
<1>1. /\ pc[r] = "filling" /\ pc'[r] = "renaming"
      /\ \A q \in Refreshers : q # r => pc'[q] = pc[q]
      /\ UNCHANGED <<world, job, seen, since>>
    BY DEF IInv, TypeOK, Fill
<1>2. Writing(r) /\ job[r] \in Jobs
    BY <1>1 DEF IInv, TypeOK, Writing
<1>3. seen[r] \in Contents
    BY <1>2, CompleteIsContent DEF IInv, WriterInv, ReadAfterSettingOut
<1>4. TypeOK'
    BY <1>3 DEF IInv, TypeOK, Fill, Files
<1>5. ReadAfterSettingOut'
    BY <1>1, <1>2 DEF IInv, WriterInv, ReadAfterSettingOut, Writing
<1>6. OneWriter'
    BY <1>1, <1>2 DEF IInv, WriterInv, OneWriter, Writing
<1>7. FilledIsWhole'
    <2>1. tmp'[job[r]] = seen[r]
        BY <1>2 DEF IInv, TypeOK, Fill
    <2>2. \A q \in Refreshers : q # r => pc[q] # "renaming"
        BY <1>2 DEF IInv, WriterInv, OneWriter, Writing
    <2>. QED BY <1>1, <2>1, <2>2 DEF FilledIsWhole
<1>. QED BY <1>4, <1>5, <1>6, <1>7 DEF IInv, WriterInv, OverlayWhole, Fill

\* What is renamed is the text that was read, so the file stays whole.
LEMMA RenamedIsWhole ==
    ASSUME IInv, NEW r \in Refreshers, Rename(r)
    PROVE  /\ seen[r] \in Contents /\ job[r] \in Jobs /\ Writing(r)
           /\ overlay' = [overlay EXCEPT ![job[r]] = seen[r]]
<1>1. Writing(r) /\ job[r] \in Jobs
    BY DEF IInv, TypeOK, Writing, Rename
<1>2. seen[r] \in Contents
    BY <1>1, CompleteIsContent DEF IInv, WriterInv, ReadAfterSettingOut
<1>3. tmp[job[r]] = seen[r]
    BY DEF IInv, WriterInv, FilledIsWhole, Rename
<1>. QED BY <1>1, <1>2, <1>3 DEF Rename

LEMMA RenameKeeps == ASSUME IInv, NEW r \in Refreshers, Rename(r) PROVE IInv'
<1>1. /\ seen[r] \in Contents /\ job[r] \in Jobs /\ Writing(r)
      /\ overlay' = [overlay EXCEPT ![job[r]] = seen[r]]
    BY RenamedIsWhole
<1>2. overlay' \in [Jobs -> Files] /\ tmp' \in [Jobs -> Files]
    BY <1>1 DEF IInv, TypeOK, Rename, Files
<1>3. OverlayWhole'
    BY <1>1, FileAssumption DEF IInv, TypeOK, OverlayWhole
<1>4. memory' \in Contents \union {Absent}
    BY <1>1, PublishType DEF IInv, Rename
<1>5. JobTypes' /\ WriterInv'
    BY <1>1, ProceedKeeps DEF IInv, Rename
<1>. QED BY <1>2, <1>3, <1>4, <1>5 DEF IInv, JobTypes, TypeOK, Rename

LEMMA FailureKeeps ==
    ASSUME IInv, NEW r \in Refreshers, WriteFails(r) \/ BuildFails(r)
    PROVE  IInv'
<1>1. GiveUp(r) /\ UNCHANGED <<world, elapsed, tmp, overlay, memory>>
    BY DEF WriteFails, BuildFails
<1>2. JobTypes' /\ WriterInv'
    BY <1>1, ProceedKeeps DEF IInv
<1>3. trouble' \in {"none", "build", "write", "crash"}
    BY DEF WriteFails, BuildFails
<1>. QED BY <1>1, <1>2, <1>3 DEF IInv, JobTypes, TypeOK, OverlayWhole

LEMMA CrashKeeps == IInv /\ Crash => IInv'
<1>. SUFFICES ASSUME IInv, Crash PROVE IInv'
    OBVIOUS
<1>1. /\ world \in Versions /\ 0 \in Versions /\ 0 \in 0..(Period - 1) /\ world \in Nat
      /\ <<world>> \in Seq(Versions) /\ <<>> \in Seq(Versions)
    BY BoundsAssumption, PeriodAssumption DEF IInv, TypeOK, Versions
<1>2. TypeOK'
    BY <1>1 DEF IInv, TypeOK, Crash, Jobs
<1>3. 1 \in 1..Parts("capabilities")
    BY PartsType DEF Jobs
<1>4. WriterInv'
    BY <1>1, <1>3 DEF Crash, WriterInv, ReadAfterSettingOut, OneWriter, FilledIsWhole, Writing
<1>. QED BY <1>2, <1>4 DEF IInv, OverlayWhole, Crash

LEMMA ChangeKeeps == IInv /\ Change => IInv'
<1>. SUFFICES ASSUME IInv, Change PROVE IInv'
    OBVIOUS
<1>1. world' \in Versions /\ world \in Nat /\ world' = world + 1
    BY BoundsAssumption DEF IInv, TypeOK, Change, Versions
<1>2. TypeOK'
    BY <1>1 DEF IInv, TypeOK, Change, jobVars
<1>3. \A r \in Refreshers : since[r] \in Nat
    BY DEF IInv, TypeOK, Versions
<1>4. WriterInv'
    BY <1>1, <1>3
    DEF IInv, Change, jobVars, WriterInv, ReadAfterSettingOut, OneWriter, FilledIsWhole, Writing
<1>. QED BY <1>2, <1>4 DEF IInv, Change, OverlayWhole

LEMMA StepKeeps == IInv /\ [Next]_vars => IInv'
<1>. SUFFICES ASSUME IInv, [Next]_vars PROVE IInv'
    OBVIOUS
<1>1. CASE UNCHANGED vars
    BY <1>1 DEF IInv, TypeOK, OverlayWhole, WriterInv, ReadAfterSettingOut, OneWriter,
                FilledIsWhole, Writing, vars, jobVars
<1>2. CASE Wake \/ Crash \/ Change
    BY <1>2, WakeKeeps, CrashKeeps, ChangeKeeps
<1>3. CASE \E c \in Callers : Request(c)
    BY <1>3, RequestKeeps
<1>4. CASE \E r \in Refreshers : Steps(r) \/ BuildFails(r)
    BY <1>4, AnswerKeeps, FinishKeeps, OpenKeeps, FillKeeps, RenameKeeps, FailureKeeps
    DEF Steps
<1>. QED BY <1>1, <1>2, <1>3, <1>4 DEF Next

\* The inductive invariant holds in every reachable state.
THEOREM Invariance == Spec => []IInv
BY InitEstablishes, StepKeeps, PTL DEF Spec

\* Every variable keeps its type: in particular the task's count of the interval
\* (main.py, _capability_refresh_loop) never passes it.
THEOREM TypeCorrect == Spec => []TypeOK
BY Invariance, PTL DEF IInv

\* A generated file is never read half written, whenever the process dies or the
\* disk refuses (write_overlay, write_persona_overlay): it is replaced by a temporary
\* file that one refresher alone has filled.
THEOREM OverlayWholeAlways == Spec => []OverlayWhole
BY Invariance, PTL DEF IInv

\* What is published by the end of a refresh was read in full, and no earlier than
\* its refresher set out.
LEMMA PublishedAfterSettingOut ==
    ASSUME IInv, NEW r \in Refreshers, job[r] = "capabilities", Finish(r) \/ Rename(r)
    PROVE  /\ memory' = seen[r] /\ seen[r] \in Contents
           /\ DOMAIN seen[r] = 1..Parts("capabilities")
           /\ \A p \in DOMAIN seen[r] : since[r] <= seen[r][p]
<1>1. Len(seen[r]) = Parts(job[r]) /\ Publish(r)
    <2>1. CASE Finish(r)
        BY <2>1 DEF Finish, Complete
    <2>2. CASE Rename(r)
        BY <2>2, RenamedIsWhole DEF Rename, IInv, WriterInv, ReadAfterSettingOut
    <2>. QED BY <2>1, <2>2
<1>2. seen[r] \in Seq(Versions) /\ DOMAIN seen[r] = 1..Len(seen[r])
    BY DEF IInv, TypeOK
<1>. QED BY <1>1, <1>2, CompleteIsContent DEF IInv, WriterInv, ReadAfterSettingOut, Publish

LEMMA ContentsAreNats ==
    ASSUME NEW c \in Contents, NEW p \in DOMAIN c
    PROVE  c[p] \in Nat
<1>1. PICK j \in Jobs : c \in [1..Parts(j) -> Versions]
    BY DEF Contents
<1>2. c[p] \in Versions
    BY <1>1
<1>. QED BY <1>2, BoundsAssumption DEF Versions

LEMMA SeenAreNats ==
    ASSUME TypeOK, NEW r \in Refreshers
    PROVE  /\ seen[r] \in Seq(Versions) /\ since[r] \in Nat
           /\ DOMAIN seen[r] = 1..Len(seen[r])
           /\ \A p \in 1..Len(seen[r]) : seen[r][p] \in Nat
<1>1. seen[r] \in Seq(Versions) /\ since[r] \in Versions
    BY DEF TypeOK
<1>2. Versions \subseteq Nat
    BY BoundsAssumption DEF Versions
<1>3. DOMAIN seen[r] = 1..Len(seen[r])
    BY <1>1
<1>4. ASSUME NEW p \in 1..Len(seen[r]) PROVE seen[r][p] \in Nat
    <2>1. seen[r][p] \in Versions
        BY <1>1
    <2>. QED BY <1>2, <2>1
<1>5. since[r] \in Nat
    BY <1>1, <1>2
<1>. QED BY <1>1, <1>3, <1>4, <1>5

\* What is served describes the capabilities: it has their parts.
ServedIsCapabilities == memory # Absent => DOMAIN memory = 1..Parts("capabilities")

LEMMA ServedIsCapabilitiesStep ==
    IInv /\ ServedIsCapabilities /\ [Next]_vars => ServedIsCapabilities'
<1>. SUFFICES ASSUME IInv, ServedIsCapabilities, [Next]_vars PROVE ServedIsCapabilities'
    OBVIOUS
<1>1. CASE memory' \in {memory, Absent}
    BY <1>1 DEF ServedIsCapabilities
<1>2. ASSUME NEW r \in Refreshers, Finish(r) \/ Rename(r) PROVE ServedIsCapabilities'
    <2>1. CASE job[r] = "capabilities"
        BY <1>2, <2>1, PublishedAfterSettingOut DEF ServedIsCapabilities
    <2>2. CASE job[r] # "capabilities"
        BY <1>1, <1>2, <2>2 DEF Finish, Rename, Publish
    <2>. QED BY <2>1, <2>2
<1>3. memory' \in {memory, Absent} \/ \E r \in Refreshers : Finish(r) \/ Rename(r)
    BY DEF Next, Steps, Wake, Crash, Change, Request, Answer, Open, Fill, WriteFails, BuildFails,
           vars
<1>. QED BY <1>1, <1>2, <1>3

\* Only a refresher that set out before the served state of a part was reached can
\* take that part back (_refresh_capabilities, with any number of them running).
THEOREM StepBack == Spec => StepBackOnlyByOverlap
<1>1. ASSUME IInv, ServedIsCapabilities, NEW r \in Refreshers, memory # Absent,
             job[r] = "capabilities", Finish(r) \/ Rename(r),
             NEW p \in DOMAIN memory
      PROVE  memory'[p] >= memory[p] \/ since[r] < memory[p]
    <2>1. /\ memory' = seen[r] /\ p \in DOMAIN seen[r] /\ since[r] <= seen[r][p]
          /\ seen[r] \in Contents
        BY <1>1, PublishedAfterSettingOut DEF ServedIsCapabilities
    <2>2. memory \in Contents
        BY <1>1 DEF IInv, TypeOK
    <2>3. memory[p] \in Nat /\ seen[r][p] \in Nat /\ since[r] \in Nat
        BY <1>1, <2>1, <2>2, ContentsAreNats, SeenAreNats DEF IInv
    <2>. QED BY <2>1, <2>3
<1>2. IInv /\ ServedIsCapabilities /\ [Next]_vars =>
        [\A r \in Refreshers :
           /\ memory # Absent /\ memory' # memory
           /\ job[r] = "capabilities" /\ (Finish(r) \/ Rename(r))
           => \A p \in DOMAIN memory : memory'[p] >= memory[p] \/ since[r] < memory[p]]_vars
    BY <1>1
<1>3. Init => ServedIsCapabilities
    BY DEF Init, ServedIsCapabilities
<1>. QED BY Invariance, ServedIsCapabilitiesStep, <1>2, <1>3, PTL
         DEF Spec, StepBackOnlyByOverlap

-----------------------------------------------------------------------------
(* What is published was there.                                             *)

\* The parts of a description are read one after the other, while the world is as
\* it is now or was earlier.
InOrder(c) ==
    /\ \A p \in DOMAIN c : c[p] <= world
    /\ \A p, q \in DOMAIN c : p <= q => c[p] <= c[q]

ReadInOrder == \A r \in Refreshers : InOrder(seen[r])

\* A part of what is served or on disk is never newer than a part that is read after
\* it, and none is ahead of the world: services are at least as new as the topology
\* they belong to, and the tools as the services.  It is not one moment of the
\* world: each part may be newer than the one before it.
PublishedInOrder ==
    \A c \in Contents : c = memory \/ (\E j \in Jobs : c = overlay[j]) => InOrder(c)

ObservedInv == ReadInOrder /\ PublishedInOrder

LEMMA ObservedInit == Init => ObservedInv
<1>. SUFFICES ASSUME Init PROVE ObservedInv
    OBVIOUS
<1>1. ReadInOrder
    BY DEF Init, ReadInOrder, InOrder
<1>2. PublishedInOrder
    BY FileAssumption DEF Init, PublishedInOrder
<1>. QED BY <1>1, <1>2 DEF ObservedInv

\* A refresher that sets out again, or rests, has read what is there.
LEMMA SetOutOrder ==
    ASSUME TypeOK, ReadInOrder, world' = world, NEW r \in Refreshers,
           \/ \E j \in Jobs, f \in BOOLEAN : SetOut(r, j, f)
           \/ Rest(r) \/ Proceed(r) \/ GiveUp(r)
    PROVE  ReadInOrder'
<1>1. world \in Nat /\ seen \in [Refreshers -> Seq(Versions)]
    BY DEF TypeOK, Versions
<1>2. \/ seen' = [seen EXCEPT ![r] = <<world>>]
      \/ seen' = [seen EXCEPT ![r] = <<>>]
    BY DEF SetOut, Rest, Proceed, GiveUp
<1>. QED BY <1>1, <1>2 DEF ReadInOrder, InOrder

LEMMA ObservedStep == IInv /\ ObservedInv /\ [Next]_vars => ObservedInv'
<1>. SUFFICES ASSUME IInv, ObservedInv, [Next]_vars PROVE ObservedInv'
    OBVIOUS
<1>. USE DEF ObservedInv
<1>0. TypeOK /\ TypeOK' /\ world \in Nat /\ world' \in Nat
    BY StepKeeps DEF IInv, TypeOK, Versions
<1>1. CASE UNCHANGED vars
    BY <1>1 DEF ReadInOrder, PublishedInOrder, InOrder, vars, jobVars
<1>2. ASSUME UNCHANGED <<world, overlay, memory>> PROVE PublishedInOrder'
    BY <1>2 DEF PublishedInOrder, InOrder
<1>3. CASE Wake
    <2>. DEFINE due == elapsed + 1 >= Period
    <2>1. Task \in Refreshers /\ "capabilities" \in Jobs /\ due \in BOOLEAN
        BY DEF Refreshers, Jobs
    <2>2. SetOut(Task, "capabilities", due) /\ UNCHANGED <<world, overlay, memory>>
        BY <1>3 DEF Wake
    <2>. HIDE DEF due
    <2>. QED BY <1>0, <1>2, <2>1, <2>2, SetOutOrder
<1>4. ASSUME NEW c \in Callers, Request(c) PROVE ObservedInv'
    BY <1>0, <1>2, <1>4, SetOutOrder DEF Request, Refreshers, Jobs
<1>5. ASSUME NEW r \in Refreshers, Answer(r) PROVE ObservedInv'
    <2>1. /\ seen[r] \in Seq(Versions) /\ seen'[r] = Append(seen[r], world) /\ world' = world
          /\ \A q \in Refreshers : q # r => seen'[q] = seen[q]
        BY <1>0, <1>5 DEF Answer, TypeOK
    <2>2. /\ DOMAIN seen'[r] = 1..(Len(seen[r]) + 1) /\ DOMAIN seen[r] = 1..Len(seen[r])
          /\ Len(seen[r]) \in Nat
          /\ \A p \in 1..Len(seen[r]) : seen'[r][p] = seen[r][p] /\ seen[r][p] \in Nat
          /\ seen'[r][Len(seen[r]) + 1] = world
        BY <1>0, <2>1, SeenAreNats
    <2>3. InOrder(seen[r]) /\ \A q \in Refreshers : InOrder(seen[q])
        BY <1>5 DEF ReadInOrder
    <2>4. InOrder(seen'[r])
        BY <1>0, <2>1, <2>2, <2>3 DEF InOrder
    <2>5. ReadInOrder'
        BY <2>1, <2>3, <2>4 DEF ReadInOrder, InOrder
    <2>. QED BY <1>2, <1>5, <2>5 DEF Answer
<1>6. ASSUME NEW r \in Refreshers, Finish(r) \/ Rename(r) PROVE ObservedInv'
    <2>1. Proceed(r) /\ world' = world /\ InOrder(seen[r])
        BY <1>6 DEF Finish, Rename, ReadInOrder
    <2>2. memory' \in {memory, seen[r]}
        BY <1>6 DEF Finish, Rename, Publish
    <2>3. \A j \in Jobs : overlay'[j] \in {overlay[j], seen[r]}
        BY <1>0, <1>6, RenamedIsWhole DEF Finish, TypeOK
    <2>4. PublishedInOrder'
        BY <2>1, <2>2, <2>3 DEF PublishedInOrder, InOrder
    <2>. QED BY <1>0, <2>1, <2>4, SetOutOrder
<1>7. ASSUME NEW r \in Refreshers, WriteFails(r) \/ BuildFails(r) PROVE ObservedInv'
    <2>1. UNCHANGED <<world, overlay, memory>> /\ GiveUp(r)
        BY <1>7 DEF WriteFails, BuildFails
    <2>. QED BY <1>0, <1>2, <2>1, SetOutOrder
<1>8. ASSUME NEW r \in Refreshers, Open(r) \/ Fill(r) PROVE ObservedInv'
    BY <1>2, <1>8 DEF Open, Fill, ReadInOrder, InOrder
<1>9. CASE Crash
    <2>1. memory' = Absent /\ world' = world /\ overlay' = overlay
        BY <1>9 DEF Crash
    <2>2. ReadInOrder'
        BY <1>0, <1>9 DEF Crash, ReadInOrder, InOrder
    <2>3. PublishedInOrder'
        BY <2>1, FileAssumption DEF PublishedInOrder, InOrder
    <2>. QED BY <2>2, <2>3
<1>10. CASE Change
    <2>1. world' = world + 1 /\ UNCHANGED <<overlay, memory, seen>>
        BY <1>10 DEF Change, jobVars
    <2>2. \A r \in Refreshers : \A p \in DOMAIN seen[r] : seen[r][p] \in Nat
        BY <1>0, SeenAreNats
    <2>3. \A c \in Contents : InOrder(c) => InOrder(c)'
        BY <1>0, <2>1, ContentsAreNats DEF InOrder
    <2>4. \A r \in Refreshers : InOrder(seen[r]) => InOrder(seen[r])'
        BY <1>0, <2>1, <2>2 DEF InOrder
    <2>. QED BY <2>1, <2>3, <2>4 DEF ReadInOrder, PublishedInOrder, InOrder
<1>. QED BY <1>1, <1>3, <1>4, <1>5, <1>6, <1>7, <1>8, <1>9, <1>10 DEF Next, Steps

\* No overlap of refreshers, failure or restart puts together a description whose
\* later-read parts are older than its earlier ones, or that was never there
\* (capability_builder.py, infra/discovery.py: topology, services one by one, tools).
THEOREM PublishedInOrderAlways == Spec => []PublishedInOrder
<1>1. Init => IInv /\ ObservedInv
    BY InitEstablishes, ObservedInit
<1>2. IInv /\ ObservedInv /\ [Next]_vars => (IInv /\ ObservedInv)'
    BY StepKeeps, ObservedStep
<1>. QED BY <1>1, <1>2, PTL DEF Spec, ObservedInv

-----------------------------------------------------------------------------
(* The background task by itself.                                           *)

\* What is served when the task reads for the capabilities is older than that.
ServedBefore ==
    pc[Task] # "rest" /\ job[Task] = "capabilities" /\ memory # Absent =>
        \A p \in DOMAIN memory : memory[p] <= since[Task]

LEMMA ServedBeforeStep ==
    ASSUME Callers = {}
    PROVE  IInv /\ ObservedInv /\ ServedBefore /\ [Next]_vars => ServedBefore'
<1>. SUFFICES ASSUME IInv, ObservedInv, ServedBefore, [Next]_vars PROVE ServedBefore'
    OBVIOUS
<1>0. TypeOK /\ Refreshers = {Task} /\ world \in Nat
    BY DEF IInv, TypeOK, Versions, Refreshers
<1>1. memory # Absent => \A p \in DOMAIN memory : memory[p] <= world
    BY <1>0 DEF TypeOK, ObservedInv, PublishedInOrder, InOrder
<1>2. CASE Wake
    <2>1. since'[Task] = world /\ memory' = memory
        BY <1>0, <1>2 DEF Wake, SetOut, TypeOK
    <2>. QED BY <1>1, <2>1 DEF ServedBefore
<1>3. CASE Answer(Task) \/ Open(Task) \/ Fill(Task) \/ Change \/ UNCHANGED vars
    <2>1. UNCHANGED <<job, since, memory>> /\ (pc[Task] = "rest" => pc'[Task] = "rest")
        BY <1>0, <1>3 DEF Answer, Open, Complete, Fill, Change, TypeOK, vars, jobVars
    <2>. QED BY <2>1 DEF ServedBefore
<1>4. ASSUME Proceed(Task) PROVE ServedBefore'
    <2>1. \/ pc' = [pc EXCEPT ![Task] = "rest"]
          \/ job' = [job EXCEPT ![Task] = "persona"]
        BY <1>4 DEF Proceed, SetOut, Rest
    <2>. QED BY <1>0, <2>1 DEF ServedBefore, TypeOK
<1>5. CASE Finish(Task) \/ Rename(Task) \/ WriteFails(Task) \/ BuildFails(Task)
    BY <1>4, <1>5 DEF Finish, Rename, WriteFails, BuildFails, GiveUp
<1>6. CASE Crash
    BY <1>6 DEF Crash, ServedBefore
<1>. QED BY <1>0, <1>2, <1>3, <1>5, <1>6 DEF Next, Steps

\* While nobody posts /nexi/refresh, no part of what is served ever goes back to an
\* older state, from one start of the process to its end: the background task alone
\* needs no lock.
THEOREM AloneNeverBack ==
    ASSUME Callers = {}
    PROVE  Spec => [][memory # Absent /\ memory' # Absent =>
                        \A p \in DOMAIN memory : memory'[p] >= memory[p]]_vars
<1>. DEFINE Onward == memory # Absent /\ memory' # Absent =>
                        \A p \in DOMAIN memory : memory'[p] >= memory[p]
<1>. DEFINE Inv == IInv /\ ObservedInv /\ ServedBefore /\ ServedIsCapabilities
<1>1. Init => Inv
    BY InitEstablishes, ObservedInit DEF Init, ServedBefore, ServedIsCapabilities
<1>2. Inv /\ [Next]_vars => Inv'
    BY StepKeeps, ObservedStep, ServedBeforeStep, ServedIsCapabilitiesStep
<1>3. ASSUME Inv, [Next]_vars PROVE [Onward]_vars
    <2>0. TypeOK /\ Refreshers = {Task}
        BY <1>3 DEF IInv, Refreshers
    <2>1. memory # Absent => \A p \in DOMAIN memory : memory[p] \in Nat
        BY <2>0, ContentsAreNats DEF TypeOK
    <2>2. CASE memory' \in {memory, Absent}
        BY <2>0, <2>1, <2>2
    <2>3. CASE (Finish(Task) \/ Rename(Task)) /\ job[Task] = "capabilities"
        <3>1. /\ memory' = seen[Task] /\ seen[Task] \in Contents
              /\ DOMAIN seen[Task] = 1..Parts("capabilities")
              /\ \A p \in DOMAIN seen[Task] : since[Task] <= seen[Task][p]
            BY <1>3, <2>0, <2>3, PublishedAfterSettingOut
        <3>2. memory # Absent => \A p \in DOMAIN memory : memory[p] <= since[Task]
            BY <1>3, <2>3 DEF ServedBefore, Finish, Complete, Rename
        <3>3. since[Task] \in Nat /\ \A p \in DOMAIN seen[Task] : seen[Task][p] \in Nat
            BY <2>0, <3>1, ContentsAreNats, SeenAreNats
        <3>4. memory # Absent => DOMAIN memory = DOMAIN seen[Task]
            BY <1>3, <3>1 DEF ServedIsCapabilities
        <3>5. ASSUME memory # Absent, NEW p \in DOMAIN memory
              PROVE  memory'[p] >= memory[p]
            <4>1. p \in DOMAIN seen[Task] /\ memory' = seen[Task] /\ memory[p] <= since[Task]
                BY <3>1, <3>2, <3>4, <3>5
            <4>2. since[Task] <= seen[Task][p]
                BY <3>1, <4>1
            <4>3. memory[p] \in Nat /\ since[Task] \in Nat /\ seen[Task][p] \in Nat
                BY <2>1, <3>3, <3>5, <4>1
            <4>. QED BY <4>1, <4>2, <4>3
        <3>. QED BY <3>5
    <2>4. \/ memory' \in {memory, Absent}
          \/ (Finish(Task) \/ Rename(Task)) /\ job[Task] = "capabilities"
        BY <1>3, <2>0
        DEF Next, Steps, Wake, Crash, Change, Request, Answer, Open, Fill, Finish, Rename,
            Publish, WriteFails, BuildFails, vars
    <2>. QED BY <2>2, <2>3, <2>4
<1>. HIDE DEF Inv, Onward
<1>4. Spec => [][Onward]_vars
    BY <1>1, <1>2, <1>3, PTL DEF Spec
<1>. QED BY <1>4 DEF Onward
=============================================================================
