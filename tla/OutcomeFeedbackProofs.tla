----------------------- MODULE OutcomeFeedbackProofs ------------------------
(***************************************************************************)
(* OutcomeFeedback keeps its types, its recorded errors and its lessons,   *)
(* for any number of callbacks and episodes.  The inductive invariant says *)
(* which bodies get as far as a write, that a callback has at most one     *)
(* update under way and none once it is recorded, and that what a          *)
(* callback's lessons are follows from where its reflection is.            *)
(***************************************************************************)
EXTENDS OutcomeFeedback, TLAPS

\* Only a body with readable ids is written, or was.
Postable(c) == body[c].episode \in Episodes
WritesArePostable ==
    \A c \in Callbacks :
        /\ pc[c] \in {"writing", "written"} => Postable(c)
        /\ result[c] = "recorded" => Postable(c)
        /\ Write(c, "update") \in late => Postable(c)

\* A callback whose update may still be applied has not been recorded.
LateIsUnrecorded ==
    \A c \in Callbacks :
        Write(c, "update") \in late => pc[c] \in {"answered", "lost"} /\ result[c] # "recorded"

\* An applied update has left something.
WrittenIsThere ==
    \A c \in Callbacks : pc[c] = "written" => stored[body[c].episode] # Nothing

\* A reflection runs for a classified body, and until its write is applied it
\* has left no lesson.
ReflectionSoFar ==
    \A c \in Callbacks :
        /\ task[c] # "none" => body[c].classified
        /\ task[c] \in {"none", "asking", "writing"} => lessons[c] = <<>>
        /\ Write(c, "lesson") \in late => lessons[c] = <<>> /\ task[c] = "ended"

IInv ==
    /\ TypeOK /\ WritesArePostable /\ LateIsUnrecorded /\ WrittenIsThere
    /\ RecordedIsThere /\ ReflectionSoFar /\ LessonIsItsOwn

\* The difference of two scores is a score.
LEMMA DeltaIsScore ==
    ASSUME NEW b \in Bodies
    PROVE  Delta(b) \in Nat
<1>1. b.predicted \in Nat /\ Actual(b) \in Nat
    BY BodiesAssumption DEF Actual
<1>. QED BY <1>1 DEF Delta

LEMMA EntryIsEntry ==
    ASSUME NEW b \in Bodies
    PROVE  Entry(b) \in Entries /\ Entry(b) # Nothing
<1>1. Delta(b) \in Nat
    BY DeltaIsScore
<1>2. EarlyFlag(b) \in BOOLEAN
    BY <1>1 DEF EarlyFlag
<1>3. Entry(b) \in [delta : Nat, early : BOOLEAN]
    BY <1>1, <1>2 DEF Entry
<1>. QED BY <1>3, NothingAssumption DEF Entries

LEMMA LessonIsLesson ==
    ASSUME NEW b \in Bodies
    PROVE  Lesson(b) \in Lessons
<1>1. b.outcome \in Outcomes
    BY BodiesAssumption
<1>. QED BY <1>1, DeltaIsScore DEF Lesson, Lessons

LEMMA WritesDiffer ==
    ASSUME NEW c \in Callbacks, NEW d \in Callbacks,
           NEW k \in {"update", "lesson"}, NEW m \in {"update", "lesson"}
    PROVE  /\ Write(c, k) \in Writes
           /\ Write(c, k) = Write(d, m) <=> c = d /\ k = m
BY DEF Write, Writes

LEMMA InitInv == Init => IInv
<1>. SUFFICES ASSUME Init PROVE IInv
    OBVIOUS
<1>1. TypeOK
    BY DEF Init, TypeOK
<1>2. WritesArePostable /\ LateIsUnrecorded /\ WrittenIsThere /\ RecordedIsThere
    BY NothingAssumption
    DEF Init, WritesArePostable, LateIsUnrecorded, WrittenIsThere, RecordedIsThere
<1>3. ReflectionSoFar /\ LessonIsItsOwn
    BY DEF Init, ReflectionSoFar, LessonIsItsOwn
<1>. QED BY <1>1, <1>2, <1>3 DEF IInv

\* An answered callback is counted, and its reflection is its own.
LEMMA AnswerTyped ==
    ASSUME IInv, NEW c \in Callbacks, NEW r \in Results, Answer(c, r)
    PROVE  /\ pc' \in [Callbacks -> {"idle", "writing", "written", "answered", "failed", "lost"}]
           /\ result' \in [Callbacks -> Results \union {Nothing}]
           /\ task' \in [Callbacks -> {"none", "asking", "writing", "kept", "ended"}]
           /\ \A d \in Callbacks : pc'[d] = "answered" <=> result'[d] # Nothing
           /\ \A d \in Callbacks : task'[d] # "none" => pc'[d] = "answered"
<1>1. r # Nothing
    BY NothingAssumption DEF Results
<1>2. /\ pc' \in [Callbacks -> {"idle", "writing", "written", "answered", "failed", "lost"}]
      /\ result' \in [Callbacks -> Results \union {Nothing}]
    BY DEF IInv, TypeOK, Answer
<1>3. task' \in [Callbacks -> {"none", "asking", "writing", "kept", "ended"}]
    BY DEF IInv, TypeOK, Answer
<1>4. \A d \in Callbacks : pc'[d] = "answered" <=> result'[d] # Nothing
    BY <1>1 DEF IInv, TypeOK, Answer
<1>5. \A d \in Callbacks : task'[d] # "none" => pc'[d] = "answered"
    BY DEF IInv, TypeOK, Answer
<1>. QED BY <1>2, <1>3, <1>4, <1>5

\* A callback that breaks changes its own place only.
LEMMA BreakKeeps ==
    ASSUME IInv, NEW c \in Callbacks, Break(c)
    PROVE  IInv'
<1>1. TypeOK'
    BY DEF IInv, TypeOK, Break, Arrives
<1>2. WritesArePostable'
    BY DEF IInv, TypeOK, WritesArePostable, Break, Arrives, Postable
<1>3. LateIsUnrecorded'
    BY DEF IInv, TypeOK, LateIsUnrecorded, Break, Arrives
<1>4. WrittenIsThere'
    BY DEF IInv, TypeOK, WrittenIsThere, Break, Arrives
<1>7. LessonIsItsOwn'
    BY DEF IInv, TypeOK, LessonIsItsOwn, Break, Arrives
<1>8. RecordedIsThere' /\ ReflectionSoFar'
    BY DEF IInv, RecordedIsThere, ReflectionSoFar, Break, Arrives
<1>. QED BY <1>1, <1>2, <1>3, <1>4, <1>7, <1>8 DEF IInv

\* A callback without ids is answered, and its reflection may begin.
LEMMA SkipKeeps ==
    ASSUME IInv, NEW c \in Callbacks, Skip(c)
    PROVE  IInv'
<1>1. TypeOK'
    BY AnswerTyped DEF IInv, TypeOK, Skip, Results
<1>2. WritesArePostable'
    BY DEF IInv, TypeOK, WritesArePostable, Skip, Arrives, Answer, Results, Postable
<1>3. LateIsUnrecorded'
    BY DEF IInv, TypeOK, LateIsUnrecorded, Skip, Arrives, Answer, Results
<1>4. WrittenIsThere'
    BY DEF IInv, TypeOK, WrittenIsThere, Skip, Arrives, Answer, Results
<1>5. RecordedIsThere'
    BY DEF IInv, TypeOK, RecordedIsThere, Skip, Arrives, Answer, Results
<1>6. ReflectionSoFar'
    BY DEF IInv, TypeOK, ReflectionSoFar, Skip, Arrives, Answer, Results
<1>7. LessonIsItsOwn'
    BY DEF IInv, TypeOK, LessonIsItsOwn, Skip, Arrives, Answer, Results
<1>. QED BY <1>1, <1>2, <1>3, <1>4, <1>5, <1>6, <1>7 DEF IInv

\* So is one whose ids cannot be read.
LEMMA MisreadKeeps ==
    ASSUME IInv, NEW c \in Callbacks, Misread(c)
    PROVE  IInv'
<1>1. TypeOK'
    BY AnswerTyped DEF IInv, TypeOK, Misread, Results
<1>2. WritesArePostable'
    BY DEF IInv, TypeOK, WritesArePostable, Misread, Arrives, Answer, Results, Postable
<1>3. LateIsUnrecorded'
    BY DEF IInv, TypeOK, LateIsUnrecorded, Misread, Arrives, Answer, Results
<1>4. WrittenIsThere'
    BY DEF IInv, TypeOK, WrittenIsThere, Misread, Arrives, Answer, Results
<1>5. RecordedIsThere'
    BY DEF IInv, TypeOK, RecordedIsThere, Misread, Arrives, Answer, Results
<1>6. ReflectionSoFar'
    BY DEF IInv, TypeOK, ReflectionSoFar, Misread, Arrives, Answer, Results
<1>7. LessonIsItsOwn'
    BY DEF IInv, TypeOK, LessonIsItsOwn, Misread, Arrives, Answer, Results
<1>. QED BY <1>1, <1>2, <1>3, <1>4, <1>5, <1>6, <1>7 DEF IInv

\* What is written has ids.
LEMMA PostKeeps ==
    ASSUME IInv, NEW c \in Callbacks, Post(c)
    PROVE  IInv'
<1>1. TypeOK'
    BY DEF IInv, TypeOK, Post, Arrives, Postable
<1>2. WritesArePostable'
    <2>1. body[c] \in Bodies /\ body[c].episode # NoEpisode
        BY DEF IInv, TypeOK, Post
    <2>2. body[c].episode \in Episodes
        BY <2>1, BodiesAssumption
    <2>. QED BY <2>2 DEF IInv, TypeOK, WritesArePostable, Postable, Post
<1>3. LateIsUnrecorded'
    BY DEF IInv, TypeOK, LateIsUnrecorded, Post, Arrives, Postable
<1>4. WrittenIsThere'
    BY DEF IInv, TypeOK, WrittenIsThere, Post, Arrives, Postable
<1>7. LessonIsItsOwn'
    BY DEF IInv, TypeOK, LessonIsItsOwn, Post, Arrives, Postable
<1>8. RecordedIsThere' /\ ReflectionSoFar'
    BY DEF IInv, RecordedIsThere, ReflectionSoFar, Post, Arrives, Postable
<1>. QED BY <1>1, <1>2, <1>3, <1>4, <1>7, <1>8 DEF IInv

\* An applied update is its callback's own.
LEMMA ApplyKeeps ==
    ASSUME IInv, NEW c \in Callbacks, Apply(c)
    PROVE  IInv'
<1>1. TypeOK'
    BY EntryIsEntry DEF IInv, TypeOK, Apply
<1>2. WritesArePostable'
    BY DEF IInv, TypeOK, WritesArePostable, Apply, Postable
<1>3. LateIsUnrecorded'
    BY DEF IInv, TypeOK, LateIsUnrecorded, Apply
<1>4. WrittenIsThere'
    <2>1. body[c].episode \in Episodes /\ Entry(body[c]) # Nothing
        BY EntryIsEntry DEF IInv, TypeOK, WritesArePostable, Postable, Apply
    <2>. QED BY <2>1 DEF IInv, TypeOK, WrittenIsThere, Apply
<1>5. RecordedIsThere'
    BY EntryIsEntry DEF IInv, TypeOK, RecordedIsThere, Apply
<1>7. LessonIsItsOwn'
    BY DEF IInv, TypeOK, LessonIsItsOwn, Apply
<1>8. ReflectionSoFar'
    BY DEF IInv, ReflectionSoFar, Apply
<1>. QED BY <1>1, <1>2, <1>3, <1>4, <1>5, <1>7, <1>8 DEF IInv

\* A recorded update has been applied.
LEMMA RecordKeeps ==
    ASSUME IInv, NEW c \in Callbacks, Record(c)
    PROVE  IInv'
<1>1. TypeOK'
    BY AnswerTyped DEF IInv, TypeOK, Record, Results
<1>2. WritesArePostable'
    BY DEF IInv, TypeOK, WritesArePostable, Record, Answer, Results, Postable
<1>3. LateIsUnrecorded'
    BY DEF IInv, TypeOK, LateIsUnrecorded, Record, Answer, Results
<1>4. WrittenIsThere'
    BY DEF IInv, TypeOK, WrittenIsThere, Record, Answer, Results
<1>5. RecordedIsThere'
    BY DEF IInv, TypeOK, RecordedIsThere, WrittenIsThere, Record, Answer
<1>6. ReflectionSoFar'
    BY DEF IInv, TypeOK, ReflectionSoFar, Record, Answer, Results
<1>7. LessonIsItsOwn'
    BY DEF IInv, TypeOK, LessonIsItsOwn, Record, Answer, Results
<1>. QED BY <1>1, <1>2, <1>3, <1>4, <1>5, <1>6, <1>7 DEF IInv

\* An update that is given up may still be under way.
LEMMA GiveUpKeeps ==
    ASSUME IInv, NEW c \in Callbacks, GiveUp(c)
    PROVE  IInv'
<1>1. TypeOK'
    <2>1. late' \subseteq Writes
        BY WritesDiffer DEF IInv, TypeOK, GiveUp
    <2>. QED BY <2>1, AnswerTyped DEF IInv, TypeOK, GiveUp, Results
<1>2. WritesArePostable'
    BY WritesDiffer DEF IInv, TypeOK, WritesArePostable, GiveUp, Answer, Results, Postable
<1>3. LateIsUnrecorded'
    BY WritesDiffer DEF IInv, TypeOK, LateIsUnrecorded, GiveUp, Answer, Results
<1>4. WrittenIsThere'
    BY DEF IInv, TypeOK, WrittenIsThere, GiveUp, Answer, Results
<1>5. RecordedIsThere'
    BY DEF IInv, TypeOK, RecordedIsThere, GiveUp, Answer, Results
<1>6. ReflectionSoFar'
    BY WritesDiffer DEF IInv, TypeOK, ReflectionSoFar, GiveUp, Answer, Results
<1>7. LessonIsItsOwn'
    BY DEF IInv, TypeOK, LessonIsItsOwn, GiveUp, Answer, Results
<1>. QED BY <1>1, <1>2, <1>3, <1>4, <1>5, <1>6, <1>7 DEF IInv

\* A late update leaves its callback as it was.
LEMMA ApplyLateKeeps ==
    ASSUME IInv, NEW c \in Callbacks, ApplyLate(c)
    PROVE  IInv'
<1>1. TypeOK'
    BY EntryIsEntry, WritesDiffer DEF IInv, TypeOK, ApplyLate
<1>2. WritesArePostable'
    BY WritesDiffer DEF IInv, TypeOK, WritesArePostable, ApplyLate, Postable
<1>3. LateIsUnrecorded'
    BY WritesDiffer DEF IInv, TypeOK, LateIsUnrecorded, ApplyLate
<1>4. WrittenIsThere'
    BY EntryIsEntry DEF IInv, TypeOK, WrittenIsThere, ApplyLate
<1>5. RecordedIsThere'
    BY EntryIsEntry DEF IInv, TypeOK, RecordedIsThere, ApplyLate
<1>6. ReflectionSoFar'
    BY WritesDiffer DEF IInv, TypeOK, ReflectionSoFar, ApplyLate
<1>8. LessonIsItsOwn'
    BY DEF IInv, LessonIsItsOwn, ApplyLate
<1>. QED BY <1>1, <1>2, <1>3, <1>4, <1>5, <1>6, <1>8 DEF IInv

\* The lesson is about to be written.
LEMMA ReflectKeeps ==
    ASSUME IInv, NEW c \in Callbacks, Reflect(c)
    PROVE  IInv'
<1>1. TypeOK'
    BY DEF IInv, TypeOK, Reflect
<1>6. ReflectionSoFar'
    BY DEF IInv, TypeOK, ReflectionSoFar, Reflect
<1>8. /\ WritesArePostable' /\ LateIsUnrecorded' /\ WrittenIsThere'
      /\ RecordedIsThere' /\ LessonIsItsOwn'
    BY DEF IInv, WritesArePostable, LateIsUnrecorded, WrittenIsThere,
           RecordedIsThere, LessonIsItsOwn, Reflect, Postable
<1>. QED BY <1>1, <1>6, <1>8 DEF IInv

\* A callback whose reflection writes has had no lesson yet.
LEMMA KeepLessonKeeps ==
    ASSUME IInv, NEW c \in Callbacks, KeepLesson(c)
    PROVE  IInv'
<1>1. TypeOK'
    BY LessonIsLesson DEF IInv, TypeOK, KeepLesson
<1>6. ReflectionSoFar'
    BY DEF IInv, TypeOK, ReflectionSoFar, KeepLesson
<1>7. LessonIsItsOwn'
    <2>1. /\ lessons[c] = <<>> /\ task[c] # "none"
          /\ pc[c] = "answered" /\ body[c].classified
        BY DEF IInv, TypeOK, ReflectionSoFar, KeepLesson
    <2>2. lessons'[c] = <<Lesson(body[c])>>
        BY <2>1 DEF IInv, TypeOK, KeepLesson
    <2>3. \A d \in Callbacks : d # c => lessons'[d] = lessons[d]
        BY DEF IInv, TypeOK, KeepLesson
    <2>. QED BY <2>1, <2>2, <2>3 DEF IInv, LessonIsItsOwn, KeepLesson
<1>8. WritesArePostable' /\ LateIsUnrecorded' /\ WrittenIsThere' /\ RecordedIsThere'
    BY DEF IInv, WritesArePostable, LateIsUnrecorded, WrittenIsThere,
           RecordedIsThere, KeepLesson, Postable
<1>. QED BY <1>1, <1>6, <1>7, <1>8 DEF IInv

\* An ended reflection may have a write under way.
LEMMA EndReflectionKeeps ==
    ASSUME IInv, NEW c \in Callbacks, EndReflection(c)
    PROVE  IInv'
<1>1. TypeOK'
    BY WritesDiffer DEF IInv, TypeOK, EndReflection
<1>2. WritesArePostable'
    BY WritesDiffer DEF IInv, TypeOK, WritesArePostable, EndReflection, Postable
<1>3. LateIsUnrecorded'
    BY WritesDiffer DEF IInv, TypeOK, LateIsUnrecorded, EndReflection
<1>6. ReflectionSoFar'
    BY WritesDiffer DEF IInv, TypeOK, ReflectionSoFar, EndReflection
<1>8. WrittenIsThere' /\ RecordedIsThere' /\ LessonIsItsOwn'
    BY DEF IInv, WrittenIsThere, RecordedIsThere, LessonIsItsOwn, EndReflection
<1>. QED BY <1>1, <1>2, <1>3, <1>6, <1>8 DEF IInv

\* A late lesson is the first of its callback.
LEMMA KeepLateKeeps ==
    ASSUME IInv, NEW c \in Callbacks, KeepLate(c)
    PROVE  IInv'
<1>1. TypeOK'
    BY LessonIsLesson, WritesDiffer DEF IInv, TypeOK, KeepLate
<1>2. WritesArePostable'
    BY WritesDiffer DEF IInv, TypeOK, WritesArePostable, KeepLate, Postable
<1>3. LateIsUnrecorded'
    BY WritesDiffer DEF IInv, TypeOK, LateIsUnrecorded, KeepLate
<1>6. ReflectionSoFar'
    BY WritesDiffer DEF IInv, TypeOK, ReflectionSoFar, KeepLate
<1>7. LessonIsItsOwn'
    <2>1. /\ lessons[c] = <<>> /\ task[c] # "none"
          /\ pc[c] = "answered" /\ body[c].classified
        BY DEF IInv, TypeOK, ReflectionSoFar, KeepLate
    <2>2. lessons'[c] = <<Lesson(body[c])>>
        BY <2>1 DEF IInv, TypeOK, KeepLate
    <2>3. \A d \in Callbacks : d # c => lessons'[d] = lessons[d]
        BY DEF IInv, TypeOK, KeepLate
    <2>. QED BY <2>1, <2>2, <2>3 DEF IInv, LessonIsItsOwn, KeepLate
<1>8. WrittenIsThere' /\ RecordedIsThere'
    BY DEF IInv, WrittenIsThere, RecordedIsThere, KeepLate
<1>. QED BY <1>1, <1>2, <1>3, <1>6, <1>7, <1>8 DEF IInv

\* Closing the client changes nothing else.
LEMMA CloseKeeps ==
    ASSUME IInv, Close
    PROVE  IInv'
<1>1. TypeOK'
    BY DEF IInv, TypeOK, Close
<1>8. /\ WritesArePostable' /\ LateIsUnrecorded' /\ WrittenIsThere'
      /\ RecordedIsThere' /\ ReflectionSoFar' /\ LessonIsItsOwn'
    BY DEF IInv, WritesArePostable, LateIsUnrecorded, WrittenIsThere,
           RecordedIsThere, ReflectionSoFar, LessonIsItsOwn, Close, Postable
<1>. QED BY <1>1, <1>8 DEF IInv

\* A callback that is lost, or a reflection, may have a write under way.
LEMMA StopKeeps ==
    ASSUME IInv, Stop
    PROVE  IInv'
<1>1. TypeOK'
    BY WritesDiffer DEF IInv, TypeOK, Stop
<1>2. WritesArePostable'
    BY WritesDiffer DEF IInv, TypeOK, WritesArePostable, Stop, Postable
<1>3. LateIsUnrecorded'
    <2>. SUFFICES ASSUME NEW c \in Callbacks, Write(c, "update") \in late'
                  PROVE  pc'[c] \in {"answered", "lost"} /\ result'[c] # "recorded"
        BY DEF LateIsUnrecorded
    <2>1. Write(c, "update") \in late \/ pc[c] = "writing"
        BY WritesDiffer DEF Stop
    <2>2. CASE Write(c, "update") \in late
        BY <2>2 DEF IInv, LateIsUnrecorded, Stop
    <2>3. CASE pc[c] = "writing"
        <3>1. result[c] = Nothing
            BY <2>3 DEF IInv, TypeOK
        <3>. QED BY <2>3, <3>1, NothingAssumption DEF Stop
    <2>. QED BY <2>1, <2>2, <2>3
<1>4. WrittenIsThere'
    BY DEF IInv, TypeOK, WrittenIsThere, Stop
<1>6. ReflectionSoFar'
    BY WritesDiffer DEF IInv, TypeOK, ReflectionSoFar, Stop
<1>7. LessonIsItsOwn'
    BY DEF IInv, TypeOK, LessonIsItsOwn, Stop
<1>8. RecordedIsThere'
    BY DEF IInv, RecordedIsThere, Stop
<1>. QED BY <1>1, <1>2, <1>3, <1>4, <1>6, <1>7, <1>8 DEF IInv

\* A start brings nothing back.
LEMMA StartKeeps ==
    ASSUME IInv, Start
    PROVE  IInv'
<1>1. TypeOK'
    BY DEF IInv, TypeOK, Start
<1>8. /\ WritesArePostable' /\ LateIsUnrecorded' /\ WrittenIsThere'
      /\ RecordedIsThere' /\ ReflectionSoFar' /\ LessonIsItsOwn'
    BY DEF IInv, WritesArePostable, LateIsUnrecorded, WrittenIsThere,
           RecordedIsThere, ReflectionSoFar, LessonIsItsOwn, Start, Postable
<1>. QED BY <1>1, <1>8 DEF IInv

LEMMA StepInv == IInv /\ [Next]_vars => IInv'
<1>. SUFFICES ASSUME IInv, [Next]_vars PROVE IInv'
    OBVIOUS
<1>1. ASSUME NEW c \in Callbacks, Break(c) \/ Skip(c) \/ Misread(c) \/ Post(c)
      PROVE  IInv'
    BY <1>1, BreakKeeps, SkipKeeps, MisreadKeeps, PostKeeps
<1>2. ASSUME NEW c \in Callbacks, Apply(c) \/ Record(c) \/ GiveUp(c) \/ ApplyLate(c)
      PROVE  IInv'
    BY <1>2, ApplyKeeps, RecordKeeps, GiveUpKeeps, ApplyLateKeeps
<1>3. ASSUME NEW c \in Callbacks,
             Reflect(c) \/ KeepLesson(c) \/ EndReflection(c) \/ KeepLate(c)
      PROVE  IInv'
    BY <1>3, ReflectKeeps, KeepLessonKeeps, EndReflectionKeeps, KeepLateKeeps
<1>4. CASE Close \/ Stop \/ Start
    BY <1>4, CloseKeeps, StopKeeps, StartKeeps
<1>5. CASE UNCHANGED vars
    BY <1>5 DEF vars, IInv, TypeOK, WritesArePostable, Postable, LateIsUnrecorded,
                WrittenIsThere, RecordedIsThere, ReflectionSoFar, LessonIsItsOwn
<1>. QED BY <1>1, <1>2, <1>3, <1>4, <1>5 DEF Next

\* An error of an episode comes from a callback about it that is not recorded.
LEMMA StepStands ==
    ASSUME IInv, Next, NEW e \in Episodes, stored'[e] # stored[e]
    PROVE  \E c \in Callbacks :
            /\ body[c].episode = e /\ result[c] # "recorded"
            /\ stored'[e] = Entry(body[c])
<1>1. PICK c \in Callbacks : Apply(c) \/ ApplyLate(c)
    BY DEF Next, Break, Skip, Misread, Post, Record, GiveUp, Reflect, KeepLesson,
           EndReflection, KeepLate, Close, Stop, Start
<1>2. body[c].episode = e /\ stored'[e] = Entry(body[c])
    BY <1>1 DEF Apply, ApplyLate, IInv, TypeOK
<1>3. CASE Apply(c)
    <2>1. result[c] = Nothing
        BY <1>3 DEF Apply, IInv, TypeOK
    <2>. QED BY <1>2, <2>1, NothingAssumption
<1>4. CASE ApplyLate(c)
    BY <1>2, <1>4 DEF ApplyLate, IInv, LateIsUnrecorded
<1>. QED BY <1>1, <1>3, <1>4

LEMMA InvAlways == Spec => []IInv
BY InitInv, StepInv, PTL DEF Spec

\* Callbacks, tasks and memory keep their types, and the label of a callback is
\* given exactly when it is answered, in every instance (main.py 228-294).
THEOREM TypeCorrect == Spec => []TypeOK
<1>1. IInv => TypeOK
    BY DEF IInv
<1>. QED BY <1>1, InvAlways, PTL

\* No callback touches the error of an episode once it is recorded, however
\* many callbacks overlap and however late their writes are applied.
THEOREM RecordedStandsAlways == Spec => RecordedStands
<1>1. IInv /\ [Next]_vars =>
        [\A e \in Episodes : stored'[e] # stored[e] =>
            \E c \in Callbacks :
                /\ body[c].episode = e /\ result[c] # "recorded"
                /\ stored'[e] = Entry(body[c])]_vars
    BY StepStands
<1>. QED BY <1>1, InvAlways, PTL DEF Spec, RecordedStands

\* "recorded" is only counted when xnch has applied the update (main.py
\* 254-257).
THEOREM RecordedIsThereAlways == Spec => []RecordedIsThere
<1>1. IInv => RecordedIsThere
    BY DEF IInv
<1>. QED BY <1>1, InvAlways, PTL

\* Every lesson comes from an answered callback, at most one from each, and
\* reports what that callback did (main.py 264-292, reflector.py 64-103).
THEOREM LessonIsItsOwnAlways == Spec => []LessonIsItsOwn
<1>1. IInv => LessonIsItsOwn
    BY DEF IInv
<1>. QED BY <1>1, InvAlways, PTL
=============================================================================
