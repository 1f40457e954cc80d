-------------------------- MODULE OutcomeFeedback ---------------------------
(***************************************************************************)
(* What happens after an action has run (main.py, outcome_callback, and    *)
(* pipeline/reflector.py): xnch calls nexi back with the outcome of an     *)
(* episode, nexi writes the error of its prediction into xnch's memory,    *)
(* answers, and a task of its own asks a language model for a lesson and   *)
(* stores that too.                                                        *)
(*                                                                         *)
(* Callbacks run at the same time, several of them about one episode.  A   *)
(* write that nexi gave up may be applied by xnch at any later time, or    *)
(* never.  The process may be shut down or die between any two steps; the  *)
(* tasks it has started and the callbacks it has not answered die with it. *)
(***************************************************************************)
EXTENDS Naturals, Sequences

CONSTANTS
    Callbacks,        \* calls of /callback/outcome
    Episodes,
    NoEpisode,        \* the body lacks session_id or episode_id
    Outcomes,         \* outcome_status; all but SUCCESS count as failures
    Bodies,           \* what xnch sends
    ReflectionEnabled,
    Nothing           \* no result, nothing stored

ASSUME OutcomesAssumption == "SUCCESS" \in Outcomes
ASSUME NoEpisodeAssumption == NoEpisode \notin Episodes

\* Scores are hundredths.  numeric: outcome_score_predicted is a number;
\* wellFormed: the ids are UUIDs and the actor is one; classified: the body has
\* an intent_class and an action_type.
ASSUME BodiesAssumption ==
    Bodies \subseteq
        [episode : Episodes \union {NoEpisode}, outcome : Outcomes, predicted : Nat,
         numeric : BOOLEAN, wellFormed : BOOLEAN, classified : BOOLEAN]
ASSUME NothingAssumption ==
    Nothing \notin [delta : Nat, early : BOOLEAN] \union
                   {"recorded", "skipped", "write_failed"}

VARIABLES
    life,    \* "up", "closed" (shutting down, the client is closed) or "down"
    pc,      \* where each callback is
    body,    \* what it was called with
    result,  \* the label it was counted under
    task,    \* its reflection
    stored,  \* xnch: the prediction error of each episode
    lessons, \* xnch: the lessons it was sent on behalf of each callback
    late     \* writes nexi gave up and xnch may yet apply

vars == <<life, pc, body, result, task, stored, lessons, late>>

(***************************************************************************)
(* The error of a prediction.                                              *)
(***************************************************************************)

Actual(b) == IF b.outcome = "SUCCESS" THEN 100 ELSE 0

Delta(b) ==
    IF b.predicted >= Actual(b) THEN b.predicted - Actual(b) ELSE Actual(b) - b.predicted

\* More than 0.3, in floating point: of an outcome of 1.0 the predictions 0.7
\* and 1.3 are off by 0.30000000000000004, of 0.0 the prediction 0.3 by 0.3.
EarlyFlag(b) == Delta(b) > 30 \/ (Delta(b) = 30 /\ Actual(b) = 100)

Entry(b) == [delta |-> Delta(b), early |-> EarlyFlag(b)]
Entries == [delta : Nat, early : BOOLEAN]
Lesson(b) == [outcome |-> b.outcome, delta |-> Delta(b)]
Lessons == [outcome : Outcomes, delta : Nat]

Writes == [callback : Callbacks, kind : {"update", "lesson"}]
Write(c, k) == [callback |-> c, kind |-> k]

Results == {"recorded", "skipped", "write_failed"}

\* A callback has been answered with ok exactly if it has been counted, and
\* under one label; a reflection belongs to an answered callback.
TypeOK ==
    /\ life \in {"up", "closed", "down"}
    /\ pc \in [Callbacks -> {"idle", "writing", "written", "answered", "failed", "lost"}]
    /\ body \in [Callbacks -> Bodies]
    /\ result \in [Callbacks -> Results \union {Nothing}]
    /\ task \in [Callbacks -> {"none", "asking", "writing", "kept", "ended"}]
    /\ stored \in [Episodes -> Entries \union {Nothing}]
    /\ lessons \in [Callbacks -> Seq(Lessons)]
    /\ late \subseteq Writes
    /\ \A c \in Callbacks : pc[c] = "answered" <=> result[c] # Nothing
    /\ \A c \in Callbacks : task[c] # "none" => pc[c] = "answered"

Init ==
    /\ life = "up"
    /\ pc = [c \in Callbacks |-> "idle"]
    /\ body \in [Callbacks -> Bodies]
    /\ result = [c \in Callbacks |-> Nothing]
    /\ task = [c \in Callbacks |-> "none"]
    /\ stored = [e \in Episodes |-> Nothing]
    /\ lessons = [c \in Callbacks |-> <<>>]
    /\ late = {}

(***************************************************************************)
(* A callback.                                                             *)
(***************************************************************************)

\* The callback is counted and answered, and its reflection is started in the
\* same step: nothing is awaited in between.
Answer(c, r) ==
    /\ pc' = [pc EXCEPT ![c] = "answered"]
    /\ result' = [result EXCEPT ![c] = r]
    /\ task' = [task EXCEPT ![c] = IF ReflectionEnabled /\ body[c].classified
                                   THEN "asking" ELSE "none"]

Arrives(c) == life = "up" /\ pc[c] = "idle"

\* The difference is taken outside the try: the framework answers with 500.
Break(c) ==
    /\ Arrives(c) /\ ~body[c].numeric
    /\ pc' = [pc EXCEPT ![c] = "failed"]
    /\ UNCHANGED <<life, body, result, task, stored, lessons, late>>

Skip(c) ==
    /\ Arrives(c) /\ body[c].numeric /\ body[c].episode = NoEpisode
    /\ Answer(c, "skipped")
    /\ UNCHANGED <<life, body, stored, lessons, late>>

\* Defect: ids that cannot be read leave the callback uncounted.
X_Misread_Uncounted(c) ==
    /\ Arrives(c) /\ body[c].numeric /\ body[c].episode # NoEpisode
    /\ ~body[c].wellFormed
    /\ pc' = [pc EXCEPT ![c] = "answered"]
    /\ UNCHANGED <<life, body, result, task, stored, lessons, late>>

Misread(c) ==
    /\ Arrives(c) /\ body[c].numeric /\ body[c].episode # NoEpisode
    /\ ~body[c].wellFormed
    /\ Answer(c, "write_failed")
    /\ UNCHANGED <<life, body, stored, lessons, late>>

Post(c) ==
    /\ Arrives(c) /\ body[c].numeric /\ body[c].episode # NoEpisode
    /\ body[c].wellFormed
    /\ pc' = [pc EXCEPT ![c] = "writing"]
    /\ UNCHANGED <<life, body, result, task, stored, lessons, late>>

\* xnch applies the update it was sent (external).
Apply(c) ==
    /\ pc[c] = "writing"
    /\ pc' = [pc EXCEPT ![c] = "written"]
    /\ stored' = [stored EXCEPT ![body[c].episode] = Entry(body[c])]
    /\ UNCHANGED <<life, body, result, task, lessons, late>>

Record(c) ==
    /\ pc[c] = "written"
    /\ Answer(c, "recorded")
    /\ UNCHANGED <<life, body, stored, lessons, late>>

\* Defect: the write has no timeout.
X_GiveUp_Never(c) == FALSE
\* Defect: a write that failed is tried again.
X_GiveUp_Retries(c) ==
    /\ pc[c] = "writing"
    /\ pc' = [pc EXCEPT ![c] = "writing"]
    /\ late' = late \union {Write(c, "update")}
    /\ UNCHANGED <<life, body, result, task, stored, lessons>>

\* The write is refused, or not answered in ten seconds.
GiveUp(c) ==
    /\ pc[c] \in {"writing", "written"}
    /\ Answer(c, "write_failed")
    /\ late' = IF pc[c] = "writing" THEN late \union {Write(c, "update")} ELSE late
    /\ UNCHANGED <<life, body, stored, lessons>>

ApplyLate(c) ==
    /\ Write(c, "update") \in late
    /\ late' = late \ {Write(c, "update")}
    /\ stored' = [stored EXCEPT ![body[c].episode] = Entry(body[c])]
    /\ UNCHANGED <<life, pc, body, result, task, lessons>>

(***************************************************************************)
(* Its reflection.                                                         *)
(***************************************************************************)

\* The model has answered with a verdict and a lesson.
Reflect(c) ==
    /\ life = "up" /\ task[c] = "asking"
    /\ task' = [task EXCEPT ![c] = "writing"]
    /\ UNCHANGED <<life, pc, body, result, stored, lessons, late>>

KeepLesson(c) ==
    /\ task[c] = "writing"
    /\ task' = [task EXCEPT ![c] = "kept"]
    /\ lessons' = [lessons EXCEPT ![c] = Append(@, Lesson(body[c]))]
    /\ UNCHANGED <<life, pc, body, result, stored, late>>

\* Defect: a lesson whose write was not answered is written again.
X_EndReflection_Retries(c) ==
    /\ task[c] \in {"asking", "writing", "kept"}
    /\ task' = [task EXCEPT ![c] = IF task[c] = "kept" THEN "writing" ELSE "ended"]
    /\ UNCHANGED <<life, pc, body, result, stored, lessons, late>>

\* The model fails or its answer is rejected; the write is answered, refused or
\* not answered in time, or the client is closed.
EndReflection(c) ==
    /\ task[c] \in {"asking", "writing", "kept"}
    /\ task' = [task EXCEPT ![c] = "ended"]
    /\ late' = IF task[c] = "writing" THEN late \union {Write(c, "lesson")} ELSE late
    /\ UNCHANGED <<life, pc, body, result, stored, lessons>>

KeepLate(c) ==
    /\ Write(c, "lesson") \in late
    /\ late' = late \ {Write(c, "lesson")}
    /\ lessons' = [lessons EXCEPT ![c] = Append(@, Lesson(body[c]))]
    /\ UNCHANGED <<life, pc, body, result, task, stored>>

(***************************************************************************)
(* The process.                                                            *)
(***************************************************************************)

\* The server lets the open requests end, then the lifespan closes the client;
\* it knows nothing of the reflections.
Close ==
    /\ life = "up"
    /\ \A c \in Callbacks : pc[c] \notin {"writing", "written"}
    /\ life' = "closed"
    /\ UNCHANGED <<pc, body, result, task, stored, lessons, late>>

\* The process ends, by a shutdown or not, with all it has under way.
Stop ==
    /\ life # "down"
    /\ life' = "down"
    /\ pc' = [c \in Callbacks |-> IF pc[c] \in {"writing", "written"} THEN "lost" ELSE pc[c]]
    /\ task' = [c \in Callbacks |->
                    IF task[c] \in {"asking", "writing", "kept"} THEN "ended" ELSE task[c]]
    /\ late' = late \union {Write(c, "update") : c \in {d \in Callbacks : pc[d] = "writing"}}
                    \union {Write(c, "lesson") : c \in {d \in Callbacks : task[d] = "writing"}}
    /\ UNCHANGED <<body, result, stored, lessons>>

Start ==
    /\ life = "down"
    /\ life' = "up"
    /\ UNCHANGED <<pc, body, result, task, stored, lessons, late>>

Next ==
    \/ \E c \in Callbacks :
        \/ Break(c) \/ Skip(c) \/ Misread(c) \/ Post(c)
        \/ Apply(c) \/ Record(c) \/ GiveUp(c) \/ ApplyLate(c)
        \/ Reflect(c) \/ KeepLesson(c) \/ EndReflection(c) \/ KeepLate(c)
    \/ Close \/ Stop \/ Start

Spec == Init /\ [][Next]_vars

\* The client's timeout ends every write.  Nothing is assumed of xnch, of the
\* model, or of the life of the process.
Fairness == \A c \in Callbacks : WF_vars(Record(c) \/ GiveUp(c))

FairSpec == Spec /\ Fairness

(***************************************************************************)
(* Properties.                                                             *)
(***************************************************************************)

\* A prediction error that a callback has recorded stands until a callback that
\* has not been recorded replaces it, with its own: no callback reaches xnch
\* again after it was counted as recorded, however late its writes are applied
\* (main.py 244-262).  A failed write that were tried again would.
RecordedStands ==
    [][\A e \in Episodes : stored'[e] # stored[e] =>
        \E c \in Callbacks :
            /\ body[c].episode = e /\ result[c] # "recorded"
            /\ stored'[e] = Entry(body[c])]_vars

\* A recorded callback has left an error with its episode.
RecordedIsThere ==
    \A c \in Callbacks : result[c] = "recorded" => stored[body[c].episode] # Nothing

\* Reflection never runs ahead of the answer, and teaches a callback at most
\* once what that callback reported: no lesson comes from a callback that was
\* refused, lost or is still being answered (main.py 264-292, reflector.py
\* 64-103).
LessonIsItsOwn ==
    \A c \in Callbacks : lessons[c] # <<>> =>
        /\ pc[c] = "answered" /\ body[c].classified
        /\ lessons[c] = <<Lesson(body[c])>>

\* "Reflection must never block or break the outcome callback", nor may xnch:
\* every callback that is being served ends, with ok unless the process stops,
\* though neither xnch nor the model ever answers (main.py 228-294).
CallbackAnswered ==
    \A c \in Callbacks :
        pc[c] \in {"writing", "written"} ~> pc[c] = "answered" \/ life = "down"
=============================================================================
