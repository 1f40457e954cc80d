---------------------------- MODULE PendingEvents ---------------------------
(***************************************************************************)
(* ProactivityEngine (proactivity/engine.py), its queue: an evaluation     *)
(* collects an event per condition that its rules find, a rule that fails  *)
(* adding nothing, and then puts the events one by one into Redis, each    *)
(* under a new random key that Redis drops after the event's lifetime.     *)
(* Reading the queue is part of PromptContext.                             *)
(***************************************************************************)
EXTENDS Naturals

CONSTANTS
    Conditions, \* what the rules look for: one event each
    Keys,       \* bound: the random keys in use at one time
    Absent      \* no event

ASSUME AbsentAssumption == Absent \notin Conditions

VARIABLES
    queue,  \* Redis: the event under each key
    lapsed, \* keys in it whose event has passed its expires_at
    todo    \* events of the evaluation under way that are not queued yet

queueVars == <<queue, lapsed, todo>>

Present == {k \in Keys : queue[k] # Absent}

QueueTypeOK ==
    /\ queue \in [Keys -> Conditions \union {Absent}]
    /\ lapsed \subseteq Present
    /\ todo \subseteq Conditions

QueueInit ==
    /\ queue = [k \in Keys |-> Absent]
    /\ lapsed = {} /\ todo = {}

\* check_and_queue, up to the first queue_event.
Evaluate ==
    /\ todo = {}
    /\ todo' \in SUBSET Conditions \ {{}}
    /\ UNCHANGED <<queue, lapsed>>

\* queue_event: the lifetime of an event is an hour or more, that of its key the
\* same rounded down.  A key that is not in Redis stands for a new one.
Put(k, c) ==
    /\ k \in Keys \ Present /\ c \in todo
    /\ queue' = [queue EXCEPT ![k] = c]
    /\ UNCHANGED lapsed

QueueEvent(k, c) == Put(k, c) /\ todo' = todo \ {c}

\* Redis applies the write without an answer: the evaluation raises, and the
\* events after this one are lost.
QueueUnanswered(k, c) == Put(k, c) /\ todo' = {}

\* Redis fails, or the process ends.
QueueFails ==
    /\ todo # {}
    /\ todo' = {}
    /\ UNCHANGED <<queue, lapsed>>

Lapse(k) ==
    /\ k \in Present \ lapsed
    /\ lapsed' = lapsed \union {k}
    /\ UNCHANGED <<queue, todo>>

\* Redis drops the key at the end of its lifetime (external).
Evict(k) ==
    /\ k \in Present
    /\ queue' = [queue EXCEPT ![k] = Absent]
    /\ lapsed' = lapsed \ {k}
    /\ UNCHANGED todo

QueueStop == todo' = {} /\ UNCHANGED <<queue, lapsed>>
=============================================================================
