---------------------------- MODULE PipelinePass ----------------------------
(***************************************************************************)
(* run_pipeline_pass (pipeline/run.py) with dispatch_execution             *)
(* (pipeline/dispatch.py) and the two calls of XnchClient that it waits    *)
(* for.  Several passes run concurrently in one event loop; each is        *)
(* suspended at an await (its pc), and between two awaits it runs alone.   *)
(* xnch and the execution runner are external: they take a request, answer *)
(* it or not, and xnch's system_state_version moves on by itself.          *)
(*                                                                         *)
(* Each pass has at most one /verdict call and one /execute call open; a   *)
(* call whose caller gave up stays open and may still be served.           *)
(***************************************************************************)
EXTENDS Naturals, FiniteSets

CONSTANTS
    Passes,      \* the passes, each with its own session and decision_id
    MaxVersion,  \* bound: the last value of xnch's system_state_version
    StaleShown   \* which ways xnch reports a stale version, see XnchRefusesStale

ASSUME PassesAssumption == IsFiniteSet(Passes)
ASSUME MaxVersionAssumption == MaxVersion \in Nat \ {0}
ASSUME StaleShownAssumption == StaleShown \subseteq BOOLEAN

VARIABLES
    xnchVersion,  \* xnch's current system_state_version
    pc,           \* the await each pass is suspended at
    session,      \* session.system_state_version; 0 is the empty string
    attempt,      \* which of the three submit_verdict calls of run.py is next
    seen,         \* outcome of the last submit_verdict: `verdict` or the exception
    sent,         \* the version the last /verdict request carried
    vcall,        \* the open /verdict call
    rcall,        \* the open /execute or /execution/outcome call
    submits,      \* submit_verdict calls made
    dispatches,   \* /execute payloads built; the k-th carries execution_ref k
    authorised,   \* has xnch issued an execution token for this decision_id
    executed,     \* execution_refs the runner took
    stubbed,      \* execution_refs xnch holds a stub SUCCESS outcome for
    result,       \* what the caller of run_pipeline_pass got
    passOutcome   \* the counter behind record_pass_outcome

callVars == <<sent, vcall, rcall, submits, dispatches>>
worldVars == <<authorised, executed, stubbed>>
vars == <<xnchVersion, pc, session, attempt, seen, sent, vcall, rcall, submits,
          dispatches, authorised, executed, stubbed, result, passOutcome>>

-----------------------------------------------------------------------------
\* Verdict answers: "ALLOW" stands for every verdict string other than BLOCK.
\* Either may come with an execution token or without.
Verdicts == {"ALLOW", "ALLOW_no_token", "BLOCK", "BLOCK_no_token"}
HasToken(v) == v \in {"ALLOW", "BLOCK"}
Blocks(v) == v \in {"BLOCK", "BLOCK_no_token"}

\* Failed submissions.  "stale" is an exception whose text contains
\* STALE_SESSION, "stale_hidden" one that does not although xnch meant it.
Failures == {"stale", "stale_hidden", "error", "lost"}

Attempts == {"first", "stale", "token"}
Statuses == {"CLARIFICATION_REQUIRED", "ESCALATED", "ERROR", "EXECUTING"}
Results == {"EXECUTING", "ESCALATED", "CLARIFY", "HTTP_503", "HTTP_422",
            "HTTP_409", "HTTP_502", "RAISED", "CANCELLED"}
Locations == {"idle", "interpret", "load_context", "policy_filter", "select",
              "submit", "await_verdict", "reload_context", "dispatch",
              "await_runner", "stub", "done"}
Versions == 0..MaxVersion

TypeOK ==
    /\ xnchVersion \in 1..MaxVersion
    /\ pc \in [Passes -> Locations]
    /\ session \in [Passes -> Versions]
    /\ attempt \in [Passes -> Attempts]
    /\ seen \in [Passes -> {"none"} \union Verdicts \union Failures]
    /\ sent \in [Passes -> Versions]
    /\ vcall \in [Passes -> {"closed", "open", "stale", "stale_hidden", "error"}
                               \union Verdicts]
    /\ rcall \in [Passes -> {"closed", "open", "accepted", "expired", "rejected",
                             "posting", "recorded"}]
    /\ submits \in [Passes -> Nat]
    /\ dispatches \in [Passes -> Nat]
    /\ authorised \in [Passes -> BOOLEAN]
    /\ executed \in [Passes -> SUBSET Nat]
    /\ stubbed \in [Passes -> SUBSET Nat]
    /\ result \in [Passes -> {"none"} \union Results]
    /\ passOutcome \in [Statuses -> Nat]

Init ==
    /\ xnchVersion = 1
    /\ pc = [p \in Passes |-> "idle"]
    /\ session = [p \in Passes |-> 0]
    /\ attempt = [p \in Passes |-> "first"]
    /\ seen = [p \in Passes |-> "none"]
    /\ sent = [p \in Passes |-> 0]
    /\ vcall = [p \in Passes |-> "closed"]
    /\ rcall = [p \in Passes |-> "closed"]
    /\ submits = [p \in Passes |-> 0]
    /\ dispatches = [p \in Passes |-> 0]
    /\ authorised = [p \in Passes |-> FALSE]
    /\ executed = [p \in Passes |-> {}]
    /\ stubbed = [p \in Passes |-> {}]
    /\ result = [p \in Passes |-> "none"]
    /\ passOutcome = [s \in Statuses |-> 0]

-----------------------------------------------------------------------------
\* record_pass_outcome of observability/metrics.py.
Record(status) == passOutcome' = [passOutcome EXCEPT ![status] = @ + 1]

Goto(p, location) ==
    /\ pc' = [pc EXCEPT ![p] = location]
    /\ UNCHANGED result

Finish(p, r) ==
    /\ pc' = [pc EXCEPT ![p] = "done"]
    /\ result' = [result EXCEPT ![p] = r]

\* An exception run.py does not handle: it leaves without touching the counter.
Raise(p) == Finish(p, "RAISED") /\ UNCHANGED passOutcome

-----------------------------------------------------------------------------
(* Before the verdict: each step is one stage of run.py.                    *)

\* session_start takes the version from the request, _make_goal_session from
\* /system/state, or the empty version when that call fails.
Begin(p) ==
    /\ pc[p] = "idle"
    /\ \E v \in {0, xnchVersion} : session' = [session EXCEPT ![p] = v]
    /\ Goto(p, "interpret")
    /\ UNCHANGED <<xnchVersion, attempt, seen, callVars, worldVars, passOutcome>>

Interpret(p) ==
    /\ pc[p] = "interpret"
    /\ \/ Goto(p, "load_context") /\ UNCHANGED passOutcome
       \/ Finish(p, "CLARIFY") /\ Record("CLARIFICATION_REQUIRED")
       \/ Raise(p)                       \* PolicyViolation of the input scan
    /\ UNCHANGED <<xnchVersion, session, attempt, seen, callVars, worldVars>>

\* Defect: a failed context load leaves without record_pass_outcome.
LoadContext_Uncounted(p) ==
    /\ pc[p] = "load_context"
    /\ Goto(p, "policy_filter") \/ Finish(p, "HTTP_503")
    /\ UNCHANGED <<xnchVersion, session, attempt, seen, callVars, worldVars, passOutcome>>

\* Defect: the detail text DEGRADED of the 503 is returned as the status.
LoadContext_Degraded(p) ==
    /\ pc[p] = "load_context"
    /\ Goto(p, "policy_filter") \/ Finish(p, "DEGRADED")
    /\ UNCHANGED <<xnchVersion, session, attempt, seen, callVars, worldVars, passOutcome>>

LoadContext(p) ==
    /\ pc[p] = "load_context"
    /\ \/ Goto(p, "policy_filter") /\ UNCHANGED passOutcome
       \/ Finish(p, "HTTP_503") /\ Record("ERROR")
    /\ UNCHANGED <<xnchVersion, session, attempt, seen, callVars, worldVars>>

\* Weight config (a failure is tolerated), option generation (falls back to
\* rules) and the parallel policy dry-runs: one failed dry-run fails them all.
FilterOptions(p) ==
    /\ pc[p] = "policy_filter"
    /\ \/ Goto(p, "select") /\ UNCHANGED passOutcome
       \/ Finish(p, "ESCALATED") /\ Record("ESCALATED")   \* AllOptionsBlocked
       \/ Raise(p)
    /\ UNCHANGED <<xnchVersion, session, attempt, seen, callVars, worldVars>>

\* Scoring, selection and compilation (module DecisionCore).  A survivor list
\* is never empty here, so the escalation of an empty ranking, the "selected
\* option not found" error and the empty DAG cannot be reached.  Scoring raises
\* when xnch's weights push a composite outside [0, 1].
SelectAndCompile(p) ==
    /\ pc[p] = "select"
    /\ \/ Goto(p, "submit") /\ UNCHANGED passOutcome
       \/ Finish(p, "HTTP_422") /\ Record("ERROR")
       \/ Raise(p)
    /\ UNCHANGED <<xnchVersion, session, attempt, seen, callVars, worldVars>>

-----------------------------------------------------------------------------
(* The verdict.                                                             *)

SubmitVerdict(p) ==
    /\ pc[p] = "submit"
    /\ submits' = [submits EXCEPT ![p] = @ + 1]
    /\ sent' = [sent EXCEPT ![p] = session[p]]
    /\ vcall' = [vcall EXCEPT ![p] = "open"]
    /\ Goto(p, "await_verdict")
    /\ UNCHANGED <<xnchVersion, session, attempt, seen, rcall, dispatches,
                   worldVars, passOutcome>>

\* Only the first two calls are followed by the BLOCK check of run.py.
StopsOnBlock(p) == attempt[p] # "token"

ReceiveVerdict(p) ==
    /\ pc[p] = "await_verdict"
    /\ vcall[p] \in Verdicts
    /\ seen' = [seen EXCEPT ![p] = vcall[p]]
    /\ vcall' = [vcall EXCEPT ![p] = "closed"]
    /\ IF StopsOnBlock(p) /\ Blocks(vcall[p])
       THEN Finish(p, "ESCALATED") /\ Record("ESCALATED")
       ELSE Goto(p, "dispatch") /\ UNCHANGED passOutcome
    /\ UNCHANGED <<xnchVersion, session, attempt, sent, rcall, submits,
                   dispatches, worldVars>>

\* What run.py does with a failed submit_verdict, by the call that failed.
AfterFailure(p, f) ==
    \/ /\ attempt[p] = "first" /\ f = "stale"
       /\ Goto(p, "reload_context")
       /\ UNCHANGED passOutcome
    \/ attempt[p] = "first" /\ f # "stale" /\ Finish(p, "HTTP_502") /\ Record("ERROR")
    \/ attempt[p] = "stale" /\ Finish(p, "HTTP_409") /\ Record("ERROR")
    \/ attempt[p] = "token" /\ Raise(p)

VerdictRefused(p) ==
    /\ pc[p] = "await_verdict"
    /\ vcall[p] \in {"stale", "stale_hidden", "error"}
    /\ seen' = [seen EXCEPT ![p] = vcall[p]]
    /\ vcall' = [vcall EXCEPT ![p] = "closed"]
    /\ AfterFailure(p, vcall[p])
    /\ UNCHANGED <<xnchVersion, session, attempt, sent, rcall, submits,
                   dispatches, worldVars>>

\* Defect: the client has no timeout and notices only a torn reply.
VerdictLost_NoTimeout(p) ==
    /\ pc[p] = "await_verdict" /\ vcall[p] # "open"
    /\ seen' = [seen EXCEPT ![p] = "lost"]
    /\ AfterFailure(p, "lost")
    /\ UNCHANGED <<xnchVersion, session, attempt, sent, vcall, rcall, submits,
                   dispatches, worldVars>>

\* No connection, the 10 s timeout or a torn reply; the call stays open, and
\* xnch may serve it after the pass has ended.
VerdictLost(p) ==
    /\ pc[p] = "await_verdict"
    /\ seen' = [seen EXCEPT ![p] = "lost"]
    /\ AfterFailure(p, "lost")
    /\ UNCHANGED <<xnchVersion, session, attempt, sent, vcall, rcall, submits,
                   dispatches, worldVars>>

\* Defect: the stale retry keeps the session's version.
FreshVersion_Kept(p) == session[p]

\* The version the stale retry adopts: the one of the fresh manifest.
FreshVersion(p) == xnchVersion

\* The context is read again, the session takes its version, and the second
\* submission follows; a failed read is a failed retry.
ReloadContext(p) ==
    /\ pc[p] = "reload_context"
    /\ \/ /\ session' = [session EXCEPT ![p] = FreshVersion(p)]
          /\ attempt' = [attempt EXCEPT ![p] = "stale"]
          /\ Goto(p, "submit")
          /\ UNCHANGED passOutcome
       \/ /\ Finish(p, "HTTP_409")
          /\ Record("ERROR")
          /\ UNCHANGED <<session, attempt>>
    /\ UNCHANGED <<xnchVersion, seen, callVars, worldVars>>

-----------------------------------------------------------------------------
(* Dispatch to the execution runner.                                        *)

\* A verdict without a token is a ValueError; otherwise a payload with a new
\* execution_ref is built and posted.  Only a refused connection (ConnectError)
\* leads to the stub, whose post goes out at once; a connect timeout is another
\* exception and propagates.
Dispatch(p) ==
    /\ pc[p] = "dispatch"
    /\ \/ ~HasToken(seen[p]) /\ Raise(p) /\ UNCHANGED <<rcall, dispatches>>
       \/ /\ HasToken(seen[p])
          /\ dispatches' = [dispatches EXCEPT ![p] = @ + 1]
          /\ \/ /\ rcall' = [rcall EXCEPT ![p] = "open"]
                /\ Goto(p, "await_runner")
                /\ UNCHANGED passOutcome
             \/ /\ rcall' = [rcall EXCEPT ![p] = "posting"]
                /\ Goto(p, "stub")
                /\ UNCHANGED passOutcome
             \/ Raise(p) /\ UNCHANGED rcall
    /\ UNCHANGED <<xnchVersion, session, attempt, seen, sent, vcall, submits,
                   worldVars>>

\* TokenExpired is caught around the first dispatch_execution only.
MayResubmit(p) == attempt[p] # "token"

ReceiveExecution(p) ==
    /\ pc[p] = "await_runner"
    /\ rcall[p] \in {"accepted", "expired", "rejected"}
    /\ rcall' = [rcall EXCEPT ![p] = "closed"]
    /\ CASE rcall[p] = "accepted" ->
               /\ Finish(p, "EXECUTING") /\ Record("EXECUTING")
               /\ UNCHANGED attempt
         [] rcall[p] = "expired" /\ MayResubmit(p) ->
               /\ attempt' = [attempt EXCEPT ![p] = "token"]
               /\ Goto(p, "submit")
               /\ UNCHANGED passOutcome
         [] OTHER -> Raise(p) /\ UNCHANGED attempt
    /\ UNCHANGED <<xnchVersion, session, seen, sent, vcall, submits, dispatches,
                   worldVars>>

\* Defect: a timed-out dispatch is treated like an expired token.
ExecutionLost_Retried(p) ==
    /\ pc[p] = "await_runner" /\ MayResubmit(p)
    /\ attempt' = [attempt EXCEPT ![p] = "token"]
    /\ Goto(p, "submit")
    /\ UNCHANGED <<xnchVersion, session, seen, callVars, worldVars, passOutcome>>

\* Defect: a timed-out dispatch is reported like a failed submission.
ExecutionLost_Reported(p) ==
    /\ pc[p] = "await_runner"
    /\ Finish(p, "HTTP_502") /\ Record("ERROR")
    /\ UNCHANGED <<xnchVersion, session, attempt, seen, callVars, worldVars>>

\* The 10 s timeout, or the connection is lost after the request went out: the
\* runner may have taken it, or may still do so.
ExecutionLost(p) ==
    /\ pc[p] = "await_runner"
    /\ Raise(p)
    /\ UNCHANGED <<xnchVersion, session, attempt, seen, callVars, worldVars>>

\* _record_stub_outcome ends with the answer, an error or a timeout, and swallows
\* the last two: the pass answers EXECUTING, and its post may still be open.
RecordStubOutcome(p) ==
    /\ pc[p] = "stub"
    /\ Finish(p, "EXECUTING")
    /\ Record("EXECUTING")
    /\ UNCHANGED <<xnchVersion, session, attempt, seen, callVars, worldVars>>

\* The task is cancelled at its await (lifespan shutdown of the goal driver):
\* CancelledError is no Exception, so no handler of run.py sees it.
Cancel(p) ==
    /\ pc[p] \notin {"idle", "done"}
    /\ Finish(p, "CANCELLED")
    /\ UNCHANGED <<xnchVersion, session, attempt, seen, callVars, worldVars,
                   passOutcome>>

-----------------------------------------------------------------------------
(* xnch and the execution runner.                                           *)

XnchAdvances ==
    /\ xnchVersion < MaxVersion
    /\ xnchVersion' = xnchVersion + 1
    /\ UNCHANGED <<pc, session, attempt, seen, callVars, worldVars, result,
                   passOutcome>>

XnchDecides(p) ==
    /\ vcall[p] = "open"
    /\ sent[p] = xnchVersion
    /\ \E v \in Verdicts :
          /\ vcall' = [vcall EXCEPT ![p] = v]
          /\ authorised' = IF HasToken(v) THEN [authorised EXCEPT ![p] = TRUE]
                                          ELSE authorised
    /\ UNCHANGED <<xnchVersion, pc, session, attempt, seen, sent, rcall, submits,
                   dispatches, executed, stubbed, result, passOutcome>>

\* A lagging version is refused.  An error status becomes httpx's
\* HTTPStatusError, whose text is the status line and the URL, so STALE_SESSION
\* in the body is not in it (shown = FALSE); a 200 answer with an error body
\* fails validation with a text that quotes the body (shown = TRUE).
XnchRefusesStale(p) ==
    /\ vcall[p] = "open"
    /\ sent[p] # xnchVersion
    /\ \E shown \in StaleShown :
          vcall' = [vcall EXCEPT ![p] = IF shown THEN "stale" ELSE "stale_hidden"]
    /\ UNCHANGED <<xnchVersion, pc, session, attempt, seen, sent, rcall, submits,
                   dispatches, worldVars, result, passOutcome>>

XnchFails(p) ==
    /\ vcall[p] = "open"
    /\ vcall' = [vcall EXCEPT ![p] = "error"]
    /\ UNCHANGED <<xnchVersion, pc, session, attempt, seen, sent, rcall, submits,
                   dispatches, worldVars, result, passOutcome>>

RunnerAccepts(p) ==
    /\ rcall[p] = "open"
    /\ rcall' = [rcall EXCEPT ![p] = "accepted"]
    /\ executed' = [executed EXCEPT ![p] = @ \union {dispatches[p]}]
    /\ UNCHANGED <<xnchVersion, pc, session, attempt, seen, sent, vcall, submits,
                   dispatches, authorised, stubbed, result, passOutcome>>

\* xnch takes the synthetic SUCCESS outcome, or never does.
XnchRecordsOutcome(p) ==
    /\ rcall[p] = "posting"
    /\ rcall' = [rcall EXCEPT ![p] = "recorded"]
    /\ stubbed' = [stubbed EXCEPT ![p] = @ \union {dispatches[p]}]
    /\ UNCHANGED <<xnchVersion, pc, session, attempt, seen, sent, vcall, submits,
                   dispatches, authorised, executed, result, passOutcome>>

\* 401 TOKEN_EXPIRED, or any other refusal; the runner does nothing.
RunnerRefuses(p) ==
    /\ rcall[p] = "open"
    /\ \E reply \in {"expired", "rejected"} :
          rcall' = [rcall EXCEPT ![p] = reply]
    /\ UNCHANGED <<xnchVersion, pc, session, attempt, seen, sent, vcall, submits,
                   dispatches, worldVars, result, passOutcome>>

-----------------------------------------------------------------------------
PassStep(p) ==
    \/ Interpret(p)
    \/ LoadContext(p)
    \/ FilterOptions(p)
    \/ SelectAndCompile(p)
    \/ SubmitVerdict(p)
    \/ ReceiveVerdict(p)
    \/ VerdictRefused(p)
    \/ VerdictLost(p)
    \/ ReloadContext(p)
    \/ Dispatch(p)
    \/ ReceiveExecution(p)
    \/ ExecutionLost(p)
    \/ RecordStubOutcome(p)

Next ==
    \/ XnchAdvances
    \/ \E p \in Passes :
          \/ Begin(p)
          \/ PassStep(p)
          \/ Cancel(p)
          \/ XnchDecides(p)
          \/ XnchRefusesStale(p)
          \/ XnchFails(p)
          \/ RunnerAccepts(p)
          \/ RunnerRefuses(p)
          \/ XnchRecordsOutcome(p)

\* The event loop runs every ready task, and every awaited call has a timeout
\* (10 s on both clients, 30 to 60 s on the model's): a pass keeps moving.  xnch
\* and the runner owe nothing.
Fairness == \A p \in Passes : WF_vars(PassStep(p))

Spec == Init /\ [][Next]_vars
FairSpec == Spec /\ Fairness

-----------------------------------------------------------------------------
(* Properties.                                                              *)

\* A decision acts on the world at most once: of its execution_refs at most one
\* was taken by the runner or given a stub outcome, and never one of each.  The
\* second dispatch of run.py, the ConnectError branch of dispatch.py and calls
\* served after their timeout could each break it.
OneEffect ==
    \A p \in Passes :
        /\ executed[p] = {} \/ stubbed[p] = {}
        /\ \A j, k \in executed[p] \union stubbed[p] : j = k
        /\ executed[p] \union stubbed[p] \subseteq {dispatches[p]}

Refusals == {"ESCALATED", "CLARIFY", "HTTP_503", "HTTP_422", "HTTP_409", "HTTP_502"}

\* A pass that ends in an escalation, a clarification or one of run.py's HTTP
\* errors has done nothing and never will, however late the runner answers: the
\* callers (session_start, the goal driver) may safely ask again.
RefusalHasNoEffect ==
    \A p \in Passes : result[p] \in Refusals => executed[p] = {} /\ stubbed[p] = {}

StatusOf(r) ==
    CASE r = "EXECUTING" -> "EXECUTING"
      [] r = "ESCALATED" -> "ESCALATED"
      [] r = "CLARIFY" -> "CLARIFICATION_REQUIRED"
      [] r \in {"HTTP_503", "HTTP_422", "HTTP_409", "HTTP_502"} -> "ERROR"
      [] OTHER -> "uncounted"

\* The outcome counter agrees with what the callers got: every pass that ended
\* in a status is counted once, under that status, on every exit path.
MetricsAgree ==
    \A s \in Statuses :
        passOutcome[s] = Cardinality({p \in Passes : StatusOf(result[p]) = s})

\* "Retry once": a pass calls /verdict at most three times (first, stale retry,
\* token) and /execute at most twice, the second time only with a new token.
CallBudget ==
    \A p \in Passes :
        /\ submits[p] <= 3
        /\ dispatches[p] <= 2
        /\ dispatches[p] = 2 => attempt[p] = "token"

\* The stale retry carries a version that xnch published after the one it
\* refused; a retry with the session's old version could only be refused again.
RetryCarriesFreshVersion ==
    [][\A p \in Passes :
          submits'[p] # submits[p] /\ attempt[p] = "stale" => sent'[p] > sent[p]]_vars

\* Every pass that starts ends, whatever xnch and the runner do.
PassTerminates == \A p \in Passes : pc[p] = "interpret" ~> pc[p] = "done"

\* The effect of a pass and the answer of its caller, as EffectContract sees them.
EffectOf(p) == ({"run"} \X executed[p]) \union ({"stub"} \X stubbed[p])
AnswerOf(p) ==
    IF result[p] = "none" THEN "none"
    ELSE IF result[p] = "EXECUTING" THEN "executing"
    ELSE IF result[p] \in Refusals THEN "refused" ELSE "unknown"

\* The pass implements its contract: at most one authorised effect, no effect
\* behind a refusal.
Contract == INSTANCE EffectContract WITH
    Refs <- 1..2,
    effect <- [p \in Passes |-> EffectOf(p)],
    answer <- [p \in Passes |-> AnswerOf(p)]
ImplementsContract == Contract!Spec

-----------------------------------------------------------------------------
(* What the documentation says and the code does not do.                    *)

\* README.md:31, "xnch POST /verdict is authoritative": a pass whose verdict is
\* BLOCK escalates.  The verdict of the token resubmission is not looked at.
BlockEscalates ==
    \A p \in Passes :
        result[p] # "none" /\ Blocks(seen[p]) => result[p] \in {"ESCALATED", "CANCELLED"}

\* README.md:31 and 227: a stale version leads to one retry with a fresh
\* context, then to HTTP 409.
StaleEndsIn409 ==
    \A p \in Passes :
        result[p] # "none" /\ seen[p] \in {"stale", "stale_hidden"} =>
            result[p] \in {"HTTP_409", "CANCELLED"}
=============================================================================
