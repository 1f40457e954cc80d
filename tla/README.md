# Formal model of nexi

TLA+ specifications of nexi, the decision service that turns a request or a goal
into at most one vetted action, together with TLC instances that check them and
TLAPS proofs about them. Paths such as `pipeline/run.py` are relative to the
repository root. `PROJECT.json` maps every definition to the lines it models.

## The system

nexi is one Python process with one asyncio event loop. Code between two awaits
runs alone; at every await any other task may run, a call may time out, and the
process may be stopped. Nothing in it holds a lock, and it persists nothing
itself but two generated files; its memory is xnch (control plane, verdicts,
goals, workflow steps), Redis (recalled intents) and the execution runner.

| component | state it keeps | operations | talks to |
|---|---|---|---|
| pipeline pass (`pipeline/run.py`, `dispatch.py`, `context_loader.py`) | the session's state version, the verdict, the execution token | one pass per `POST /session/start`, per goal step and per workflow step | xnch `/memory/read`, `/policy/check`, `/verdict`; runner `/execute`; xnch `/execution/outcome` |
| decision core (`policy_filter.py`, `evaluator.py`, `selector.py`, `plan_compiler.py`) | options, dry-run answers, scores, decision record | filter, score, simulate, select, compile | called by the pass |
| goal driver (`goal/driver.py`) | `_consecutive_step_errors`, the goal it holds | claim, step, update | xnch GoalStore; a pass |
| workflow executor (`workflow/executor.py`) | the step it holds | claim, step, post the outcome | xnch step store; a pass |
| capability refresh (`main.py`, `capability_builder.py`, `infra/discovery.py`, `persona_builder.py`, `prompt_loader.py`) | `_capability_state`, two generated YAML files, the elapsed time | periodic task, `POST /nexi/refresh`, `GET /nexi/capabilities` | probes, xnch's tool list, disk |
| intent interpreter (`intent_interpreter.py`) | entries in Redis | `interpret`: scan, rule, recall, model, guess | Redis, language model |
| option generator, model adapter (`option_generator.py`, `model_adapter.py`, `model_router.py`) | none | own call, chain of models, templates | language models |
| outcome callback and reflector (`main.py`, `reflector.py`) | the tasks it has started | `POST /callback/outcome`, reflection task | xnch memory, language model |
| cold start seeder (`cold_start_seeder.py`) | identity facts in the episodic store | read, then insert what is missing | PostgreSQL |
| proactivity engine (`proactivity/engine.py`) | pending events in Redis | evaluate, queue, `get_pending` | Redis |
| prompt assembly (`context_assembler.py`, `prompt_loader.py`) | `_STABLE_CACHE` | `assemble_context`, `get_nexi_system_prompt` | the seeder's store, the overlay, the engine's queue |
| evaluation harness (`eval/`) | none | grade recorded cases | - |

How they interact: a pass calls the interpreter, reads a context, generates
options, runs the decision core, asks xnch for a verdict and hands the action to
the runner. The two loops call a pass with a session of their own and report its
result to xnch. The runner's outcome reaches xnch, which moves the goal on and
calls nexi back; the callback writes the prediction's error and starts a reflection.
The refresh publishes through a module-level dict and files that prompt rendering
reads, with the facts the seeder stored and the events the engine queued.

What is hard about it:

- several passes, refreshes and interpretations are suspended at the same time
  and use what they read before the await;
- every call can be refused, fail, or time out *and still be served later*;
- the two loops hold leases nobody renews, and report with messages that name no
  lease, so an old report is taken for a current one;
- counters and caches are in memory, so a restart forgets them;
- what is read from a store in several steps (SCAN, read-then-insert) changes
  between the steps;
- errors are caught far from where they arise, and many exits count themselves
  by hand;
- scores, weights and ties decide which action is taken.

The hazards list of `PROJECT.json` names each of these at its line, with the
properties that cover it. For every component the properties that make it correct
are listed with its module below.

## Modules

| module | what it is | instance | proofs |
|---|---|---|---|
| `EffectContract` | what a pass promises: at most one authorised effect, none behind a refusal | as a property of `PipelinePass` | `PipelinePassProofs` |
| `PipelinePass` | the pass, xnch's verdict and the runner | `MCPipelinePass` | `PipelinePassProofs` |
| `DecisionCore` | filter, scores, ranking, record, plan, for any list of options | as a property of `Planning` | `DecisionCoreProofs` |
| `Planning` | where the options come from: models, chain, templates; composed with `DecisionCore` | `MCPlanning` | `DecisionCoreProofs` |
| `GoalDriver` | the goal loop and xnch's GoalStore | `MCGoalDriver` | `GoalDriverProofs` |
| `GoalPasses` | the goal loop composed with the passes it runs, each one of `EffectContract` | proved, see below | `GoalDriverProofs` |
| `WorkflowExecutor` | the workflow loop and xnch's step store | `MCWorkflowExecutor` | `WorkflowExecutorProofs` |
| `WorkflowPasses` | the workflow loop composed with the passes it runs | proved, see below | `WorkflowExecutorProofs` |
| `CapabilityRefresh` | refresh task, requests, files, restarts | `MCCapabilityRefresh` | `CapabilityRefreshProofs` |
| `IntentCache` | the interpreter and its cache | `MCIntentCache` | `IntentCacheProofs` |
| `OutcomeFeedback` | the callback, its write, its reflection, the end of the process | `MCOutcomeFeedback` | `OutcomeFeedbackProofs` |
| `IdentitySeeder` | syncs of the identity facts | part of `PromptContext` | `PromptContextProofs` |
| `PendingEvents` | the queue of the proactivity engine | part of `PromptContext` | `PromptContextProofs` |
| `PromptContext` | prompt assembly, composed with the two above and with refreshes of the overlay | `MCPromptContext` | `PromptContextProofs` |

Each module's operators named `X_Something` with a comment `Defect:` are variants
of `X` as a plausible bug would have it. No specification uses them; they exist to
show that a property notices the bug.

### PipelinePass and EffectContract

`pc` is the await a pass is suspended at; an action is the code from one await to
the next, with every exit and its `record_pass_outcome`. `vcall` and `rcall` are
the open `/verdict` and runner calls: a caller that gives up (`VerdictLost`,
`ExecutionLost`) leaves them open, so that xnch and the runner may serve them
after the pass ended. `attempt` says which of the three `submit_verdict` calls of
`run.py` is under way: the first, the stale retry or the resubmission of an expired
token. xnch may answer anything, may refuse a stale version (shown in the
exception's text or not, constant `StaleShown`), and moves its version at any
time. The synthetic SUCCESS of `_record_stub_outcome` is an effect of its own kind.

Properties: `OneEffect`, `RefusalHasNoEffect`, `MetricsAgree`,
`RetryCarriesFreshVersion`, `ImplementsContract` (the refinement: `effect` is what
was executed or stubbed, `answer` classifies the result) and `PassTerminates`;
`CallBudget` is a theorem, and so is what the contract gives its clients
(`EffectIsFinal`, `RefusalIsTrue`).

### DecisionCore and Planning

The synchronous middle of a pass. Scores and weights are hundredths and
composites ten-thousandths, which is what `round(composite, 4)` leaves of inputs
with two decimals; that rounding joins close composites of finer inputs is left out.
An answer of the dry-run is taken to be about the option it was asked for: the code
finds the option by the id that xnch echoes. Options are taken from a pool as the generator returns them,
xnch's dry-run gives any of its five verdicts, and MODIFY may replace the spec (but
not the action type or the payload hash, as in the code). The ranking is stated
by its order (`Before`), the stable descending sort of the code. Scoring raises, and the
pass with it, for an option without an action type, for an intent without an entity
class - both may be empty strings, which `compute_context_signature` refuses
(`Signable`) -, for weights that lack a key, and for a score or a composite outside
[0, 1].

`DecisionCore` lets the options be any list; `Planning` says where they come from, and
is shown to implement it. `DirectCall` is the generator's own request, which cannot
be sent: the template of its prompt has unescaped braces, `format` raises KeyError,
and the handler around it goes on to `ModelAdapter`. Then the models of the class's
chain are asked in turn (`ModelAnswers`, `ModelFails`; without a key each fails at
once), and the templates end it (`FallBack`). `phase`, `chain` and `path` are the
place in `generate_options`, what is left of `fallback_chain`, and the
`GenerationPath` that is returned. `classify_request`, which stands before the handler
and whose result is not used, belongs to xnch and is taken to return.

Properties: `SubmittedIsVetted`, `Undominated`, `NormalisedScores` (with sound weights
and outcomes, only a missing signature makes scoring fail), `FallbackIsSafe` (a pass
without a model is harmless, and its plan compiles if there is a target) and `ImplementsCore` (the
refinement). `SelectionPossible` and `RecordAgrees` are theorems.

### GoalDriver and WorkflowExecutor

Each is one serialized loop against an external store. A pass appears as what
`EffectContract` promises: a refused pass has no effect, a failed one may have had it
or still have it (`loose`), and an executing one has had it, unless the runner was
out of reach. Then `dispatch_execution` answers EXECUTING with at most a synthetic
outcome: for the goal loop, which waits for an outcome, this is `StepDefers` (recorded
late or never, hence `loose`); for the workflow loop it is `StepDeferred`, a step that
is reported as SUCCESS and that no runner executed (`deferred`). Several passes of a
goal or step may be left behind at the same time, so that one of them acting does
not end the doubt (`LoosePassActs`).

Updates and outcomes the loop gave up stay under way (`posted`, `late`) and are applied
at any later time or never. Leases lapse at any time, also under the loop, because
nothing renews them. A restart (`Stop`, and what it leaves of the pass under way)
empties what the process held in memory. Variables marked "history" only serve the
properties. `PassReturns`, `PassRaises` and `PassNeedsClarification` are the loop's
part of the end of a pass, without what happened in the world; the compositions below
use them with real passes.

`WorkflowExecutor` starts with `wired` either way: `main.py` starts the loop without
the arguments its default `execute_fn` needs, while the tests pass an `execute_fn`.

Properties of the goal loop: `NoOverlap`, `StoppedStaysBlocked`, `RetriesBounded`,
`NoEndlessFailure`; of the workflow loop: `EndIsWhatHappened`, `DoneWasDispatched`,
`FailedIsEarned`, `EveryStepEnds`.

### GoalPasses and WorkflowPasses

The two loops say what may happen while they wait for a pass; the compositions say
that this is what the passes do. `GoalPasses` EXTENDS `GoalDriver` and has an
`EffectContract` of its own, with a set of passes. `owner` is the goal a pass was
started for. An action of the composition is one of the loop, of the contract, or of
both: `Starts` is the claim with the start of a pass, `Acts` is an effect of a pass,
under way or long over, `Ends` is a pass that answers together with the loop's handling
of the answer, `Stops` is the end of the process together with the pass under way.
What the loop's model counts or guesses is computed from the passes: `owed` is the
number of passes of a goal whose effect xnch has not heard the end of, `loose` the
goals with a pass that is over and may still act; in `WorkflowPasses` `loose` and
`deferred` are the steps with a pass that was given up, or answered EXECUTING, without
an execution.

What is shown of each: the composition implements the loop's module
(`ImplementsDriver`, `ImplementsExecutor`) and the contract (`ImplementsContract`). Since
`PipelinePass` implements the contract (with two references per pass), nothing the
two loops' modules assume of a pass is an assumption about the code any more. Further
properties relate the passes of a goal or step to each other, which the loops' modules
cannot express: `OneEffectPerStep`, `EndIsAPass`, `OneUnderWay`, `StartsAfterOutcome`.

Composing them corrected the two modules: a pass that answers EXECUTING without the
runner, and a second pass left behind by the same goal or step, were missing in both.

No run of the list below checks the compositions, as their theorems cover every
instance. The invariants and refinements were checked with TLC before they were proved,
with 1 step, 1 retry, 3 passes and 1 restart (215,903 states), and with 1 goal, limit
2, 3 passes and 1 restart (2,018,426 states).

### CapabilityRefresh

What there is to see is a version of the world that only grows. A description is the
sequence of versions its parts were read at, in `seen[r]`: the topology when the
refresher sets out, then, one await each (`Answer`), every service, xnch's tools
and, for the persona, the inference backend. So one description may spread over
several states of the world. The persona is built by the same refresher right after
the capabilities.

The write is three steps, with the temporary file as a variable (`tmp`): `Open`
empties it, `Fill` fills it, `Rename` puts it in the place of the overlay. None of
them awaits, so no other refresher of the process moves in between (`Free`), and
those that build the same description can share one temporary name. The disk may
refuse each step (`WriteFails`), the build may raise at any await (`BuildFails`), and
the process may die and start again between any two steps (`Crash`), any number of
times. A crash of the process keeps what it wrote; the code calls no `fsync`, and
what a crash of the machine leaves of a file is not modelled.

Properties: `OverlayWhole` (no reader sees a part of a file), `StepBackOnlyByOverlap`
(for each part), `ServedEventuallyFresh`, `OverlayEventuallyFresh`; `PublishedInOrder`
and, for the task alone, `AloneNeverBack` are theorems.

### IntentCache

Texts, their keys (`strip().lower()`), the rules' answers and the injection scan
are constants, with the assumption that the rules ignore case as the key does.
A request that finds nothing waits for the model; meanwhile others go on. A call of
Redis is different: the client is synchronous (`redis.Redis.from_url`, line 32) and has
no `socket_timeout`, so that between `LookUp` and its end, or `SendStore` and `EndStore`,
nothing else in the process moves (`Free`). Redis may refuse any call, which the code
survives, or fall silent for good (`FallSilent`): then the call does not end, and the
process stands still. `overtaken` and `blind` record which waiting requests decide on
outdated or missing information.

Properties: `CacheAgreesWithRules`, `AnswersAreOwn`, `MeaningIsStable`,
`EveryRequestEnds` (whatever the model does; a silent Redis is the one exception);
`RulesDecide` is a theorem.

### OutcomeFeedback

Each callback is one request of xnch with one of the bodies the handler tells
apart: a prediction that is not a number (`Break`, a 500), no episode (`Skip`), ids or
an actor that cannot be read (`Misread`), or a write (`Post`). The write is applied by
xnch (`Apply`) and then answered (`Record`), or nexi gives it up after its timeout
(`GiveUp`), before or after xnch applied it; what was given up stays in `late` and
may be applied at any time. `Answer` is the code after the write, which does not
await: the counter, the start of the reflection and the reply. `Close` is the
shutdown, which closes the client once the requests are answered and does not know
of the reflections; `Stop` is the end of the process at any point. Two callbacks
about one episode are two elements of `Callbacks` with the same body.

Scores are hundredths. The flag compares floating-point numbers: a prediction of
0.70 of a success is off by 0.30000000000000004 and flagged, one of 0.30 of a
failure is off by 0.3 and not; `EarlyFlag` keeps the difference.

Properties: `RecordedStands` (a recorded error is only replaced by a callback that
was not recorded, with its own), `LessonIsItsOwn` (at most one lesson per callback,
never before its answer), `CallbackAnswered`; `RecordedIsThere` is a theorem.

### PromptContext, IdentitySeeder and PendingEvents

`IdentitySeeder` stores what a limited read did not find, one row per step; syncs
overlap, an insert may be applied without an answer, and the process may stop in
between. `PendingEvents` queues the events of an evaluation under fresh keys, which
lapse (`expires_at`) and are evicted by Redis separately. `PromptContext` EXTENDS both
and adds the readers: `Assemble` loads facts, takes the cached prefix or renders it
with the overlay of the moment (or none, when the file cannot be read), and begins
the scan; `Scan` and `Get` are the awaits of `get_pending`; `Refresh` replaces the
overlay as `CapabilityRefresh` does, and `Restart` empties the cache. `Queue`, `Drop` and `Age`
are the queue's actions with what they mean for the scans under way.

The overlay in a prefix is the one there was when the prefix was rendered, and a
refresh does not reach it. The repository says contrary things about that (see
below), so no property claims what overlay a prompt shows.

Properties: `PromptIsSound` (a prefix of the facts asked for, the same for all prompts
with the same inputs in one life of the process, and every event that was pending
throughout the scan), `DuplicateOnlyByOverlap` (a stored fact is stored again only
by a sync that another overtook with it or that could not read every row; failures
and restarts alone never do).

## What TLC checks

| run | instance | distinct states | what it shows |
|---|---|---|---|
| `pipeline_pass` | 2 passes, versions 0..2 | 385,874 | effects, answers, counters, refinement, termination |
| `planning` | up to 3 options of 5 kinds from a model, the templates of 3 classes, 5 contexts | 673,642 | what is submitted was vetted and is not dominated; what makes scoring fail; the fallback is safe; refinement of the core |
| `goal_driver` | 1 goal, limit 3, 2 executions, 1 restart | 54,076 | overlap, blocking, bounded and ending retries |
| `workflow_executor` | 1 step, 2 retries, 2 late outcomes, 1 restart | 19,177 | what DONE and FAILED mean, every step ends |
| `capability_refresh` | the task and 1 request, 1 service, 1 change; any number of failures and restarts | 953,436 | files stay whole, stale reads are overlap only, freshness |
| `intent_cache` | 2 requests, 5 texts, 2 keys | 159,456 | what can be recalled by whom, when a meaning changes, what keeps a request from its end |
| `outcome_feedback` | 2 callbacks, 2 episodes, 7 bodies | 19,870 | what a recorded error and a lesson are worth, every callback ends |
| `prompt_context` | 2 prompts, one with the engine, 2 syncs, 2 keys, 2 facts, 1 refresh | 599,592 | prefixes are own and shared, no pending event is missed, when a fact is stored twice |

Why the bounds are enough:

- Two passes are the fewest that share the outcome counter, which is all that
  passes share; the passes touch no other common state. Version 0 is the empty
  version of a session, 1 and 2 let the first submission be stale and the retry as
  well.
- Three options give a ranking a first, a second and a rest; the pools hold options
  that tie, that differ in one score, and that lack a type or a target; the contexts
  have sound, heavy and malformed weights, and one has no entity class.
- The loops treat goals (steps) independently, as the code's dict does: one is enough for the
  properties of one, and the theorems cover any number. Limit 3 is the
  default of the setting; two executions are the fewest that overlap; a single
  restart separates two lives of the process.
- One change of the world distinguishes stale from fresh. `Period` 2 distinguishes
  probes that write from those that do not. One request beside the task is the
  fewest that overlap. With one service a description of the capabilities has three
  parts, read at three moments. Failures and restarts have no bound.
- Two requests race for a key; five texts give each key two spellings and one text
  the scan does not pass.
- Two callbacks are the fewest that write to one episode. The seven bodies differ
  in what the handler branches on, and in outcome, prediction and the flag.
- Two prompts share a prefix, and one of them scans; two keys let one vanish while
  the other has to be shown, and let a batch hold both. Two syncs overlap. One fact is
  in the file and one was taken out of it. A sync reads two rows, where the code says
  200: both facts fit, so that a fact which an earlier sync stored, whole or broken off,
  is seen and not stored again; a duplicate of one of them makes three rows, and the
  reads are cut off from then on. An assembly reads one row, where the code says 20. Two
  copies are the fewest that show a duplicate. Syncs and keys are interchangeable, and this run checks
  no liveness property, so that their symmetry is sound.

Every bound is a constant of its module (`MaxVersion`, `MaxOptions`, `MaxOwed`,
`MaxCrashes`, `MaxRetries`, `MaxLate`, `MaxWorld`, `MaxCopies`, `Keys`) and
appears in a guard
or, for the counts of history, as a cap. Deadlock is checked except where the
system really stops: when all passes are over (`PipelinePass`), when the one pass is
decided (`Planning`), or in a call of a silent Redis (`IntentCache`).

### Fairness, and why the code justifies it

- `PipelinePass`: weak fairness of the steps of a pass. The event loop runs every
  ready task, and every awaited call has a timeout (10 s at xnch and the runner,
  the model's setting else). xnch and the runner owe nothing. The interpretation of
  the intent, before the first step of this module, is `IntentCache`'s; that it ends,
  and that no other request stops the event loop in a call of Redis, is presupposed
  here and in the two loops.
- `GoalDriver`, `WorkflowExecutor`: weak fairness of the loop's steps, for the same
  reason. `ReceiveClaim`, `XnchGrants` and the acceptance of BLOCKED and of outcomes
  are strongly fair, that is, xnch does not miss each of infinitely many requests:
  without it no client could get anything done. Leases run out, as both stores
  define them. Nothing says that a pass succeeds, that an outcome arrives, or that
  the process is restarted.
- `CapabilityRefresh`: strong fairness of the task's next step, and of that of each
  request under way, where a step may be a failed write. It is strong because a write of
  another refresher disables the step for a moment, again and again; the event loop
  serves ready tasks in turn. Every question to a service, to xnch or the backend has
  a timeout. No request, no change and no successful write is assumed;
  `ServedEventuallyFresh` and `OverlayEventuallyFresh` state what they need of manifests,
  disk and process as premises, on `trouble`.
- `IntentCache`: strong fairness of what a request does when it may run, and of the
  model's timeout (`Guess`), for the same reason: calls of Redis stop the others for a
  while. Weak fairness of the end of a call of Redis, which is enabled only while
  Redis is not silent. The model never has to answer, and Redis may fall silent.
- `OutcomeFeedback`: weak fairness of the end of a write, answered or given up: the
  client's timeout of 10 s ends it. Nothing is assumed of xnch, the model or the
  reflection, and the process may stop.
- `PromptContext` states safety only and assumes no fairness.

## Where the code and its documents disagree

Each of these is a run that TLC ends with a counterexample.

| run | what the documents say | what the code does |
|---|---|---|
| `block_escalates` | the verdict of xnch is authoritative | the verdict after an expired token is dispatched even when it is BLOCK |
| `stale_ends_in_409` | stale versions trigger a retry, then 409 | a stale refusal with an HTTP error status has a text without the word that the code looks for: 502, no retry |
| `over_limit` | a goal with too many errors is reported blocked | the counter is dropped first; a lost report starts the goal over |
| `step_without_pass` | each step runs through one full pass | started by `main.py`, the executor raises TypeError for each step until xnch gives it up |

Others were met while modelling; the models follow the code, and no run is needed to
see them:

- low confidence is said to escalate, but the confidence is recorded and compared
  with nothing (`selector.py`);
- the overlay is said to be written, and its event sent, on real drift only, but the
  time stamp is part of the compared text (`capability_builder.py:269`);
- a failed write of a prediction error is logged as "will retry", and a comment
  leaves the retry to the caller, but the caller is answered with ok
  (`main.py:238`, `:260`);
- the model is said to be selected by a budget as well (`model_adapter.py:93`), but
  the adapter only walks the chain of the intent's class;
- the generator's own call never happens (KeyError in its prompt, swallowed);
- the overlay in a prompt: the prefix is said to be "cached keyed on its inputs"
  (`prompt_loader.py:314`) and merged with "the live persona overlay" (`:75`), and
  `persona.yaml:4` has placeholders "filled at runtime from the live self-model"; but the
  overlay is an input that the key leaves out (`:57`-`:67`), so after a refresh a
  prefix that is cached shows the old overlay until the process is restarted (theorem
  `PrefixIsKept`). On the other side a stable prefix "changes only when the character
  config changes" (`:35`). `PromptIsSound` takes no side: it compares prompts between
  which the overlay was not refreshed;
- the shutdown uses `asyncio.suppress`, which does not exist (`main.py:138`).

## What is proved

All theorems hold for every value of the constants, from the named assumptions of
the modules (finite sets of passes and fields, positive limits, model values that
differ from data). No bound of an instance is an assumption of a proof other than as
an arbitrary natural number. Three kinds of theorems have a hypothesis of their own,
which says what they are about: those of `GoalPasses` that count passes are for finite
sets of passes (a process starts finitely many), `AloneNeverBack` is for no
`POST /nexi/refresh`, and `AloneStoresOnce` for syncs that do not overlap.

- `PipelinePassProofs`. The invariant `IInv` has four parts per pass. `EffectInv`: an
  effect sits with a pass that waits for the runner or ended without a refusal,
  and an open call excludes any effect - `OneEffect` alone is not inductive, since a
  late acceptance would join an earlier effect. `TokenInv`: no payload without a
  token. `BudgetInv`: the calls each attempt has used up. `FreshInv`: a stale refusal
  is about a version older than xnch's. From it follow type correctness,
  `OneEffect`, `RefusalHasNoEffect`, `CallBudget`, `RetryCarriesFreshVersion`, the
  counter's agreement (by cardinalities of the sets of finished passes) and the
  step simulation of `EffectContract`. `ContractPromises`: with it an effect of a pass
  is final and was authorised before, and a refusal is true then and later.
- `DecisionCoreProofs`. About `DecisionCore` and `Planning`. `CoreInv` says what
  each stage leaves to the later ones: what was kept and why (`FilterInv`), that
  composites are those of the scores (`ScoreInv`), that the selected option comes
  before every other (`DecideInv`) and that the submission is it (`SubmitInv`).
  `Undominated` needs monotonicity of the composite in every score for arbitrary
  weights; `SelectionPossible` is a pigeonhole argument on the ranking;
  `NormalisedScores` bounds a weighted mean: an option with a context signature can
  be scored. `Refinement`: whatever the chain of
  models does, it is one `GenerateOptions` of the core or a stutter, by the
  assumption that pools and templates hold options; with it the core's theorems
  hold of `Planning`. `FallbackIsSafeAlways` follows what stage by stage becomes
  of an option of the templates.
- `GoalDriverProofs`. `CleanInv`: a goal without doubt has at most one execution, and
  while it has one xnch holds it RUNNING. `StoppedInv`: an update that is under way
  is awaited or its goal is known to have a late one. `RetryInv`: hand-backs are
  at most the errors counted now plus Limit - 1 per earlier life of the process.
  About `GoalPasses`: `PassesInv` says that one pass is open exactly while the loop waits
  for one, that it belongs to the goal the loop holds, and that `owed` and `loose` are
  what the passes left; it is inductive with the types of both parts (`Joint`), by
  lemmas on what an effect, an answer and an outcome make of the number of passes under
  way. From it `DriverRefinement` and `ContractRefinement`, every step of the composition
  being one step, or a stutter, of each; so the driver's theorems hold of it
  (`PassesKeepTheDriver`). With `CleanInv` it gives `OneUnderWay`: no two passes of a
  goal without doubt are under way, and `StartsAfterOutcome`: the next one starts when
  xnch has heard the end of the last.
- `WorkflowExecutorProofs`. `CleanInv`: a step the loop never lost sight of has nothing
  under way behind its back and was dispatched exactly if it is DONE or about to be.
  `DispatchedInv`: every SUCCESS, late or not, is about an execution or a deferred pass.
  `EarnedInv`: every failure counted or still to be counted has a pass of its own.
  About `WorkflowPasses`: `PassesInv` as above; from it `ExecutorRefinement`,
  `ContractRefinement` and `PassesKeepTheEnds`. `StepInv` adds, for a step the loop
  never lost sight of, that no pass of it was given up, and that one pass answered
  EXECUTING exactly when xnch knows of it or is being told; from it `OneEffectPerStep` (the
  retries of a step do not execute it twice) and `EndIsAPass`.
- `CapabilityRefreshProofs`. `OneWriter`: at most one refresher is in a write, and
  `FilledIsWhole`: the temporary file it is about to rename holds what it read; from
  these `OverlayWhole`, which alone is not inductive. `ReadAfterSettingOut`: whatever a
  refresher has read is not older than its start; from it the action property
  `StepBackOnlyByOverlap`. `ReadInOrder`: the parts are read one after the other; from it
  `PublishedInOrder`: in what is served or on disk no part is older than one that is
  read before it, and none is ahead of the world. `ServedBefore`: what is served is
  not newer, in any part, than what the task is reading; from it `AloneNeverBack`:
  without requests no part that is served ever steps back, so the overlap that
  `StepBackOnlyByOverlap` names is one with a request.
- `IntentCacheProofs`. `AskingKnows`: a request that waits for Redis or the model has a
  clean text without a rule, and one that waits for the model, unless it is blind or
  overtaken, has an empty entry. `StoringKnows`: what is about to be stored fits its
  text, and unless Redis has already executed the SET the entry is still empty.
  `OneCall`: one request at most is in a call of Redis. From them the invariants and the
  action property `MeaningIsStable`. `RulesDecide`: an answer to a
  text with a rule is the rule's, of the text itself and not a guess.
- `OutcomeFeedbackProofs`. `WritesArePostable`: an update under way, or given up, is
  of a callback with an episode that can be read. `LateIsUnrecorded`: none of those
  given up was recorded; from it the action property `RecordedStands`. `WrittenIsThere`
  and `RecordedIsThere`: what xnch applied has left an entry. `ReflectionSoFar`: the
  place of a reflection says what lessons it can have left, a late one included; from
  it `LessonIsItsOwn`.
- `PromptContextProofs`. `MissingIsUnstored`: a sync that read every row and was not
  overtaken misses only what is not stored; from it `DuplicateOnlyByOverlap`.
  `CacheIsOwn` and `PrefixIsCached`: a prompt's prefix is the cached one of its
  facts. `UnlistedIsAhead`: an
  event not shown yet is still to be returned or still to be looked at; at the end
  of the scan nothing is, which gives `PromptIsSound`. `PrefixIsKept`: a cached prefix
  stays until a restart, with the overlay it was rendered with.
  `AloneStoresOnce`: without overlap only a cut read stores a fact again.

Only model-checked: the liveness properties (`PassTerminates`, `NoEndlessFailure`,
`EveryStepEnds`, `ServedEventuallyFresh`, `OverlayEventuallyFresh`,
`EveryRequestEnds`, `CallbackAnswered`), because proofs under fairness need
ENABLED, which the prover does not handle. No definition is recursive, so nothing rests on induction over
data.

## What is not modelled, and why

- Contents: the text of prompts, plans, personas, manifests and lessons, logging
  and timers. The properties do not tell them apart.
- Of the assembly of a prompt, the reads of turns, episodes, entities, lessons and voice,
  which are passed on; the order of observations and of facts, and the repetition of an
  observation whose key SCAN returns twice.
- The four rules of the proactivity engine: an evaluation finds any set of conditions.
  That a lasting condition is queued at each evaluation is how the model behaves, and
  nothing promises otherwise.
- How a model's answer is parsed: any list of options the parser can build.
- `GET /nexi/capabilities` serves the merged base before the first refresh and the
  raw capabilities afterwards; the model identifies the two.
- The simulation of step 8 is in the model as the stub it is in the code
  (`_project_state` returns False), so rescoring never takes place and no property
  says anything of its penalty.
- That xnch echoes the option_id it was asked about, and that composites of finer
  inputs may be joined by rounding.
- What a crash of the machine, rather than of the process, leaves of a file.
- The evaluation harness is an offline tool; endpoints, settings and records have
  no behaviour of their own. At shutdown `asyncio.suppress`, which does not exist,
  raises: a missing name needs a test, not a model.

## Plan

Done: the pass and its contract, planning and the decision core, the two loops and
their composition with the passes they run, the refresh, the interpreter, the outcome
callback, and prompt assembly with the seeder and the queue; their type and safety
theorems, and the refinements of the contract, the core, the driver and the executor.

Next, in this order:

1. An abstract "at most one execution per claim" that both loops refine, from
   `OneEffectPerStep` and `OneUnderWay`.
2. `CapabilityRefresh` as the writer of the overlay that `PromptContext` reads, in place
   of `Refresh`.
3. The rules of the proactivity engine, and the merge of manifests in the builder.
