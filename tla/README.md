# A verification project for agintor

`agintor` builds and runs "harnesses": composite agents that call model
providers and tools under hard ceilings, are published by a factory as immutable
releases, and continue their work in sessions. An older generation of the same
program evolves single runtimes, runs them in child processes or containers and
resumes them from checkpoints. These modules model the parts of it in which an
order of events nobody tested could lose a charge, a release, a message, an
effect or a piece of evidence. TLC checks small instances; TLAPS proves, for every
instance, what is said of the ledger and provider calls, of the two transaction
stores, of branch groups, of the effects of a run and their reconciliation, of
composite runs, of solve commands, of factory builds and of isolated evaluations.

The source has no tests and no prose documentation beside its docstrings, so
every definition is read off the code, and what the code *promises* is taken
from docstrings, error types and the validators of its records.

## 1. Inventory

Paths are relative to `src/agintor/`. The last column names the modules.

| Component | State it keeps | Operations | What makes it correct | Modules |
|---|---|---|---|---|
| Budget ledger, `runtime/kernel/composite_budget.py` | totals, open reservations, violations, unknown events; one lock | reserve, cancel, complete, snapshot | open reservations and spending never overcommit a ceiling; accounting failures are remembered | **BudgetLedger** |
| Provider controller, `composite_provider.py` | per call: reservation, deadline, worker thread, queue | `call` | one settlement per dispatched call, no late charge, no success on bad accounting, every call ends | **ProviderCall** |
| Replay and live providers, `openai_responses_provider.py`, `composite_replay_provider.py`, `providers/` | requests under way, counters, a transcript | invoke, cancel, record, replay | a live call is reported as what happened to it; a replay is its recording | **ProviderAdapters** |
| Composite runtime, `composite_runtime.py`, `composite_artifacts.py`, `repair_tools.py`, `runtime/api/composite_compiler.py`, `runtime/evidence.py` | stages, turns, artifacts, receipts, working copy | compile, run, call, tool, verify, assemble evidence | what compiles runs; artifacts are delivered and read; success means a verified patch; the books agree | **CompositePlan**, **CompositeRun**, **RunEvidence** |
| Factory transactions, `storage/harness_factory_transaction.py` | chat, messages, staging, WAL, lock file | create chat, follow up, recover | one linear durable chat; readers see committed data only | **FactoryTransaction** |
| Releases, `factory/harness_release.py`, `runtime/sdk/harness_release_loader.py`, `bundle.py` | `releases/<digest>/`, `active_release.json` | build, validate, place, advance, load | what is loaded is a whole release that somebody published | **HarnessRelease** |
| Harness sessions, `storage/harness_session_store.py` | session manifest, messages, WAL, lock file | create, context, append, recover | a result is appended directly behind its context; no fault loses or doubles a message | **HarnessSession** |
| Solve, `cli_v1.py`, `runtime/sdk/harness_entrypoint.py`, `harness_executor.py` | workspace, evidence, result | solve, continue a session | a session's message is an eligible result of its own release | **HarnessSolve** |
| Branch execution, `runtime/kernel/branches/`, `branching.py` | branch states, snapshots, pool, futures, event | execute, resume, run branch, apply | one result per branch; a failure stops the siblings; a resume is accounted | **BranchGroup** |
| Checkpoints and side effects, `checkpointing/`, `side_effects.py`, `tooling.py`, `storage/run_store.py` | envelopes, index, LATEST, receipts, files of the workspace | publish, choose, restore, reconcile | work known is not lost; an effect happens once | **CheckpointStore**, **EffectRecovery** |
| Kernel shell, `shell.py`, `memory.py`, `memory_graph.py` | long-term graph, scope, runtime events | run task, reset, restore, fork, record event | memory stays in its scope; events of an attempt are kept and traced | **KernelShell** |
| Runtime host, `runtime/host/` | run directories, child processes, containers | batch, solve, resume, finalize | every unit ends as it went; nothing of a container's paths stays | **RuntimeHost** |
| Tools and isolation, `isolation/`, `runtime/tools/` | commands under way, recordings, trees | run, cancel, record, replay | a pass is earned; a replay gives what was recorded | **CommandReplay**, asynchronous tools in **EffectRecovery** |
| Factory service, `factory/harness_service.py`, `harness_replay.py` | search evidence, provenance | build, replay | a release names the search it came from | **FactoryService** |
| Paired search, `search/paired_harness.py`, `harness_mutator.py` | incumbent, panels, decisions | propose, compare, retain | decisions chain and improve; dependencies cover the protocol | **PairedSearch** |
| Evolution search, `search/engine.py`, `archive.py`, `evaluation/evaluator.py`, `progress_oracle.py` | archive, ledgers, candidate directories | step, validate | what enters the archive was earned and stands on disk | **EvolutionSearch** |
| Runtime factory, `factory/followups.py`, `pipeline.py`, `export.py` | project directory with runtime, chat, sessions | build, follow up, solve | one chain of messages with the runtimes they name | **RuntimeFactory** |
| Isolated evaluation, `evaluation/harness_service.py`, `storage/proof_records.py` | proof records, links, lock file | evaluate, append | an answered outcome is filed, linked and reproducible | **EvaluationService** |
| Pilots, `evaluation/pilot.py`, `readiness_entrypoint.py` | audits, dry runs, packets | plan, pack, replay | a packet is of one pilot | **PilotEvidence** |
| Live studies, `evaluation/gate0_runner.py`, `feasibility.py` | evidence directories | run, report, replay | what is filed is what came; nothing after a failure | **LiveStudies** |
| Oracle packages, `oracle/`, `evaluation/oracle_runner.py` | package files, QA report, ledger | compile, QA, load, evaluate | a score is earned claim by claim | **OraclePackage** |
| State index, `storage/state_store/` | SQLite rows, dirty mark | index, rebuild, query | quiet and clean, the rows are the files' | **StateIndex** |
| Plans and frames, `runtime/api/plan_compiler.py`, `plan_nodes.py`, `contracts/execution.py`, `kernel/loop.py`, `root_frame.py`, `operations.py` | plan, node status, artifacts, frame queue | compile, validate, run frames, merge, verify, finish, restore | what is accepted can be followed to its end; an answer is what its verify node approved | **PlanFrames** |
| The rest of `runtime/api/`, `contracts/`, `core/` | none | validate | pure validation, no shared state | where a component uses them |
| LangGraph and TradingAgents adapters | a third-party engine | adapt | semantics outside this repository | not modelled |
| Tracing, authority, the rest of the CLI | write-only records, role tables | | | not modelled |

Where the hard behaviour is:

- **Concurrency.** Threads share a ledger, a branch group, an index. Processes
  share project directories through lock files, some through nothing at all, and
  readers take no lock.
- **Failure.** Most stores write several files per operation. An exception
  removes the lock file and leaves the rest; a kill leaves the lock file too. A
  file filled under its final name can be torn by a kill.
- **Cancellation, deadlines, resumption.** A call given up goes on in its worker;
  a resume concludes from files what an earlier process did.
- **Ordering.** Both write-ahead logs of the stores are never truncated: every
  operation replays the whole history.
- **Stale reads.** A factory reads the head, `solve` its context and the active
  release, an evaluator the pointer, minutes before they write.

`PROJECT.json` lists the hazards at their lines with the properties that guard
them.

## 2. How the project is built

The modules were written in the order of what they protect: money
(BudgetLedger, ProviderCall), published history (FactoryTransaction,
HarnessSession and the AppendLog both implement), branches; then runs and their
effects (CompositeRun, RunEvidence, CheckpointStore, EffectRecovery), whoever
produces and judges releases (PairedSearch, FactoryService, EvaluationService,
PilotEvidence, HarnessSolve), the boundary to the outside (ProviderAdapters,
CommandReplay, LiveStudies), and the older generation of the program (StateIndex,
EvolutionSearch, RuntimeFactory, OraclePackage, RuntimeHost, KernelShell,
PlanFrames).

Proofs followed in the same order: the ledger and the calls, the two stores and
the log they implement, branch groups with their accounts, factory builds and
evaluations, compiled plans with their runs, effects with their reconciliation,
solves, and the checkpoints of a run. What is left: the panels of PairedSearch, the
books of RunEvidence, `LineageIsWhole` of KernelShell, `PlansAreFollowed` of
PlanFrames and the rows of StateIndex.
`ProviderCall` and `CompositeRun` both use the ledger, the second by a reduced
copy; proving the reduction is a later step.

Modules meant for proofs use no RECURSIVE operator, keep parameters as CONSTANTS
with named assumptions and have one action per operation. The reserved total of
the ledger and the totals of a branch group (`TotalOf`), sums in the code, are
therefore cardinalities of sets of unit pairs, which the library's facts on finite
sets can add up.

**Suites.** Components that share no state are checked in one run: a variable
`which` says whose behaviour it is, the others stay in an initial state, and
each property of the suite is the conjunction of the properties that its modules
state under their own names, each about the instance that runs. `MCBoundary`,
`MCStores`, `MCBranches`, `MCRuntime` and `MCEvaluation` are such suites. A suite
extends the modules that theorems are about (which is also how TLC comes to evaluate
their assumptions) and has further instances of them and of the others with other
bounds: the extended instance is the factory store and the solo solve in `MCStores`,
the run evidence and the strictly resumed effects in `MCRuntime`, the evaluation and
the factory service in `MCEvaluation`. Where a module is extended beside another,
its `Init`, `Next`, `Spec` and `TypeOK` bear its name (`SolveNext`, `EffectInit`).
Their
state spaces add up and do not multiply. Symmetry is used for clients that no
module orders: processes, releases and nonces in the stores, branches in
`MCBranches`, evaluators and planners in `MCEvaluation`.

Operators commented as a *faulty variant* are plausible bugs in the operator
that follows them. They are used by nothing; substituted for it, each makes TLC
report the property that `PROJECT.json` names beside it.

## 3. Runs

| Run | Modules | What it asks | Bounds and why they are enough |
|---|---|---|---|
| `boundary` | BudgetLedger | does any order of reservations and settlements break a ceiling or forgive a failure? | four reservations, ceilings of one or two: every meter can be filled, overfilled by a report, and contended by two open reservations; two instants, before and at the limit |
| | ProviderAdapters | are live calls reported, and recordings replayed, as what happened? | two calls, which contend for rows and for the counters; every price schedule up to 1 |
| | CommandReplay | do verdicts over commands say what the commands did, live and replayed? | three commands of a runner (apply, public, sealed), two of a runtime that edits between them |
| | LiveStudies | is the evidence what came? | one gate0 run of four calls in two arms, the first of them the neutral one; two runs of two calls that share a root |
| | StateIndex | are the rows the files'? | a publishing and a filing thread, two checkpoints (the second repeats memory writes of the first), one failure, one kill |
| | EvolutionSearch | are decisions earned and archived runtimes present? | two steps over two objectives, three over one (a child of a child, and the same patch again), validation every second step (five in the code), budgets of 2, 1 and 1 |
| `provider_call` | ProviderCall | is every call charged once, in any race, and does it end? | two calls (contention needs two), one an estimated retry; a provider deadline before or past the wall limit |
| `stores` | FactoryTransaction, HarnessSession | is the published history linear, durable, readable without a lock, and an append log? | two processes, two releases, two messages; in the factory two faults: a fault inside the replay after a fault; in the session two messages with one fault, and one with two |
| | HarnessSolve | is every result and message accounted for while releases change? | one solve with two pointer moves (A, B, A) and one edit, or two solves of a session |
| `branches` | BranchGroup | does a group account each branch once, stop after a failure, leave a sound checkpoint? | two branches of two requests (the request after the late one must be stopped), two faults, three attempts: a resumption of a resumption |
| | RuntimeFactory | do overlapping follow-ups leave one chain? | two clients; three calls of which one copy fails, and two with a failed copy, a kill and a solve message |
| | OraclePackage | is a score earned? | two builds of one directory; seventeen packages, each lacking one thing that QA or the evaluator asks for |
| | PlanFrames | can an accepted plan be followed, and is its answer verified? | two operations side by side, alone or before a third, a chain, four tasks that are no plans, forty prompts; six frames, one resumption |
| `runtime` | CompositePlan, CompositeRun, RunEvidence | do compiled plans run, and are the runs accounted? | all protocols of three actors without tools; two with tools (a fork, a feedback), three tool calls |
| | CheckpointStore | does a run keep its work? | three attempts under either of two request ids, or two from any checkpoint; 3 or 4 instants |
| | EffectRecovery | do effects happen once, and does best effort get through? | plans of up to three nodes that put each kind of effect beside the one that is hardest to reconcile; up to three crashes, one edit |
| | BranchGroup | does a group end? | two branches of one request, two faults, two attempts, fairly scheduled |
| | RuntimeHost | does every unit end as it went, on either back end? | an invocation or an episode of two steps, two checkpoints, two calls, one kill; and a batch of three invocations |
| | HarnessRelease | is what is loaded a whole release? | two builds of whole releases, one of any, one load, one edit, two package versions, requests that are whole or cross one part of another |
| | KernelShell | does memory stay in scope, and are events kept? | two lone tasks, an episode of two, three runs (a resume of a resume), three moves |
| `evaluation` | PairedSearch | are decisions accounted for by their panels? | three tasks of which a protocol repairs two or three; three envelopes: a live one, one of two proposals a step, one whose proposals come again |
| | FactoryService | do releases name their searches? | two builders and a replay |
| | EvaluationService | are outcomes what was run? | two evaluators, two runs of a candidate, a release that changes, a kill or a failed write at any step |
| | PilotEvidence | is a packet of one pilot? | a child that packs whatever there was, two that pack the same, two planners of one pilot |
| `factory_pointer_regress`, `factory_stale_lock` | FactoryTransaction | violated, see below | as `stores` |
| `branches_reissue`, `branches_dropped`, `branches_artifact` | BranchGroup | violated, see below | two branches of one request, one fault, two attempts |
| `effects_async` | EffectRecovery | violated, see below | one asynchronous tool, one crash |

Deadlock checking is off: each program may stop (no clock left, every call
returned, the file left torn, nobody who resumes).

**Fairness.** `CallsEnd` takes weak fairness of the clock and of each call's
thread, which the scheduler gives a polling loop; nothing is assumed of the
worker or of whoever cancels. `WorkEnds` of the `runtime` suite is two such
properties, each of its own instance. `GroupEnds` takes weak fairness of each branch
thread and of the coordinator: threads get scheduled, and a provider call
returns or raises, which the providers' timeouts see to. `BestEffortGetsThrough`
takes weak fairness of the kernel's work, of a tool that ends, and of the user
who resumes a stopped run again; without the last nothing would happen after a
refusal, and the property is about refusals that would repeat for ever.

### Findings

- **The pointer regresses during replay.** `_recover_unlocked` advances the
  pointer and rewrites the chat for *every* transaction in the log, committed or
  not. With two committed messages every later publication first points
  `active_release.json` at the first release. Readers take no lock; a kill in
  that window leaves the old release active until the next replay.
- **A killed process locks the project.** The lock file names a process id
  that nobody checks. Publication and recovery then fail with "already has an
  active transaction writer" until the file is deleted by hand. The session
  store has the same lock.
- **A resume can repeat requests.** The refusal to reissue a launched request
  looks at the receipts of the branch's own context. When the eligible
  checkpoint holds no snapshot of any branch, the group starts again with empty
  contexts, and requests already sent go out again. `ReissueHasCause`, a part of
  `ResumeIsSound`, is what does hold: resuming from snapshots never repeats one.
- **A resume can drop a branch.** A branch still pending in the checkpoint is
  not submitted again when another one has a snapshot. The group returns
  without its output and the merge refuses the incomplete frontier.
- **A resume can lose an artifact.** A branch that completed before the kill,
  but whose group was not applied, has an unaccepted publication; the resumed
  group passes `None` for it.
- **A failed asynchronous tool counts as completed after a resume.** `wait_async`
  writes the result file also for a tool it judges failed; the reconciliation
  takes an existing result file for a completed tool.

Further observations are in the sections of their modules below: behaviours the
models contain, which contradict no sentence of the source or had no run left.

## 4. Modules

### BudgetLedger, ProviderCall

`totals` is `_totals`, `reservations` is `_reservations` numbered by
`_sequence`, `violations` and `unknown` are `_violations` and the two unknown
counters (the code only compares them with zero). `Reserve`,
`CancelReservation`, `SettleSent`, `SettleUnsent` and `SettleTool` are the
public methods, each under the lock throughout; `CanReserve` is the conjunction
of the checks that raise `BudgetExhaustedError`. `Covered` relates spending and
open reservations.

`phase` is the program counter of `CompositeProviderController.call`: checked
for cancellation, reserved, armed with a timeout, polling, answered, returned.
Ledger operations are the ledger's own actions, conjoined. The worker is free to
answer at any time, after the call returned, or never. `raised` is a call whose
`Thread.start` failed, which leaves its reservation open: the one leak, and
`ReservationsHaveOwners` says it is the only one.

### ProviderAdapters

Two calls to the live adapter, or to a replay of a transcript that two recorders
race to write. The controller may give a call up at any moment; the adapter
looks at that only at its checks. `LiveCallsAreReported` says that a result
names what was sent and what came back, and that the reserved cost bounds every
split of the input over the price categories; `ReplayIsTheRecording` that each
row is given at most once, in order, to the request it was recorded for, and
that a refused, stopped or repeated call consumes nothing. Prices are small
integers, payloads are data. The adapter's `cancel` does nothing, a recorder has no
caller in `src`, and a killed writer of a transcript leaves its temporary file.
While an abandoned call is in flight the provenance may already read
"completed"; the status is claimed only when nothing is under way.

### CompositePlan, CompositeRun, RunEvidence

`CompositePlan` compiles a protocol (actors, channels, a feedback channel) to
stages, calls, deliveries and context reads, as `composite_compiler.py` does, and
states the boundary checks of the runtime: `CompiledPlansRun` says that whatever
compiles is accepted and never meets a missing artifact. `CompositeRun` takes
one turn of one call per action, with the tool it asks for; workspaces and
patches are versions. `RunIsAccounted` is: every artifact is read by those it
was made for, a completed run has a verified patch that is the working copy,
receipts form a chain over the workspace, and success stays within limits.
`RunEvidence` assembles the evidence from plan, result, artifact store, provider
rounds, receipts and ledger, and compares each with the others. `BooksAgree`
says that they never contradict each other, with two exceptions that are real:
the runtime checks request ids within one call while the evidence wants them
unique over the run, and a tool call that the ledger refused leaves a receipt but
no charge. In both cases a finished run that was paid for ends in
`run_evidence_assembly_failed` and its result is never written. Response ids
must be present and unique too. Digests and identities that one component copies
from another are left out, as is `PartialCompositeRunObservation`, which nobody
constructs.

### FactoryTransaction, HarnessSession, AppendLog

Each file is a set membership, each write an action; `torn` holds files opened
and not filled. A message stands for its transaction. `lock` is the lock file:
free, owned, or an orphan of a killed process, which only an operator removes.
`Raise` and `Kill` may follow any step. In the factory a replay redoes every
transaction from the pointer on; in the session it redoes only the manifest,
and only when the manifest stands right before the message. That difference is
why a session's manifest never goes back (part of `StoresAreLogs`) and
`PointerOnlyAdvances` does not hold.

The abstraction of both is `AppendLog`: `log` is the sequence of commit records
(intent or commit), `shown` what readers are shown, `acked` the newest entry whose
call returned. So an interrupted call is either undone or finished by the next
one, nothing acknowledged is lost, and nothing is acknowledged that is not shown.
`HistoryIsSound` is the linear chain, visibility and counting of one factory's
messages; `WritersAreCurrent` that a writer follows the head it named and
returns settled; `SessionIsSound` the same for sessions.

A torn prepare or commit record stops every later replay (`ReplayTorn`,
`ReplayFails`), and the first access to a session id that does not exist creates
its directory, so a later `create_session` of that id is refused.

### HarnessRelease

A release request is an identity graph; a generation is the function from its
files to their contents and is its own name, as digests are. The builder copies
the kernel file by file, writes the rest, and validates staged, placed, after
placement and before the pointer advances; a loader follows the pointer and
reads pointer, manifest, digests, typed files, artifacts, pairs and kernel one
after another. Meanwhile the package may be upgraded and one file of a release be
changed. `ReleasesAreWhole`: what is placed and untouched can be loaded, what is
loaded is one release that somebody requested, the pointer names whole
generations. What it does not say, because it is not so: the *builder's*
validator compares the kernel's paths with the installed package, so after an
upgrade that changes the set of files an old release cannot be advanced again
(`Again` fails), and since a publication replays the whole log, a project then
cannot publish any more; and a copy made during an upgrade that keeps the set of
files mixes two versions undetected. A change reverted within one load is not
noticed. The wording of manifests and the scans for secrets and absolute paths
are data; two builders of one release are in FactoryTransaction.

### HarnessSolve

One solve command reads the active release four times without a lock (command,
choice of the kernel, adapters, executor). A session pins the release, so only
a pointer that moved away and back can mix kernel and adapters of another one:
`since` records the moves. `SolvesAreAccountable`: a result stems from the
release it names, or from a pointer that moved in between; a message of a
session is an eligible result of its own release. A replay that was not consumed
exactly leaves an eligible result on file although the solve is refused; the
property claims exactness for session messages and live results only. A killed
child may leave evidence without a result, an abandoned one still persists, and
the loser of two solves of a session is paid for, on file and refused. Its
evidence step abstracts assembly: a refusal ends like a kill.

### BranchGroup

`mem` is the part of the parent's `context.state` that the branches share under
`persist_lock`: branch states, resume snapshots (`held`, `snap`), the candidate
publications as the branch state and as the common list know them (`own`,
`listed`) and the calls charged to the run (`spent`). Every publication of a
checkpoint is a copy of it; `disk` is the latest resume-eligible one. `pc` is the
program counter of `_run_branch_plan` and, inside it, of `run_model_request`:
from `next` to `kept` a node records its launch, publishes, looks at the event,
sends, records the completion and publishes. `TakeResult`, `TakeUnrecovered` and
`TakeRaised` are the three ways a future ends; `Apply` is
`_apply_branch_group_results`. After a kill or a failed attempt
`RestoreFrontier`, `ResumeGroup` and `ExecuteGroup` are the three ways
`_run_root_frame` takes from the checkpoint. Branches are always resumed with
strict reconciliation, because the root frame passes no other policy. The
provider's `reconcile_request` is optional in the code and no provider of the
repository has it; the model lets it exist and find the requests that were sent.

### PlanFrames

The older kernel's plans, from a prompt or a task to the answer. `ToTask` is the
list of prompt templates, tried in order; `Compile` groups operations with equal
dependencies, gives each group a merge node on which whoever depends on a member
then depends too, and appends the verify node; `Valid` and `HostTakes` are the
validator and the preflight. The frames of the loop work the plan off: the root
frame whole (`single`), a frontier at a time, through child frames (`TakeVertical`,
`TakeChild`), or through a group of branches whose outputs wait in `workers` for the
merge node while their nodes already count as completed. Checkpoints hold the
frame that was running ahead of the queue; a resumption runs an interrupted node
again, takes its output from its receipt, or blocks it.

`PlansCanBeFollowed`: nothing runs that the request did not allow; a refusal has a
reason in the task or in the host's policy, so that well-formed tasks always
compile; no node starts before what it depends on or misses an input, merge nodes
never write an output nobody computed, and the queue only runs dry once the
terminal outputs are there and verified. `AnswersAreVerified`: a run that had to be
verified completes with exactly the snapshot its verify node approved, also after
kills. `broken` is where the code raises `HardInvalidation` for a plan that contradicts
itself. The inside of a group is BranchGroup and what a resumption learns about an
effect is EffectRecovery; here both are choices, as are the topology's mode and
children, the stop policy and the verdict, which are a runtime's own code.
Resumption inside a group, loops over retries of one node, subgoal progress, the
short-term graph and the values themselves are left out. Templates look at words
that a prompt has or has not.

### CheckpointStore, EffectRecovery

`CheckpointStore` has one action per file: envelope, index, LATEST, attempt and
run manifests, written by the host, the kernel, and whoever kills either.
`NothingKnownIsLost`: a run's resume point is never older than what its host knows
of; `FinishedRunIsTruthful`: what a finished manifest says of resumption is so;
`AnsweredRunResumesItsOwnWork` holds after a response even when the user resumes
from an older checkpoint, whose numbers the new attempt uses again. Observations:
eligibility stays lost within an attempt once a branch failed, an explicit
resume does not ask for it, `finish_run` writes on a manifest read before the
attempt (its `current_attempt_id` goes back). So the first two properties are about
runs that are resumed by their own reference only. TLC refutes both where a resume
may name its checkpoint: that is how a user leaves later work behind; and a
checkpoint whose files were never indexed can be resumed from by name, after which a
failed attempt leaves a manifest that says `failed`, not resumable, and names the
attempt before it, whose reference a resume would find. A kernel that outlives its killed
host is not modelled.

`EffectRecovery` is one root frame whose nodes are model requests, workspace
writes, service calls, synchronous and asynchronous tools. Each effect is
announced, performed, concluded; after a crash the receipts are reconciled with
what can be seen of files, processes and results, under the strict or the
best-effort policy. A checkpoint is one step there. `EffectsHappenOnce` and, for
the best-effort policy, `BestEffortGetsThrough` (in `WorkEnds`) are the properties;
`StrictPassesOverFailuresOnly` says what strict may skip. Read-only deployments,
provider reconcile hooks and explicit older resumes are left out.

### KernelShell

The shell a kernel runs its tasks in: the long-term graph with its write log, the
scope that decides whether memory survives into the next task, checkpointed and
restored shells, branch forks, and the numbering of runtime events over the
attempts of a run. `LineageIsWhole`: each write names the one before it on its
node and an edge is dead exactly if an end was tombstoned after it was made,
through resets, forks and restores. `MemoryStaysInScope`: no step of a task
without scored transfer sees memory of another. `EventsAreKept`: from the
restored cursor on no event file is overwritten and each event is in the trace
of its attempt. Two observations. A resumed attempt's events *before* its
checkpoint is restored are numbered from 1 and may overwrite files of the same
name. And a follow-up message seeded with the previous message's long-term
memory, which `_apply_session_seed` and `contracts/sessions.py:16` describe, is
refused by `validate_invariants` as soon as that memory holds a node, because its
task id is another one; `MemoryStaysInScope` allows that refusal for seeded runs
only. No caller in `src` passes such a seed. Policies (`dedup_candidates`,
`upsert_memory`) are outside `src`: one write naming the candidate or a node
that was shown. The short-term graph, the message board (which nobody reads),
predictors and tools are data; a branch's memory ends with its shell.

### RuntimeHost

Requests of invocations, grouped into units (episodes share a run), on the local
or the docker back end. A container writes its own paths ("box") into manifest,
index, LATEST and envelopes, and the executor rewrites one file after another
when it ended well. `HostIsFaithful`: units end as their steps went, what is
returned is filed, nothing foreign stays after a good end, work is kept, and a
runtime reads its own run. Where the code promises less, so does the property: a
container that ends with an error leaves its references in box paths, so its run
has no usable checkpoint, is failed or falls back to the newest row the host can
read; a host killed before the rewrite leaves a run that cannot be resumed by
reference; a unit missing from a batch response stays unrewritten; a resume never
scores with the host's private verifier; resuming one step of a paused episode
can mark the whole run completed; all results of a group get the first failure's
kind; concurrent inspections of one runtime share a directory and may fail each
other. Equal step indexes, which host and runtime order differently, are excluded
(`WorkIsKept` fails with them). Images, mounts, environments, mixed back ends and
a kernel that outlives its host are left out.

### CommandReplay

Commands with deadline and output limit in containers, the recorder beside them,
the replay backend, and the two clients: the evaluator's runner and the runtime's
tools. A tree is the set of what was done to it. `PassIsEarned`: what was given up
never counts as passed, and a passing check ran on the patched tree;
`ReplayGivesWhatWasRecorded`: verdicts over a replay are those of the recorded
run, and a runtime that makes the same edits gets through. A recorded timeout
(nonzero exit kept) is refused by the row validator, so its recording is off; if
the driver does not pass the tree after a command, the writes of the last one
are lost and a quarantined run replays as passed. A runtime with other edits may
still be answered. The recorder's driver is external. Undecodable output,
unfinished drains and the backend's cancel flag (no callers) are left out.

### LiveStudies

Gate0 builds in a directory of its own and renames it; D0 writes in place, each
file once. The properties say that a failure stops the study, that evidence is the run,
what is returned can be replayed, and a proof follows its report. Observations in
the model: any exception before gate0's rename erases evidence of paid calls; a
call whose executor raised, or that answered for another, is not filed; two gate0
runs of one root both pay and one is erased; a D0 baseline in which all or no
replicates repaired leaves no final report, and a kill leaves a partial root that
blocks reruns. Thresholds, authorizations and digests are data.

### StateIndex

One thread publishes checkpoints, one files receipts; each writes its file, then
indexes it; a failure marks the index dirty, the next connection rebuilds. When
all is quiet and no mark is missing, `IndexFollowsFiles` holds. Excused, as
`unsure`: a mark that another thread made while a rebuild ended is removed with
it, and a writer killed between file and index leaves a row missing. The queries
have no callers in `src`. Order of rows and the tombstone flag of edge rows are
left out; attempts, events, fingerprints and recoveries are handled like receipts.

### PairedSearch, FactoryService

A protocol is a function from source paths to small values. `SearchIsAccountable`:
decisions form a chain of which each edge improves by the margins, panels are of
the right protocols, dependencies cover what was changed, and the records add up.
Ties are broken to any child with the most repairs; reversion has no callers.
Regressions against the *founding* protocol may accumulate over edges.

`FactoryService` has builders that search, publish through a store that walks the
pointer over the whole log, and read the pointer without its lock.
`BuildsAreTraceable`: a message's release is the end of a search founded on its
parent, and a replay is exact, except where the founding read crossed a walk
(`crossed`). The result's pointer and the replay's provenance may name another
builder's release. Dry runs are left out.

### EvaluationService, PilotEvidence

Evaluators read the active release, bind evidence to it, run the checks on a copy
and append to a store of proof records under its lock file.
Record and outcome link are both written by `_write_once`, so both are opened empty
(`OpenRecord`, `OpenLink`) and filled in a later step (`FillRecord`, `FillLink`).
A kill in between leaves a torn file and the lock; a failed open, write or fsync
(`WriteFails`, or a filled file whose append is dropped) leaves it with the lock
removed. The store's manifest is a file of the same kind, of the same bytes in every
append, and has no variable: whatever refuses an append for its sake is `WriteFails`
at the record. `OutcomesAreSound`: a link is only made of a record that is whole,
so a whole link resolves; what a caller was told is linked by a whole link; outcomes
reproduce; and a candidate has one outcome unless evaluations overlapped (scans
are unlocked). It is not said that whatever is filed is linked: an append that was
cut short leaves a filed outcome with a torn link, on which `lookup_outcome` raises,
or with none, and told to nobody. A torn record refuses all later evaluations; a
torn link refuses only the append of the same receipt.

`PilotEvidence` moves audits, dry runs and packets. `PacketsAreSound`: a packet's
parts are of one pilot, its session as planned, reports stand, one dry run per
pilot unless two planners overlapped (`raced`). Audits are pure values: an
unreserved audit can be reserved for two pilots, and `reserve`, `consume` and
`authorize` have no callers in `src`. A dry run refused at the final pointer
comparison stays on file and blocks its pilot id.

### EvolutionSearch, RuntimeFactory, OraclePackage

`EvolutionSearch` draws a parent, writes a child into a directory named after
parent and patch, takes it through the stages and keeps it or removes its
directory. `EvolutionIsAccountable`: decisions are earned, records are on file,
archived runtimes stand, ledgers are causal, phases keep their budget. The same
patch of the same parent re-creates and then removes the directory of an archived
runtime with the default artifact mode (`again`): a later step that draws it stops
the run. Nothing resumes a run, so a kill is no action. Predictors, credits,
contents of crossovers and saturation reasons are data.

`RuntimeFactory` is the older conversation that rebuilds one runtime in its
project; nothing is locked. `FactoryIsFaithful` says, until the first clash of
overlapping calls, that leaders are validated, messages keep their pin, the chat
is one chain, follow-ups evolve what they found, and the project is what its
chat names. Two follow-ups of one message both replace the project and the second
is then refused by the index check: its runtime stays. A failed copy deletes the
chat moved aside, a kill leaves it in `.agintor-preserve-*`. Spec-backed kinds
compile their seed from the goal, though the docstring of
`build_runtime_from_followup` speaks of a copied seed; so `FollowupsEvolve` is
claimed for policy modules.

`OraclePackage` compiles packages, puts them through QA, files, loads and
evaluates. `OracleIsEarned`, a part of the suite's `AnswersAreEarned`: a score is backed claim by claim, a passing audit is
whole, QA keeps its word, compiled packages are fit. Excluded from the third:
validators that QA tries on controls the evaluator never builds (a service's
final state, a patch receipt where only digests are given). An exact answer
speaks for all claims, so the audit may abstain while the score is full; a kill
can leave lock and sealed file of one build beside public file of another, and
`assert_package_lock_matches` has no callers. Families that are not compile-ready
(consent, trading, human audit and others) are left out.

## 5. Proofs

Assumptions are the named formulas of the component modules, which TLC evaluates
for the checked instances. They say that bounds are natural numbers; that marks of
what is absent (no release, no receipt, a free lock) are none of the values they
stand beside; of the ledger that provider reservations need exactly one model call,
and tool reservations exactly one tool call and no tokens or money; of the calls and
branches that they are finitely many and carry well-formed requests; of a run that the
tools it may install include the public test, whose limit always stands; of effects
that a plan is a sequence of kinds of effect. Nothing
else bounds the number of processes, releases, builders, evaluators, actors,
channels or tool calls; the counters of faults, messages and attempts in the guards
may be any natural number.

Each module proves one inductive invariant, with a lemma per action, and reads
the properties off it.

**ProviderCallProofs** begins with the ledger itself. `OnlyOverrunsBreakCeilings` is not
inductive alone, for three reasons, each a conjunct of `LedgerInv`:

- the reserved total is the cardinality of a set, which must be finite
  (`FiniteReserve`);
- a settlement frees a reservation and charges a report: that the charge is not
  larger, or recorded as an overrun, needs to know which meters can overrun
  (`OverrunsAreCharged`); calls, retries and tool calls never do, which gives
  `CallLimitsAreHard`;
- known cost is not covered by reservations made with an estimated cost;
  a healthy ledger is within that ceiling only because every settlement
  compares it (`KnownCostChecked`), which gives `HealthyWithinCeilings`.

`GrantAddsNeed` and `PopFreesNeed` compute the reserved total after one
reservation is added or removed; `SettlementCovers` is the common arithmetic of
the three settlements. `MonotoneAccounting` follows step by step from the same
invariant.

The second part is about any finite number of calls. `CallsUseTheLedger`
shows that the calls implement `LedgerSpec`: each step of a thread, a worker or
the clock is one operation of the ledger or leaves it alone. So every theorem about
the ledger holds of the concurrent calls too (`CallsStayWithinLimits` is one).
`LedgerInv /\ CallsTypeOK` then carries the calls' own properties:
`ReservationsOwned`, `EveryCallChargedOnce` (a settlement adds one to the total and
one call to the charged set), `AmbiguityRemembered` and `SuccessIsEarned`. Workers
answer with one of `Reports`, the all-unknown report included.

**FactoryTransactionProofs, HarnessSessionProofs.** `StoreInv` says what the
disk holds whoever writes or died writing (`LogInv`): the commit records are a
chain, at most one prepared transaction lies beyond it and would be its next
entry, only the newest entry may still be hidden, everything a replay reads
stands beside it. And it says what the holder of the lock knows of the disk at each
program counter (`Holds`). The lock is what makes this inductive: a killed writer
leaves it behind, so nobody enters before an operator has looked, and an exception
leaves every prefix of a publication that `LogInv` allows. From it follow
`HistoryHolds` and `WritersHold`, `SessionHolds` and `NeverRegresses`. `ImplementsLog`
is the refinement of `AppendLog` for both: the log is the function from 1 to the
number of commit records, so a commit appends (`IntentCommits`, `CommitCommits`),
placing a message or moving the manifest shows the next entry, a return
acknowledges, and every other step, kills and replays included, changes nothing of
it (`SameLog`). The minimum of a finite set of messages comes from the
library's well-founded induction.

**BranchGroupProofs.** `GroupInv` relates futures, results, shared state, latest
checkpoint, threads and requests sent: which futures may be in which state in which
phase (`PoolInv`), that a result stands for an end (`ResultsInv`), when shared state
and checkpoint are eligible (`SharedInv`), that a thread between a launch and the
end of its node has its progress in the shared state and, while nothing failed, on
disk (`ThreadInv`), and what the requests sent so far allow (`SentInv`, `LateInv`,
`CauseInv`). `ResumePointIsSound` is not inductive without `ThreadInv`: a checkpoint
taken by one branch must already know what another is about to send.

`ChargedOnce` says only that the run's budget never exceeds the requests sent, and
nothing about why. A branch's calls are held in several places at once, as the
resume snapshot, in the thread, in its future and in its result, and each kill or
merge moves some of them into the budget and forgets others. `AccountInv` therefore
splits the budget into one part for each branch (an existential, since the code keeps no
such parts): the part, together with any *one* place that still holds calls of the
branch, is covered by the requests the branch has sent, in memory and in the latest
checkpoint. Each merge moves exactly one place into the part (`TotalStepsUp`,
`TotalAdds`), and a resumption starts from a checkpoint of which the same was true
when it was written. `SendsHold` and `TypeCorrect` follow (the budget is a number
because it is a total). That totals add up and grow comes from cardinalities of
sets of unit pairs (`TotalIsNat`, `TotalGrows`, `TotalAdds`).

**ServiceProofs** has two parts. The invariant of factory builds is about one builder's record next to the
chat (`Sound`): since the chat only grows at its end, a step of one builder keeps
every other record sound (`SoundGrows`), and each action is looked at for its own
builder only. `BuildsHold` needs the consumed rows of a replay to be tied to the
answers given so far (`Played`), or an exact length would not make an exact replay.

For evaluations `EvaluationInv` gives what an evaluator has in hand its
history (`InHand`) and what it may rely on in the store (`Sees`), which rests on the
lock file as in the stores: only its holder opens and fills, so a torn file is either
its own or stays torn. `OutcomesHold` is the property of the run.
`OutcomesArePermanent` is an action property: no step changes a filed record or
removes a whole link. From both follows `AnswersStayFound`: once a caller was told
an outcome, it can be looked up for good, whatever is killed or fails later.

**CompositeRunProofs.** `CompiledIsAccepted` is about the compiler alone: the actors
are placed in rounds, no round between the first and the last is empty, and every
artifact is made in an earlier round than it is read, so that whatever compiles
passes every check of the runtime's boundary. `ScheduleIsSorted` is the flat
list of calls: a call's place is one more than the number of those before it. With these
`RunInv` is inductive: what is stored, delivered and read is what the schedule says
up to the current call (`Followed`), and beside it ledger and receipts
(`ReceiptsChain`, `Charged`, `Tested`). `CompiledRuns` and `RunsAccounted` follow.
The rounds are a recursive function. Its existence, and every induction over
rounds or positions, comes from `LeastElement`: the numbers for which the
formula at hand fails have a least one. So no induction theorem with an operator
parameter is used, which the provers could not instantiate.

**RecoveryProofs** has two parts, which share no state. The first is about one run of any plan over model requests, writes,
service calls and tools, stopped and resumed any number of times under any policy.
`EffectsHappenOnce` counts what happened in the world; what the kernel knows are
receipts in memory and those in the checkpoint, which lag behind. `EffectInv` ties them
together: where the kernel may be inside a node of each kind (`KernelInv`), that memory
is ahead of the checkpoint by at most the announcement under way (`AnnouncedInv`),
what a receipt of either says of the world (`TruthInv`), that nothing happened of which no
receipt tells (`FreshInv`), what a step inside a node relies on (`WorkInv`), and what is
never written where only strict resumes are made (`StrictInv`). Without `AnnouncedInv`
the crash between an announcement and its effect would leave any combination of the two.
`EffectsHold` states the run's property. The finding on asynchronous tools is outside
it: such a tool may fail and count as completed, and only its repetition is judged.

The second part is about the files of a run, for any request ids, attempts and
publications, and a kernel or a host that stops at any step. `StoreInv` says who runs
when (`PhaseInv`), what envelope, row and LATEST of one checkpoint say of each other
between any two writes (`FilesInv`), and that an attempt which answered names its own
newest checkpoint, in the response, the attempt's manifest and the run's
(`AnsweredInv`). It is inductive with resumes from any checkpoint too, and gives
`AnsweredHolds`. That nothing known is lost is not so simple: the instant of a
checkpoint does not follow its number, since a resume under a second request id takes
up the numbers after its own starting point while later rows of abandoned work remain. `RunInv`
therefore names a *floor*: a checkpoint at least as late as any that a kernel has gone on
from, which no reference a resume goes by falls behind, neither by number nor by instant,
and no row of a higher number by instant (`Floor`). What makes it inductive is that rows
reach at most one number beyond any of these references (`RangeInv`), so that the next
checkpoint to be published is the newest by number or equal to it, and then by instant.
Each checkpoint that is completed becomes the floor, a crash between its files leaves the old one.
`KnownHolds` and `FinishedHolds` are for runs that are resumed by their own reference
(`~Explicit`), as their properties are (Section 4). `WorkHolds`
states `RunsKeepTheirWork` for both.

**HarnessSolveProofs** is about any number of solves, in workspaces and in one session,
while the active release moves and release files are altered. No lock spans a
solve, so `SolveInv` says what its unlocked reads are still worth at each stage: before
the check, the count of moves tells whether the release it read is still active
(`Reads`); behind it, all it has read is one release's unless the pointer came back
(`Bound`); from the claim on it alone owns its workspace (`Owned`, `OwnersDiffer`), where
evidence and result are what the solve says (`DiskInv`); and the session's log holds one
result per version (`LogInv`). `SolvesHold` states `SolvesAreAccountable`.

Only model-checked:

- liveness (`CallsEnd`, `GroupEnds`, `BestEffortGetsThrough`): the prover has
  neither liveness under fairness nor ENABLED;
- `SearchIsAccountable` and `PlansAreFollowed`: their records and plans are computed by
  folds over sequences, of which the library states no fact and which need induction;
- the properties of the suites' other members, in the order of what a proof would
  add: `BooksAgree`, `LineageIsWhole`, `IndexFollowsFiles`,
  `AdaptersAreTruthful`, `CommandsAreTruthful`, `StudiesAreTheirEvidence`,
  `EvolutionIsAccountable`, `PacketsAreSound`, `FactoryIsFaithful`, `AnswersAreEarned`,
  what `HostedRunsAreFaithful` says of `RuntimeHost`, `HarnessRelease` and `KernelShell`
  (it also checks second instances of runs and effects, of which `WorkHolds` and
  `EffectsHold` are proved). `SessionIsSound` is the conjunction of the sessions'
  instances, of which `SessionHolds` proves each, and of a second instance of solves,
  for which `SolvesHold` does.

## 6. What is not modelled

Digests, prompts, summaries, timestamps and validation of single records:
a message or a report is a value, and where a validator can refuse one, the
refusal is an action or an outcome. Floats are natural numbers, without the
1e-12 of slack. Loss of power (a directory entry that was never flushed) is not
modelled: a kill leaves on disk what was written. The replay order by file name
is modelled as numeric order, which it is below 10000 messages. In BranchGroup
publishing a checkpoint is one step, a resume starts from the latest eligible
checkpoint, the parent's plan leads to the same branches when a group is
executed again, and provider requests are the only side effects. The pool of
alternative providers (`providers/failover.py`, `retry.py`) belongs to the older
kernel and is left out, as is the apportionment of budgets among branches. The LangGraph and
TradingAgents adapters hand control to an engine outside this repository;
tracing and authority write records and hold tables; sandboxes and mounts are
the operating system's. Section 4 names what each module leaves out of its own
component.
