# TLA+ models of hermes-mcp-bridge

The bridge is a Python MCP server. Its V1 part submits prompts to a Hermes API
and keeps a registry of executions; its V2 part adds governed lanes that change
things at providers (GitHub, and others behind a gateway) without asking a
language model: single mutations, merges, batches, DAG plans and runbooks. This
directory models the parts in which a mistake is costly and a unit test is
unlikely to meet it: what is written before a provider is called, what happens
when the answer is lost, who may try again, what is left after a crash, and what
a value that was checked is worth when it is used.

Source paths are relative to `src/src/hermes_mcp_bridge/` unless they begin
with `scripts/` or `docs/`, which are relative to `src/`.

## 1. Inventory

| Component | Source | State | Operations | What is hard | Correct when |
|---|---|---|---|---|---|
| Idempotency store | `v2/mutation_idempotency.py` | records by key, leases by lock key | begin, commit, fail_clean, mark_ambiguous, reconcile, purge_terminal | expiry of a lease whose write is still on its way; resolution by key only | one unresolved attempt per lock key; an unknown outcome is never forgotten or retried |
| Mutation executor | `v2/github_mutations.py`, `v2/github_mutation_registry.py` | none of its own; drives store, approvals, ledger, provider | execute (11 stages), reconcile_result | lost and late responses, cancellation at an await, one of several stores failing, a repository that moves between the read and the write | one write per key; what is sent was approved; evidence, record and provider agree |
| Approvals | `v2/mutation_digest.py` | approval records | issue, revoke, verify_and_consume, purge_expired | concurrent use, expiry, revocation | used once, for what it is bound to |
| Audit ledger | `v2/mutation_audit.py`, `v2/audit_chain.py` | open handles, sink files | begin, finalize | a sink that fails after writing; crash between begin and finalize | a durable record precedes every write |
| DAG engine and store | `v2/dag_engine.py`, `v2/dag_store.py` | checkpoint (SQLite), fence token, in-memory node states | admit, run, resume, compensation, save, acquire_lease, consume_approval | takeover of a live engine, tasks that outlive a raised run, crash between write-ahead and wave end, reconciliation | no node commits twice; only existing effects are undone; the report is true |
| Plan validation and transforms | `v2/dag_contract.py`, `v2/dag_validation.py`, `v2/dag_transform.py` | none | validate, sort, resolve, apply | types that flow along bindings and through transforms | dependencies come first; a validated argument fits its tool |
| Governed merge | `v2/github_governed_merge.py`, `v2/github_merge_executor.py` | as the mutation executor | gates, execute, read-back | gate results that are stale when the merge is sent | merged only what was reviewed |
| GitHub credentials | `v2/github_write_credentials.py`, `v2/github_app_mint.py`, `v2/github_secret_provider.py`, `v2/github_attestation.py` | secret files, attestation, readiness | mint, attest, probe, obtain | files replaced between two reads of them | what is probed is attested truly; material comes from a fit file for an allowed repository |
| Direct reads | `v2/github_canary.py`, `v2/github_direct.py`, `v2/policy.py`, `v2/projection.py` | none | route, check, read | credential replaced between readiness, policy and use | an answer out of scope tells nothing |
| Provider gateway | `v2/provider_gateway.py` and `v2/provider_*.py` | manifests, capability states, credentials, handles, approvals, idempotency outcomes, audit records | register, invoke, probe, rotate, revoke, resolve | a write whose result is refused, lost or not recorded, and tried again under its id or its key | an id and an approval let one write through; clients and the sink are told the truth; domains stay apart |
| Batch scheduler | `v2/batch_scheduler.py`, `v2/batch_contract.py` | process-wide capacity, per-batch results | run | time-outs, cancellation and fail-fast while tasks wait for the semaphore | capacity comes back; nothing starts after a stop |
| Runbooks | `v2/runbook_*.py` | registry of versions, execution records | admit, transition, invoke | crash between admission and record, races of one key | one run per key; no run without the approval its manifest asks for |
| Resolver, hybrid execution | `v2/resolver.py`, `v2/hybrid_execution.py` | escalation count and budget of a request | resolve, handle | proposals that widen what was asked | escalations are bounded; a denial runs nothing |
| Prompt flow, execution registry, prompt approvals | `server.py`, `registry.py`, `client*.py`, `prompt_approvals.py`, `approvals.py` | SQLite tables, key locks | submit, prompt, stop, request, decide, consume | cancellation at an await while a thread goes on | a retry finds the first run; an approval is used once |
| Waits, breaker, retry | `client.py`, `client_base.py`, `resilience/` | breaker state, queues of waiters | wait, poll, acquire, record | a broken stream, a deadline in any await, an open circuit | every wait ends and is told the truth |
| Run tracker | `resilience/events.py` | status and sequence of a run | observe, forget | late, repeated and reordered observations | a run moves forward only |
| Lifecycle | `lifecycle.py`, `http_runner.py` | in-flight registry | track, drain | shutdown with work in flight | drained means nothing in flight |
| Policy | `policy.py` | cached document | load, evaluate, enforce | a file that changes or breaks between two reads | what a preview answered is never weaker than what is enforced under the same load |
| Locks, plans, sagas, checkpoints, quotas | `locks.py`, `plans.py`, `sagas.py`, `checkpoints.py`, `quotas.py`, `resilience/recovery.py` | SQLite tables | acquire, heartbeat, release, reap; create, execute, advance | expiry against conflict check; approval read, then consumed on a thread | exclusive means exclusive; one delegation per approval |
| Secret rotation | `secret_rotation.py`, `_rotation_plans.py`, `_file_lock.py` | env files, saved files, tokens | plan, apply, roll back | crash between two files, two rotations of one file | the old value is kept, other keys are left alone |
| Backup and restore | `state_backup.py`, `state_operations.py` | database, -wal, copies, bundles | back up, checkpoint, restore, prune | crash between renames, a bridge that writes | what the database and its log held is somewhere; no log lies beside another database |
| Migrations | `migrations.py` | schema, ledger | apply_migrations | two migrators, a crash inside a script | the ledger is true of the schema |
| Acceptance gates | `scripts/v2_phase2_*`, `scripts/build_v2_phase2_final_evidence.py`, `v2/state_integrity.py`, `v2/control_activity.py`, `v2/tool_provenance.py`, `v2/shadow_witness.py`, `v2/final_gate.py` | files: measurements, evidence, witness, marker, baseline | measure, launch, collect, witness, build, judge | leftovers of an earlier run, a killed launcher, a database that is written meanwhile | an accepted verdict is about one run in which nothing changed |
| Result manifests, signing keys | `provenance.py`, `signing.py`, `secretfiles.py` | key files, window of the previous key | build, verify, posture | a key file replaced between the posture and the use of the key | only what was signed verifies; a retired key counts inside its window |
| Activation profile | `v2/production_profile.py`, `v2/composition.py` | immutable profile | from_env, without, disabled, builders | lanes that depend on one another | every accepted profile can be rolled back |
| Configuration, observability, protocol shapes, entry points | remaining files | settings, metrics | formats | none that interleaves | - |

How they interact: the executors call the approval store, the idempotency store
and the audit ledger synchronously and the provider through an awaited
transport; several executions run in one event loop. The DAG engine awaits an
executor per node under a semaphore and per-resource locks, and writes its
checkpoint to SQLite with a fence token; runbooks compile to DAG plans. The V1
tools run as coroutines that hand their SQLite work to threads, so that a
cancelled handler and its record part company. The gateway, the batch scheduler,
the rotation and the backup each have a store of their own. The acceptance tools
are separate processes that meet only in files.

## 2. Plan

Done:

1. `MutationIdempotency` with the abstract `RecordLifecycle`, and
   `MutationExecution` over it; `MutationIdempotencyProofs`.
2. `DagExecution` and `DagExecutionProofs`; `ProviderGateway` and
   `ProviderGatewayProofs`.
3. The V1 process: `PromptBridge`, `RunWait`, `Drain`, `RunTracker`.
4. The operations side: `PolicyRules`, `ResourceLocks`, `GovernedTools`,
   `SecretRotation`, `StateBackup`, `Migrations`, `ManifestSigning`, and the
   acceptance tools
   `StateIntegrity`, `ToolProvenance`, `FinalAcceptance`.
5. The rest of V2: `MutationRegistry`, `MutationCall`, `GovernedMerge`,
   `GitHubCredentials`, `ProviderDomains`, `DirectRead`, `BatchScheduler`,
   `PlanTransforms`, `PlanValidation`, `RunbookEngine`, `HybridResolver`,
   `Activation`.

6. Proofs of what the runs check: `MutationExecutionProofs` and
   `DagEffectsProofs` over the first proof modules; `BridgeProofs`,
   `OperationsProofs` and `V2Proofs`, one for each composition of lanes.

7. `EffectOnce`, what the three lanes that mutate providers have in common:
   `MutationExecution`, `ProviderGateway` and `DagExecution` implement it.

Left: a fenced register as the abstract specification of the checkpoint store, of
which `OnlyNewestWrites` states the main part.

## 3. Modules

### MutationIdempotency, RecordLifecycle

`records` and `leases` are the two dictionaries of `IdempotencyStore`, `now` the
clock that callers pass in. Each method takes the store's lock for its whole
body, so each is one action. `begin` is split by its answer: `BeginNew` (claims
key and lease), `BeginLeaseLost` and `BeginHolderLost` (an expired lease makes
the record AMBIGUOUS), `BeginRefused` (replay, in progress, locked, ambiguous).
`Resolve` is `_resolve`: only PENDING records, by key, with the lease table
popped by lock key. A key's digest covers repository, operation and target, so
the lock key is a function `LockOf` of the key.

`RecordLifecycle` is what callers rely on: a key is absent, pending, committed,
failed cleanly or ambiguous; it becomes pending only when no other key of its
lock key is pending; ambiguous is left only by reconciliation and never
forgotten. Leases, expiry and clock do not appear in it.

### MutationExecution

One execution is one call of `GitHubMutationExecutor.execute`; `pc` is the stage
it is in or how it ended. Actions are the sections between awaits: `Preflight`
(stages 1 to 4), `ConsumeApproval`, `ClaimKey`, `Revalidate`, `WriteAhead`,
`SendWrite`, `AwaitWrite`, `ReadBack`, and `Cancel` for a CancelledError at an
await. `WriteAhead` can also be refused by the intent's own checks, which run
outside the `try`: the key then stays PENDING. `Conclude` is `finalize` on the
ledger followed by the store; either may raise. The provider applies or rejects
a sent write at any later time, also after a timeout. `Crash` empties both
in-memory stores and keeps audit and provider. `ReconcileKey` is an operator
calling `reconcile`; with `CarefulOperator` only for keys with nothing in flight.

### EffectOnce

What a client may rely on in every lane that mutates providers, without engines,
tokens, intents or retries: an effect is attempted only when it is not there, is not
being brought about and was not undone, and when all it requires is in place; an
attempt takes effect or certainly never will; what is in place may be undone, and
then stays so. Each lane maps its own state to it with `EffectOf`: per node for
`DagExecution`, over the calls of all engines; per request id for `ProviderGateway`,
over the calls that carry the id; per idempotency key for `MutationExecution`, over
the executions with that key. Only the DAG has requirements (`DependsOn`) and
compensation. It says nothing of keys at the gateway: there the run
`provider_key_replay` shows that a key can be performed twice.

### MutationRegistry, MutationCall

`MutationRegistry` is the data that `MutationExecution` leaves out: the closed
argument sets of the two mutations, their normalisation, the contracts and their
checks, the class of each answer status, the policy rule, the digest (a record,
as injective as a digest is taken to be) and the checks of intent and
observation. `MutationCall` runs `execute` over it in a repository in which
others create, move and delete branches and close pull requests (`Elsewhere`):
what was asked, what the approval says, what is sent, which status comes back, and what
the read-back sees. GitHub's answer to the GET (`ReadBackCall`) and the section that
reports (`ReportCall`) are steps of their own, so others can move in between; `seen`
and `seenAt` keep what the answer said and how many moves came before it. Expiry and
crashes stay with `MutationExecution`.

### GovernedMerge

`execute` of the merge executor over `MutationIdempotency`. `Gates` is the
conjunction in `v2/github_governed_merge.py`: allowed base, readiness of the
pull request, green checks (`GreenByName` takes the first check of a name, as
the code does), reviews, protection. `Observed` is what the reads return and may
be out of date; `Push` moves the head, `GitHubActs` merges, refuses or
fails after merging, for the SHA that the PUT pins. A key stands for a head SHA,
since the digest covers it.

### GitHubCredentials, DirectRead

A token is its class, the repositories it is confined to and its permissions;
repositories in `Public` answer any token. `mint` writes first the token, then the
attestation; an operator may replace any file between any two steps, and `attester`
and `caller` read them more than once. The attester runs for an App or for a
fine-grained provider: for the former the probes compare what the installation
lists with what is attested, for the latter they only read each repository, and
permissions are the declaration's word in both (`ProbesAgree`). `DirectRead` routes a read through canary
readiness, scope, policy and material, each of which reads the credential file
anew.

### ProviderDomains

Manifests with their declarations and credential domains, registration until the
registry is frozen, credential records with rotation and revocation, and the
single-use handles with expiry. A capability id is the pair of provider and
name. `ProviderGateway` takes what these decide as given.

### ProviderGateway

A call is one call of `ProviderGateway.invoke`; a client that tries again makes
another call, under the same or another request id, key and approval. `invoke`
is synchronous and nothing else runs in it, so calls do not overlap (`Free`);
what can come between its sections is the provider and a restart. `Deny` is any
refusal of steps 1 to 6; `AdmitRead` and `AdmitWrite` pass them, the latter with
the approval consumed, the key looked up and the intent recorded; `Resolve` gets
the credential and calls the adapter; `Succeed`, `BadResult`, `TypedRefusal` and
`LoseTrack` are the ways the adapter ends, each with the terminal record. `EndAs`
is `_record` and the ledger's `append`: when it fails, `invoke` raises. `Probe`
is a health report given to `promote_configured` or `apply_health`. `Restart`
builds registry and broker again and keeps the sink, the approvals and the
idempotency entries, as the continuity tests do. Policy, scope and argument
checks may refuse any call. `effect` is external: a write that was sent may be
carried out at any later time. Of adapters two things are assumed: a typed
refusal other than the deadline means that nothing was done, and a result
reports the calls it took.

### DagExecution

An engine is a call of `admit` and `run`, or of `resume`. `ckpt` is the stored
row (fence token and node states), `eng[e]` the locals of the coroutine: phase,
node states, what each node's task awaits, the tasks that have no semaphore slot
yet, calls made, the abort flag. `call[e][n]` is external: what became of the
call of a mutating tool. `SaveAs` is `persist` with the store's fence test: with
a stale token the engine gets the exception instead. `NextWave` is one turn of
the loop of `run` up to `gather`; `StartTask`, `TakeLock` and `Execute` are
`guarded` and `execute` up to the call; `Succeed`, `Fail`, `LoseTrack` and
`Break` the four ways the call can end, the last being an exception that leaves
`run` while the other tasks of the `gather` go on (phase `raised`). `StartUndo`,
`FinishUndo` and `Report` are `_compensate` and the end of `run`;
`AcquireLease`, `Reconcile` and `ResumeRun` are `resume`. Results and effect
references are present or absent. `propagate` is given by its fixed point.

The reconciler is trusted as far as its contract goes: it answers "absent" only
for a node whose calls have neither committed nor can still commit.

### PlanTransforms, PlanValidation

The twelve transforms on typed JSON values, and the way of a plan document from
its shape checks through Kahn's loop (`PopReady`, one pop at a time), node,
binding and budget checks to the calls it makes with the values that were
resolved. Every called tool answers here, also with values that are not of its
declared type; failures of a run are in `DagExecution`.

### BatchScheduler, RunbookEngine, HybridResolver

`BatchScheduler` has one task per step between its awaits, the semaphore of each
batch and the capacity that batches share. `RunbookEngine` has the registry with
admission and transitions, and `invoke` in its sections: refusals, lookup,
approval, admission of the plan, the run (one step), the record, with a crash
between any two. `AdmitRunbook` is `RunbookRegistry.admit`, which validates nothing;
a row remembers whether its caller ran `validate_admission` before (`checked`). A
manifest has what it declares (`policy`) and what its nodes do (`mutates`), which
count separately, as in the code. `HybridResolver` is the mode tree of `ModeResolver.resolve` and
the coordinator around it; `Reason` is a reasoning step that proposes anything
the constant `Proposal` holds.

### PromptBridge, RunWait, RunTracker, Drain

`PromptBridge`: a handler of `hermes_submit` or `hermes_prompt` is at one of its
awaits (`pc`); what it put on a thread (`writing`) goes on when it is cancelled.
A run is named by the call that created it. `Restart` loses handlers and locks
and keeps the database. `RunWait`: the connected wait over server-sent events
with its bounded queue, the polling wait, the safe GET with its retries, and the
breaker they share; a deadline passes and a circuit cools at any moment.
`RunTracker`: `observe` with and without sequence numbers. `Drain`: registration at
any time, also during a drain, under keys that may collide; done callbacks that
clear a key whoever holds it; grace period, sweep and report. The history variable
`met` has the tasks that ran beside another of their key.

### PolicyRules, ResourceLocks, GovernedTools

`PolicyRules`: the document from environment, file or program, cached at first
use and read again by `hermes_readiness`; `HermesPolicyEvaluate` is the tool of that
name, `Preview` what it answers from a document, and `promised` the document of the
last answer until the policy is loaded again; `PolicyDecisionFromInputs` is
`_enforce_policy`, on whatever is in force by then. The other two have one action
per tool and start their tools with the decision of `PolicyRules`. Each lock
operation is one transaction, and a conflict rolls back what it reaped; the
approval of a plan is read, checked, and consumed on another thread.

### SecretRotation, StateBackup, Migrations

`SecretRotation`: token, file lock, one save and one replacement per file,
rollback, and a crash between any two. `StateBackup`: the database and its -wal
file are two files, each the set of writes in it or absent. A restore renames them
away, removes what is stale, replaces the database, removes what lies beside it, and
after a failure unlinks and renames back one file at a time and only those its
bundle has; it may die between any two of these steps. The bridge commits and
checkpoints as it likes, since it takes no lock: at a path without database SQLite
makes an empty one and drops a -wal file it finds there. `foreign` says that the
-wal file at the path was written over another database. `Migrations`: `executescript` commits, so each
statement and each row of the ledger is a commit of its own and migrators
interleave.

### ManifestSigning, Activation

`ManifestSigning`: one call of `build_result_manifest` or
`verify_result_manifest` at a time, in the steps that read a key file: describe,
posture, signature or comparison. `ReplaceKey` and the clock come in between.
A signature is the pair of what it is over and its key. `Activation`: the
profile of an environment, the switches that roll it back, and the engines built
while it was in force.

### StateIntegrity, ToolProvenance, FinalAcceptance

The runner measures the real database (`StateIntegrity`) before and after a
launcher, which prepares a disposable Hermes, runs the collector
(`ToolProvenance`), its gate and its witness. What is left are files (`paper`),
each stamped with the run that made it; builder and validator of the final
evidence are pure functions of these files, so `AcceptedIsTrue` evaluates them in
every state. Launcher, runner and unit may be killed at any step, and the
collector of a launcher that timed out goes on alone.

## 4. Runs

Components that share no state are put into one run, each in a lane of its own:
`lane` is chosen in the initial state and never changes, so their state spaces
add up and do not multiply. Only the initial values of a component outside its
lane are narrowed. Invariants over several lanes are conjunctions of the named
properties of the modules; each conjunct is stated and explained where it is
defined.

| Run | Configuration | Checks |
|---|---|---|
| `mutation_execution` | 3 executions of 2 keys of one branch, 2 approvals, lease of 1 tick, clock to 3 | `WritesAccounted`: approvals spent once, one write per key, committed means it exists, evidence and records agree with the provider |
| `mutation_crash` | 2 executions of one key, 1 crash, careless operator | `WriteAheadDurable`; `ExecutionsEnd` |
| `mutation_lock_race` | 3 executions with an approval each | *violated*: the lock key is not held for the duration of a write |
| `dag_execution` | fork of 3 nodes, 2 engines, 2 calls, 2 slots | `EffectsAccounted`: write-ahead rule, one effect per node, truth of the report; `ResourceSerial`; `RunsEnd` |
| `dag_takeover` | chain of 2 and a transform, 2 engines, denials | `EffectsInPlace`: the engines implement `EffectOnce`, only existing effects undone; `OnlyNewestWrites` |
| `provider_gateway` | 4 calls, 2 capabilities, 1 key, 2 approvals | `OneWritePerRequest`; `CompleteAudit`: every outcome has its record, and the one refusal without sends nothing; `GatewayAccounted`: approvals, replays, every write visible in the sink; `KeptKeyRests`; `ProbesOnlyDemote` |
| `provider_key_replay` | the same | *violated*: a key whose first outcome was lost is performed twice |
| `bridge_process` | 7 prompt calls in 3 groups, 2 waits, 3 tasks, sequences to 3 | `OneRunPerApproval`, `AnswersHold`, `TerminalIsTrue`, `MappingKept` of the prompt flow; `NoEarlyReturn` of waits; `DrainTellsTruth`: true for tasks that had their key to themselves, no waiting for ghosts; `TrackMovesForward`; `EveryoneReturns` |
| `prompt_cancel` | the same | *violated*: the mapping of a cancelled `hermes_prompt` is lost |
| `bridge_operations` | 3 lock owners, 2 plan calls, 2 rotations, 1 backup and up to 2 abandoned bundles, 2 acceptance runs, 2 migrators, 3 signing keys | `VerdictsHold`: what a preview answered is not weaker than what is enforced later (but for one label, section 5), signatures and key windows hold; `StateDbHolds`: locks exclude, the ledger is true; `DelegatedOnce`; `OldValueKept` and `RotationsKeepOthers`; `PreviousContentKept`: what a restore found is at the path or in a bundle; `LogsBelong`: no log beside another database; `AcceptedIsTrue` |
| `v2_components` | see below | `OnePendingPerLock` and `ImplementsLifecycle` of the store; `CallsHold`, `CommittedAsApproved`; `MergesHold`; `CredentialsHold`: scope of an attested App token, fitness of the file of handed material, hidden scope, separate domains; `BatchesAccounted`, `NoStartAfterStop`; `PlansHold`; `RunbooksHold`; `HybridHolds`: escalations bounded, every profile can be rolled back |
| `hybrid_approval` | the same | *violated*: a proposal executes a write under the approval of another plan |

Bounds. Two keys on one lock key and one on another are enough for contention,
takeover of the lock and independence; the lease lasts one tick, so a clock of
two or three ticks has expiry before, during and after a write. Three executions
are the smallest number in which one attempt is lost, one finds out and one goes
on. Two engines are one takeover; a third only repeats it (three engines on the
chain without the transform were checked once, 2.4 million states, without a
difference). Three nodes have a dependency, a sibling on the same resource and a
binding. The four calls of the gateway are a write, a second attempt under its
request id with a new approval, a retry under a new id with the same key and the
approval of the second attempt, and a read: every way of trying again, and a
capability of either kind for the registry.

In `bridge_process` the groups are two approved prompts and a submission of one
key, two submissions of one key with different content beside a denied one, and
two calls without key. The breaker opens at one failure, has one half-open slot
and closes at two successes, so that each threshold is passed and the slot is
contended; the event queue holds one item, so it overflows. Two of the three
tasks share a key, and one ignores its cancellation. Three sequence numbers have
a gap, a repetition and a reversal.

In `bridge_operations` three owners have two readers and a writer, or a holder,
an expired one and a newcomer. Two rotations of one file, of different keys, are
the least that can undo one another. A retention of none makes the
next backup with a generated name prune every other one. Two bundles left behind
are one of a restore that died and one of a restore that began on what that left;
two writes put one in the database and one in its log. The run reaches 1.4 million
distinct states. The second acceptance run meets every file that the
first one left, wherever that was killed; Hermes writes once in it. Scripts of
one, two and one statements give the migrators a place inside a script and a
place between scripts. Of three keys one is too short; two replacements and a
clock of one day put a rotation and the end of its window inside one call, and
the six environments have a good window, none, one too long, one malformed, one
without an identifier and one of a relaxed mode.

In `v2_components` three merges of a pull request with two heads (a third head
belongs to another lock) have a retry and a moved head; three batches of three
steps, one of them a dry run, share a capacity of two; three invocations of one
runbook key have a run, a duplicate and a changed plan, over a manifest that is
fit, one that only `RunbookRegistry.admit` lets in (it mutates and asks for no
approval), and one of the class MUTATING_HIGH (a fourth invocation, of a READ_ONLY
manifest with mutating nodes, was checked once in this lane alone, 1.5 million states,
without an error); of the two repositories of a token one is public,
and the attester runs for either type of provider; two escalations are one
more than the first proposal; three mutation calls at a time, in two groups
(branch, pull request and its repetition; the odd arguments, principals and
unready credentials), with one move of others at any point, from a repository
with its main branch, where the new branch is absent, right or at another commit;
two handles of one credential; every combination of flags with a budget of none, one and one over
the ceiling. The manifests, documents, declarations and plans are written in the
MC module so that the checks the properties rest on refuse one of them and pass
another.

`CHECK_DEADLOCK FALSE` is used throughout because all of these end: executions,
calls and runs conclude, bounds are reached, and nothing is left to do.

Fairness. `ExecutionsEnd` and `RunsEnd` assume weak fairness of the steps of an
execution or engine: every transport call carries `timeout_seconds`, and
executor, reconciler and compensator are such calls, so an await ends, with a
result or an exception. `EveryoneReturns` assumes weak fairness of `HandlerStep`
(the same, for the client's HTTP timeouts and the threads of SQLite) and of
`WaiterStep` and `Deadline`: the event loop runs what is ready, and time passes.
Nothing is assumed of the provider, of Hermes, of the operator or of anyone
calling `resume`.

## 5. Where documents and code part

Four runs are expected to find a violation; each quotes a docstring, README or
design document, and PROJECT.json has the lines: `mutation_lock_race`,
`provider_key_replay`, `prompt_cancel`, `hybrid_approval`. The statements below
do not hold either and are not runs of their own.

Mutations
- `v2/errors.py:78` says of `MutationDeniedError` "No provider call was issued
  and no state changed", but `AuditWriteError` and `IdempotencyConflictError`
  are subclasses of it, and `finalize` and `commit` (from
  `v2/github_mutations.py:820` on) raise them after a verified write; the refusal
  at `:799` follows a provider call too.
- `IdempotencyRecord` is "for exactly one mutation attempt", but an attempt whose
  lease expired and whose record was reconciled goes on beside the next attempt
  of the same key. The store's module docstring promises that a crash leaves an
  AMBIGUOUS record; the records are a dictionary of the process.
- The approval is consumed before the key is looked up
  (`v2/github_mutations.py:661`), so a replay costs an approval. A principal such
  as `a@b` passes the approvals and is refused by `MutationIntent`, outside the
  `try`: approval spent, key PENDING, nothing written. A wall clock set back
  makes `ProviderObservation` raise after the write, with the key PENDING.
- The POST of `create_pr` does not pin the head; only the read-back notices that
  it moved. The answer of the read-back is awaited: what others do between GitHub's
  answer and the report (`v2/github_mutations.py:571-604`, `:801-831`) makes a
  success stale, so `CommittedAsApproved` is about the moment of the answer.

Merge and credentials
- `approver` is asserted by the caller and not part of the digest; a request
  without one passes the gate for a distinct approver.
- `rotate` of the provider broker forgets the revocation before `register` may
  refuse the record (`v2/provider_credentials.py:210`), so a refused rotation
  brings the old material back. `revoke` does not touch handles that were minted
  before, while `docs/v2/phase9/failure-injection.md` F-09 wants in-flight use to
  fail closed. A read may be declared on the write credential.
- An attestation compares repositories of an App token only. Permissions are checked
  in the document and never at GitHub (`v2/github_attestation.py:485-495`), and the
  selection of a fine-grained token is `SETTINGS_ATTESTED_ONLY` (`:475-483`). A token
  with broader permissions that an operator put in place passes under an exact
  document. The write broker looks at the prefix of the material and not at what it
  may do: the attested permissions belong to the broker and not to the file.

DAG plans, batches, runbooks, hybrid requests
- `docs/v2/phase5/failure-semantics.md:27` against `v2/dag_engine.py:183`: a run
  ends FAILED with an effect in place. `docs/v2/phase5/compensation-and-saga.md:94`
  against `v2/dag_engine.py:755`: a compensation cut off by a crash leaves
  COMPENSATION_PENDING, which `resume` does not take up.
- `checkpoint-and-resume.md` says that two instances can never both dispatch the
  same node, and `scheduling.md` that mutations of one resource are never
  dispatched concurrently; both fail when `acquire_lease` takes over from an
  engine that is alive, because reads are not fenced and locks belong to one run.
  `OneEffectPerNode` holds all the same. `external_calls` restarts at zero in
  every run (`v2/dag_engine.py:463`), and a crash between `consume_approval` and
  `create` (`:278`) loses the approval.
- Batches: `failure-and-cancellation.md` closes admission on a denial and cancels
  steps in flight on a failure; the code does neither, and steps that were
  cancelled or denied never reach `governance.record`.
- `sort_by` orders integers by their decimal text.
- Runbooks: `_aggregate_policy_class` returns the declared class
  (`v2/runbook_admission.py:249-253`), while the policy document of phase 6
  (`docs/v2/phase6/policy-approval-and-destructive-actions.md`, lines 14 and 19-22) wants the strictest of
  the nodes; a READ_ONLY manifest with mutating nodes runs without approval, unless the
  governance that is injected per node, which denies everything by default, refuses.
  Nothing in `src/` calls `validate_admission` before `RunbookRegistry.admit`
  (`v2/runbook_registry.py:98`), which inserts any manifest; `RunbooksHold` therefore
  says what `invoke` does with any row, and more of a row that was validated.
- Runbooks: `invocation-model.md` resumes after a crash between admission and
  record, but `invoke` answers "duplicate execution"; a RESTRICTED runbook needs
  a single approval; runbooks of high blast radius can never run; `transition`
  allows any state after any other; a yanked version (A6-08) does not stop at the
  next node.
- Hybrid requests: the bound part of an agentic request and a runbook are not
  filtered by usability; proposals may repeat operations although documents say
  they are never recomputed, which also takes `deterministic_coverage` past 1.

Gateway
- `failure-injection.md` wants unknown outcomes surfaced after a restart; if the
  client repeats the request under its id and is refused before the intent, the
  record says REFUSED with no provider call, which is why `AuditShowsEffect` is
  about ids used once. An entry is found by its key alone
  (`v2/provider_gateway.py:452`), also for another operation.
- `v2/provider_audit.py:9-10` counts refusals among what is recorded, but a write whose
  intent cannot be recorded is answered with REFUSED, E_AUDIT_UNAVAILABLE, and has no
  record of its own (`v2/provider_gateway.py:492-497`). `CompleteAudit` names this
  exception and says that nothing is sent then.
- `audit-and-policy.md` lets a read pass when the sink is unavailable, but
  `invoke` raises then; `credential-isolation.md` moves a revoked capability to
  UNAVAILABLE, which no code does.

V1 and operations
- `hermes_status` and `hermes_stop` give `update_status` an execution id where it
  looks for a key, so no row changes. A wait that is cancelled in a half-open
  circuit keeps its slot, since `_send` catches `HermesAPIError` only.
- `manual_restart_required` is said to be False "exactly when the drain reached zero"
  (`lifecycle.py:91-93`), but a task that registers under a key in use takes its place,
  and whichever of the two ends first clears the key (`:50-61`); the other one goes on
  unseen. `DrainTellsTruth` is about tasks that never met another of their key.
- A trust label that cannot be parsed is UNKNOWN to the preview (`server.py:870-873`)
  and untrusted to enforcement (`:218-220`), so that the preview may say ALLOW where an
  approval is then asked for; `PreviewNeverWeaker` has this as its one exception. With the built-in policy the lock, saga,
  checkpoint and continue tools always ask for approval. No tool changes the
  status of a plan, so an approved execution is reached only by other users of
  the store; `hermes_continue` calls a method that does not exist.
- A restore that fails to make its temporary file, or half-way through moving the
  old files away, does not put the old database back, though its docstring restores "on any failure"; the
  bundle has it. If the process dies between the renames of the database and of its
  -wal file (`state_backup.py:417-424`), and the bridge opens the path, SQLite makes an
  empty database and drops the -wal file with what only it held. A failed restore whose
  bundle has no -wal file leaves a newer one beside the database it puts back
  (`:479-486`); one that began on a -wal file without its database puts that back beside
  whatever is there; and a bridge that opens the path between the replacement and the
  removal of what lies beside it reads the wrong log. `PreviousContentKept` and
  `LogsBelong` state what is left when these are excepted, each named in its formula. The rollback of a rotation restores whole files, with what later
  rotations had put there.
- `sign` reads the key again after the posture, so a strict bridge whose key file
  vanishes in between answers with an unsigned manifest and no error; an unsigned
  manifest verifies on its digest alone, as its comment says.
- Engines built before a rollback keep running: the profile is immutable and
  nothing tells them.
- `migrations.py:292` takes the script for one transaction; `executescript`
  commits. That every statement is idempotent keeps the result right.

## 6. Proofs

Every theorem is about all values of the constants that satisfy the named
assumptions of the modules, which TLC evaluates in the runs. All of them are
invariance or step arguments: an inductive invariant, one lemma per action that
it is kept, and for an action property what a step does in a state of the
invariant. Every inductive invariant was also checked by TLC on the instance of a
run.

`MutationIdempotencyProofs`, for all keys, lock keys, lease and retention times:

- `StoreInvariant`: `Spec => [](TypeOK /\ PendingHoldsLease /\ OnlyPendingLeased)`.
  This is the inductive invariant. `OnePendingPerLock` alone is not inductive:
  `begin` looks at the holder the lease table names, so the table has to name
  the pending key (`PendingHoldsLease`); and `_decide_existing` pops the table
  for a FAILED_CLEAN record with a lease, so such records must not exist
  (`OnlyPendingLeased`).
- `MutualExclusion`: `Spec => []OnePendingPerLock`.
- `Refinement`: `Spec => ImplementsLifecycle`; each action maps to an action of
  `RecordLifecycle` or leaves the outcomes unchanged.

Assumptions: `LockOf \in [Key -> LockKey]`, `NoKey \notin Key`, a positive lease
time (the constructor refuses others), natural retention and clock bound.

`MutationExecutionProofs`, for any executions, keys and approvals:

- `WriteAheadFirst`: `WriteAheadDurable` and `CommittedExists`, with any number of
  crashes and any operator. `DurableInv` says in which order the stages leave
  their traces (`Ordered`): nothing is sent before the record is open, a read-back
  is about an applied write, and the ledger's word on a write is true.
- `Accounted`: `WritesAccounted`, under `MaxCrashes = 0` and `CarefulOperator`, the
  configuration of `mutation_execution`. Both are needed: records and approvals are
  dictionaries of the process, so after a crash nothing stops a second attempt, and
  an operator who reconciles a key while a write is on its way frees it.
  `LifetimeInv` adds that whoever is past the approval has spent it and whoever
  was told "committed" finds it in ledger and store; `OnceInv` that an attempt
  which may still write is unresolved in the store and alone with its key, also
  when its lease has expired.
- `WritesOnce`: `ExecSpec => ImplementsWrites`, under the same two conditions, the
  refinement of `EffectOnce` per key. The step that matters is `SendWrite`: by
  `OnceInv` the sender is the only execution of its key that may still write, and
  none has.
- `StoreImplemented`: without a crash the executor uses the store through its
  operations only (`ExecSpec => Spec`), so the theorems of the store hold in it.

`DagExecutionProofs`, for every plan and any number of engines:

- `Fencing`: `Spec => [](DagTypeOK /\ FencesDistinct)`.
- `NewestWrites`: `Spec => OnlyNewestWrites`.

The inductive invariant `FenceInv` adds to the two that an engine in a phase that
saves has a token at all (`SaversFenced`: without it an engine with token 0 could
pass the store's test before the first checkpoint), and that nothing but fresh
nodes is stored before the first token. The argument: every action but `Create`,
`AcquireLease` and `ProviderCommit` is either `Quiet` (the checkpoint stays) or
`Saving` (an engine whose token is not behind writes what it has in memory); the
lemmas `QuietStep` and `SavingStep` are about these two forms, and `CoveredSteps`
shows which action has which. A token that is neither behind the store nor ahead
of it is the store's, and it is nobody else's. Assumptions: those on the
constants; the order of the plan and the budget play no part.

`DagEffectsProofs`, on top of it:

- `EffectsKnown`: `EffectsAccounted` (the write-ahead rule, one effect per node and
  the truth of the report).
- `EffectsPlaced`: `EffectsInPlace` (the engines together implement `EffectOnce`, and
  only an effect that exists is undone). `CallMoves` is what a step may do to a
  single call, `OneEffectMoves` that a step moves the effect of at most one node, and
  `EffectOnceStep` that it does so by an action of `EffectOnce`.
- `ResourcesSerial`: `ResourceSerial` within one engine.

`EffectInv` is built around `Tells(n, status)`: a status does not deny an effect
that exists or may come, SUCCESS has one, and a node that is rolled back gets no
further one (`Retracted`). One effect per node includes effects that were undone
since: a node that was compensated is not called again. The checkpoint tells the truth, and so does the memory of the newest
engine (`Informed`); an engine that was taken over need not, and its calls are why
`CallsAlone` is needed: while the newest engine calls, no older call of the node can
take effect, because `Reconcile` answered for them. `Shape` relates phase, tasks,
queue and node states of an engine. The reconciler's contract (section 3) is what
the proof rests on.

`ProviderGatewayProofs`, for any calls, ids, keys, approvals and capabilities:

- `OneWrite`: `Spec => [](GatewayTypeOK /\ OneWritePerRequest /\ ApprovalSpentOnce)`.
- `ToldTheTruth`: `Spec => [](CompleteAudit /\ ReplayIsTrue)`; the refusal without a
  record is covered by `NothingYet`: such a call never comes to the adapter.
- `KeptKey`: `Spec => KeptKeyRests`.
- `WritesOnce`: `Spec => ImplementsWrites`, the refinement of `EffectOnce` per request
  id.
- `GatewayAudited`: `Spec => []GatewayAccounted`.
- `Demoting`: `Spec => ProbesOnlyDemote`.

`OneWritePerRequest` says nothing of a write that is admitted and not yet sent,
so the invariant `OnceInv` is about writes that are `Onward` (on their way or
sent): each has left its intent and its approval behind (`Paid`), so no other
has the same (`Alone`), and `NewIntent` and `Bind` turn the next one away.
`ToldInv` adds that what is kept under a key took effect (`KeptIsDone`), that
calls do not overlap (`OneAtATime`), and hence that nothing is kept under the key
of a call between its lookup and the adapter (`NothingKept`). `ShownInv` adds that
a call whose id nobody else uses has no terminal record while it is under way,
so that the record it gets is its own. `Moves` and `DoneStays` say once how the
place of a call and the kept entries change. Assumptions: types of the constants,
and that the absent call, key and approval are none of the others.

`BridgeProofs`, each component on a specification of its own (`DrainSpec`,
`TrackerSpec`, `WaitSpec`, `BridgeSpec`), the last theorem on `ProcessSpec`:

- `DrainTruthful`: `DrainTellsTruth`. A running task is the one its key tracks, unless
  it has met another of its key; what is tracked runs; and two running tasks of one
  key have met. Registration is not restricted.
- `TrackForward`: `TrackMovesForward`, from `final <=> status is an end`.
- `WaitsPatient`: `NoEarlyReturn`. Needs that a terminal event is in a queue, and a
  final GET under way, only when the run is over (`WaitInv`).
- `ApprovedOnce`: `OneRunPerApproval`. Two calls can be past the gate on one
  approval, because a repeated prompt is let through; `ApprovalInv` says that one
  of them then `Follows`: its row exists, so it creates nothing.
- `EndsTrue`: `TerminalIsTrue`, by `TruthInv`: rows that call a run over are right.
- `RowsKept`: `MappingKept`.
- `AnswersRight`: `AnswersHold`, by `KeyInv`: one holder of a key's lock, no row
  while a run of the key is not recorded, and agreement of answers with rows as
  long as no cancelled handler left its record on a thread (`Attended`).

`OperationsProofs`, on `ToolsSpec`, `BackupSpec`, `RotationSpec`,
`AcceptanceSpec` and on the composition `OperationsSpec`:

- `OneDelegation`: `DelegatedOnce`; what was delegated was consumed for its call
  (`ToolsInv`).
- `RestoreKeeps`: `PreviousContentKept`, and `RestoredLogs`: `LogsBelong`, for any
  number of bundles. `BackupInv` follows the two files apart: between the first rename
  and the last one back each is at the path or in the restore's own bundle
  (`KeptHolds`), afterwards at the path or in a bundle left behind (`RestHolds`); while
  the bridge stays away no log lies at the path once it is moved, and the one in the
  bundle belongs to the database in it (`LogsOwn`).
- `OldValues`: `OldValueKept`, and `OthersStay`: `RotationsKeepOthers`.
  `RotationInv` says that whoever is at work has the file lock, that all files are
  saved before one is replaced, that a new value is nowhere before its file is saved
  (`NotYetOut`, also in what other rotations have read or saved), and that what a
  rotation at work has read of the other keys is what the file has.
- `StateDb`: `StateDbHolds`. `MigrationsInv` says that the ledger has no gaps and
  nobody is more than one migration ahead of it, which is why a statement that two
  migrators run is a repetition and never a reversal.
- `Verdicts`: `VerdictsHold`. What counts as promised is what is cached
  (`PromiseIsCached`, kept by every lane that uses the policy), and for one document
  the answer is no weaker than enforcement for any action, class and label but the one
  that does not parse (`PreviewIsStrict`); `SigningInv` follows a key from the posture to its
  use. The signing settings range over all those the constant has.
- `Acceptance`: `AcceptedIsTrue`. `AcceptanceInv` follows every file from the run
  that wrote it. The two stamps of a marker leave room for one collection only:
  evidence of an older run was started before the first look at the database,
  evidence of a newer one after the second, and evidence is started before it is
  finished (`StampsInv`, `EvidenceInv`, `MarkerInv`). A gate is of the last run that
  collected (`GateInv`), and the witness of an earlier run is removed before the
  hand-off (`RunnerInv`). Two looks with the same newest row and the same number
  of rows saw the same rows, because an insertion raises the newest number and
  pruning removes only the oldest (`RowsSince`). A sample that was counted is what
  GitHub returned to the one call of its session (`CollectorsInv`).

`V2Proofs`, on `V2Spec`, each part in its lane:

- `Batches`: `BatchesAccounted`, and `StoppedBatches`: `NoStartAfterStop`. The number
  in use is the cardinality of the slots of active batches (`CapacityInv`), and a
  step that was handed over is at work or has a result that says so (`CalledInv`).
- `Runbooks`: `RunbooksHold`, for registries with validated and unvalidated rows. The
  checkpoint of a key is what makes it run once, also after a crash: who runs has
  stored it, and is the only one (`InvocationInv`). The class is the declared one.
- `MergesUseStore`: `V2Spec => Spec`, the store inside the composition.
  `Merges`: `MergesHold`, by `AttemptInv` (what an attempt has consumed, sent and
  told) and `PullInv` (the head stays what was merged).
- `Calls`: `CallsHold`, and `Successes`: `CommittedAsApproved`. `CallRowInv` ties
  each call to its approval, its key and its pull request; `CallPairInv` keeps calls
  of one key apart. `SeenInv` says of every call that was seen as approved that its
  object is at GitHub until others move: between two moves only the executor writes,
  and its writes add a branch that was not there or one more pull request and change
  nothing that is (`OnlyAdds`). That no commit has the name of the absent one
  (`NoCommitAssumption`) is needed there.
- `Hybrids`: `HybridHolds`. The count that the tree compares is the caller's count
  plus the reasoning steps taken, so it bounds them.
- `Credentials`: `CredentialsHold`, for either provider type, by `CredentialInv` (a
  probed token came from a fit file, minted or put there by an operator), `ReadInv` and `DomainsInv` (material is kept under its own key, a
  handle carries material of its own provider and is used once).
- `Plans`: `PlansHold`. `SortInv` is Kahn's invariant: what is ordered is closed
  under dependencies, an indegree counts the dependencies that are not ordered,
  and no cycle closes among what is ordered. `SortEnds` gives the converse: if
  nothing is ready, what is left contains a cycle (each node left has a dependency
  left, and the sets are finite).

Assumptions made for these proofs are on the shape of the constants (intents and
budgets are natural numbers, manifests and rules are of their types, absent values
are none of the others), with two exceptions worth knowing. `AnswersAssumption`
says of Hermes that in a session with one tool call the first row that can be the
result of the call is what the tool returned: `collect_tool_provenance` takes that
row and cannot tell. `PlanAssumption` says
that the resource slot of every tool contract is typed "string". The code does not
check it: `v2/dag_validation.py:271` tests the scope of a literal only if it is a
string, so a contract that declares the slot as "any" would let a literal of
another type through. All contracts of the repository declare it as a string.

Where a decision of the code depends on the order of its tests it is written as an
IF chain: of overlapping arms of a CASE the logic may take any, while TLC takes the
first, and the proofs showed the difference.

Only model-checked: liveness (`ExecutionsEnd`, `RunsEnd`, `EveryoneReturns`), which is
out of the prover's reach, as is ENABLED; and the counterexamples of the four runs that expect one.
`ImplementsWrites` of executor and gateway is proved and is not part of a run (at the
gateway TLC takes too long over it); TLC checked it once on the instance of
`mutation_execution` and on one of `provider_gateway` with three calls.
What each transform computes is checked by TLC over the values of the run; the
proof of `Plans` does not need it, because every bound value is checked again
before the call.

## 7. Not modelled, and what is assumed

- Settings, metrics, logs and traces, pydantic shapes, the health probe: no
  control that interleaves, or a value that the models take as given.
- Canonical JSON, SHA-256, HMAC and JWT: digests are injective names.
  Redaction, evidence formats, hash chains of the two audit ledgers, shaping of
  results, normalisation of upstream fields, sizes in bytes.
- The replay mode of the DAG engine, which makes no calls, and the lease expiry
  of checkpoints, which is stored and never read. `hermes_continue`.
  `reset_migrations`, which only tests use.
- The -shm file, which SQLite rebuilds; a log that is salvaged by hand. A file of a
  bundle is taken to be renamed or not, without states in between.
- An exception out of `governance.record` in a batch, which would skip
  `admission_closed.set()` (`v2/batch_scheduler.py:276-282`); the governance in the
  repository does not raise.
- Of the acceptance tools: checks of single fields that are constant in what the
  collector writes, the hardening settings of the unit, the drills and the
  isolated 1.0.0 acceptance. Assumed: launchers run one at a time (nothing
  enforces it), and a timeout falls into the sampling; Hermes prunes its oldest rows
  and never the newest, and updates in WAL mode are invisible, for which the code
  relies on `--background-writer-controlled`. Hermes writes only while a runner is
  alive, the checkout moves only while no launcher runs, and GitHub changes only
  while a prompt of the shadow is pending, since nothing looks at them otherwise.
  A runner that is killed leaves no marker of its own and the old one stays. The
  limit of 5000 rows of a session is not reached, and every tool row has an id
  or a name.
- The compositions in one state space of components that share only the event
  loop: a lane for each shows their own interleavings, not delays they cause to
  one another.
