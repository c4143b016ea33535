# Controlled Execution System: specifications and proofs

TLA+ models of the Controlled Execution System (`ces`), the TLC runs that check
them on small instances, and TLAPS proofs of the theorems that matter most for
every instance. File names below are relative to `src/src/ces/`.

`ces` is a command-line program that puts a coding agent under governance: a
request becomes a builder session and a task manifest, an agent runtime works on
it, evidence is verified and reviewed, a human approves, and every decision goes
into a hash-chained audit ledger. There is no daemon. Every command is a process
of its own over one SQLite file (`.ces/state.db`) and a few JSON files, holding
what it read in memory while it runs an agent for an hour or waits for an
answer. A lock file makes one database transaction exclusive; nothing makes one
command exclusive. What is hard in this program is therefore what happens
between two transactions: other commands, a kill, an exception, a stale read.

## 1. Inventory

### Components

| Component | Code | State | Operations | Correct when |
|---|---|---|---|---|
| Audit ledger | `control/services/audit_ledger.py`, `audit_entries` | rows with `prev_hash`, `entry_hash`; the secret | append (read head, hash, insert), verify, queries | no link dangles; a chain nobody edited verifies |
| Workflow engine | `control/services/workflow_engine.py` | main state, review sub-state, retry count, in memory | 14 transitions, four review steps, retry guard, rebuild from the row | moves only along the table; a review is walked before it is completed; nothing unaudited is stored |
| Merge controller | `control/services/merge_controller.py` | none; reads manifest, evidence, kill switch | `validate_merge`, five checks, one audit entry | allowed exactly when safe; each decision recorded |
| Manifest lifecycle | `cli/{run,execute,review,approve,complete}_cmd.py`, `manifests`, `evidence_packets`, `review_findings`, `approvals` | the stored manifest and what hangs on it | run, execute, review, approve, complete | no merge without approval, review and validation; no state no command can leave |
| Builder sessions | `cli/run_cmd.py`, `recovery/*`, `builder_sessions`, `.ces/builder-runtime.lock` | sessions, manifests per run, runtime lock, completion contract | build, continue, status, recover | live runs are spared, dead ones freed, merges stand |
| Intent gate | `intent_gate/*`, `cli/run_cmd.py`, `cli/_builder_flow.py` | briefs, sessions, preflights | judge before the project exists, while the brief is collected, after it, on entry to the flow; judge a stored brief again | no agent on a risky request without criteria, whichever judgement it came over |
| Evidence of a build | `cli/run_cmd.py`, `execution/workspace_delta.py`, `verification/{completion_verifier,runner,profile}.py`, `harness/services/evidence_synthesizer.py`, `harness/sensors/*` | snapshots, claim, verification, blockers of one build | snapshot, run the agent, verify the claim, run commands and sensors, triage, approve, merge | what is merged was verified, is in scope, and its session knows |
| Verification and proof | `verification/{completion_contract,proof_card,binding,persistence}.py`, `cli/verify_cmd.py` | completion contract, record of a verification | write the contract, verify, compute the card | an open card rests on one run of all commands of this contract |
| Semantic review artifacts | `review/*`, `.ces/reviews` | bundles of files per review | generate, take the latest, ask if it is stale, cite it | a decision without a warning cites a review of this diff |
| Review routing and findings | `harness/services/{review_router,review_executor,findings_aggregator}.py`, `cli/{review,dogfood}_cmd.py` | assignments, findings | assign one or three reviewers, ask them at once, aggregate, store | reviewers are independent; silence is escalated; no outdated review passes for the latest |
| Reports and diagnosis | `local_store/store.py` (snapshot), `cli/_builder_report.py`, `cli/_blocker_diagnostics.py`, `recovery/planner.py` | none of its own | snapshot, report, why, recover | what is said fits the session |
| Legacy behavior register | `brownfield/*`, `cli/_builder_flow.py`, `legacy_behaviors`, `prl_items` | entries, product truth items, review checkpoint in the session | register, review, promote, discard, the resumable review of a build | only reviewed behavior becomes truth; no agent before the review |
| Project set-up | `cli/init_cmd.py`, `cli/_context.py`, `shared/crypto.py`, `cli/_factory.py` | `.ces` with keys, secret, config | init, build or scan where there is no project, open services | one owner, whole when quiet |
| Specifications | `control/spec/*`, `cli/spec_cmd.py` | a file of stories, a manifest per story | validate, decompose, reconcile, list, order | an order exists and respects dependencies |
| Invalidation | `control/services/cascade_invalidation.py` | queue, visited | propagate a change breadth first | exactly what is downstream is reached |
| Project readiness | `verification/mri.py`, `cli/{autopilot,mri,ship}_cmd.py` | none; scans the project each time | scan, next, next-prompt, deliberate, ship | the measures of one scan agree; a plan of four scans does not contradict itself |
| Kill switch | `control/services/kill_switch.py` | seven activity classes: cache, optional repository | activate, recover, load, auto-triggers, `is_halted` | a halt stops its class and is on record |
| Emergencies | `emergency/*` | the active emergency, deadlines | declare, resolve, check deadline | one at a time in a process; contained while active |
| Trust profiles | `harness/services/trust_manager.py` | status, counters | evaluate promotion, record escape, attempt recovery | an escape costs trust; no trust change while writes are halted |
| Command runner | `execution/processes.py`, `execution/runtimes/*` | process group, two pipe readers | run with timeout, terminate, kill | ends within its limits and leaves nobody behind |
| Schema migrations | `local_store/schema.py` | tables during a migration | create, copy, drop, rename, recover | no row is lost wherever it stops |
| Harness evolution | `harness_evolution/*` | changes, verdicts, lessons | draft, activate, archive, compare, report | only active lessons reach a prompt; a quiet report hides nothing |
| Local store | `local_store/*` | the tables | one transaction per method | each method is atomic, no two are |
| Intake | `intake/contracts.py`, `cli/intake_cmd.py` | contract files, the latest one, page, specification | create, review, decompose, build from | what a build takes from an intake is an intake somebody made, and was told was safe |
| Manifest registry and classification | `control/services/{manifest_manager,classification,classification_oracle}.py`, `cli/{manifest,classify,spec}_cmd.py` | manifests, their signatures | classify, create, sign, list, launch | every creation is on record; a signature was made from the row it stands in; nothing expired starts |
| Gates and policies | `control/services/{gate_evaluator,policy_engine}.py`, `harness/services/evidence_synthesizer.py`, `cli/{gate,triage}_cmd.py` | evaluations per profile, in memory; packets | evaluate a gate, triage, check a file | risk never loosens a gate; no automatic approval where a human gates |
| Self correction | `harness/services/self_correction_manager.py`, the loop of `cli/execute_cmd.py` | retries, tokens, depth | stall detection, repair prompt, `can_retry`, `record_retry`, circuit breaker | an agent that tries again is stopped |
| Sensors and hidden checks | `harness/services/{hidden_check_engine,execution_risk_monitor}.py`, `harness/sensors/*` | pool, results per profile | rotate, record, detect gaming, analyze a log | a suspicion rests on full cycles; a doubt about a log is settled by real tests only |
| Knowledge vault | `knowledge/*`, `cli/vault_cmd.py` | notes with trust levels | write, query, rank, trust, delete, decay, invalidate | stale knowledge is not served as verified; nothing verified fades |
| Completion gate, evidence and triage | `harness/services/{completion_verifier,evidence_synthesizer}.py` | none | verify a claim, triage a packet | part of a build's evidence |
| Agent execution | `execution/*` | none of its own | run an agent, measure its delta | part of a build's evidence |
| Other | guidance, observability, benchmarks, shared definitions, status commands | | | see section 8 |

### How they interact

- **Calls.** A command builds its services in `cli/_factory.py`, all of them new:
  a `WorkflowEngine`, a `KillSwitchService` and an `EmergencyService` never
  outlive their process. The engine and the register call the ledger after each
  change; the merge controller is called between approval and merge and reads
  the kill switch. A build passes the intent gate, launches its agent through
  the command runner, gathers evidence, and asks the merge controller.
- **Shared state.** Everything else goes through `state.db`. Rows are read once,
  kept for minutes or hours, and written back whole (`save_manifest`,
  `update_builder_session`) or by column (`update_legacy_behavior_disposition`).
- **Files.** The runtime lock says which process runs an agent; the completion
  contract tells `verify` and `recover` what to run, the record of a
  verification tells `approve` and a semantic review what came of it; keys,
  secret and config make a directory a project.
- **Environment.** The agent runtime, the verifier and the reviewers answer,
  fail, raise or never return within their limits; users answer or leave;
  anybody edits the working tree at any time.

### What is hard

Overlapping commands over one stale read (ledger head, manifest row, register
row, session); files replaced while a command reads two of them; commands that
die between two writes; runs declared dead by age that are alive; decisions
recorded before the step they decide is known to be possible; exceptions between
a state change and its audit entry; flags in a session (`last_action`,
`recovery_reason`) that one command writes to say what happened and another one
reads to decide what to do; one question asked several times (the intent of a
request, the maturity of a project, the freshness of a proof) of a world that
moves between the answers. `PROJECT.json` lists these hazards at their lines,
with the property that watches each, or why none does.

## 2. Modules

| Module | Models |
|---|---|
| `HashChain` | what the ledger promises: one append-only chain per project |
| `AuditLedger` | `append_event` as two transactions in overlapping processes, and `verify_integrity` |
| `Workflow` | the transition tables of the task and review state machines and one engine's memory, a library |
| `Lifecycle` | what the engine promises of a stored `workflow_state` |
| `WorkflowEngine` | engines over one manifest: opened from the row, driven in any order, audited, saved or lost |
| `MergeChecks` | the five pre-merge checks and the effective gate, a library |
| `MergeController` | one merge request, gathered while time and kill switch move, then decided |
| `ManifestLifecycle` | the five commands that move a manifest, composed of `Workflow` and `MergeChecks` |
| `BuilderSession` | build, continue, status and recover over sessions, manifests and the runtime lock |
| `IntentGate` | the judgements of a request, over build and continue, with the three writes that follow |
| `BuildEvidence` | one build from the first snapshot to the merge |
| `CompletionProof` | contract, record and proof card, with builds, verifies and approvals at once |
| `SemanticReview` | `review generate`, the store of reviews, and the approval that cites one |
| `ReviewDispatch` | assignment, concurrent answers, aggregation and storage of a review, and the decisions made on it |
| `BuilderGuidance` | snapshot, report, diagnosis and recovery plan of a session after every sequence of commands |
| `LegacyRegister` | the register commands and the checkpointed review of a build |
| `ProjectBootstrap` | how `.ces` becomes a project in seven writes, by several commands at once |
| `ManifestRegistry` | how a manifest is rated, created, signed, launched and written back, with the classification table it rests on |
| `GateRules` | the gate of a phase, the triage of a packet, the three file checks |
| `RepairLoop` | `ces execute --auto-repair` until it gives up; retries, tokens, models and delegations of one task |
| `RunScrutiny` | hidden checks, pass rates, and the risks of a command log |
| `KnowledgeVault` | the notes of the vault and their trust, written and read by several callers |
| `SpecStories` | validation, decomposition, reconciliation and build order of a specification file |
| `CascadeInvalidation` | the search for what a changed artifact reaches |
| `IntakeContracts` | the four files of an intake contract, and what specifications, builds, previews and proof cards take from them |
| `ProjectReadiness` | scan, advice, contract, brief and plan of a project that is edited meanwhile |
| `Governance` | kill switch, emergencies and trust in several processes |
| `CommandRunner` | the three ways to run a command: group, pipes, limit, signals |
| `FindingsTable`, `SchemaMigration` | what the store promises of review findings, and every statement of opening it |
| `HarnessLessons`, `HarnessChanges` | lessons with their prompts; changes, verdicts and the report |
| `MC*` | the instances for TLC |
| `IterationRules` | induction over numbers and functions defined by recursion, for the proofs |
| `WorkflowEngine_proofs`, `BuilderSession_proofs`, `Governance_proofs` | theorems and proofs about the module they are named after |
| `ControlPlane_proofs` | theorems and proofs about `AuditLedger`, `ProjectBootstrap`, `ReviewDispatch`, `CascadeInvalidation`, `LegacyRegister` and `SpecStories` |
| `Records_proofs` | theorems and proofs about `ManifestLifecycle`, `ManifestRegistry`, `GateRules`, `RepairLoop`, `RunScrutiny` and `KnowledgeVault` |
| `Gates_proofs` | theorems and proofs about `MergeController`, `CompletionProof` and `IntentGate` |
| `Services_proofs` | theorems and proofs about `CommandRunner`, `SchemaMigration`, `SemanticReview`, `IntakeContracts`, `BuildEvidence`, `BuilderGuidance`, `ProjectReadiness`, `HarnessLessons` and `HarnessChanges` |

Composition: `WorkflowEngine` and `ManifestLifecycle` extend `Workflow`, so that
the same transition table is proved about alone and used by whole commands;
`MergeController` and `ManifestLifecycle` extend `MergeChecks` in the same way.
Refinement: `AuditLedger` implements `HashChain` (when commands do not overlap),
`WorkflowEngine` and `ManifestLifecycle` both implement `Lifecycle`,
`SchemaMigration` implements `FindingsTable`.

Some components appear twice, coarse where they are a partner and fine where
they are the subject: `BuilderSession` knows of a manifest its state and its
approval because it has several of them; the review that is one step of its
launch is `LegacyRegister`, the gate before its first session is `IntentGate`,
what its `verify` step gathers is `BuildEvidence`, and what a user is told
about its result is `BuilderGuidance`.

### How the models correspond to the code

The unit of interleaving is the database transaction (`LocalProjectStore._connect`
takes the process lock and commits at its end) or the replacement of one file.
One action is one of these together with the computation that follows it up to
the next one; a `pc`, `at` or `step` label names the point between two of them.
A command's local variables are `mem`, `eng`, `builder`, `asker`, `approving`,
`doing`, `plan` and the like. A read that a later write depends on is always an
action apart from that write. A death removes the process and its locals and
leaves database and files alone. An exception that nothing catches ends a
command like a death, and is modelled as one unless the code does something on
the way out.

- **AuditLedger.** `ReadHead` is `get_latest` and the computation of the HMAC,
  `InsertRow` the insert, `Abort` a death or a failed insert. Hashes are values
  that no other entry has, because each entry's HMAC covers a fresh uuid.
- **WorkflowEngine.** `Open` is `WorkflowEngine(...)` over the row, `Move` a
  transition with its audit entry, `AuditRaises` one whose entry fails: the
  engine has moved, the caller never sees it. `WalkReview` is the sub-workflow,
  `Save` the caller's `save_manifest`.
- **MergeController.** `Tick` and `SetSwitch` move while the caller works,
  `Validate` evaluates all five checks at one instant, as `validate_merge` does.
- **ManifestLifecycle.** Five command families, each a chain of labels: `e_`
  for execute, `r_` review, `a_` approve, `c_` complete, `b_` for the builder's
  run. The kill switch of a process is clear because `_factory.py` builds a new
  one without a repository.
- **BuilderSession.** `why` is the session's `last_action` and `last_error` in one
  field, `interrupted` says that its `recovery_reason` is `runtime_interrupted`,
  which some updates leave as it is. `old` says that `updated_at` lies further
  back than the staleness threshold. The runtime lock is a file: a run
  opens it, which empties it (`OpenLock`), and writes it (`WriteLock`); when its
  runtime has ended it looks for the lock, reads it and unlinks it (`FindLock`,
  `ReadLock`, `Unlink`), and between any two of these other processes do as they
  like with it. Text that is no JSON reads as a lock of
  nobody, as `_read_runtime_lock` has it.
- **IntentGate.** `StartBuild` is `run_task` up to the check of unattended
  inputs, `Bootstrap` the making of the project and the choice of the mode,
  `Collect` the brief with the question of the gate and the judgement behind
  it, `Enter` the judgement of `_run_brief_flow`, then three writes. The mode
  of the command line counts unless it is the default; the check before the
  project exists knows that of the command line alone; `Resume` knows none.
- **BuildEvidence.** `build` is what one command has in its hands, `changed` the
  paths that differ from the first snapshot. Whoever writes them, the agent or
  anybody else, the second snapshot cannot tell.
- **CompletionProof.** Files carry the instant of their replacement, because the
  card compares file times; `torn` and `build` are history that no action reads.
- **SemanticReview.** A bundle is written file by file, metadata first; `raced`
  says that the record of the verification was replaced while it was made.
  `Risky` and `RiskyIfFailed` are the trees whose risk map is high for want of a
  verification that passed. The contracts a review takes its requirements from
  are whatever intakes and builds have left by then (`asked`).
- **ReviewDispatch.** An answer is the set of the findings that can be read from
  it, or `Prose`. `kept` is what the store holds, with the round it comes from.
- **BuilderGuidance.** The sessions are written by the commands themselves, one
  at a time, each write an action and each command killed between any two: the
  evidence, the execution and the manifest of a run are stored apart, and so are
  the evidence, the approval, the manifest and the session of `ces complete` and
  of a recovery. `subject` is the manifest these two work on, `unrecorded` is
  history: the manifests whose approval one of them stored before it ended. The
  operators behind the variables are the report, the diagnosis and the plan.
- **LegacyRegister.** A position of the review is `<<group, item>>`, with
  `<<group, 0>>` for the question about the group's default. `Stops` is what
  the loops of `capture_brownfield_behaviors` still visit from a checkpoint.
  `raced` and `missed` are history: they record that two commands worked on one
  entry, and that a build ended between replacing `brief_captured` and its
  first checkpoint. No action reads them.
- **ProjectBootstrap.** A file is who drew it and whether it is whole;
  `doing[p].step` is the next write of a command.
- **SpecStories.** A row's identity is the planner that saved it and its story,
  since `decompose` draws fresh manifest ids. The recursion of the validator's
  `visit` is a function of the room left on its stack (`Visit`), the loop of the
  build order one of the rounds (`Kahn`).
- **CascadeInvalidation.** One step takes one node off the queue.
- **ProjectReadiness.** A project is the set of the things a scan can tell
  apart. The functions of the scan are operators of one project; `plan` is a
  command that scans four times while `EditProject` changes the project.
- **IntakeContracts.** `filed`, `latest`, `pages` and `specs` are the files; a contract is
  written in four replacements, and the latest one is shared by all makers. `told` is what a command
  prints; nothing else moves until it is read, which only names the instant. An
  intake makes a specification of one story, so that `ces spec decompose` saves
  one manifest; that its manifests are saved one by one where there are more is
  the subject of `SpecStories`.
- **Governance.** Each service changes its memory, then its row, then the
  ledger, and `outcome` says which of these writes raised. `lifted`, `raised`
  and `declared` are history for the properties.
- **CommandRunner.** Members of the group exit, fork, ignore signals and hold
  pipes as they like; `pc` is what the caller waits for.
- **SchemaMigration.** `disk` is what a crash leaves, `view` what the connection
  sees in a transaction; one action is one SQL statement.
- **ManifestRegistry.** `hands` is the copy of the row a clerk works with; a
  signature is the row it was computed from, so that it verifies exactly while
  the row has not changed.
- **GateRules.** `Evaluate` answers for every phase, risk and trust; the tables
  are the tables of the code, and the properties compare their rows.
- **RepairLoop.** The loop of `ces execute` is one process; whoever retries or
  delegates is external and asks each guard before it acts.
- **RunScrutiny.** A log is the sequence of its commands, and a command the set
  of traits by which the patterns of the monitor know it.
- **KnowledgeVault.** A reading is the set of the rows that are still to be dealt
  with; `touched` is history: what others changed since it began. The repository
  is external, and `stocked` says whether there is one.
- **HarnessLessons, HarnessChanges.** `standing` and `manifests` are the rows;
  an activation, and a verdict, reads in one transaction and saves in another.

Definitions called faulty variants are bugs a change could introduce; each
property is known to catch one of them. No specification uses them.

## 3. Runs

Four runs (`governance`, `control_plane`, `services`, `records`) take components that share no state one at a time: `studied` is
chosen at the start, the other components rest, and the state space is the sum,
not the product, of theirs. Each takes one to three minutes on two cores, the
others seconds to a minute. Properties are conjunctions of named parts; the parts
are listed in section 4.

| Run | Instance | Properties | What it shows |
|---|---|---|---|
| `ledger_fork` | 2 processes | `ChainValid`, violated | overlapping commands make `ces audit verify` report tampering |
| `lifecycle_serial` | any 5 commands, each dying anywhere | `RowSound`, `ImplementsLifecycle`, `ExecuteEnds` | no stored state is a trap, auto-repair ends |
| `records` | `ManifestLifecycle`: 2 processes, 3 commands, every interleaving; `ManifestRegistry`: 2 clerks, 1 manifest; `GateRules`: 2 profiles, 3 phases; `RepairLoop`: 3 limits, 3 retries, depth 3; `RunScrutiny`: a pool of 4, logs of 3; `KnowledgeVault`: 2 keepers, 2 notes, 3 calls; `BuilderGuidance`: 2 runs | `DecisionsSound`; `RegistrySound`; `RulesSound`; `GuidanceSound` | what survives overlap on one manifest, the records and rules such commands go by, and what a user is told of a session whose commands were killed anywhere |
| `lifecycle_stranded` | 1 process, 3 commands | `DecisionTakesEffect`, violated | an approval is recorded and the task stays under review |
| `session_serial` | 2 sessions, 2 runs, 2 deaths | `SessionSound`, `MergeStands`, `AbandonedIsFreed` | recovery neither invents an approval nor undoes a merge, and frees what died |
| `session_overlap` | 2 processes that build, continue and look, 2 sessions, 2 runs, 1 death | `LiveWorkSpared`, violated | a lock that is read while it is being written makes a run at work look dead |
| `governance` | `Governance`: 2 processes, 2 classes, 2 emergencies, 2 escapes; `MergeController`: every request over 2 hashes; `WorkflowEngine`: retry budget 1, 6 audited moves; `IntentGate`: 1 build, 1 more command, 1 kill, 4 settings; `CompletionProof`: 2 builds, 1 verifier | `GovernanceSound`, `GovernanceKeeps`; `AllowedExactlyWhenSafe`; `EngineSound`, `RowAudited`, `ReviewEarned`, `ImplementsLifecycle`; `IntentSound`; `ProofSound` | what decides whether work may go on |
| `control_plane` | `AuditLedger` without overlap: 2 processes, 2 projects, 3 entries; `SpecStories`: 3 stories, 2 planners; `CascadeInvalidation`: every graph of 5 nodes and 3 edges; `LegacyRegister`: 3 candidates, 2 builds, 1 death, 2 users; `ReviewDispatch`: every roster of 4 models, 2 rounds; `ProjectBootstrap`: 3 commands, 1 removal | `ImplementsChain`; `PlansSound`; `CascadeSound`; `LegacySound`, `Settled`; `ReviewsSound`; `BootstrapSound` | what the control plane keeps on record |
| `services` | `AuditLedger` with overlap: 3 processes, 1 project, 3 hashes; `CommandRunner`: a leader and 2 descendants, 2 interrupts; `SchemaMigration`: 2 findings, 3 deaths; `HarnessLessons`: 3 lessons; `HarnessChanges`: 2 changes, 2 verdicts; `SemanticReview`: 2 reviews, 2 trees, 1 approver; `BuildEvidence`: 1 file, 1 command; `ProjectReadiness`: 1032 projects, 1 edit; `IntakeContracts`: 2 makers, 2 contracts | `LedgerSound`, `InvalidOnlyIfForked`; `RunnerSafe`, `AgentGroupGone`, `CallEnds`; `StoreSafe`, `ImplementsTable`, `GetsOpened`; `HarnessSafe`; `ReviewCurrent`; `EvidenceSound`; `AdviceSound`; `IntakeSound` | what runs, gathers and reports; when an honest chain fails verification, two processes appended over one head, and never one process alone |
| `guidance_stale` | 2 runs of one session | `ClearMeansApproved`, violated | a decision of an earlier run is reported of the next |
| `tier_a_roster` | the default list of models | `TierAGetsTriad`, violated | tier A cannot be reviewed under the defaults |
| `intake_sidecar` | 2 makers, 2 contracts | `SidecarDecomposes`, violated | the specification an intake writes cannot be decomposed |

### Disagreements between code and documentation

- `ledger_fork`. Two commands that overlap read one head; the second insert no
  longer links to the row above it and verification fails although nobody
  edited anything.
- `lifecycle_stranded`. `approve` says it resolves the workflow state before it
  records an irreversible decision; it checks less than the engine later asks.
- `session_overlap`. The lock that is to tell live work from interruption is
  rewritten in place: `write_text` empties the file first, and `ces status` that
  reads it just then gets a lock of no process, calls the run dead, blocks its
  session and rejects its manifest while the runtime starts. The removal of a lock
  has a window of the same kind (`recovery/reconciler.py:56` to `:65`): a lock that
  another run wrote after it was read is unlinked. That run is spared only until
  its session is older than the threshold.
- `guidance_stale`. `ces continue` never resets `approval_manifest_id`: after an
  approved run whose merge was blocked is continued, `ces why` says that the
  latest run is approved.
- `tier_a_roster`. The builder is always taken to use the first of the three
  default models, so a review of tier A that needs three others is refused,
  after the manifest was moved to under review.
- `intake_sidecar`. The specification of an intake names a template the program
  does not bring; `ces spec validate` and `ces spec decompose` end with an
  uncaught FileNotFoundError, though `docs/Intake.md:30` promises that they work.

Others are part of the models and stated here, without a run of their own:

- *Sessions.* `discard` sets a field of a frozen record and raises after it
  stored `retire`, so a discarded entry can still be promoted; a continue that
  resumes a review raises when it saves the manifest row it took for a manifest;
  a rejected run that is recovered twice with `--auto-complete` ends approved; a
  first brownfield build that finds no runtime, or no consent to side effects,
  leaves a `last_action` by which `ces continue` launches the agent with no
  behavior reviewed (`raced` and `missed` of `LegacyRegister` name the cases).
- *Completion.* `ces complete` and `ces recover --auto-complete` store the
  approval before the session, and a command that is killed in between leaves an
  approval on a session that is still blocked: `ces why` then finds no blocker.
  `GuidanceSound` names these sessions (`Unrecorded`) and excepts them.
- *Trust.* A constrained profile recovers to candidate "to re-earn trust", but
  the counters it earned by are kept and the next evaluation promotes it.
- *Intent.* `docs/Intent_Gate.md` says that `off` skips classification; `ces
  continue` passes no mode, so a risky request that `off` or a model let through
  can be built but never continued. The check of unattended inputs before the
  project exists uses the mode of the command line only, and does not see a mode
  that the configuration sets. `strict` never asks a user at the terminal for the
  criteria it refuses the brief for: `collect_brief` asks only in mode `rules`.
- *Proof.* The dispositions of `Brownfield_Guide.md:168` are not part of what a
  record is bound to; an approval looks at the latest contract whatever manifest
  it approves; editing code after a verify leaves its card proven; contract and
  record are read before their file times are, so a replacement in between lets
  an old record pass for the new contract (`torn`).
- *Evidence.* `Quick_Reference_Card.md:178` and `completion_verifier.py:600` say
  that changes of the profile by the same run are not trusted; the code sees them
  only if the claim lists the profile. With an empty scope a lowered profile
  counts and nothing violates the scope. Report artifacts of any age pass; with
  no command inferred no independent verification is needed; what is edited
  after the second snapshot is merged unseen. A user who approves in spite of
  blockers gets a blocked session and no merge.
- *Reviews.* An answer in prose with a "[1]" in it is read as zero findings; a
  `RuntimeError` of the dispatch is swallowed (`review_cmd.py:249`). A semantic
  review whose generation broke off makes later approvals say "unreadable"
  although older whole reviews exist; one without its brief is cited by a path
  that does not exist. `is_stale` compares diff and verification and no contract:
  a review stays current when another intake replaced the requirements it lists.
- *Stories.* Two stories of one id pass validation, and the later one stands for
  both in the build order.
- *Set-up.* `crypto.py:178` tells the user to run `ces init`, which refuses a
  directory that has a `.ces`; a death between keys and config leaves a project
  named "default" for ever; `doctor --security` is green for empty key files.
- *Intake.* A contract always fills in the default of what is to be preserved, so
  once any intake exists every later build takes the delta of the latest intake,
  whatever its own brief says. The validation of a contract can only fail for an
  empty objective.
- *Readiness.* `ces next` says harden while `ces ship` says from scratch for a
  folder with nothing but a secret file; after an exception swallower alone
  `ces next` recommends `ces verify`; a step whose quoted path has a word of risk
  is blocked by the program's own gate; production-ready may lack a README.

- *Manifests.* A signature covers `workflow_state` and `affected_files` and stops
  verifying at the first transition; nothing asks for it again, and `ces execute`
  runs unsigned manifests. A match of the oracle that asks for human review is
  applied without one. `ces manifest --auto` and a build without a match fall
  back on B, BC2 and class 2, `ces manifest` on A, BC3 and class 5. An expired
  manifest that is executed is stored as failed, one that is built stays in
  flight.
- *Gates.* The counters of the second look live in one process, so `ces gate`
  always selects it; a phase outside 1 to 10 raises `KeyError`. `ces triage` and
  `ces approve` triage with trust "candidate" and are never green, a build triages
  with "trusted"; the text of `triage_cmd.py:198` cannot be reached.
- *File policy.* `ces execute` refuses source files under a scope that names a
  label, which the completion verifier accepts.
- *Repair.* Depth and spawns rise together and never fall, so a limit of ten
  spawns is never met before a depth of three. The repair prompt groups findings
  by kind: a low one may stand before a high one of another kind.
- *Hidden checks.* The pool of the command line is empty. `go test -c` counts as
  a test, so it is never told to be compile-only.
- *Vault.* `_factory.py:279` builds the vault without a repository: `ces vault
  write` says "Note created" and audits it, and `ces vault query` never finds it
  (`docs/Getting_Started.md:419`). A note demoted between the two reads of an
  invalidation escapes it. A verified answer is not put through the filter for
  policy that every query result is put through. Decay and invalidation have no
  caller.
- *Halts.* An emergency's own manifest is refused while its halt of task
  issuance stands; `spec_cmd.py:311` and three more lines call `is_halted()`
  without its argument.

### Bounds, and why they are enough

- *Processes.* Every race here is between a read and a write of one command and
  a write of another one: two processes show it. Three are used for the ledger
  (a third insert between two) and for the set-up (two that initialize and one
  that finds `.ces`).
- *Entries, commands, runs.* A fork needs two entries, and a third one to link
  past it. The longest honest story of a manifest is execute, review, approve
  and complete: five commands repeat one. A session needs a run and its
  continuation; a second session makes locks and manifests foreign.
- *Retries.* With a budget of one the model reaches the first retry, the refusal
  of the second, and the reset by a manual override.
- *Groups.* Two candidates in the first group and one in the second make
  every kind of move of the review: within a group, to the next, past the end.
- *Records.* One manifest and two clerks show every stale copy; two profiles and
  a threshold of two the counters that must not be shared; four checks, two per
  cycle, a rotation that comes round; logs of three commands a failure, a doubt
  and what settles it; two notes and three calls a change between any two reads
  of an invalidation or a decay.
- *Graphs and stories.* Five nodes and three edges give a diamond, a cycle, a
  chain longer than the depth and a node outside the index; three stories give a
  cycle with a tail and two stories of one id beside a third.
- *Models.* A roster of four has two of one model, the builder's or not, and
  exactly enough or too few for three independent reviewers.
- *Builds, reviews, verdicts.* Each comparison (contract with record, review with
  tree, verdict with report) goes wrong with one older and one newer item.
- *Projects.* All subsets of ten things of a Python project, and one project of
  every other kind the scan distinguishes; one edit is enough to make any two of
  the four scans differ.
- *Emergencies and escapes.* A behavior of `Governance` has emergencies or trust
  changes, not both (`OneSubject`): they share the kill switch alone, which moves
  in either. In `CompletionProof` a card that is shown is read before anything
  else moves; it is a value by then, and no later step changes it.
- *Deaths, kills, crashes.* One to three. A death removes locals and leaves
  database and files; whatever follows sees one database, so a further death
  matters only if it hits the repair of the first, which two allow; three in
  `SchemaMigration` hit the repair of a repair.

`CHECK_DEADLOCK FALSE` is set where commands that have ended, or a bound on
commands or runs, leave nothing to do; the program itself would go on.

### Fairness, and why the code justifies it

`lifecycle_serial` and `session_serial` are checked under weak fairness of the
program's own steps: a command that can take its next step takes it, because
runtimes have a timeout (3600 seconds by default), verification commands and
reviewers have theirs, and there is no waiting between commands beyond SQLite's
busy timeout. Users are not fair: nobody has to start, decide or recover.
`AbandonedIsFreed` also assumes that time passes and that somebody looks at
`ces status` again and again; without an observer the code frees nothing, since
it has no daemon. In `services`, the caller of a command and its timers are fair
(`Caller`, `Timer`), the processes it runs are not: that `CallEnds` holds for a
leader that ignores SIGTERM is the point of it, and its exception names the two
places where the asynchronous runner waits without a limit. A process that is
opening a store goes on opening it (`Opening`); deaths are bounded, never fair.

## 4. What the properties say

Each is preceded by a comment in its module; composite ones are listed here.

| Property | Parts |
|---|---|
| `LedgerSound` | types; no link dangles; no process forks against itself |
| `RowSound`, `Audited` | types and no row at rest in verifying; outcome and approval of a row are in the ledger |
| `EngineSound` | types; sub-state exactly while under review; audit entries form a path; retry budget |
| `SessionSound` | types; a completed session has its approval |
| `LegacySound` | types; truth is reviewed and promotions whole; checkpoints honest, agent after review, nothing asked twice |
| `GovernanceSound`, `GovernanceKeeps` | halts recorded and stored, emergency contained, trust earned; emergency ends whole, trust frozen under a halt, escapes cost trust |
| `IntentSound` | gate held over every way in; gate agrees with itself; a refusal leaves nothing; what is shown of a session let it start |
| `EvidenceSound` | merges backed, scope kept, profile not lowered, session follows the merge |
| `ProofSound`, `ReviewCurrent` | an open card is earned and its words agree; a decision without a warning cites a current review |
| `ReviewsSound` | independent reviewers, latest round kept, zero findings escalated, unread text serious |
| `DecisionsSound` | a merge was earned and every stored outcome is audited, whatever overlaps |
| `RegistrySound` | ratings ordered over requests, tasks, hints and commands; creation and signature on record; a signature lost only to a stale copy; agents started on active manifests only |
| `RulesSound` | gates and triage ordered by risk, no automatic approval where a human gates, the three file checks agree but for labels, second looks due; the loop, its budget, its models and its delegations bounded; suspicion by full cycles, fresh pools, doubts settled by tests; notes on record, invalidation whole, decay spares what is verified, prompts without stale notes |
| `IntakeSound` | types; the latest contract and its files point at what exists; whole when nobody writes; a proof card never names an intake older than the one its delta is from |
| `GuidanceSound` | completed is clear; clear is not blocked, unless the decision that is read is of an earlier run (`Stale`) or was never recorded in the session (`Unrecorded`), or a command that got nowhere replaced the record of the block (`Replacing`); blocks are reported; advice can be taken; a recovery is about no later build than the snapshot |
| `BootstrapSound` | one owner, whole when quiet, opened whole |
| `PlansSound`, `CascadeSound` | validation and order exact, decomposition whole, one row per story; reach exact, truncation exact |
| `AdviceSound` | the climb is listed, measures agree, advice passes the program's own gate, ready briefs are unchallenged, plans agree |
| `RunnerSafe`, `StoreSafe`, `HarnessSafe` | timeouts clean up and outputs are complete; an open store is current; active lessons were activated and a quiet report hides nothing |

## 5. What is proved

TLAPS proves the following for every value of the constants: any number of
processes, projects, entries, retries and requests.

**The ledger** (`ControlPlane_proofs`). `TypeCorrect`, `NoDanglingLink`,
`NoProcessForksItself`, `InvalidImpliesFork`, and their conjunction
`LedgerIsSound`. The four are not inductive: that a
link points back depends on what a process that has read a head holds in memory.
`IInv` adds `HashesUnique`, `PendingKnown` (a head that was read is still in the
table, since nothing is deleted) and `OwnHeadFresh` (it lies at or below every row
the process itself appended). `OwnHeadFresh` is what rules out that a process
forks against itself, and, with uniqueness, what makes a fork the only cause of a
failed verification: if every row of an invalid chain had its own predecessor,
the first row that does not link to the one above it would share its
predecessor with a row between. `SerialChainValid` and `SerialImplementsChain`
prove, for processes that do not overlap, validity and the refinement of
`HashChain`, with the invariant that at most one process holds a head and that this
head is the hash of the last row (`OneAtATime`, `HeadCurrent`).

**The engine** (`WorkflowEngine_proofs`). `TypeCorrect`, `ReviewScoped`,
`ReviewIsEarned`, `StoredIsAudited`, `TrailIsLinked`,
`RetriesBounded`, `EngineIsSound`, `FollowsLifecycle` (the refinement of
`Lifecycle`). Each has its
own strengthening: `ReviewInv` ties the sub-states walked to the sub-state of the
engine; `AuditInv` adds to the two audit properties that the state of the open
engine is itself audited, which is what a later save relies on; `BudgetInv` says
that the counter of the open engine equals the number of its audited retries
unless it is approved, merged or deployed: the manual override resets the counter
and ends in approved, from where no retry can be reached; `Ahead` says that the
state of the open engine is that of the row or one step of `Lifecycle` from it.

**Merging** (`Gates_proofs`). `MergeIsSafe`: a merge is allowed exactly
when `SafeToMerge` holds, where `SafeToMerge` states the acceptable gates by risk
without the order of gates the code computes with; the lemma `GateSound` relates
the two. `MergesAreAudited`: each decision is logged once.

**The proof card** (`Gates_proofs`). `ProofIsSound`: an approval is let through only
by a record in which every command of the card's own contract passed. A card is
drawn from files read one after the other while builds and verifies replace them;
`Bound` says that the hash in a record and the subject it names were taken of one
contract, whichever it was, and `LastWritten` that a record which is the newest of
the two files belongs to the contract beside it. Both are decided when a file is
written, long before a card compares them.

**The intent gate** (`Gates_proofs`). `IntentIsSound`: no judgement of a request can be
walked around. `IntentInv` says of every command where it stands that what it
names is stored and is its own (`NamesStored`), by which mode it was judged and
what that found (`WasJudged`), and that a build that asks nobody was given what
the rules ask for (`WasGiven`). The stores only grow (`Grown`), which is why a
command that is killed between two writes harms no other.

**Commands over a manifest** (`Records_proofs`). `RowIsSound`,
`MergeIsEarned`, `OutcomeIsAudited` for any number of overlapping and dying
commands. `MergeEarned` speaks of the ledger alone; whether the next step keeps it
depends on what each command has behind it where it stands. `IInv` says that,
command by command: what an engine holds was audited when it was entered
(`EngineAudited`), a decision that is about to be recorded was taken, past the
record it is in the ledger, and at `merging` the validation is (`DecisionTaken`).
`Grows` is the reason why interleaving does no harm: ledger and findings only ever
gain, so what one command relies on no other takes away. `DecisionsAreSound` adds
that the stored approval is in the ledger when all commands have returned. It
assumes `MayDie = FALSE`, and must: run and complete store an approval before they
audit it, and one that dies in between leaves it unaudited; `ApprovalKept` is the
invariant, which names the commands that still owe the entry.
`RowFollowsLifecycle` is the refinement of `Lifecycle` for one process, step by
step, with the invariant `Sole` that relates its engine to the row it will be
saved over. With two processes it is false: two engines opened over one row save
one after the other.

**Sessions and recovery** (`BuilderSession_proofs`). `SessionIsSound`: a completed
session names a manifest whose approval is stored. `SessionInv` needs that every
manifest a session or a command names exists (`AllKnown`), that no two runs work
for one manifest (`Distinct`, from the counting of `Counted`), and where each
command is, what its manifest's approval can be (`Fits`). Under `Orderly`
(when somebody may recover, commands are given one after the other) nobody but
the run itself decides on its manifest. Without it the theorem is false: beside a
run that waits for the decision of its user, a recovery approves the manifest and
completes the session, and then the user rejects. The code has no guard against it;
the model shows it with two processes. That recovery spares live runs is no theorem:
`session_overlap` refutes it for two processes. `MergesStand`, for
commands given one after the other (`Alone`): no reconciliation, no continued run
and no recovery takes a merge back. `MergeInv` says that the manifest
of a running session is queued or in flight and its alone (`Running`), that what a
command read of its session still holds (`Current`), and that a run's manifest is
in the state of the run's step (`Owned`).

**Evidence of a build** (`Services_proofs`). `EvidenceIsSound`: what a merge
rests on is weighed in one action long before it, so the invariant follows it from
there. `ClaimJudged` and `BlockersFound` say that what speaks against the build
became a blocker, `MergeReady` that a merge saw none, `ScopeTaken` that the scope
still is what changed between the snapshots when the agent has gone.

**Governance** (`Governance_proofs`). `GovernanceIsSound`: `GovernanceInv` adds that
a stored halt is recorded in the ledger too unless its change raised
(`RowsRecorded`), because a switch that loads the rows takes over halts it never
recorded itself. `GovernanceIsKept`: the three claims on every step, from the same
invariant.

**The command runner** (`Services_proofs`). `RunnerIsSafe` and `AgentGroupIsGone`:
what a caller may rely on when it returns was decided by what it waited for
earlier, while processes went on forking. `RunnerBehind` carries it along: a group
that is empty stays empty, and pipes that nobody holds stay closed, because a
child has no more than its parent.

**Project set-up** (`ControlPlane_proofs`). `BootstrapIsSound`, for any number of
commands in one directory. The directory of the keys is made once, and whoever made
it is the only one that ever writes a key; `BootInv` says who that is, what each
command at work has read of the four files, and that it still stands, because
nobody removes the folder while a command is at work in it.

**Review routing** (`ControlPlane_proofs`). `ReviewsAreSound`, for any rosters and any
answers. `DispatchInv` says what the reviewers at work were drawn from, that answers
do not change once all are there, and which round the stored review is of. That no
reviewer is the builder's model is an induction over the list of the models
(`AmongFacts`); that a triad is refused only where it must be is a counting
argument: three available models that differ make three independent reviewers.

**The cascade** (`ControlPlane_proofs`). `CascadeIsSound`, for every finite graph and
every limit: the queue that takes one node at a time computes what `Within` says
without one. `AtDistance` is the invariant of a search in breadth: at any time all
nodes within some distance d have been seen, those at d that still wait come first
in the queue, all others within d were searched, and what else was seen lies at
d + 1. `NextDistance` moves it on when the last node at d was taken,
`SameDistance` keeps it while one is. That the result is cut exactly when there
is more to reach needs `NearEnds`: a distance that adds nothing is followed by no
distance that does, and one of the first as many distances as there are nodes
adds nothing, because each that adds something adds a node.

**The legacy register** (`ControlPlane_proofs`). `LegacyIsSound` and `LegacySettles`,
for any users beside one builder, who may all die between two writes. Every
command reads an entry of the register, decides, and writes it later. `UserFits`
says that what it read still holds unless the entry is in `raced`, and `Met` that
an entry which two of them hold is. `ItemsFit` ties an item to the promotion of
its entry. For the checkpointed review, `SessionHonest` and `BuilderHonest` say that
the checkpoint in the session, and the one a builder has in its hands, claim
only what the register holds, `StopPast` and `SessionDone` that the review
goes forward, and `OnceFits` that without deaths and races nobody is asked twice.

**Stored manifests** (`Records_proofs`). `RegistryIsSound`, for any manifests, commands
and agents. `Apart` says that the id of a manifest which is not stored yet is
nobody else's, so that its creation can be recorded before; `ErrandFits` that who
made a stored manifest never changes under a command that holds a copy of it. The
stories of a specification are the exception: they are stored before they are
audited, so that for them the theorem says only that a story in the ledger has its row;
`SealFits` that a sealed copy was signed in the ledger and has the rating its seal
covers, and that past the signature only `ces execute` may hold an unsealed one.

**Rules** (`Records_proofs`). `RulesAreSound` puts together four parts that share no
state; `PartsAreTheirOwn` proves that studying them one at a time in one run loses no
behaviour of any. *Gates*: that no table is out of order follows the way of
a decision, from the risk to a category (`CategoryOrdered`), from there to a gate
(`GateOrdered`) and past the confidence (`ElevationOrdered`); `GateInv` counts, for
each profile, its places in the history of the process. *Repairs*: each claim but
the last was answered by a repair (`LoopInv`), which bounds both. *Hidden checks*:
what a window has shown after n rates is an induction (`Iteration`) over the
recursive function `SeenIn`; on it rests that a profile is called gaming exactly
when one of its full cycles fell 15 points below an earlier one.
*The vault*: `KeeperFits` says that a note an invalidation may pass over was
changed by another caller, or is among the rows it still has or is about to read;
that at most three notes reach a prompt of the highest risk is a counting
argument about the strict order of their scores (`LastOfFour`).

**Specifications** (`ControlPlane_proofs`). `PlansAreSound`, for any planners and files
of any length. Two algorithms are shown to compute what a relation says.
`SearchExact`, for the depth-first search of the validation: it reports a cycle
exactly when there is one, because each node on its stack depends on the one above
it, so that a node met again closes a cycle, and what is left as visited depends on
nothing else and has none (`SettledIn`); with room for one more id than the file has
the search never runs out of it. `OrderIs`, for the queue of the build order: the
degree of a row is the number of rows it still waits for (`KahnFits`), so that what
is left when the queue is empty needs one another. `PlanInv` says of the rows
of a planner that they are those of the stories it has saved, the last of each id,
under a file that passed the validation. A cycle among rows is therefore one in
a file, and a valid file has one only where two of its stories share an id and only the
first of them has been saved.

**The store** (`Services_proofs`). `StoreIsSafe`: a store that is open has the
current table and nothing of an interrupted migration, whatever database it was
opened over. `StoreIsTable`: opening, stopped anywhere, implements `FindingsTable`
step by step, which loses no finding. `StoreInv`
says for each statement what the connection sees when it gets there (`Reached`) and
relates that to the file: what a transaction would commit, and what a crash would
leave, hold the same rows (`KeptIn`, `Uncommitted`).

**Semantic reviews** (`Services_proofs`). `ReviewIsCurrent`: a decision without a
warning cites a review of this diff, made with the verification on record, which
leaves no risk, and lacking nothing of the contract the review was generated with.
A bundle is written file by file while diff
and verification move on; the invariant says that all files of a bundle are of one
instant unless the verification was replaced meanwhile (`OneRecord`), and what an
approval compares when it decides (`Weighed`).

**Intake contracts** (`Services_proofs`). `IntakeIsSound`. A contract becomes the
latest one at most once, so that the turn in which it did orders all files that
are drawn from it (`Left`, `Apart`, `OrderFits`); a proof card reads one of them
after the other, in the direction in which the turns cannot go backwards.

**What a session is told** (`Services_proofs`). `GuidanceIsSound`. Report, diagnosis and
plan are functions of the latest session and its rows, all of them written by
earlier commands. `RunFits` says of each running command what it has stored by now,
`SessionFits` of each way in which a session can have ended what its manifest,
its approval and its evidence then are. A completion or a recovery that was killed
leaves the session behind its manifest: `unrecorded` collects these manifests, and
the cases of `SessionFits` hold for all others. The five claims follow.

**Readiness** (`Services_proofs`). `AdviceIsSound`. That the climb is listed, that the
measures agree and that the advice passes the program's own gate holds of the scan
of every project there is. A plan, which scans four times, agrees with itself
while nobody edits: `ScansFit` says what each scan has left in it, and
`PlanAgrees` carries that to its end.

**The harness** (`Services_proofs`). `HarnessIsSafe`, of lessons and changes, which share
no state, side by side. `LessonInv` ties the status of a lesson to the last decision of
an operator, through the list that is read, cut and written again
(`KeepingFacts`); a report of the changes is judged by the verdicts on record
(`ReportFollows`).

Assumptions: those named with `ASSUME` in the modules (a genesis value that is no
hash, natural numbers for bounds, at least one process, with the
keepers of trust profiles among them, a set of files without the two the code
treats apart, finitely many nodes below a changed artifact, finitely many users of whom none
is the builder, rates of hidden checks that are whole percentages, and a limit on
the depth of delegations that is no larger than the one on their number, as 3 and
10 are). They are
evaluated by every run. The theorems that assume more say so in their statement:
`DecisionsAreSound`, `RowFollowsLifecycle`, `SessionIsSound`, `MergesStand`; each of these assumptions is met by the run
that checks the property, and dropping it makes the property false as described.

The inductive invariants were checked by TLC as invariants of small instances
before they were proved, that of sessions with one process that gives all commands.

### What is only model-checked

Every invariant and every action property that a run checks is stated by a
theorem. Liveness (`ExecuteEnds`, `AbandonedIsFreed`, `CallEnds`, `GetsOpened`) and
everything about `ENABLED` is out of the prover's reach and stays with TLC, as do
the runs that show a disagreement. Induction over data is not offered by the
library in a form the provers can use, since its theorems take an operator;
`IterationRules` derives it, for sets, from the well-foundedness of the natural
numbers, and what a recursive function computes is proved from its lemmas where
a theorem needs it (`AmongFacts`, `NearFacts`, `SeenIn`, `KeepingFacts`, `VisitRight`,
`KahnEnds`). A fold of the library stays closed to this. No module uses a
`RECURSIVE` operator.

## 6. Plan

What is written follows the order in which the program's own promises depend on
each other: the ledger; the state machines and the merge; the commands over a
manifest; sessions and recovery; intent, evidence and proof; what is kept on
record; what is reported. What would add most next:

1. Theorems that assume less: the sessions of processes that recover beside a
   run, with the exceptions named that the code reaches there.
2. The write-back of a session as two transactions (section 8), with the
   properties of sessions stated again over it.
3. The parts listed as planned in section 8.

## 7. Reading order

`HashChain`, then `AuditLedger` with its proofs; `Workflow`, `Lifecycle`,
`WorkflowEngine` with its proofs; `MergeChecks` and `MergeController`; then
`ManifestLifecycle` and `BuilderSession`, the two largest, which compose what
came before. The other modules can be read in any order: each starts with a
comment that says what it models and what it takes as given.

## 8. Not modelled

- *Text.* Prompts, transcripts, guidance, reports, tables, JSON views, error
  messages. Where a decision depends on a text (the words that make a request
  risky, the patterns of a scan, the claim of an agent, the answer of a
  reviewer), the model has the set of the outcomes the code tells apart and takes
  any of them.
- *Static inputs.* What a single sensor or scanner finds in a file, how a signal
  of readiness is recognised, how two texts are compared.
- *Cryptography.* HMACs and signatures are values that differ when what they
  cover differs. Key rotation and a restored backup of the ledger are left out;
  a ledger whose first rows were cut off verifies, because the first row's link is
  not compared with anything.
- *The agent.* What it writes is any set of files, what it says any claim.
- *Lost updates inside one session row.* `update_builder_session` reads the row
  in one connection and writes all its columns in another one; `BuilderSession`
  takes it for one step, since the windows it studies are minutes long.
- *Interviews.* `ces intake interview` cannot get past its first question: the
  engine is built without a repository (`_factory.py:280`).
- *Code without a caller.* `validate_manifest`, `verify_manifest`,
  `classify_manifest`, `check_downgrade`, `check_tool_access`, `validate_action`
  and `validate_promotion` are reached by no command. Hidden checks, the log
  monitor, the token budget, the circuit breaker, decay and invalidation are not
  either, but keep state of their own; they are modelled as their callers must
  take them.
- *Observability and benchmarks.* Counters and reports that nothing decides by.
- *Other commands.* `doctor`, `status`, `audit`, `report` and the like read and
  print; what they say of a session is in `BuilderGuidance`.
