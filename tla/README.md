# ContractPlane in TLA+

These modules model the part of ContractPlane that keeps state, which is the transition kernel
`ExecutionMachine` (`src/contractplane/state.py`) and the `JsonlLedger`
(`src/contractplane/ledger.py`) it writes to; the way of a DomainPack through `loader.py`,
`models.py`, `compiler.py` and `cli.py` to a compiled plan; and the script that synchronises a
bundle, `scripts/sync_openclip_pack.py`. TLC checks them on small instances; TLAPS proves the
main results for every plan, pack and number of processes. Paths below are relative to the repository root.

## 1. The system

### Components, state and operations

| Component | State | Operations |
|---|---|---|
| Transition kernel, `state.py` (`_validate_event`, `_apply_event`) | execution status, sealed flag and unit dict of each stage group; per unit: status, attempts, outputs, evidence | one event type each: created, started, succeeded, failed, cancelled; stage sealed; unit registered, ready, started, claimed, awaiting evidence, completed, skipped, failed; authorization requested, decided; evidence recorded |
| Machine API, `state.py` (public methods) | one machine object per process, plus the call that is running | `create`, `replay`, `start`, `register_unit`, `seal_stage`, `authorize_unit`, `start_unit`, `claim_unit`, `record_evidence`, `skip_unit`, `fail_unit`, `cancel` |
| Ledger, `ledger.py` | a file of JSON lines, a file lock | `create_execution`, `append`, `read`, `has_execution` |
| Compiler, `compiler.py` | none that lasts; `topological_waves` keeps counters and a worklist, the plan grows stage by stage | `topological_waves`, `compile_plan`, `inspect_pack` |
| Loader, `loader.py`; models, `models.py`; schema, `schema.py` | none that lasts; `_cycle_nodes` keeps counters and a worklist | parse and validate a DomainPack |
| CLI, `cli.py` | the file named by `--out` | `schema`, `validate`, `inspect`, `compile` |
| Bundle script, `scripts/sync_openclip_pack.py` | the files of the pinned bundle | verify the upstream checkout, delete, write, report |

### How they interact

The loader and the compiler turn a DomainPack into an immutable `ExecutionPlan`. An adapter
(outside the repository) creates or replays an `ExecutionMachine` for it and calls its methods.
A method checks the memory of its own object and then calls `_emit` once or several times; each
`_emit` validates the event against memory, appends it to the ledger and applies it to memory.
Several processes may use the same ledger file, for different executions or for the same one;
the only thing they share is the file and its lock, which is held for one append at a time.

The bundle script runs by itself. It reads an upstream checkout that developers go on working in,
asks git and the published tags about it, and writes the files of `domain-packs/openclip`, which the
conformance tests read later.

### What is hard

* A call is several events and no transaction: it can stop between any two of them.
* The ledger does not validate events; two machines on one execution validate against memories
  that may both be stale.
* The barrier over `needs` has to hold through fan-out, retries, skips, denial and cancellation.
* Retries must not see the outputs, receipts or authorization of an earlier attempt.
* The kernel must take every step that is its own (materialize, seal, complete, succeed) inside
  the call that made it possible: no later call makes up for it.
* The ledger file is read, extended in a buffer and flushed; writers can die in the middle, and
  where `flock` is missing there is no lock at all.
* An append can raise although its line is in the file, and a power failure takes lines that `fsync`
  has not reached, whose errors are swallowed.
* Loader and compiler decide with two loops whether a flow can be ordered, and nothing compares them.
* The compiler looks up capabilities, policies, evidence and flows without a check and relies on
  checks of the loader that stand in another file.
* The bundle script reads the checkout file by file while it may change, and writes many files
  without a transaction.

`PROJECT.json` lists each hazard at its line with the properties that watch it.

### What makes each component correct

* Kernel: `needs` is a barrier; completion is proven by accepted receipts; `maxAttempts` bounds
  the starts; attempts are independent; the outcome of an execution is that of its units; what is
  settled stays settled.
* API: memory equals the replay of the ledger; no call is refused half-way; a complete call leaves
  nothing undone and never a dead end; every execution can end.
* Ledger: one gap-free sequence; an id is reserved once; what was acknowledged is in the file, or
  the file is refused.
* Loader and compiler: they agree on which flows can be ordered; a plan holds every stage once, after
  what it needs and no later than it must be; what is accepted compiles, and the plan has the gates,
  schemas and roles its contracts demand.
* CLI: the file of `--out` is touched last; what is refused leaves it alone, and only a write that fails
  or is cut short leaves less than a whole plan in it.
* Bundle script: what is reported as synced is one whole commit; a mixture left by a crash does not
  pass the tests; only released files are installed where a release is required.

## 2. Modules

| Module | What it is | Code |
|---|---|---|
| `ExecutionPlan` | the plan as constants, with `PlanAssumption`; what `topological_waves` lets through (`CompiledPlan`) | `CompiledStage`, `UnitRef` |
| `KernelEvents` | machine and event records, `ValidateEvent`, `ApplyEvent` | `_validate_event`, `_apply_event`, `dependencies_satisfied`, `_all_work_satisfied` |
| `KernelInvariants` | what is true of one machine record | - |
| `EventKernel` | all event sequences that `replay` accepts | the loop of `replay` |
| `StageBarrier` | abstract: stages open, finish, the run succeeds or stops | - |
| `ExecutionMachine` | processes with machine objects, calls, a shared ledger | the public methods, `_emit`, `_materialize_singletons`, `_unlock_or_finish`, `create`, `replay` |
| `EventLog` | abstract: an append-only log with reservations | - |
| `JsonlLedger` | the file, step by step, with its lock | `_locked_file`, `_decode`, `_append_locked`, `create_execution`, `append` |
| `LoggedMachine` | machine and file together: each append as write, `fsync`, return; late errors, torn lines, power failures | `_emit` with `_locked_file` inside it, `create`, `replay` |
| `FlowOrder` | the loops over `needs`, round by round, from a loaded flow to its waves | `_cycle_nodes`, the checks of needs, `topological_waves` |
| `PackContracts` | a call of the CLI on a pack, from the file to the exit | `load_domain_pack`, `semantic_issues`, `policy_for`, `_resolve_flow`, `_compile_stage`, `to_json`, `_write`, `main` |
| `BundleSync` | the script, read by read and write by write, beside developers and crashes | `sync_openclip_pack.py` |
| `MC_*` | plans, packs, commits and bounds for TLC | - |
| `KernelEventsProofs` | lemmas about a single event, and `KernelInvStep` | - |
| `EventKernelProofs` | the theorems about `EventKernel` | - |
| `ExecutionMachineProofs` | the theorems about `ExecutionMachine` | - |
| `JsonlLedgerProofs` | the theorems about `JsonlLedger` | - |
| `LoggedMachineProofs` | the theorems about `LoggedMachine` | - |
| `FlowOrderProofs` | the theorems about `FlowOrder` | - |
| `PackContractsProofs` | the theorems about `PackContracts` | - |
| `BundleSyncProofs` | the theorems about `BundleSync` | - |

Refinements: `EventKernel` implements `StageBarrier` (`ImplementsBarrier`), `JsonlLedger` implements
`EventLog` (`ImplementsLog`), and `LoggedMachine` implements `ExecutionMachine` but for two kinds of
step that the latter does not have (`ImplementsMachine`). That the replayed ledger of
`ExecutionMachine` is a history of `EventKernel` is not listed as a property: the model keeps of a
ledger only what `replay` accepts of it, so this holds by construction.

A definition named `X_Fault` that stands before `X` is `X` with a plausible bug. No specification
uses it; each property has one such bug that it is known to catch.

### How the model stands for the code

* A machine is a record `[created, status, sealed, unit]`; `unit` is a function over all unit
  references of the plan, and a unit that the code has no entry for is `"absent"`. The outputs of a
  unit are `"empty"`, `"conforming"` or `"violating"` (against the capability's output schema). Its
  evidence dict is three sets: ids `recorded`, ids `accepted`, and ids whose receipt is `matching`
  its schema. Texts are dropped, except that a reason may be `"blank"`, because two checks disagree
  about that.
* `ValidateEvent` has one disjunct per event type with the conditions of the code; `ApplyEvent` one
  case per event type with its assignments. Payload checks that concern only the form of a JSON
  object are the type of the event.
* In `ExecutionMachine` a call is the sequence of tasks in `todo[p]`: the events it will emit, a
  scan for singletons (`materialize`) and the test at the end (`finish`). `Emit` is one `_emit`;
  between two of them other processes move. The part of the ledger that belongs to the execution is
  kept as what `replay` makes of it: the state `view` it reaches, and whether it is `replayable`.
  The whole event sequence is never needed, because replay is a fold of the same two functions.
* `materialize` takes one stage at a time in plan order and starts again; the code goes through the
  plan once. They are the same because a unit that was just registered satisfies no dependency.
* A process that exits or dies loses its memory (`Close`). `Exclusive` says that the deployment
  keeps one machine per execution; without it several are live at once.
* In `JsonlLedger` a line is the events whose text is on it and how it ends. A write goes to the end
  of the file: if the last line has no newline the text is glued to it, as an append does.
* `LoggedMachine` takes the calls from `ExecutionMachine` by `INSTANCE` and replaces its atomic append
  by `Flush`, `Sync` and `Apply`. A line of the file stands for what `replay` reaches with it, so the
  last line stands for the replay of the whole file. `end` says how the file ends: with its newline,
  without one (the next append glues its line to it), or with text that does not decode, after which
  every operation raises: `Replayed`, which is what `replay` gets, refuses such a file, while `History`
  is what its lines amount to one by one and serves the refinement only. A creation is one step when
  it succeeds; `CreateFails` leaves its line, or a part of it, without `fsync`. `synced` counts the
  lines that are on the disk. `Exclusive` is as above;
  `Discards` says that the adapter drops a machine when a call of it has raised and replays it. Both
  are assumptions about the adapter, which is not in the repository.
* In `PackContracts` ids are model values, collections are sequences (an id may be declared twice,
  and the maps then keep the last), and a call is one request on one pack. Each phase (`load`,
  `structure`, `semantics`, `compile`, `emit`, `open`, `write`) is the code between two possible
  failures, and the process may be killed between any two. `exit` is `"rejected"` for a
  `ContractPlaneError`, which `main` reports, and `"escaped"` for any other exception. `file` says what
  is wrong with the file of the pack: the loader reports a missing file and YAML that does not parse,
  and lets escape what else reading may raise (`OSError`, `UnicodeDecodeError`, and the `ValueError` of
  a YAML date such as `2024-13-01`). `_write` is `Path.write_text`: `Open` empties the file of `--out`,
  `Write` fills it, and `WriteFails` or `Kill` may come in between. Checks of the JSON Schema that
  nothing later relies on are one flag of the pack.
* In `BundleSync` the checkout and the installed bundle are functions from file names to contents (or
  `"absent"`, or `"torn"`). A content is its own SHA-256; what a manifest compiles to and what a plan
  means are constants. A content of `lock.json` is the sequence of its entries, as the script takes
  them: the manifest, `roleContracts`, `compiledPlans`. The two lists have any length and a path may
  occur twice in them; the script counts the entries of the first (`RoleEntries`), asks for one plan
  or more, compares the `planDigest` of each, and looks among them for a `shorts` plan to compare with
  the compiled one. `Order` is the order in which `sync` writes: pack, fixture, `lock.json`, the entries,
  and `SOURCE.lock.json` last; the order of the deletions is left open. `SyncAssumption` says that the
  paths in a lock are none of the other files, that the manifest comes first, and that a lock pins
  digests of contents. `Published` is what a version's tag
  on the remote resolves to. `Moves` says whether developers touch the checkout during a call.
* In `FlowOrder` a flow is its set of stage ids and a function from each to the set of its `needs`.
  Ids are unique, because the loader rejects duplicates and the schema repeated needs. A flow with
  `validated` goes through the loader first; one without is compiled directly, as the exported
  classes allow. A round of a loop is one action; the order of the worklist and the order within a
  wave are left open, so the properties hold for every order, the declaration order of the code
  among them. `topological_waves` removes the stages of a wave one by one; as it does not look at
  the counters until the wave is done, `NextWave` takes them all.

## 3. Runs

| Run | Module, cfg | Question | Result |
|---|---|---|---|
| `kernel` | `MC_EventKernel` | Are all event sequences `replay` accepts sound? | pass, 11,982 states |
| `machine` | `MC_ExecutionMachine` | One machine at a time, with exit, crash and failing appends | pass, 39,695 states |
| `progress` | `MC_ExecutionMachine`, `MC_Progress.cfg` | Does every execution end? | pass, 6,164 states |
| `races` | `MC_Races` | Two machines at once on one execution | pass |
| `ledger` | `JsonlLedger`, `MC_JsonlLedger.cfg` | Two writers on one file, with crashes and torn writes | pass |
| `logged` | `MC_LoggedMachine` | The machine on its file: late errors, torn lines, `fsync`, power failure | pass, 364,649 states |
| `flows` | `MC_FlowOrder` | Do loader and compiler agree, and are the waves right? | pass, 50,827 states |
| `packs` | `MC_PackContracts` | Does what the loader accepts compile, and into a plan that is governed? | pass, 565,512 states |
| `bundle` | `MC_BundleSync` | Is what is reported as synced one whole commit? | pass, 919,027 states |
| `dispatch` | `MC_EventKernel`, `MC_Dispatch.cfg` | Does the validator ask for authorization at each attempt? | violated |
| `resume` | `MC_ExecutionMachine`, `MC_Resume.cfg` | Are singletons materialized after a crash? | violated |
| `denial` | `MC_ExecutionMachine`, `MC_Denial.cfg` | Does a denial end the execution? | violated |

The type invariants of `EventKernel`, `JsonlLedger`, `FlowOrder` and `PackContracts`, and
`SealedHasWork`, are in no run: they are proved.

**Bounds.** `kernel`: three stages in a chain, which is the shortest plan where a barrier has a
barrier behind it; between them they have every combination the validator distinguishes: singleton
and fan-out with two unit keys, both approval policies, one and two attempts, no gate, one gate and
two gates, with and without a schema, conditional or not. `machine` and `progress`: a fan-out stage
with evidence and retries, before an authorized conditional singleton; two processes, so that one
can resume what the other has left. `races`: two singletons and two processes with symmetry between
them (no liveness is checked there). `ledger`: two writers, two executions, operations start while
the file is shorter than `MaxLines = 4`; three lines are enough for a torn write, the write glued to
it and an acknowledged one before them. `attempts` is bounded by `MaxAttempts`, so the kernel needs
no bound of its own. `flows`: every flow of up to `MaxFlawed = 3` stages, with own and unknown
needs, and every flow of `MaxStages = 4` whose needs pass the checks; that has two cycles side by
side, a cycle with stages behind it, diamonds, and chains of four waves. `logged`: two singletons,
the first with two attempts and evidence, the second authorized; one process at a time, as
`Exclusive` has it, one power failure (`MaxLosses = 1`) and one swallowed error of `fsync`; that has
every position of a failure in an append, before and after a retry and a completion, and a call that
is refused half-way. `packs`: three families around one base pack, which vary the policies, what a
stage asks for, and the flows; each breaks every reference on its own and together with others of
its family; each pack with every failure of its file and with every state of `--out`. `bundle`: five
commits: a release that lists a role contract twice, a release with another manifest, a commit whose
tag is only local, a release with a second plan, and one whose lock lists too few role contracts; one
uncommitted change at a time, which breaks or reformats `lock.json` or gives it a wrong digest; a script
that dies anywhere and is called again, on the same commit or another. `RoleCount` is 2 for the
`len(roles) != 13` of the script; the proofs have any number. Deadlock is not checked: an execution that has ended accepts
nothing, a ledger at its bound starts nothing, and a flow that is decided stays so.

**Fairness** (`FairSpec`, only in `progress` and `flows`). In `flows` both functions run to their
end (`WF` on `Next`): they are sequential and wait for nothing. In `progress`: A call that runs is
run to its end: nothing in the code waits inside a call (`WF` on `CallStep`). Somebody creates the
execution and picks it up when nobody holds it (`WF` on `Create` or `Replay`). An adapter that can
do work again and again does some (`SF` on `Work`; strong, since processes may exit between calls).
Which work it does is open: it may fail units, but `maxAttempts` bounds the retries, and in the
model the unit keys of a fan-out are finite. Crashes inside a call are excluded there, because the
`resume` run shows that they can leave an execution that never ends unless it is cancelled.

## 4. What the runs show

* Every history `replay` accepts keeps the barrier, gates, budgets and outcomes, whoever wrote it.
* With one machine per execution, memory and ledger never differ, at any point of any call, through
  failed appends and crashes; the checks of the methods are exactly strong enough that the validator
  never refuses an event in the middle of a call (the one exception is below).
* `MemoryMatchesLedger` is about appends that fail and processes that die: nothing is applied that
  was not appended, or the other way round. That `replay` applies an event by the same function as a
  live call does is how the program is written, and the model has it so.
* Complete calls leave no unit that waits for the kernel and no dead end.
* With two machines, the ledger may become one that `replay` refuses, but the part it accepts is a
  legal history, and nothing either machine believes settled is missing from it. Each machine stays
  sound by itself.
* Under the lock (`Locking = TRUE`; `ReservedForOne` and `ImplementsLog` hold only there) the ledger file
  is an append-only log. After a torn write it is refused for good,
  for every execution in the file: it never decodes with an acknowledged event missing.
* On the real file, with one machine that is dropped when a call raises, a file that decodes replays,
  and to what the machine has in memory, but for the event that is being appended. What a caller was
  told survives crashes, late errors, lines that lack their newline and power failures, and no worker
  is sent off more than `maxAttempts` times. There are two exceptions. If an error of `fsync` was
  swallowed and the power fails after it, a confirmed completion can be gone. After a torn line, or a
  line glued to one without its newline, the file is damaged: `replay` and every append raise for good,
  and of such a file `MemoryIsReplay` and `ConfirmedSurvives` claim nothing; a machine that is still
  alive can be ahead of what anybody will read again.
* Loader and compiler report the same stages, and the right ones, as being on or behind a cycle; what
  the loader accepts compiles. Both loops end for every flow.
* No lookup of the compiler fails on a pack that the loader has accepted; a compiled stage has the
  evidence, schemas and role that its policy and capability demand, whether the policy is its own or
  the default. Once a pack is accepted, only a plan that JSON cannot express and the file of `--out`
  make an exception escape; before that, the file of the pack may. `compile` opens the file of `--out`
  only for a plan of an accepted pack that is already text, so whatever is refused leaves an older plan as
  it was; but it is opened by emptying it, so a write that fails or is cut short loses the older plan and
  leaves a part of the new one (`OutIsOlderOrWhole`).
* While nobody changes the checkout during a call, the bundle script reports as synced only one whole
  commit, whatever crashed before; a mixture never passes the conformance tests, because of the order
  of the script: superfluous files are deleted first, and `lock.json` is the first file of the bundle that
  is written; under `--require-release` nothing unreleased is written, pack and fixture included.

Three statements of the repository are not what the code does:

* `resume`: "the kernel auto-materializes singleton units" (docstring of `ExecutionMachine`). A crash
  between two events of a call loses the materialization; replay does not repeat it, and no call
  supplies the singleton afterwards.
* `denial`: the test on denied authorization expects the execution to be failed. A denial whose reason
  is only white space is recorded, and then `execution.failed` is refused: the unit is failed and the
  execution stays running. (`NoCallIsRefused` is checked with the other reasons.)
* `dispatch`: the tests say that each attempt needs a fresh authorization. The validator asks for it
  at the first dispatch only; the API keeps to it (`DispatchIsAuthorized`), a ledger written by
  something else need not.

Further boundaries that the models make visible, each as an assumption in the properties above:

* `JsonlLedger` with `Locking = FALSE` violates `ReservedForOne`: where `fcntl` is missing or `flock`
  fails, the operations go on without a lock (`ledger.py:34-35`) and two callers may both reserve an id.
* `LoggedMachine` with `Discards = FALSE`: after an append that raised at its close (`FailLate`), the
  call repeated on the same machine appends its event a second time, and the ledger no longer
  replays. An adapter has to replay after an exception.
* `BundleSync` with `Moves = TRUE` violates `SyncedIsWhole`: the files are read first
  (`sync_openclip_pack.py:243`), git is asked afterwards (`:244`), and `lock.json` is read twice
  (`:145`, `:151`); a checkout that changes in between is installed under the name of a commit that
  does not hold it.
* A pack whose binding configuration or schema holds a YAML date passes `validate`; `to_json` and
  `digest` then raise a `TypeError` that `main` does not catch (`compiler.py:113`, `cli.py:108`), although
  `schema.py:61` calls the configuration "preserved in compiled plans". An `--out` that cannot be opened
  or written raises an `OSError`. `AcceptedCompiles` names these two as all that escapes for an accepted
  pack. Reading the pack lets escape what `loader.py:377-380` does not catch: an `OSError`, a file that
  is not UTF-8, and a YAML date that does not exist.

## 5. What is proved

For every plan that satisfies `PlanAssumption` (the constants have their types, `maxAttempts` is at
least 1, the default key is a unit key; stages, keys and evidence may be any sets, finite or not, and
`needs` need not be acyclic), `EventKernelProofs` proves of `EventKernel`:
`TypeOK`, `Barrier`, `SealedHasWork`, `CompletedIsProven`, `RetryBudget`, `FreshAttempt`,
`OutcomeJustified`, the step property `SettledIsFinal`, and `ImplementsBarrier`.

**Inductive invariant.** `KernelInv(m)` is `m \in Machine`, `BarrierOf`, `SealedOf`, `OutcomeOf`,
`Untouched` and `UnitsOK`. The properties are not inductive as they stand: that a completed unit has
its receipts depends on what an `awaiting-evidence` unit may hold, and that depends on what a retry
clears. `UnitsOK` says of each unit, status by status, what its attempts, outputs and evidence can
be. `Untouched` says that before the start nothing has happened, so that `execution.created`, which
the validator does not tie to a status, resets nothing.

**Argument.** `StepCases` shows that a legal event does one of four things: it moves one unit
(`UnitMoves`), seals one stage (`StageSeals`), changes only the status (`ExecutionMoves`), or cancels
(`ExecutionCancels`). There is one lemma per kind of event. The invariant, `SettledIsFinal` and the
refinement are then proved from these four cases, without the events. `GroupsGrow` and `SettledStays`
carry the barrier: a sealed group gains no unit and a satisfied unit never changes, so a satisfied
stage stays satisfied whatever happens around it.

**The API.** `ExecutionMachineProofs` proves of `ExecutionMachine`, for every such plan, any set of
processes and all faults: `TypeOK`, `MemoryMatchesLedger`, `EveryMachineIsSound`,
`ConfirmedInLedger` and `DispatchIsAuthorized`. `MachineAssumption` gives the
types of the constants; the proofs need none of it. Of `DenialReasons` nothing is assumed: a blank
reason is covered as well. The inductive invariant has five parts:

* `Typed`: the types, with `CallTasks` for the tasks that a call may have left. No call has
  `execution.created` among them, nor `unit.ready` for a unit of a stage with `humanApproval`
  `"always"`; this is what `DispatchIsAuthorized` rests on, since the validator alone would let a
  retry through.
* `Held`: a process has a created machine exactly as long as it is live, only for an execution that
  is in the ledger, and only a live process is in a call. So `create` can only meet a ledger that is
  still new (`BlankMachine`).
* `MachinesOK`: `KernelInv` of the replayed ledger and of every machine, by `KernelInvStep`.
* `OneMachine`: with `Exclusive`, the live machine equals the ledger. It is stronger than
  `MemoryMatchesLedger` by "at most one process is live", without which the memory of another
  process would fall behind.
* `LedgerConfirms`: what a machine holds for settled is settled in the ledger. An event that both
  accept settles the same unit or stage in both (`ConfirmedStep`), and an event of somebody else
  undoes nothing (`ConfirmedGrows`).

`NextCases` reduces the methods to five kinds of step: creating, replaying, closing, changing what is
left of a call (`Retasks`), and sending one event to the ledger (`Emits`); the invariant has one
lemma for each (create and replay share `OpensInv`). `LedgerMoves` says what a step does to the
ledger, from which `DispatchIsAuthorized` follows.

**Flows.** `FlowOrderProofs` proves of `FlowOrder`, for every set of flows with finitely many stages
and needs (`FlowAssumption`): `TypeOK`, `CyclesAreReal`, `AcceptedCompiles`, `WavesRespectNeeds`,
`WavesAreMaximal` and `PlanCoversFlow`. The inductive invariant says what the counters count: in the
loader, the needs that are declared and not visited; in the compiler, the needs that remain. So
"nothing is ready" means that each stage left needs another one left, and by definition such a set
lies in `Entangled`. The other direction is that `Entangled` is never reached: a stage of it needs
one of it, so its counter stays above zero. `Accepted` carries the loader's answer to the compiler. `LoopsRunOut` adds a measure, `StepsLeft`, that
each step brings down: the stages not yet visited while the loader checks, then those not yet in a
wave. So the two loops end for every flow, after at most two rounds for each stage and three steps.

**Packs.** `PackContractsProofs` proves of `PackContracts`, for every set of packs and requests:
`TypeOK`, `AcceptedCompiles`, `PlanIsGoverned` and `OutIsOlderOrWhole`. `PackAssumption` says that the
collections of a pack are sequences and that no id is one of the two reserved results of
`_resolve_flow`. The inductive invariant says what each phase has established (`Established`: from
`semantics` on the pack conforms, from `accepted` on it is sound; `Compiling`: the chosen flow is
declared, and the plan is the image of its stages; from `open` on the plan has a JSON form, and until then
nobody has touched the file of `--out`). `GetFinds` is the key lemma: in a collection with
unique ids a lookup returns the item that was declared. Every lookup of `_compile_stage` is then
reduced to the check of `semantic_issues` that covers it.

**The ledger.** `JsonlLedgerProofs` proves of `JsonlLedger`, for any number of processes and
executions, with crashes and torn writes, where the lock works (`Locking`): `TypeOK`,
`AckedOrRefused`, `ReservedOnce` and `ReservedForOne`. `Mutex` and `Prepared` say that what `_decode`
found under the lock is still so at the flush. `ReservedForOne` is about files that were damaged
later as well, where the file itself says nothing; so the invariant speaks of `Granted`, the events
that have been acknowledged or can only be: they are recorded as long as the file decodes
(`GrantedAreRecorded`), and no two of them reserve one id (`GrantedForOne`). `WrittenOrDamaged` says
that a write either adds a line of its own or leaves a file that does not decode.

`LedgerImplementsLog` proves the refinement `ImplementsLog` from the same invariant. The log is the
events of the lines up to the first one without a complete event, so a write either adds the event
of its line (`AppendedLog`) or, if the file no longer decodes, leaves the log as it is
(`DamagedLog`); and nobody writes to a file that did not decode under the lock.

**Calls.** `ExecutionMachineProofs` goes on to prove `NoCallIsRefused`, for every plan, any number of
processes and all faults; with one machine at a time, no interruption and a plan with stages,
`SettledBetweenCalls`; and for a plan that `topological_waves` can order (`CompiledPlan`),
`NeverStuckBetweenCalls`. The three need `"blank"` not to be among `DenialReasons`: the `denial` run
shows why. The invariant is `CallsEnd`: what any call has left is accepted by its machine event by
event, for at most three events, up to a point where only the kernel goes on (a scan for singletons,
the test at the end, or nothing), and there the machine is as far settled as that point says. There
is one lemma per method for the call it makes, and one per task. Several machines do not disturb
each other, because an event is validated against the caller's own machine. `NeverStuckBetweenCalls`
follows from `Settled`: a running machine on which nothing can be done has a least stage that is not
satisfied, and `CompiledPlan` gives it.

`CallsAreFinite` is what such a call needs in order to come to its end, and has no hypothesis but
that the plan has finitely many stages: every step leaves a running call as it is or brings
`StepsLeft` down, which is four times the number of stages that have no unit (the scan for singletons
puts three tasks before those that are left each time it finds one) plus the number of tasks, plus
one for the test at the end. It rests on groups never shrinking (`SettledStays`).

**Machine and file.** `LoggedMachineProofs` proves of `LoggedMachine`, for every plan and all faults:

* `Sound`, whatever the deployment: types, `KernelInv` of every machine and every line, and that an
  append under way is for the next task of its call. `TypeOK` is a part of it.
* `IInv`, with `Exclusive` and `Discards`, which gives `MemoryIsReplay`: every prefix of the lines
  replays, which is what a power failure needs, only the one live process is in a call, and an append
  under way is for a legal event.
* `BudgetInv`, with `Exclusive` alone, which gives `StartsWithinBudget`: every machine and every line
  that may still be the last one after a power failure counts at least as many attempts as workers
  have been sent. It does not need `Discards`, since a kept machine can only append too much.
* `Kept`, which gives `ConfirmedSurvives`: a unit somebody was told is completed is completed in every
  line from the last durable one on, and stays so in the lines to come.
* `ImplementsMachine`, whatever the deployment: with the event under way taken as applied, every step
  is one of `ExecutionMachine`, or none of its concern, but for late errors and lost lines.
  `LoggedIsMachine` adds that without these three faults it is `ExecutionMachine` as it is, but for a
  creation whose process dies with its line written (two steps there), so what is
  proved of that module for crashes and failing appends holds on the file.

The properties name `Exclusive`, `Discards` and the swallowed error of `fsync` themselves, where they
need them; the theorems have no other hypotheses.

**The bundle.** `BundleSyncProofs` proves of `BundleSync`, for every set of commits, edits and faults:
`TypeOK`, also when the checkout moves during a call; and with `~Moves`, `SyncedIsWhole`,
`OnlyReleasedFiles` and `MixturesAreDetected`. The locks may name any number of files, twice or once.
`SteadyInv` says phase by phase that what a call has read is what the commit has, and `WritesInv` what
has been deleted and written; at the end of a call both give `SyncedIsWhole`. `MixturesAreDetected`
needs a memory of the calls that died. `PinnedInv`: what `SOURCE.lock.json` pins is a commit whose lock is
true. `NothingForeign`: no file is installed that the installed `lock.json` does not name, which is what
the tests do not ask. It rests on the order of the script alone: files the new lock does not name go
while the old lock is in place, and no other file of the bundle is written before the new lock is
(`LockComesFirst`). The tests compare each file that the lock does name,
so what they accept is the whole bundle.

**Only model-checked.** Liveness (`EventuallyEnds`, `EveryFlowIsDecided`), as the prover has no rule
for fairness and `ENABLED`: that the loops and the calls cannot go on for ever is proved (`LoopsRunOut`,
`CallsAreFinite`), that somebody takes their steps is not. Every other property of the passing runs is stated by a theorem.

## 6. Not modelled

* Contents of outputs and receipts, beyond schema conformance; so that the machine keeps references
  to the caller's dicts (`state.py:470`, `475`) and `snapshot` hands out its own is not seen.
* Plan digest and domain checks of `create` and `replay`: there is one plan.
* What an adapter does with a machine after an exception, beyond `Discards`, and several machines on
  a file that loses lines: `LoggedMachine` has one machine at a time.
* What happens to the file of `--out` when the power fails after a call has succeeded, a failure to
  print, and what the JSON Schema library raises for YAML that is no tree.
* In the JSON Schema, types, enumerations and unknown fields, as one flag of a pack; in the loader,
  the length of a condition; the texts of issues, plans and reports, and the value of the digest.
  YAML and JSON themselves are external.
* In the bundle script, symbolic links and path checks, and the formats of the files it reads.
* When an execution fails, its other units keep their status; the model shows this as it is.
* Error types, domain packs, fixtures, documents and the site have no behaviour.

## 7. Plan

1. Done: kernel, API, ledger, their composition, flows, packs, bundle script, each with proofs of all
   its safety properties and refinements.
2. What is left of the liveness properties that is about steps: that an undecided flow, a running
   call and an execution that has not ended have a step, and a measure for a whole execution.
3. `StageBarrier` and `EventLog` by themselves: what the abstract specifications promise, proved of
   them, and so of all that implements them.
