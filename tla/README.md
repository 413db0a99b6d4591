# Formal models of vantio-open-core

TLA+ models of the parts of this repository that keep state and change it step
by step, checked with TLC on small instances and, for what does not depend on an
instance, proved with TLAPS for every one. `PROJECT.json` maps every definition to the source
lines it models and lists the runs, their mutants, the findings and the hazards.

## Inventory

| Component | State | Operations | What is hard |
|---|---|---|---|
| Installer transaction engine (`vantio-install/vantio_install/engine.py`, `state_machine.py`) | `LOCK`, `TRANSACTION.json`, `PLAN.json`, `CONFIG.json`, `HOST-SNAPSHOT.json`, `HEALTH.json`, the evidence copy | plan, apply, status, rollback, uninstall, verify-removal | a process can stop between any two writes; a resume must continue from the checkpoint and nothing else |
| Live executor and mutator (`live_executor.py`, `mutator.py`, `commands.py`) | `PARTIAL-MUTATIONS.json`, the host | one grant per command, then one dispatch per operation: run, note, check the host, merge the delta | commands that fail, time out or exit 0 without an effect |
| Health and residual (`health.py`, `observe_health.py`, `residual.py`, `bpf_pins.py`) | none | a verdict from the snapshot, Docker and bpffs | a snapshot or a pin that is older than the host |
| Customer path (`one_command.py`, `bundle_fetch.py`, `host_prep.py`, `enroll.py`, `self_serve.py`, `enforce_apply.py`, `preflight.py`, the artifact verifier) | licence, bundle directory, boot files, unit drop-ins, the container, the evidence directory | fetch, host-prep, install, enforce, enroll, unenroll, remove, verify-removal | steps without a checkpoint; a loader that starts, reports and dies by itself |
| Boot hold (`boot_hold/`) | policy, registry, hold state, unit files, packet chains, AppArmor profile | install, apply-boot, release, break-glass, remove, enroll, opt-out, configure | no lock; readiness is probed and used later; reboots |
| AWS lab (`scripts/aws`) | instances, volumes, groups, rules, tags | launch, arm, collect, teardown, verify, sweep | lost answers, dead runners, a host that reboots or stops by itself |
| GCP lab and battery (`scripts/gcp`) | VM, disk, handoff objects; the rows file on the guest | provision, proof, teardown, verify, sweep; repeats and phases over a tunnel | a script that outlives its tunnel and writes the file the next call reads |
| Operational store (`optics-operational-store`) | SQLite file, id sidecar, backup, recovery envelope | open, create, migrate, salvage, put, query, close | several processes, no common lock around file operations; kills |
| Agent SDK (`vantio-agent-sdk-py/vantio/_http_observe.py`) | hooked functions, the calls of a run, the shared seen file and journal | shield, hooked calls, run log, process wrap | nested hooks, threads and tasks, a lock file between processes |
| Evidence contract (`optics-evidence-contract/src/validate.py`, `privacy.py`) | the record under construction | validate a record or a run log | hundreds of fields, each with its own path past the privacy scan |
| Progressive enforcement, sequential authority (`pe-*`) | rules and rollout; session and ledger | not modelled | see *Not modelled* |

Everything else is a pure function over a document or a supplied case, an
adapter, or tooling. `PROJECT.json` lists all of it with the reason it is left
out.

How they interact: `cli.py` runs one command per process. The engine takes the
lock, loads the record, asks `authorize_live` for a grant and gives it to
`LiveMutator`, whose steps call `execute_step`, which calls `dispatch` for every
operation; `dispatch` re-reads the record from disk each time. The deltas it
observes go into the engine's snapshot, from which `health.derive` and
`residual.inspect` judge the host. The one-command install and the enforcing
apply drive the engine and write its record outside its state table. The boot
hold is a separate program that the engine installs on the host as one of its
steps. The AWS and GCP scripts run installer and batteries on rented hosts and
decide from tags, lists and rows files what passed and what is gone. The SDK
writes run logs, the evidence contract validates them, the store keeps the
result.

What makes each correct:

- *engine*: the record never claims more than the host has (HEALTHY) or less
  than it has (ROLLED_BACK, UNINSTALLED, VERIFIED_REMOVED), for every place where
  a process can stop; checkpoints are never lost; interrupted work is reported.
- *executor*: no operation runs unless the record on disk says so; every host
  change is known to rollback.
- *customer path*: the bundle is one release, HEALTHY and PROTECTED were earned
  by what ran at that moment, removal is true, and the independent verifier comes
  to the recorded verdict.
- *boot hold*: no enrolled workload gets network before enforcement is attached,
  or without a reason that is on record.
- *labs*: one host at a time, reported rows are of the right boot and the right
  script, VERIFIED_REMOVED is true, and everything is swept in the end.
- *store*: an identity is stored once, conflicts are marked on both sides, a
  stopped store is disclosed, COMPLETE is never said of a scope with gaps.
- *SDK*: a request is recorded once and is in the run log.
- *evidence contract*: nothing secret is handed back, labels are earned, the
  account of a log adds up.

## Modules

| Module | Models |
|---|---|
| `InstallCatalog` | the installer's tables: apply steps, operations of a step, operations that take it back, the effect of each on the host and on the snapshot, the host check, the state table |
| `InstallTransaction` | the engine, the mutator and the dispatcher for one transaction id and any number of processes; its properties |
| `InstallProofs` | its inductive invariant, the theorems about the lock and the record, and those about what the engine leaves on the host |
| `CustomerPath` | the customer's commands around the engine, with the engine's steps as one stretch |
| `CustomerPathProofs` | that a bundle is one release and that the record's promises were earned |
| `HoldContract` | what the boot hold promises (abstract) |
| `BootHold` | the boot hold's commands, units and packet rules; implements `HoldContract` |
| `BootHoldProofs` | the refinement and the invariants of the boot hold |
| `AwsLab` | the AWS jobs against EC2 |
| `AwsLabProofs` | its invariants, and that a soak host is kept |
| `GcpLab` | the workflows of the GCP slot |
| `GcpBattery` | one battery run over the tunnel, which `GcpLab` takes as one step |
| `GcpProofs` | of the lab, that what is verified removed is gone; of the battery, that a set that counts was earned and that phases start on a clean host |
| `OperationalStore` | the store for any number of processes |
| `StoreProofs` | its invariants, and that evidence is neither lost nor rewritten |
| `AgentSdk` | hooks, shields and shared files for any number of processes, threads and tasks |
| `AgentSdkProofs` | that calls and destinations are recorded once, and that the run log is whole |
| `EvidenceContract` | one call of the validator |
| `EvidenceContractProofs` | that nothing secret is handed back, that labels are earned and that the account of a log adds up |
| `MC*` | the instances for TLC |

### Installer (`InstallCatalog`, `InstallTransaction`)

`lock` is the pid in `LOCK`; `tx` the fields of `TRANSACTION.json` that steer the
engine; `files` says which of the other plan files exist; `snap` the product facts
of `HOST-SNAPSHOT.json`; `health` the overall verdict of `HEALTH.json`; `partial`
the steps of `PARTIAL-MUTATIONS.json`. `host` is the set of product items on the
host (CLI, SDKs, staged archive, image, tag, configuration, O7 record, boot hold,
qdisc, AppArmor profile and its text, container, pins, enforcement files).
`run[p]` is the memory of process `p`: its command, its copies of the record and
the snapshot, the steps left, the current step and operation. A step is its
position in `APPLY_STEPS`, so a checkpoint list is a set and "prefix" is `Intact`.

Every durable write and every host operation is an action of its own, so that a
process can stop between any two of them; everything between two of them that
only touches memory belongs to the next action.

| Action | Code |
|---|---|
| `Acquire`, `Leave`, `Unwind`, `Kill` | `Lock.__enter__`, `Lock.__exit__`; Ctrl-C or an uncaught exception (the lock is released, no handler runs); a killed process (the lock stays) |
| `Refuse` | every early return and refusal that writes nothing, `authorize_live` included |
| `PlanReplay`, `PlanOpen`, `PlanGate`, `PlanFile` | `plan`: the first save, host probe and preflight with the second, then the four files and the evidence copy in order |
| `ApplyFailSafe`, `ApplyOpen`, `ApplyRecheck` | the start of `apply`: digest and prefix checks, the save ahead, tracefs and the preflight re-check |
| `StepBegin`, `ApplyStep` | the loop: a step with live operations, or one of the four steps without |
| `OpExec`, `OpCheck` | `dispatch`: re-read the record, run; note the partial mutation, check the host, take the delta |
| `ClearPartial`, `SaveSnapshot`, `SaveTx`, `StepsDone` | the checkpoint of a step, in the order of the code |
| `ErrorSave` | the `except InstallError` handlers of apply, rollback and uninstall |
| `RollbackOpen`, `UninstallOpen`, `UnpinRemaining`, `ClearEnforce`, `EndSnapshot`, `EndHealth`, `EndSave` | `rollback` and `uninstall` |
| `Status`, `VerifyRemoval`, `Enroll` | the commands of that name; each writes at most once |

Abstractions worth knowing:

- The code merges the deltas of a step into the snapshot when the whole step has
  succeeded; the model merges them operation by operation. The snapshot in memory
  is thrown away when an operation fails, so nothing can tell the difference.
- An operation that goes wrong may have done any part of its work (`AnyPart`). A
  program that cannot succeed on this host (docker run with a taken name, docker
  rmi of an absent tag) exits non-zero by itself, without a fault (`Feasible`).
- Bundles, configurations and digests are one value each; a check of them passes,
  or fails under the fault `recheck`.
- The process that held the lock when the record was written has ended whenever
  `status` gets the lock, so a live recorded pid is a reused one (`pid_reuse`).
- Only the live host is modelled: `--fixture-host`, its mutator and its hooks are
  test equipment.

### Customer path (`CustomerPath`)

State: `grub` and `lsm` (the files with the `lsm=` word, `grub.cfg`, the running
kernel), `lic`, `bundle` (the file under each name, since a fetch moves them one
by one), `pe` and `pins` (the container and bpffs), `dropin`, `disk` (the
transaction directory), `ev` (its copy in the evidence directory), and `pc`, the
command that runs. `Fetch`, `Install`, `Enforce` and `Remove` each perform one step
of their command; `PrepareStart` and `prepare` are host-prep before and after
update-grub, `EnrollWrite` and `EnrollReload` are enroll and unenroll. The loader
moves by itself (`LoaderAttaches`, `LoaderReports`, `LoaderDies`), the host
reboots, a token expires, and a command is killed between any two writes.
`listed` is what `bpftool prog list` says of the whole host, so a program that another container
loaded counts as well. One transaction id is installed at a time: a second install of the
model refuses or plans the same id anew, where the code would open another. A planned transaction is replayed and
re-checked at apply in the code; here the facts of the host do not change, so one grading
stands for both. A removal takes the container whenever there is one; the code runs the
recorded steps only (the window of `ContainerSeenByRollback` in *Disagreements*).
Cryptography is a verdict: a file has a release, the class of the key that
signed it and whether its rows are intact. `preflight` grades each check from a
fact that is good, bad or unread. `recompute_health` is the verifier's own
computation, translated from the verifier and not from `health.derive`, so
that `VerifierAgrees` compares two pieces of code. `lost` and `whole` are ghosts
that name the exceptions the properties allow.

### Boot hold (`HoldContract`, `BootHold`)

A command is the sequence of its writes and tool calls; `Step` performs the first.
`systemd` and the operator (or the installer) are two processes without a lock.
`conf`, `reg`, `hold`, `gate` and `prep` are the files, `view` what systemd loaded of
them, `net` the two packet chains, `exc` the probe's exceptions, `profile` the
AppArmor profile on disk and in the kernel, `live` how each workload runs. A tool
may fail, the engine may exit, a command may be killed, the host may reboot.
The refinement maps `started` to the enrolled workloads that run in the slice,
`blocked` to both chains dropping, `rewriting` to a hold of which a chain that dropped
is empty because a command writes it anew (`net` tells such a chain, "emptied", from
one that is not up yet), and `grounds` to the ghost `why`. The contract lets packets
through in that window, which is what the code does and not what the documentation
says (see *Disagreements*); it binds again when the chain is filled, and taking the
hold down from there needs grounds as from anywhere else. To `why` a passed
deny check, an operator's decision and a trusted policy that turns the hold off
add (`PolicyGrounds`: such a policy is grounds from the moment it is on disk). A
reboot takes back the grounds of the boot and keeps, as `earlier`, that there were
grounds that outlive a boot (`Lasting`): a break-glass, an opt-out, a removal or a
policy leaves workload files without the hold gate behind. `earlier` lapses when
an apply-boot has reloaded systemd with every workload file gated again. That is
not every apply-boot: after a break-glass it rewrites the drop-ins and the
template, and a compose unit is gated again only when it is enrolled again.

### Labs (`AwsLab`, `GcpLab`, `GcpBattery`)

`AwsLab`: `lab` is what EC2 holds of each lab (instance, volume, group, rule, tags,
boot), `job` the job of the concurrency group and its place, `ver` the
teardown-role verification that runs beside it, `stamp` the ssh stamp, `said` the
evidence. Every API call that changes something is a step; it may fail or lose its answer.
`StepKilled` leaves the job's close-ssh step to run, `RunnerLost` nothing. The expiry of a
launch is its own input, not the end of the soak; whether this account may be swept by age
(`max_life_hours_36` in the capability file) is a constant, and without it the launch refuses and the
sweeper skips (`skip_life_not_enabled`). A volume that is not deleted is detached as the
last resort of a teardown.

`GcpLab`: `vms`, `objs`, the `job` that holds the slot, and `closed`, what a teardown or
a verify-removed reported of each run.

`GcpBattery`: the `guest` (boot, LSM list, boot menu, the one rows file, the pre
file), the `jobs` running on it, with or without a tunnel, and the `run`ner. Which
repeat and which boot wrote the rows is part of the rows, so that a verdict read
from another script's file is told apart. The runner takes a tunnel for lost when it is
and when the output has one of the marker texts: then the script has ended by itself,
before its exit code is known (`EndEarly`), and `MaxDrops` bounds both. A script that refuses to
start does so before it drops the old rows, and one that fails at its work leaves none.
`EnterpriseHold` is the verdict of a phase that ends with a hold. The enterprise rows are
there for the runner when their script ends. Its `BatteryInit`, `BatteryNext` and
`BatterySpec` carry the name of the battery so that one proof module can extend both
parts of the GCP lab.

The resources that a sweep or a teardown still has to delete are a set; `First`
picks the next one by `Rank`, the order of the code's sort, and `Rest` takes it
off.

### Store (`OperationalStore`)

`db` is the SQLite file, `files` the sidecar, backup, envelope and directory mode, `h`
each process's handle and its place in `open_store`, `ask` the query it is
answering, statement by statement. A SQLite transaction is one step; file
operations are steps of their own. The store may start in any of the directory
states that `Directories` lists (absent, unversioned, newer, foreign, corrupt, with another id, ...).
A page is the set of rows of what was `Found` that have fewer than `limit` of it in
front of them, and its cursor comes from the last one (`LastOf`); a caller that
follows the cursors collects `seen`, and `twice` notes a row it was given again.

### SDK (`AgentSdk`)

`Hooks` says of each hooked library whether it records, whether it owns what is
below it and what it calls; those of `Early` record before they go on, and go on
outside `_http_handled`. `Begin`, `Invoke`, `Answer`, `Return` and `Record` follow a
call down and up, `Redirect` and `FollowRedirect` a redirect, which `requests` follows by
calling `Session.send` from within itself (on the same host; a request is the call and its redirect). An
answer is also a cancellation, or Ctrl-C: a BaseException, which no hook
catches. A destination is a program and a host, as in `seen-destinations.json`. `Shield` and `Unshield` open and close a shield; `Lock`,
`LockTimeout`, `WriteSeen` and `Journal` are the flagging of a new destination; a
thread belongs to one worker at a time unless the call awaits. `shutdown` is the
exit of a wrapped process: it writes the last run log, and what was `owed` to that
log stays owed, so that `RunLogWhole` speaks of it too.

### Evidence contract (`EvidenceContract`)

A record is built by a script: one entry per field in the order of the code,
each naming the rule that takes the field. The value is a class chosen when the
field is read: ordinary, changeable, harmless but wrong, too long, a container,
or a secret under encodings. Of base64 `Runs` keeps what `scan_runs` looks at: length,
padding, uppercase, slashes and the url-safe alphabet. `BuildField` applies the rule, `FinishRecord` the
trace, origin and disposition logic, `NextCall` and `EndCall` the merge of a run
log's calls.

## Runs

| Run | Instance | Shows |
|---|---|---|
| `caught` | two processes; all commands but uninstall and enroll; three caught failures | `TypeOK`; `ContainerSeenByRollback`: a running container is known to rollback |
| `interrupted` | two processes; plan, apply, status, rollback, enroll; two of Ctrl-C, timeout, missing effect, failed re-check, reused pid | what survives a stop at any point: `PrefixIntact`, `RuntimeStateHolds`, `HealthyMeansInstalled`, `RolledBackIsProbed`, `CheckpointsKept`, `RollbackIsFinal`; and `InterruptionReported` (liveness) |
| `removal` | two processes; all commands but verify-removal and enroll; two of Ctrl-C, failure, kill | `UninstalledIsGone`, `ContainerIsConfined` |
| `boot_hold` | a systemd and a docker workload, one operator command beside the units, one more boot, one fault | `ContractKept` (the refinement), `NoSilentRelease`, `HandoffIsEarned`, `NoExceptionLeft` |
| `aws_lab` | two launches, two jobs, one fault, sweeper and verification throughout | `OneLab`, `RemovedIsGone`, `RuleHasCloser`, `ArmedIsFresh`, `Swept` (liveness) |
| `store` | two processes; two opens, three puts, three queries, one kill; every starting directory | `IdentitySound`, `IdsAgree`, `Disclosed`, `CompleteIsClean` |
| `agent_sdk` | two processes of one program, two threads, three workers (an aiohttp task; a task with `requests`, which meets one redirect, or an asyncio subprocess; a wrapped thread with `putrequest`), one call and one shield each, cancellations, one process killable | `RecordedOnce`, `RunLogWhole`, `FlaggedOnce` |
| `gcp_battery` | two repeats, four boots, one tunnel lost or taken for lost | `PassIsEarned`, `CleanStart` |
| `gcp_lab` | three runs, three faults, lives of one tick | `VerifiedIsGone`, `Swept` (liveness) |
| `evidence` | every record kind and run logs of up to three calls, two unusual values | `NoSecretStored`, `TraceIsEarned`, `OriginIsEarned`, `Accounted` |
| `customer_path` | five commands, one fault, both key classes, three facts that may be odd (one required, one preflight-only, one limiting) | `BundleIsOneRelease`, `VerifierAgrees`, `InstallIsEarned`, `ProtectedIsEarned`, `RemovalIsTrue` |
| `leftovers` | one failing command | violated: `VerifiedMeansRemoved`, see *Disagreements* |

Why the bounds are enough for the cases of interest:

- *installer*: the lock admits one process at a time; two make it matter and leave
  one to act after the other was killed. Two interruptions give "interrupted,
  resumed, interrupted again"; three caught failures a failed apply, a failed
  rollback and a failed retry. Commands can be issued any number of times.
- *boot hold*: the units at boot and one command are the overlap the code can meet
  without two operators; the second boot starts from what the first left on disk.
  With a compose workload in place of the docker one the refinement holds as well.
- *AWS*: the second launch meets whatever the first left; two jobs give a teardown
  or collect after an arm. *GCP*: a third run meets two leftovers.
  Stop and expiry of the AWS launches are one tick each (three for the soak host); a third
  launch whose expiry comes before its stop passes as well, in twice the time, and the
  theorems are about every pair.
- *battery*: the second repeat is the first that can be confused with an earlier one,
  and one stray script is what confuses it. A second lost tunnel lets the pre of one
  repeat count in the next (see *Proofs*); with the phases it takes TLC more than five
  minutes, so there the theorems, which hold for any number, stand alone.
- *store*: three puts give a duplicate and a conflict on different pages, three
  queries three pages. Generation 1 is this version's; stronger generations are
  among the starting directories.
- *SDK*: two processes share the seen file; two workers share a process and a thread.
  The two outcomes `ok` and `cancelled` are what the hooks tell apart (errors are recorded
  like answers), and one redirect shows a hook within itself; the theorems are about every
  hook, outcome and number of redirects.
- *evidence*: a secret needs one odd value; two let a second one (a marker, a
  missing producer) interact with it. `calls_max` is 2, with logs of three calls.
- *customer path*: fetch, host-prep, install, enforce, remove is five commands.

Deadlock is not checked where the system really may stop: behind the lock file
of a killed process, and where a bound on commands, jobs, calls or inputs ends the
history.

### Fairness

`StatusSpec` has weak fairness on the steps of each process (a process that was
started is scheduled until it ends) and strong fairness on issuing `status`: the
operator asks again and again, as the documentation wants. Strong, because the
lock is free only between commands. `RollbackSpec` says the same of `rollback`.
`AwsLab` assumes that a started job goes on, that the sweeper's cron entry keeps
starting it, that time passes and that EC2 finishes a termination. `GcpLab` assumes
that the holder of the slot goes on and, strongly, that the sweeper's cron gets
the slot again and again among other dispatches and that time passes. No fairness is assumed of
operators' launches, of guests, of any failure, or of the boot hold, the customer path, the SDK or the
validator. The store's calls return (weak fairness), but no run uses it.

## Disagreements

Where the code departs from what a document or a comment of the repository
says. The first has a run of its own; the others are met by adding the property and
the inputs named to the configuration of the component's run.

- `leftovers` (`VerifiedMeansRemoved`; residual.py:18): docker load succeeds, docker
  tag fails; the step is neither completed, nor owed, nor noted as partial,
  rollback skips it and verify-removal finds nothing in the snapshot, while the image is
  on the host. `docs/ROLLBACK.md:15`: "Removal is confirmed when that command
  reports `VERIFIED_REMOVED`."
- `HealthyMeansInstalled`, `RollbackIsFinal` with uninstall and Ctrl-C or time limits
  (engine.py:614): an interrupted uninstall, then (status and) apply: the completed
  steps are skipped and the old snapshot is healthy, and an apply goes on behind a
  rollback. engine.py:1: "Apply success is health plus evidence, never an exit code alone."
- `FailureIsReal` with Ctrl-C (engine.py:720): stopped after `mark_applied`, the resumed
  apply asks for APPLYING -> HEALTHY, which the state table refuses, so a complete
  installation ends FAILED_SAFE (compare docs/STAGE-B-ARTIFACT-PATH.md:48).
- `InterruptionReported` with kill (engine.py:66): a killed apply leaves `LOCK`;
  no status runs again. `docs/ROLLBACK.md:25`: "If the process stops in the middle,
  `status` reports `INTERRUPTED`."
- `RollbackCompletes` under `RollbackSpec` with timeout (commands.py:136): docker rmi
  removes the image and is stopped by its time limit; every retry fails because
  the image is gone (ROLLBACK.md:25).
- `ContainerSeenByRollback` with Ctrl-C (engine.py:736): between the removal of the
  partial note and the save of the checkpoint, nothing on disk knows the
  container (compare live_executor.py:626). It also fails with uninstall, time limits and
  three failures (engine.py:882): a rollback records the container's step and then
  fails, an uninstall is stopped by its time limit, apply resumes and starts the
  container again, and a step in `rollback_completed_steps`, which nothing resets, is
  taken by no rollback.
- `HeldIsHeld`, `OptOutIsShown` (boot_hold/service.py): a command that is killed after
  it lifted the chains, before it saves the hold state, leaves a record by which
  status says HELD (docs/BOOT-HOLD.md); an opt-out writes a policy that is not signed, which a live
  host does not honour, so status does not show OPTED_OUT (docs/LIMITATIONS.md:27).
- The variable `rewriting` of `HoldContract` (net.py:61): an apply-boot over a hold that is
  up (an install, opt-in or configure on a running host) flushes each chain before it
  adds the DROP rule, so the packets of running workloads pass in between, and when
  adding the rule fails they go on passing, with `FAILED` in the audit log
  (`NoSilentRelease`). docs/BOOT-HOLD.md:3: "Enrolled workloads stay held from early boot
  until Phantom Engine is enforce-ready." Without `Rewrite` in the contract
  `ContractKept` fails in the run.
- `HasMoreIsTrue` with the records `Unnamed` (store.py:1364): rows without a producer compare as NULL in
  the cursor clause, so a later page skips them
  (docs/architecture/optics-foundation/05-CORRELATION-AND-QUERY-CONTRACT.md:159).
- `AppUnbroken` (_http_observe.py:1206): an HTTP connection that was made under a
  shield and is used after the last shield has closed fails with a TypeError (in the instance
  once a task of the first process has the entry `putrequest`).
  _http_observe.py:2143: "Optics does not block, delay, or rewrite."
- The pairs `Again` of `RecordedOnce` (_http_observe.py:1264, 1914, 1935): a curl that
  `asyncio.create_subprocess_exec` starts is recorded by its hook and by that of `Popen`, which
  asyncio uses, and a request made with `putrequest` also as the connection that it
  opens. _http_observe.py:138: "HTTP orig calls mark this so inner socket.connect is not
  ingested twice."
- Cancelled calls in `RunLogWhole` (_http_observe.py:931, 1003): the hooks catch `Exception`, and
  `asyncio.CancelledError` is none, so a request that a timeout of the application cuts
  off has left the machine and is in no run log.
- `SecondDispatchGoesOn` (lab_auto.py:199, :493): the cost gate of a reboot-post
  dispatch refuses because of the VM that reboot-pre left up for it
  (docs/lab/enforcement-proof-OPERATOR.md:66).
- `RunLogWhole` with two wrapped processes of one trace id (_http_observe.py:2146):
  a child python process inherits `VANTIO_TRACE_ID` and `PYTHONPATH`
  (vantio-cli/bin/vantio.js:372, python-wrap/sitecustomize.py:29), and both write
  `runs/<trace>.json` with mode "w", so the log of the later one replaces the other.
  The theorem `LogIsWhole` has the hypothesis that excludes it (`TracesApart`).
- The ghost `lost` of `CustomerPath` (host_prep.py:73): a second host-prep whose
  update-grub fails deletes the drop-in of the first while `grub.cfg` keeps the word, and a kill
  between the unlink and update-grub of the removal does the same (UNINSTALL.md:9).
- The forms `Unseen` of `NoSecretStored` (privacy.py:727): base64 is decoded when its run
  has 16 characters, a multiple of four of them, and padding, a plus or an uppercase letter (with a slash:
  padding or a plus), in the standard alphabet. A secret in a shorter, unpadded or url-safe run is
  stored with the annotation or the token that holds it, and so is one under two encodings. contract/normalization.json: "Scan
  every persisted string."
- `ValidatorFault` (validate.py): a list or a mapping in a field that is looked up in a
  set raises inside the Python validator and the record is refused as a fault;
  validate.py:1 says "Same contract as validate.cjs".

The properties of the first six hold in the passing runs because the fault that
breaks them is left out there, and by nothing else; comparing the configurations
says exactly what each guarantee depends on. The exceptions `raced` and `tmp` of
the store, `gap` and `lost` of the AWS lab, `stray` of the battery and `Again` of the SDK and
`Unseen` of the validator are of the same
kind, and each is named in the property that has it.

## Proofs

Eight modules prove what the runs check on small instances for every value of the
constants: any number of processes, launches, workers or workloads, any choice
of faults and any bound on them. Each module proves an inductive invariant (its
theorem `Invariance`, or `HostInvariance`) by one lemma per action, and the
theorems below follow from it. TLC checked the parts of the invariants on the
instances of the runs before they were proved. The assumptions are the named
ones of the component's module, which TLC evaluates on every run: they give the
constants their types and keep the special values (no owner, no trace) apart
from the ordinary ones. Four theorems have a hypothesis of their own: `LogIsWhole`
(`TracesApart`), and three of the installer (`Undisturbed`, `NoUnwind`, below).

### Installer (`InstallProofs`; `ConstantsAssumption`)

- `TypeCorrect`; `OneInstaller`: no two processes are past the lock together;
- `PrefixAlwaysIntact`: completed steps are a prefix of `APPLY_STEPS`;
- `RecordWrittenAhead`: whenever an operation is about to run, the record on disk
  names the phase of the command that runs it;
- `NoCheckpointLost`: no save drops a completed, rolled-back or owed step;
- `ContainerAlwaysConfined`, `RolledBackIsTrue`, `UninstalledIsTrue`: what the host is
  like in any state, and when the record says ROLLED_BACK or UNINSTALLED;
- `HostWrittenAhead`: no product item is on a host whose record says that
  nothing was applied;
- `HealthyIsTrue`, `RollbackStaysFinal` (if no uninstall is stopped by Ctrl-C or a time
  limit: `Undisturbed`): HEALTHY and DEGRADED mean that the whole product is on
  the host; once a rollback has recorded a step, nothing puts the product back;
- `ContainerIsSeen` (if also no process is stopped by Ctrl-C: `NoUnwind`): a container on
  a host that no command works on is among the steps of the next rollback.

None of these is inductive alone. `SaveTx` writes a copy of the record that a
process read many steps earlier, so it keeps the checkpoints only if nobody else
wrote in between, which needs the lock (`LockHeld`), and only if the copy was up
to date when it was made (`CopyOK`). That `completed_steps` stays a prefix needs
the list of steps left to be the complement of the completed ones and the
current step to be its least element (`StepsOK`). That the record names the
command needs which command can be at which label (`LabelOK`) and how the state
in memory and the state on disk move together (`StateOK`): apply changes its copy
to APPLIED before it saves it, which is harmless because no operation comes after
`mark_applied`. For the host, the list of a removal is tied to what is left on it:
what an operation takes off is off once the removal has passed it (`Undone`),
and what the scope covers is gone or still to come (`Owed`).

The last three are proved by two more invariants on top of these, which TLC checked
first on one process with three faults. `StandingInvariance` (`SInv`): as long as
apply can still open the record, no step of it is taken back and what each completed step
puts on the host stands there (`Standing`). An apply carries this along operation by
operation (`Built`), and health, though derived from a snapshot that many processes
may have written, is only ever recorded behind `collect_health`, at which
point the completed steps are all of the product (`AllPuts`). A removal gives this up, so
its record must never be opened by apply again (`Reversed`), and this is what
an uninstall that ends INTERRUPTED breaks: with either of the two faults that
`Undisturbed` excludes TLC finds both properties violated. `NotesInvariance`
(`NInv`): the note precedes the operation that starts the container, and it is
dropped only in the two steps before the checkpoint takes its place (`Saving`);
with Ctrl-C there, or with the uninstall above, TLC finds a container that no rollback takes (see
*Disagreements*). Failures, missing effects, failed re-checks and kills are covered
in any number, and so are time limits and Ctrl-C where they are not excluded.

### Boot hold (`BootHoldProofs`; `ConstantsAssumption`)

- `KeepsContract`: `BootHold` implements `HoldContract`, initial states and steps, with
  the window of a rewritten chain named in the contract;
- `HandoffEarned`, `ReleasesAreLogged`, `ExceptionsAreRemoved`; `TypeCorrect`.

There is no lock, so nothing can be said of "the" command. The invariant says of
each process by itself what its remaining steps rely on: what the order of its
script guarantees (`ScriptOK`), and that the grounds for a step that lets workloads
go exist before the step comes (`Entitled`). Only a reboot takes grounds away,
and it ends both processes, so a step of one never disturbs what the other
relies on. A chain that an apply-boot has filled stays up, dropping or being rewritten,
until there are grounds (`Up`, `Filled`). A workload that is not gated on disk, or in what systemd loaded, has
grounds that outlive the boot (`Gated`), which is what the steps after a reboot need.

### Labs (`AwsLabProofs`, `GcpProofs`; `LabAssumption`, `GcpLabAssumption`)

- AWS: `OneLabAtATime`, `RemovedIsTrue`, `RuleIsClosed`, `PassIsFresh`, `TypeCorrect`, and
  the action property `SoakIsKept`;
- GCP: `VerifiedIsTrue`, `TypeCorrect`.

A census and the creation it allows are several API calls apart. The slot stays
empty in between because one job runs and nothing but that job makes an instance
occupy it (`JobOK`). A verdict of removal stays true because the id it names is
never created again (`Fresh`), and everything EC2, the guest or the teardown role
does to a lab by itself only takes things away (`LabKept`). On GCP the same
argument needs that nobody can report on the run number of a workflow that has
yet to create its VM (`Unreported`).

### GCP battery (`GcpProofs`; `BatteryAssumption`)

- `PassesAreEarned`: what a full set that counts stands on;
- the action property `PhasesStartClean`;
- `BatteryTyped`, which includes that at most one script has a live tunnel.

They hold for any number of repeats, phases, boots and lost tunnels. The assumption
says of the phases that their names are distinct and none is the name of another
script. The runner trusts a rows file for its boot and its script, never for who
wrote it, and scripts without a tunnel go on writing. What saves the verdict is
that a boot ends them all: a reboot is only set off by a guard, before any repeat,
or by a pre, which has then measured on that very boot unless a newer pre has begun
(`Timers`). After the reboot that a repeat waits for, every script alive is of this
repeat, and b1-pre.json is empty or not older than the boot before it (`Returned`). A
post whose exit is 0 wrote rows of a boot after that (`OwnPost`), and a post passes
only if its pre was on an earlier boot (`Boots`). `Chain` ties the repeats together as
long as all of them pass: a pre is not older than the post before it and is of this
repeat or of the last. `GuestStep` shows once what any write of a script keeps, so
that each script adds only its own part; the end of a repeat is `FinishStep`.

The proof corrected the property. Stated as "the pre is the repeat's own" it holds
with one lost tunnel and fails with two. The first leaves repeat 1's pre behind, which
measures and reboots the guest; the pre that is then called again loses its tunnel
before it begins, and post 1 passes on the first. The second pre, still of repeat 1,
begins only now, measures during repeat 2 and reboots the guest before repeat 2's
own pre has begun. Post 2 then passes on a pre of repeat 1.
`_main` of `descendant_b1.py` compares boot ids only, so this is what the code does; the
two measurements are still on either side of a reboot and newer than repeat 1's post,
which is what `PassIsEarned` now says.

### Store (`StoreProofs`; `StoreAssumption`)

- `IdentityIsSound`, `OneIdentity`, `RefusalIsDisclosed`, `CompleteIsTrue`, `TypeCorrect`;
- the action properties `EvidenceGrows` (rows are neither removed nor rewritten, but
  for the mark of a conflict) and `RefusedKeepsItsBytes`.

The argument is rely and guarantee: `HandleOK` and `AskOK` say what a process may
count on at each point of an open and of a query, `Kept` what no step of another
process takes back (rows, the schema, the id). Every action is shown to guarantee
`Kept` and to leave its own process in `HandleOK` and `AskOK`. A query is four reads
between which others write, so `CompleteIsTrue` needs that the flaws found are
those of the rows as they were at that read, and flaws are never taken back.

### SDK (`AgentSdkProofs`; `SdkAssumption`)

- `CallRecordedOnce`, `DestinationFlaggedOnce`;
- `LogIsWhole`, if no two processes use the same trace id (`TracesApart`; see
  *Disagreements* for what happens otherwise).

A call goes through several hooks, and each decides from the stack and a context
variable whether it records. `WorkerOK` says that for each redirect one frame of a
stack at most has still to record (`Single`), that a hook below an owning hook can see it
(`Owns`), and which hooks may have recorded the request already (`Unrecorded`). `CountOK` ties
the reference count to the open shields, so that the list is never cleared under
an open one, and the seen file changes only under its lock (`HomeOK`). For the log
a second invariant (`LogKept`) follows a call from the list into the file.

### Customer path (`CustomerPathProofs`; `CustomerAssumption`)

- `OneRelease`: a bundle directory that a reader accepts holds one release;
- `VerdictAgrees`: the verifier and `health.derive` judge every snapshot alike;
- `InstallEarned`, `ProtectionEarned`, `RemovalTrue`: a record turns HEALTHY, PROTECTED or
  UNINSTALLED only on a host that was seen to be so.

One command runs at a time, but it can be killed between any two writes, and the
loader starts, reports and dies by itself. So the invariant has one part per
concern: what a fetch may count on while it moves files (`Fetching`), what an
install and an enforcing apply keep of what they have read (`Installing`,
`Enforcing`), what a removal has done so far (`Removing`, and `Booting` for the boot
files), and when the record's health is that of its snapshot (`Deriving`).
`SameVerdict` compares the two computations of health for every snapshot, and
`NextTurns` shows that only the last step of a command turns the record to what is
promised, which leaves one action to look at per property.

### Evidence contract (`EvidenceContractProofs`)

- `NothingSecret`: no value that is handed back is a secret in plain sight or under
  one encoding, but for the base64 runs of `Unseen`, nor a marker of the walk;
- `TraceEarnedAlways`, `OriginEarnedAlways`: the grounds of a generated trace and of an
  origin of one's own, at the moment a record is finished;
- `LogAccounted`: the counters, the disposition and the redactions of a run log.

They need no assumption and hold for any number of unusual values in one input,
where the run allows two, and for run logs of any length. Some sixty kinds of field are
stored by one rule each, and all but a few do the same to what the properties
see: they add a value that may be stored, mark, or worsen the disposition
(`Grows`; `PutFree` and `CleanValues` say that `put` takes nothing the detectors find). The few
that decide a trace or an origin are read before it is stored, in every script, and
this is what keeps a basis true until the end: `OrderedTrace` and `OrderedOrigin` say
that what is stored has its own step behind it, `WitnessOrder` and `OriginOrder` that
no script reads a ground after it. `LogAccount` follows the account from call to
call: the events of the envelope are the lost calls and itself, so that merging
one more call (`MergeFields`, `LostGrows`) keeps the equation.

### Only model-checked

- `InterruptionReported` and `Swept` are liveness, which the proof system does not
  handle.
- `TypeOK` of `EvidenceContract` holds on the instance of its run; the run does not list it.

## Not modelled

- Progressive enforcement (`pe-progressive-enforcement`): a rule life cycle that
  one process keeps in memory. It has state and would repay a module; it comes
  after the components that meet concurrency, crashes or a cloud.
- Sequential, egress, ingress and host authority, shared health, record readers
  and mappings: pure functions over a supplied case or document.
- The JavaScript twins of the SDK and of the validator: the Python code is the one
  modelled. The future Python writer: nothing imports it.
- The egress kernel program: a decision per packet, without history.
- CLIs, MCP servers, the support bundle: parsing, formatting, adapters.
- The fixture host: test equipment.
- What a lab measures within one phase (latencies, memory, kernel facts) and the
  texts of reports: each is one verdict of the script that takes it.
- The layout of the CLI and SDK trees that the installer writes, argument vectors, and path confinement.

## Plan

1. *Done.* The installer with its theorems; the customer path, the boot hold with
   its contract, the labs, the store, the SDK and the evidence contract.
2. *Done.* Proofs about the host of the installer, the store, the two labs, the
   SDK, the customer path, the evidence contract, the GCP battery, and the refinement
   of `HoldContract` by `BootHold`.
3. `ProgressiveEnforcement`: rules, stages, rollout, freeze, exceptions with a clock.
