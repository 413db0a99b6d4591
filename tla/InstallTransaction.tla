------------------------- MODULE InstallTransaction -------------------------
(***************************************************************************)
(* The Phantom Engine installer's transaction engine (engine.py), with the *)
(* live mutator and dispatcher it drives (mutator.py, live_executor.py),   *)
(* for one transaction id and any number of installer processes.           *)
(*                                                                         *)
(* A command is a process that takes the LOCK file, reads the transaction  *)
(* record, and then alternates between changing the host and writing its   *)
(* checkpoint files.  Every durable write and every host operation is a    *)
(* step of its own, so the process can die between any two of them.        *)
(***************************************************************************)
EXTENDS InstallCatalog

CONSTANTS
  Procs,       \* installer processes
  NoProc,      \* the owner of a LOCK file that does not exist
  Commands,    \* the commands the operator issues
  FaultKinds,  \* what may go wrong, a subset of Faults
  MaxFaults    \* how many times something goes wrong in one behaviour

Faults ==
  {"unverified",  \* a program exits 0, its effect is missing or cannot be probed
   "nonzero",     \* a program or a file operation fails
   "timeout",     \* a program is stopped after its time limit
   "grant",       \* authorize_live refuses
   "recheck",     \* a preflight, digest or residual check fails closed
   "unwind",      \* Ctrl-C or an uncaught exception: the LOCK file is removed
   "kill",        \* the process is killed: the LOCK file stays
   "pid_reuse"}   \* the recorded pid belongs to an unrelated process

AllCommands == {"plan", "apply", "status", "rollback", "uninstall", "verify-removal", "enroll"}

LiveCommands == {"apply", "rollback", "uninstall"}

ASSUME ConstantsAssumption ==
  /\ NoProc \notin Procs
  /\ Commands \subseteq AllCommands
  /\ FaultKinds \subseteq Faults
  /\ MaxFaults \in Nat

Scopes == {"pe", "optics", "all"}

VARIABLES
  lock,     \* pid in the LOCK file
  tx,       \* TRANSACTION.json
  files,    \* which of the plan's other files exist
  snap,     \* the product facts in HOST-SNAPSHOT.json
  health,   \* the overall field of HEALTH.json
  partial,  \* the steps in PARTIAL-MUTATIONS.json
  host,     \* the product items on the host
  run,      \* the memory of each process
  faults    \* how many things have gone wrong so far

disk == <<tx, files, snap, health, partial>>
vars == <<lock, tx, files, snap, health, partial, host, run, faults>>

Phases == {"none", "plan", "apply", "rollback", "uninstall", "verify-removal"}

\* "NONE" is the state of a transaction that has no record.
TxRecord ==
  [state : TxStates \cup {"NONE"}, phase : Phases,
   done : SUBSET APPLY_STEPS,               \* completed_steps
   rbDone : SUBSET HOST_MUTATION_STEPS,     \* rollback_completed_steps
   required : SUBSET HOST_MUTATION_STEPS,   \* rollback_required_steps
   mip : BOOLEAN,                           \* mutation_in_progress
   owner : BOOLEAN,                         \* owner_pid is recorded
   scope : Scopes, limited : BOOLEAN]       \* limitations is not empty

NoTx == [state |-> "NONE", phase |-> "none", done |-> {}, rbDone |-> {}, required |-> {},
         mip |-> FALSE, owner |-> FALSE, scope |-> "all", limited |-> FALSE]

PlanFiles == <<"PLAN", "CONFIG", "SNAPSHOT", "HEALTH", "EVIDENCE">>

Health == {"none", "UNKNOWN", "PASS", "PASS_WITH_LIMITATIONS", "FAIL"}

Labels == {"idle", "open", "gate", "files", "recheck", "next", "op", "check", "clear",
           "snapshot", "save", "unpin", "enforce", "end_snapshot", "end_health",
           "end_save", "error"}

\* What a process holds in memory: its command, its copies of the transaction and
\* of the snapshot, the steps still to do, the current one, the number of the
\* operation in it (or of the plan file), and how the last operation ended.
Memory ==
  [pc : Labels, cmd : AllCommands, tx : TxRecord, snap : SUBSET SnapItems,
   todo : SUBSET APPLY_STEPS, cur : APPLY_STEPS \cup {0}, k : 1..6,
   rc : {"zero", "nonzero", "timeout", "unverified"}]

Idle == [pc |-> "idle", cmd |-> "status", tx |-> NoTx, snap |-> {}, todo |-> {},
         cur |-> 0, k |-> 1, rc |-> "zero"]

Init ==
  /\ lock = NoProc
  /\ tx = NoTx
  /\ files = {}
  /\ snap = {}
  /\ health = "none"
  /\ partial = {}
  /\ host \in {{}, {"enforce"}}
  /\ run = [p \in Procs |-> Idle]
  /\ faults = 0

----------------------------------------------------------------------------
(* The frame of every command. *)

Fault(kind) ==
  /\ kind \in FaultKinds
  /\ faults < MaxFaults
  /\ faults' = faults + 1

At(p, label) == run[p].pc = label

\* Variant with a bug: the LOCK file is opened without O_EXCL.
Acquire_Unlocked(p, c) ==
  /\ At(p, "idle")
  /\ lock' = p
  /\ run' = [run EXCEPT ![p] = [Idle EXCEPT !.pc = "open", !.cmd = c]]
  /\ UNCHANGED <<disk, host, faults>>

\* Lock.__enter__: O_CREAT | O_EXCL.  A held lock refuses the command, whoever
\* holds it and whether or not that process still runs.
Acquire(p, c) ==
  /\ At(p, "idle")
  /\ lock = NoProc
  /\ lock' = p
  /\ run' = [run EXCEPT ![p] = [Idle EXCEPT !.pc = "open", !.cmd = c]]
  /\ UNCHANGED <<disk, host, faults>>

\* Lock.__exit__ and the end of the process.
Leave(p) ==
  /\ lock' = NoProc
  /\ run' = [run EXCEPT ![p] = Idle]

\* The process goes on, with r as its memory.
Continue(p, r) ==
  /\ run' = [run EXCEPT ![p] = r]
  /\ UNCHANGED lock

Goto(p, label) == Continue(p, [run[p] EXCEPT !.pc = label])

\* completed_steps is a prefix of APPLY_STEPS.
Intact(done) == \A s \in done : \A t \in APPLY_STEPS : t < s => t \in done

START_STATES(c) ==
  CASE c = "apply"    -> {"PLANNED", "INTERRUPTED", "APPLYING"}
    [] c = "rollback" -> {"HEALTHY", "DEGRADED", "FAILED_SAFE", "INTERRUPTED", "APPLYING",
                          "ROLLING_BACK", "APPLIED"} \cup RESIDUAL_STATES
    [] c = "uninstall" -> {"HEALTHY", "DEGRADED", "FAILED_SAFE", "INTERRUPTED",
                           "APPLIED"} \cup RESIDUAL_STATES
    [] c = "verify-removal" -> {"UNINSTALLED", "ROLLED_BACK", "VERIFIED_REMOVED",
                                "RESIDUAL_PRESENT"}
    [] c = "plan"     -> {"NONE", "CREATED", "PREFLIGHT_BLOCKED", "PLANNED"}
    [] OTHER          -> TxStates

RUNTIME_STATES(c) ==
  CASE c = "apply"    -> {"APPLYING"}
    [] c = "rollback" -> {"ROLLING_BACK"}
    [] OTHER          -> {"UNINSTALLING"}

\* Variant with a bug: apply resumes an interrupted rollback.
CanStart_AnyPhase(c) ==
  /\ tx.state \in START_STATES(c)
  /\ c \in {"rollback", "uninstall"} => {"PLAN", "SNAPSHOT", "EVIDENCE"} \subseteq files
  /\ c = "verify-removal" => "SNAPSHOT" \in files

\* The conditions under which a command gets past its own early returns.
CanStart(c) ==
  /\ tx.state \in START_STATES(c)
  /\ c = "apply" => ~(tx.state = "INTERRUPTED" /\ tx.phase = "rollback")
  /\ c \in {"rollback", "uninstall"} => {"PLAN", "SNAPSHOT", "EVIDENCE"} \subseteq files
  /\ c = "verify-removal" => "SNAPSHOT" \in files

\* An early return or a refusal: nothing is written.  Without CONFIG.json a
\* command needs --config.
Refuse(p) ==
  /\ At(p, "open")
  /\ \/ ~CanStart(run[p].cmd) /\ UNCHANGED faults
     \/ run[p].cmd \notin {"plan", "enroll"} /\ "CONFIG" \notin files /\ UNCHANGED faults
     \/ run[p].cmd \in LiveCommands /\ Fault("grant")
  /\ Leave(p)
  /\ UNCHANGED <<disk, host>>

----------------------------------------------------------------------------
(* plan *)

\* A PLANNED record is replayed when its inputs are the same.
PlanReplay(p) ==
  /\ At(p, "open") /\ run[p].cmd = "plan"
  /\ tx.state = "PLANNED"
  /\ Leave(p)
  /\ UNCHANGED <<disk, host, faults>>

PlanOpen(p) ==
  /\ At(p, "open") /\ run[p].cmd = "plan"
  /\ CanStart("plan")
  /\ tx' = IF tx.state = "NONE" THEN [NoTx EXCEPT !.state = "CREATED"] ELSE tx
  /\ Continue(p, [run[p] EXCEPT !.pc = "gate", !.tx = tx'])
  /\ UNCHANGED <<files, snap, health, partial, host, faults>>

\* The host probe and the preflight, then the one save of the record.
PlanGate(p) ==
  /\ At(p, "gate")
  /\ \E gate \in {"PLANNED", "PREFLIGHT_BLOCKED", "UNSUPPORTED"}, lim \in BOOLEAN,
        lsm \in {{}, {"lsm"}} :
       /\ tx' = [run[p].tx EXCEPT !.state = gate, !.phase = "plan", !.owner = FALSE,
                                  !.mip = FALSE, !.limited = lim]
       /\ Continue(p, [run[p] EXCEPT !.pc = "files", !.k = 1, !.tx = tx', !.snap = lsm])
  /\ UNCHANGED <<files, snap, health, partial, host, faults>>

\* PLAN.json, CONFIG.json, HOST-SNAPSHOT.json and HEALTH.json one after the other,
\* and the copy of all of them to the evidence directory last.
PlanFile(p) ==
  LET r == run[p]
      f == PlanFiles[r.k]
  IN /\ At(p, "files")
     /\ files' = files \cup {f}
     /\ snap' = IF f = "SNAPSHOT" THEN r.snap ELSE snap
     /\ health' = IF f = "HEALTH" THEN "UNKNOWN" ELSE health
     /\ IF r.k < Len(PlanFiles) THEN Continue(p, [r EXCEPT !.k = r.k + 1]) ELSE Leave(p)
     /\ UNCHANGED <<tx, partial, host, faults>>

----------------------------------------------------------------------------
(* One live operation: dispatch(). *)

\* unpin_remaining runs its operation outside any step (cur = 0).
Ops(r) ==
  IF r.cur = 0 THEN <<"unpin_bpf_maps">>
  ELSE IF r.cmd = "apply" THEN STEP_OPERATIONS(r.cur) ELSE ROLLBACK_OPERATIONS(r.cur)

Op(r) == Ops(r)[r.k]

Complete(op) == (host \cup Adds(op)) \ Removes(op)

Feasible(op) == Needs(op) \subseteq host /\ Excludes(op) \cap host = {}

\* An operation that goes wrong may have done any part of its work.
AnyPart(op) ==
  IF Feasible(op)
  THEN {(host \cup a) \ r : a \in SUBSET Adds(op), r \in SUBSET Removes(op)}
  ELSE {host}

\* _runtime_tx re-reads the record, and only then does the operation run.
OpExec(p) ==
  LET r == run[p]
      op == Op(r)
      Ends(rc) == Continue(p, [r EXCEPT !.pc = "check", !.rc = rc])
  IN /\ At(p, "op")
     /\ UNCHANGED disk
     /\ IF tx.state \notin RUNTIME_STATES(r.cmd)
        THEN Ends("nonzero") /\ UNCHANGED <<host, faults>>
        ELSE \/ /\ Feasible(op)
                /\ host' = Complete(op)
                /\ Ends("zero")
                /\ UNCHANGED faults
             \/ /\ ~Feasible(op)
                /\ Ends("nonzero")
                /\ UNCHANGED <<host, faults>>
             \/ /\ Fault("unverified") /\ Feasible(op) /\ op \notin TakenAtWord
                /\ host' \in AnyPart(op)
                /\ Ends("zero")
             \/ /\ Fault("nonzero")
                /\ host' \in AnyPart(op)
                /\ Ends("nonzero")
             \/ /\ Fault("timeout") /\ op \in Commands_argv
                /\ host' \in AnyPart(op)
                /\ Ends("timeout")

\* Where a command goes when the operations of a step are done.
AfterStep(r) ==
  IF r.cur = 0 THEN [r EXCEPT !.pc = "enforce"]
  ELSE CASE r.cmd = "apply"     -> [r EXCEPT !.pc = "clear"]
         [] r.cmd = "rollback"  -> [r EXCEPT !.pc = "snapshot"]
         [] OTHER               -> [r EXCEPT !.pc = "next", !.todo = r.todo \ {r.cur}]

AfterOp(r) ==
  IF r.k < Len(Ops(r)) THEN [r EXCEPT !.pc = "op", !.k = r.k + 1] ELSE AfterStep(r)

\* The partial note, the host check and the observed delta.
OpCheck(p) ==
  LET r == run[p]
      op == Op(r)
  IN /\ At(p, "check")
     /\ partial' = IF r.rc = "zero" THEN partial \cup PARTIAL_ON_EXIT(op) ELSE partial
     /\ \/ /\ r.rc = "zero" /\ Verified(op, host)
           /\ Continue(p, AfterOp([r EXCEPT !.snap = Delta(op, r.snap, host)]))
           /\ UNCHANGED faults
        \/ /\ r.rc = "zero" /\ ~Verified(op, host)
           /\ Continue(p, [r EXCEPT !.pc = "error", !.rc = "unverified"])
           /\ UNCHANGED faults
        \/ /\ r.rc = "zero" /\ Verified(op, host)
           /\ Fault("unverified") /\ op \notin TakenAtWord
           /\ Continue(p, [r EXCEPT !.pc = "error", !.rc = "unverified"])
        \/ /\ r.rc # "zero"
           /\ Goto(p, "error")
           /\ UNCHANGED faults
     /\ UNCHANGED <<tx, files, snap, health, host>>

\* The except InstallError handlers of apply, rollback and uninstall.
ErrorSave(p) ==
  LET r == run[p]
      target == IF r.rc = "timeout" THEN "INTERRUPTED" ELSE "FAILED_SAFE"
      owed == IF r.cmd = "apply" /\ r.rc = "unverified"
              THEN {r.cur} \cap HOST_MUTATION_STEPS ELSE {}
  IN /\ At(p, "error")
     /\ tx' = [r.tx EXCEPT
                 !.state = IF r.tx.state \in RUNTIME_STATES(r.cmd) \cup {"APPLIED"}
                           THEN target ELSE r.tx.state,
                 !.required = r.tx.required \cup owed,
                 !.mip = FALSE,
                 !.owner = IF r.cmd = "uninstall" THEN @ ELSE FALSE]
     /\ Leave(p)
     /\ UNCHANGED <<files, snap, health, partial, host, faults>>

----------------------------------------------------------------------------
(* apply *)

Resumable == {"PLAN", "CONFIG"} \subseteq files /\ Intact(tx.done)

\* A plan file or the digest does not match the checkpoint, or the completed
\* steps are not a prefix: the record moves to FAILED_SAFE at once.
ApplyFailSafe(p) ==
  /\ At(p, "open") /\ run[p].cmd = "apply"
  /\ CanStart("apply")
  /\ IF Resumable THEN Fault("recheck") ELSE UNCHANGED faults
  /\ tx' = [tx EXCEPT !.state = "FAILED_SAFE", !.phase = IF Intact(tx.done) THEN "apply" ELSE @]
  /\ Leave(p)
  /\ UNCHANGED <<files, snap, health, partial, host>>

ApplyOpen(p) ==
  /\ At(p, "open") /\ run[p].cmd = "apply"
  /\ CanStart("apply")
  /\ Resumable
  /\ UNCHANGED <<files, snap, health, partial, host, faults>>
  /\ IF {"SNAPSHOT", "EVIDENCE"} \subseteq files
     THEN /\ tx' = [tx EXCEPT !.state = "APPLYING", !.mip = TRUE, !.owner = TRUE,
                              !.phase = "apply"]
          /\ Continue(p, [run[p] EXCEPT !.pc = "recheck", !.tx = tx', !.snap = snap,
                                        !.todo = APPLY_STEPS \ tx.done])
     ELSE /\ Leave(p)
          /\ UNCHANGED tx

\* The preflight re-check under the lock.  A missing tracefs raises outside the
\* try block, so nothing is saved and the record stays APPLYING.
ApplyRecheck(p) ==
  /\ At(p, "recheck")
  /\ \/ /\ Goto(p, "next")
        /\ UNCHANGED <<tx, faults>>
     \/ /\ Fault("recheck")
        /\ tx' = [run[p].tx EXCEPT !.state = "FAILED_SAFE", !.mip = FALSE, !.owner = FALSE]
        /\ Leave(p)
     \/ /\ Fault("recheck")
        /\ Leave(p)
        /\ UNCHANGED tx
  /\ UNCHANGED <<files, snap, health, partial, host>>

\* health.derive, from the snapshot alone.
Derive(sn, lim) ==
  IF {"optics", "container", "pins", "clsact", "lsm"} \subseteq sn
  THEN IF lim THEN "PASS_WITH_LIMITATIONS" ELSE "PASS"
  ELSE "FAIL"

HealthState(h) ==
  CASE h = "PASS"                  -> "HEALTHY"
    [] h = "PASS_WITH_LIMITATIONS" -> "DEGRADED"
    [] OTHER                       -> "FAILED_SAFE"

\* The order in which each command takes its steps.
UninstallOrder(s) ==
  CASE s = install_boot_hold    -> 1
    [] s = start_pe_observe     -> 2
    [] s = docker_load          -> 3
    [] s = stage_pe_archive     -> 4
    [] s = write_observe_config -> 5
    [] s = install_agent_sdks   -> 6
    [] OTHER                    -> 7

\* Variant with a bug: apply takes its steps in the order of rollback.
Precedes_Reversed(c, s, t) ==
  IF c \in {"apply", "rollback"} THEN s >= t ELSE UninstallOrder(s) <= UninstallOrder(t)

Precedes(c, s, t) ==
  CASE c = "apply"    -> s <= t
    [] c = "rollback" -> s >= t
    [] OTHER          -> UninstallOrder(s) <= UninstallOrder(t)

\* A step that runs live operations: rollback and uninstall have no other.
StepBegin(p) ==
  LET r == run[p]
  IN /\ At(p, "next")
     /\ \E s \in r.todo :
          /\ \A t \in r.todo : Precedes(r.cmd, s, t)
          /\ s \notin {verify_artifacts, mark_applied, collect_health, write_support_index}
          /\ Continue(p, [r EXCEPT !.pc = "op", !.cur = s, !.k = 1])
     /\ UNCHANGED <<disk, host, faults>>

\* The four steps of apply that run none.
ApplyStep(p) ==
  LET r == run[p]
      Ends(s, state) == Continue(p, [r EXCEPT !.pc = "clear", !.cur = s, !.tx.state = state])
  IN /\ At(p, "next") /\ r.cmd = "apply"
     /\ \E s \in r.todo :
          /\ \A t \in r.todo : Precedes(r.cmd, s, t)
          /\ \/ /\ s = verify_artifacts
                /\ Ends(s, r.tx.state)
                /\ UNCHANGED <<health, snap, faults>>
             \/ /\ s = verify_artifacts
                /\ Fault("recheck")
                /\ Continue(p, [r EXCEPT !.pc = "end_save", !.tx.state = "FAILED_SAFE"])
                /\ UNCHANGED <<health, snap>>
             \/ /\ s = mark_applied
                /\ Ends(s, "APPLIED")
                /\ UNCHANGED <<health, snap, faults>>
             \/ /\ s = collect_health
                /\ health' = Derive(r.snap, r.tx.limited)
                /\ IF HealthState(health') \in TRANSITIONS(r.tx.state)
                   THEN Ends(s, HealthState(health'))
                   ELSE Continue(p, [r EXCEPT !.pc = "error", !.cur = s, !.rc = "nonzero"])
                /\ UNCHANGED <<snap, faults>>
             \/ /\ s = write_support_index
                /\ snap' = r.snap
                /\ Ends(s, r.tx.state)
                /\ UNCHANGED <<health, faults>>
     /\ UNCHANGED <<tx, files, partial, host>>

ClearPartial(p) ==
  /\ At(p, "clear")
  /\ partial' = partial \ {run[p].cur}
  /\ Goto(p, "snapshot")
  /\ UNCHANGED <<tx, files, snap, health, host, faults>>

\* The checkpoint of a step: the snapshot first, then the record.
SaveSnapshot(p) ==
  LET r == run[p]
  IN /\ At(p, "snapshot")
     /\ snap' = r.snap
     /\ Continue(p, IF r.cmd = "apply"
                    THEN [r EXCEPT !.pc = "save", !.tx.done = @ \cup {r.cur}]
                    ELSE [r EXCEPT !.pc = "save", !.tx.rbDone = @ \cup {r.cur}])
     /\ UNCHANGED <<tx, files, health, partial, host, faults>>

SaveTx(p) ==
  LET r == run[p]
  IN /\ At(p, "save")
     /\ tx' = r.tx
     /\ Continue(p, [r EXCEPT !.pc = "next", !.todo = r.todo \ {r.cur}])
     /\ UNCHANGED <<files, snap, health, partial, host, faults>>

\* The end of the loop.
StepsDone(p) ==
  LET r == run[p]
  IN /\ At(p, "next")
     /\ r.todo = {}
     /\ Goto(p, CASE r.cmd = "apply" -> "end_save"
                  [] r.cmd = "uninstall" /\ r.tx.scope = "optics" -> "end_snapshot"
                  [] OTHER -> "unpin")
     /\ UNCHANGED <<disk, host, faults>>

----------------------------------------------------------------------------
(* rollback and uninstall *)

\* Variant with a bug: the prefix is not probed.
Probed_Nothing == {}

\* _rollback_extras and _reverse_steps.  The prefix is probed for the CLI and
\* the SDKs; the other steps are known from the records only.
Probed ==
  (IF "optics" \in host THEN {install_optics_cli} ELSE {})
    \cup (IF {"sdk_npm", "sdk_py"} \cap host # {} THEN {install_agent_sdks} ELSE {})

Pending ==
  ((tx.done \cup tx.required \cup partial \cup Probed) \cap HOST_MUTATION_STEPS)
     \ (tx.rbDone \ Probed)

\* Variant with a bug: the record is not saved before the first operation.
RollbackOpen_Unsaved(p) ==
  /\ At(p, "open") /\ run[p].cmd = "rollback"
  /\ CanStart("rollback")
  /\ Continue(p, [run[p] EXCEPT !.pc = "next", !.snap = snap, !.todo = Pending,
                                !.tx = [tx EXCEPT !.state = "ROLLING_BACK", !.phase = "rollback"]])
  /\ UNCHANGED <<disk, host, faults>>

RollbackOpen(p) ==
  /\ At(p, "open") /\ run[p].cmd = "rollback"
  /\ CanStart("rollback")
  /\ tx' = [tx EXCEPT !.state = "ROLLING_BACK", !.mip = TRUE, !.owner = TRUE,
                      !.phase = "rollback"]
  /\ Continue(p, [run[p] EXCEPT !.pc = "next", !.tx = tx', !.snap = snap, !.todo = Pending])
  /\ UNCHANGED <<files, snap, health, partial, host, faults>>

\* Variant with a bug: the boot hold is in no scope.
ScopeSteps_NoHold(scope) ==
  HOST_MUTATION_STEPS \ {install_boot_hold}

ScopeSteps(scope) ==
  (IF scope = "optics" THEN {} ELSE HOST_MUTATION_STEPS \ {install_agent_sdks, install_optics_cli})
    \cup (IF scope = "pe" THEN {} ELSE {install_agent_sdks, install_optics_cli})

UninstallOpen(p) ==
  /\ At(p, "open") /\ run[p].cmd = "uninstall"
  /\ CanStart("uninstall")
  /\ \E scope \in Scopes :
       /\ tx' = [tx EXCEPT !.state = "UNINSTALLING", !.mip = TRUE, !.owner = TRUE,
                           !.phase = "uninstall", !.scope = scope]
       /\ Continue(p, [run[p] EXCEPT !.pc = "next", !.tx = tx', !.snap = snap,
                                     !.todo = ScopeSteps(scope)])
  /\ UNCHANGED <<files, snap, health, partial, host, faults>>

UnpinRemaining(p) ==
  /\ At(p, "unpin")
  /\ \/ /\ Continue(p, [run[p] EXCEPT !.pc = IF "pins" \in host THEN "op" ELSE "enforce",
                                      !.cur = 0, !.k = 1])
        /\ UNCHANGED faults
     \/ /\ Fault("nonzero")
        /\ Continue(p, [run[p] EXCEPT !.pc = "error", !.rc = "nonzero"])
  /\ UNCHANGED <<disk, host>>

\* _clear_enforce_side_effects
ClearEnforce(p) ==
  /\ At(p, "enforce")
  /\ \/ /\ host' = host \ {"enforce"}
        /\ Goto(p, "end_snapshot")
        /\ UNCHANGED faults
     \/ /\ Fault("nonzero")
        /\ host' \in {host, host \ {"enforce"}}
        /\ Continue(p, [run[p] EXCEPT !.pc = "error", !.rc = "nonzero"])
  /\ UNCHANGED disk

EndSnapshot(p) ==
  /\ At(p, "end_snapshot")
  /\ snap' = run[p].snap
  /\ Goto(p, "end_health")
  /\ UNCHANGED <<tx, files, health, partial, host, faults>>

EndHealth(p) ==
  /\ At(p, "end_health")
  /\ health' = Derive(run[p].snap, run[p].tx.limited)
  /\ Goto(p, "end_save")
  /\ UNCHANGED <<tx, files, snap, partial, host, faults>>

EndSave(p) ==
  LET r == run[p]
  IN /\ At(p, "end_save")
     /\ tx' = [r.tx EXCEPT !.state = CASE r.cmd = "rollback"  -> "ROLLED_BACK"
                                       [] r.cmd = "uninstall" -> "UNINSTALLED"
                                       [] OTHER               -> @,
                           !.mip = FALSE, !.owner = FALSE]
     /\ Leave(p)
     /\ UNCHANGED <<files, snap, health, partial, host, faults>>

----------------------------------------------------------------------------
(* status, verify-removal, enroll *)

\* Variant with a bug: only an interrupted apply is noticed.
Status_ApplyOnly(p) ==
  /\ At(p, "open") /\ run[p].cmd = "status"
  /\ CanStart("status")
  /\ tx' = IF tx.state = "APPLYING" THEN [tx EXCEPT !.state = "INTERRUPTED", !.mip = FALSE] ELSE tx
  /\ Leave(p)
  /\ UNCHANGED <<files, snap, health, partial, host, faults>>

\* The lock is free, so the recorded owner has ended; its pid may be in use again.
Status(p) ==
  /\ At(p, "open") /\ run[p].cmd = "status"
  /\ CanStart("status")
  /\ \/ /\ tx' = IF tx.state \in TRANSIENT \/ (tx.state = "APPLIED" /\ tx.mip)
                 THEN [tx EXCEPT !.state = "INTERRUPTED", !.mip = FALSE]
                 ELSE tx
        /\ UNCHANGED faults
     \/ /\ tx.owner /\ Fault("pid_reuse")
        /\ UNCHANGED tx
  /\ Leave(p)
  /\ UNCHANGED <<files, snap, health, partial, host>>

\* residual.inspect: the container, the image and the qdisc are looked up in the
\* snapshot, the stage and the enforcement files on the host, the pins and the
\* Optics prefix in both.
Residual(scope) ==
  (IF scope = "optics" THEN {}
   ELSE (snap \cap {"container", "tag", "clsact"})
          \cup (host \cap {"archive", "profile_text"})
          \cup ((snap \cup host) \cap {"pins"}))
    \cup (IF scope = "pe" THEN {} ELSE (snap \cup host) \cap OpticsItems)
    \cup (host \cap {"enforce"})

VerifyRemoval(p) ==
  /\ At(p, "open") /\ run[p].cmd = "verify-removal"
  /\ CanStart("verify-removal")
  /\ \E scope \in Scopes, state \in {"VERIFIED_REMOVED", "RESIDUAL_FOUND", "FAILED_SAFE"} :
       /\ IF state = "FAILED_SAFE"
          THEN Fault("recheck")
          ELSE (state = "VERIFIED_REMOVED") = (Residual(scope) = {}) /\ UNCHANGED faults
       /\ tx' = [tx EXCEPT !.state = state, !.phase = "verify-removal", !.scope = scope]
  /\ Leave(p)
  /\ UNCHANGED <<files, snap, health, partial, host>>

\* enroll and unenroll write or remove enforcement files in any transaction state.
Enroll(p) ==
  /\ At(p, "open") /\ run[p].cmd = "enroll"
  /\ CanStart("enroll")
  /\ host' \in {host \cup {"enforce"}, host \ {"enforce"}}
  /\ Leave(p)
  /\ UNCHANGED <<disk, faults>>

----------------------------------------------------------------------------
(* The end of a process that does not get to its handlers. *)

\* What the host may look like when the process stops inside an operation.
Torn(p) == IF At(p, "op") THEN AnyPart(Op(run[p])) ELSE {host}

Unwind(p) ==
  /\ ~At(p, "idle")
  /\ Fault("unwind")
  /\ host' \in Torn(p)
  /\ Leave(p)
  /\ UNCHANGED disk

Kill(p) ==
  /\ ~At(p, "idle")
  /\ Fault("kill")
  /\ host' \in Torn(p)
  /\ run' = [run EXCEPT ![p] = Idle]
  /\ UNCHANGED <<disk, lock>>

----------------------------------------------------------------------------
\* What the process itself does next.
Step(p) ==
  \/ Refuse(p)
  \/ PlanReplay(p) \/ PlanOpen(p) \/ PlanGate(p) \/ PlanFile(p)
  \/ ApplyFailSafe(p) \/ ApplyOpen(p) \/ ApplyRecheck(p) \/ ApplyStep(p)
  \/ RollbackOpen(p) \/ UninstallOpen(p)
  \/ StepBegin(p) \/ OpExec(p) \/ OpCheck(p) \/ ErrorSave(p)
  \/ ClearPartial(p) \/ SaveSnapshot(p) \/ SaveTx(p) \/ StepsDone(p)
  \/ UnpinRemaining(p) \/ ClearEnforce(p) \/ EndSnapshot(p) \/ EndHealth(p) \/ EndSave(p)
  \/ Status(p) \/ VerifyRemoval(p) \/ Enroll(p)

Next ==
  \E p \in Procs :
    \/ \E c \in Commands : Acquire(p, c)
    \/ Step(p)
    \/ Unwind(p)
    \/ Kill(p)

Spec == Init /\ [][Next]_vars

\* A process that runs keeps running, and the operator asks for the status, or
\* issues the command again, whenever that keeps being possible.
Retried(c) == SF_vars(\E p \in Procs : Acquire(p, c))
FairSpec == Spec /\ \A p \in Procs : WF_vars(Step(p))
StatusSpec == FairSpec /\ Retried("status")
RollbackSpec == FairSpec /\ Retried("rollback")

----------------------------------------------------------------------------
(* Properties *)

TypeOK ==
  /\ lock \in Procs \cup {NoProc}
  /\ tx \in TxRecord
  /\ files \subseteq {"PLAN", "CONFIG", "SNAPSHOT", "HEALTH", "EVIDENCE"}
  /\ snap \subseteq SnapItems
  /\ health \in Health
  /\ partial \subseteq HOST_MUTATION_STEPS
  /\ host \subseteq Items
  /\ run \in [Procs -> Memory]
  /\ faults \in 0..MaxFaults

\* completed_steps is always a prefix of APPLY_STEPS, whatever failed or died in
\* between: the resume check in apply never has to refuse a checkpoint.
PrefixIntact == Intact(tx.done)

\* When an operation is about to run, the record on disk already says so, so the
\* re-read in _runtime_tx never refuses a command that is under way.
RuntimeStateHolds ==
  \A p \in Procs : At(p, "op") => tx.state \in RUNTIME_STATES(run[p].cmd)

\* No save, of any process, drops a checkpoint that is on disk.
CheckpointsKept ==
  [][/\ tx.done \subseteq tx'.done
     /\ tx.rbDone \subseteq tx'.rbDone
     /\ tx.required \subseteq tx'.required]_vars

\* HEALTHY and DEGRADED mean that every product item is on the host.
HealthyMeansInstalled ==
  tx.state \in {"HEALTHY", "DEGRADED"} => OpticsItems \cup EngineItems \subseteq host

\* The container is never on a host that no command is working on without its step
\* being among those the next rollback takes.
ContainerSeenByRollback ==
  lock = NoProc /\ "container" \in host => start_pe_observe \in Pending

\* ROLLED_BACK means that everything rollback can probe for is gone, even what no
\* record names.
RolledBackIsProbed ==
  tx.state = "ROLLED_BACK" => host \cap (OpticsItems \cup {"pins"}) = {}

\* Once a rollback step is recorded, nothing is put on the host again.
RollbackIsFinal ==
  [][tx.rbDone # {} => host' \subseteq host \cup {"profile_text", "enforce"}]_vars

\* UNINSTALLED in scope all means that nothing is left but, perhaps, an untagged
\* image and files another command wrote.
UninstalledIsGone ==
  tx.state = "UNINSTALLED" /\ tx.scope = "all" => host \subseteq {"image", "enforce"}

\* The observe container never runs without its image and its AppArmor profile.
ContainerIsConfined ==
  "container" \in host => {"tag", "profile"} \subseteq host

\* The record is written ahead: whatever step a process dies in, a host that
\* carries a product item never has a record that says nothing was applied.
WriteAhead ==
  host \cap (OpticsItems \cup EngineItems) # {} =>
    tx.state \notin {"NONE", "CREATED", "PLANNED", "PREFLIGHT_BLOCKED", "UNSUPPORTED"}

\* A transaction that its process left behind in the middle is reported as
\* INTERRUPTED, or taken on by another command.
InterruptionReported ==
  tx.state \in TRANSIENT ~> tx.state \notin TRANSIENT

\* apply does not report FAILED_SAFE for an install whose health it derived as good.
FailureIsReal ==
  tx.state = "FAILED_SAFE" /\ tx.phase = "apply" => health \notin {"PASS", "PASS_WITH_LIMITATIONS"}

\* VERIFIED_REMOVED in scope all means that the host is clean.
VerifiedMeansRemoved ==
  tx.state = "VERIFIED_REMOVED" /\ tx.scope = "all" => host \cap EngineItems = {}

\* A rollback that is run again until it ends does end.
RollbackCompletes == tx.state = "ROLLING_BACK" ~> tx.state = "ROLLED_BACK"
=============================================================================
