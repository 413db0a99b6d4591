---------------------------- MODULE InstallProofs ----------------------------
(***************************************************************************)
(* Proofs about the installer's transaction engine, for every set of       *)
(* processes, every set of commands the operator issues, every choice of   *)
(* faults and every bound on their number.                                 *)
(*                                                                         *)
(* The argument: a process that is past Acquire owns the LOCK file, so it  *)
(* is the only one that writes (LockHeld); its copy of the record is then  *)
(* the record on disk plus the checkpoint it is about to save, and its     *)
(* list of steps is the complement of the checkpoints (MemoryOK).          *)
(*                                                                         *)
(* The second half is about what the engine leaves on the host: what       *)
(* ROLLED_BACK and UNINSTALLED mean, what is written ahead, and that the   *)
(* container is never without its profile.  The list of steps is tied to   *)
(* the host: a removal that has passed an operation has taken off what the *)
(* operation takes off (Undone), and what its scope covers is either gone  *)
(* or still on its list (Owed).                                            *)
(*                                                                         *)
(* The last part is about what stays on the host: while nothing has been   *)
(* reversed, every completed step stands there (Standing), which is what   *)
(* HEALTHY means; and a container that stands is named by a record or a    *)
(* note on disk (Noted), which is how a rollback finds it.  Both need that *)
(* no uninstall is stopped in the middle (Undisturbed), the second one     *)
(* also that no process is stopped between two saves (NoUnwind).           *)
(***************************************************************************)
EXTENDS InstallTransaction, TLAPS

Started == {"recheck", "next", "op", "check", "clear", "snapshot", "save", "unpin",
            "enforce", "end_snapshot", "end_health", "end_save", "error"}

\* A process that runs owns the lock.
LockHeld == \A p \in Procs : run[p].pc # "idle" => lock = p

\* Which command is at which label.
LabelOK(r) ==
  /\ r.pc \in {"gate", "files"} => r.cmd = "plan"
  /\ r.pc = "files" => r.k <= 5
  /\ r.pc \in Started => r.cmd \in LiveCommands
  /\ r.pc \in {"recheck", "clear"} => r.cmd = "apply"
  /\ r.pc \in {"snapshot", "save"} => r.cmd \in {"apply", "rollback"}
  /\ r.pc \in {"unpin", "enforce", "end_snapshot", "end_health"} => r.cmd # "apply"

\* The copy of the record never lacks a checkpoint that is on disk.
CopyOK(r) ==
  r.pc \in Started \cup {"gate"} =>
    /\ tx.done \subseteq r.tx.done
    /\ tx.rbDone \subseteq r.tx.rbDone
    /\ tx.required \subseteq r.tx.required
    /\ Intact(r.tx.done)

\* The current step, and the steps that are left.
StepsOK(r) ==
  /\ r.pc \in {"op", "check"} => r.cur \in r.todo \/ (r.cur = 0 /\ r.cmd # "apply")
  /\ r.pc \in {"clear", "snapshot", "save"} => r.cur \in r.todo
  /\ r.pc \in Started /\ r.cmd = "rollback" => r.todo \subseteq HOST_MUTATION_STEPS
  /\ r.cmd = "apply" /\ r.pc \in {"recheck", "next", "op", "check", "clear", "snapshot"} =>
       r.todo = APPLY_STEPS \ r.tx.done
  /\ r.cmd = "apply" /\ r.pc = "save" =>
       r.todo = (APPLY_STEPS \ r.tx.done) \cup {r.cur} /\ r.cur \in r.tx.done
  /\ r.cmd = "apply" /\ r.pc \in {"op", "check", "clear", "snapshot", "save"} =>
       \A t \in r.todo : r.cur <= t
  /\ r.cmd = "apply" /\ r.pc \in {"op", "check"} => r.cur < mark_applied

\* The record on disk says what the process does.
StateOK(r) ==
  /\ r.pc \in Started => r.tx.state # "NONE"
  /\ r.pc \in Started /\ r.cmd # "apply" =>
       r.tx.state = tx.state /\ tx.state \in RUNTIME_STATES(r.cmd)
  /\ r.cmd = "apply" /\ r.pc \in {"recheck", "next", "op", "check"} /\ mark_applied \in r.todo =>
       r.tx.state = "APPLYING" /\ tx.state = "APPLYING"
  /\ r.cmd = "apply" /\ r.pc \in {"clear", "snapshot", "save"} /\ r.cur < mark_applied =>
       r.tx.state = "APPLYING" /\ tx.state = "APPLYING"

MemoryOK(r) == LabelOK(r) /\ CopyOK(r) /\ StepsOK(r) /\ StateOK(r)

\* A transaction without a record has no checkpoints.
NoRecord == tx.state = "NONE" => tx.done = {} /\ tx.rbDone = {} /\ tx.required = {}

IInv ==
  /\ TypeOK
  /\ NoRecord
  /\ LockHeld
  /\ PrefixIntact
  /\ \A p \in Procs : MemoryOK(run[p])

----------------------------------------------------------------------------
(* Facts about the tables. *)

\* Every step that a command notes as partial is a host step.
LEMMA PartialType ==
  ASSUME NEW op
  PROVE  PARTIAL_ON_EXIT(op) \subseteq HOST_MUTATION_STEPS
BY DEF PARTIAL_ON_EXIT, HOST_MUTATION_STEPS, install_optics_cli, install_agent_sdks,
       stage_pe_archive, docker_load, write_observe_config, install_boot_hold, start_pe_observe

\* Operations put product items on the host, and nothing else.
LEMMA AddsType ==
  ASSUME NEW op
  PROVE  Adds(op) \subseteq Items
BY DEF Adds, Items, OpticsItems, EngineItems

\* An observed delta keeps to the fields of the snapshot.
LEMMA DeltaType ==
  ASSUME NEW op, NEW sn, NEW h, sn \subseteq SnapItems
  PROVE  Delta(op, sn, h) \subseteq SnapItems
BY DEF Delta, SnapItems, OpticsItems

\* A step has at most six operations.
LEMMA OpsLength ==
  ASSUME NEW r \in Memory
  PROVE  Len(Ops(r)) \in 0..6
<1>1. \A s : Len(STEP_OPERATIONS(s)) \in 0..6
  BY DEF STEP_OPERATIONS
<1>2. \A s : Len(ROLLBACK_OPERATIONS(s)) \in 0..6
  BY DEF ROLLBACK_OPERATIONS
<1> QED
  BY <1>1, <1>2 DEF Ops

\* The steps a rollback takes are host steps.
LEMMA PendingType == Pending \subseteq HOST_MUTATION_STEPS
BY DEF Pending

----------------------------------------------------------------------------
(* How a process moves on, and how it ends. *)

LEMMA IdleType == Idle \in Memory
BY DEF Idle, NoTx, Memory, TxRecord, Labels, AllCommands, Phases, Scopes

\* A process moves to a label with the number of an operation, and with new copies
\* of the record and the snapshot.
LEMMA MoveType ==
  ASSUME NEW r \in Memory, NEW l \in Labels, NEW j \in 1..6
  PROVE  [r EXCEPT !.pc = l, !.k = j] \in Memory
BY DEF Memory

LEMMA LoadType ==
  ASSUME NEW r \in Memory, NEW l \in Labels, NEW j \in 1..6, NEW t \in TxRecord,
         NEW z \in SUBSET SnapItems
  PROVE  [r EXCEPT !.pc = l, !.k = j, !.tx = t, !.snap = z] \in Memory
BY DEF Memory

LEMMA ContinueFacts ==
  ASSUME TypeOK, NEW p \in Procs, NEW r \in Memory, Continue(p, r)
  PROVE  /\ run' \in [Procs -> Memory]
         /\ run'[p] = r
         /\ \A q \in Procs \ {p} : run'[q] = run[q]
         /\ lock' = lock
BY DEF TypeOK, Continue

LEMMA LeaveFacts ==
  ASSUME TypeOK, NEW p \in Procs, Leave(p)
  PROVE  /\ run' \in [Procs -> Memory]
         /\ run'[p] = Idle
         /\ \A q \in Procs \ {p} : run'[q] = run[q]
         /\ lock' = NoProc
BY IdleType DEF TypeOK, Leave

\* A process that is at no label has nothing to keep.
LEMMA IdleMemory ==
  ASSUME NEW p \in Procs, run[p].pc = "idle" \/ run[p].pc = "open"
  PROVE  MemoryOK(run[p])
BY DEF MemoryOK, LabelOK, CopyOK, StepsOK, StateOK, Started

\* What is on disk and on the host has its type.
DiskType ==
  /\ tx \in TxRecord
  /\ files \subseteq {"PLAN", "CONFIG", "SNAPSHOT", "HEALTH", "EVIDENCE"}
  /\ snap \subseteq SnapItems
  /\ health \in Health
  /\ partial \subseteq HOST_MUTATION_STEPS
  /\ host \subseteq Items
  /\ faults \in 0..MaxFaults
  /\ NoRecord

\* A step of process p concerns p alone: the others are idle.
LEMMA StepFrame ==
  ASSUME IInv, NEW p \in Procs,
         run[p].pc # "idle" \/ lock = NoProc,
         run' \in [Procs -> Memory],
         \A q \in Procs \ {p} : run'[q] = run[q],
         lock' \in Procs \cup {NoProc},
         run'[p].pc # "idle" => lock' = p,
         DiskType', PrefixIntact', MemoryOK(run[p])'
  PROVE  IInv'
<1>1. \A q \in Procs \ {p} : run[q].pc = "idle"
  BY ConstantsAssumption DEF IInv, LockHeld
<1>2. \A q \in Procs \ {p} : MemoryOK(run[q])'
  <2> SUFFICES ASSUME NEW q \in Procs \ {p}
               PROVE  MemoryOK(run[q])'
    OBVIOUS
  <2>1. run'[q].pc = "idle"
    BY <1>1
  <2> QED
    BY <2>1 DEF MemoryOK, LabelOK, CopyOK, StepsOK, StateOK, Started
<1>3. TypeOK' /\ NoRecord'
  BY DEF TypeOK, DiskType
<1>4. LockHeld'
  BY <1>1 DEF LockHeld
<1> QED
  BY <1>2, <1>3, <1>4 DEF IInv

\* The same for a process that ends.
LEMMA LeaveFrame ==
  ASSUME IInv, NEW p \in Procs, run[p].pc # "idle", Leave(p), DiskType', PrefixIntact'
  PROVE  IInv'
<1>1. run'[p].pc = "idle"
  BY LeaveFacts DEF IInv, Idle
<1>2. MemoryOK(run[p])'
  BY <1>1 DEF MemoryOK, LabelOK, CopyOK, StepsOK, StateOK, Started
<1> QED
  BY <1>1, <1>2, LeaveFacts, StepFrame DEF IInv

\* The same for a process that goes on.
LEMMA ContinueFrame ==
  ASSUME IInv, NEW p \in Procs, run[p].pc # "idle", NEW r \in Memory, Continue(p, r),
         DiskType', PrefixIntact', MemoryOK(run[p])'
  PROVE  IInv'
<1>1. lock = p
  BY DEF IInv, LockHeld
<1> QED
  BY <1>1, ContinueFacts, StepFrame DEF IInv

----------------------------------------------------------------------------
(* The inductive invariant holds initially and is kept by every action. *)

LEMMA InitInv == Init => IInv
<1> SUFFICES ASSUME Init
             PROVE  IInv
  OBVIOUS
<1>1. TypeOK
  BY IdleType, ConstantsAssumption
  DEF Init, TypeOK, NoTx, TxRecord, Phases, Scopes, Health, Items
<1>2. \A p \in Procs : run[p].pc = "idle"
  BY DEF Init, Idle
<1>3. \A p \in Procs : MemoryOK(run[p])
  BY <1>2, IdleMemory
<1>4. PrefixIntact /\ NoRecord
  BY DEF Init, NoTx, PrefixIntact, Intact, NoRecord
<1> QED
  BY <1>1, <1>2, <1>3, <1>4 DEF IInv, LockHeld

\* TypeOK, by parts.
LEMMA TypeParts ==
  ASSUME IInv
  PROVE  /\ DiskType
         /\ run \in [Procs -> Memory]
         /\ PrefixIntact
         /\ \A p \in Procs : MemoryOK(run[p])
BY DEF IInv, TypeOK, DiskType, NoRecord

\* A fault keeps the count within its bound.
LEMMA FaultType ==
  ASSUME NEW kind, faults \in 0..MaxFaults, Fault(kind)
  PROVE  faults' \in 0..MaxFaults
BY ConstantsAssumption DEF Fault

LEMMA AcquireInv ==
  ASSUME IInv, NEW p \in Procs, NEW c \in Commands, Acquire(p, c)
  PROVE  IInv'
<1> DEFINE r == [Idle EXCEPT !.pc = "open", !.cmd = c]
<1>1. r \in Memory
  BY IdleType, ConstantsAssumption DEF Memory, Labels
<1>2. /\ run' \in [Procs -> Memory]
      /\ run'[p] = r
      /\ \A q \in Procs \ {p} : run'[q] = run[q]
  BY <1>1, TypeParts DEF Acquire
<1>3. r.pc = "open"
  BY DEF Idle
<1>4. MemoryOK(run[p])'
  BY <1>2, <1>3 DEF MemoryOK, LabelOK, CopyOK, StepsOK, StateOK, Started
<1>5. DiskType' /\ PrefixIntact'
  BY TypeParts DEF Acquire, disk, DiskType, NoRecord, PrefixIntact
<1> QED
  BY <1>2, <1>4, <1>5, StepFrame DEF Acquire

LEMMA RefuseInv ==
  ASSUME IInv, NEW p \in Procs, Refuse(p)
  PROVE  IInv'
<1>1. faults' \in 0..MaxFaults
  BY TypeParts, FaultType DEF Refuse, DiskType
<1>2. DiskType' /\ PrefixIntact'
  BY <1>1, TypeParts DEF Refuse, disk, DiskType, NoRecord, PrefixIntact
<1> QED
  BY <1>2, LeaveFrame DEF Refuse, At

LEMMA PlanReplayInv ==
  ASSUME IInv, NEW p \in Procs, PlanReplay(p)
  PROVE  IInv'
<1>1. DiskType' /\ PrefixIntact'
  BY TypeParts DEF PlanReplay, disk, DiskType, NoRecord, PrefixIntact
<1> QED
  BY <1>1, LeaveFrame DEF PlanReplay, At

LEMMA PlanOpenInv ==
  ASSUME IInv, NEW p \in Procs, PlanOpen(p)
  PROVE  IInv'
<1> DEFINE r == [run[p] EXCEPT !.pc = "gate", !.tx = tx']
<1>1. tx' \in TxRecord /\ Intact(tx'.done) /\ tx'.state # "NONE"
  BY TypeParts DEF PlanOpen, DiskType, NoTx, TxRecord, TxStates, Phases, Scopes, PrefixIntact, Intact
<1>2. r \in Memory
  BY <1>1, TypeParts DEF Memory, Labels
<1>3. DiskType' /\ PrefixIntact'
  BY <1>1, TypeParts DEF PlanOpen, DiskType, NoRecord, PrefixIntact
<1>4. run'[p] = r
  BY <1>2, ContinueFacts DEF PlanOpen, IInv
<1>5. MemoryOK(run[p])'
  BY <1>1, <1>4, TypeParts DEF PlanOpen, Memory, MemoryOK, LabelOK, CopyOK, StepsOK, StateOK, Started
<1> QED
  BY <1>2, <1>3, <1>5, ContinueFrame DEF PlanOpen, At

LEMMA PlanGateInv ==
  ASSUME IInv, NEW p \in Procs, PlanGate(p)
  PROVE  IInv'
<1> PICK gate \in {"PLANNED", "PREFLIGHT_BLOCKED", "UNSUPPORTED"}, lim \in BOOLEAN,
         lsm \in {{}, {"lsm"}} :
       /\ tx' = [run[p].tx EXCEPT !.state = gate, !.phase = "plan", !.owner = FALSE,
                                  !.mip = FALSE, !.limited = lim]
       /\ Continue(p, [run[p] EXCEPT !.pc = "files", !.k = 1, !.tx = tx', !.snap = lsm])
  BY DEF PlanGate
<1> DEFINE r == [run[p] EXCEPT !.pc = "files", !.k = 1, !.tx = tx', !.snap = lsm]
<1>1. run[p].tx \in TxRecord /\ Intact(run[p].tx.done) /\ run[p].cmd = "plan"
  BY TypeParts DEF PlanGate, At, Memory, MemoryOK, CopyOK, LabelOK, Started
<1>2. tx' \in TxRecord /\ tx'.done = run[p].tx.done /\ tx'.state # "NONE"
  BY <1>1 DEF TxRecord, TxStates, Phases
<1>3. r \in Memory
  <2>1. lsm \in SUBSET SnapItems /\ run[p] \in Memory /\ "files" \in Labels /\ 1 \in 1..6
    BY TypeParts DEF SnapItems, Labels
  <2> QED
    BY <1>2, <2>1, LoadType
<1>4. DiskType' /\ PrefixIntact'
  BY <1>1, <1>2, TypeParts DEF PlanGate, DiskType, NoRecord, PrefixIntact
<1>5. run'[p] = r
  BY <1>3, ContinueFacts DEF IInv
<1>6. r.pc = "files" /\ r.k = 1 /\ r.cmd = "plan"
  BY <1>1, TypeParts DEF Memory
<1>7. MemoryOK(run[p])'
  BY <1>5, <1>6 DEF MemoryOK, LabelOK, CopyOK, StepsOK, StateOK, Started
<1> QED
  BY <1>3, <1>4, <1>7, ContinueFrame DEF PlanGate, At

LEMMA PlanFileInv ==
  ASSUME IInv, NEW p \in Procs, PlanFile(p)
  PROVE  IInv'
<1> DEFINE r == [run[p] EXCEPT !.k = run[p].k + 1]
<1>1. run[p] \in Memory /\ run[p].pc = "files" /\ run[p].k \in 1..5 /\ run[p].cmd = "plan"
  BY TypeParts DEF PlanFile, At, Memory, MemoryOK, LabelOK
<1>2. PlanFiles[run[p].k] \in {"PLAN", "CONFIG", "SNAPSHOT", "HEALTH", "EVIDENCE"}
  BY <1>1 DEF PlanFiles
<1>3. DiskType' /\ PrefixIntact'
  BY <1>1, <1>2, TypeParts DEF PlanFile, DiskType, NoRecord, PrefixIntact, Memory, Health
<1>4. CASE run[p].k < 5
  <2>1. Continue(p, r)
    BY <1>1, <1>4 DEF PlanFile, PlanFiles
  <2>2. r \in Memory
    BY <1>1, <1>4 DEF Memory
  <2>3. run'[p] = r
    BY <2>1, <2>2, ContinueFacts DEF IInv
  <2>4. r.pc = "files" /\ r.k \in 1..5 /\ r.cmd = "plan"
    BY <1>1, <1>4 DEF Memory
  <2>5. MemoryOK(run[p])'
    BY <2>3, <2>4 DEF MemoryOK, LabelOK, CopyOK, StepsOK, StateOK, Started
  <2> QED
    BY <1>1, <1>3, <2>1, <2>2, <2>5, ContinueFrame
<1>5. CASE run[p].k = 5
  <2>1. Leave(p)
    BY <1>5 DEF PlanFile, PlanFiles
  <2> QED
    BY <1>1, <1>3, <2>1, LeaveFrame
<1> QED
  BY <1>1, <1>4, <1>5

\* An operation, whole or in part, leaves only product items on the host.
LEMMA HostType ==
  ASSUME NEW op, host \subseteq Items
  PROVE  Complete(op) \subseteq Items /\ \A h \in AnyPart(op) : h \subseteq Items
<1>1. Complete(op) \subseteq Items
  BY AddsType DEF Complete
<1>2. ASSUME NEW a \in SUBSET Adds(op), NEW d \in SUBSET Removes(op)
      PROVE  (host \cup a) \ d \subseteq Items
  BY AddsType
<1> QED
  BY <1>1, <1>2 DEF AnyPart

LEMMA OpExecInv ==
  ASSUME IInv, NEW p \in Procs, OpExec(p)
  PROVE  IInv'
<1> DEFINE r(rc) == [run[p] EXCEPT !.pc = "check", !.rc = rc]
           op == Op(run[p])
<1>1. run[p] \in Memory /\ run[p].pc = "op" /\ MemoryOK(run[p])
  BY TypeParts DEF OpExec, At
<1>2. PICK rc \in {"zero", "nonzero", "timeout"} : Continue(p, r(rc))
  BY DEF OpExec
<1>3. /\ host' = host \/ host' = Complete(op) \/ host' \in AnyPart(op)
      /\ faults' = faults \/ \E kind \in Faults : Fault(kind)
  BY DEF OpExec, Faults
<1>4. DiskType' /\ PrefixIntact'
  BY <1>3, TypeParts, HostType, FaultType DEF OpExec, disk, DiskType, NoRecord, PrefixIntact
<1>5. r(rc) \in Memory
  BY <1>1, <1>2 DEF Memory, Labels
<1>6. run'[p] = r(rc)
  BY <1>2, <1>5, ContinueFacts DEF IInv
<1>7. tx' = tx
  BY DEF OpExec, disk
<1>8. MemoryOK(run[p])'
  BY <1>1, <1>6, <1>7 DEF Memory, MemoryOK, LabelOK, CopyOK, StepsOK, StateOK, Started
<1> QED
  BY <1>1, <1>2, <1>4, <1>5, <1>8, ContinueFrame

\* A step of apply that runs operations comes before mark_applied, which is then
\* still to do.
LEMMA BeforeMark ==
  ASSUME NEW r \in Memory, MemoryOK(r), r.cmd = "apply", r.pc \in {"op", "check", "next"},
         r.cur \in r.todo, r.cur < mark_applied
  PROVE  mark_applied \in r.todo
BY DEF Memory, TxRecord, MemoryOK, CopyOK, StepsOK, Started, Intact, APPLY_STEPS, mark_applied

LEMMA AfterOpType ==
  ASSUME NEW r \in Memory
  PROVE  AfterOp(r) \in Memory
<1>1. PICK n \in 0..6 : n = Len(Ops(r))
  BY OpsLength
<1>2. r.todo \ {r.cur} \in SUBSET APPLY_STEPS
  BY DEF Memory
<1>3. AfterStep(r) \in Memory
  BY <1>2 DEF AfterStep, Memory, Labels
<1>4. ASSUME r.k < Len(Ops(r))
      PROVE  [r EXCEPT !.pc = "op", !.k = r.k + 1] \in Memory
  <2>1. r.k \in 1..6
    BY DEF Memory
  <2>2. r.k < n
    BY <1>1, <1>4
  <2>3. r.k + 1 \in 1..6
    BY <2>1, <2>2
  <2>4. "op" \in Labels
    BY DEF Labels
  <2> QED
    BY <2>3, <2>4, MoveType
<1> QED
  BY <1>3, <1>4 DEF AfterOp

LEMMA AfterOpMemory ==
  ASSUME NEW r \in Memory, r.pc = "check", MemoryOK(r), tx \in TxRecord
  PROVE  MemoryOK(AfterOp(r))
<1>1. CASE r.k < Len(Ops(r))
  <2>1. AfterOp(r) = [r EXCEPT !.pc = "op", !.k = r.k + 1]
    BY <1>1 DEF AfterOp
  <2> QED
    BY <2>1 DEF Memory, MemoryOK, LabelOK, CopyOK, StepsOK, StateOK, Started
<1>2. CASE ~(r.k < Len(Ops(r))) /\ r.cur = 0
  <2>1. AfterOp(r) = [r EXCEPT !.pc = "enforce"]
    BY <1>2 DEF AfterOp, AfterStep
  <2>2. r.cmd # "apply"
    BY <1>2 DEF Memory, MemoryOK, StepsOK, APPLY_STEPS
  <2> QED
    BY <2>1, <2>2 DEF Memory, MemoryOK, LabelOK, CopyOK, StepsOK, StateOK, Started
<1>3. CASE ~(r.k < Len(Ops(r))) /\ r.cur # 0 /\ r.cmd = "apply"
  <2>1. AfterOp(r) = [r EXCEPT !.pc = "clear"]
    BY <1>3 DEF AfterOp, AfterStep
  <2>2. r.cur \in r.todo /\ r.cur < mark_applied
    BY <1>3 DEF MemoryOK, StepsOK
  <2>3. mark_applied \in r.todo
    BY <1>3, <2>2, BeforeMark
  <2> QED
    BY <1>3, <2>1, <2>2, <2>3 DEF Memory, MemoryOK, LabelOK, CopyOK, StepsOK, StateOK, Started
<1>4. CASE ~(r.k < Len(Ops(r))) /\ r.cur # 0 /\ r.cmd = "rollback"
  <2>1. AfterOp(r) = [r EXCEPT !.pc = "snapshot"]
    BY <1>4 DEF AfterOp, AfterStep
  <2> QED
    BY <1>4, <2>1 DEF Memory, MemoryOK, LabelOK, CopyOK, StepsOK, StateOK, Started
<1>5. CASE ~(r.k < Len(Ops(r))) /\ r.cur # 0 /\ r.cmd \notin {"apply", "rollback"}
  <2>1. AfterOp(r) = [r EXCEPT !.pc = "next", !.todo = r.todo \ {r.cur}]
    BY <1>5 DEF AfterOp, AfterStep
  <2> QED
    BY <1>5, <2>1 DEF Memory, MemoryOK, LabelOK, CopyOK, StepsOK, StateOK, Started
<1> QED
  BY <1>1, <1>2, <1>3, <1>4, <1>5

LEMMA OpCheckInv ==
  ASSUME IInv, NEW p \in Procs, OpCheck(p)
  PROVE  IInv'
<1> DEFINE op == Op(run[p])
           s == [run[p] EXCEPT !.snap = Delta(op, run[p].snap, host)]
           e(rc) == [run[p] EXCEPT !.pc = "error", !.rc = rc]
<1>1. run[p] \in Memory /\ run[p].pc = "check" /\ MemoryOK(run[p])
  BY TypeParts DEF OpCheck, At
<1>2. partial' \subseteq HOST_MUTATION_STEPS
  BY TypeParts, PartialType DEF OpCheck, DiskType
<1>3. faults' \in 0..MaxFaults
  BY TypeParts, FaultType DEF OpCheck, DiskType
<1>4. DiskType' /\ PrefixIntact'
  BY <1>2, <1>3, TypeParts DEF OpCheck, DiskType, NoRecord, PrefixIntact
<1>5. tx' = tx
  BY DEF OpCheck
<1>6. CASE Continue(p, AfterOp(s))
  <2>1. Delta(op, run[p].snap, host) \subseteq SnapItems
    BY <1>1, DeltaType DEF Memory
  <2>2. s \in Memory /\ s.pc = "check"
    BY <1>1, <2>1 DEF Memory
  <2>3. MemoryOK(s)
    BY <1>1 DEF Memory, MemoryOK, LabelOK, CopyOK, StepsOK, StateOK, Started
  <2>4. AfterOp(s) \in Memory /\ MemoryOK(AfterOp(s))
    BY <2>2, <2>3, AfterOpType, AfterOpMemory, TypeParts DEF DiskType
  <2>5. run'[p] = AfterOp(s)
    BY <1>6, <2>4, ContinueFacts DEF IInv
  <2>6. MemoryOK(run[p])'
    <3> DEFINE t == AfterOp(s)
    <3> HIDE DEF s, t
    <3> QED
      BY <1>5, <2>4, <2>5 DEF MemoryOK, LabelOK, CopyOK, StepsOK, StateOK
  <2> QED
    BY <1>1, <1>4, <1>6, <2>4, <2>6, ContinueFrame
<1>7. CASE \E rc \in {"nonzero", "timeout", "unverified"} : Continue(p, e(rc))
  <2> PICK rc \in {"nonzero", "timeout", "unverified"} : Continue(p, e(rc))
    BY <1>7
  <2>1. e(rc) \in Memory
    BY <1>1 DEF Memory, Labels
  <2>2. run'[p] = e(rc)
    BY <2>1, ContinueFacts DEF IInv
  <2>3. MemoryOK(run[p])'
    BY <1>1, <1>5, <2>2 DEF Memory, MemoryOK, LabelOK, CopyOK, StepsOK, StateOK, Started
  <2> QED
    BY <1>1, <1>4, <2>1, <2>3, ContinueFrame
<1>8. run[p].rc # "zero" /\ Goto(p, "error") => Continue(p, e(run[p].rc))
  BY <1>1 DEF Goto, Memory
<1> QED
  BY <1>1, <1>6, <1>7, <1>8 DEF OpCheck, Memory

\* What a process that has opened the transaction knows of its own copies.
LEMMA OwnCopy ==
  ASSUME IInv, NEW p \in Procs, run[p].pc \in Started
  PROVE  /\ run[p] \in Memory
         /\ run[p].tx \in TxRecord
         /\ run[p].tx.state # "NONE"
         /\ Intact(run[p].tx.done)
         /\ run[p].cmd \in LiveCommands
         /\ run[p].snap \subseteq SnapItems
         /\ MemoryOK(run[p])
BY TypeParts DEF Memory, MemoryOK, CopyOK, LabelOK, StateOK

LEMMA ErrorSaveInv ==
  ASSUME IInv, NEW p \in Procs, ErrorSave(p)
  PROVE  IInv'
<1>1. run[p].pc = "error" /\ run[p].pc # "idle" /\ run[p].pc \in Started
  BY DEF ErrorSave, At, Started
<1> DEFINE r == run[p]
           target == IF r.rc = "timeout" THEN "INTERRUPTED" ELSE "FAILED_SAFE"
           state == IF r.tx.state \in RUNTIME_STATES(r.cmd) \cup {"APPLIED"}
                    THEN target ELSE r.tx.state
           owed == IF r.cmd = "apply" /\ r.rc = "unverified"
                   THEN {r.cur} \cap HOST_MUTATION_STEPS ELSE {}
           owner == IF r.cmd = "uninstall" THEN r.tx.owner ELSE FALSE
<1>2. tx' = [r.tx EXCEPT !.state = state, !.required = r.tx.required \cup owed,
                         !.mip = FALSE, !.owner = owner]
  BY <1>1, OwnCopy DEF ErrorSave, TxRecord
<1>3. state \in TxStates /\ state # "NONE" /\ owed \in SUBSET HOST_MUTATION_STEPS /\ owner \in BOOLEAN
  BY <1>1, OwnCopy DEF TxRecord, TxStates
<1> HIDE DEF state, owed, owner
<1>4. tx' \in TxRecord /\ tx'.done = r.tx.done /\ tx'.state # "NONE"
  <2>1. r.tx \in TxRecord
    BY <1>1, OwnCopy
  <2>2. r.tx.required \cup owed \in SUBSET HOST_MUTATION_STEPS
    BY <1>3, <2>1 DEF TxRecord
  <2> QED
    BY ONLY <1>2, <1>3, <2>1, <2>2 DEF TxRecord
<1>5. DiskType' /\ PrefixIntact'
  BY <1>1, <1>4, OwnCopy, TypeParts DEF ErrorSave, DiskType, NoRecord, PrefixIntact
<1> QED
  BY <1>1, <1>5, LeaveFrame DEF ErrorSave

LEMMA ApplyFailSafeInv ==
  ASSUME IInv, NEW p \in Procs, ApplyFailSafe(p)
  PROVE  IInv'
<1>1. tx' \in TxRecord /\ tx'.done = tx.done /\ tx'.state # "NONE"
  BY TypeParts DEF ApplyFailSafe, DiskType, TxRecord, TxStates, Phases
<1>2. faults' \in 0..MaxFaults
  BY TypeParts, FaultType DEF ApplyFailSafe, DiskType
<1>3. DiskType' /\ PrefixIntact'
  BY <1>1, <1>2, TypeParts DEF ApplyFailSafe, DiskType, NoRecord, PrefixIntact
<1> QED
  BY <1>3, LeaveFrame DEF ApplyFailSafe, At

\* A command that opens the transaction: the record is saved, the copies are taken.
LEMMA OpenType ==
  ASSUME NEW r \in Memory, NEW l \in Labels, NEW t \in TxRecord, NEW z \in SUBSET SnapItems,
         NEW todo \in SUBSET APPLY_STEPS
  PROVE  [r EXCEPT !.pc = l, !.tx = t, !.snap = z, !.todo = todo] \in Memory
BY DEF Memory

LEMMA ApplyOpenInv ==
  ASSUME IInv, NEW p \in Procs, ApplyOpen(p)
  PROVE  IInv'
<1> DEFINE r == [run[p] EXCEPT !.pc = "recheck", !.tx = tx', !.snap = snap,
                               !.todo = APPLY_STEPS \ tx.done]
<1>1. run[p] \in Memory /\ run[p].pc = "open" /\ run[p].cmd = "apply"
  BY TypeParts DEF ApplyOpen, At
<1>2. CASE /\ tx' = [tx EXCEPT !.state = "APPLYING", !.mip = TRUE, !.owner = TRUE,
                               !.phase = "apply"]
           /\ Continue(p, r)
  <2>1. /\ tx' \in TxRecord /\ tx'.done = tx.done /\ tx'.state = "APPLYING"
        /\ tx'.done \in SUBSET APPLY_STEPS
    BY <1>2, TypeParts DEF DiskType, TxRecord, TxStates, Phases
  <2>2. DiskType' /\ PrefixIntact'
    BY <2>1, TypeParts DEF ApplyOpen, DiskType, NoRecord, PrefixIntact
  <2>3. r \in Memory
    <3>1. "recheck" \in Labels /\ snap \in SUBSET SnapItems /\ APPLY_STEPS \ tx.done \in SUBSET APPLY_STEPS
      BY TypeParts DEF Labels, DiskType
    <3> QED
      BY <1>1, <2>1, <3>1, OpenType
  <2>4. run'[p] = r
    BY <1>2, <2>3, ContinueFacts DEF IInv
  <2>5. /\ run'[p].pc = "recheck" /\ run'[p].cmd = "apply" /\ run'[p].tx = tx'
        /\ run'[p].todo = APPLY_STEPS \ tx'.done
    BY <1>1, <2>1, <2>4 DEF Memory
  <2>6. MemoryOK(run[p])'
    BY <2>1, <2>2, <2>5
    DEF MemoryOK, LabelOK, CopyOK, StepsOK, StateOK, Started, LiveCommands, PrefixIntact
  <2> QED
    BY <1>1, <1>2, <2>2, <2>3, <2>6, ContinueFrame
<1>3. CASE Leave(p) /\ UNCHANGED tx
  <2>1. DiskType' /\ PrefixIntact'
    BY <1>3, TypeParts DEF ApplyOpen, DiskType, NoRecord, PrefixIntact
  <2> QED
    BY <1>1, <1>3, <2>1, LeaveFrame
<1> QED
  BY <1>2, <1>3 DEF ApplyOpen

LEMMA ApplyRecheckInv ==
  ASSUME IInv, NEW p \in Procs, ApplyRecheck(p)
  PROVE  IInv'
<1> DEFINE r == [run[p] EXCEPT !.pc = "next"]
<1>1. run[p].pc = "recheck" /\ run[p].pc # "idle" /\ run[p].pc \in Started
  BY DEF ApplyRecheck, At, Started
<1>2. faults' \in 0..MaxFaults
  BY TypeParts, FaultType DEF ApplyRecheck, DiskType
<1>3. CASE Goto(p, "next") /\ UNCHANGED tx
  <2>1. Continue(p, r)
    BY <1>3 DEF Goto
  <2>2. DiskType' /\ PrefixIntact'
    BY <1>2, <1>3, TypeParts DEF ApplyRecheck, DiskType, NoRecord, PrefixIntact
  <2>3. r \in Memory
    BY <1>1, OwnCopy DEF Memory, Labels
  <2>4. run'[p] = r
    BY <2>1, <2>3, ContinueFacts DEF IInv
  <2>5. MemoryOK(run[p])'
    BY <1>1, <1>3, <2>4, OwnCopy
    DEF Memory, MemoryOK, LabelOK, CopyOK, StepsOK, StateOK, Started
  <2> QED
    BY <1>1, <2>1, <2>2, <2>3, <2>5, ContinueFrame
<1>4. CASE /\ tx' = [run[p].tx EXCEPT !.state = "FAILED_SAFE", !.mip = FALSE, !.owner = FALSE]
           /\ Leave(p)
  <2>1. tx' \in TxRecord /\ tx'.done = run[p].tx.done /\ tx'.state # "NONE"
    BY <1>1, <1>4, OwnCopy DEF TxRecord, TxStates
  <2>2. DiskType' /\ PrefixIntact'
    BY <1>1, <1>2, <2>1, OwnCopy, TypeParts DEF ApplyRecheck, DiskType, NoRecord, PrefixIntact
  <2> QED
    BY <1>1, <1>4, <2>2, LeaveFrame
<1>5. CASE Leave(p) /\ UNCHANGED tx
  <2>1. DiskType' /\ PrefixIntact'
    BY <1>2, <1>5, TypeParts DEF ApplyRecheck, DiskType, NoRecord, PrefixIntact
  <2> QED
    BY <1>1, <1>5, <2>1, LeaveFrame
<1> QED
  BY <1>3, <1>4, <1>5 DEF ApplyRecheck

LEMMA StepBeginInv ==
  ASSUME IInv, NEW p \in Procs, StepBegin(p)
  PROVE  IInv'
<1>1. run[p].pc = "next" /\ run[p].pc # "idle" /\ run[p].pc \in Started
  BY DEF StepBegin, At, Started
<1> PICK s \in run[p].todo :
      /\ \A t \in run[p].todo : Precedes(run[p].cmd, s, t)
      /\ s \notin {verify_artifacts, mark_applied, collect_health, write_support_index}
      /\ Continue(p, [run[p] EXCEPT !.pc = "op", !.cur = s, !.k = 1])
  BY DEF StepBegin
<1> DEFINE r == [run[p] EXCEPT !.pc = "op", !.cur = s, !.k = 1]
<1>2. run[p] \in Memory /\ MemoryOK(run[p]) /\ s \in APPLY_STEPS
  BY <1>1, OwnCopy DEF Memory
<1>3. r \in Memory
  <2>1. "op" \in Labels /\ 1 \in 1..6
    BY DEF Labels
  <2>2. ASSUME NEW m \in Memory, NEW j \in 1..6, NEW l \in Labels
        PROVE  [m EXCEPT !.pc = l, !.cur = s, !.k = j] \in Memory
    BY <1>2 DEF Memory
  <2> QED
    BY <1>2, <2>1, <2>2
<1>4. DiskType' /\ PrefixIntact'
  BY TypeParts DEF StepBegin, disk, DiskType, NoRecord, PrefixIntact
<1>5. run'[p] = r /\ tx' = tx
  BY <1>3, ContinueFacts DEF IInv, StepBegin, disk
<1>6. run[p].cmd = "apply" => s < mark_applied /\ \A t \in run[p].todo : s <= t
  BY <1>2 DEF Precedes, APPLY_STEPS, verify_artifacts, mark_applied, collect_health,
              write_support_index
<1>7. MemoryOK(run[p])'
  <2>1. /\ r.pc = "op" /\ r.cur = s /\ r.cmd = run[p].cmd /\ r.tx = run[p].tx
        /\ r.todo = run[p].todo
    BY <1>2 DEF Memory
  <2> HIDE DEF r
  <2> QED
    BY <1>1, <1>2, <1>5, <1>6, <2>1
    DEF MemoryOK, LabelOK, CopyOK, StepsOK, StateOK, Started
<1> QED
  BY <1>1, <1>3, <1>4, <1>7, ContinueFrame

\* The part of MemoryOK that a step without operations has to establish.
LEMMA ApplyStepMemory ==
  ASSUME NEW r \in Memory, MemoryOK(r), r.pc = "next", r.cmd = "apply", NEW s \in r.todo,
         \A t \in r.todo : s <= t, NEW state \in TxStates,
         s < mark_applied => state = r.tx.state
  PROVE  LET u == [r EXCEPT !.pc = "clear", !.cur = s, !.tx.state = state]
         IN  u \in Memory /\ MemoryOK(u)
<1> DEFINE u == [r EXCEPT !.pc = "clear", !.cur = s, !.tx.state = state]
<1>1. s \in APPLY_STEPS /\ r.tx \in TxRecord
  BY DEF Memory
<1>2. [r.tx EXCEPT !.state = state] \in TxRecord
  BY <1>1 DEF TxRecord
<1>3. u \in Memory
  BY <1>1, <1>2 DEF Memory, Labels
<1>4. /\ u.pc = "clear" /\ u.cur = s /\ u.cmd = "apply" /\ u.todo = r.todo
      /\ u.tx.state = state /\ u.tx.done = r.tx.done /\ u.tx.rbDone = r.tx.rbDone
      /\ u.tx.required = r.tx.required /\ state # "NONE"
  BY <1>1 DEF Memory, TxRecord, TxStates
<1>5. s < mark_applied => mark_applied \in r.todo
  BY <1>1 DEF Memory, TxRecord, MemoryOK, CopyOK, StepsOK, Started, Intact, APPLY_STEPS,
              mark_applied
<1>6. MemoryOK(u)
  <2> HIDE DEF u
  <2> QED
    BY <1>4, <1>5 DEF MemoryOK, LabelOK, CopyOK, StepsOK, StateOK, Started, LiveCommands
<1> QED
  BY <1>3, <1>6

LEMMA ApplyStepInv ==
  ASSUME IInv, NEW p \in Procs, ApplyStep(p)
  PROVE  IInv'
<1> DEFINE r == run[p]
           u(s, state) == [r EXCEPT !.pc = "clear", !.cur = s, !.tx.state = state]
<1>1. r.pc = "next" /\ r.pc # "idle" /\ r.pc \in Started /\ r.cmd = "apply" /\ tx' = tx
  BY DEF ApplyStep, At, Started
<1>2. r \in Memory /\ MemoryOK(r) /\ r.tx \in TxRecord /\ r.snap \subseteq SnapItems
  BY <1>1, OwnCopy
<1>3. snap' \subseteq SnapItems /\ health' \in Health /\ faults' \in 0..MaxFaults
  <2>1. snap' = snap \/ snap' = r.snap
    BY DEF ApplyStep
  <2>2. health' = health \/ health' = Derive(r.snap, r.tx.limited)
    BY DEF ApplyStep
  <2>3. Derive(r.snap, r.tx.limited) \in Health
    BY DEF Derive, Health
  <2>4. faults' = faults \/ Fault("recheck")
    BY DEF ApplyStep
  <2> QED
    BY <1>2, <2>1, <2>2, <2>3, <2>4, TypeParts, FaultType DEF DiskType
<1>4. DiskType' /\ PrefixIntact'
  BY <1>3, TypeParts DEF ApplyStep, DiskType, NoRecord, PrefixIntact
<1> PICK s \in r.todo :
      /\ \A t \in r.todo : Precedes(r.cmd, s, t)
      /\ \/ s = verify_artifacts /\ Continue(p, u(s, r.tx.state))
         \/ Continue(p, [r EXCEPT !.pc = "end_save", !.tx.state = "FAILED_SAFE"])
         \/ s = mark_applied /\ Continue(p, u(s, "APPLIED"))
         \/ s = collect_health /\ Continue(p, u(s, HealthState(health')))
         \/ Continue(p, [r EXCEPT !.pc = "error", !.cur = s, !.rc = "nonzero"])
         \/ s = write_support_index /\ Continue(p, u(s, r.tx.state))
  BY DEF ApplyStep
<1>5. s \in APPLY_STEPS /\ \A t \in r.todo : s <= t
  BY <1>1, <1>2 DEF Precedes, Memory
<1>6. ASSUME NEW state \in TxStates, s < mark_applied => state = r.tx.state,
             Continue(p, u(s, state))
      PROVE  IInv'
  <2>1. u(s, state) \in Memory /\ MemoryOK(u(s, state))
    BY <1>1, <1>2, <1>5, <1>6, ApplyStepMemory
  <2>2. run'[p] = u(s, state)
    BY <1>6, <2>1, ContinueFacts DEF IInv
  <2>3. MemoryOK(run[p])'
    <3> DEFINE v == u(s, state)
    <3> HIDE DEF u, v
    <3> QED
      BY <1>1, <2>1, <2>2 DEF MemoryOK, LabelOK, CopyOK, StepsOK, StateOK
  <2> QED
    BY <1>1, <1>4, <1>6, <2>1, <2>3, ContinueFrame
<1>7. CASE Continue(p, [r EXCEPT !.pc = "end_save", !.tx.state = "FAILED_SAFE"])
  <2> DEFINE v == [r EXCEPT !.pc = "end_save", !.tx.state = "FAILED_SAFE"]
  <2>1. [r.tx EXCEPT !.state = "FAILED_SAFE"] \in TxRecord
    BY <1>2 DEF TxRecord, TxStates
  <2>2. v \in Memory
    BY <1>2, <2>1 DEF Memory, Labels
  <2>3. run'[p] = v
    BY <1>7, <2>2, ContinueFacts DEF IInv
  <2>4. /\ v.pc = "end_save" /\ v.cmd = "apply" /\ v.todo = r.todo
        /\ v.tx.done = r.tx.done /\ v.tx.rbDone = r.tx.rbDone /\ v.tx.required = r.tx.required
        /\ v.tx.state # "NONE"
    BY <1>1, <1>2 DEF Memory, TxRecord
  <2>5. MemoryOK(run[p])'
    <3> HIDE DEF v
    <3> QED
      BY <1>1, <1>2, <2>3, <2>4 DEF MemoryOK, LabelOK, CopyOK, StepsOK, StateOK, Started
  <2> QED
    BY <1>1, <1>4, <1>7, <2>2, <2>5, ContinueFrame
<1>8. CASE Continue(p, [r EXCEPT !.pc = "error", !.cur = s, !.rc = "nonzero"])
  <2> DEFINE v == [r EXCEPT !.pc = "error", !.cur = s, !.rc = "nonzero"]
  <2>1. v \in Memory
    BY <1>2, <1>5 DEF Memory, Labels
  <2>2. run'[p] = v
    BY <1>8, <2>1, ContinueFacts DEF IInv
  <2>3. v.pc = "error" /\ v.cmd = "apply" /\ v.todo = r.todo /\ v.tx = r.tx
    BY <1>1, <1>2 DEF Memory
  <2>4. MemoryOK(run[p])'
    <3> HIDE DEF v
    <3> QED
      BY <1>1, <1>2, <2>2, <2>3 DEF MemoryOK, LabelOK, CopyOK, StepsOK, StateOK, Started
  <2> QED
    BY <1>1, <1>4, <1>8, <2>1, <2>4, ContinueFrame
<1>9. r.tx.state \in TxStates
  BY <1>1, OwnCopy DEF TxRecord
<1>10. HealthState(health') \in TxStates /\ "APPLIED" \in TxStates
  BY DEF HealthState, TxStates
<1>11. ~(mark_applied < mark_applied) /\ ~(collect_health < mark_applied)
  BY DEF mark_applied, collect_health
<1> HIDE DEF u
<1> QED
  BY <1>6, <1>7, <1>8, <1>9, <1>10, <1>11

LEMMA ClearPartialInv ==
  ASSUME IInv, NEW p \in Procs, ClearPartial(p)
  PROVE  IInv'
<1> DEFINE r == [run[p] EXCEPT !.pc = "snapshot"]
<1>1. run[p].pc = "clear" /\ run[p].pc # "idle" /\ run[p].pc \in Started /\ tx' = tx
  BY DEF ClearPartial, At, Started
<1>2. DiskType' /\ PrefixIntact'
  BY TypeParts DEF ClearPartial, DiskType, NoRecord, PrefixIntact
<1>3. Continue(p, r)
  BY DEF ClearPartial, Goto
<1>4. r \in Memory
  BY <1>1, OwnCopy DEF Memory, Labels
<1>5. run'[p] = r
  BY <1>3, <1>4, ContinueFacts DEF IInv
<1>6. MemoryOK(run[p])'
  BY <1>1, <1>5, OwnCopy DEF Memory, MemoryOK, LabelOK, CopyOK, StepsOK, StateOK, Started
<1> QED
  BY <1>1, <1>2, <1>3, <1>4, <1>6, ContinueFrame

LEMMA SaveSnapshotInv ==
  ASSUME IInv, NEW p \in Procs, SaveSnapshot(p)
  PROVE  IInv'
<1> DEFINE r == run[p]
           a == [r EXCEPT !.pc = "save", !.tx.done = @ \cup {r.cur}]
           b == [r EXCEPT !.pc = "save", !.tx.rbDone = @ \cup {r.cur}]
<1>1. r.pc = "snapshot" /\ r.pc # "idle" /\ r.pc \in Started /\ tx' = tx
  BY DEF SaveSnapshot, At, Started
<1>2. r \in Memory /\ MemoryOK(r) /\ r.tx \in TxRecord /\ r.snap \subseteq SnapItems
  BY <1>1, OwnCopy
<1>3. DiskType' /\ PrefixIntact'
  BY <1>2, TypeParts DEF SaveSnapshot, DiskType, NoRecord, PrefixIntact
<1>4. r.cur \in r.todo /\ r.cur \in APPLY_STEPS
  BY <1>1, <1>2 DEF Memory, MemoryOK, StepsOK
<1>5. CASE r.cmd = "apply"
  <2>1. Continue(p, a)
    BY <1>5 DEF SaveSnapshot
  <2>2. [r.tx EXCEPT !.done = @ \cup {r.cur}] \in TxRecord
    BY <1>2, <1>4 DEF TxRecord
  <2>3. a \in Memory
    BY <1>2, <2>2 DEF Memory, Labels
  <2>4. run'[p] = a
    BY <2>1, <2>3, ContinueFacts DEF IInv
  <2>5. /\ a.pc = "save" /\ a.cmd = "apply" /\ a.todo = r.todo /\ a.cur = r.cur
        /\ a.tx.state = r.tx.state /\ a.tx.done = r.tx.done \cup {r.cur}
        /\ a.tx.rbDone = r.tx.rbDone /\ a.tx.required = r.tx.required
    BY <1>2, <1>5 DEF Memory, TxRecord
  <2>6. r.todo = APPLY_STEPS \ r.tx.done /\ (\A t \in r.todo : r.cur <= t) /\ Intact(r.tx.done)
    BY <1>1, <1>2, <1>5 DEF MemoryOK, StepsOK, CopyOK
  <2>7. Intact(r.tx.done \cup {r.cur})
    BY <1>4, <2>6 DEF Intact, APPLY_STEPS
  <2>8. r.todo = (APPLY_STEPS \ (r.tx.done \cup {r.cur})) \cup {r.cur}
    BY <1>4, <2>6
  <2>9. MemoryOK(run[p])'
    <3> HIDE DEF a
    <3> QED
      BY <1>1, <1>2, <1>5, <2>4, <2>5, <2>7, <2>8
      DEF MemoryOK, LabelOK, CopyOK, StepsOK, StateOK, Started
  <2> QED
    BY <1>1, <1>3, <2>1, <2>3, <2>9, ContinueFrame
<1>6. CASE r.cmd # "apply"
  <2>1. Continue(p, b) /\ r.cmd = "rollback"
    BY <1>1, <1>2, <1>6 DEF SaveSnapshot, MemoryOK, LabelOK
  <2>2. r.cur \in HOST_MUTATION_STEPS
    BY <1>1, <1>2, <1>4, <2>1 DEF MemoryOK, StepsOK
  <2>3. [r.tx EXCEPT !.rbDone = @ \cup {r.cur}] \in TxRecord
    BY <1>2, <2>2 DEF TxRecord
  <2>4. b \in Memory
    BY <1>2, <2>3 DEF Memory, Labels
  <2>5. run'[p] = b
    BY <2>1, <2>4, ContinueFacts DEF IInv
  <2>6. /\ b.pc = "save" /\ b.cmd = "rollback" /\ b.todo = r.todo /\ b.cur = r.cur
        /\ b.tx.state = r.tx.state /\ b.tx.done = r.tx.done
        /\ b.tx.rbDone = r.tx.rbDone \cup {r.cur} /\ b.tx.required = r.tx.required
    BY <1>2, <2>1 DEF Memory, TxRecord
  <2>7. MemoryOK(run[p])'
    <3> HIDE DEF b
    <3> QED
      BY <1>1, <1>2, <2>1, <2>5, <2>6
      DEF MemoryOK, LabelOK, CopyOK, StepsOK, StateOK, Started
  <2> QED
    BY <1>1, <1>3, <2>1, <2>4, <2>7, ContinueFrame
<1> QED
  BY <1>5, <1>6

LEMMA SaveTxInv ==
  ASSUME IInv, NEW p \in Procs, SaveTx(p)
  PROVE  IInv'
<1> DEFINE r == run[p]
           u == [r EXCEPT !.pc = "next", !.todo = r.todo \ {r.cur}]
<1>1. r.pc = "save" /\ r.pc # "idle" /\ r.pc \in Started /\ tx' = r.tx /\ Continue(p, u)
  BY DEF SaveTx, At, Started
<1>2. r \in Memory /\ MemoryOK(r) /\ r.tx \in TxRecord /\ Intact(r.tx.done) /\ r.tx.state # "NONE"
  BY <1>1, OwnCopy
<1>3. DiskType' /\ PrefixIntact'
  BY <1>1, <1>2, TypeParts DEF SaveTx, DiskType, NoRecord, PrefixIntact
<1>4. r.todo \ {r.cur} \in SUBSET APPLY_STEPS
  BY <1>2 DEF Memory
<1>5. u \in Memory
  BY <1>2, <1>4 DEF Memory, Labels
<1>6. run'[p] = u
  BY <1>1, <1>5, ContinueFacts DEF IInv
<1>7. /\ u.pc = "next" /\ u.cmd = r.cmd /\ u.tx = r.tx /\ u.cur = r.cur
      /\ u.todo = r.todo \ {r.cur}
  BY <1>2 DEF Memory
<1>8. ASSUME r.cmd = "apply"
      PROVE  r.todo \ {r.cur} = APPLY_STEPS \ r.tx.done
  <2>1. r.todo = (APPLY_STEPS \ r.tx.done) \cup {r.cur} /\ r.cur \in r.tx.done
    BY <1>1, <1>2, <1>8 DEF MemoryOK, StepsOK
  <2> QED
    BY <2>1
<1>9. ASSUME r.cmd = "apply", mark_applied \in r.todo \ {r.cur}
      PROVE  r.tx.state = "APPLYING"
  <2>1. r.cur <= mark_applied /\ r.cur # mark_applied /\ r.cur \in APPLY_STEPS
    BY <1>1, <1>2, <1>9 DEF Memory, MemoryOK, StepsOK
  <2>2. r.cur < mark_applied
    BY <2>1 DEF APPLY_STEPS, mark_applied
  <2> QED
    BY <1>1, <1>2, <1>9, <2>2 DEF MemoryOK, StateOK
<1>10. MemoryOK(run[p])'
  <2> HIDE DEF u
  <2> QED
    BY <1>1, <1>2, <1>6, <1>7, <1>8, <1>9
    DEF MemoryOK, LabelOK, CopyOK, StepsOK, StateOK, Started
<1> QED
  BY <1>1, <1>3, <1>5, <1>10, ContinueFrame

\* A process that only moves to another label, without a write to the record.
LEMMA GotoInv ==
  ASSUME IInv, NEW p \in Procs, run[p].pc \in Started, NEW l \in Labels, Goto(p, l), tx' = tx,
         DiskType', MemoryOK([run[p] EXCEPT !.pc = l])
  PROVE  IInv'
<1> DEFINE u == [run[p] EXCEPT !.pc = l]
<1>1. Continue(p, u)
  BY DEF Goto
<1>2. u \in Memory
  BY OwnCopy DEF Memory
<1>3. run'[p] = u
  BY <1>1, <1>2, ContinueFacts DEF IInv
<1>4. MemoryOK(run[p])'
  <2>1. MemoryOK(u)
    OBVIOUS
  <2> HIDE DEF u
  <2> QED
    BY <1>3, <2>1 DEF MemoryOK, LabelOK, CopyOK, StepsOK, StateOK
<1>5. PrefixIntact' /\ run[p].pc # "idle"
  BY TypeParts DEF PrefixIntact, Started
<1> QED
  BY <1>1, <1>2, <1>4, <1>5, ContinueFrame

\* A process whose step fails goes to its error handler.
LEMMA FailInv ==
  ASSUME IInv, NEW p \in Procs, run[p].pc \in Started, tx' = tx, DiskType',
         Continue(p, [run[p] EXCEPT !.pc = "error", !.rc = "nonzero"])
  PROVE  IInv'
<1> DEFINE u == [run[p] EXCEPT !.pc = "error", !.rc = "nonzero"]
<1>1. run[p] \in Memory /\ MemoryOK(run[p])
  BY OwnCopy
<1>2. u \in Memory
  BY <1>1 DEF Memory, Labels
<1>3. run'[p] = u
  BY <1>2, ContinueFacts DEF IInv
<1>4. u.pc = "error" /\ u.cmd = run[p].cmd /\ u.tx = run[p].tx /\ u.todo = run[p].todo
  BY <1>1 DEF Memory
<1>5. MemoryOK(run[p])'
  <2> HIDE DEF u
  <2> QED
    BY <1>1, <1>3, <1>4 DEF MemoryOK, LabelOK, CopyOK, StepsOK, StateOK, Started
<1>6. PrefixIntact' /\ run[p].pc # "idle"
  BY TypeParts DEF PrefixIntact, Started
<1> QED
  BY <1>2, <1>5, <1>6, ContinueFrame

LEMMA StepsDoneInv ==
  ASSUME IInv, NEW p \in Procs, StepsDone(p)
  PROVE  IInv'
<1>1. run[p].pc = "next" /\ run[p].pc \in Started /\ tx' = tx
  BY DEF StepsDone, At, Started, disk
<1>2. DiskType'
  BY TypeParts DEF StepsDone, disk, DiskType, NoRecord
<1>3. run[p] \in Memory /\ MemoryOK(run[p])
  BY <1>1, OwnCopy
<1>4. CASE run[p].cmd = "apply" /\ Goto(p, "end_save")
  <2>1. MemoryOK([run[p] EXCEPT !.pc = "end_save"])
    BY <1>1, <1>3, <1>4 DEF Memory, MemoryOK, LabelOK, CopyOK, StepsOK, StateOK, Started
  <2>2. "end_save" \in Labels
    BY DEF Labels
  <2> QED
    BY <1>1, <1>2, <1>4, <2>1, <2>2, GotoInv
<1>5. CASE run[p].cmd # "apply" /\ \E l \in {"end_snapshot", "unpin"} : Goto(p, l)
  <2> PICK l \in {"end_snapshot", "unpin"} : Goto(p, l)
    BY <1>5
  <2>1. MemoryOK([run[p] EXCEPT !.pc = l])
    BY <1>1, <1>3, <1>5 DEF Memory, MemoryOK, LabelOK, CopyOK, StepsOK, StateOK, Started
  <2>2. l \in Labels
    BY DEF Labels
  <2> QED
    BY <1>1, <1>2, <2>1, <2>2, GotoInv
<1> QED
  BY <1>4, <1>5 DEF StepsDone

LEMMA EndSnapshotInv ==
  ASSUME IInv, NEW p \in Procs, EndSnapshot(p)
  PROVE  IInv'
<1>1. run[p].pc = "end_snapshot" /\ run[p].pc \in Started /\ tx' = tx
  BY DEF EndSnapshot, At, Started
<1>2. DiskType'
  BY <1>1, OwnCopy, TypeParts DEF EndSnapshot, DiskType, NoRecord
<1>3. MemoryOK([run[p] EXCEPT !.pc = "end_health"])
  BY <1>1, OwnCopy DEF Memory, MemoryOK, LabelOK, CopyOK, StepsOK, StateOK, Started
<1>4. "end_health" \in Labels
  BY DEF Labels
<1> QED
  BY <1>1, <1>2, <1>3, <1>4, GotoInv DEF EndSnapshot

LEMMA EndHealthInv ==
  ASSUME IInv, NEW p \in Procs, EndHealth(p)
  PROVE  IInv'
<1>1. run[p].pc = "end_health" /\ run[p].pc \in Started /\ tx' = tx
  BY DEF EndHealth, At, Started
<1>2. health' \in Health
  BY DEF EndHealth, Derive, Health
<1>3. DiskType'
  BY <1>2, TypeParts DEF EndHealth, DiskType, NoRecord
<1>4. MemoryOK([run[p] EXCEPT !.pc = "end_save"])
  BY <1>1, OwnCopy DEF Memory, MemoryOK, LabelOK, CopyOK, StepsOK, StateOK, Started
<1>5. "end_save" \in Labels
  BY DEF Labels
<1> QED
  BY <1>1, <1>3, <1>4, <1>5, GotoInv DEF EndHealth

LEMMA EndSaveInv ==
  ASSUME IInv, NEW p \in Procs, EndSave(p)
  PROVE  IInv'
<1>1. run[p].pc = "end_save" /\ run[p].pc # "idle" /\ run[p].pc \in Started
  BY DEF EndSave, At, Started
<1>2. tx' \in TxRecord /\ tx'.done = run[p].tx.done /\ tx'.state # "NONE"
  BY <1>1, OwnCopy DEF EndSave, TxRecord, TxStates
<1>3. DiskType' /\ PrefixIntact'
  BY <1>1, <1>2, OwnCopy, TypeParts DEF EndSave, DiskType, NoRecord, PrefixIntact
<1> QED
  BY <1>1, <1>3, LeaveFrame DEF EndSave

\* Rollback and uninstall open the transaction alike.
LEMMA ReverseOpenInv ==
  ASSUME IInv, NEW p \in Procs, run[p].pc = "open", run[p].cmd \in {"rollback", "uninstall"},
         NEW todo \in SUBSET HOST_MUTATION_STEPS,
         NEW scope \in Scopes,
         tx' = [tx EXCEPT !.state = IF run[p].cmd = "rollback" THEN "ROLLING_BACK" ELSE "UNINSTALLING",
                          !.mip = TRUE, !.owner = TRUE, !.phase = run[p].cmd, !.scope = scope],
         Continue(p, [run[p] EXCEPT !.pc = "next", !.tx = tx', !.snap = snap, !.todo = todo]),
         UNCHANGED <<files, snap, health, partial, host, faults>>
  PROVE  IInv'
<1> DEFINE u == [run[p] EXCEPT !.pc = "next", !.tx = tx', !.snap = snap, !.todo = todo]
<1>1. /\ tx' \in TxRecord /\ tx'.done = tx.done
      /\ tx'.state \in RUNTIME_STATES(run[p].cmd) /\ tx'.state # "NONE"
  BY TypeParts DEF DiskType, TxRecord, TxStates, Phases, RUNTIME_STATES
<1>2. DiskType' /\ PrefixIntact'
  BY <1>1, TypeParts DEF DiskType, NoRecord, PrefixIntact
<1>3. run[p] \in Memory /\ snap \in SUBSET SnapItems /\ "next" \in Labels
  BY TypeParts DEF DiskType, Labels
<1>4. todo \in SUBSET APPLY_STEPS
  BY DEF HOST_MUTATION_STEPS, APPLY_STEPS, install_optics_cli, install_agent_sdks,
         stage_pe_archive, docker_load, write_observe_config, install_boot_hold, start_pe_observe
<1>5. u \in Memory
  BY <1>1, <1>3, <1>4, OpenType
<1>6. run'[p] = u
  BY <1>5, ContinueFacts DEF IInv
<1>7. u.pc = "next" /\ u.cmd = run[p].cmd /\ u.tx = tx' /\ u.todo = todo
  BY <1>3 DEF Memory
<1>8. MemoryOK(run[p])'
  <2> HIDE DEF u
  <2> QED
    BY <1>1, <1>2, <1>6, <1>7
    DEF MemoryOK, LabelOK, CopyOK, StepsOK, StateOK, Started, LiveCommands, PrefixIntact
<1> QED
  BY <1>2, <1>5, <1>8, ContinueFrame

LEMMA RollbackOpenInv ==
  ASSUME IInv, NEW p \in Procs, RollbackOpen(p)
  PROVE  IInv'
<1>1. tx.scope \in Scopes
  BY TypeParts DEF DiskType, TxRecord
<1>2. tx' = [tx EXCEPT !.state = "ROLLING_BACK", !.mip = TRUE, !.owner = TRUE,
                       !.phase = "rollback", !.scope = tx.scope]
  BY TypeParts DEF RollbackOpen, DiskType, TxRecord
<1> QED
  BY <1>1, <1>2, ReverseOpenInv, PendingType DEF RollbackOpen, At

LEMMA UninstallOpenInv ==
  ASSUME IInv, NEW p \in Procs, UninstallOpen(p)
  PROVE  IInv'
<1>1. PICK scope \in Scopes :
       /\ tx' = [tx EXCEPT !.state = "UNINSTALLING", !.mip = TRUE, !.owner = TRUE,
                           !.phase = "uninstall", !.scope = scope]
       /\ Continue(p, [run[p] EXCEPT !.pc = "next", !.tx = tx', !.snap = snap,
                                     !.todo = ScopeSteps(scope)])
  BY DEF UninstallOpen
<1>2. ScopeSteps(scope) \in SUBSET HOST_MUTATION_STEPS
  BY DEF ScopeSteps, HOST_MUTATION_STEPS
<1> QED
  BY <1>1, <1>2, ReverseOpenInv DEF UninstallOpen, At

LEMMA UnpinRemainingInv ==
  ASSUME IInv, NEW p \in Procs, UnpinRemaining(p)
  PROVE  IInv'
<1>1. run[p].pc = "unpin" /\ run[p].pc # "idle" /\ run[p].pc \in Started /\ tx' = tx
  BY DEF UnpinRemaining, At, Started, disk
<1>2. run[p] \in Memory /\ MemoryOK(run[p])
  BY <1>1, OwnCopy
<1>3. faults' \in 0..MaxFaults
  BY TypeParts, FaultType DEF UnpinRemaining, DiskType
<1>4. DiskType' /\ PrefixIntact'
  BY <1>3, TypeParts DEF UnpinRemaining, disk, DiskType, NoRecord, PrefixIntact
<1>5. ASSUME NEW l \in {"op", "enforce"},
             Continue(p, [run[p] EXCEPT !.pc = l, !.cur = 0, !.k = 1])
      PROVE  IInv'
  <2> DEFINE u == [run[p] EXCEPT !.pc = l, !.cur = 0, !.k = 1]
  <2>1. l \in Labels /\ 1 \in 1..6
    BY DEF Labels
  <2>2. ASSUME NEW m \in Memory, NEW j \in 1..6
        PROVE  [m EXCEPT !.pc = l, !.cur = 0, !.k = j] \in Memory
    BY <2>1 DEF Memory
  <2>3. u \in Memory
    BY <1>2, <2>1, <2>2
  <2>4. run'[p] = u
    BY <1>5, <2>3, ContinueFacts DEF IInv
  <2>5. u.pc = l /\ u.cur = 0 /\ u.cmd = run[p].cmd /\ u.tx = run[p].tx /\ u.todo = run[p].todo
    BY <1>2 DEF Memory
  <2>6. MemoryOK(run[p])'
    <3> HIDE DEF u
    <3> QED
      BY <1>1, <1>2, <2>4, <2>5 DEF MemoryOK, LabelOK, CopyOK, StepsOK, StateOK, Started
  <2> QED
    BY <1>1, <1>4, <1>5, <2>3, <2>6, ContinueFrame
<1>6. ASSUME Continue(p, [run[p] EXCEPT !.pc = "error", !.rc = "nonzero"])
      PROVE  IInv'
  BY <1>1, <1>4, <1>6, FailInv
<1> QED
  BY <1>5, <1>6 DEF UnpinRemaining

LEMMA ClearEnforceInv ==
  ASSUME IInv, NEW p \in Procs, ClearEnforce(p)
  PROVE  IInv'
<1>1. run[p].pc = "enforce" /\ run[p].pc # "idle" /\ run[p].pc \in Started /\ tx' = tx
  BY DEF ClearEnforce, At, Started, disk
<1>2. faults' \in 0..MaxFaults
  BY TypeParts, FaultType DEF ClearEnforce, DiskType
<1>3. DiskType'
  BY <1>2, TypeParts DEF ClearEnforce, disk, DiskType, NoRecord
<1>4. CASE Goto(p, "end_snapshot")
  <2>1. MemoryOK([run[p] EXCEPT !.pc = "end_snapshot"])
    BY <1>1, OwnCopy DEF Memory, MemoryOK, LabelOK, CopyOK, StepsOK, StateOK, Started
  <2>2. "end_snapshot" \in Labels
    BY DEF Labels
  <2> QED
    BY <1>1, <1>3, <1>4, <2>1, <2>2, GotoInv
<1>5. CASE Continue(p, [run[p] EXCEPT !.pc = "error", !.rc = "nonzero"])
  BY <1>1, <1>3, <1>5, FailInv
<1> QED
  BY <1>4, <1>5 DEF ClearEnforce

LEMMA StatusInv ==
  ASSUME IInv, NEW p \in Procs, Status(p)
  PROVE  IInv'
<1>1. tx' \in TxRecord /\ tx'.done = tx.done /\ (tx' = tx \/ tx'.state # "NONE")
  <2>1. tx' = tx \/ tx' = [tx EXCEPT !.state = "INTERRUPTED", !.mip = FALSE]
    BY DEF Status
  <2> QED
    BY <2>1, TypeParts DEF DiskType, TxRecord, TxStates
<1>2. faults' \in 0..MaxFaults
  BY TypeParts, FaultType DEF Status, DiskType
<1>3. DiskType' /\ PrefixIntact'
  BY <1>1, <1>2, TypeParts DEF Status, DiskType, NoRecord, PrefixIntact
<1> QED
  BY <1>3, LeaveFrame DEF Status, At

LEMMA VerifyRemovalInv ==
  ASSUME IInv, NEW p \in Procs, VerifyRemoval(p)
  PROVE  IInv'
<1>1. tx' \in TxRecord /\ tx'.done = tx.done /\ tx'.state # "NONE"
  BY TypeParts DEF VerifyRemoval, DiskType, TxRecord, TxStates, Phases
<1>2. faults' \in 0..MaxFaults
  BY TypeParts, FaultType DEF VerifyRemoval, DiskType
<1>3. DiskType' /\ PrefixIntact'
  BY <1>1, <1>2, TypeParts DEF VerifyRemoval, DiskType, NoRecord, PrefixIntact
<1> QED
  BY <1>3, LeaveFrame DEF VerifyRemoval, At

LEMMA EnrollInv ==
  ASSUME IInv, NEW p \in Procs, Enroll(p)
  PROVE  IInv'
<1>1. host' \subseteq Items
  BY TypeParts DEF Enroll, DiskType, Items
<1>2. DiskType' /\ PrefixIntact'
  BY <1>1, TypeParts DEF Enroll, disk, DiskType, NoRecord, PrefixIntact
<1> QED
  BY <1>2, LeaveFrame DEF Enroll, At

\* A process that ends early, with or without removing the LOCK file.
LEMMA TornType ==
  ASSUME IInv, NEW p \in Procs, NEW kind, Fault(kind), host' \in Torn(p), UNCHANGED disk
  PROVE  DiskType' /\ PrefixIntact'
<1>1. host' \subseteq Items
  BY TypeParts, HostType DEF Torn, DiskType
<1>2. faults' \in 0..MaxFaults
  BY TypeParts, FaultType DEF DiskType
<1> QED
  BY <1>1, <1>2, TypeParts DEF disk, DiskType, NoRecord, PrefixIntact

LEMMA UnwindInv ==
  ASSUME IInv, NEW p \in Procs, Unwind(p)
  PROVE  IInv'
BY TornType, LeaveFrame DEF Unwind, At

LEMMA KillInv ==
  ASSUME IInv, NEW p \in Procs, Kill(p)
  PROVE  IInv'
<1>1. DiskType' /\ PrefixIntact'
  BY TornType DEF Kill
<1>2. /\ run' \in [Procs -> Memory]
      /\ run'[p] = Idle
      /\ \A q \in Procs \ {p} : run'[q] = run[q]
  BY TypeParts, IdleType DEF Kill
<1>3. run'[p].pc = "idle"
  BY <1>2 DEF Idle
<1>4. MemoryOK(run[p])'
  BY <1>3 DEF MemoryOK, LabelOK, CopyOK, StepsOK, StateOK, Started
<1>5. lock' \in Procs \cup {NoProc}
  BY DEF Kill, IInv, TypeOK
<1> QED
  BY <1>1, <1>2, <1>3, <1>4, <1>5, StepFrame DEF Kill, At

----------------------------------------------------------------------------
(* The theorems. *)

LEMMA NextInv ==
  ASSUME IInv, [Next]_vars
  PROVE  IInv'
<1>1. CASE UNCHANGED vars
  BY <1>1 DEF vars, IInv, TypeOK, NoRecord, LockHeld, PrefixIntact, MemoryOK, LabelOK, CopyOK,
              StepsOK, StateOK
<1>2. ASSUME NEW p \in Procs, NEW c \in Commands, Acquire(p, c)
      PROVE  IInv'
  BY <1>2, AcquireInv
<1>3. ASSUME NEW p \in Procs, Step(p)
      PROVE  IInv'
  BY <1>3, RefuseInv, PlanReplayInv, PlanOpenInv, PlanGateInv, PlanFileInv,
     ApplyFailSafeInv, ApplyOpenInv, ApplyRecheckInv, ApplyStepInv, RollbackOpenInv,
     UninstallOpenInv, StepBeginInv, OpExecInv, OpCheckInv, ErrorSaveInv, ClearPartialInv,
     SaveSnapshotInv, SaveTxInv, StepsDoneInv, UnpinRemainingInv, ClearEnforceInv,
     EndSnapshotInv, EndHealthInv, EndSaveInv, StatusInv, VerifyRemovalInv, EnrollInv
  DEF Step
<1>4. ASSUME NEW p \in Procs, Unwind(p) \/ Kill(p)
      PROVE  IInv'
  BY <1>4, UnwindInv, KillInv
<1> QED
  BY <1>1, <1>2, <1>3, <1>4 DEF Next

\* The inductive invariant, for every number of processes and faults.
THEOREM Invariance == Spec => []IInv
<1>1. Init => IInv
  BY InitInv
<1>2. IInv /\ [Next]_vars => IInv'
  BY NextInv
<1> QED
  BY <1>1, <1>2, PTL DEF Spec

\* Every record, snapshot and health report on disk, and every copy of them in the
\* memory of a process, is one the code can read back.
THEOREM TypeCorrect == Spec => []TypeOK
<1>1. IInv => TypeOK
  BY DEF IInv
<1> QED
  BY <1>1, Invariance, PTL

MutualExclusion == \A p, q \in Procs : run[p].pc # "idle" /\ run[q].pc # "idle" => p = q

\* Two installer processes are never past Lock.__enter__ at the same time, also when
\* one is killed and leaves its LOCK file behind.
THEOREM OneInstaller == Spec => []MutualExclusion
<1>1. IInv => MutualExclusion
  BY DEF IInv, LockHeld, MutualExclusion
<1> QED
  BY <1>1, Invariance, PTL

\* completed_steps is a prefix of APPLY_STEPS in every record ever saved, however
\* often apply fails, is interrupted or killed, and is resumed.
THEOREM PrefixAlwaysIntact == Spec => []PrefixIntact
<1>1. IInv => PrefixIntact
  BY DEF IInv
<1> QED
  BY <1>1, Invariance, PTL

\* The record on disk names the phase of the command before the command's first
\* host operation, and until its last.
THEOREM RecordWrittenAhead == Spec => []RuntimeStateHolds
<1>1. ASSUME IInv, NEW p \in Procs, At(p, "op")
      PROVE  tx.state \in RUNTIME_STATES(run[p].cmd)
  <2>1. run[p].pc = "op" /\ run[p].pc \in Started
    BY <1>1 DEF At, Started
  <2>2. run[p] \in Memory /\ MemoryOK(run[p]) /\ run[p].cmd \in LiveCommands
    BY <1>1, <2>1, OwnCopy
  <2>3. CASE run[p].cmd = "apply"
    <3>1. run[p].cur \in run[p].todo /\ run[p].cur < mark_applied
      BY <2>1, <2>2, <2>3 DEF MemoryOK, StepsOK
    <3>2. mark_applied \in run[p].todo
      BY <2>1, <2>2, <2>3, <3>1, BeforeMark
    <3>3. tx.state = "APPLYING"
      BY <2>1, <2>2, <2>3, <3>2 DEF MemoryOK, StateOK
    <3> QED
      BY <2>3, <3>3 DEF RUNTIME_STATES
  <2>4. CASE run[p].cmd # "apply"
    BY <2>1, <2>2, <2>4 DEF MemoryOK, StateOK
  <2> QED
    BY <2>3, <2>4
<1>2. IInv => RuntimeStateHolds
  BY <1>1 DEF RuntimeStateHolds
<1> QED
  BY <1>2, Invariance, PTL

----------------------------------------------------------------------------
(* No checkpoint is lost. *)

\* t has every checkpoint of the record on disk.
Keeps(t) == tx.done \subseteq t.done /\ tx.rbDone \subseteq t.rbDone /\ tx.required \subseteq t.required

\* The copy of the record in memory is never behind the one on disk.
LEMMA CopyKeeps ==
  ASSUME IInv, NEW p \in Procs, run[p].pc \in Started \cup {"gate"}
  PROVE  run[p].tx \in TxRecord /\ Keeps(run[p].tx)
BY TypeParts DEF Memory, MemoryOK, CopyOK, Keeps

\* The saves that start from the record on disk.
LEMMA DiskSaves ==
  ASSUME IInv, NEW p \in Procs,
         \/ PlanOpen(p) \/ ApplyFailSafe(p) \/ ApplyOpen(p) \/ RollbackOpen(p)
         \/ UninstallOpen(p) \/ Status(p) \/ VerifyRemoval(p)
  PROVE  Keeps(tx')
<1>1. tx \in TxRecord /\ NoRecord
  BY TypeParts DEF DiskType
<1>2. CASE PlanOpen(p)
  BY <1>1, <1>2 DEF PlanOpen, Keeps, NoRecord
<1>3. CASE ApplyFailSafe(p)
  BY <1>1, <1>3 DEF ApplyFailSafe, TxRecord, Keeps
<1>4. CASE ApplyOpen(p)
  BY <1>1, <1>4 DEF ApplyOpen, TxRecord, Keeps
<1>5. CASE RollbackOpen(p)
  BY <1>1, <1>5 DEF RollbackOpen, TxRecord, Keeps
<1>6. CASE UninstallOpen(p)
  BY <1>1, <1>6 DEF UninstallOpen, TxRecord, Keeps
<1>7. CASE Status(p)
  <2>1. tx' = tx \/ tx' = [tx EXCEPT !.state = "INTERRUPTED", !.mip = FALSE]
    BY <1>7 DEF Status
  <2> QED
    BY <1>1, <2>1 DEF TxRecord, Keeps
<1>8. CASE VerifyRemoval(p)
  BY <1>1, <1>8 DEF VerifyRemoval, TxRecord, Keeps
<1> QED
  BY <1>2, <1>3, <1>4, <1>5, <1>6, <1>7, <1>8

\* The saves that start from the copy in memory.
LEMMA MemorySaves ==
  ASSUME IInv, NEW p \in Procs,
         PlanGate(p) \/ ErrorSave(p) \/ ApplyRecheck(p) \/ SaveTx(p) \/ EndSave(p)
  PROVE  Keeps(tx')
<1>1. run[p].tx \in TxRecord /\ Keeps(run[p].tx)
  BY CopyKeeps DEF PlanGate, ErrorSave, ApplyRecheck, SaveTx, EndSave, At, Started
<1>2. CASE PlanGate(p)
  BY <1>1, <1>2 DEF PlanGate, TxRecord, Keeps
<1>3. CASE ErrorSave(p)
  <2>1. /\ tx'.done = run[p].tx.done /\ tx'.rbDone = run[p].tx.rbDone
        /\ run[p].tx.required \subseteq tx'.required
    BY <1>1, <1>3 DEF ErrorSave, TxRecord
  <2> QED
    BY <1>1, <2>1 DEF Keeps
<1>4. CASE ApplyRecheck(p)
  BY <1>1, <1>4 DEF ApplyRecheck, TxRecord, Keeps
<1>5. CASE SaveTx(p)
  BY <1>1, <1>5 DEF SaveTx
<1>6. CASE EndSave(p)
  BY <1>1, <1>6 DEF EndSave, TxRecord, Keeps
<1> QED
  BY <1>2, <1>3, <1>4, <1>5, <1>6

\* Everything else leaves the record alone.
LEMMA NoSave ==
  ASSUME NEW p \in Procs,
         \/ \E c \in Commands : Acquire(p, c)
         \/ Refuse(p) \/ PlanReplay(p) \/ PlanFile(p) \/ ApplyStep(p) \/ StepBegin(p)
         \/ OpExec(p) \/ OpCheck(p) \/ ClearPartial(p) \/ SaveSnapshot(p) \/ StepsDone(p)
         \/ UnpinRemaining(p) \/ ClearEnforce(p) \/ EndSnapshot(p) \/ EndHealth(p)
         \/ Enroll(p) \/ Unwind(p) \/ Kill(p)
  PROVE  tx' = tx
BY DEF disk, Acquire, Refuse, PlanReplay, PlanFile, ApplyStep, StepBegin, OpExec, OpCheck,
       ClearPartial, SaveSnapshot, StepsDone, UnpinRemaining, ClearEnforce, EndSnapshot,
       EndHealth, Enroll, Unwind, Kill

\* A step that apply or rollback has recorded as done, or as owed, stays recorded:
\* no save of any process, started from a copy read at any time, drops it.
THEOREM NoCheckpointLost == Spec => CheckpointsKept
<1>1. ASSUME IInv, [Next]_vars
      PROVE  Keeps(tx')
  <2>1. CASE UNCHANGED vars
    BY <2>1 DEF vars, Keeps
  <2>2. CASE Next
    <3> PICK p \in Procs : (\E c \in Commands : Acquire(p, c)) \/ Step(p) \/ Unwind(p) \/ Kill(p)
      BY <2>2 DEF Next
    <3>1. tx' = tx => Keeps(tx')
      BY DEF Keeps
    <3> QED
      BY <1>1, <3>1, DiskSaves, MemorySaves, NoSave DEF Step
  <2> QED
    BY <1>1, <2>1, <2>2
<1>2. IInv /\ [Next]_vars =>
        [/\ tx.done \subseteq tx'.done
         /\ tx.rbDone \subseteq tx'.rbDone
         /\ tx.required \subseteq tx'.required]_vars
  BY <1>1 DEF Keeps
<1> QED
  BY <1>2, Invariance, PTL DEF Spec, CheckpointsKept

-----------------------------------------------------------------------------
(* The host.                                                               *)

Products == OpticsItems \cup EngineItems
Unapplied == {"NONE", "CREATED", "PLANNED", "PREFLIGHT_BLOCKED", "UNSUPPORTED"}

\* What the removal of a step takes off the host and looks for afterwards.
ItemsOf(s) ==
  CASE s = install_optics_cli   -> {"optics"}
    [] s = install_agent_sdks   -> {"sdk_npm", "sdk_py"}
    [] s = stage_pe_archive     -> {"archive"}
    [] s = docker_load          -> {"tag"}
    [] s = write_observe_config -> {"config", "o7"}
    [] s = install_boot_hold    -> {"hold"}
    [] s = start_pe_observe     -> {"container", "pins", "profile", "profile_text", "clsact"}
    [] OTHER                    -> {}

\* The operation is one of its step; a removal has only host steps, and none left
\* at its end.
IndexOK(r) ==
  /\ r.pc \in {"op", "check"} => r.k \in 1..Len(Ops(r))
  /\ r.pc \in Started /\ r.cmd # "apply" => r.todo \subseteq HOST_MUTATION_STEPS
  /\ r.pc \in {"unpin", "enforce", "end_snapshot", "end_health"} => r.todo = {}
  /\ r.pc \in {"op", "check"} /\ r.cur = 0 => r.todo = {}
  /\ r.pc = "end_save" /\ r.cmd # "apply" => r.todo = {}

\* What the operations before the k-th of a removal have taken off.
Passed(s, k) ==
  CASE s = start_pe_observe ->
         (IF k > 2 THEN {"container"} ELSE {}) \cup (IF k > 3 THEN {"pins"} ELSE {})
           \cup (IF k > 4 THEN {"profile"} ELSE {}) \cup (IF k > 5 THEN {"profile_text"} ELSE {})
    [] s = write_observe_config -> IF k > 1 THEN {"config"} ELSE {}
    [] OTHER -> {}

Undone(r, h) ==
  /\ r.pc \in {"op", "check"} /\ r.cmd # "apply" => Passed(r.cur, r.k) \cap h = {}
  /\ r.pc \in {"snapshot", "save"} /\ r.cmd = "rollback" => ItemsOf(r.cur) \cap h = {}

\* What a removal answers for: a rollback for what it probes, an uninstall for its
\* scope.
Covered(r) ==
  CASE r.cmd = "rollback" -> {install_optics_cli, install_agent_sdks}
    [] r.cmd = "uninstall" /\ r.tx.scope = "all" -> HOST_MUTATION_STEPS
    [] OTHER -> {}

Owed(r, h) ==
  /\ r.pc \in Started => \A s \in Covered(r) \ r.todo : ItemsOf(s) \cap h = {}
  /\ r.pc \in {"enforce", "end_snapshot", "end_health", "end_save"} /\ r.cmd = "rollback" => "pins" \notin h

\* A plan runs on a host without the product; an apply holds a record that says so.
PhaseOK(r, h) ==
  /\ r.pc \in {"gate", "files"} => h \cap Products = {}
  /\ r.pc \in Started /\ r.cmd = "apply" =>
       r.tx.state \in {"APPLYING", "APPLIED", "HEALTHY", "DEGRADED", "FAILED_SAFE"}

HostOK(r, h) == IndexOK(r) /\ Undone(r, h) /\ Owed(r, h) /\ PhaseOK(r, h)

\* What the record says about the host.
RecordOK(t, h) ==
  /\ t.state = "ROLLED_BACK" => h \cap (OpticsItems \cup {"pins"}) = {}
  /\ t.state = "UNINSTALLED" /\ t.scope = "all" => h \subseteq {"image", "enforce"}
  /\ t.state \in Unapplied => h \cap Products = {}

HInv ==
  /\ ContainerIsConfined
  /\ RecordOK(tx, host)
  /\ \A p \in Procs : HostOK(run[p], host)

----------------------------------------------------------------------------
(* What the tables say about a removal. *)

\* The k-th operation of each step of a removal.
LEMMA RemovalOps ==
  ASSUME NEW r \in Memory, r.cmd # "apply", r.cur \in HOST_MUTATION_STEPS \cup {0},
         r.k \in 1..Len(Ops(r))
  PROVE  \/ r.cur = 0 /\ r.k = 1 /\ Len(Ops(r)) = 1 /\ Op(r) = "unpin_bpf_maps"
         \/ r.cur = 3 /\ r.k = 1 /\ Len(Ops(r)) = 1 /\ Op(r) = "remove_optics"
         \/ r.cur = 4 /\ r.k = 1 /\ Len(Ops(r)) = 1 /\ Op(r) = "remove_sdks"
         \/ r.cur = 5 /\ r.k = 1 /\ Len(Ops(r)) = 1 /\ Op(r) = "remove_stage"
         \/ r.cur = 6 /\ r.k = 1 /\ Len(Ops(r)) = 1 /\ Op(r) = "docker_rmi"
         \/ r.cur = 7 /\ r.k = 1 /\ Len(Ops(r)) = 2 /\ Op(r) = "remove_observe_config"
         \/ r.cur = 7 /\ r.k = 2 /\ Len(Ops(r)) = 2 /\ Op(r) = "remove_o7_record"
         \/ r.cur = 8 /\ r.k = 1 /\ Len(Ops(r)) = 1 /\ Op(r) = "remove_boot_hold"
         \/ r.cur = 9 /\ r.k = 1 /\ Len(Ops(r)) = 6 /\ Op(r) = "docker_stop"
         \/ r.cur = 9 /\ r.k = 2 /\ Len(Ops(r)) = 6 /\ Op(r) = "docker_rm"
         \/ r.cur = 9 /\ r.k = 3 /\ Len(Ops(r)) = 6 /\ Op(r) = "unpin_bpf_maps"
         \/ r.cur = 9 /\ r.k = 4 /\ Len(Ops(r)) = 6 /\ Op(r) = "unload_pe_apparmor"
         \/ r.cur = 9 /\ r.k = 5 /\ Len(Ops(r)) = 6 /\ Op(r) = "remove_pe_apparmor"
         \/ r.cur = 9 /\ r.k = 6 /\ Len(Ops(r)) = 6 /\ Op(r) = "tc_clsact_del"
<1> USE DEF verify_artifacts, ensure_node, install_optics_cli, install_agent_sdks, stage_pe_archive,
            docker_load, write_observe_config, install_boot_hold, start_pe_observe
<1>1. r.cur \in {0, 3, 4, 5, 6, 7, 8, 9}
  BY DEF HOST_MUTATION_STEPS
<1>2. CASE r.cur = 0
  BY <1>2 DEF Ops, Op
<1>3. CASE r.cur = 3
  BY <1>3 DEF Ops, Op, ROLLBACK_OPERATIONS
<1>4. CASE r.cur = 4
  BY <1>4 DEF Ops, Op, ROLLBACK_OPERATIONS
<1>5. CASE r.cur = 5
  BY <1>5 DEF Ops, Op, ROLLBACK_OPERATIONS
<1>6. CASE r.cur = 6
  BY <1>6 DEF Ops, Op, ROLLBACK_OPERATIONS
<1>7. CASE r.cur = 7
  <2>1. Ops(r) = <<"remove_observe_config", "remove_o7_record">>
    BY <1>7 DEF Ops, ROLLBACK_OPERATIONS
  <2>2. r.k = 1 \/ r.k = 2
    BY <2>1 DEF Memory
  <2> QED
    BY <1>7, <2>1, <2>2 DEF Op
<1>8. CASE r.cur = 8
  BY <1>8 DEF Ops, Op, ROLLBACK_OPERATIONS
<1>9. CASE r.cur = 9
  <2>1. Ops(r) = <<"docker_stop", "docker_rm", "unpin_bpf_maps", "unload_pe_apparmor",
                   "remove_pe_apparmor", "tc_clsact_del">>
    BY <1>9 DEF Ops, ROLLBACK_OPERATIONS
  <2>2. r.k = 1 \/ r.k = 2 \/ r.k = 3 \/ r.k = 4 \/ r.k = 5 \/ r.k = 6
    BY <2>1 DEF Memory
  <2> QED
    BY <1>9, <2>1, <2>2 DEF Op
<1> QED
  BY <1>1, <1>2, <1>3, <1>4, <1>5, <1>6, <1>7, <1>8, <1>9

\* What an operation of a removal adds to what the ones before it took off, and what
\* it must not undo.
LEMMA RemovalEffect ==
  ASSUME NEW r \in Memory, r.cmd # "apply", r.cur \in HOST_MUTATION_STEPS \cup {0},
         r.k \in 1..Len(Ops(r)), NEW j \in Nat, j = r.k + 1
  PROVE  /\ Adds(Op(r)) \cap Passed(r.cur, r.k) = {}
         /\ Adds(Op(r)) \subseteq {"profile_text"}
         /\ Adds(Op(r)) # {} => r.cur = start_pe_observe
         /\ "profile" \in Removes(Op(r)) => "container" \in Passed(r.cur, r.k)
         /\ "tag" \in Removes(Op(r)) => "container" \in Excludes(Op(r))
         /\ r.k < Len(Ops(r)) =>
              Passed(r.cur, j) \subseteq Passed(r.cur, r.k) \cup (Removes(Op(r)) \ {"image"})
         /\ ~(r.k < Len(Ops(r))) =>
              ItemsOf(r.cur) \subseteq Passed(r.cur, r.k) \cup (Removes(Op(r)) \ {"image"})
         /\ r.cur = 0 => "pins" \in Removes(Op(r)) \ {"image"} /\ ~(r.k < Len(Ops(r)))
<1> USE DEF install_optics_cli, install_agent_sdks, stage_pe_archive,
            docker_load, write_observe_config, install_boot_hold, start_pe_observe,
            Adds, Removes, Excludes, Passed, ItemsOf
<1>1. CASE r.cur = 0 /\ r.k = 1 /\ Len(Ops(r)) = 1 /\ Op(r) = "unpin_bpf_maps"
  BY <1>1
<1>2. CASE r.cur = 3 /\ r.k = 1 /\ Len(Ops(r)) = 1 /\ Op(r) = "remove_optics"
  BY <1>2
<1>3. CASE r.cur = 4 /\ r.k = 1 /\ Len(Ops(r)) = 1 /\ Op(r) = "remove_sdks"
  BY <1>3
<1>4. CASE r.cur = 5 /\ r.k = 1 /\ Len(Ops(r)) = 1 /\ Op(r) = "remove_stage"
  BY <1>4
<1>5. CASE r.cur = 6 /\ r.k = 1 /\ Len(Ops(r)) = 1 /\ Op(r) = "docker_rmi"
  BY <1>5
<1>6. CASE r.cur = 7 /\ r.k = 1 /\ Len(Ops(r)) = 2 /\ Op(r) = "remove_observe_config"
  BY <1>6
<1>7. CASE r.cur = 7 /\ r.k = 2 /\ Len(Ops(r)) = 2 /\ Op(r) = "remove_o7_record"
  BY <1>7
<1>8. CASE r.cur = 8 /\ r.k = 1 /\ Len(Ops(r)) = 1 /\ Op(r) = "remove_boot_hold"
  BY <1>8
<1>9. CASE r.cur = 9 /\ r.k = 1 /\ Len(Ops(r)) = 6 /\ Op(r) = "docker_stop"
  BY <1>9
<1>10. CASE r.cur = 9 /\ r.k = 2 /\ Len(Ops(r)) = 6 /\ Op(r) = "docker_rm"
  BY <1>10
<1>11. CASE r.cur = 9 /\ r.k = 3 /\ Len(Ops(r)) = 6 /\ Op(r) = "unpin_bpf_maps"
  BY <1>11
<1>12. CASE r.cur = 9 /\ r.k = 4 /\ Len(Ops(r)) = 6 /\ Op(r) = "unload_pe_apparmor"
  BY <1>12
<1>13. CASE r.cur = 9 /\ r.k = 5 /\ Len(Ops(r)) = 6 /\ Op(r) = "remove_pe_apparmor"
  BY <1>13
<1>14. CASE r.cur = 9 /\ r.k = 6 /\ Len(Ops(r)) = 6 /\ Op(r) = "tc_clsact_del"
  BY <1>14
<1> HIDE DEF Adds, Removes, Excludes, Passed, ItemsOf
<1> QED
  BY <1>1, <1>2, <1>3, <1>4, <1>5, <1>6, <1>7, <1>8, <1>9, <1>10, <1>11, <1>12, <1>13, <1>14,
     RemovalOps

\* An operation of apply takes nothing off; the one that starts the container needs
\* its image and its profile.
LEMMA ApplyEffect ==
  ASSUME NEW r \in Memory, r.cmd = "apply", r.cur \in APPLY_STEPS, r.k \in 1..Len(Ops(r))
  PROVE  /\ Removes(Op(r)) = {}
         /\ "container" \in Adds(Op(r)) => {"tag", "profile"} \subseteq Needs(Op(r))
<1> DEFINE ops == {"ensure_npm", "mkdir_prefix", "install_optics_cli", "install_agent_sdk_npm",
                   "install_agent_sdk_py", "mkdir_stage", "stage_pe_archive", "docker_load",
                   "docker_tag", "mkdir_evidence", "write_observe_config", "o7_init",
                   "install_boot_hold", "tc_clsact", "write_pe_apparmor", "load_pe_apparmor",
                   "start_pe_observe"}
<1>1. \A s \in APPLY_STEPS : \A n \in 1..Len(STEP_OPERATIONS(s)) : STEP_OPERATIONS(s)[n] \in ops
  <2> SUFFICES ASSUME NEW s \in APPLY_STEPS, NEW n \in 1..Len(STEP_OPERATIONS(s))
               PROVE  STEP_OPERATIONS(s)[n] \in ops
    OBVIOUS
  <2>1. \/ STEP_OPERATIONS(s) = <<"ensure_npm">>
        \/ STEP_OPERATIONS(s) = <<"mkdir_prefix", "install_optics_cli">>
        \/ STEP_OPERATIONS(s) = <<"install_agent_sdk_npm", "install_agent_sdk_py">>
        \/ STEP_OPERATIONS(s) = <<"mkdir_stage", "stage_pe_archive">>
        \/ STEP_OPERATIONS(s) = <<"docker_load", "docker_tag">>
        \/ STEP_OPERATIONS(s) = <<"mkdir_evidence", "write_observe_config", "o7_init">>
        \/ STEP_OPERATIONS(s) = <<"install_boot_hold">>
        \/ STEP_OPERATIONS(s) = <<"tc_clsact", "write_pe_apparmor", "load_pe_apparmor",
                                  "start_pe_observe">>
        \/ STEP_OPERATIONS(s) = <<>>
    BY DEF STEP_OPERATIONS
  <2> QED
    BY <2>1
<1>2. Op(r) \in ops
  <2>1. Ops(r) = STEP_OPERATIONS(r.cur)
    BY DEF Ops, APPLY_STEPS
  <2> HIDE DEF ops
  <2> QED
    BY <1>1, <2>1 DEF Op
<1> QED
  BY <1>2 DEF Removes, Adds, Needs

\* What an operation may do to the host, however it ends.
LEMMA OpEffect ==
  ASSUME NEW op, host' = host \/ (Feasible(op) /\ host' = Complete(op)) \/ host' \in AnyPart(op)
  PROVE  /\ host' \subseteq host \cup Adds(op)
         /\ host \ Removes(op) \subseteq host'
         /\ host' = host \/ Feasible(op)
<1>1. CASE host' = host
  BY <1>1
<1>2. CASE Feasible(op) /\ host' = Complete(op)
  BY <1>2 DEF Complete
<1>3. CASE host' \in AnyPart(op)
  BY <1>3 DEF AnyPart
<1> QED
  BY <1>1, <1>2, <1>3

----------------------------------------------------------------------------
(* A step concerns one process: the others are idle. *)

LEMMA IdleHost ==
  ASSUME NEW r, NEW h, r.pc \in {"idle", "open"}
  PROVE  HostOK(r, h)
BY DEF HostOK, IndexOK, Undone, Owed, PhaseOK, Started

LEMMA HostFrame ==
  ASSUME IInv, HInv, NEW p \in Procs, run[p].pc # "idle" \/ lock = NoProc,
         \A q \in Procs \ {p} : run'[q] = run[q],
         ContainerIsConfined', RecordOK(tx', host'), HostOK(run'[p], host')
  PROVE  HInv'
<1>1. \A q \in Procs \ {p} : run[q].pc = "idle"
  BY ConstantsAssumption DEF IInv, LockHeld
<1>2. \A q \in Procs \ {p} : HostOK(run'[q], host')
  BY <1>1, IdleHost
<1> QED
  BY <1>2 DEF HInv

LEMMA HostLeave ==
  ASSUME IInv, HInv, NEW p \in Procs, run[p].pc # "idle", run' = [run EXCEPT ![p] = Idle],
         ContainerIsConfined', RecordOK(tx', host')
  PROVE  HInv'
<1>1. run'[p] = Idle /\ \A q \in Procs \ {p} : run'[q] = run[q]
  BY TypeParts
<1>2. HostOK(run'[p], host')
  BY <1>1, IdleHost DEF Idle
<1> QED
  BY <1>1, <1>2, HostFrame

LEMMA HostContinue ==
  ASSUME IInv, HInv, NEW p \in Procs, run[p].pc # "idle", NEW r, Continue(p, r),
         ContainerIsConfined', RecordOK(tx', host'), HostOK(r, host')
  PROVE  HInv'
<1>1. run'[p] = r /\ \A q \in Procs \ {p} : run'[q] = run[q]
  BY TypeParts DEF Continue
<1> QED
  BY <1>1, HostFrame

\* The host is left alone.
LEMMA SameHost ==
  ASSUME HInv, host' = host
  PROVE  /\ ContainerIsConfined'
         /\ tx' = tx => RecordOK(tx', host')
BY DEF HInv, ContainerIsConfined

\* A record in one of these states claims nothing about the host.
LEMMA NoClaim ==
  ASSUME NEW t, NEW h,
         t.state \in {"APPLYING", "APPLIED", "HEALTHY", "DEGRADED", "FAILED_SAFE", "INTERRUPTED",
                      "ROLLING_BACK", "UNINSTALLING", "VERIFIED_REMOVED", "RESIDUAL_FOUND"}
  PROVE  RecordOK(t, h)
BY DEF RecordOK, Unapplied

\* What a process past its opening knows.
LEMMA OwnHost ==
  ASSUME IInv, HInv, NEW p \in Procs, run[p].pc \in Started
  PROVE  /\ run[p] \in Memory /\ run[p].pc # "idle"
         /\ HostOK(run[p], host)
         /\ run[p].cmd \in LiveCommands
         /\ run[p].tx \in TxRecord
         /\ run[p].tx.state \in {"APPLYING", "APPLIED", "HEALTHY", "DEGRADED", "FAILED_SAFE",
                                 "ROLLING_BACK", "UNINSTALLING"}
         /\ run[p].cmd # "apply" => run[p].tx.state \in RUNTIME_STATES(run[p].cmd)
<1>1. run[p] \in Memory /\ run[p].pc # "idle" /\ HostOK(run[p], host)
  BY TypeParts DEF HInv, Started
<1>2. run[p].cmd \in LiveCommands /\ run[p].tx \in TxRecord /\ MemoryOK(run[p])
  BY OwnCopy
<1>3. run[p].cmd # "apply" => run[p].tx.state \in RUNTIME_STATES(run[p].cmd)
  BY <1>2 DEF MemoryOK, StateOK
<1>4. run[p].tx.state \in {"APPLYING", "APPLIED", "HEALTHY", "DEGRADED", "FAILED_SAFE",
                           "ROLLING_BACK", "UNINSTALLING"}
  BY <1>1, <1>2, <1>3 DEF HostOK, PhaseOK, LiveCommands, RUNTIME_STATES
<1> QED
  BY <1>1, <1>2, <1>3, <1>4

\* An operation runs only under a record that claims nothing.
LEMMA RuntimeNoClaim ==
  ASSUME IInv, NEW p \in Procs, run[p].pc = "op", NEW h
  PROVE  RecordOK(tx, h)
<1>1. run[p].pc \in Started
  BY DEF Started
<1>2. run[p] \in Memory /\ MemoryOK(run[p]) /\ run[p].cmd \in LiveCommands
  BY <1>1, OwnCopy
<1>3. CASE run[p].cmd = "apply"
  <2>1. run[p].cur \in run[p].todo /\ run[p].cur < mark_applied
    BY <1>2, <1>3 DEF MemoryOK, StepsOK, Memory, APPLY_STEPS
  <2>2. mark_applied \in run[p].todo
    BY <1>2, <1>3, <2>1, BeforeMark
  <2>3. tx.state = "APPLYING"
    BY <1>2, <1>3, <2>2 DEF MemoryOK, StateOK
  <2> QED
    BY <2>3, NoClaim
<1>4. CASE run[p].cmd # "apply"
  <2>1. tx.state \in RUNTIME_STATES(run[p].cmd)
    BY <1>1, <1>2, <1>4 DEF MemoryOK, StateOK
  <2> QED
    BY <1>2, <1>4, <2>1, NoClaim DEF RUNTIME_STATES, LiveCommands
<1> QED
  BY <1>3, <1>4

\* The current operation is one the tables list for the command.
LEMMA CurrentOp ==
  ASSUME IInv, HInv, NEW p \in Procs, run[p].pc \in {"op", "check"}
  PROVE  /\ run[p].k \in 1..Len(Ops(run[p]))
         /\ run[p].cmd = "apply" => run[p].cur \in APPLY_STEPS
         /\ run[p].cmd # "apply" => run[p].cur \in HOST_MUTATION_STEPS \cup {0}
         /\ run[p].cur # 0 => run[p].cur \in run[p].todo
<1>1. run[p].pc \in Started
  BY DEF Started
<1>2. run[p] \in Memory /\ MemoryOK(run[p]) /\ HostOK(run[p], host)
  BY <1>1, OwnCopy, OwnHost
<1>3. run[p].k \in 1..Len(Ops(run[p]))
  BY <1>2 DEF HostOK, IndexOK
<1>4. run[p].cur \in run[p].todo \/ (run[p].cur = 0 /\ run[p].cmd # "apply")
  BY <1>2 DEF MemoryOK, StepsOK
<1>5. run[p].cmd # "apply" => run[p].todo \subseteq HOST_MUTATION_STEPS
  BY <1>1, <1>2 DEF HostOK, IndexOK
<1>6. run[p].todo \subseteq APPLY_STEPS
  BY <1>2 DEF Memory
<1> QED
  BY <1>3, <1>4, <1>5, <1>6

----------------------------------------------------------------------------
(* One operation. *)

\* However an operation ends, the container keeps its image and its profile, and
\* what the removal has taken off stays off.
LEMMA OperationHost ==
  ASSUME IInv, HInv, NEW p \in Procs, run[p].pc = "op", NEW op, op = Op(run[p]),
         host' = host \/ (Feasible(op) /\ host' = Complete(op)) \/ host' \in AnyPart(op)
  PROVE  /\ ContainerIsConfined'
         /\ run[p].cmd # "apply" => Passed(run[p].cur, run[p].k) \cap host' = {}
         /\ \A s \in Covered(run[p]) \ run[p].todo : ItemsOf(s) \cap host' = {}
<1> DEFINE r == run[p]
<1>1. r.pc \in Started /\ r.pc \in {"op", "check"}
  BY DEF Started
<1>2. r \in Memory /\ HostOK(r, host) /\ r.k \in 1..6 /\ ContainerIsConfined
  BY <1>1, OwnHost DEF Memory, HInv
<1>3. /\ host' \subseteq host \cup Adds(op)
      /\ host \ Removes(op) \subseteq host'
      /\ host' = host \/ Feasible(op)
  BY OpEffect
<1>4. CASE r.cmd = "apply"
  <2>1. /\ Removes(op) = {}
        /\ "container" \in Adds(op) => {"tag", "profile"} \subseteq Needs(op)
    BY <1>1, <1>2, <1>4, ApplyEffect, CurrentOp
  <2>2. ContainerIsConfined'
    BY <1>2, <1>3, <2>1 DEF ContainerIsConfined, Feasible
  <2>3. Covered(r) = {}
    BY <1>4 DEF Covered
  <2> QED
    BY <1>4, <2>2, <2>3
<1>5. CASE r.cmd # "apply"
  <2>1. PICK j \in Nat : j = r.k + 1
    BY <1>2
  <2>2. /\ Adds(op) \cap Passed(r.cur, r.k) = {}
        /\ Adds(op) \subseteq {"profile_text"}
        /\ Adds(op) # {} => r.cur = start_pe_observe
        /\ "profile" \in Removes(op) => "container" \in Passed(r.cur, r.k)
        /\ "tag" \in Removes(op) => "container" \in Excludes(op)
    BY <1>1, <1>2, <1>5, <2>1, RemovalEffect, CurrentOp
  <2>3. Passed(r.cur, r.k) \cap host = {}
    BY <1>2, <1>5 DEF HostOK, Undone
  <2>4. Passed(r.cur, r.k) \cap host' = {}
    BY <1>3, <2>2, <2>3
  <2>5. ContainerIsConfined'
    BY <1>2, <1>3, <2>2, <2>3 DEF ContainerIsConfined, Feasible
  <2>6. ASSUME NEW s \in Covered(r) \ r.todo
        PROVE  ItemsOf(s) \cap host' = {}
    <3>1. ItemsOf(s) \cap host = {}
      BY <1>1, <1>2, <2>6 DEF HostOK, Owed
    <3>2. "profile_text" \in ItemsOf(s) => s = start_pe_observe
      BY DEF ItemsOf
    <3>3. r.cur = start_pe_observe => start_pe_observe \in r.todo
      BY <1>1, CurrentOp DEF start_pe_observe
    <3>4. Adds(op) \cap ItemsOf(s) = {}
      BY <2>2, <2>6, <3>2, <3>3
    <3> QED
      BY <1>3, <3>1, <3>4
  <2> QED
    BY <2>4, <2>5, <2>6
<1> QED
  BY <1>4, <1>5

LEMMA OpExecHost ==
  ASSUME IInv, HInv, NEW p \in Procs, OpExec(p)
  PROVE  HInv'
<1>1. run[p].pc = "op" /\ run[p].pc \in Started /\ tx' = tx
  BY DEF OpExec, At, Started, disk
<1>2. PICK rc \in {"zero", "nonzero", "timeout"} :
        Continue(p, [run[p] EXCEPT !.pc = "check", !.rc = rc])
  BY DEF OpExec
<1>3. PICK r : r = [run[p] EXCEPT !.pc = "check", !.rc = rc] /\ Continue(p, r)
  BY <1>2
<1>4. PICK op : op = Op(run[p])
  OBVIOUS
<1>5. host' = host \/ (Feasible(op) /\ host' = Complete(op)) \/ host' \in AnyPart(op)
  BY <1>4 DEF OpExec
<1>6. /\ ContainerIsConfined'
      /\ run[p].cmd # "apply" => Passed(run[p].cur, run[p].k) \cap host' = {}
      /\ \A s \in Covered(run[p]) \ run[p].todo : ItemsOf(s) \cap host' = {}
  BY <1>1, <1>4, <1>5, OperationHost
<1>7. RecordOK(tx', host')
  BY <1>1, RuntimeNoClaim
<1>8. run[p] \in Memory /\ HostOK(run[p], host)
  BY <1>1, OwnHost
<1>9. /\ r.pc = "check" /\ r.cmd = run[p].cmd /\ r.cur = run[p].cur /\ r.k = run[p].k
      /\ r.todo = run[p].todo /\ r.tx = run[p].tx
  BY <1>3, <1>8 DEF Memory
<1>10. Ops(r) = Ops(run[p]) /\ Covered(r) = Covered(run[p])
  BY <1>9 DEF Ops, Covered
<1>11. HostOK(r, host')
  BY <1>1, <1>6, <1>8, <1>9, <1>10 DEF HostOK, IndexOK, Undone, Owed, PhaseOK, Started
<1> QED
  BY <1>1, <1>3, <1>6, <1>7, <1>11, HostContinue DEF Started

\* A process that ends in the middle of an operation.
LEMMA TornHost ==
  ASSUME IInv, HInv, NEW p \in Procs, host' \in Torn(p), UNCHANGED disk
  PROVE  ContainerIsConfined' /\ RecordOK(tx', host')
<1>1. tx' = tx
  BY DEF disk
<1>2. CASE run[p].pc = "op"
  <2>1. PICK op : op = Op(run[p])
    OBVIOUS
  <2>2. host' \in AnyPart(op)
    BY <1>2, <2>1 DEF Torn, At
  <2> QED
    BY <1>1, <1>2, <2>1, <2>2, OperationHost, RuntimeNoClaim
<1>3. CASE run[p].pc # "op"
  BY <1>1, <1>3, SameHost DEF Torn, At
<1> QED
  BY <1>2, <1>3

LEMMA UnwindHost ==
  ASSUME IInv, HInv, NEW p \in Procs, Unwind(p)
  PROVE  HInv'
BY TornHost, HostLeave DEF Unwind, At, Leave

LEMMA KillHost ==
  ASSUME IInv, HInv, NEW p \in Procs, Kill(p)
  PROVE  HInv'
BY TornHost, HostLeave DEF Kill, At

\* The check after an operation: a removal that goes on has passed the operation.
LEMMA AfterOpHost ==
  ASSUME IInv, HInv, NEW p \in Procs, run[p].pc = "check", NEW r \in Memory,
         r.pc = "check", r.cmd = run[p].cmd, r.cur = run[p].cur, r.k = run[p].k,
         r.todo = run[p].todo, r.tx = run[p].tx,
         (Removes(Op(r)) \ {"image"}) \cap host = {}
  PROVE  HostOK(AfterOp(r), host)
<1>1. run[p].pc \in Started /\ run[p].pc \in {"op", "check"}
  BY DEF Started
<1>2. Ops(r) = Ops(run[p]) /\ Covered(r) = Covered(run[p])
  BY DEF Ops, Covered
<1>3. /\ r.k \in 1..Len(Ops(r)) /\ r.k \in 1..6
      /\ r.cmd = "apply" => r.cur \in APPLY_STEPS
      /\ r.cmd # "apply" => r.cur \in HOST_MUTATION_STEPS \cup {0}
      /\ r.cmd \in LiveCommands
  BY <1>1, <1>2, CurrentOp, OwnHost DEF Memory
<1>4. HostOK(run[p], host)
  BY <1>1, OwnHost
<1>5. /\ r.cmd # "apply" => Passed(r.cur, r.k) \cap host = {}
      /\ \A s \in Covered(r) \ r.todo : ItemsOf(s) \cap host = {}
      /\ r.cmd # "apply" => r.todo \subseteq HOST_MUTATION_STEPS
      /\ r.cur = 0 => r.todo = {}
      /\ r.cmd = "apply" => r.tx.state \in {"APPLYING", "APPLIED", "HEALTHY", "DEGRADED",
                                            "FAILED_SAFE"}
  BY <1>1, <1>2, <1>4 DEF HostOK, IndexOK, Undone, Owed, PhaseOK
<1>6. PICK j \in Nat : j = r.k + 1
  BY <1>3
<1>7. ASSUME r.cmd # "apply"
      PROVE  /\ r.k < Len(Ops(r)) => Passed(r.cur, j) \cap host = {}
             /\ ~(r.k < Len(Ops(r))) => ItemsOf(r.cur) \cap host = {}
             /\ r.cur = 0 => "pins" \notin host /\ ~(r.k < Len(Ops(r)))
  <2>1. /\ r.k < Len(Ops(r)) =>
              Passed(r.cur, j) \subseteq Passed(r.cur, r.k) \cup (Removes(Op(r)) \ {"image"})
        /\ ~(r.k < Len(Ops(r))) =>
              ItemsOf(r.cur) \subseteq Passed(r.cur, r.k) \cup (Removes(Op(r)) \ {"image"})
        /\ r.cur = 0 => "pins" \in Removes(Op(r)) \ {"image"} /\ ~(r.k < Len(Ops(r)))
    BY <1>3, <1>6, <1>7, RemovalEffect
  <2> QED
    BY <1>5, <1>7, <2>1
<1>8. CASE r.k < Len(Ops(r))
  <2>1. PICK u : u = [r EXCEPT !.pc = "op", !.k = j] /\ u = AfterOp(r)
    BY <1>6, <1>8 DEF AfterOp
  <2>2. /\ u.pc = "op" /\ u.k = j /\ u.cmd = r.cmd /\ u.cur = r.cur
        /\ u.todo = r.todo /\ u.tx = r.tx
    BY <2>1 DEF Memory
  <2>3. Ops(u) = Ops(r) /\ Covered(u) = Covered(r)
    BY <2>2 DEF Ops, Covered
  <2>4. PICK n \in 0..6 : n = Len(Ops(r))
    BY OpsLength
  <2>5. j \in 1..n
    BY <1>3, <1>6, <1>8, <2>4
  <2>6. u.k \in 1..Len(Ops(u))
    BY <2>2, <2>3, <2>4, <2>5
  <2>7. HostOK(u, host)
    BY <1>1, <1>5, <1>7, <1>8, <2>2, <2>3, <2>6 DEF HostOK, IndexOK, Undone, Owed, PhaseOK, Started
  <2> QED
    BY <2>1, <2>7
<1>9. CASE ~(r.k < Len(Ops(r))) /\ r.cur = 0
  <2>1. PICK u : u = [r EXCEPT !.pc = "enforce"] /\ u = AfterOp(r)
    BY <1>9 DEF AfterOp, AfterStep
  <2>2. u.pc = "enforce" /\ u.cmd = r.cmd /\ u.todo = r.todo /\ u.tx = r.tx
    BY <2>1 DEF Memory
  <2>3. Covered(u) = Covered(r)
    BY <2>2 DEF Covered
  <2>4. HostOK(u, host)
    BY <1>1, <1>3, <1>5, <1>7, <1>9, <2>2, <2>3
    DEF HostOK, IndexOK, Undone, Owed, PhaseOK, Started, APPLY_STEPS
  <2> QED
    BY <2>1, <2>4
<1>10. CASE ~(r.k < Len(Ops(r))) /\ r.cur # 0 /\ r.cmd \in {"apply", "rollback"}
  <2>1. PICK l \in {"clear", "snapshot"} :
            l = (IF r.cmd = "apply" THEN "clear" ELSE "snapshot")
    OBVIOUS
  <2>2. PICK u : u = [r EXCEPT !.pc = l] /\ u = AfterOp(r)
    BY <1>10, <2>1 DEF AfterOp, AfterStep
  <2>3. u.pc = l /\ u.cmd = r.cmd /\ u.todo = r.todo /\ u.tx = r.tx /\ u.cur = r.cur
    BY <2>2 DEF Memory
  <2>4. Covered(u) = Covered(r)
    BY <2>3 DEF Covered
  <2>5. HostOK(u, host)
    BY <1>1, <1>5, <1>7, <1>10, <2>3, <2>4 DEF HostOK, IndexOK, Undone, Owed, PhaseOK, Started
  <2> QED
    BY <2>2, <2>5
<1>11. CASE ~(r.k < Len(Ops(r))) /\ r.cur # 0 /\ r.cmd = "uninstall"
  <2>1. PICK u : u = [r EXCEPT !.pc = "next", !.todo = r.todo \ {r.cur}] /\ u = AfterOp(r)
    BY <1>11 DEF AfterOp, AfterStep
  <2>2. u.pc = "next" /\ u.cmd = r.cmd /\ u.todo = r.todo \ {r.cur} /\ u.tx = r.tx
    BY <2>1 DEF Memory
  <2>3. Covered(u) = Covered(r)
    BY <2>2 DEF Covered
  <2>4. \A s \in Covered(u) \ u.todo : ItemsOf(s) \cap host = {}
    BY <1>5, <1>7, <1>11, <2>2, <2>3
  <2>5. HostOK(u, host)
    BY <1>1, <1>5, <1>11, <2>2, <2>4 DEF HostOK, IndexOK, Undone, Owed, PhaseOK, Started
  <2> QED
    BY <2>1, <2>5
<1> QED
  BY <1>3, <1>8, <1>9, <1>10, <1>11 DEF LiveCommands

\* A process whose step fails keeps what it owes, whatever happens to the host of
\* what it does not.
LEMMA FailHost ==
  ASSUME IInv, HInv, NEW p \in Procs, run[p].pc \in Started, NEW r \in Memory, r.pc = "error",
         r.cmd = run[p].cmd, r.todo = run[p].todo, r.tx = run[p].tx, host' \subseteq host
  PROVE  HostOK(r, host')
<1>1. HostOK(run[p], host)
  BY OwnHost
<1>2. Covered(r) = Covered(run[p])
  BY DEF Covered
<1> QED
  BY <1>1, <1>2 DEF HostOK, IndexOK, Undone, Owed, PhaseOK, Started

LEMMA OpCheckHost ==
  ASSUME IInv, HInv, NEW p \in Procs, OpCheck(p)
  PROVE  HInv'
<1>1. run[p].pc = "check" /\ run[p].pc \in Started /\ run[p].pc # "idle" /\ tx' = tx /\ host' = host
  BY DEF OpCheck, At, Started
<1>2. run[p] \in Memory
  BY <1>1, OwnHost
<1>3. ContainerIsConfined' /\ RecordOK(tx', host')
  BY <1>1, SameHost
<1>4. CASE \E rc \in {"nonzero", "timeout", "unverified"} :
             Continue(p, [run[p] EXCEPT !.pc = "error", !.rc = rc])
  <2>1. PICK rc \in {"nonzero", "timeout", "unverified"} :
           Continue(p, [run[p] EXCEPT !.pc = "error", !.rc = rc])
    BY <1>4
  <2>2. PICK r : r = [run[p] EXCEPT !.pc = "error", !.rc = rc] /\ Continue(p, r)
    BY <2>1
  <2>3. /\ r \in Memory /\ r.pc = "error" /\ r.cmd = run[p].cmd /\ r.todo = run[p].todo
        /\ r.tx = run[p].tx
    BY <1>2, <2>2 DEF Memory, Labels
  <2> QED
    BY <1>1, <1>3, <2>2, <2>3, FailHost, HostContinue
<1>5. CASE /\ Verified(Op(run[p]), host)
           /\ Continue(p, AfterOp([run[p] EXCEPT !.snap = Delta(Op(run[p]), run[p].snap, host)]))
  <2>1. Delta(Op(run[p]), run[p].snap, host) \subseteq SnapItems
    BY <1>2, DeltaType DEF Memory
  <2>2. PICK r : /\ r = [run[p] EXCEPT !.snap = Delta(Op(run[p]), run[p].snap, host)]
                 /\ Continue(p, AfterOp(r))
    BY <1>5
  <2>3. /\ r \in Memory /\ r.pc = "check" /\ r.cmd = run[p].cmd /\ r.cur = run[p].cur
        /\ r.k = run[p].k /\ r.todo = run[p].todo /\ r.tx = run[p].tx
    BY <1>1, <1>2, <2>1, <2>2 DEF Memory
  <2>4. Op(r) = Op(run[p])
    BY <2>3 DEF Op, Ops
  <2>5. (Removes(Op(r)) \ {"image"}) \cap host = {}
    BY <1>5, <2>4 DEF Verified
  <2>6. HostOK(AfterOp(r), host)
    BY <1>1, <2>3, <2>5, AfterOpHost
  <2> QED
    BY <1>1, <1>3, <2>2, <2>6, HostContinue
<1>6. run[p].rc # "zero" /\ Goto(p, "error") =>
         Continue(p, [run[p] EXCEPT !.pc = "error", !.rc = run[p].rc])
  BY <1>2 DEF Goto, Memory
<1> QED
  BY <1>2, <1>4, <1>5, <1>6 DEF OpCheck, Memory

----------------------------------------------------------------------------
(* The other actions. *)

LEMMA AcquireHost ==
  ASSUME IInv, HInv, NEW p \in Procs, NEW c \in Commands, Acquire(p, c)
  PROVE  HInv'
<1>1. run'[p] = [Idle EXCEPT !.pc = "open", !.cmd = c] /\ \A q \in Procs \ {p} : run'[q] = run[q]
  BY TypeParts DEF Acquire
<1>2. run'[p].pc = "open"
  BY <1>1 DEF Idle
<1>3. HostOK(run'[p], host')
  BY <1>2, IdleHost
<1>4. ContainerIsConfined' /\ RecordOK(tx', host')
  BY SameHost DEF Acquire, disk
<1> QED
  BY <1>1, <1>3, <1>4, HostFrame DEF Acquire

\* The actions that end the process and leave the record and the host alone.
LEMMA QuitHost ==
  ASSUME IInv, HInv, NEW p \in Procs, Refuse(p) \/ PlanReplay(p)
  PROVE  HInv'
<1>1. run[p].pc # "idle" /\ tx' = tx /\ host' = host /\ Leave(p)
  BY DEF Refuse, PlanReplay, At, disk
<1> QED
  BY <1>1, SameHost, HostLeave DEF Leave

\* The actions that end the process with a record that claims nothing.
LEMMA GiveUpHost ==
  ASSUME IInv, HInv, NEW p \in Procs, ApplyFailSafe(p) \/ VerifyRemoval(p)
  PROVE  HInv'
<1>1. run[p].pc # "idle" /\ host' = host /\ Leave(p)
  BY DEF ApplyFailSafe, VerifyRemoval, At
<1>2. tx'.state \in {"VERIFIED_REMOVED", "RESIDUAL_FOUND", "FAILED_SAFE"}
  BY TypeParts DEF ApplyFailSafe, VerifyRemoval, DiskType, TxRecord
<1>3. RecordOK(tx', host')
  BY <1>2, NoClaim
<1> QED
  BY <1>1, <1>3, SameHost, HostLeave DEF Leave

LEMMA StatusHost ==
  ASSUME IInv, HInv, NEW p \in Procs, Status(p)
  PROVE  HInv'
<1>1. run[p].pc # "idle" /\ host' = host /\ Leave(p)
  BY DEF Status, At
<1>2. tx' = tx \/ tx' = [tx EXCEPT !.state = "INTERRUPTED", !.mip = FALSE]
  BY DEF Status
<1>3. tx' = tx \/ tx'.state = "INTERRUPTED"
  BY <1>2, TypeParts DEF DiskType, TxRecord
<1>4. RecordOK(tx', host')
  <2>1. CASE tx' = tx
    BY <1>1, <2>1, SameHost
  <2>2. CASE tx'.state = "INTERRUPTED"
    BY <2>2, NoClaim
  <2> QED
    BY <1>3, <2>1, <2>2
<1> QED
  BY <1>1, <1>4, SameHost, HostLeave DEF Leave

LEMMA EnrollHost ==
  ASSUME IInv, HInv, NEW p \in Procs, Enroll(p)
  PROVE  HInv'
<1>1. run[p].pc # "idle" /\ tx' = tx /\ Leave(p) /\ host' \in {host \cup {"enforce"}, host \ {"enforce"}}
  BY DEF Enroll, At, disk
<1>2. ContainerIsConfined'
  BY <1>1 DEF HInv, ContainerIsConfined
<1>3. RecordOK(tx', host')
  <2>1. RecordOK(tx, host)
    BY DEF HInv
  <2>2. "enforce" \notin Products /\ "enforce" \notin OpticsItems \cup {"pins"}
    BY DEF Products, OpticsItems, EngineItems
  <2> QED
    BY <1>1, <2>1, <2>2 DEF RecordOK
<1> QED
  BY <1>1, <1>2, <1>3, HostLeave DEF Leave

LEMMA PlanOpenHost ==
  ASSUME IInv, HInv, NEW p \in Procs, PlanOpen(p)
  PROVE  HInv'
<1>1. run[p].pc # "idle" /\ host' = host /\ run[p] \in Memory
  BY TypeParts DEF PlanOpen, At
<1>2. PICK r : r = [run[p] EXCEPT !.pc = "gate", !.tx = tx'] /\ Continue(p, r)
  BY DEF PlanOpen
<1>3. tx.state \in Unapplied
  BY DEF PlanOpen, CanStart, START_STATES, Unapplied
<1>4. host \cap Products = {}
  BY <1>3 DEF HInv, RecordOK
<1>5. tx' = tx \/ tx'.state = "CREATED"
  BY DEF PlanOpen, NoTx
<1>6. RecordOK(tx', host')
  BY <1>1, <1>3, <1>4, <1>5 DEF RecordOK, Unapplied
<1>7. r.pc = "gate"
  BY <1>1, <1>2 DEF Memory
<1>8. HostOK(r, host')
  BY <1>1, <1>4, <1>7 DEF HostOK, IndexOK, Undone, Owed, PhaseOK, Started
<1> QED
  BY <1>1, <1>2, <1>6, <1>8, SameHost, HostContinue

LEMMA PlanGateHost ==
  ASSUME IInv, HInv, NEW p \in Procs, PlanGate(p)
  PROVE  HInv'
<1>1. run[p].pc # "idle" /\ run[p].pc = "gate" /\ host' = host /\ run[p] \in Memory
  BY TypeParts DEF PlanGate, At
<1>2. PICK gate \in {"PLANNED", "PREFLIGHT_BLOCKED", "UNSUPPORTED"}, lim \in BOOLEAN,
           lsm \in {{}, {"lsm"}} :
         /\ tx' = [run[p].tx EXCEPT !.state = gate, !.phase = "plan", !.owner = FALSE,
                                    !.mip = FALSE, !.limited = lim]
         /\ Continue(p, [run[p] EXCEPT !.pc = "files", !.k = 1, !.tx = tx', !.snap = lsm])
  BY DEF PlanGate
<1>3. PICK r : /\ r = [run[p] EXCEPT !.pc = "files", !.k = 1, !.tx = tx', !.snap = lsm]
               /\ Continue(p, r)
  BY <1>2
<1>4. r.pc = "files"
  BY <1>1, <1>3 DEF Memory
<1>5. tx'.state = gate
  <2>1. run[p].tx \in TxRecord
    BY <1>1 DEF Memory
  <2> QED
    BY <1>2, <2>1 DEF TxRecord
<1>6. host \cap Products = {}
  BY <1>1 DEF HInv, HostOK, PhaseOK
<1>7. RecordOK(tx', host')
  BY <1>1, <1>5, <1>6 DEF RecordOK
<1>8. HostOK(r, host')
  BY <1>1, <1>4, <1>6 DEF HostOK, IndexOK, Undone, Owed, PhaseOK, Started
<1> QED
  BY <1>1, <1>3, <1>7, <1>8, SameHost, HostContinue

LEMMA PlanFileHost ==
  ASSUME IInv, HInv, NEW p \in Procs, PlanFile(p)
  PROVE  HInv'
<1>1. run[p].pc # "idle" /\ run[p].pc = "files" /\ host' = host /\ tx' = tx /\ run[p] \in Memory
  BY TypeParts DEF PlanFile, At
<1>2. PICK j : j = run[p].k + 1
  OBVIOUS
<1>3. Leave(p) \/ Continue(p, [run[p] EXCEPT !.k = j])
  BY <1>2 DEF PlanFile
<1>4. CASE Leave(p)
  BY <1>1, <1>4, SameHost, HostLeave DEF Leave
<1>5. CASE Continue(p, [run[p] EXCEPT !.k = j])
  <2>1. PICK r : r = [run[p] EXCEPT !.k = j] /\ Continue(p, r)
    BY <1>5
  <2>2. r.pc = "files"
    BY <1>1, <2>1 DEF Memory
  <2>3. host \cap Products = {}
    BY <1>1 DEF HInv, HostOK, PhaseOK
  <2>4. HostOK(r, host')
    BY <1>1, <2>2, <2>3 DEF HostOK, IndexOK, Undone, Owed, PhaseOK, Started
  <2> QED
    BY <1>1, <2>1, <2>4, SameHost, HostContinue
<1> QED
  BY <1>3, <1>4, <1>5

LEMMA ApplyOpenHost ==
  ASSUME IInv, HInv, NEW p \in Procs, ApplyOpen(p)
  PROVE  HInv'
<1>1. run[p].pc # "idle" /\ run[p].cmd = "apply" /\ host' = host /\ run[p] \in Memory
  BY TypeParts DEF ApplyOpen, At
<1>2. CASE Leave(p) /\ UNCHANGED tx
  BY <1>1, <1>2, SameHost, HostLeave DEF Leave
<1>3. CASE /\ tx' = [tx EXCEPT !.state = "APPLYING", !.mip = TRUE, !.owner = TRUE,
                               !.phase = "apply"]
           /\ Continue(p, [run[p] EXCEPT !.pc = "recheck", !.tx = tx', !.snap = snap,
                                         !.todo = APPLY_STEPS \ tx.done])
  <2>1. PICK r : /\ r = [run[p] EXCEPT !.pc = "recheck", !.tx = tx', !.snap = snap,
                                       !.todo = APPLY_STEPS \ tx.done]
                 /\ Continue(p, r)
    BY <1>3
  <2>2. tx'.state = "APPLYING"
    BY <1>3, TypeParts DEF DiskType, TxRecord
  <2>3. r.pc = "recheck" /\ r.cmd = "apply" /\ r.tx = tx'
    BY <1>1, <2>1 DEF Memory
  <2>4. Covered(r) = {}
    BY <2>3 DEF Covered
  <2>5. HostOK(r, host')
    BY <2>2, <2>3, <2>4 DEF HostOK, IndexOK, Undone, Owed, PhaseOK, Started
  <2> QED
    BY <1>1, <2>1, <2>2, <2>5, NoClaim, SameHost, HostContinue
<1> QED
  BY <1>2, <1>3 DEF ApplyOpen

\* A process of apply owes nothing.
LEMMA ApplyHost ==
  ASSUME NEW r, NEW h, r.cmd = "apply", r.pc \in Started \ {"op", "check"},
         r.pc \notin {"unpin", "enforce", "end_snapshot", "end_health"},
         r.tx.state \in {"APPLYING", "APPLIED", "HEALTHY", "DEGRADED", "FAILED_SAFE"}
  PROVE  HostOK(r, h)
<1>1. Covered(r) = {}
  BY DEF Covered
<1> QED
  BY <1>1 DEF HostOK, IndexOK, Undone, Owed, PhaseOK, Started

LEMMA ApplyRecheckHost ==
  ASSUME IInv, HInv, NEW p \in Procs, ApplyRecheck(p)
  PROVE  HInv'
<1>1. /\ run[p].pc # "idle" /\ run[p].pc = "recheck" /\ host' = host /\ run[p] \in Memory
      /\ run[p].tx \in TxRecord /\ run[p].pc \in Started
  BY OwnHost DEF ApplyRecheck, At, Started
<1>2. CASE Goto(p, "next") /\ UNCHANGED tx
  <2>1. PICK r : r = [run[p] EXCEPT !.pc = "next"] /\ Continue(p, r)
    BY <1>2 DEF Goto
  <2>2. r.pc = "next" /\ r.cmd = run[p].cmd /\ r.tx = run[p].tx
    BY <1>1, <2>1 DEF Memory
  <2>3. run[p].cmd = "apply"
    BY <1>1, TypeParts DEF MemoryOK, LabelOK
  <2>4. run[p].tx.state \in {"APPLYING", "APPLIED", "HEALTHY", "DEGRADED", "FAILED_SAFE"}
    BY <1>1, <2>3, OwnHost DEF HostOK, PhaseOK
  <2>5. HostOK(r, host')
    BY <2>2, <2>3, <2>4, ApplyHost DEF Started
  <2> QED
    BY <1>1, <1>2, <2>1, <2>5, SameHost, HostContinue
<1>3. CASE /\ tx' = [run[p].tx EXCEPT !.state = "FAILED_SAFE", !.mip = FALSE, !.owner = FALSE]
           /\ Leave(p)
  <2>1. tx'.state = "FAILED_SAFE"
    BY <1>1, <1>3 DEF TxRecord
  <2>2. RecordOK(tx', host')
    BY <2>1, NoClaim
  <2> QED
    BY <1>1, <1>3, <2>2, SameHost, HostLeave DEF Leave
<1>4. CASE Leave(p) /\ UNCHANGED tx
  BY <1>1, <1>4, SameHost, HostLeave DEF Leave
<1> QED
  BY <1>2, <1>3, <1>4 DEF ApplyRecheck

LEMMA ApplyStepHost ==
  ASSUME IInv, HInv, NEW p \in Procs, ApplyStep(p)
  PROVE  HInv'
<1> DEFINE States == {"APPLYING", "APPLIED", "HEALTHY", "DEGRADED", "FAILED_SAFE"}
<1>1. /\ run[p].pc = "next" /\ run[p].pc # "idle" /\ run[p].pc \in Started
      /\ run[p].cmd = "apply" /\ tx' = tx /\ host' = host
  BY DEF ApplyStep, At, Started
<1>2. run[p] \in Memory /\ run[p].tx \in TxRecord /\ run[p].tx.state \in States
  BY <1>1, OwnHost DEF HostOK, PhaseOK
<1>3. HealthState(health') \in States /\ "APPLIED" \in States
  BY DEF HealthState
<1>4. PICK s \in run[p].todo :
         \/ Continue(p, [run[p] EXCEPT !.pc = "clear", !.cur = s, !.tx.state = run[p].tx.state])
         \/ Continue(p, [run[p] EXCEPT !.pc = "end_save", !.tx.state = "FAILED_SAFE"])
         \/ Continue(p, [run[p] EXCEPT !.pc = "clear", !.cur = s, !.tx.state = "APPLIED"])
         \/ Continue(p, [run[p] EXCEPT !.pc = "clear", !.cur = s, !.tx.state = HealthState(health')])
         \/ Continue(p, [run[p] EXCEPT !.pc = "error", !.cur = s, !.rc = "nonzero"])
  BY DEF ApplyStep
<1>5. ASSUME NEW state \in States,
             Continue(p, [run[p] EXCEPT !.pc = "clear", !.cur = s, !.tx.state = state])
      PROVE  HInv'
  <2>1. PICK r : /\ r = [run[p] EXCEPT !.pc = "clear", !.cur = s, !.tx.state = state]
                 /\ Continue(p, r)
    BY <1>5
  <2>2. r.pc = "clear" /\ r.cmd = "apply" /\ r.tx.state = state
    BY <1>1, <1>2, <2>1 DEF Memory, TxRecord
  <2>3. HostOK(r, host')
    BY <1>5, <2>2, ApplyHost DEF Started
  <2> QED
    BY <1>1, <2>1, <2>3, SameHost, HostContinue
<1>6. CASE Continue(p, [run[p] EXCEPT !.pc = "end_save", !.tx.state = "FAILED_SAFE"])
  <2>1. PICK r : /\ r = [run[p] EXCEPT !.pc = "end_save", !.tx.state = "FAILED_SAFE"]
                 /\ Continue(p, r)
    BY <1>6
  <2>2. r.pc = "end_save" /\ r.cmd = "apply" /\ r.tx.state = "FAILED_SAFE"
    BY <1>1, <1>2, <2>1 DEF Memory, TxRecord
  <2>3. HostOK(r, host')
    BY <2>2, ApplyHost DEF Started
  <2> QED
    BY <1>1, <2>1, <2>3, SameHost, HostContinue
<1>7. CASE Continue(p, [run[p] EXCEPT !.pc = "error", !.cur = s, !.rc = "nonzero"])
  <2>1. PICK r : /\ r = [run[p] EXCEPT !.pc = "error", !.cur = s, !.rc = "nonzero"]
                 /\ Continue(p, r)
    BY <1>7
  <2>2. r.pc = "error" /\ r.cmd = "apply" /\ r.tx = run[p].tx
    BY <1>1, <1>2, <2>1 DEF Memory
  <2>3. HostOK(r, host')
    BY <1>2, <2>2, ApplyHost DEF Started
  <2> QED
    BY <1>1, <2>1, <2>3, SameHost, HostContinue
<1> HIDE DEF States
<1> QED
  BY <1>2, <1>3, <1>4, <1>5, <1>6, <1>7

\* What each step of a removal takes off.
LEMMA ItemsTable ==
  /\ ItemsOf(3) = {"optics"} /\ ItemsOf(4) = {"sdk_npm", "sdk_py"}
  /\ ItemsOf(5) = {"archive"} /\ ItemsOf(6) = {"tag"} /\ ItemsOf(7) = {"config", "o7"}
  /\ ItemsOf(8) = {"hold"}
  /\ ItemsOf(9) = {"container", "pins", "profile", "profile_text", "clsact"}
BY DEF ItemsOf, install_optics_cli, install_agent_sdks, stage_pe_archive,
       docker_load, write_observe_config, install_boot_hold, start_pe_observe

\* A rollback sees the CLI and the SDKs on the host, whatever the records say.
LEMMA ProbedPending ==
  ASSUME NEW s \in {install_optics_cli, install_agent_sdks}, s \notin Pending
  PROVE  ItemsOf(s) \cap host = {}
<1>1. s \notin Probed
  BY DEF Pending, HOST_MUTATION_STEPS
<1>2. CASE s = install_optics_cli
  <2>1. {"optics"} \cap host = {}
    BY <1>1, <1>2 DEF Probed
  <2>2. ItemsOf(s) = {"optics"}
    BY <1>2, ItemsTable DEF install_optics_cli
  <2> QED
    BY <2>1, <2>2
<1>3. CASE s = install_agent_sdks
  <2>1. {"sdk_npm", "sdk_py"} \cap host = {}
    BY <1>1, <1>3 DEF Probed
  <2>2. ItemsOf(s) = {"sdk_npm", "sdk_py"}
    BY <1>3, ItemsTable DEF install_agent_sdks
  <2> QED
    BY <2>1, <2>2
<1> QED
  BY <1>2, <1>3

LEMMA RollbackOpenHost ==
  ASSUME IInv, HInv, NEW p \in Procs, RollbackOpen(p)
  PROVE  HInv'
<1>1. run[p].pc # "idle" /\ run[p].cmd = "rollback" /\ host' = host /\ run[p] \in Memory
  BY TypeParts DEF RollbackOpen, At
<1>2. PICK r : /\ r = [run[p] EXCEPT !.pc = "next", !.tx = tx', !.snap = snap, !.todo = Pending]
               /\ Continue(p, r)
  BY DEF RollbackOpen
<1>3. tx'.state = "ROLLING_BACK"
  BY TypeParts DEF RollbackOpen, DiskType, TxRecord
<1>4. r.pc = "next" /\ r.cmd = "rollback" /\ r.todo = Pending
  BY <1>1, <1>2 DEF Memory
<1>5. Covered(r) = {install_optics_cli, install_agent_sdks}
  BY <1>4 DEF Covered
<1>6. \A s \in Covered(r) \ r.todo : ItemsOf(s) \cap host = {}
  BY <1>4, <1>5, ProbedPending
<1>7. HostOK(r, host')
  BY <1>1, <1>4, <1>6, PendingType DEF HostOK, IndexOK, Undone, Owed, PhaseOK, Started
<1>8. RecordOK(tx', host')
  BY <1>3, NoClaim
<1> QED
  BY <1>1, <1>2, <1>7, <1>8, SameHost, HostContinue

LEMMA UninstallOpenHost ==
  ASSUME IInv, HInv, NEW p \in Procs, UninstallOpen(p)
  PROVE  HInv'
<1>1. run[p].pc # "idle" /\ run[p].cmd = "uninstall" /\ host' = host /\ run[p] \in Memory
  BY TypeParts DEF UninstallOpen, At
<1>2. PICK scope \in Scopes :
         /\ tx' = [tx EXCEPT !.state = "UNINSTALLING", !.mip = TRUE, !.owner = TRUE,
                             !.phase = "uninstall", !.scope = scope]
         /\ Continue(p, [run[p] EXCEPT !.pc = "next", !.tx = tx', !.snap = snap,
                                       !.todo = ScopeSteps(scope)])
  BY DEF UninstallOpen
<1>3. PICK r : /\ r = [run[p] EXCEPT !.pc = "next", !.tx = tx', !.snap = snap,
                                     !.todo = ScopeSteps(scope)]
               /\ Continue(p, r)
  BY <1>2
<1>4. tx'.state = "UNINSTALLING" /\ tx'.scope = scope
  BY <1>2, TypeParts DEF DiskType, TxRecord
<1>5. r.pc = "next" /\ r.cmd = "uninstall" /\ r.todo = ScopeSteps(scope) /\ r.tx = tx'
  BY <1>1, <1>3 DEF Memory
<1>6. ScopeSteps(scope) \subseteq HOST_MUTATION_STEPS
  BY DEF ScopeSteps, HOST_MUTATION_STEPS
<1>7. Covered(r) \subseteq r.todo
  <2>1. CASE scope = "all"
    BY <1>4, <1>5, <2>1 DEF Covered, ScopeSteps
  <2>2. CASE scope # "all"
    BY <1>4, <1>5, <2>2 DEF Covered
  <2> QED
    BY <2>1, <2>2
<1>8. HostOK(r, host')
  BY <1>5, <1>6, <1>7 DEF HostOK, IndexOK, Undone, Owed, PhaseOK, Started
<1>9. RecordOK(tx', host')
  BY <1>4, NoClaim
<1> QED
  BY <1>1, <1>3, <1>8, <1>9, SameHost, HostContinue

LEMMA StepBeginHost ==
  ASSUME IInv, HInv, NEW p \in Procs, StepBegin(p)
  PROVE  HInv'
<1>1. /\ run[p].pc = "next" /\ run[p].pc # "idle" /\ run[p].pc \in Started
      /\ host' = host /\ tx' = tx
  BY DEF StepBegin, At, Started, disk
<1>2. run[p] \in Memory /\ HostOK(run[p], host)
  BY <1>1, OwnHost
<1>3. PICK s \in run[p].todo :
         /\ s \notin {verify_artifacts, mark_applied, collect_health, write_support_index}
         /\ Continue(p, [run[p] EXCEPT !.pc = "op", !.cur = s, !.k = 1])
  BY DEF StepBegin
<1>4. PICK r : r = [run[p] EXCEPT !.pc = "op", !.cur = s, !.k = 1] /\ Continue(p, r)
  BY <1>3
<1>5. /\ r.pc = "op" /\ r.cur = s /\ r.k = 1 /\ r.cmd = run[p].cmd /\ r.todo = run[p].todo
      /\ r.tx = run[p].tx
  BY <1>2, <1>4 DEF Memory
<1>6. s \in 2..9 /\ run[p].todo # {} /\ s # 0
  BY <1>2, <1>3 DEF Memory, APPLY_STEPS, verify_artifacts, mark_applied, collect_health,
                    write_support_index
<1>7. run[p].cmd # "apply" => s \in HOST_MUTATION_STEPS
  BY <1>1, <1>2, <1>3 DEF HostOK, IndexOK
<1>8. r.k \in 1..Len(Ops(r))
  <2> USE DEF verify_artifacts, ensure_node, install_optics_cli, install_agent_sdks,
              stage_pe_archive, docker_load, write_observe_config, install_boot_hold,
              start_pe_observe
  <2>1. Len(STEP_OPERATIONS(s)) \in 1..4
    BY <1>6 DEF STEP_OPERATIONS
  <2>2. s \in HOST_MUTATION_STEPS => Len(ROLLBACK_OPERATIONS(s)) \in 1..6
    BY DEF ROLLBACK_OPERATIONS, HOST_MUTATION_STEPS
  <2>3. Ops(r) = IF r.cmd = "apply" THEN STEP_OPERATIONS(s) ELSE ROLLBACK_OPERATIONS(s)
    BY <1>5, <1>6 DEF Ops
  <2>4. CASE r.cmd = "apply"
    <3>1. Ops(r) = STEP_OPERATIONS(s)
      BY <2>3, <2>4
    <3>2. PICK n \in 1..4 : n = Len(Ops(r))
      BY <2>1, <3>1
    <3> QED
      BY <1>5, <3>2
  <2>5. CASE r.cmd # "apply"
    <3>1. Ops(r) = ROLLBACK_OPERATIONS(s)
      BY <2>3, <2>5
    <3>2. s \in HOST_MUTATION_STEPS
      BY <1>5, <1>7, <2>5
    <3>3. Len(ROLLBACK_OPERATIONS(s)) \in 1..6
      BY <2>2, <3>2
    <3>4. PICK n \in 1..6 : n = Len(Ops(r))
      BY <3>1, <3>3
    <3> QED
      BY <1>5, <3>4
  <2> QED
    BY <2>4, <2>5
<1>9. Passed(r.cur, r.k) = {}
  BY <1>5 DEF Passed
<1>10. Covered(r) = Covered(run[p])
  BY <1>5 DEF Covered
<1>11. HostOK(r, host')
  BY <1>1, <1>2, <1>5, <1>6, <1>8, <1>9, <1>10
  DEF HostOK, IndexOK, Undone, Owed, PhaseOK, Started
<1> QED
  BY <1>1, <1>4, <1>11, SameHost, HostContinue

\* The saves between two steps.
LEMMA ClearPartialHost ==
  ASSUME IInv, HInv, NEW p \in Procs, ClearPartial(p)
  PROVE  HInv'
<1>1. /\ run[p].pc = "clear" /\ run[p].pc # "idle" /\ run[p].pc \in Started
      /\ host' = host /\ tx' = tx
  BY DEF ClearPartial, At, Started
<1>2. run[p] \in Memory /\ HostOK(run[p], host) /\ MemoryOK(run[p])
  BY <1>1, OwnHost, OwnCopy
<1>3. PICK r : r = [run[p] EXCEPT !.pc = "snapshot"] /\ Continue(p, r)
  BY DEF ClearPartial, Goto
<1>4. r.pc = "snapshot" /\ r.cmd = "apply" /\ r.tx = run[p].tx
  BY <1>1, <1>2, <1>3 DEF Memory, MemoryOK, LabelOK
<1>5. run[p].cmd = "apply"
  BY <1>1, <1>2 DEF MemoryOK, LabelOK
<1>6. HostOK(r, host')
  BY <1>1, <1>2, <1>4, <1>5, ApplyHost DEF HostOK, PhaseOK, Started
<1> QED
  BY <1>1, <1>3, <1>6, SameHost, HostContinue

LEMMA SaveSnapshotHost ==
  ASSUME IInv, HInv, NEW p \in Procs, SaveSnapshot(p)
  PROVE  HInv'
<1>1. /\ run[p].pc = "snapshot" /\ run[p].pc # "idle" /\ run[p].pc \in Started
      /\ host' = host /\ tx' = tx
  BY DEF SaveSnapshot, At, Started
<1>2. run[p] \in Memory /\ HostOK(run[p], host) /\ run[p].tx \in TxRecord
  BY <1>1, OwnHost
<1>3. PICK r : /\ \/ r = [run[p] EXCEPT !.pc = "save", !.tx.done = @ \cup {run[p].cur}]
                  \/ r = [run[p] EXCEPT !.pc = "save", !.tx.rbDone = @ \cup {run[p].cur}]
               /\ Continue(p, r)
  BY DEF SaveSnapshot
<1>4. /\ r.pc = "save" /\ r.cmd = run[p].cmd /\ r.cur = run[p].cur /\ r.todo = run[p].todo
      /\ r.tx.state = run[p].tx.state /\ r.tx.scope = run[p].tx.scope
  <2>1. CASE r = [run[p] EXCEPT !.pc = "save", !.tx.done = @ \cup {run[p].cur}]
    BY <1>2, <2>1 DEF Memory, TxRecord
  <2>2. CASE r = [run[p] EXCEPT !.pc = "save", !.tx.rbDone = @ \cup {run[p].cur}]
    BY <1>2, <2>2 DEF Memory, TxRecord
  <2> QED
    BY <1>3, <2>1, <2>2
<1>5. Covered(r) = Covered(run[p])
  BY <1>4 DEF Covered
<1>6. HostOK(r, host')
  BY <1>1, <1>2, <1>4, <1>5 DEF HostOK, IndexOK, Undone, Owed, PhaseOK, Started
<1> QED
  BY <1>1, <1>3, <1>6, SameHost, HostContinue

LEMMA SaveTxHost ==
  ASSUME IInv, HInv, NEW p \in Procs, SaveTx(p)
  PROVE  HInv'
<1>1. /\ run[p].pc = "save" /\ run[p].pc # "idle" /\ run[p].pc \in Started
      /\ host' = host /\ tx' = run[p].tx
  BY DEF SaveTx, At, Started
<1>2. run[p] \in Memory /\ HostOK(run[p], host) /\ MemoryOK(run[p])
  BY <1>1, OwnHost, OwnCopy
<1>3. PICK r : r = [run[p] EXCEPT !.pc = "next", !.todo = run[p].todo \ {run[p].cur}] /\ Continue(p, r)
  BY DEF SaveTx
<1>4. /\ r.pc = "next" /\ r.cmd = run[p].cmd /\ r.todo = run[p].todo \ {run[p].cur}
      /\ r.tx = run[p].tx
  BY <1>2, <1>3 DEF Memory
<1>5. Covered(r) = Covered(run[p])
  BY <1>4 DEF Covered
<1>6. run[p].cmd \in {"apply", "rollback"}
  BY <1>1, <1>2 DEF MemoryOK, LabelOK
<1>7. \A s \in Covered(r) \ r.todo : ItemsOf(s) \cap host = {}
  <2>1. CASE run[p].cmd = "apply"
    BY <1>4, <2>1 DEF Covered
  <2>2. CASE run[p].cmd = "rollback"
    <3>1. ItemsOf(run[p].cur) \cap host = {}
      BY <1>1, <1>2, <2>2 DEF HostOK, Undone
    <3>2. \A s \in Covered(run[p]) \ run[p].todo : ItemsOf(s) \cap host = {}
      BY <1>1, <1>2 DEF HostOK, Owed
    <3> QED
      BY <1>4, <1>5, <3>1, <3>2
  <2> QED
    BY <1>6, <2>1, <2>2
<1>8. HostOK(r, host')
  BY <1>1, <1>2, <1>4, <1>7 DEF HostOK, IndexOK, Undone, Owed, PhaseOK, Started
<1>9. RecordOK(tx', host')
  BY <1>1, OwnHost, NoClaim
<1> QED
  BY <1>1, <1>3, <1>8, <1>9, SameHost, HostContinue

LEMMA StepsDoneHost ==
  ASSUME IInv, HInv, NEW p \in Procs, StepsDone(p)
  PROVE  HInv'
<1>1. /\ run[p].pc = "next" /\ run[p].pc # "idle" /\ run[p].pc \in Started
      /\ host' = host /\ tx' = tx /\ run[p].todo = {}
  BY DEF StepsDone, At, Started, disk
<1>2. run[p] \in Memory /\ HostOK(run[p], host) /\ run[p].cmd \in LiveCommands
  BY <1>1, OwnHost
<1>3. PICK l \in {"end_save", "end_snapshot", "unpin"} :
         /\ run[p].cmd = "apply" => l = "end_save"
         /\ run[p].cmd = "rollback" => l = "unpin"
         /\ run[p].cmd = "uninstall" => l # "end_save"
         /\ Goto(p, l)
  <2>1. CASE run[p].cmd = "apply"
    BY <2>1 DEF StepsDone
  <2>2. CASE run[p].cmd = "rollback"
    BY <2>2 DEF StepsDone
  <2>3. CASE run[p].cmd = "uninstall"
    BY <2>3 DEF StepsDone
  <2> QED
    BY <1>2, <2>1, <2>2, <2>3 DEF LiveCommands
<1>4. PICK r : r = [run[p] EXCEPT !.pc = l] /\ Continue(p, r)
  BY <1>3 DEF Goto
<1>5. r.pc = l /\ r.cmd = run[p].cmd /\ r.todo = {} /\ r.tx = run[p].tx
  BY <1>1, <1>2, <1>4 DEF Memory
<1>6. Covered(r) = Covered(run[p])
  BY <1>5 DEF Covered
<1>7. HostOK(r, host')
  BY <1>1, <1>2, <1>3, <1>5, <1>6
  DEF HostOK, IndexOK, Undone, Owed, PhaseOK, Started, LiveCommands
<1> QED
  BY <1>1, <1>4, <1>7, SameHost, HostContinue

LEMMA UnpinRemainingHost ==
  ASSUME IInv, HInv, NEW p \in Procs, UnpinRemaining(p)
  PROVE  HInv'
<1>1. /\ run[p].pc = "unpin" /\ run[p].pc # "idle" /\ run[p].pc \in Started
      /\ host' = host /\ tx' = tx
  BY DEF UnpinRemaining, At, Started, disk
<1>2. run[p] \in Memory /\ HostOK(run[p], host) /\ MemoryOK(run[p])
  BY <1>1, OwnHost, OwnCopy
<1>3. CASE Continue(p, [run[p] EXCEPT !.pc = "error", !.rc = "nonzero"])
  <2>1. PICK r : r = [run[p] EXCEPT !.pc = "error", !.rc = "nonzero"] /\ Continue(p, r)
    BY <1>3
  <2>2. /\ r \in Memory /\ r.pc = "error" /\ r.cmd = run[p].cmd /\ r.todo = run[p].todo
        /\ r.tx = run[p].tx
    BY <1>2, <2>1 DEF Memory, Labels
  <2> QED
    BY <1>1, <2>1, <2>2, FailHost, SameHost, HostContinue
<1>4. CASE Continue(p, [run[p] EXCEPT !.pc = IF "pins" \in host THEN "op" ELSE "enforce",
                                      !.cur = 0, !.k = 1])
  <2>1. PICK l \in {"op", "enforce"} : l = IF "pins" \in host THEN "op" ELSE "enforce"
    OBVIOUS
  <2>2. PICK r : r = [run[p] EXCEPT !.pc = l, !.cur = 0, !.k = 1] /\ Continue(p, r)
    BY <1>4, <2>1
  <2>3. /\ r.pc = l /\ r.cur = 0 /\ r.k = 1 /\ r.cmd = run[p].cmd /\ r.todo = run[p].todo
        /\ r.tx = run[p].tx
    BY <1>2, <2>2 DEF Memory
  <2>4. Covered(r) = Covered(run[p]) /\ Passed(r.cur, r.k) = {} /\ r.k \in 1..Len(Ops(r))
    BY <2>3 DEF Covered, Passed, Ops, start_pe_observe, write_observe_config
  <2>5. l = "enforce" => "pins" \notin host
    BY <2>1
  <2>6. run[p].cmd # "apply"
    BY <1>1, <1>2 DEF MemoryOK, LabelOK
  <2>7. HostOK(r, host')
    BY <1>1, <1>2, <2>3, <2>4, <2>5, <2>6 DEF HostOK, IndexOK, Undone, Owed, PhaseOK, Started
  <2> QED
    BY <1>1, <2>2, <2>7, SameHost, HostContinue
<1> QED
  BY <1>3, <1>4 DEF UnpinRemaining

LEMMA ClearEnforceHost ==
  ASSUME IInv, HInv, NEW p \in Procs, ClearEnforce(p)
  PROVE  HInv'
<1>1. /\ run[p].pc = "enforce" /\ run[p].pc # "idle" /\ run[p].pc \in Started /\ tx' = tx
      /\ host' = host \/ host' = host \ {"enforce"}
  BY DEF ClearEnforce, At, Started, disk
<1>2. run[p] \in Memory /\ HostOK(run[p], host) /\ run[p].tx \in TxRecord /\ MemoryOK(run[p])
  BY <1>1, OwnHost, OwnCopy
<1>3. ContainerIsConfined'
  BY <1>1 DEF HInv, ContainerIsConfined
<1>4. RecordOK(tx', host')
  <2>1. RecordOK(tx, host) /\ host' \subseteq host
    BY <1>1 DEF HInv
  <2> QED
    BY <1>1, <2>1 DEF RecordOK
<1>5. CASE Continue(p, [run[p] EXCEPT !.pc = "error", !.rc = "nonzero"])
  <2>1. PICK r : r = [run[p] EXCEPT !.pc = "error", !.rc = "nonzero"] /\ Continue(p, r)
    BY <1>5
  <2>2. /\ r \in Memory /\ r.pc = "error" /\ r.cmd = run[p].cmd /\ r.todo = run[p].todo
        /\ r.tx = run[p].tx
    BY <1>2, <2>1 DEF Memory, Labels
  <2>3. HostOK(r, host')
    BY <1>1, <2>2, FailHost
  <2> QED
    BY <1>1, <1>3, <1>4, <2>1, <2>3, HostContinue
<1>6. CASE Goto(p, "end_snapshot")
  <2>1. PICK r : r = [run[p] EXCEPT !.pc = "end_snapshot"] /\ Continue(p, r)
    BY <1>6 DEF Goto
  <2>2. r.pc = "end_snapshot" /\ r.cmd = run[p].cmd /\ r.todo = run[p].todo /\ r.tx = run[p].tx
    BY <1>2, <2>1 DEF Memory
  <2>3. Covered(r) = Covered(run[p])
    BY <2>2 DEF Covered
  <2>4. HostOK(r, host)
    BY <1>1, <1>2, <2>2, <2>3 DEF HostOK, IndexOK, Undone, Owed, PhaseOK, Started
  <2>5. HostOK(r, host')
    BY <1>1, <2>2, <2>4 DEF HostOK, IndexOK, Undone, Owed, PhaseOK, Started
  <2> QED
    BY <1>1, <1>3, <1>4, <2>1, <2>5, HostContinue
<1> QED
  BY <1>5, <1>6 DEF ClearEnforce

LEMMA EndingHost ==
  ASSUME IInv, HInv, NEW p \in Procs, EndSnapshot(p) \/ EndHealth(p)
  PROVE  HInv'
<1>1. /\ run[p].pc \in {"end_snapshot", "end_health"} /\ run[p].pc # "idle"
      /\ run[p].pc \in Started /\ host' = host /\ tx' = tx
  BY DEF EndSnapshot, EndHealth, At, Started
<1>2. run[p] \in Memory /\ HostOK(run[p], host) /\ MemoryOK(run[p])
  BY <1>1, OwnHost, OwnCopy
<1>3. PICK l \in {"end_health", "end_save"} : Goto(p, l)
  BY DEF EndSnapshot, EndHealth
<1>4. PICK r : r = [run[p] EXCEPT !.pc = l] /\ Continue(p, r)
  BY <1>3 DEF Goto
<1>5. r.pc = l /\ r.cmd = run[p].cmd /\ r.todo = run[p].todo /\ r.tx = run[p].tx
  BY <1>2, <1>4 DEF Memory
<1>6. Covered(r) = Covered(run[p])
  BY <1>5 DEF Covered
<1>7. HostOK(r, host')
  BY <1>1, <1>2, <1>5, <1>6 DEF HostOK, IndexOK, Undone, Owed, PhaseOK, Started
<1> QED
  BY <1>1, <1>4, <1>7, SameHost, HostContinue

\* The last save: what the removal answers for is gone.
LEMMA EndSaveHost ==
  ASSUME IInv, HInv, NEW p \in Procs, EndSave(p)
  PROVE  HInv'
<1>1. run[p].pc = "end_save" /\ run[p].pc # "idle" /\ run[p].pc \in Started /\ host' = host /\ Leave(p)
  BY DEF EndSave, At, Started
<1>2. /\ run[p] \in Memory /\ HostOK(run[p], host) /\ run[p].tx \in TxRecord
      /\ run[p].cmd \in LiveCommands /\ host \subseteq Items
  BY <1>1, OwnHost, TypeParts DEF DiskType
<1>3. CASE run[p].cmd = "apply"
  <2>1. tx'.state = run[p].tx.state
    BY <1>2, <1>3 DEF EndSave, TxRecord
  <2>2. RecordOK(tx', host')
    BY <1>1, <2>1, OwnHost, NoClaim
  <2> QED
    BY <1>1, <2>2, SameHost, HostLeave DEF Leave
<1>4. CASE run[p].cmd = "rollback"
  <2>1. tx'.state = "ROLLED_BACK"
    BY <1>2, <1>4 DEF EndSave, TxRecord
  <2>2. run[p].todo = {} /\ "pins" \notin host
    BY <1>1, <1>2, <1>4 DEF HostOK, IndexOK, Owed
  <2>3. Covered(run[p]) = {install_optics_cli, install_agent_sdks}
    BY <1>4 DEF Covered
  <2>4. ItemsOf(install_optics_cli) \cap host = {} /\ ItemsOf(install_agent_sdks) \cap host = {}
    BY <1>1, <1>2, <2>2, <2>3 DEF HostOK, Owed
  <2>5. ItemsOf(install_optics_cli) = {"optics"} /\ ItemsOf(install_agent_sdks) = {"sdk_npm", "sdk_py"}
    BY ItemsTable DEF install_optics_cli, install_agent_sdks
  <2>6. host \cap (OpticsItems \cup {"pins"}) = {}
    BY <2>2, <2>4, <2>5 DEF OpticsItems
  <2>7. RecordOK(tx', host')
    BY <1>1, <2>1, <2>6 DEF RecordOK, Unapplied
  <2> QED
    BY <1>1, <2>7, SameHost, HostLeave DEF Leave
<1>5. CASE run[p].cmd = "uninstall"
  <2>1. tx'.state = "UNINSTALLED" /\ tx'.scope = run[p].tx.scope
    BY <1>2, <1>5 DEF EndSave, TxRecord
  <2>2. ASSUME run[p].tx.scope = "all"
        PROVE  host \subseteq {"image", "enforce"}
    <3>1. run[p].todo = {}
      BY <1>1, <1>2, <1>5 DEF HostOK, IndexOK
    <3>2. Covered(run[p]) = HOST_MUTATION_STEPS
      BY <1>5, <2>2 DEF Covered
    <3>3. \A s \in HOST_MUTATION_STEPS : ItemsOf(s) \cap host = {}
      BY <1>1, <1>2, <3>1, <3>2 DEF HostOK, Owed
    <3>4. /\ ItemsOf(3) \cap host = {} /\ ItemsOf(4) \cap host = {} /\ ItemsOf(5) \cap host = {}
          /\ ItemsOf(6) \cap host = {} /\ ItemsOf(7) \cap host = {} /\ ItemsOf(8) \cap host = {}
          /\ ItemsOf(9) \cap host = {}
      BY <3>3 DEF HOST_MUTATION_STEPS, install_optics_cli, install_agent_sdks, stage_pe_archive,
                  docker_load, write_observe_config, install_boot_hold, start_pe_observe
    <3> QED
      BY <1>2, <3>4, ItemsTable DEF Items, OpticsItems, EngineItems
  <2>3. RecordOK(tx', host')
    BY <1>1, <2>1, <2>2 DEF RecordOK, Unapplied
  <2> QED
    BY <1>1, <2>3, SameHost, HostLeave DEF Leave
<1> QED
  BY <1>2, <1>3, <1>4, <1>5 DEF LiveCommands

LEMMA ErrorSaveHost ==
  ASSUME IInv, HInv, NEW p \in Procs, ErrorSave(p)
  PROVE  HInv'
<1>1. run[p].pc = "error" /\ run[p].pc # "idle" /\ run[p].pc \in Started /\ host' = host /\ Leave(p)
  BY DEF ErrorSave, At, Started
<1>2. run[p].tx \in TxRecord
  BY <1>1, OwnHost
<1>3. tx'.state \in {"INTERRUPTED", "FAILED_SAFE", run[p].tx.state}
  BY <1>2 DEF ErrorSave, TxRecord
<1>4. RecordOK(tx', host')
  BY <1>1, <1>3, OwnHost, NoClaim
<1> QED
  BY <1>1, <1>4, SameHost, HostLeave DEF Leave

----------------------------------------------------------------------------
(* The theorems. *)

LEMMA InitHost == Init => HInv
<1> SUFFICES ASSUME Init
             PROVE  HInv
  OBVIOUS
<1>1. \A p \in Procs : HostOK(run[p], host)
  <2> SUFFICES ASSUME NEW p \in Procs
               PROVE  HostOK(run[p], host)
    OBVIOUS
  <2>1. run[p].pc = "idle"
    BY DEF Init, Idle
  <2> QED
    BY <2>1, IdleHost
<1>2. ContainerIsConfined
  BY DEF Init, ContainerIsConfined
<1>3. RecordOK(tx, host)
  BY DEF Init, NoTx, RecordOK, Products, OpticsItems, EngineItems
<1> QED
  BY <1>1, <1>2, <1>3 DEF HInv

LEMMA NextHost ==
  ASSUME IInv, HInv, [Next]_vars
  PROVE  HInv'
<1>1. CASE UNCHANGED vars
  BY <1>1 DEF vars, HInv, ContainerIsConfined
<1>2. ASSUME NEW p \in Procs, NEW c \in Commands, Acquire(p, c)
      PROVE  HInv'
  BY <1>2, AcquireHost
<1>3. ASSUME NEW p \in Procs, Step(p)
      PROVE  HInv'
  BY <1>3, QuitHost, GiveUpHost, PlanOpenHost, PlanGateHost, PlanFileHost, ApplyOpenHost,
     ApplyRecheckHost, ApplyStepHost, RollbackOpenHost, UninstallOpenHost, StepBeginHost,
     OpExecHost, OpCheckHost, ErrorSaveHost, ClearPartialHost, SaveSnapshotHost, SaveTxHost,
     StepsDoneHost, UnpinRemainingHost, ClearEnforceHost, EndingHost, EndSaveHost, StatusHost,
     EnrollHost
  DEF Step
<1>4. ASSUME NEW p \in Procs, Unwind(p) \/ Kill(p)
      PROVE  HInv'
  BY <1>4, UnwindHost, KillHost
<1> QED
  BY <1>1, <1>2, <1>3, <1>4 DEF Next

\* What the commands know of the host, for every set of processes, commands and
\* faults and every bound on the faults.
THEOREM HostInvariance == Spec => []HInv
<1>1. Init => HInv
  BY InitHost
<1>2. IInv /\ HInv /\ [Next]_vars => HInv'
  BY NextHost
<1> QED
  BY <1>1, <1>2, Invariance, PTL DEF Spec

\* The observe container is never on the host without its image tag and its AppArmor
\* profile, whichever operation of apply, rollback or uninstall fails, is torn, or is
\* repeated.
THEOREM ContainerAlwaysConfined == Spec => []ContainerIsConfined
<1>1. HInv => ContainerIsConfined
  BY DEF HInv
<1> QED
  BY <1>1, HostInvariance, PTL

\* A record that says ROLLED_BACK is right about what rollback probes for, also when
\* no checkpoint named it and other commands were interrupted before.
THEOREM RolledBackIsTrue == Spec => []RolledBackIsProbed
<1>1. HInv => RolledBackIsProbed
  BY DEF HInv, RecordOK, RolledBackIsProbed
<1> QED
  BY <1>1, HostInvariance, PTL

\* A record that says UNINSTALLED in scope all is right: of the product, at most the
\* untagged image is left.
THEOREM UninstalledIsTrue == Spec => []UninstalledIsGone
<1>1. HInv => UninstalledIsGone
  BY DEF HInv, RecordOK, UninstalledIsGone
<1> QED
  BY <1>1, HostInvariance, PTL

\* A host that carries a product item never has a record that says nothing was
\* applied, whatever step a process died in.
THEOREM HostWrittenAhead == Spec => []WriteAhead
<1>1. HInv => WriteAhead
  BY DEF HInv, RecordOK, WriteAhead, Unapplied, Products
<1> QED
  BY <1>1, HostInvariance, PTL

-----------------------------------------------------------------------------
(* What an installation that nothing reversed has on the host.              *)

\* No uninstall is stopped in the middle: an uninstall that was stopped is taken for
\* an interrupted apply by the next apply (see the README).
Undisturbed == "uninstall" \in Commands => FaultKinds \cap {"timeout", "unwind"} = {}

\* What a completed step has put on the host.
Puts(s) ==
  CASE s = install_optics_cli   -> {"optics"}
    [] s = install_agent_sdks   -> {"sdk_npm", "sdk_py"}
    [] s = stage_pe_archive     -> {"archive"}
    [] s = docker_load          -> {"image", "tag"}
    [] s = write_observe_config -> {"config", "o7"}
    [] s = install_boot_hold    -> {"hold"}
    [] s = start_pe_observe     -> {"clsact", "profile_text", "profile", "container", "pins"}
    [] OTHER                    -> {}

\* What the operations before the k-th of a step of apply have put there.
Built(s, k) ==
  CASE s = install_agent_sdks   -> IF k > 1 THEN {"sdk_npm"} ELSE {}
    [] s = docker_load          -> IF k > 1 THEN {"image"} ELSE {}
    [] s = write_observe_config -> IF k > 2 THEN {"config"} ELSE {}
    [] s = start_pe_observe     ->
         (IF k > 1 THEN {"clsact"} ELSE {}) \cup (IF k > 2 THEN {"profile_text"} ELSE {})
           \cup (IF k > 3 THEN {"profile"} ELSE {})
    [] OTHER                    -> {}

\* A record behind which no apply can be opened any more.
Reversed(t) ==
  \/ t.state \in {"FAILED_SAFE", "ROLLING_BACK", "ROLLED_BACK", "UNINSTALLING", "UNINSTALLED",
                  "VERIFIED_REMOVED"} \cup RESIDUAL_STATES
  \/ t.state = "INTERRUPTED" /\ t.phase = "rollback"

\* No step is taken back, and the completed steps stand on the host.
Standing(t, h) == t.rbDone = {} /\ \A s \in t.done : Puts(s) \subseteq h

Good == {"HEALTHY", "DEGRADED"}

ClaimOK(t, h) ==
  /\ ~Reversed(t) => Standing(t, h)
  /\ t.state \in Good => collect_health \in t.done
  /\ t.state = "ROLLING_BACK" => t.phase = "rollback"

\* What an apply knows of its copy, its current step and the health it derived.
BuildOK(r, h) ==
  /\ Standing(r.tx, h)
  /\ r.pc \in {"op", "check"} => Built(r.cur, r.k) \subseteq h
  /\ r.pc \in {"clear", "snapshot"} => Puts(r.cur) \subseteq h
  /\ r.tx.state \in Good =>
       collect_health \in r.tx.done \/ (r.pc \in {"clear", "snapshot"} /\ r.cur = collect_health)

CourseOK(r, t, h) ==
  /\ r.pc # "idle" => r.cmd \in Commands
  /\ r.pc # "idle" /\ t.state = "UNINSTALLING" => r.pc \in Started /\ r.cmd = "uninstall"
  /\ r.pc = "gate" => Standing(r.tx, h)
  /\ r.pc \in Started /\ r.cmd = "apply" => BuildOK(r, h)
  /\ r.pc \in Started /\ r.cmd = "rollback" => r.tx.phase = "rollback"
  /\ r.pc # "idle" /\ r.cmd = "uninstall" => r.rc # "timeout"

SInv ==
  /\ ClaimOK(tx, host)
  /\ lock = NoProc => tx.state # "UNINSTALLING"
  /\ \A p \in Procs : CourseOK(run[p], tx, host)

----------------------------------------------------------------------------
(* What the tables say about an apply. *)

\* The k-th operation of each step of apply.
LEMMA ApplyOps ==
  ASSUME NEW r \in Memory, r.cmd = "apply", r.cur \in APPLY_STEPS, r.k \in 1..Len(Ops(r))
  PROVE  \/ r.cur = 2 /\ r.k = 1 /\ Len(Ops(r)) = 1 /\ Op(r) = "ensure_npm"
         \/ r.cur = 3 /\ r.k = 1 /\ Len(Ops(r)) = 2 /\ Op(r) = "mkdir_prefix"
         \/ r.cur = 3 /\ r.k = 2 /\ Len(Ops(r)) = 2 /\ Op(r) = "install_optics_cli"
         \/ r.cur = 4 /\ r.k = 1 /\ Len(Ops(r)) = 2 /\ Op(r) = "install_agent_sdk_npm"
         \/ r.cur = 4 /\ r.k = 2 /\ Len(Ops(r)) = 2 /\ Op(r) = "install_agent_sdk_py"
         \/ r.cur = 5 /\ r.k = 1 /\ Len(Ops(r)) = 2 /\ Op(r) = "mkdir_stage"
         \/ r.cur = 5 /\ r.k = 2 /\ Len(Ops(r)) = 2 /\ Op(r) = "stage_pe_archive"
         \/ r.cur = 6 /\ r.k = 1 /\ Len(Ops(r)) = 2 /\ Op(r) = "docker_load"
         \/ r.cur = 6 /\ r.k = 2 /\ Len(Ops(r)) = 2 /\ Op(r) = "docker_tag"
         \/ r.cur = 7 /\ r.k = 1 /\ Len(Ops(r)) = 3 /\ Op(r) = "mkdir_evidence"
         \/ r.cur = 7 /\ r.k = 2 /\ Len(Ops(r)) = 3 /\ Op(r) = "write_observe_config"
         \/ r.cur = 7 /\ r.k = 3 /\ Len(Ops(r)) = 3 /\ Op(r) = "o7_init"
         \/ r.cur = 8 /\ r.k = 1 /\ Len(Ops(r)) = 1 /\ Op(r) = "install_boot_hold"
         \/ r.cur = 9 /\ r.k = 1 /\ Len(Ops(r)) = 4 /\ Op(r) = "tc_clsact"
         \/ r.cur = 9 /\ r.k = 2 /\ Len(Ops(r)) = 4 /\ Op(r) = "write_pe_apparmor"
         \/ r.cur = 9 /\ r.k = 3 /\ Len(Ops(r)) = 4 /\ Op(r) = "load_pe_apparmor"
         \/ r.cur = 9 /\ r.k = 4 /\ Len(Ops(r)) = 4 /\ Op(r) = "start_pe_observe"
<1> USE DEF verify_artifacts, ensure_node, install_optics_cli, install_agent_sdks, stage_pe_archive,
            docker_load, write_observe_config, install_boot_hold, start_pe_observe
<1>1. r.cur \in {1, 2, 3, 4, 5, 6, 7, 8, 9, 10, 11, 12} /\ r.cur # 0
  BY DEF APPLY_STEPS
<1>2. Ops(r) = STEP_OPERATIONS(r.cur)
  BY <1>1 DEF Ops
<1>3. CASE r.cur = 2
  <2>1. Ops(r) = <<"ensure_npm">>
    BY <1>2, <1>3 DEF STEP_OPERATIONS
  <2>2. r.k = 1
    BY <2>1 DEF Memory
  <2> QED
    BY <1>3, <2>1, <2>2 DEF Op
<1>4. CASE r.cur = 3
  <2>1. Ops(r) = <<"mkdir_prefix", "install_optics_cli">>
    BY <1>2, <1>4 DEF STEP_OPERATIONS
  <2>2. r.k = 1 \/ r.k = 2
    BY <2>1 DEF Memory
  <2> QED
    BY <1>4, <2>1, <2>2 DEF Op
<1>5. CASE r.cur = 4
  <2>1. Ops(r) = <<"install_agent_sdk_npm", "install_agent_sdk_py">>
    BY <1>2, <1>5 DEF STEP_OPERATIONS
  <2>2. r.k = 1 \/ r.k = 2
    BY <2>1 DEF Memory
  <2> QED
    BY <1>5, <2>1, <2>2 DEF Op
<1>6. CASE r.cur = 5
  <2>1. Ops(r) = <<"mkdir_stage", "stage_pe_archive">>
    BY <1>2, <1>6 DEF STEP_OPERATIONS
  <2>2. r.k = 1 \/ r.k = 2
    BY <2>1 DEF Memory
  <2> QED
    BY <1>6, <2>1, <2>2 DEF Op
<1>7. CASE r.cur = 6
  <2>1. Ops(r) = <<"docker_load", "docker_tag">>
    BY <1>2, <1>7 DEF STEP_OPERATIONS
  <2>2. r.k = 1 \/ r.k = 2
    BY <2>1 DEF Memory
  <2> QED
    BY <1>7, <2>1, <2>2 DEF Op
<1>8. CASE r.cur = 7
  <2>1. Ops(r) = <<"mkdir_evidence", "write_observe_config", "o7_init">>
    BY <1>2, <1>8 DEF STEP_OPERATIONS
  <2>2. r.k = 1 \/ r.k = 2 \/ r.k = 3
    BY <2>1 DEF Memory
  <2> QED
    BY <1>8, <2>1, <2>2 DEF Op
<1>9. CASE r.cur = 8
  <2>1. Ops(r) = <<"install_boot_hold">>
    BY <1>2, <1>9 DEF STEP_OPERATIONS
  <2>2. r.k = 1
    BY <2>1 DEF Memory
  <2> QED
    BY <1>9, <2>1, <2>2 DEF Op
<1>10. CASE r.cur = 9
  <2>1. Ops(r) = <<"tc_clsact", "write_pe_apparmor", "load_pe_apparmor", "start_pe_observe">>
    BY <1>2, <1>10 DEF STEP_OPERATIONS
  <2>2. r.k = 1 \/ r.k = 2 \/ r.k = 3 \/ r.k = 4
    BY <2>1 DEF Memory
  <2> QED
    BY <1>10, <2>1, <2>2 DEF Op
<1>11. CASE r.cur \in {1, 10, 11, 12}
  <2>1. Ops(r) = <<>>
    BY <1>2, <1>11 DEF STEP_OPERATIONS
  <2> QED
    BY <2>1
<1> QED
  BY <1>1, <1>3, <1>4, <1>5, <1>6, <1>7, <1>8, <1>9, <1>10, <1>11

\* What an operation of apply adds to what the ones before it put on the host.
LEMMA BuildEffect ==
  ASSUME NEW r \in Memory, r.cmd = "apply", r.cur \in APPLY_STEPS, r.k \in 1..Len(Ops(r)),
         NEW j \in Nat, j = r.k + 1
  PROVE  /\ Op(r) # "unload_pe_apparmor"
         /\ r.k < Len(Ops(r)) => Built(r.cur, j) \subseteq Built(r.cur, r.k) \cup Adds(Op(r))
         /\ ~(r.k < Len(Ops(r))) => Puts(r.cur) \subseteq Built(r.cur, r.k) \cup Adds(Op(r))
         /\ "container" \in Adds(Op(r)) => r.cur = start_pe_observe /\ r.k > 3
         /\ r.cur = start_pe_observe /\ r.k > 2 =>
              r.k > 3 \/ start_pe_observe \in PARTIAL_ON_EXIT(Op(r))
         /\ r.cur = start_pe_observe /\ ~(r.k < Len(Ops(r))) => r.k > 3
<1> USE DEF install_optics_cli, install_agent_sdks, stage_pe_archive,
            docker_load, write_observe_config, install_boot_hold, start_pe_observe,
            Adds, Puts, Built, PARTIAL_ON_EXIT
<1>1. CASE r.cur = 2 /\ r.k = 1 /\ Len(Ops(r)) = 1 /\ Op(r) = "ensure_npm"
  BY <1>1
<1>2. CASE r.cur = 3 /\ r.k = 1 /\ Len(Ops(r)) = 2 /\ Op(r) = "mkdir_prefix"
  BY <1>2
<1>3. CASE r.cur = 3 /\ r.k = 2 /\ Len(Ops(r)) = 2 /\ Op(r) = "install_optics_cli"
  BY <1>3
<1>4. CASE r.cur = 4 /\ r.k = 1 /\ Len(Ops(r)) = 2 /\ Op(r) = "install_agent_sdk_npm"
  BY <1>4
<1>5. CASE r.cur = 4 /\ r.k = 2 /\ Len(Ops(r)) = 2 /\ Op(r) = "install_agent_sdk_py"
  BY <1>5
<1>6. CASE r.cur = 5 /\ r.k = 1 /\ Len(Ops(r)) = 2 /\ Op(r) = "mkdir_stage"
  BY <1>6
<1>7. CASE r.cur = 5 /\ r.k = 2 /\ Len(Ops(r)) = 2 /\ Op(r) = "stage_pe_archive"
  BY <1>7
<1>8. CASE r.cur = 6 /\ r.k = 1 /\ Len(Ops(r)) = 2 /\ Op(r) = "docker_load"
  BY <1>8
<1>9. CASE r.cur = 6 /\ r.k = 2 /\ Len(Ops(r)) = 2 /\ Op(r) = "docker_tag"
  BY <1>9
<1>10. CASE r.cur = 7 /\ r.k = 1 /\ Len(Ops(r)) = 3 /\ Op(r) = "mkdir_evidence"
  BY <1>10
<1>11. CASE r.cur = 7 /\ r.k = 2 /\ Len(Ops(r)) = 3 /\ Op(r) = "write_observe_config"
  BY <1>11
<1>12. CASE r.cur = 7 /\ r.k = 3 /\ Len(Ops(r)) = 3 /\ Op(r) = "o7_init"
  BY <1>12
<1>13. CASE r.cur = 8 /\ r.k = 1 /\ Len(Ops(r)) = 1 /\ Op(r) = "install_boot_hold"
  BY <1>13
<1>14. CASE r.cur = 9 /\ r.k = 1 /\ Len(Ops(r)) = 4 /\ Op(r) = "tc_clsact"
  BY <1>14
<1>15. CASE r.cur = 9 /\ r.k = 2 /\ Len(Ops(r)) = 4 /\ Op(r) = "write_pe_apparmor"
  BY <1>15
<1>16. CASE r.cur = 9 /\ r.k = 3 /\ Len(Ops(r)) = 4 /\ Op(r) = "load_pe_apparmor"
  BY <1>16
<1>17. CASE r.cur = 9 /\ r.k = 4 /\ Len(Ops(r)) = 4 /\ Op(r) = "start_pe_observe"
  BY <1>17
<1> HIDE DEF Adds, Puts, Built, PARTIAL_ON_EXIT
<1> QED
  BY <1>1, <1>2, <1>3, <1>4, <1>5, <1>6, <1>7, <1>8, <1>9, <1>10, <1>11, <1>12, <1>13, <1>14, <1>15, <1>16, <1>17,
     ApplyOps

\* What the steps put on the host is all of the product.
LEMMA PutsTable ==
  /\ Puts(3) = {"optics"} /\ Puts(4) = {"sdk_npm", "sdk_py"} /\ Puts(5) = {"archive"}
  /\ Puts(6) = {"image", "tag"} /\ Puts(7) = {"config", "o7"} /\ Puts(8) = {"hold"}
  /\ Puts(9) = {"clsact", "profile_text", "profile", "container", "pins"}
BY DEF Puts, install_optics_cli, install_agent_sdks, stage_pe_archive,
       docker_load, write_observe_config, install_boot_hold, start_pe_observe

LEMMA PutsType ==
  ASSUME NEW s
  PROVE  /\ Puts(s) \subseteq Products
         /\ s \notin HOST_MUTATION_STEPS => Puts(s) = {}
         /\ Built(s, 1) = {}
BY DEF Puts, Built, Products, OpticsItems, EngineItems, HOST_MUTATION_STEPS

\* A step that stands goes on standing while no product item is taken off.
LEMMA StandingKept ==
  ASSUME NEW t, NEW h, NEW g, Standing(t, h), h \cap Products \subseteq g
  PROVE  Standing(t, g)
<1> SUFFICES ASSUME NEW s \in t.done
             PROVE  Puts(s) \subseteq g
  BY DEF Standing
<1>1. Puts(s) \subseteq h /\ Puts(s) \subseteq Products
  BY PutsType DEF Standing
<1> QED
  BY <1>1

----------------------------------------------------------------------------
(* A step concerns one process: the others are idle. *)

LEMMA CourseFrame ==
  ASSUME IInv, SInv, NEW p \in Procs, run[p].pc # "idle" \/ lock = NoProc,
         \A q \in Procs \ {p} : run'[q] = run[q],
         ClaimOK(tx', host'), lock' = NoProc => tx'.state # "UNINSTALLING",
         CourseOK(run'[p], tx', host')
  PROVE  SInv'
<1>1. \A q \in Procs \ {p} : run[q].pc = "idle"
  BY ConstantsAssumption DEF IInv, LockHeld
<1>2. \A q \in Procs \ {p} : CourseOK(run'[q], tx', host')
  BY <1>1 DEF CourseOK, Started
<1> QED
  BY <1>2 DEF SInv

LEMMA CourseLeave ==
  ASSUME IInv, SInv, NEW p \in Procs, run[p].pc # "idle", run' = [run EXCEPT ![p] = Idle],
         ClaimOK(tx', host'), lock' = NoProc => tx'.state # "UNINSTALLING"
  PROVE  SInv'
<1>1. run'[p] = Idle /\ \A q \in Procs \ {p} : run'[q] = run[q]
  BY TypeParts
<1>2. CourseOK(run'[p], tx', host')
  BY <1>1 DEF Idle, CourseOK, Started
<1> QED
  BY <1>1, <1>2, CourseFrame

LEMMA CourseContinue ==
  ASSUME IInv, SInv, NEW p \in Procs, run[p].pc # "idle", NEW r, Continue(p, r),
         ClaimOK(tx', host'), CourseOK(r, tx', host')
  PROVE  SInv'
<1>1. run'[p] = r /\ \A q \in Procs \ {p} : run'[q] = run[q]
  BY TypeParts DEF Continue
<1>2. lock' # NoProc
  BY ConstantsAssumption DEF Continue, IInv, LockHeld
<1> QED
  BY <1>1, <1>2, CourseFrame

\* What a process that runs knows of the record on disk.
LEMMA OwnCourse ==
  ASSUME IInv, SInv, NEW p \in Procs, run[p].pc # "idle"
  PROVE  /\ ClaimOK(tx, host)
         /\ CourseOK(run[p], tx, host)
         /\ tx \in TxRecord
         /\ run[p] \in Memory
         /\ ~(run[p].pc \in Started /\ run[p].cmd = "uninstall") => tx.state # "UNINSTALLING"
BY TypeParts DEF SInv, CourseOK, DiskType

\* A removal works under a record that is reversed.
LEMMA RemovalClaim ==
  ASSUME IInv, SInv, NEW p \in Procs, run[p].pc \in Started, run[p].cmd # "apply", NEW h
  PROVE  /\ run[p].cmd = "rollback" => tx.state = "ROLLING_BACK"
         /\ run[p].cmd = "uninstall" => tx.state = "UNINSTALLING"
         /\ run[p].cmd \in {"rollback", "uninstall"}
         /\ run[p].tx.state = tx.state
         /\ ClaimOK(tx, h)
<1>1. run[p].pc # "idle"
  BY DEF Started
<1>2. run[p].cmd \in {"rollback", "uninstall"} /\ MemoryOK(run[p])
  BY OwnCopy DEF LiveCommands
<1>3. tx.state \in RUNTIME_STATES(run[p].cmd) /\ run[p].tx.state = tx.state
  BY <1>2 DEF MemoryOK, StateOK
<1>4. /\ run[p].cmd = "rollback" => tx.state = "ROLLING_BACK"
      /\ run[p].cmd = "uninstall" => tx.state = "UNINSTALLING"
  BY <1>3 DEF RUNTIME_STATES
<1>5. Reversed(tx) /\ tx.state \notin Good
  BY <1>2, <1>4 DEF Reversed, Good
<1>6. ClaimOK(tx, host)
  BY <1>1, OwnCourse
<1> QED
  BY <1>2, <1>3, <1>4, <1>5, <1>6 DEF ClaimOK

\* A removal that goes on, whatever it does to the host.
LEMMA RemovalCourse ==
  ASSUME IInv, SInv, NEW p \in Procs, run[p].pc \in Started, run[p].cmd # "apply",
         tx' = tx, NEW r, Continue(p, r), r.pc \in Started, r.cmd = run[p].cmd,
         r.tx.phase = run[p].tx.phase, r.cmd = "uninstall" => r.rc # "timeout"
  PROVE  SInv'
<1>1. run[p].pc # "idle"
  BY DEF Started
<1>2. CourseOK(run[p], tx, host)
  BY <1>1, OwnCourse
<1>3. /\ ClaimOK(tx, host')
      /\ tx.state = "UNINSTALLING" => run[p].cmd = "uninstall"
      /\ run[p].cmd \in {"rollback", "uninstall"}
  BY RemovalClaim
<1>4. CourseOK(r, tx', host')
  BY <1>1, <1>2, <1>3 DEF CourseOK, Started
<1> QED
  BY <1>1, <1>3, <1>4, CourseContinue

\* An apply works under a record that is not UNINSTALLING, and so its claim is kept
\* while nothing is taken off the host.
LEMMA ApplyClaim ==
  ASSUME IInv, SInv, NEW p \in Procs, run[p].pc \in Started, run[p].cmd = "apply"
  PROVE  /\ run[p].pc # "idle"
         /\ tx.state # "UNINSTALLING"
         /\ BuildOK(run[p], host)
         /\ \A h : host \cap Products \subseteq h => ClaimOK(tx, h)
<1>1. run[p].pc # "idle"
  BY DEF Started
<1>2. CourseOK(run[p], tx, host) /\ ClaimOK(tx, host) /\ tx.state # "UNINSTALLING"
  BY <1>1, OwnCourse
<1>3. ASSUME NEW h, host \cap Products \subseteq h
      PROVE  ClaimOK(tx, h)
  BY <1>2, <1>3, StandingKept DEF ClaimOK
<1> QED
  BY <1>1, <1>2, <1>3 DEF CourseOK

LEMMA ApplyCourse ==
  ASSUME IInv, SInv, NEW p \in Procs, run[p].pc \in Started, run[p].cmd = "apply",
         tx' = tx, host \cap Products \subseteq host', NEW r, Continue(p, r), r.pc \in Started,
         r.cmd = "apply", BuildOK(r, host')
  PROVE  SInv'
<1>1. run[p].pc # "idle" /\ tx.state # "UNINSTALLING" /\ ClaimOK(tx, host')
  BY ApplyClaim
<1>2. run[p].cmd \in Commands
  BY <1>1, OwnCourse DEF CourseOK
<1>3. CourseOK(r, tx', host')
  BY <1>1, <1>2 DEF CourseOK, Started
<1> QED
  BY <1>1, <1>3, CourseContinue

----------------------------------------------------------------------------
(* The actions, one by one. *)

LEMMA AcquireCourse ==
  ASSUME IInv, SInv, NEW p \in Procs, NEW c \in Commands, Acquire(p, c)
  PROVE  SInv'
<1>1. run'[p] = [Idle EXCEPT !.pc = "open", !.cmd = c] /\ \A q \in Procs \ {p} : run'[q] = run[q]
  BY TypeParts DEF Acquire
<1>2. run'[p].pc = "open" /\ run'[p].cmd = c /\ run'[p].rc = "zero"
  BY <1>1 DEF Idle
<1>3. tx' = tx /\ host' = host /\ lock = NoProc /\ lock' # NoProc
  BY ConstantsAssumption DEF Acquire, disk
<1>4. ClaimOK(tx, host) /\ tx.state # "UNINSTALLING"
  BY <1>3 DEF SInv
<1>5. CourseOK(run'[p], tx', host')
  BY <1>2, <1>3, <1>4 DEF CourseOK, Started
<1> QED
  BY <1>1, <1>3, <1>4, <1>5, CourseFrame

LEMMA QuitCourse ==
  ASSUME IInv, SInv, NEW p \in Procs, Refuse(p) \/ PlanReplay(p)
  PROVE  SInv'
<1>1. run[p].pc = "open" /\ tx' = tx /\ host' = host /\ Leave(p)
  BY DEF Refuse, PlanReplay, At, disk
<1>2. ClaimOK(tx, host) /\ tx.state # "UNINSTALLING"
  BY <1>1, OwnCourse DEF Started
<1> QED
  BY <1>1, <1>2, CourseLeave DEF Leave

LEMMA GiveUpCourse ==
  ASSUME IInv, SInv, NEW p \in Procs, ApplyFailSafe(p) \/ VerifyRemoval(p)
  PROVE  SInv'
<1>1. run[p].pc # "idle" /\ host' = host /\ Leave(p)
  BY DEF ApplyFailSafe, VerifyRemoval, At
<1>2. tx'.state \in {"VERIFIED_REMOVED", "RESIDUAL_FOUND", "FAILED_SAFE"}
  BY TypeParts DEF ApplyFailSafe, VerifyRemoval, DiskType, TxRecord
<1>3. ClaimOK(tx', host')
  BY <1>2 DEF ClaimOK, Reversed, Good, RESIDUAL_STATES
<1> QED
  BY <1>1, <1>2, <1>3, CourseLeave DEF Leave

\* A record that status moves to INTERRUPTED was no removal, or it is a rollback.
LEMMA StatusCourse ==
  ASSUME IInv, SInv, NEW p \in Procs, Status(p)
  PROVE  SInv'
<1>1. run[p].pc = "open" /\ host' = host /\ Leave(p)
  BY DEF Status, At
<1>2. ClaimOK(tx, host) /\ tx.state # "UNINSTALLING" /\ tx \in TxRecord
  BY <1>1, OwnCourse DEF Started
<1>3. CASE tx' = tx
  BY <1>1, <1>2, <1>3, CourseLeave DEF Leave
<1>4. CASE /\ tx' = [tx EXCEPT !.state = "INTERRUPTED", !.mip = FALSE]
           /\ tx.state \in TRANSIENT \cup {"APPLIED"}
  <2>1. /\ tx'.state = "INTERRUPTED" /\ tx'.phase = tx.phase /\ tx'.rbDone = tx.rbDone
        /\ tx'.done = tx.done
    BY <1>2, <1>4 DEF TxRecord
  <2>2. Reversed(tx) => Reversed(tx')
    BY <1>2, <1>4, <2>1 DEF Reversed, ClaimOK, TRANSIENT, RESIDUAL_STATES
  <2>3. ClaimOK(tx', host')
    BY <1>1, <1>2, <2>1, <2>2 DEF ClaimOK, Good, Standing
  <2> QED
    BY <1>1, <2>1, <2>3, CourseLeave DEF Leave
<1> QED
  BY <1>3, <1>4 DEF Status

LEMMA EnrollCourse ==
  ASSUME IInv, SInv, NEW p \in Procs, Enroll(p)
  PROVE  SInv'
<1>1. /\ run[p].pc = "open" /\ tx' = tx /\ Leave(p)
      /\ host' \in {host \cup {"enforce"}, host \ {"enforce"}}
  BY DEF Enroll, At, disk
<1>2. ClaimOK(tx, host) /\ tx.state # "UNINSTALLING"
  BY <1>1, OwnCourse DEF Started
<1>3. "enforce" \notin Products
  BY DEF Products, OpticsItems, EngineItems
<1>4. host \cap Products \subseteq host'
  BY <1>1, <1>3
<1>5. ClaimOK(tx', host')
  BY <1>1, <1>2, <1>4, StandingKept DEF ClaimOK
<1> QED
  BY <1>1, <1>2, <1>5, CourseLeave DEF Leave

LEMMA PlanOpenCourse ==
  ASSUME IInv, SInv, NEW p \in Procs, PlanOpen(p)
  PROVE  SInv'
<1>1. /\ run[p].pc = "open" /\ run[p].pc # "idle" /\ host' = host /\ run[p] \in Memory
      /\ run[p].cmd = "plan" /\ ClaimOK(tx, host) /\ CourseOK(run[p], tx, host)
  BY OwnCourse DEF PlanOpen, At
<1>2. PICK r : r = [run[p] EXCEPT !.pc = "gate", !.tx = tx'] /\ Continue(p, r)
  BY DEF PlanOpen
<1>3. tx.state \in {"NONE", "CREATED", "PREFLIGHT_BLOCKED", "PLANNED"}
  BY <1>1 DEF PlanOpen, CanStart, START_STATES
<1>4. Standing(tx, host)
  BY <1>1, <1>3 DEF ClaimOK, Reversed, RESIDUAL_STATES
<1>5. Standing(tx', host') /\ tx'.state \in {"CREATED", "PREFLIGHT_BLOCKED", "PLANNED"}
  BY <1>1, <1>3, <1>4 DEF PlanOpen, NoTx, Standing
<1>6. ClaimOK(tx', host')
  BY <1>5 DEF ClaimOK, Good
<1>7. r.pc = "gate" /\ r.tx = tx' /\ r.cmd = run[p].cmd
  BY <1>1, <1>2 DEF Memory
<1>8. CourseOK(r, tx', host')
  BY <1>1, <1>5, <1>7 DEF CourseOK, Started
<1> QED
  BY <1>1, <1>2, <1>6, <1>8, CourseContinue

LEMMA PlanGateCourse ==
  ASSUME IInv, SInv, NEW p \in Procs, PlanGate(p)
  PROVE  SInv'
<1>1. /\ run[p].pc = "gate" /\ run[p].pc # "idle" /\ host' = host /\ run[p] \in Memory
      /\ CourseOK(run[p], tx, host) /\ run[p].cmd = "plan"
  BY OwnCourse, TypeParts DEF PlanGate, At, MemoryOK, LabelOK
<1>2. PICK gate \in {"PLANNED", "PREFLIGHT_BLOCKED", "UNSUPPORTED"}, lim \in BOOLEAN,
           lsm \in {{}, {"lsm"}} :
         /\ tx' = [run[p].tx EXCEPT !.state = gate, !.phase = "plan", !.owner = FALSE,
                                    !.mip = FALSE, !.limited = lim]
         /\ Continue(p, [run[p] EXCEPT !.pc = "files", !.k = 1, !.tx = tx', !.snap = lsm])
  BY DEF PlanGate
<1>3. PICK r : /\ r = [run[p] EXCEPT !.pc = "files", !.k = 1, !.tx = tx', !.snap = lsm]
               /\ Continue(p, r)
  BY <1>2
<1>4. r.pc = "files" /\ r.cmd = "plan"
  BY <1>1, <1>3 DEF Memory
<1>5. tx'.state = gate /\ tx'.rbDone = run[p].tx.rbDone /\ tx'.done = run[p].tx.done
  <2>1. run[p].tx \in TxRecord
    BY <1>1 DEF Memory
  <2> QED
    BY <1>2, <2>1 DEF TxRecord
<1>6. Standing(tx', host')
  BY <1>1, <1>5 DEF CourseOK, Standing
<1>7. ClaimOK(tx', host')
  BY <1>5, <1>6 DEF ClaimOK, Good
<1>8. CourseOK(r, tx', host')
  BY <1>1, <1>4, <1>5 DEF CourseOK, Started
<1> QED
  BY <1>1, <1>3, <1>7, <1>8, CourseContinue

LEMMA PlanFileCourse ==
  ASSUME IInv, SInv, NEW p \in Procs, PlanFile(p)
  PROVE  SInv'
<1>1. /\ run[p].pc = "files" /\ run[p].pc # "idle" /\ host' = host /\ tx' = tx
      /\ run[p] \in Memory /\ CourseOK(run[p], tx, host) /\ ClaimOK(tx, host)
      /\ tx.state # "UNINSTALLING" /\ run[p].cmd = "plan"
  BY OwnCourse, TypeParts DEF PlanFile, At, Started, MemoryOK, LabelOK
<1>2. PICK j : j = run[p].k + 1
  OBVIOUS
<1>3. Leave(p) \/ Continue(p, [run[p] EXCEPT !.k = j])
  BY <1>2 DEF PlanFile
<1>4. CASE Leave(p)
  BY <1>1, <1>4, CourseLeave DEF Leave
<1>5. CASE Continue(p, [run[p] EXCEPT !.k = j])
  <2>1. PICK r : r = [run[p] EXCEPT !.k = j] /\ Continue(p, r)
    BY <1>5
  <2>2. r.pc = "files" /\ r.cmd = "plan"
    BY <1>1, <2>1 DEF Memory
  <2>3. CourseOK(r, tx', host')
    BY <1>1, <2>2 DEF CourseOK, Started
  <2> QED
    BY <1>1, <2>1, <2>3, CourseContinue
<1> QED
  BY <1>3, <1>4, <1>5

LEMMA ApplyOpenCourse ==
  ASSUME IInv, SInv, NEW p \in Procs, ApplyOpen(p)
  PROVE  SInv'
<1>1. /\ run[p].pc = "open" /\ run[p].pc # "idle" /\ run[p].cmd = "apply" /\ host' = host
      /\ run[p] \in Memory /\ ClaimOK(tx, host) /\ CourseOK(run[p], tx, host)
      /\ tx \in TxRecord /\ tx.state # "UNINSTALLING"
  BY OwnCourse DEF ApplyOpen, At, Started
<1>2. CASE Leave(p) /\ UNCHANGED tx
  BY <1>1, <1>2, CourseLeave DEF Leave
<1>3. CASE /\ tx' = [tx EXCEPT !.state = "APPLYING", !.mip = TRUE, !.owner = TRUE,
                               !.phase = "apply"]
           /\ Continue(p, [run[p] EXCEPT !.pc = "recheck", !.tx = tx', !.snap = snap,
                                         !.todo = APPLY_STEPS \ tx.done])
  <2>1. PICK r : /\ r = [run[p] EXCEPT !.pc = "recheck", !.tx = tx', !.snap = snap,
                                       !.todo = APPLY_STEPS \ tx.done]
                 /\ Continue(p, r)
    BY <1>3
  <2>2. tx'.state = "APPLYING" /\ tx'.done = tx.done /\ tx'.rbDone = tx.rbDone
    BY <1>1, <1>3 DEF TxRecord
  <2>3. r.pc = "recheck" /\ r.cmd = "apply" /\ r.tx = tx'
    BY <1>1, <2>1 DEF Memory
  <2>4. ~Reversed(tx)
    BY <1>1 DEF ApplyOpen, CanStart, START_STATES, Reversed, RESIDUAL_STATES
  <2>5. Standing(tx', host')
    BY <1>1, <2>2, <2>4 DEF ClaimOK, Standing
  <2>6. ClaimOK(tx', host')
    BY <2>2, <2>5 DEF ClaimOK, Good
  <2>7. BuildOK(r, host')
    BY <2>2, <2>3, <2>5 DEF BuildOK, Good
  <2>8. CourseOK(r, tx', host')
    BY <1>1, <2>2, <2>3, <2>7 DEF CourseOK, Started
  <2> QED
    BY <1>1, <2>1, <2>6, <2>8, CourseContinue
<1> QED
  BY <1>2, <1>3 DEF ApplyOpen

LEMMA ApplyRecheckCourse ==
  ASSUME IInv, SInv, NEW p \in Procs, ApplyRecheck(p)
  PROVE  SInv'
<1>1. /\ run[p].pc = "recheck" /\ run[p].pc # "idle" /\ run[p].pc \in Started /\ host' = host
      /\ run[p].cmd = "apply" /\ run[p] \in Memory /\ run[p].tx \in TxRecord
  BY OwnCopy DEF ApplyRecheck, At, Started, MemoryOK, LabelOK
<1>2. BuildOK(run[p], host) /\ tx.state # "UNINSTALLING" /\ ClaimOK(tx, host)
  BY <1>1, ApplyClaim
<1>3. CASE Goto(p, "next") /\ UNCHANGED tx
  <2>1. PICK r : r = [run[p] EXCEPT !.pc = "next"] /\ Continue(p, r)
    BY <1>3 DEF Goto
  <2>2. r.pc = "next" /\ r.cmd = "apply" /\ r.tx = run[p].tx
    BY <1>1, <2>1 DEF Memory
  <2>3. BuildOK(r, host')
    BY <1>1, <1>2, <2>2 DEF BuildOK
  <2> QED
    BY <1>1, <1>3, <2>1, <2>2, <2>3, ApplyCourse DEF Started
<1>4. CASE /\ tx' = [run[p].tx EXCEPT !.state = "FAILED_SAFE", !.mip = FALSE, !.owner = FALSE]
           /\ Leave(p)
  <2>1. tx'.state = "FAILED_SAFE"
    BY <1>1, <1>4 DEF TxRecord
  <2>2. ClaimOK(tx', host')
    BY <2>1 DEF ClaimOK, Reversed, Good
  <2> QED
    BY <1>1, <1>4, <2>1, <2>2, CourseLeave DEF Leave
<1>5. CASE Leave(p) /\ UNCHANGED tx
  BY <1>1, <1>2, <1>5, CourseLeave DEF Leave
<1> QED
  BY <1>3, <1>4, <1>5 DEF ApplyRecheck

LEMMA RollbackOpenCourse ==
  ASSUME IInv, SInv, NEW p \in Procs, RollbackOpen(p)
  PROVE  SInv'
<1>1. /\ run[p].pc # "idle" /\ run[p].cmd = "rollback" /\ run[p] \in Memory
      /\ CourseOK(run[p], tx, host) /\ tx \in TxRecord
  BY OwnCourse DEF RollbackOpen, At
<1>2. PICK r : /\ r = [run[p] EXCEPT !.pc = "next", !.tx = tx', !.snap = snap, !.todo = Pending]
               /\ Continue(p, r)
  BY DEF RollbackOpen
<1>3. tx'.state = "ROLLING_BACK" /\ tx'.phase = "rollback"
  BY <1>1 DEF RollbackOpen, TxRecord
<1>4. r.pc = "next" /\ r.cmd = "rollback" /\ r.tx = tx'
  BY <1>1, <1>2 DEF Memory
<1>5. ClaimOK(tx', host')
  BY <1>3 DEF ClaimOK, Reversed, Good
<1>6. CourseOK(r, tx', host')
  BY <1>1, <1>3, <1>4 DEF CourseOK, Started
<1> QED
  BY <1>1, <1>2, <1>5, <1>6, CourseContinue

LEMMA UninstallOpenCourse ==
  ASSUME IInv, SInv, NEW p \in Procs, UninstallOpen(p)
  PROVE  SInv'
<1>1. /\ run[p].pc # "idle" /\ run[p].cmd = "uninstall" /\ run[p] \in Memory
      /\ CourseOK(run[p], tx, host) /\ tx \in TxRecord
  BY OwnCourse DEF UninstallOpen, At
<1>2. PICK scope \in Scopes :
         /\ tx' = [tx EXCEPT !.state = "UNINSTALLING", !.mip = TRUE, !.owner = TRUE,
                             !.phase = "uninstall", !.scope = scope]
         /\ Continue(p, [run[p] EXCEPT !.pc = "next", !.tx = tx', !.snap = snap,
                                       !.todo = ScopeSteps(scope)])
  BY DEF UninstallOpen
<1>3. PICK r : /\ r = [run[p] EXCEPT !.pc = "next", !.tx = tx', !.snap = snap,
                                     !.todo = ScopeSteps(scope)]
               /\ Continue(p, r)
  BY <1>2
<1>4. tx'.state = "UNINSTALLING"
  BY <1>1, <1>2 DEF TxRecord
<1>5. r.pc = "next" /\ r.cmd = "uninstall" /\ r.rc = run[p].rc
  BY <1>1, <1>3 DEF Memory
<1>6. ClaimOK(tx', host')
  BY <1>4 DEF ClaimOK, Reversed, Good
<1>7. CourseOK(r, tx', host')
  BY <1>1, <1>5 DEF CourseOK, Started
<1> QED
  BY <1>1, <1>3, <1>6, <1>7, CourseContinue

LEMMA StepBeginCourse ==
  ASSUME IInv, SInv, NEW p \in Procs, StepBegin(p)
  PROVE  SInv'
<1>1. /\ run[p].pc = "next" /\ run[p].pc # "idle" /\ run[p].pc \in Started
      /\ host' = host /\ tx' = tx
  BY DEF StepBegin, At, Started, disk
<1>2. run[p] \in Memory /\ CourseOK(run[p], tx, host)
  BY <1>1, OwnCourse
<1>3. PICK s \in run[p].todo : Continue(p, [run[p] EXCEPT !.pc = "op", !.cur = s, !.k = 1])
  BY DEF StepBegin
<1>4. PICK r : r = [run[p] EXCEPT !.pc = "op", !.cur = s, !.k = 1] /\ Continue(p, r)
  BY <1>3
<1>5. r.pc = "op" /\ r.cur = s /\ r.k = 1 /\ r.cmd = run[p].cmd /\ r.tx = run[p].tx /\ r.rc = run[p].rc
  BY <1>2, <1>4 DEF Memory
<1>6. CASE run[p].cmd = "apply"
  <2>1. BuildOK(run[p], host)
    BY <1>1, <1>6, ApplyClaim
  <2>2. BuildOK(r, host')
    BY <1>1, <1>5, <2>1, PutsType DEF BuildOK
  <2> QED
    BY <1>1, <1>4, <1>5, <1>6, <2>2, ApplyCourse DEF Started
<1>7. CASE run[p].cmd # "apply"
  <2>1. r.cmd = "uninstall" => r.rc # "timeout"
    BY <1>1, <1>2, <1>5 DEF CourseOK
  <2> QED
    BY <1>1, <1>4, <1>5, <1>7, <2>1, RemovalCourse DEF Started
<1> QED
  BY <1>6, <1>7

\* The steps of apply without operations put nothing on the host; only collect_health
\* moves to a good state.
LEMMA ApplyStepCourse ==
  ASSUME IInv, SInv, NEW p \in Procs, ApplyStep(p)
  PROVE  SInv'
<1>1. /\ run[p].pc = "next" /\ run[p].pc \in Started /\ run[p].cmd = "apply"
      /\ tx' = tx /\ host' = host /\ run[p] \in Memory /\ run[p].tx \in TxRecord
  BY OwnCopy DEF ApplyStep, At, Started
<1>2. BuildOK(run[p], host)
  BY <1>1, ApplyClaim
<1>3. PICK s \in run[p].todo :
         /\ s \in {verify_artifacts, mark_applied, collect_health, write_support_index}
         /\ \/ Continue(p, [run[p] EXCEPT !.pc = "clear", !.cur = s, !.tx.state = run[p].tx.state])
            \/ Continue(p, [run[p] EXCEPT !.pc = "end_save", !.tx.state = "FAILED_SAFE"])
            \/ Continue(p, [run[p] EXCEPT !.pc = "clear", !.cur = s, !.tx.state = "APPLIED"])
            \/ /\ s = collect_health
               /\ Continue(p, [run[p] EXCEPT !.pc = "clear", !.cur = s,
                                             !.tx.state = HealthState(health')])
            \/ Continue(p, [run[p] EXCEPT !.pc = "error", !.cur = s, !.rc = "nonzero"])
  BY DEF ApplyStep
<1>4. Puts(s) = {}
  BY <1>3, PutsType
  DEF HOST_MUTATION_STEPS, verify_artifacts, mark_applied, collect_health, write_support_index,
      install_optics_cli, install_agent_sdks, stage_pe_archive, docker_load,
      write_observe_config, install_boot_hold, start_pe_observe
<1>5. ASSUME NEW state,
             state = run[p].tx.state \/ state \notin Good \/ s = collect_health,
             Continue(p, [run[p] EXCEPT !.pc = "clear", !.cur = s, !.tx.state = state])
      PROVE  SInv'
  <2>1. PICK r : /\ r = [run[p] EXCEPT !.pc = "clear", !.cur = s, !.tx.state = state]
                 /\ Continue(p, r)
    BY <1>5
  <2>2. /\ r.pc = "clear" /\ r.cmd = "apply" /\ r.cur = s /\ r.tx.state = state
        /\ r.tx.done = run[p].tx.done /\ r.tx.rbDone = run[p].tx.rbDone
    BY <1>1, <2>1 DEF Memory, TxRecord
  <2>3. BuildOK(r, host')
    BY <1>1, <1>2, <1>4, <1>5, <2>2 DEF BuildOK, Standing
  <2> QED
    BY <1>1, <2>1, <2>2, <2>3, ApplyCourse DEF Started
<1>6. CASE Continue(p, [run[p] EXCEPT !.pc = "end_save", !.tx.state = "FAILED_SAFE"])
  <2>1. PICK r : /\ r = [run[p] EXCEPT !.pc = "end_save", !.tx.state = "FAILED_SAFE"]
                 /\ Continue(p, r)
    BY <1>6
  <2>2. /\ r.pc = "end_save" /\ r.cmd = "apply" /\ r.tx.state = "FAILED_SAFE"
        /\ r.tx.done = run[p].tx.done /\ r.tx.rbDone = run[p].tx.rbDone
    BY <1>1, <2>1 DEF Memory, TxRecord
  <2>3. BuildOK(r, host')
    BY <1>1, <1>2, <2>2 DEF BuildOK, Standing, Good
  <2> QED
    BY <1>1, <2>1, <2>2, <2>3, ApplyCourse DEF Started
<1>7. CASE Continue(p, [run[p] EXCEPT !.pc = "error", !.cur = s, !.rc = "nonzero"])
  <2>1. PICK r : /\ r = [run[p] EXCEPT !.pc = "error", !.cur = s, !.rc = "nonzero"]
                 /\ Continue(p, r)
    BY <1>7
  <2>2. r.pc = "error" /\ r.cmd = "apply" /\ r.tx = run[p].tx
    BY <1>1, <2>1 DEF Memory
  <2>3. BuildOK(r, host')
    BY <1>1, <1>2, <2>2 DEF BuildOK
  <2> QED
    BY <1>1, <2>1, <2>2, <2>3, ApplyCourse DEF Started
<1>8. "APPLIED" \notin Good
  BY DEF Good
<1> QED
  BY <1>3, <1>5, <1>6, <1>7, <1>8

\* An operation of apply, however it ends, takes nothing off the host.
LEMMA ApplyGrows ==
  ASSUME IInv, HInv, NEW p \in Procs, run[p].pc = "op", run[p].cmd = "apply", NEW op,
         op = Op(run[p]),
         host' = host \/ (Feasible(op) /\ host' = Complete(op)) \/ host' \in AnyPart(op)
  PROVE  host \subseteq host'
<1>1. run[p].pc \in Started /\ run[p].pc \in {"op", "check"}
  BY DEF Started
<1>2. Removes(op) = {}
  BY <1>1, OwnCopy, CurrentOp, ApplyEffect
<1> QED
  BY <1>2, OpEffect

\* A record on disk goes on being true, however an operation of any command ends.
LEMMA OperationClaim ==
  ASSUME IInv, HInv, SInv, NEW p \in Procs, run[p].pc = "op", NEW op, op = Op(run[p]),
         host' = host \/ (Feasible(op) /\ host' = Complete(op)) \/ host' \in AnyPart(op)
  PROVE  ClaimOK(tx, host')
<1>1. run[p].pc \in Started
  BY DEF Started
<1>2. CASE run[p].cmd = "apply"
  BY <1>1, <1>2, ApplyGrows, ApplyClaim
<1>3. CASE run[p].cmd # "apply"
  BY <1>1, <1>3, RemovalClaim
<1> QED
  BY <1>2, <1>3

LEMMA OpExecCourse ==
  ASSUME Undisturbed, IInv, HInv, SInv, NEW p \in Procs, OpExec(p)
  PROVE  SInv'
<1>1. /\ run[p].pc = "op" /\ run[p].pc # "idle" /\ run[p].pc \in Started /\ tx' = tx
      /\ run[p] \in Memory
  BY OwnCopy DEF OpExec, At, Started, disk
<1>2. PICK rc \in {"zero", "nonzero", "timeout"} :
        /\ Continue(p, [run[p] EXCEPT !.pc = "check", !.rc = rc])
        /\ rc = "timeout" => "timeout" \in FaultKinds
  BY DEF OpExec, Fault
<1>3. PICK r : r = [run[p] EXCEPT !.pc = "check", !.rc = rc] /\ Continue(p, r)
  BY <1>2
<1>4. PICK op : op = Op(run[p])
  OBVIOUS
<1>5. host' = host \/ (Feasible(op) /\ host' = Complete(op)) \/ host' \in AnyPart(op)
  BY <1>4 DEF OpExec
<1>6. /\ r.pc = "check" /\ r.cmd = run[p].cmd /\ r.cur = run[p].cur /\ r.k = run[p].k
      /\ r.tx = run[p].tx /\ r.rc = rc
  BY <1>1, <1>3 DEF Memory
<1>7. CASE run[p].cmd = "apply"
  <2>1. host \subseteq host'
    BY <1>1, <1>4, <1>5, <1>7, ApplyGrows
  <2>2. BuildOK(run[p], host)
    BY <1>1, <1>7, ApplyClaim
  <2>3. Standing(r.tx, host')
    BY <1>6, <2>1, <2>2, StandingKept DEF BuildOK
  <2>4. BuildOK(r, host')
    BY <1>1, <1>6, <2>1, <2>2, <2>3 DEF BuildOK
  <2> QED
    BY <1>1, <1>3, <1>6, <1>7, <2>1, <2>4, ApplyCourse DEF Started
<1>8. CASE run[p].cmd # "apply"
  <2>1. run[p].cmd \in Commands
    BY <1>1, OwnCourse DEF CourseOK
  <2>2. r.cmd = "uninstall" => r.rc # "timeout"
    BY <1>2, <1>6, <2>1 DEF Undisturbed
  <2> QED
    BY <1>1, <1>3, <1>6, <1>8, <2>2, RemovalCourse DEF Started
<1> QED
  BY <1>7, <1>8

\* A process that ends without its handlers: an uninstall does so only when it is
\* killed, and then the LOCK file stays.
LEMMA StoppedCourse ==
  ASSUME Undisturbed, IInv, HInv, SInv, NEW p \in Procs, Unwind(p) \/ Kill(p)
  PROVE  SInv'
<1>1. /\ run[p].pc # "idle" /\ host' \in Torn(p) /\ tx' = tx
      /\ run' = [run EXCEPT ![p] = Idle]
  BY DEF Unwind, Kill, At, Leave, disk
<1>2. CourseOK(run[p], tx, host) /\ ClaimOK(tx, host)
  BY <1>1, OwnCourse
<1>3. ClaimOK(tx', host')
  <2>1. CASE run[p].pc = "op"
    <3>1. PICK op : op = Op(run[p])
      OBVIOUS
    <3>2. host' \in AnyPart(op)
      BY <1>1, <2>1, <3>1 DEF Torn, At
    <3> QED
      BY <1>1, <2>1, <3>1, <3>2, OperationClaim
  <2>2. CASE run[p].pc # "op"
    BY <1>1, <1>2, <2>2 DEF Torn, At
  <2> QED
    BY <2>1, <2>2
<1>4. lock' = NoProc => tx'.state # "UNINSTALLING"
  <2>1. CASE Unwind(p)
    <3>1. "unwind" \in FaultKinds
      BY <2>1 DEF Unwind, Fault
    <3> QED
      BY <1>1, <1>2, <3>1 DEF CourseOK, Undisturbed
  <2>2. CASE Kill(p)
    BY <1>1, <2>2, ConstantsAssumption DEF Kill, IInv, LockHeld
  <2> QED
    BY <2>1, <2>2
<1> QED
  BY <1>1, <1>3, <1>4, CourseLeave

\* An apply whose operation is verified has it on the host.
LEMMA AfterOpBuild ==
  ASSUME NEW r \in Memory, r.cmd = "apply", r.pc = "check", r.cur \in APPLY_STEPS,
         r.k \in 1..Len(Ops(r)), NEW h, BuildOK(r, h), Verified(Op(r), h)
  PROVE  /\ BuildOK(AfterOp(r), h)
         /\ AfterOp(r).cmd = "apply" /\ AfterOp(r).pc \in Started
<1>1. PICK j \in Nat : j = r.k + 1
  BY DEF Memory
<1>2. /\ Op(r) # "unload_pe_apparmor"
      /\ r.k < Len(Ops(r)) => Built(r.cur, j) \subseteq Built(r.cur, r.k) \cup Adds(Op(r))
      /\ ~(r.k < Len(Ops(r))) => Puts(r.cur) \subseteq Built(r.cur, r.k) \cup Adds(Op(r))
  BY <1>1, BuildEffect
<1>3. Adds(Op(r)) \subseteq h /\ Built(r.cur, r.k) \subseteq h
  BY <1>2 DEF Verified, BuildOK
<1>4. CASE r.k < Len(Ops(r))
  <2>1. PICK u : u = [r EXCEPT !.pc = "op", !.k = j] /\ u = AfterOp(r)
    BY <1>1, <1>4 DEF AfterOp
  <2>2. u.pc = "op" /\ u.k = j /\ u.cmd = "apply" /\ u.cur = r.cur /\ u.tx = r.tx
    BY <2>1 DEF Memory
  <2>3. BuildOK(u, h)
    BY <1>2, <1>3, <1>4, <2>2 DEF BuildOK
  <2> QED
    BY <2>1, <2>2, <2>3 DEF Started
<1>5. CASE ~(r.k < Len(Ops(r)))
  <2>0. r.cur # 0
    BY DEF APPLY_STEPS
  <2>1. PICK u : u = [r EXCEPT !.pc = "clear"] /\ u = AfterOp(r)
    BY <1>5, <2>0 DEF AfterOp, AfterStep
  <2>2. u.pc = "clear" /\ u.cmd = "apply" /\ u.cur = r.cur /\ u.tx = r.tx
    BY <2>1 DEF Memory
  <2>3. BuildOK(u, h)
    BY <1>2, <1>3, <1>5, <2>2 DEF BuildOK
  <2> QED
    BY <2>1, <2>2, <2>3 DEF Started
<1> QED
  BY <1>4, <1>5

\* The process of a removal that leaves an operation.
LEMMA AfterOpRemoval ==
  ASSUME NEW r \in Memory, r.cmd \in {"rollback", "uninstall"}
  PROVE  /\ AfterOp(r).cmd = r.cmd /\ AfterOp(r).tx = r.tx /\ AfterOp(r).rc = r.rc
         /\ AfterOp(r).pc \in Started
<1>1. PICK j : j = r.k + 1
  OBVIOUS
<1>2. \/ AfterOp(r) = [r EXCEPT !.pc = "op", !.k = j]
      \/ AfterOp(r) = [r EXCEPT !.pc = "enforce"]
      \/ AfterOp(r) = [r EXCEPT !.pc = "snapshot"]
      \/ AfterOp(r) = [r EXCEPT !.pc = "next", !.todo = r.todo \ {r.cur}]
  BY <1>1 DEF AfterOp, AfterStep
<1>3. CASE AfterOp(r) = [r EXCEPT !.pc = "op", !.k = j]
  BY <1>3 DEF Memory, Started
<1>4. CASE AfterOp(r) = [r EXCEPT !.pc = "enforce"]
  BY <1>4 DEF Memory, Started
<1>5. CASE AfterOp(r) = [r EXCEPT !.pc = "snapshot"]
  BY <1>5 DEF Memory, Started
<1>6. CASE AfterOp(r) = [r EXCEPT !.pc = "next", !.todo = r.todo \ {r.cur}]
  BY <1>6 DEF Memory, Started
<1> QED
  BY <1>2, <1>3, <1>4, <1>5, <1>6

LEMMA OpCheckCourse ==
  ASSUME IInv, HInv, SInv, NEW p \in Procs, OpCheck(p)
  PROVE  SInv'
<1>1. /\ run[p].pc = "check" /\ run[p].pc \in {"op", "check"} /\ run[p].pc \in Started
      /\ run[p].pc # "idle" /\ tx' = tx /\ host' = host /\ run[p] \in Memory
      /\ run[p].cmd \in LiveCommands
  BY OwnCopy DEF OpCheck, At, Started
<1>2. CourseOK(run[p], tx, host)
  BY <1>1, OwnCourse
<1>3. ASSUME NEW rc \in {"unverified", run[p].rc},
             Continue(p, [run[p] EXCEPT !.pc = "error", !.rc = rc])
      PROVE  SInv'
  <2>1. PICK r : r = [run[p] EXCEPT !.pc = "error", !.rc = rc] /\ Continue(p, r)
    BY <1>3
  <2>2. r.pc = "error" /\ r.cmd = run[p].cmd /\ r.tx = run[p].tx /\ r.rc = rc
    BY <1>1, <2>1 DEF Memory
  <2>3. CASE run[p].cmd = "apply"
    <3>1. BuildOK(run[p], host)
      BY <1>1, <2>3, ApplyClaim
    <3>2. BuildOK(r, host')
      BY <1>1, <2>2, <3>1 DEF BuildOK
    <3> QED
      BY <1>1, <2>1, <2>2, <2>3, <3>2, ApplyCourse DEF Started
  <2>4. CASE run[p].cmd # "apply"
    <3>1. r.cmd = "uninstall" => r.rc # "timeout"
      BY <1>1, <1>2, <1>3, <2>2 DEF CourseOK
    <3> QED
      BY <1>1, <2>1, <2>2, <2>4, <3>1, RemovalCourse DEF Started
  <2> QED
    BY <2>3, <2>4
<1>4. CASE /\ Verified(Op(run[p]), host)
           /\ Continue(p, AfterOp([run[p] EXCEPT !.snap = Delta(Op(run[p]), run[p].snap, host)]))
  <2>1. Delta(Op(run[p]), run[p].snap, host) \subseteq SnapItems
    BY <1>1, DeltaType DEF Memory
  <2>2. PICK r : /\ r = [run[p] EXCEPT !.snap = Delta(Op(run[p]), run[p].snap, host)]
                 /\ Continue(p, AfterOp(r))
    BY <1>4
  <2>3. /\ r \in Memory /\ r.pc = "check" /\ r.cmd = run[p].cmd /\ r.cur = run[p].cur
        /\ r.k = run[p].k /\ r.tx = run[p].tx /\ r.rc = run[p].rc
    BY <1>1, <2>1, <2>2 DEF Memory
  <2>4. Op(r) = Op(run[p]) /\ Ops(r) = Ops(run[p])
    BY <2>3 DEF Op, Ops
  <2>5. CASE run[p].cmd = "apply"
    <3>1. r.cur \in APPLY_STEPS /\ r.k \in 1..Len(Ops(r))
      BY <1>1, <2>3, <2>4, <2>5, CurrentOp
    <3>2. BuildOK(run[p], host)
      BY <1>1, <2>5, ApplyClaim
    <3>3. BuildOK(r, host)
      BY <1>1, <2>3, <3>2 DEF BuildOK
    <3>4. /\ BuildOK(AfterOp(r), host)
          /\ AfterOp(r).cmd = "apply" /\ AfterOp(r).pc \in Started
      BY <1>4, <2>3, <2>4, <2>5, <3>1, <3>3, AfterOpBuild
    <3> QED
      BY <1>1, <2>2, <2>5, <3>4, ApplyCourse
  <2>6. CASE run[p].cmd # "apply"
    <3>1. r.cmd \in {"rollback", "uninstall"}
      BY <1>1, <2>3, <2>6 DEF LiveCommands
    <3>2. /\ AfterOp(r).cmd = r.cmd /\ AfterOp(r).tx = r.tx /\ AfterOp(r).rc = r.rc
          /\ AfterOp(r).pc \in Started
      BY <2>3, <3>1, AfterOpRemoval
    <3>3. r.cmd = "uninstall" => r.rc # "timeout"
      BY <1>1, <1>2, <2>3 DEF CourseOK
    <3> QED
      BY <1>1, <2>2, <2>3, <2>6, <3>2, <3>3, RemovalCourse
  <2> QED
    BY <2>5, <2>6
<1>5. Goto(p, "error") => Continue(p, [run[p] EXCEPT !.pc = "error", !.rc = run[p].rc])
  BY <1>1 DEF Goto, Memory
<1> QED
  BY <1>1, <1>3, <1>4, <1>5 DEF OpCheck

\* The states that an apply has in its copy.
LEMMA OwnState ==
  ASSUME IInv, HInv, NEW p \in Procs, run[p].pc \in Started, run[p].cmd = "apply"
  PROVE  run[p].tx.state \in {"APPLYING", "APPLIED", "HEALTHY", "DEGRADED", "FAILED_SAFE"}
BY OwnHost DEF HostOK, PhaseOK

\* The last record of a process that failed: a copy that stands, or a removal that is
\* reversed and, when it is a rollback, says so.
LEMMA ErrorSaveCourse ==
  ASSUME IInv, HInv, SInv, NEW p \in Procs, ErrorSave(p)
  PROVE  SInv'
<1>1. /\ run[p].pc = "error" /\ run[p].pc # "idle" /\ run[p].pc \in Started /\ host' = host
      /\ Leave(p) /\ run[p] \in Memory /\ run[p].tx \in TxRecord /\ run[p].cmd \in LiveCommands
  BY OwnCopy DEF ErrorSave, At, Started
<1>2. CourseOK(run[p], tx, host)
  BY <1>1, OwnCourse
<1>3. /\ tx'.done = run[p].tx.done /\ tx'.rbDone = run[p].tx.rbDone /\ tx'.phase = run[p].tx.phase
      /\ tx'.state = IF run[p].tx.state \in RUNTIME_STATES(run[p].cmd) \cup {"APPLIED"}
                     THEN IF run[p].rc = "timeout" THEN "INTERRUPTED" ELSE "FAILED_SAFE"
                     ELSE run[p].tx.state
  BY <1>1 DEF ErrorSave, TxRecord
<1>4. CASE run[p].cmd = "apply"
  <2>1. BuildOK(run[p], host)
    BY <1>1, <1>4, ApplyClaim
  <2>2. tx'.state \in {"INTERRUPTED", "FAILED_SAFE"} \/ tx'.state = run[p].tx.state
    BY <1>3
  <2>3. run[p].tx.state \in RUNTIME_STATES(run[p].cmd) \cup {"APPLIED", "HEALTHY", "DEGRADED",
                                                            "FAILED_SAFE"}
    BY <1>1, <1>4, OwnState DEF RUNTIME_STATES
  <2>4. tx'.state \in {"INTERRUPTED", "FAILED_SAFE", "HEALTHY", "DEGRADED"}
    BY <1>3, <2>3
  <2>5. Standing(tx', host')
    BY <1>1, <1>3, <2>1 DEF BuildOK, Standing
  <2>6. tx'.state \in Good => collect_health \in tx'.done
    BY <1>1, <1>3, <2>1, <2>2 DEF BuildOK, Good
  <2>7. ClaimOK(tx', host')
    BY <2>4, <2>5, <2>6 DEF ClaimOK
  <2> QED
    BY <1>1, <2>4, <2>7, CourseLeave DEF Leave
<1>5. CASE run[p].cmd # "apply"
  <2>1. /\ run[p].cmd = "rollback" => tx.state = "ROLLING_BACK"
        /\ run[p].cmd = "uninstall" => tx.state = "UNINSTALLING"
        /\ run[p].cmd \in {"rollback", "uninstall"}
        /\ run[p].tx.state = tx.state
    BY <1>1, <1>5, RemovalClaim
  <2>2. /\ run[p].cmd = "rollback" => run[p].tx.phase = "rollback"
        /\ run[p].cmd = "uninstall" => run[p].rc # "timeout"
    BY <1>1, <1>2 DEF CourseOK
  <2>3. /\ run[p].cmd = "rollback" => tx'.state \in {"INTERRUPTED", "FAILED_SAFE"}
        /\ run[p].cmd = "uninstall" => tx'.state = "FAILED_SAFE"
    BY <1>3, <2>1, <2>2 DEF RUNTIME_STATES
  <2>4. ClaimOK(tx', host') /\ tx'.state # "UNINSTALLING"
    BY <1>3, <2>1, <2>2, <2>3 DEF ClaimOK, Reversed, Good
  <2> QED
    BY <1>1, <2>4, CourseLeave DEF Leave
<1> QED
  BY <1>4, <1>5

LEMMA ClearPartialCourse ==
  ASSUME IInv, SInv, NEW p \in Procs, ClearPartial(p)
  PROVE  SInv'
<1>1. /\ run[p].pc = "clear" /\ run[p].pc # "idle" /\ run[p].pc \in Started
      /\ host' = host /\ tx' = tx /\ run[p] \in Memory /\ run[p].cmd = "apply"
  BY OwnCopy DEF ClearPartial, At, Started, MemoryOK, LabelOK
<1>2. PICK r : r = [run[p] EXCEPT !.pc = "snapshot"] /\ Continue(p, r)
  BY DEF ClearPartial, Goto
<1>3. r.pc = "snapshot" /\ r.cmd = "apply" /\ r.tx = run[p].tx /\ r.cur = run[p].cur
  BY <1>1, <1>2 DEF Memory
<1>4. BuildOK(run[p], host)
  BY <1>1, ApplyClaim
<1>5. BuildOK(r, host')
  BY <1>1, <1>3, <1>4 DEF BuildOK
<1> QED
  BY <1>1, <1>2, <1>3, <1>5, ApplyCourse DEF Started

LEMMA SaveSnapshotCourse ==
  ASSUME IInv, SInv, NEW p \in Procs, SaveSnapshot(p)
  PROVE  SInv'
<1>1. /\ run[p].pc = "snapshot" /\ run[p].pc # "idle" /\ run[p].pc \in Started
      /\ host' = host /\ tx' = tx /\ run[p] \in Memory /\ run[p].tx \in TxRecord
      /\ run[p].cmd \in LiveCommands
  BY OwnCopy DEF SaveSnapshot, At, Started
<1>2. CASE run[p].cmd = "apply"
  <2>1. PICK r : /\ r = [run[p] EXCEPT !.pc = "save", !.tx.done = @ \cup {run[p].cur}]
                 /\ Continue(p, r)
    BY <1>2 DEF SaveSnapshot
  <2>2. /\ r.pc = "save" /\ r.cmd = "apply" /\ r.tx.state = run[p].tx.state
        /\ r.tx.rbDone = run[p].tx.rbDone /\ r.tx.done = run[p].tx.done \cup {run[p].cur}
    BY <1>1, <1>2, <2>1 DEF Memory, TxRecord
  <2>3. BuildOK(run[p], host)
    BY <1>1, <1>2, ApplyClaim
  <2>4. BuildOK(r, host')
    BY <1>1, <2>2, <2>3 DEF BuildOK, Standing
  <2> QED
    BY <1>1, <1>2, <2>1, <2>2, <2>4, ApplyCourse DEF Started
<1>3. CASE run[p].cmd # "apply"
  <2>1. PICK r : /\ r = [run[p] EXCEPT !.pc = "save", !.tx.rbDone = @ \cup {run[p].cur}]
                 /\ Continue(p, r)
    BY <1>3 DEF SaveSnapshot
  <2>2. r.pc = "save" /\ r.cmd = run[p].cmd /\ r.tx.phase = run[p].tx.phase /\ r.rc = run[p].rc
    BY <1>1, <2>1 DEF Memory, TxRecord
  <2>3. r.cmd = "uninstall" => r.rc # "timeout"
    BY <1>1, <2>2, OwnCourse DEF CourseOK
  <2> QED
    BY <1>1, <1>3, <2>1, <2>2, <2>3, RemovalCourse DEF Started
<1> QED
  BY <1>2, <1>3

LEMMA SaveTxCourse ==
  ASSUME IInv, HInv, SInv, NEW p \in Procs, SaveTx(p)
  PROVE  SInv'
<1>1. /\ run[p].pc = "save" /\ run[p].pc # "idle" /\ run[p].pc \in Started
      /\ host' = host /\ tx' = run[p].tx /\ run[p] \in Memory
      /\ run[p].cmd \in {"apply", "rollback"}
  BY OwnCopy DEF SaveTx, At, Started, MemoryOK, LabelOK
<1>2. CourseOK(run[p], tx, host)
  BY <1>1, OwnCourse
<1>3. PICK r : r = [run[p] EXCEPT !.pc = "next", !.todo = run[p].todo \ {run[p].cur}] /\ Continue(p, r)
  BY DEF SaveTx
<1>4. r.pc = "next" /\ r.cmd = run[p].cmd /\ r.tx = run[p].tx
  BY <1>1, <1>3 DEF Memory
<1>5. CASE run[p].cmd = "apply"
  <2>1. BuildOK(run[p], host)
    BY <1>1, <1>5, ApplyClaim
  <2>2. tx'.state \in {"APPLYING", "APPLIED", "HEALTHY", "DEGRADED", "FAILED_SAFE"}
    BY <1>1, <1>5, OwnState
  <2>3. ClaimOK(tx', host')
    BY <1>1, <2>1, <2>2 DEF BuildOK, ClaimOK
  <2>4. BuildOK(r, host')
    BY <1>1, <1>4, <2>1 DEF BuildOK
  <2>5. CourseOK(r, tx', host')
    BY <1>1, <1>2, <1>4, <1>5, <2>2, <2>4 DEF CourseOK, Started
  <2> QED
    BY <1>1, <1>3, <2>3, <2>5, CourseContinue
<1>6. CASE run[p].cmd = "rollback"
  <2>1. tx'.state = "ROLLING_BACK"
    BY <1>1, <1>6, RemovalClaim
  <2>2. tx'.phase = "rollback"
    BY <1>1, <1>2, <1>6 DEF CourseOK
  <2>3. ClaimOK(tx', host')
    BY <2>1, <2>2 DEF ClaimOK, Reversed, Good
  <2>4. CourseOK(r, tx', host')
    BY <1>1, <1>2, <1>4, <1>6, <2>1, <2>2 DEF CourseOK, Started
  <2> QED
    BY <1>1, <1>3, <2>3, <2>4, CourseContinue
<1> QED
  BY <1>1, <1>5, <1>6

LEMMA StepsDoneCourse ==
  ASSUME IInv, SInv, NEW p \in Procs, StepsDone(p)
  PROVE  SInv'
<1>1. /\ run[p].pc = "next" /\ run[p].pc # "idle" /\ run[p].pc \in Started
      /\ host' = host /\ tx' = tx /\ run[p] \in Memory
  BY OwnCopy DEF StepsDone, At, Started, disk
<1>2. PICK l \in {"end_save", "end_snapshot", "unpin"} : Goto(p, l)
  BY DEF StepsDone
<1>3. PICK r : r = [run[p] EXCEPT !.pc = l] /\ Continue(p, r)
  BY <1>2 DEF Goto
<1>4. r.pc = l /\ r.cmd = run[p].cmd /\ r.tx = run[p].tx /\ r.rc = run[p].rc /\ r.pc \in Started
  BY <1>1, <1>3 DEF Memory, Started
<1>5. CASE run[p].cmd = "apply"
  <2>1. BuildOK(run[p], host)
    BY <1>1, <1>5, ApplyClaim
  <2>2. BuildOK(r, host')
    BY <1>1, <1>2, <1>4, <2>1 DEF BuildOK
  <2> QED
    BY <1>1, <1>3, <1>4, <1>5, <2>2, ApplyCourse
<1>6. CASE run[p].cmd # "apply"
  <2>1. r.cmd = "uninstall" => r.rc # "timeout"
    BY <1>1, <1>4, OwnCourse DEF CourseOK
  <2> QED
    BY <1>1, <1>3, <1>4, <1>6, <2>1, RemovalCourse
<1> QED
  BY <1>5, <1>6

\* What a removal does behind its steps.
LEMMA TailCourse ==
  ASSUME IInv, SInv, NEW p \in Procs,
         UnpinRemaining(p) \/ ClearEnforce(p) \/ EndSnapshot(p) \/ EndHealth(p)
  PROVE  SInv'
<1>1. /\ run[p].pc \in {"unpin", "enforce", "end_snapshot", "end_health"} /\ run[p].pc \in Started
      /\ tx' = tx
  BY DEF UnpinRemaining, ClearEnforce, EndSnapshot, EndHealth, At, Started, disk
<1>2. run[p] \in Memory /\ run[p].cmd # "apply" /\ run[p].pc # "idle"
  BY <1>1, OwnCopy DEF MemoryOK, LabelOK
<1>3. run[p].cmd = "uninstall" => run[p].rc # "timeout"
  BY <1>2, OwnCourse DEF CourseOK
<1>4. CASE Continue(p, [run[p] EXCEPT !.pc = "error", !.rc = "nonzero"])
  <2>1. PICK r : r = [run[p] EXCEPT !.pc = "error", !.rc = "nonzero"] /\ Continue(p, r)
    BY <1>4
  <2>2. r.pc = "error" /\ r.cmd = run[p].cmd /\ r.tx = run[p].tx /\ r.rc = "nonzero"
    BY <1>2, <2>1 DEF Memory
  <2> QED
    BY <1>1, <1>2, <2>1, <2>2, RemovalCourse DEF Started
<1>5. CASE \E l \in {"end_snapshot", "end_health", "end_save"} : Goto(p, l)
  <2>1. PICK l \in {"end_snapshot", "end_health", "end_save"} : Goto(p, l)
    BY <1>5
  <2>2. PICK r : r = [run[p] EXCEPT !.pc = l] /\ Continue(p, r)
    BY <2>1 DEF Goto
  <2>3. r.pc = l /\ r.cmd = run[p].cmd /\ r.tx = run[p].tx /\ r.rc = run[p].rc
    BY <1>2, <2>2 DEF Memory
  <2> QED
    BY <1>1, <1>2, <1>3, <2>2, <2>3, RemovalCourse DEF Started
<1>6. CASE Continue(p, [run[p] EXCEPT !.pc = IF "pins" \in host THEN "op" ELSE "enforce",
                                      !.cur = 0, !.k = 1])
  <2>1. PICK l \in {"op", "enforce"} : l = IF "pins" \in host THEN "op" ELSE "enforce"
    OBVIOUS
  <2>2. PICK r : r = [run[p] EXCEPT !.pc = l, !.cur = 0, !.k = 1] /\ Continue(p, r)
    BY <1>6, <2>1
  <2>3. r.pc = l /\ r.cmd = run[p].cmd /\ r.tx = run[p].tx /\ r.rc = run[p].rc
    BY <1>2, <2>2 DEF Memory
  <2> QED
    BY <1>1, <1>2, <1>3, <2>2, <2>3, RemovalCourse DEF Started
<1> QED
  BY <1>4, <1>5, <1>6 DEF UnpinRemaining, ClearEnforce, EndSnapshot, EndHealth

LEMMA EndSaveCourse ==
  ASSUME IInv, HInv, SInv, NEW p \in Procs, EndSave(p)
  PROVE  SInv'
<1>1. /\ run[p].pc = "end_save" /\ run[p].pc # "idle" /\ run[p].pc \in Started /\ host' = host
      /\ Leave(p) /\ run[p].tx \in TxRecord /\ run[p].cmd \in LiveCommands
  BY OwnCopy DEF EndSave, At, Started
<1>2. CASE run[p].cmd = "apply"
  <2>1. /\ tx'.state = run[p].tx.state /\ tx'.done = run[p].tx.done
        /\ tx'.rbDone = run[p].tx.rbDone
    BY <1>1, <1>2 DEF EndSave, TxRecord
  <2>2. BuildOK(run[p], host)
    BY <1>1, <1>2, ApplyClaim
  <2>3. tx'.state \in {"APPLYING", "APPLIED", "HEALTHY", "DEGRADED", "FAILED_SAFE"}
    BY <1>1, <1>2, <2>1, OwnState
  <2>4. ClaimOK(tx', host')
    BY <1>1, <2>1, <2>2, <2>3 DEF BuildOK, ClaimOK, Standing
  <2> QED
    BY <1>1, <2>3, <2>4, CourseLeave DEF Leave
<1>3. CASE run[p].cmd # "apply"
  <2>1. tx'.state \in {"ROLLED_BACK", "UNINSTALLED"}
    BY <1>1, <1>3 DEF EndSave, TxRecord, LiveCommands
  <2>2. ClaimOK(tx', host')
    BY <2>1 DEF ClaimOK, Reversed, Good
  <2> QED
    BY <1>1, <2>1, <2>2, CourseLeave DEF Leave
<1> QED
  BY <1>2, <1>3

----------------------------------------------------------------------------
(* The theorems about an installation that nothing reversed. *)

LEMMA InitCourse == Init => SInv
<1> SUFFICES ASSUME Init
             PROVE  SInv
  OBVIOUS
<1>1. \A p \in Procs : CourseOK(run[p], tx, host)
  BY DEF Init, Idle, CourseOK, Started
<1>2. ClaimOK(tx, host) /\ tx.state # "UNINSTALLING"
  BY DEF Init, NoTx, ClaimOK, Standing, Good
<1> QED
  BY <1>1, <1>2 DEF SInv

LEMMA NextCourse ==
  ASSUME Undisturbed, IInv, HInv, SInv, [Next]_vars
  PROVE  SInv'
<1>1. CASE UNCHANGED vars
  BY <1>1 DEF vars, SInv
<1>2. ASSUME NEW p \in Procs, NEW c \in Commands, Acquire(p, c)
      PROVE  SInv'
  BY <1>2, AcquireCourse
<1>3. ASSUME NEW p \in Procs, Step(p)
      PROVE  SInv'
  BY <1>3, QuitCourse, GiveUpCourse, PlanOpenCourse, PlanGateCourse, PlanFileCourse,
     ApplyOpenCourse, ApplyRecheckCourse, ApplyStepCourse, RollbackOpenCourse,
     UninstallOpenCourse, StepBeginCourse, OpExecCourse, OpCheckCourse, ErrorSaveCourse,
     ClearPartialCourse, SaveSnapshotCourse, SaveTxCourse, StepsDoneCourse, TailCourse,
     EndSaveCourse, StatusCourse, EnrollCourse
  DEF Step
<1>4. ASSUME NEW p \in Procs, Unwind(p) \/ Kill(p)
      PROVE  SInv'
  BY <1>4, StoppedCourse
<1> QED
  BY <1>1, <1>2, <1>3, <1>4 DEF Next

\* The steps that a record which may still be applied names as completed are on the
\* host, for every set of processes and commands and every choice of faults under
\* which no uninstall is stopped in the middle.
THEOREM StandingInvariance ==
  ASSUME Undisturbed
  PROVE  Spec => []SInv
<1>1. Init => SInv
  BY InitCourse
<1>2. IInv /\ HInv /\ SInv /\ [Next]_vars => SInv'
  BY NextCourse
<1> QED
  BY <1>1, <1>2, Invariance, HostInvariance, PTL DEF Spec

\* All steps up to the health check together are all of the product.
LEMMA AllPuts ==
  ASSUME NEW done, NEW h, Intact(done), collect_health \in done,
         \A s \in done : Puts(s) \subseteq h
  PROVE  OpticsItems \cup EngineItems \subseteq h
<1>1. \A t \in APPLY_STEPS : t < collect_health => t \in done
  BY DEF Intact
<1>2. 3 \in done /\ 4 \in done /\ 5 \in done /\ 6 \in done /\ 7 \in done /\ 8 \in done /\ 9 \in done
  BY <1>1 DEF APPLY_STEPS, collect_health
<1>3. /\ Puts(3) \subseteq h /\ Puts(4) \subseteq h /\ Puts(5) \subseteq h /\ Puts(6) \subseteq h
      /\ Puts(7) \subseteq h /\ Puts(8) \subseteq h /\ Puts(9) \subseteq h
  BY <1>2
<1> QED
  BY <1>3, PutsTable DEF OpticsItems, EngineItems

\* A record that says HEALTHY or DEGRADED is right: every item of the product is on
\* the host, although health is derived from the snapshot alone, which was written by
\* processes that failed, timed out or were killed in any step.
THEOREM HealthyIsTrue ==
  ASSUME Undisturbed
  PROVE  Spec => []HealthyMeansInstalled
<1>1. IInv /\ SInv => HealthyMeansInstalled
  <2> SUFFICES ASSUME IInv, SInv, tx.state \in {"HEALTHY", "DEGRADED"}
               PROVE  OpticsItems \cup EngineItems \subseteq host
    BY DEF HealthyMeansInstalled
  <2>1. ~Reversed(tx)
    BY DEF Reversed, RESIDUAL_STATES
  <2>2. Standing(tx, host) /\ collect_health \in tx.done
    BY <2>1 DEF SInv, ClaimOK, Good
  <2>3. Intact(tx.done)
    BY DEF IInv, PrefixIntact
  <2> QED
    BY <2>2, <2>3, AllPuts DEF Standing
<1> QED
  BY <1>1, Invariance, StandingInvariance, PTL

\* Once a step of a rollback is recorded, no process puts a product item on the host
\* again but the profile text that the unload of the profile writes.
THEOREM RollbackStaysFinal ==
  ASSUME Undisturbed
  PROVE  Spec => RollbackIsFinal
<1>1. ASSUME IInv, HInv, SInv, Next, tx.rbDone # {}
      PROVE  host' \subseteq host \cup {"profile_text", "enforce"}
  <2> PICK p \in Procs : (\E c \in Commands : Acquire(p, c)) \/ Step(p) \/ Unwind(p) \/ Kill(p)
    BY <1>1 DEF Next
  <2>1. CASE host' \subseteq host \cup {"enforce"}
    BY <2>1
  <2>2. CASE /\ run[p].pc = "op"
             /\ LET op == Op(run[p])
                IN  host' = host \/ (Feasible(op) /\ host' = Complete(op)) \/ host' \in AnyPart(op)
    <3>1. PICK op : op = Op(run[p])
      OBVIOUS
    <3>2. host' \subseteq host \cup Adds(op)
      BY <2>2, <3>1, OpEffect
    <3>3. run[p].pc \in Started /\ run[p].pc \in {"op", "check"}
      BY <2>2 DEF Started
    <3>4. run[p] \in Memory /\ MemoryOK(run[p])
      BY <1>1, <3>3, OwnCopy
    <3>5. run[p].cmd # "apply"
      <4>1. tx.rbDone \subseteq run[p].tx.rbDone
        BY <3>3, <3>4 DEF MemoryOK, CopyOK
      <4>2. run[p].cmd = "apply" => run[p].tx.rbDone = {}
        BY <1>1, <3>3, ApplyClaim DEF BuildOK, Standing
      <4> QED
        BY <1>1, <4>1, <4>2
    <3>6. PICK j \in Nat : j = run[p].k + 1
      BY <3>4 DEF Memory
    <3>7. Adds(op) \subseteq {"profile_text"}
      BY <1>1, <3>1, <3>3, <3>4, <3>5, <3>6, CurrentOp, RemovalEffect
    <3> QED
      BY <3>2, <3>7
  <2>3. CASE OpExec(p)
    BY <2>2, <2>3 DEF OpExec, At
  <2>4. CASE Unwind(p) \/ Kill(p)
    BY <2>1, <2>2, <2>4 DEF Unwind, Kill, Torn, At
  <2>5. CASE ClearEnforce(p)
    BY <2>1, <2>5 DEF ClearEnforce
  <2>6. CASE Enroll(p)
    BY <2>1, <2>6 DEF Enroll
  <2>7. CASE \/ \E c \in Commands : Acquire(p, c)
             \/ Step(p) /\ ~OpExec(p) /\ ~ClearEnforce(p) /\ ~Enroll(p)
    <3>1. host' = host
      BY <2>7 DEF Step, Acquire, Refuse, PlanReplay, PlanOpen, PlanGate, PlanFile, ApplyFailSafe,
                  ApplyOpen, ApplyRecheck, ApplyStep, RollbackOpen, UninstallOpen, StepBegin,
                  OpCheck, ErrorSave, ClearPartial, SaveSnapshot, SaveTx, StepsDone,
                  UnpinRemaining, EndSnapshot, EndHealth, EndSave, Status, VerifyRemoval
    <3> QED
      BY <2>1, <3>1
  <2> QED
    BY <2>3, <2>4, <2>5, <2>6, <2>7
<1>2. IInv /\ HInv /\ SInv /\ [Next]_vars =>
        [tx.rbDone # {} => host' \subseteq host \cup {"profile_text", "enforce"}]_vars
  BY <1>1
<1> QED
  BY <1>2, Invariance, HostInvariance, StandingInvariance, PTL DEF Spec, RollbackIsFinal

-----------------------------------------------------------------------------
(* What the next rollback knows of the container.                           *)

\* No process is stopped by Ctrl-C.
NoUnwind == "unwind" \notin FaultKinds

\* A record or a note on disk names the step that starts the container.
Noted(t, q) == start_pe_observe \in t.done \cup t.required \cup q

\* The step that starts the container is recorded as rolled back only when the
\* container is gone.
Unrolled(t, h) == start_pe_observe \in t.rbDone => "container" \notin h

\* An apply between the removal of the note and the save of the checkpoint.
Saving(r) == r.pc \in {"snapshot", "save"} /\ r.cmd = "apply" /\ r.cur = start_pe_observe

\* A note on disk precedes the operation that starts the container.
NoteOK(r, t, h, q) ==
  /\ r.pc # "idle" /\ ~Saving(r) /\ "container" \in h => Noted(t, q)
  /\ r.cmd = "apply" /\ r.cur = start_pe_observe
       /\ (r.pc = "clear" \/ (r.pc \in {"op", "check"} /\ r.k > 3))
     => start_pe_observe \in q
  /\ r.pc \in Started \cup {"gate"} => Unrolled(r.tx, h)

NInv ==
  /\ lock = NoProc /\ "container" \in host => Noted(tx, partial)
  /\ Unrolled(tx, host)
  /\ \A p \in Procs : NoteOK(run[p], tx, host, partial)

----------------------------------------------------------------------------
(* A step concerns one process: the others are idle. *)

LEMMA NoteFrame ==
  ASSUME IInv, NInv, NEW p \in Procs, run[p].pc # "idle" \/ lock = NoProc,
         \A q \in Procs \ {p} : run'[q] = run[q], Unrolled(tx', host'),
         lock' = NoProc /\ "container" \in host' => Noted(tx', partial'),
         NoteOK(run'[p], tx', host', partial')
  PROVE  NInv'
<1>1. \A q \in Procs \ {p} : run[q].pc = "idle"
  BY ConstantsAssumption DEF IInv, LockHeld
<1>2. \A q \in Procs \ {p} : NoteOK(run'[q], tx', host', partial')
  BY <1>1 DEF NoteOK, Started
<1> QED
  BY <1>2 DEF NInv

\* The notes of a process that is not between two saves hold, and a step that drops
\* none and brings no container keeps them.
LEMMA NotesKept ==
  ASSUME IInv, NInv, NEW p \in Procs, run[p].pc # "idle", ~Saving(run[p]),
         "container" \in host' => "container" \in host, partial \subseteq partial', Keeps(tx')
  PROVE  "container" \in host' => Noted(tx', partial')
BY DEF NInv, NoteOK, Noted, Keeps

\* The rolled-back steps of a record that is saved come from disk or from the copy.
LEMMA UnrolledKept ==
  ASSUME NInv, NEW p \in Procs, "container" \in host' => "container" \in host, NEW t,
         \/ t.rbDone = tx.rbDone
         \/ run[p].pc \in Started \cup {"gate"} /\ t.rbDone = run[p].tx.rbDone
  PROVE  Unrolled(t, host')
BY DEF NInv, NoteOK, Unrolled

LEMMA NoteLeave ==
  ASSUME IInv, NInv, NEW p \in Procs, run[p].pc # "idle", ~Saving(run[p]),
         run' = [run EXCEPT ![p] = Idle], "container" \in host' => "container" \in host,
         partial \subseteq partial', Keeps(tx'),
         \/ tx'.rbDone = tx.rbDone
         \/ run[p].pc \in Started \cup {"gate"} /\ tx'.rbDone = run[p].tx.rbDone
  PROVE  NInv'
<1>1. run'[p] = Idle /\ \A q \in Procs \ {p} : run'[q] = run[q]
  BY TypeParts
<1>2. NoteOK(run'[p], tx', host', partial')
  BY <1>1 DEF Idle, NoteOK, Started
<1>3. Unrolled(tx', host') /\ ("container" \in host' => Noted(tx', partial'))
  BY NotesKept, UnrolledKept
<1> QED
  BY <1>1, <1>2, <1>3, NoteFrame

\* A process goes on that has not reached, or not passed, the start of the container.
LEMMA NoteContinue ==
  ASSUME IInv, NInv, NEW p \in Procs, run[p].pc # "idle", ~Saving(run[p]), NEW r,
         Continue(p, r), "container" \in host' => "container" \in host,
         partial \subseteq partial', Keeps(tx'),
         \/ tx'.rbDone = tx.rbDone
         \/ run[p].pc \in Started \cup {"gate"} /\ tx'.rbDone = run[p].tx.rbDone,
         \/ r.pc \notin Started \cup {"gate"}
         \/ r.tx.rbDone = tx.rbDone
         \/ run[p].pc \in Started \cup {"gate"} /\ r.tx.rbDone = run[p].tx.rbDone,
         r.cmd = "apply" /\ r.cur = start_pe_observe
             /\ (r.pc = "clear" \/ (r.pc \in {"op", "check"} /\ r.k > 3))
           => start_pe_observe \in partial'
  PROVE  NInv'
<1>1. run'[p] = r /\ \A q \in Procs \ {p} : run'[q] = run[q]
  BY TypeParts DEF Continue
<1>2. lock' # NoProc
  BY ConstantsAssumption DEF Continue, IInv, LockHeld
<1>3. Unrolled(tx', host') /\ ("container" \in host' => Noted(tx', partial'))
  BY NotesKept, UnrolledKept
<1>4. r.pc \in Started \cup {"gate"} => Unrolled(r.tx, host')
  BY UnrolledKept
<1>5. NoteOK(r, tx', host', partial')
  BY <1>3, <1>4 DEF NoteOK
<1> QED
  BY <1>1, <1>2, <1>3, <1>5, NoteFrame

\* A process that saves nothing is not between two saves.
LEMMA NotSaving ==
  ASSUME NEW r, r.pc \notin {"snapshot", "save"} \/ r.cmd # "apply"
  PROVE  ~Saving(r)
BY DEF Saving

LEMMA SameKeeps ==
  ASSUME tx' = tx
  PROVE  Keeps(tx')
BY DEF Keeps

----------------------------------------------------------------------------
(* The actions, one by one. *)

LEMMA AcquireNote ==
  ASSUME IInv, NInv, NEW p \in Procs, NEW c \in Commands, Acquire(p, c)
  PROVE  NInv'
<1>1. run'[p] = [Idle EXCEPT !.pc = "open", !.cmd = c] /\ \A q \in Procs \ {p} : run'[q] = run[q]
  BY TypeParts DEF Acquire
<1>2. run'[p].pc = "open"
  BY <1>1 DEF Idle
<1>3. tx' = tx /\ host' = host /\ partial' = partial /\ lock = NoProc
  BY DEF Acquire, disk
<1>4. "container" \in host => Noted(tx, partial)
  BY <1>3 DEF NInv
<1>5. NoteOK(run'[p], tx', host', partial')
  BY <1>2, <1>3, <1>4 DEF NoteOK, Started
<1>6. Unrolled(tx', host')
  BY <1>3 DEF NInv
<1> QED
  BY <1>1, <1>3, <1>4, <1>5, <1>6, NoteFrame

\* The actions that open the transaction and end the process.
LEMMA LeaveNote ==
  ASSUME IInv, NInv, NEW p \in Procs,
         \/ Refuse(p) \/ PlanReplay(p) \/ ApplyFailSafe(p) \/ Status(p) \/ VerifyRemoval(p)
         \/ Enroll(p)
  PROVE  NInv'
<1>1. /\ run[p].pc = "open" /\ run[p].pc # "idle" /\ run' = [run EXCEPT ![p] = Idle]
      /\ partial' = partial
  BY DEF Refuse, PlanReplay, ApplyFailSafe, Status, VerifyRemoval, Enroll, At, Leave, disk
<1>2. "container" \in host' => "container" \in host
  <2>1. host' = host \/ host' \in {host \cup {"enforce"}, host \ {"enforce"}}
    BY DEF Refuse, PlanReplay, ApplyFailSafe, Status, VerifyRemoval, Enroll
  <2> QED
    BY <2>1
<1>3. tx'.rbDone = tx.rbDone /\ Keeps(tx')
  <2>1. tx \in TxRecord
    BY TypeParts DEF DiskType
  <2>2. CASE Refuse(p) \/ PlanReplay(p) \/ Enroll(p)
    BY <2>2, SameKeeps DEF Refuse, PlanReplay, Enroll, disk
  <2>3. CASE ApplyFailSafe(p)
    BY <2>1, <2>3, DiskSaves DEF ApplyFailSafe, TxRecord
  <2>4. CASE VerifyRemoval(p)
    BY <2>1, <2>4, DiskSaves DEF VerifyRemoval, TxRecord
  <2>5. CASE Status(p)
    <3>1. tx' = tx \/ tx' = [tx EXCEPT !.state = "INTERRUPTED", !.mip = FALSE]
      BY <2>5 DEF Status
    <3> QED
      BY <2>1, <2>5, <3>1, DiskSaves DEF TxRecord
  <2> QED
    BY <2>2, <2>3, <2>4, <2>5
<1> QED
  BY <1>1, <1>2, <1>3, NotSaving, NoteLeave

\* The actions that save the copy of the record, or nothing, and end the process.
LEMMA GiveUpNote ==
  ASSUME IInv, NInv, NEW p \in Procs, Leave(p), ErrorSave(p) \/ EndSave(p) \/ ApplyRecheck(p)
  PROVE  NInv'
<1>1. /\ run[p].pc \in Started /\ run[p].pc # "idle" /\ run[p].pc \notin {"snapshot", "save"}
      /\ run' = [run EXCEPT ![p] = Idle] /\ partial' = partial /\ host' = host
  BY DEF ErrorSave, EndSave, ApplyRecheck, At, Started, Leave
<1>2. run[p].tx \in TxRecord
  BY <1>1, OwnCopy
<1>3. tx'.rbDone = tx.rbDone \/ tx'.rbDone = run[p].tx.rbDone
  <2>1. CASE ErrorSave(p)
    BY <1>2, <2>1 DEF ErrorSave, TxRecord
  <2>2. CASE EndSave(p)
    BY <1>2, <2>2 DEF EndSave, TxRecord
  <2>3. CASE ApplyRecheck(p)
    BY <1>2, <2>3 DEF ApplyRecheck, TxRecord
  <2> QED
    BY <2>1, <2>2, <2>3
<1>4. Keeps(tx')
  BY MemorySaves
<1> QED
  BY <1>1, <1>3, <1>4, NotSaving, NoteLeave

LEMMA PlanOpenNote ==
  ASSUME IInv, NInv, NEW p \in Procs, PlanOpen(p)
  PROVE  NInv'
<1>1. /\ run[p].pc = "open" /\ run[p].pc # "idle" /\ host' = host /\ partial' = partial
      /\ run[p] \in Memory /\ tx \in TxRecord /\ NoRecord
  BY TypeParts DEF PlanOpen, At, DiskType
<1>2. PICK r : r = [run[p] EXCEPT !.pc = "gate", !.tx = tx'] /\ Continue(p, r)
  BY DEF PlanOpen
<1>3. tx'.rbDone = tx.rbDone
  BY <1>1 DEF PlanOpen, NoTx, NoRecord
<1>4. r.pc = "gate" /\ r.tx = tx'
  BY <1>1, <1>2 DEF Memory
<1>5. Keeps(tx')
  BY DiskSaves
<1> QED
  BY <1>1, <1>2, <1>3, <1>4, <1>5, NotSaving, NoteContinue

LEMMA PlanGateNote ==
  ASSUME IInv, NInv, NEW p \in Procs, PlanGate(p)
  PROVE  NInv'
<1>1. /\ run[p].pc = "gate" /\ run[p].pc # "idle" /\ host' = host /\ partial' = partial
      /\ run[p] \in Memory /\ run[p].tx \in TxRecord
  BY TypeParts DEF PlanGate, At, Memory
<1>2. PICK gate \in {"PLANNED", "PREFLIGHT_BLOCKED", "UNSUPPORTED"}, lim \in BOOLEAN,
           lsm \in {{}, {"lsm"}} :
        /\ tx' = [run[p].tx EXCEPT !.state = gate, !.phase = "plan", !.owner = FALSE,
                                   !.mip = FALSE, !.limited = lim]
        /\ Continue(p, [run[p] EXCEPT !.pc = "files", !.k = 1, !.tx = tx', !.snap = lsm])
  BY DEF PlanGate
<1>3. PICK r : /\ r = [run[p] EXCEPT !.pc = "files", !.k = 1, !.tx = tx', !.snap = lsm]
               /\ Continue(p, r)
  BY <1>2
<1>4. r.pc = "files"
  BY <1>1, <1>3 DEF Memory
<1>5. tx'.rbDone = run[p].tx.rbDone
  BY <1>1, <1>2 DEF TxRecord
<1>6. Keeps(tx')
  BY MemorySaves
<1>7. r.pc \notin Started \cup {"gate"} /\ r.pc \notin {"clear", "op", "check"}
  BY <1>4 DEF Started
<1> QED
  BY <1>1, <1>3, <1>5, <1>6, <1>7, NotSaving, NoteContinue

LEMMA PlanFileNote ==
  ASSUME IInv, NInv, NEW p \in Procs, PlanFile(p)
  PROVE  NInv'
<1>1. /\ run[p].pc = "files" /\ run[p].pc # "idle" /\ host' = host /\ partial' = partial
      /\ tx' = tx /\ run[p] \in Memory
  BY TypeParts DEF PlanFile, At
<1>2. CASE Leave(p)
  BY <1>1, <1>2, SameKeeps, NotSaving, NoteLeave DEF Leave
<1>3. CASE Continue(p, [run[p] EXCEPT !.k = run[p].k + 1])
  <2>1. PICK j : j = run[p].k + 1
    OBVIOUS
  <2>2. PICK r : r = [run[p] EXCEPT !.k = j] /\ Continue(p, r)
    BY <1>3, <2>1
  <2>3. r.pc = "files"
    BY <1>1, <2>2 DEF Memory
  <2>4. r.pc \notin Started \cup {"gate"} /\ r.pc \notin {"clear", "op", "check"}
    BY <2>3 DEF Started
  <2> QED
    BY <1>1, <2>2, <2>4, SameKeeps, NotSaving, NoteContinue
<1> QED
  BY <1>2, <1>3 DEF PlanFile

\* The actions that open a transaction and go on.
LEMMA OpenNote ==
  ASSUME IInv, NInv, NEW p \in Procs, ApplyOpen(p) \/ RollbackOpen(p) \/ UninstallOpen(p)
  PROVE  NInv'
<1>1. /\ run[p].pc = "open" /\ run[p].pc # "idle" /\ host' = host /\ partial' = partial
      /\ run[p] \in Memory /\ tx \in TxRecord
  BY TypeParts DEF ApplyOpen, RollbackOpen, UninstallOpen, At, DiskType
<1>2. tx'.rbDone = tx.rbDone
  <2>1. CASE ApplyOpen(p)
    BY <1>1, <2>1 DEF ApplyOpen, TxRecord
  <2>2. CASE RollbackOpen(p)
    BY <1>1, <2>2 DEF RollbackOpen, TxRecord
  <2>3. CASE UninstallOpen(p)
    BY <1>1, <2>3 DEF UninstallOpen, TxRecord
  <2> QED
    BY <2>1, <2>2, <2>3
<1>3. Keeps(tx')
  BY DiskSaves
<1>4. CASE Leave(p)
  BY <1>1, <1>2, <1>3, <1>4, NotSaving, NoteLeave DEF Leave
<1>5. ASSUME NEW l \in {"recheck", "next"}, NEW todo,
             Continue(p, [run[p] EXCEPT !.pc = l, !.tx = tx', !.snap = snap, !.todo = todo])
      PROVE  NInv'
  <2>1. PICK r : /\ r = [run[p] EXCEPT !.pc = l, !.tx = tx', !.snap = snap, !.todo = todo]
                 /\ Continue(p, r)
    BY <1>5
  <2>2. r.pc = l /\ r.tx = tx'
    BY <1>1, <2>1 DEF Memory
  <2> QED
    BY <1>1, <1>2, <1>3, <2>1, <2>2, NotSaving, NoteContinue
<1>6. CASE ApplyOpen(p)
  BY <1>4, <1>5, <1>6 DEF ApplyOpen
<1>7. CASE RollbackOpen(p)
  BY <1>5, <1>7 DEF RollbackOpen
<1>8. CASE UninstallOpen(p)
  BY <1>5, <1>8 DEF UninstallOpen
<1> QED
  BY <1>6, <1>7, <1>8

LEMMA ApplyRecheckNote ==
  ASSUME IInv, NInv, NEW p \in Procs, ApplyRecheck(p)
  PROVE  NInv'
<1>1. CASE Leave(p)
  BY <1>1, GiveUpNote
<1>2. CASE Goto(p, "next") /\ tx' = tx
  <2>1. /\ run[p].pc = "recheck" /\ run[p].pc # "idle" /\ run[p].pc \in Started
        /\ host' = host /\ partial' = partial /\ run[p] \in Memory
    BY TypeParts DEF ApplyRecheck, At, Started
  <2>2. PICK r : r = [run[p] EXCEPT !.pc = "next"] /\ Continue(p, r)
    BY <1>2 DEF Goto
  <2>3. r.pc = "next" /\ r.tx = run[p].tx
    BY <2>1, <2>2 DEF Memory
  <2> QED
    BY <1>2, <2>1, <2>2, <2>3, SameKeeps, NotSaving, NoteContinue
<1> QED
  BY <1>1, <1>2 DEF ApplyRecheck

\* The next step: none of its operations has run yet.
LEMMA StepBeginNote ==
  ASSUME IInv, NInv, NEW p \in Procs, StepBegin(p)
  PROVE  NInv'
<1>1. /\ run[p].pc = "next" /\ run[p].pc # "idle" /\ run[p].pc \in Started /\ tx' = tx
      /\ host' = host /\ partial' = partial /\ run[p] \in Memory
  BY TypeParts DEF StepBegin, At, Started, disk
<1>2. PICK s \in run[p].todo : Continue(p, [run[p] EXCEPT !.pc = "op", !.cur = s, !.k = 1])
  BY DEF StepBegin
<1>3. PICK r : r = [run[p] EXCEPT !.pc = "op", !.cur = s, !.k = 1] /\ Continue(p, r)
  BY <1>2
<1>4. r.pc = "op" /\ r.tx = run[p].tx /\ r.k = 1
  BY <1>1, <1>3 DEF Memory
<1>5. ~(r.pc = "clear" \/ (r.pc \in {"op", "check"} /\ r.k > 3))
  BY <1>4
<1> QED
  BY <1>1, <1>3, <1>4, <1>5, SameKeeps, NotSaving, NoteContinue

\* A step of apply that runs no operation is not the one that starts the container.
LEMMA ApplyStepNote ==
  ASSUME IInv, NInv, NEW p \in Procs, ApplyStep(p)
  PROVE  NInv'
<1>1. /\ run[p].pc = "next" /\ run[p].pc # "idle" /\ run[p].pc \in Started /\ tx' = tx
      /\ host' = host /\ partial' = partial /\ run[p] \in Memory /\ run[p].tx \in TxRecord
  BY OwnCopy DEF ApplyStep, At, Started
<1>2. ASSUME NEW s \in {verify_artifacts, mark_applied, collect_health, write_support_index},
             NEW st, Continue(p, [run[p] EXCEPT !.pc = "clear", !.cur = s, !.tx.state = st])
      PROVE  NInv'
  <2>1. PICK r : /\ r = [run[p] EXCEPT !.pc = "clear", !.cur = s, !.tx.state = st]
                 /\ Continue(p, r)
    BY <1>2
  <2>2. r.pc = "clear" /\ r.cur = s /\ r.tx.rbDone = run[p].tx.rbDone
    BY <1>1, <2>1 DEF Memory, TxRecord
  <2>3. r.cur # start_pe_observe
    BY <1>2, <2>2 DEF verify_artifacts, mark_applied, collect_health, write_support_index,
       start_pe_observe
  <2> QED
    BY <1>1, <2>1, <2>2, <2>3, SameKeeps, NotSaving, NoteContinue
<1>3. CASE Continue(p, [run[p] EXCEPT !.pc = "end_save", !.tx.state = "FAILED_SAFE"])
  <2>1. PICK r : /\ r = [run[p] EXCEPT !.pc = "end_save", !.tx.state = "FAILED_SAFE"]
                 /\ Continue(p, r)
    BY <1>3
  <2>2. r.pc = "end_save" /\ r.tx.rbDone = run[p].tx.rbDone
    BY <1>1, <2>1 DEF Memory, TxRecord
  <2> QED
    BY <1>1, <2>1, <2>2, SameKeeps, NotSaving, NoteContinue
<1>4. CASE Continue(p, [run[p] EXCEPT !.pc = "error", !.cur = collect_health, !.rc = "nonzero"])
  <2>1. PICK r : /\ r = [run[p] EXCEPT !.pc = "error", !.cur = collect_health, !.rc = "nonzero"]
                 /\ Continue(p, r)
    BY <1>4
  <2>2. r.pc = "error" /\ r.tx = run[p].tx
    BY <1>1, <2>1 DEF Memory
  <2> QED
    BY <1>1, <2>1, <2>2, SameKeeps, NotSaving, NoteContinue
<1> QED
  BY <1>2, <1>3, <1>4 DEF ApplyStep

LEMMA StepsDoneNote ==
  ASSUME IInv, NInv, NEW p \in Procs, StepsDone(p)
  PROVE  NInv'
<1>1. /\ run[p].pc = "next" /\ run[p].pc # "idle" /\ run[p].pc \in Started /\ tx' = tx
      /\ host' = host /\ partial' = partial /\ run[p] \in Memory
  BY TypeParts DEF StepsDone, At, Started, disk
<1>2. PICK l \in {"end_save", "end_snapshot", "unpin"} : Goto(p, l)
  BY DEF StepsDone
<1>3. PICK r : r = [run[p] EXCEPT !.pc = l] /\ Continue(p, r)
  BY <1>2 DEF Goto
<1>4. r.pc = l /\ r.tx = run[p].tx
  BY <1>1, <1>3 DEF Memory
<1> QED
  BY <1>1, <1>3, <1>4, SameKeeps, NotSaving, NoteContinue

\* What a removal does behind its steps.
LEMMA TailNote ==
  ASSUME IInv, NInv, NEW p \in Procs,
         UnpinRemaining(p) \/ ClearEnforce(p) \/ EndSnapshot(p) \/ EndHealth(p)
  PROVE  NInv'
<1>1. /\ run[p].pc \in {"unpin", "enforce", "end_snapshot", "end_health"}
      /\ run[p].pc \in Started /\ run[p].pc # "idle" /\ tx' = tx /\ partial' = partial
      /\ run[p] \in Memory
  BY TypeParts DEF UnpinRemaining, ClearEnforce, EndSnapshot, EndHealth, At, Started, disk
<1>2. "container" \in host' => "container" \in host
  <2>1. host' \in {host, host \ {"enforce"}}
    BY DEF UnpinRemaining, ClearEnforce, EndSnapshot, EndHealth
  <2> QED
    BY <2>1
<1>3. CASE Continue(p, [run[p] EXCEPT !.pc = "error", !.rc = "nonzero"])
  <2>1. PICK r : r = [run[p] EXCEPT !.pc = "error", !.rc = "nonzero"] /\ Continue(p, r)
    BY <1>3
  <2>2. r.pc = "error" /\ r.tx = run[p].tx
    BY <1>1, <2>1 DEF Memory
  <2> QED
    BY <1>1, <1>2, <2>1, <2>2, SameKeeps, NotSaving, NoteContinue
<1>4. CASE \E l \in {"end_snapshot", "end_health", "end_save"} : Goto(p, l)
  <2>1. PICK l \in {"end_snapshot", "end_health", "end_save"} : Goto(p, l)
    BY <1>4
  <2>2. PICK r : r = [run[p] EXCEPT !.pc = l] /\ Continue(p, r)
    BY <2>1 DEF Goto
  <2>3. r.pc = l /\ r.tx = run[p].tx
    BY <1>1, <2>2 DEF Memory
  <2> QED
    BY <1>1, <1>2, <2>2, <2>3, SameKeeps, NotSaving, NoteContinue
<1>5. CASE Continue(p, [run[p] EXCEPT !.pc = IF "pins" \in host THEN "op" ELSE "enforce",
                                      !.cur = 0, !.k = 1])
  <2>1. PICK l \in {"op", "enforce"} : l = IF "pins" \in host THEN "op" ELSE "enforce"
    OBVIOUS
  <2>2. PICK r : r = [run[p] EXCEPT !.pc = l, !.cur = 0, !.k = 1] /\ Continue(p, r)
    BY <1>5, <2>1
  <2>3. r.pc = l /\ r.tx = run[p].tx /\ r.k = 1
    BY <1>1, <2>2 DEF Memory
  <2>4. ~(r.pc = "clear" \/ (r.pc \in {"op", "check"} /\ r.k > 3))
    BY <2>3
  <2> QED
    BY <1>1, <1>2, <2>2, <2>3, <2>4, SameKeeps, NotSaving, NoteContinue
<1> QED
  BY <1>3, <1>4, <1>5 DEF UnpinRemaining, ClearEnforce, EndSnapshot, EndHealth

\* However an operation ends, the container it may have started is noted on disk, and
\* no record takes it for rolled back.
LEMMA OperationNote ==
  ASSUME IInv, HInv, SInv, NInv, NEW p \in Procs, run[p].pc = "op", NEW op, op = Op(run[p]),
         host' = host \/ (Feasible(op) /\ host' = Complete(op)) \/ host' \in AnyPart(op)
  PROVE  /\ "container" \in host' => Noted(tx, partial)
         /\ Unrolled(tx, host') /\ Unrolled(run[p].tx, host')
<1> DEFINE r == run[p]
<1>1. r.pc \in Started /\ r.pc \in {"op", "check"} /\ r.pc # "idle" /\ ~Saving(r)
  BY DEF Started, Saving
<1>2. /\ "container" \in host => Noted(tx, partial)
      /\ r.cmd = "apply" /\ r.cur = start_pe_observe /\ r.k > 3 => start_pe_observe \in partial
      /\ Unrolled(tx, host) /\ Unrolled(r.tx, host)
  BY <1>1 DEF NInv, NoteOK
<1>3. r \in Memory /\ tx.rbDone \subseteq r.tx.rbDone
  BY <1>1, OwnCopy, CopyKeeps DEF Keeps
<1>4. host' \subseteq host \cup Adds(op)
  BY OpEffect
<1>5. PICK j \in Nat : j = r.k + 1
  BY <1>3 DEF Memory
<1>6. CASE r.cmd = "apply"
  <2>1. r.cur \in APPLY_STEPS /\ r.k \in 1..Len(Ops(r))
    BY <1>1, <1>6, CurrentOp
  <2>2. "container" \in Adds(op) => r.cur = start_pe_observe /\ r.k > 3
    BY <1>3, <1>5, <1>6, <2>1, BuildEffect
  <2>3. r.tx.rbDone = {}
    BY <1>1, <1>6, ApplyClaim DEF BuildOK, Standing
  <2>4. "container" \in host' => Noted(tx, partial)
    BY <1>2, <1>4, <1>6, <2>2 DEF Noted
  <2> QED
    BY <1>3, <2>3, <2>4 DEF Unrolled
<1>7. CASE r.cmd # "apply"
  <2>1. r.cur \in HOST_MUTATION_STEPS \cup {0} /\ r.k \in 1..Len(Ops(r))
    BY <1>1, <1>7, CurrentOp
  <2>2. Adds(op) \subseteq {"profile_text"}
    BY <1>3, <1>5, <1>7, <2>1, RemovalEffect
  <2>3. "container" \in host' => "container" \in host
    BY <1>4, <2>2
  <2> QED
    BY <1>2, <2>3 DEF Unrolled
<1> QED
  BY <1>6, <1>7

LEMMA OpExecNote ==
  ASSUME IInv, HInv, SInv, NInv, NEW p \in Procs, OpExec(p)
  PROVE  NInv'
<1>1. /\ run[p].pc = "op" /\ run[p].pc # "idle" /\ run[p].pc \in Started
      /\ tx' = tx /\ partial' = partial /\ run[p] \in Memory
  BY OwnCopy DEF OpExec, At, Started, disk
<1>2. PICK rc \in {"zero", "nonzero", "timeout"} :
        Continue(p, [run[p] EXCEPT !.pc = "check", !.rc = rc])
  BY DEF OpExec
<1>3. PICK r : r = [run[p] EXCEPT !.pc = "check", !.rc = rc] /\ Continue(p, r)
  BY <1>2
<1>4. PICK op : op = Op(run[p])
  OBVIOUS
<1>5. host' = host \/ (Feasible(op) /\ host' = Complete(op)) \/ host' \in AnyPart(op)
  BY <1>4 DEF OpExec
<1>6. /\ r.pc = "check" /\ r.cmd = run[p].cmd /\ r.cur = run[p].cur /\ r.k = run[p].k
      /\ r.tx = run[p].tx
  BY <1>1, <1>3 DEF Memory
<1>7. /\ "container" \in host' => Noted(tx', partial')
      /\ Unrolled(tx', host') /\ Unrolled(r.tx, host')
  BY <1>1, <1>4, <1>5, <1>6, OperationNote
<1>8. r.cmd = "apply" /\ r.cur = start_pe_observe /\ r.k > 3 => start_pe_observe \in partial'
  BY <1>1, <1>6 DEF NInv, NoteOK
<1>9. NoteOK(r, tx', host', partial')
  BY <1>6, <1>7, <1>8 DEF NoteOK
<1>10. run'[p] = r /\ (\A q \in Procs \ {p} : run'[q] = run[q]) /\ lock' # NoProc
  BY <1>1, <1>3, TypeParts, ConstantsAssumption DEF Continue, IInv, LockHeld
<1> QED
  BY <1>1, <1>7, <1>9, <1>10, NoteFrame

\* A killed process leaves the LOCK file: what it did not note, no rollback gets to see.
LEMMA KillNote ==
  ASSUME IInv, HInv, SInv, NInv, NEW p \in Procs, Kill(p)
  PROVE  NInv'
<1>1. /\ run[p].pc # "idle" /\ host' \in Torn(p) /\ tx' = tx /\ lock' = lock /\ lock = p
      /\ run' = [run EXCEPT ![p] = Idle]
  BY DEF Kill, At, disk, IInv, LockHeld
<1>2. Unrolled(tx', host')
  <2>1. CASE run[p].pc = "op"
    <3>1. PICK op : op = Op(run[p])
      OBVIOUS
    <3>2. host' \in AnyPart(op)
      BY <1>1, <2>1, <3>1 DEF Torn, At
    <3> QED
      BY <1>1, <2>1, <3>1, <3>2, OperationNote
  <2>2. CASE run[p].pc # "op"
    BY <1>1, <2>2 DEF Torn, At, NInv
  <2> QED
    BY <2>1, <2>2
<1>3. run'[p] = Idle /\ \A q \in Procs \ {p} : run'[q] = run[q]
  BY <1>1, TypeParts
<1>4. NoteOK(run'[p], tx', host', partial')
  BY <1>3 DEF Idle, NoteOK, Started
<1>5. lock' # NoProc
  BY <1>1, ConstantsAssumption
<1> QED
  BY <1>1, <1>2, <1>3, <1>4, <1>5, NoteFrame

\* Where an apply goes when an operation has been noted.
LEMMA AfterOpNote ==
  ASSUME NEW r \in Memory, r.cmd = "apply", r.pc = "check", r.cur \in APPLY_STEPS,
         r.k \in 1..Len(Ops(r)), NEW q, PARTIAL_ON_EXIT(Op(r)) \subseteq q,
         r.cur = start_pe_observe /\ r.k > 3 => start_pe_observe \in q
  PROVE  /\ AfterOp(r).tx = r.tx
         /\ AfterOp(r).cur = start_pe_observe
              /\ (AfterOp(r).pc = "clear" \/ (AfterOp(r).pc \in {"op", "check"} /\ AfterOp(r).k > 3))
            => start_pe_observe \in q
<1>1. PICK j \in Nat : j = r.k + 1
  BY DEF Memory
<1>2. /\ r.cur = start_pe_observe /\ r.k > 2 =>
           r.k > 3 \/ start_pe_observe \in PARTIAL_ON_EXIT(Op(r))
      /\ r.cur = start_pe_observe /\ ~(r.k < Len(Ops(r))) => r.k > 3
  BY <1>1, BuildEffect
<1>3. CASE r.k < Len(Ops(r))
  <2>1. PICK u : u = [r EXCEPT !.pc = "op", !.k = j] /\ u = AfterOp(r)
    BY <1>1, <1>3 DEF AfterOp
  <2>2. u.pc = "op" /\ u.k = j /\ u.cur = r.cur /\ u.tx = r.tx
    BY <2>1 DEF Memory
  <2>3. j > 3 => r.k > 2
    BY <1>1 DEF Memory
  <2> QED
    BY <1>2, <2>1, <2>2, <2>3
<1>4. CASE ~(r.k < Len(Ops(r)))
  <2>0. r.cur # 0
    BY DEF APPLY_STEPS
  <2>1. PICK u : u = [r EXCEPT !.pc = "clear"] /\ u = AfterOp(r)
    BY <1>4, <2>0 DEF AfterOp, AfterStep
  <2>2. u.pc = "clear" /\ u.cur = r.cur /\ u.tx = r.tx
    BY <2>1 DEF Memory
  <2> QED
    BY <1>2, <1>4, <2>1, <2>2
<1> QED
  BY <1>3, <1>4

LEMMA OpCheckNote ==
  ASSUME IInv, HInv, NInv, NEW p \in Procs, OpCheck(p)
  PROVE  NInv'
<1>1. /\ run[p].pc = "check" /\ run[p].pc \in {"op", "check"} /\ run[p].pc \in Started
      /\ run[p].pc # "idle" /\ tx' = tx /\ host' = host /\ run[p] \in Memory
      /\ run[p].cmd \in LiveCommands
  BY OwnCopy DEF OpCheck, At, Started
<1>2. /\ partial \subseteq partial'
      /\ run[p].rc = "zero" => PARTIAL_ON_EXIT(Op(run[p])) \subseteq partial'
  BY DEF OpCheck
<1>3. ASSUME NEW rc, Continue(p, [run[p] EXCEPT !.pc = "error", !.rc = rc])
      PROVE  NInv'
  <2>1. PICK r : r = [run[p] EXCEPT !.pc = "error", !.rc = rc] /\ Continue(p, r)
    BY <1>3
  <2>2. r.pc = "error" /\ r.tx = run[p].tx
    BY <1>1, <2>1 DEF Memory
  <2> QED
    BY <1>1, <1>2, <2>1, <2>2, SameKeeps, NotSaving, NoteContinue
<1>4. CASE /\ run[p].rc = "zero"
           /\ Continue(p, AfterOp([run[p] EXCEPT !.snap = Delta(Op(run[p]), run[p].snap, host)]))
  <2>1. Delta(Op(run[p]), run[p].snap, host) \subseteq SnapItems
    BY <1>1, DeltaType DEF Memory
  <2>2. PICK r : /\ r = [run[p] EXCEPT !.snap = Delta(Op(run[p]), run[p].snap, host)]
                 /\ Continue(p, AfterOp(r))
    BY <1>4
  <2>3. /\ r \in Memory /\ r.pc = "check" /\ r.cmd = run[p].cmd /\ r.cur = run[p].cur
        /\ r.k = run[p].k /\ r.tx = run[p].tx
    BY <1>1, <2>1, <2>2 DEF Memory
  <2>4. Op(r) = Op(run[p]) /\ Ops(r) = Ops(run[p])
    BY <2>3 DEF Op, Ops
  <2>5. CASE run[p].cmd = "apply"
    <3>1. r.cur \in APPLY_STEPS /\ r.k \in 1..Len(Ops(r))
      BY <1>1, <2>3, <2>4, <2>5, CurrentOp
    <3>2. run[p].cur = start_pe_observe /\ run[p].k > 3 => start_pe_observe \in partial
      BY <1>1, <2>5 DEF NInv, NoteOK
    <3>3. PARTIAL_ON_EXIT(Op(r)) \subseteq partial'
      BY <1>2, <1>4, <2>4
    <3>4. /\ AfterOp(r).tx = run[p].tx
          /\ AfterOp(r).cur = start_pe_observe
               /\ (AfterOp(r).pc = "clear"
                     \/ (AfterOp(r).pc \in {"op", "check"} /\ AfterOp(r).k > 3))
             => start_pe_observe \in partial'
      BY <1>2, <2>3, <2>5, <3>1, <3>2, <3>3, AfterOpNote
    <3> QED
      BY <1>1, <1>2, <2>2, <3>4, SameKeeps, NotSaving, NoteContinue
  <2>6. CASE run[p].cmd # "apply"
    <3>1. r.cmd \in {"rollback", "uninstall"}
      BY <1>1, <2>3, <2>6 DEF LiveCommands
    <3>2. AfterOp(r).cmd = r.cmd /\ AfterOp(r).tx = r.tx
      BY <2>3, <3>1, AfterOpRemoval
    <3>3. AfterOp(r).cmd # "apply" /\ AfterOp(r).tx = run[p].tx
      BY <2>3, <2>6, <3>2
    <3> QED
      BY <1>1, <1>2, <2>2, <3>3, SameKeeps, NotSaving, NoteContinue
  <2> QED
    BY <2>5, <2>6
<1>5. Goto(p, "error") => Continue(p, [run[p] EXCEPT !.pc = "error", !.rc = run[p].rc])
  BY <1>1 DEF Goto, Memory
<1> QED
  BY <1>3, <1>4, <1>5 DEF OpCheck

\* The note of a step goes only when the checkpoint is about to be saved.
LEMMA ClearPartialNote ==
  ASSUME IInv, NInv, NEW p \in Procs, ClearPartial(p)
  PROVE  NInv'
<1>1. /\ run[p].pc = "clear" /\ run[p].pc # "idle" /\ run[p].pc \in Started /\ ~Saving(run[p])
      /\ host' = host /\ tx' = tx /\ run[p] \in Memory /\ run[p].cmd = "apply"
      /\ partial' = partial \ {run[p].cur}
  BY OwnCopy DEF ClearPartial, At, Started, MemoryOK, LabelOK, Saving
<1>2. PICK r : r = [run[p] EXCEPT !.pc = "snapshot"] /\ Continue(p, r)
  BY DEF ClearPartial, Goto
<1>3. r.pc = "snapshot" /\ r.cmd = "apply" /\ r.tx = run[p].tx /\ r.cur = run[p].cur
  BY <1>1, <1>2 DEF Memory
<1>4. NoteOK(run[p], tx, host, partial) /\ Unrolled(tx, host)
  BY DEF NInv
<1>5. ~Saving(r) => r.cur # start_pe_observe
  BY <1>3 DEF Saving
<1>6. r.cur # start_pe_observe /\ Noted(tx, partial) => Noted(tx, partial')
  BY <1>1, <1>3 DEF Noted
<1>7. NoteOK(r, tx', host', partial')
  BY <1>1, <1>3, <1>4, <1>5, <1>6 DEF NoteOK, Started
<1>8. run'[p] = r /\ (\A q \in Procs \ {p} : run'[q] = run[q]) /\ lock' # NoProc
  BY <1>1, <1>2, TypeParts, ConstantsAssumption DEF Continue, IInv, LockHeld
<1> QED
  BY <1>1, <1>4, <1>7, <1>8, NoteFrame

\* A step is taken for rolled back only behind the probe that found nothing of it.
LEMMA SaveSnapshotNote ==
  ASSUME IInv, HInv, NInv, NEW p \in Procs, SaveSnapshot(p)
  PROVE  NInv'
<1>1. /\ run[p].pc = "snapshot" /\ run[p].pc # "idle" /\ run[p].pc \in Started
      /\ host' = host /\ tx' = tx /\ partial' = partial /\ run[p] \in Memory
      /\ run[p].tx \in TxRecord /\ run[p].cmd \in {"apply", "rollback"}
  BY OwnCopy DEF SaveSnapshot, At, Started, MemoryOK, LabelOK
<1>2. NoteOK(run[p], tx, host, partial) /\ Unrolled(tx, host)
  BY DEF NInv
<1>3. PICK r : /\ r = IF run[p].cmd = "apply"
                      THEN [run[p] EXCEPT !.pc = "save", !.tx.done = @ \cup {run[p].cur}]
                      ELSE [run[p] EXCEPT !.pc = "save", !.tx.rbDone = @ \cup {run[p].cur}]
               /\ Continue(p, r)
  BY DEF SaveSnapshot
<1>4. /\ r.pc = "save" /\ r.cmd = run[p].cmd /\ r.cur = run[p].cur
      /\ run[p].cmd = "apply" => r.tx.rbDone = run[p].tx.rbDone
      /\ run[p].cmd = "rollback" => r.tx.rbDone = run[p].tx.rbDone \cup {run[p].cur}
  BY <1>1, <1>3 DEF Memory, TxRecord
<1>5. Saving(r) <=> Saving(run[p])
  BY <1>1, <1>4 DEF Saving
<1>6. Unrolled(r.tx, host)
  <2>1. Unrolled(run[p].tx, host)
    BY <1>1, <1>2 DEF NoteOK
  <2>2. CASE run[p].cmd = "apply"
    BY <1>4, <2>1, <2>2 DEF Unrolled
  <2>3. CASE run[p].cmd = "rollback"
    <3>1. ItemsOf(run[p].cur) \cap host = {}
      BY <1>1, <2>3, OwnHost DEF HostOK, Undone
    <3>2. run[p].cur = start_pe_observe => "container" \notin host
      BY <3>1 DEF ItemsOf, install_optics_cli, install_agent_sdks, stage_pe_archive,
         docker_load, write_observe_config, install_boot_hold, start_pe_observe
    <3> QED
      BY <1>4, <2>1, <2>3, <3>2 DEF Unrolled
  <2> QED
    BY <1>1, <2>2, <2>3
<1>7. NoteOK(r, tx', host', partial')
  BY <1>1, <1>2, <1>4, <1>5, <1>6 DEF NoteOK
<1>8. run'[p] = r /\ (\A q \in Procs \ {p} : run'[q] = run[q]) /\ lock' # NoProc
  BY <1>1, <1>3, TypeParts, ConstantsAssumption DEF Continue, IInv, LockHeld
<1> QED
  BY <1>1, <1>2, <1>7, <1>8, NoteFrame

\* The checkpoint takes the place of the note.
LEMMA SaveTxNote ==
  ASSUME IInv, NInv, NEW p \in Procs, SaveTx(p)
  PROVE  NInv'
<1>1. /\ run[p].pc = "save" /\ run[p].pc # "idle" /\ run[p].pc \in Started
      /\ host' = host /\ partial' = partial /\ tx' = run[p].tx /\ run[p] \in Memory
      /\ MemoryOK(run[p])
  BY OwnCopy DEF SaveTx, At, Started
<1>2. PICK r : /\ r = [run[p] EXCEPT !.pc = "next", !.todo = run[p].todo \ {run[p].cur}]
               /\ Continue(p, r)
  BY DEF SaveTx
<1>3. r.pc = "next" /\ r.tx = run[p].tx
  BY <1>1, <1>2 DEF Memory
<1>4. Unrolled(run[p].tx, host)
  BY <1>1 DEF NInv, NoteOK
<1>5. "container" \in host' => Noted(tx', partial')
  <2>1. CASE Saving(run[p])
    BY <1>1, <2>1 DEF Saving, MemoryOK, StepsOK, Noted
  <2>2. CASE ~Saving(run[p])
    BY <1>1, <2>2, MemorySaves, NotesKept
  <2> QED
    BY <2>1, <2>2
<1>6. NoteOK(r, tx', host', partial')
  BY <1>1, <1>3, <1>4, <1>5 DEF NoteOK
<1>7. run'[p] = r /\ (\A q \in Procs \ {p} : run'[q] = run[q]) /\ lock' # NoProc
  BY <1>1, <1>2, TypeParts, ConstantsAssumption DEF Continue, IInv, LockHeld
<1> QED
  BY <1>1, <1>4, <1>5, <1>6, <1>7, NoteFrame

----------------------------------------------------------------------------
LEMMA InitNote == Init => NInv
BY DEF Init, NInv, NoteOK, NoTx, Idle, Noted, Unrolled, Started

LEMMA NextNote ==
  ASSUME NoUnwind, IInv, HInv, SInv, NInv, [Next]_vars
  PROVE  NInv'
<1>1. CASE UNCHANGED vars
  BY <1>1 DEF vars, disk, NInv
<1>2. CASE Next
  <2>1. PICK p \in Procs : (\E c \in Commands : Acquire(p, c)) \/ Step(p) \/ Unwind(p) \/ Kill(p)
    BY <1>2 DEF Next
  <2>2. ~Unwind(p)
    BY DEF NoUnwind, Unwind, Fault
  <2>3. CASE \E c \in Commands : Acquire(p, c)
    BY <2>3, AcquireNote
  <2>4. CASE Kill(p)
    BY <2>4, KillNote
  <2>5. CASE EndSave(p) \/ ErrorSave(p)
    BY <2>5, GiveUpNote DEF EndSave, ErrorSave
  <2>6. CASE Step(p) /\ ~EndSave(p) /\ ~ErrorSave(p)
    BY <2>6, LeaveNote, PlanOpenNote, PlanGateNote, PlanFileNote, OpenNote, ApplyRecheckNote,
       StepBeginNote, ApplyStepNote, StepsDoneNote, TailNote, OpExecNote, OpCheckNote,
       ClearPartialNote, SaveSnapshotNote, SaveTxNote DEF Step
  <2> QED
    BY <2>1, <2>2, <2>3, <2>4, <2>5, <2>6
<1> QED
  BY <1>1, <1>2

\* While no process is stopped by Ctrl-C, a container on the host is noted on disk as
\* long as no process holds the lock, and no record takes its step for rolled back.
THEOREM NotesInvariance ==
  ASSUME Undisturbed, NoUnwind
  PROVE  Spec => []NInv
<1>1. Init => NInv
  BY InitNote
<1>2. IInv /\ HInv /\ SInv /\ NInv /\ [Next]_vars => NInv'
  BY NextNote
<1> QED
  BY <1>1, <1>2, Invariance, HostInvariance, StandingInvariance, PTL DEF Spec

\* The container is never on a host that no command is working on without being among
\* the steps the next rollback takes: the note is written before the container is
\* started, it goes when the checkpoint is about to be saved, and the steps taken off
\* the list are those whose container is gone.
THEOREM ContainerIsSeen ==
  ASSUME Undisturbed, NoUnwind
  PROVE  Spec => []ContainerSeenByRollback
<1>1. NInv => ContainerSeenByRollback
  <2> SUFFICES ASSUME NInv, lock = NoProc, "container" \in host
               PROVE  start_pe_observe \in Pending
    BY DEF ContainerSeenByRollback
  <2>1. start_pe_observe \in tx.done \cup tx.required \cup partial
    BY DEF NInv, Noted
  <2>2. start_pe_observe \notin tx.rbDone
    BY DEF NInv, Unrolled
  <2>3. start_pe_observe \in HOST_MUTATION_STEPS
    BY DEF HOST_MUTATION_STEPS, start_pe_observe
  <2> QED
    BY <2>1, <2>2, <2>3 DEF Pending
<1> QED
  BY <1>1, NotesInvariance, PTL
=============================================================================
