----------------------------- MODULE GcpProofs ------------------------------
(***************************************************************************)
(* Proofs about the GCP lab: the slot its workflows share, and the battery *)
(* run on one guest.  The two have no state in common.                     *)
(*                                                                         *)
(* The slot, for every number of runs, every life of a VM, every bound on  *)
(* the clock and on the faults, and a sweeper that is armed or not.  A     *)
(* workflow that may create a VM was dispatched with a run number nobody   *)
(* used before (Fresh), and while it holds the slot nobody else can report *)
(* on that number (Unreported).  So a VM never appears behind a report,    *)
(* and what was reported gone was gone when it was said.                   *)
(*                                                                         *)
(* The battery, for every number of repeats, of phases, of boots and of    *)
(* lost tunnels.  Only a reboot makes a boot, and what sets one off has    *)
(* measured a pre on that very boot, unless a new pre has begun (Timers).  *)
(* So once the repeat's reboot is seen no script of an earlier repeat is   *)
(* alive and b1-pre.json is not older than that reboot (Returned), and a   *)
(* post that counts was taken on a later boot than its pre (OwnPost,       *)
(* Boots).  Of the repeats, as long as none has failed, each begins where  *)
(* the one before measured its post (Chain).                               *)
(***************************************************************************)
EXTENDS GcpLab, GcpBattery, FiniteSetTheorems, TLAPS

-----------------------------------------------------------------------------
(* The slot.                                                               *)

Kinds == {"none", "provision", "proof", "teardown", "verify", "sweep"}
Slices == {"", "full", "reboot-pre", "reboot-post"}
Pcs == {"", "upload", "gate", "download", "create", "run", "delete", "teardown", "prove",
        "undo", "verify", "sweep"}

\* The workflow in the slot names a dispatched run.
JobOK ==
    /\ job \in [kind : Kinds, r : Nat, slice : Slices, pc : Pcs, uploaded : BOOLEAN]
    /\ job.kind \in {"provision", "proof", "teardown", "verify"} => job.r \in 1 .. runs

\* The workflows that may create a VM for their run.
Creator == job.kind = "provision" \/ (job.kind = "proof" /\ job.slice # "reboot-post")

\* A VM that is not there has no disk, no label and no expiry.
VmsOK == \A r \in Runs : vms[r].st = "none" => vms[r] = NoVm

\* A run number that was never dispatched has neither a VM nor a report.
Fresh == \A r \in Runs : r > runs => vms[r] = NoVm /\ closed[r] = "open"

\* Nobody has reported on the run of a workflow that may still create its VM,
\* and it creates it before the clock's bound.
Unreported == Creator => closed[job.r] = "open" /\ now <= MaxNow

\* At most one VM runs, without counting.
OneRuns == \A r, s \in Runs : vms[r].st = "RUNNING" /\ vms[s].st = "RUNNING" => r = s

Types ==
    /\ vms \in [Runs -> [st : {"none", "RUNNING", "TERMINATED"}, disk : BOOLEAN,
                         expires : 0 .. MaxNow + Life]]
    /\ objs \in [Runs -> SUBSET Objects]
    /\ closed \in [Runs -> {"open", "VERIFIED_REMOVED", "NOT_REMOVED"}]
    /\ runs \in 0 .. MaxRuns /\ now \in 0 .. MaxNow + Life /\ faults \in 0 .. MaxFaults
    /\ \A r \in Runs : vms[r].st # "none" <=> vms[r].disk

IInv == Types /\ JobOK /\ VmsOK /\ Fresh /\ Unreported /\ OneRuns /\ VerifiedIsGone

-----------------------------------------------------------------------------

LEMMA InitInv == Init => IInv
<1> SUFFICES ASSUME Init PROVE IInv
  OBVIOUS
<1>1. Types
  BY GcpLabAssumption DEF Init, Types, NoVm, Runs, Objects
<1>2. JobOK
  BY DEF Init, JobOK, Idle, Kinds, Slices, Pcs
<1>3. VmsOK /\ Fresh /\ Unreported /\ OneRuns /\ VerifiedIsGone
  BY DEF Init, Idle, VmsOK, Fresh, Unreported, Creator, OneRuns, VerifiedIsGone, NoVm
<1> QED
  BY <1>1, <1>2, <1>3 DEF IInv

LEMMA DispatchInv ==
  ASSUME IInv, UNCHANGED <<vms, objs, closed, now, faults>>,
         job' \in [kind : Kinds, r : Nat, slice : Slices, pc : Pcs, uploaded : BOOLEAN],
         runs' \in {runs, runs + 1}, runs' <= MaxRuns,
         job'.kind \in {"provision", "proof", "teardown", "verify"} => job'.r \in 1 .. runs',
         Creator' => job'.r = runs + 1 /\ job'.r \in Runs /\ now <= MaxNow
  PROVE  IInv'
<1>1. Types'
  BY GcpLabAssumption DEF IInv, Types
<1>3. JobOK'
  BY GcpLabAssumption DEF JobOK
<1>4. VmsOK' /\ OneRuns' /\ VerifiedIsGone'
  BY DEF IInv, VmsOK, OneRuns, VerifiedIsGone
<1>5. Fresh' /\ Unreported'
  BY GcpLabAssumption DEF IInv, Types, Fresh, Unreported, Creator, Runs
<1> QED
  BY <1>1, <1>3, <1>4, <1>5 DEF IInv

\* The workflow in the slot goes on, or leaves it.
GoesOn ==
    /\ job' \in [kind : Kinds, r : Nat, slice : Slices, pc : Pcs, uploaded : BOOLEAN]
    /\ job'.kind = job.kind /\ job'.r = job.r /\ job'.slice = job.slice

Moves == job' = Idle \/ GoesOn

LEMMA MovesJob ==
  ASSUME IInv, Moves, UNCHANGED <<closed, now, runs>>
  PROVE  JobOK' /\ Unreported'
<1>1. CASE job' = Idle
  <2>1. JobOK'
    BY <1>1 DEF JobOK, Idle, Kinds, Slices, Pcs
  <2>2. Unreported'
    BY <1>1 DEF Unreported, Creator, Idle
  <2> QED
    BY <2>1, <2>2
<1>2. CASE GoesOn
  <2>1. JobOK'
    BY <1>2 DEF IInv, JobOK, GoesOn
  <2>2. Unreported'
    BY <1>2 DEF IInv, Unreported, Creator, GoesOn
  <2> QED
    BY <2>1, <2>2
<1> QED
  BY <1>1, <1>2 DEF Moves

\* A step of the workflow in the slot that leaves VMs and reports as they are.
LEMMA StepInv ==
  ASSUME IInv, UNCHANGED <<vms, closed, now, runs>>,
         objs' \in [Runs -> SUBSET Objects], faults' \in 0 .. MaxFaults, Moves
  PROVE  IInv'
<1>1. Types'
  BY DEF IInv, Types
<1>2. JobOK' /\ Unreported'
  BY MovesJob
<1>3. VmsOK' /\ OneRuns' /\ VerifiedIsGone' /\ Fresh'
  BY DEF IInv, VmsOK, OneRuns, VerifiedIsGone, Fresh
<1> QED
  BY <1>1, <1>2, <1>3 DEF IInv

\* Deleting VMs, with a report on one of them or without.
LEMMA DeleteInv ==
  ASSUME IInv, NEW rs \in SUBSET Runs, vms' = Deleted(rs), job' = Idle,
         \/ closed' = closed
         \/ \E r \in rs : r \in 1 .. runs /\ closed' = [closed EXCEPT ![r] = "VERIFIED_REMOVED"],
         objs' \in [Runs -> SUBSET Objects], faults' \in 0 .. MaxFaults, UNCHANGED <<runs, now>>
  PROVE  IInv'
<1>0. \A r \in Runs : vms'[r] = NoVm \/ vms'[r] = vms[r]
  BY DEF Deleted
<1>5. \A r \in rs : vms'[r] = NoVm
  BY DEF Deleted
<1>1. Types'
  BY GcpLabAssumption DEF IInv, Types, Deleted, NoVm
<1>2. JobOK'
  BY DEF JobOK, Idle, Kinds, Slices, Pcs
<1>3. VmsOK' /\ OneRuns'
  BY <1>0 DEF IInv, VmsOK, OneRuns, NoVm
<1>4. Unreported'
  BY DEF Unreported, Creator, Idle
<1>6. VerifiedIsGone' /\ Fresh'
  BY <1>0, <1>5, GcpLabAssumption DEF IInv, Types, VerifiedIsGone, Fresh, Runs
<1> QED
  BY <1>1, <1>2, <1>3, <1>4, <1>6 DEF IInv

\* Creating the VM of the run that holds the slot.
LEMMA CreateInv ==
  ASSUME IInv, Creator, ~slot_occupied, vms' = [vms EXCEPT ![job.r] = NewVm],
         UNCHANGED <<objs, closed, now, runs>>, faults' \in 0 .. MaxFaults, Moves
  PROVE  IInv'
<1>0. job.r \in Runs /\ job.r <= runs /\ closed[job.r] = "open" /\ now <= MaxNow
  BY GcpLabAssumption DEF IInv, JobOK, Creator, Unreported, Types, Runs
<1>1. Types'
  BY <1>0, GcpLabAssumption DEF IInv, Types, NewVm
<1>2. JobOK' /\ Unreported'
  BY MovesJob
<1>3. \A r \in Runs : r # job.r => vms'[r] = vms[r]
  BY <1>0 DEF IInv, Types
<1>4. vms'[job.r] = NewVm
  BY <1>0 DEF IInv, Types
<1>5. VmsOK' /\ VerifiedIsGone'
  BY <1>0, <1>3, <1>4 DEF IInv, VmsOK, VerifiedIsGone, NewVm
<1>6. Fresh'
  BY <1>0, <1>3 DEF IInv, Fresh, Types, Runs
<1>7. OneRuns'
  <2>1. \A r \in Runs : vms[r].st # "RUNNING"
    BY DEF slot_occupied, Listed
  <2> QED
    BY <2>1, <1>3 DEF OneRuns
<1> QED
  BY <1>1, <1>2, <1>5, <1>6, <1>7 DEF IInv

-----------------------------------------------------------------------------
(* One step per action.                                                    *)

LEMMA GoMoves ==
  ASSUME IInv, NEW pc \in Pcs, NEW u \in BOOLEAN,
         \/ Go(pc)
         \/ job' = [job EXCEPT !.pc = pc, !.uploaded = u]
  PROVE  Moves
BY DEF IInv, JobOK, Go, Moves, GoesOn

LEMMA ObjectsType ==
  ASSUME IInv, NEW r \in Runs, NEW os \in SUBSET Objects, objs' = [objs EXCEPT ![r] = os]
  PROVE  objs' \in [Runs -> SUBSET Objects]
BY DEF IInv, Types

LEMMA DeleteObjectsType ==
  ASSUME IInv, NEW r \in Runs, NEW os \in delete_objects(r)
  PROVE  os \in SUBSET Objects
BY DEF IInv, Types, delete_objects

LEMMA FaultType ==
  ASSUME IInv, Fault \/ UNCHANGED faults
  PROVE  faults' \in 0 .. MaxFaults
BY GcpLabAssumption DEF IInv, Types, Fault

LEMMA JobRun ==
  ASSUME IInv, job.kind \in {"provision", "proof", "teardown", "verify"}
  PROVE  job.r \in Runs /\ job.r \in 1 .. runs
BY GcpLabAssumption DEF IInv, JobOK, Types, Runs

LEMMA UploadInv == IInv /\ UploadHandoff => IInv'
<1> SUFFICES ASSUME IInv, UploadHandoff PROVE IInv'
  OBVIOUS
<1>1. Moves
  BY GoMoves DEF UploadHandoff, Pcs
<1>2. objs' \in [Runs -> SUBSET Objects]
  <2>1. \E os \in SUBSET Objects : objs' = [objs EXCEPT ![job.r] = os]
    BY DEF UploadHandoff, Objects
  <2> QED
    BY <2>1, JobRun, ObjectsType DEF UploadHandoff, At
<1>3. faults' \in 0 .. MaxFaults
  BY FaultType DEF UploadHandoff
<1> QED
  BY <1>1, <1>2, <1>3, StepInv DEF UploadHandoff

LEMMA CostGateInv == IInv /\ CostGate => IInv'
<1> SUFFICES ASSUME IInv, CostGate PROVE IInv'
  OBVIOUS
<1>1. Moves
  BY GoMoves DEF CostGate, Pcs, Release, Moves
<1> QED
  BY <1>1, StepInv DEF CostGate, IInv, Types

LEMMA DownloadInv == IInv /\ DownloadHandoff => IInv'
<1> SUFFICES ASSUME IInv, DownloadHandoff PROVE IInv'
  OBVIOUS
<1>1. Moves
  BY GoMoves DEF DownloadHandoff, Pcs
<1>2. objs' \in [Runs -> SUBSET Objects]
  <2>1. job.r \in Runs
    BY JobRun DEF DownloadHandoff, At
  <2> QED
    BY <2>1, ObjectsType, DeleteObjectsType DEF DownloadHandoff
<1>3. faults' \in 0 .. MaxFaults
  BY FaultType DEF DownloadHandoff
<1> QED
  BY <1>1, <1>2, <1>3, StepInv DEF DownloadHandoff

LEMMA CreateInstanceInv == IInv /\ CreateInstance => IInv'
<1> SUFFICES ASSUME IInv, CreateInstance PROVE IInv'
  OBVIOUS
<1>1. Moves
  BY GoMoves DEF CreateInstance, Pcs
<1>2. faults' \in 0 .. MaxFaults
  BY FaultType DEF CreateInstance
<1>3. CASE UNCHANGED vms
  BY <1>1, <1>2, <1>3, StepInv DEF CreateInstance, IInv, Types
<1>4. CASE ~slot_occupied /\ vms' = [vms EXCEPT ![job.r] = NewVm]
  BY <1>1, <1>2, <1>4, CreateInv DEF CreateInstance, At, Creator
<1> QED
  BY <1>3, <1>4 DEF CreateInstance

LEMMA RunGuestInv == IInv /\ RunGuest => IInv'
<1> SUFFICES ASSUME IInv, RunGuest PROVE IInv'
  OBVIOUS
<1>1. Moves
  BY GoMoves DEF RunGuest, Pcs
<1> QED
  BY <1>1, StepInv DEF RunGuest, IInv, Types

LEMMA DeleteHandoffInv == IInv /\ DeleteHandoff => IInv'
<1> SUFFICES ASSUME IInv, DeleteHandoff PROVE IInv'
  OBVIOUS
<1>1. Moves
  BY GoMoves DEF DeleteHandoff, Pcs
<1>2. objs' \in [Runs -> SUBSET Objects]
  <2>1. CASE UNCHANGED objs
    BY <2>1 DEF IInv, Types
  <2>2. CASE \E os \in delete_objects(job.r) : objs' = [objs EXCEPT ![job.r] = os]
    BY <2>2, JobRun, ObjectsType, DeleteObjectsType DEF DeleteHandoff, At
  <2> QED
    BY <2>1, <2>2 DEF DeleteHandoff
<1>3. faults' \in 0 .. MaxFaults
  BY FaultType DEF DeleteHandoff
<1> QED
  BY <1>1, <1>2, <1>3, StepInv DEF DeleteHandoff

LEMMA TeardownInv == IInv /\ teardown_if_present => IInv'
<1> SUFFICES ASSUME IInv, teardown_if_present PROVE IInv'
  OBVIOUS
<1>1. job.r \in Runs /\ job.r \in 1 .. runs
  BY JobRun DEF teardown_if_present, At
<1>2. objs' \in [Runs -> SUBSET Objects]
  BY <1>1, ObjectsType, DeleteObjectsType DEF teardown_if_present
<1>3. faults' \in 0 .. MaxFaults
  BY FaultType DEF teardown_if_present
<1>4. CASE vms' = Deleted({job.r}) /\ closed' = [closed EXCEPT ![job.r] = "VERIFIED_REMOVED"]
  BY <1>1, <1>2, <1>3, <1>4, DeleteInv DEF teardown_if_present, Release
<1>5. CASE UNCHANGED <<vms, closed>>
  BY <1>2, <1>3, <1>5, StepInv DEF teardown_if_present, Release, Moves
<1> QED
  BY <1>4, <1>5 DEF teardown_if_present

LEMMA RunProofInv == IInv /\ RunProof => IInv'
<1> SUFFICES ASSUME IInv, RunProof PROVE IInv'
  OBVIOUS
<1>1. Moves
  BY GoMoves DEF RunProof, Pcs, Release, Moves
<1>2. faults' \in 0 .. MaxFaults /\ objs' \in [Runs -> SUBSET Objects]
  BY DEF RunProof, IInv, Types
<1>3. CASE UNCHANGED vms
  BY <1>1, <1>2, <1>3, StepInv DEF RunProof
<1>4. CASE job.slice # "reboot-post" /\ ~slot_occupied /\ vms' = [vms EXCEPT ![job.r] = NewVm]
  BY <1>1, <1>2, <1>4, CreateInv DEF RunProof, At, Creator
<1> QED
  BY <1>3, <1>4 DEF RunProof

LEMMA TeardownNamedInv == IInv /\ TeardownNamed => IInv'
<1> SUFFICES ASSUME IInv, TeardownNamed PROVE IInv'
  OBVIOUS
<1>1. job.r \in Runs /\ job.r \in 1 .. runs
  BY JobRun DEF TeardownNamed, At
<1>2. faults' \in 0 .. MaxFaults /\ objs' \in [Runs -> SUBSET Objects]
  BY FaultType DEF TeardownNamed, IInv, Types
<1>3. CASE vms' = Deleted({job.r}) /\ closed' = [closed EXCEPT ![job.r] =
                          IF job.r \in Listed THEN "VERIFIED_REMOVED" ELSE @]
  <2>1. closed' = closed \/ closed' = [closed EXCEPT ![job.r] = "VERIFIED_REMOVED"]
    BY <1>1, <1>3 DEF IInv, Types
  <2> QED
    BY <2>1, <1>1, <1>2, <1>3, DeleteInv DEF TeardownNamed, Release
<1>4. CASE UNCHANGED <<vms, closed>>
  BY <1>2, <1>4, StepInv DEF TeardownNamed, Release, Moves
<1> QED
  BY <1>3, <1>4 DEF TeardownNamed

LEMMA ExecuteTeardownInv == IInv /\ execute_teardown => IInv'
<1> SUFFICES ASSUME IInv, execute_teardown PROVE IInv'
  OBVIOUS
<1>1. job.r \in Runs
  BY JobRun DEF execute_teardown, At
<1>2. faults' \in 0 .. MaxFaults /\ objs' \in [Runs -> SUBSET Objects]
  BY FaultType DEF execute_teardown, IInv, Types
<1>3. CASE vms' = Deleted({job.r})
  BY <1>1, <1>2, <1>3, DeleteInv DEF execute_teardown, Release
<1>4. CASE UNCHANGED vms
  BY <1>2, <1>4, StepInv DEF execute_teardown, Release, Moves
<1> QED
  BY <1>3, <1>4 DEF execute_teardown

\* What execute_verify reports of a run is true of it.
LEMMA ExecuteVerifyInv == IInv /\ execute_verify => IInv'
<1> SUFFICES ASSUME IInv, execute_verify PROVE IInv'
  OBVIOUS
<1>1. job.r \in Runs /\ job.r \in 1 .. runs
  BY JobRun DEF execute_verify, At
<1>2. faults' \in 0 .. MaxFaults
  BY FaultType DEF execute_verify
<1>3. CASE closed' = [closed EXCEPT ![job.r] = removal_status(job.r)]
  <2>1. removal_status(job.r) = "VERIFIED_REMOVED" => vms[job.r] = NoVm
    BY <1>1 DEF removal_status, IInv, Types, VmsOK
  <2>2. Types'
    BY <1>2, <1>3 DEF execute_verify, IInv, Types, removal_status
  <2>3. JobOK' /\ Unreported'
    BY DEF execute_verify, Release, JobOK, Unreported, Creator, Idle, Kinds, Slices, Pcs
  <2>4. VmsOK' /\ OneRuns'
    BY DEF execute_verify, IInv, VmsOK, OneRuns
  <2>5. VerifiedIsGone' /\ Fresh'
    BY <1>1, <1>3, <2>1 DEF execute_verify, IInv, Types, VerifiedIsGone, Fresh, Runs
  <2> QED
    BY <2>2, <2>3, <2>4, <2>5 DEF IInv
<1>4. CASE UNCHANGED closed
  BY <1>2, <1>4, StepInv DEF execute_verify, Release, Moves, IInv, Types
<1> QED
  BY <1>3, <1>4 DEF execute_verify

LEMMA ExecuteSweepInv == IInv /\ execute_sweep => IInv'
<1> SUFFICES ASSUME IInv, execute_sweep PROVE IInv'
  OBVIOUS
<1>1. \E rs \in SUBSET Runs : vms' = Deleted(rs)
  BY DEF execute_sweep, Listed
<1>2. faults' \in 0 .. MaxFaults /\ objs' \in [Runs -> SUBSET Objects]
  BY FaultType DEF execute_sweep, IInv, Types
<1> QED
  BY <1>1, <1>2, DeleteInv DEF execute_sweep, Release

LEMMA RunnerLostInv == IInv /\ RunnerLost => IInv'
<1> SUFFICES ASSUME IInv, RunnerLost PROVE IInv'
  OBVIOUS
<1>1. Moves
  BY GoMoves DEF RunnerLost, Pcs, Release, Moves
<1> QED
  BY <1>1, FaultType, StepInv DEF RunnerLost, IInv, Types

LEMMA TickInv == IInv /\ Tick => IInv'
<1> SUFFICES ASSUME IInv, Tick PROVE IInv'
  OBVIOUS
<1>1. Types' /\ JobOK'
  BY GcpLabAssumption DEF Tick, IInv, Types, JobOK
<1>2. VmsOK' /\ Fresh' /\ OneRuns' /\ VerifiedIsGone'
  BY DEF Tick, IInv, VmsOK, Fresh, OneRuns, VerifiedIsGone
<1>3. Unreported'
  BY GcpLabAssumption DEF Tick, IInv, Types, Unreported, Creator
<1> QED
  BY <1>1, <1>2, <1>3 DEF IInv

LEMMA GuestStopsInv == ASSUME NEW r \in Runs PROVE IInv /\ GuestStops(r) => IInv'
<1> SUFFICES ASSUME IInv, GuestStops(r) PROVE IInv'
  OBVIOUS
<1>1. Types' /\ JobOK'
  BY DEF GuestStops, IInv, Types, JobOK
<1>2. /\ \A s \in Runs : s # r => vms'[s] = vms[s]
      /\ vms[r].st = "RUNNING" /\ vms'[r].st = "TERMINATED"
  BY DEF GuestStops, IInv, Types
<1>4. VmsOK' /\ OneRuns'
  BY <1>2 DEF IInv, VmsOK, OneRuns
<1>5. Fresh' /\ VerifiedIsGone'
  BY <1>2 DEF GuestStops, IInv, Fresh, VerifiedIsGone, NoVm
<1>3. Unreported'
  BY DEF GuestStops, IInv, Unreported, Creator
<1> QED
  BY <1>1, <1>3, <1>4, <1>5 DEF IInv

LEMMA DispatchesInv ==
  ASSUME IInv,
         \/ DispatchProvision \/ DispatchSweep
         \/ \E slice \in {"full", "reboot-pre", "reboot-post"}, r \in Runs : DispatchProof(slice, r)
         \/ \E kind \in {"teardown", "verify"}, r \in Runs : DispatchClose(kind, r)
  PROVE  IInv'
<1>0. runs \in Nat /\ runs <= MaxRuns /\ MaxRuns \in Nat
  BY GcpLabAssumption DEF IInv, Types
<1>1. CASE DispatchProvision
  <2>0. PICK n \in Nat : n = runs + 1
    BY <1>0
  <2>1. job' = [kind |-> "provision", r |-> n, slice |-> "", pc |-> "upload", uploaded |-> FALSE]
    BY <1>1, <2>0 DEF DispatchProvision, Dispatch, Idle
  <2>2. job' \in [kind : Kinds, r : Nat, slice : Slices, pc : Pcs, uploaded : BOOLEAN]
    BY <2>1 DEF Kinds, Slices, Pcs
  <2>3. runs' = runs + 1 /\ runs < MaxRuns /\ now <= MaxNow
    BY <1>1 DEF DispatchProvision
  <2>4. job'.r = n
    BY <2>1
  <2>5. n \in Runs /\ n \in 1 .. runs'
    BY <1>0, <2>0, <2>3 DEF Runs
  <2>6. UNCHANGED <<vms, objs, closed, now, faults>>
    BY <1>1 DEF DispatchProvision, Dispatch
  <2> QED
    BY <1>0, <2>0, <2>2, <2>3, <2>4, <2>5, <2>6, DispatchInv
<1>2. CASE DispatchSweep
  <2>1. job' = [kind |-> "sweep", r |-> 0, slice |-> "", pc |-> "sweep", uploaded |-> FALSE]
    BY <1>2 DEF DispatchSweep, Dispatch, Idle
  <2>2. job' \in [kind : Kinds, r : Nat, slice : Slices, pc : Pcs, uploaded : BOOLEAN]
    BY <2>1 DEF Kinds, Slices, Pcs
  <2> QED
    BY <1>0, <1>2, <2>1, <2>2, DispatchInv DEF DispatchSweep, Dispatch, Creator
<1>3. ASSUME NEW slice \in {"full", "reboot-pre", "reboot-post"}, NEW r \in Runs, DispatchProof(slice, r)
      PROVE  IInv'
  <2>1. job' = [kind |-> "proof", r |-> r, slice |-> slice, pc |-> "gate", uploaded |-> FALSE]
    BY <1>3 DEF DispatchProof, Dispatch, Idle
  <2>0. r \in Nat
    BY <1>0 DEF Runs
  <2>2. job' \in [kind : Kinds, r : Nat, slice : Slices, pc : Pcs, uploaded : BOOLEAN]
    BY <2>0, <2>1 DEF Kinds, Slices, Pcs
  <2>3. slice = "reboot-post" => r \in 1 .. runs /\ runs' = runs
    BY <1>0, <1>3 DEF DispatchProof, IInv, Types, Listed, Fresh, NoVm, Runs
  <2>4. slice # "reboot-post" => r = runs + 1 /\ runs' = runs + 1 /\ runs < MaxRuns /\ now <= MaxNow
    BY <1>3 DEF DispatchProof
  <2>5. Creator' => slice # "reboot-post"
    BY <2>1 DEF Creator
  <2>6. runs' \in {runs, runs + 1} /\ runs' <= MaxRuns /\ r \in 1 .. runs'
    BY <1>0, <2>0, <2>3, <2>4
  <2>7. UNCHANGED <<vms, objs, closed, now, faults>> /\ job'.r = r
    BY <1>3, <2>1 DEF DispatchProof, Dispatch
  <2> QED
    BY <2>2, <2>4, <2>5, <2>6, <2>7, DispatchInv
<1>4. ASSUME NEW kind \in {"teardown", "verify"}, NEW r \in Runs, DispatchClose(kind, r)
      PROVE  IInv'
  <2>1. job' = [kind |-> kind, r |-> r, slice |-> "", pc |-> kind, uploaded |-> FALSE]
    BY <1>4 DEF DispatchClose, Dispatch, Idle
  <2>0. r \in Nat
    BY <1>0 DEF Runs
  <2>2. job' \in [kind : Kinds, r : Nat, slice : Slices, pc : Pcs, uploaded : BOOLEAN]
    BY <2>0, <2>1 DEF Kinds, Slices, Pcs
  <2> QED
    BY <1>0, <1>4, <2>1, <2>2, DispatchInv DEF DispatchClose, Dispatch, Creator
<1> QED
  BY <1>1, <1>2, <1>3, <1>4

-----------------------------------------------------------------------------
(* The theorems.                                                           *)

\* The invariant behind the two theorems that follow.
THEOREM Invariance == Spec => []IInv
<1>1. IInv /\ [Next]_vars => IInv'
  <2> SUFFICES ASSUME IInv, [Next]_vars PROVE IInv'
    OBVIOUS
  <2>1. CASE UNCHANGED vars
    BY <2>1 DEF vars, IInv, Types, JobOK, VmsOK, Fresh, Unreported, Creator, OneRuns, VerifiedIsGone
  <2>2. CASE Next
    BY <2>2, UploadInv, CostGateInv, DownloadInv, CreateInstanceInv, RunGuestInv, DeleteHandoffInv,
       TeardownInv, RunProofInv, TeardownNamedInv, ExecuteTeardownInv, ExecuteVerifyInv,
       ExecuteSweepInv, RunnerLostInv, TickInv, GuestStopsInv, DispatchesInv DEF Next, Step
  <2> QED
    BY <2>1, <2>2
<1> QED
  BY InitInv, <1>1, PTL DEF Spec

\* VERIFIED_REMOVED, by a teardown job or by verify-removed (removal_status in
\* lab_auto.py), is true of the run it was said of, from then on.
THEOREM VerifiedIsTrue == Spec => []VerifiedIsGone
<1>1. IInv => VerifiedIsGone
  BY DEF IInv
<1> QED
  BY <1>1, Invariance, PTL

\* Type correctness, with at most one VM running in the slot: create_instance
\* reads the list again before it creates, and the slot admits one workflow.
THEOREM TypeCorrect == Spec => []TypeOK
<1>1. IInv => TypeOK
  <2> SUFFICES ASSUME IInv PROVE TypeOK
    OBVIOUS
  <2>1. Cardinality({r \in Runs : vms[r].st = "RUNNING"}) <= 1
    <3> DEFINE S == {r \in Runs : vms[r].st = "RUNNING"}
    <3>1. CASE S = {}
      BY <3>1, FS_EmptySet
    <3>2. CASE S # {}
      <4>1. PICK r : S = {r}
        BY <3>2 DEF IInv, OneRuns
      <4> QED
        BY <4>1, FS_Singleton
    <3> QED
      BY <3>1, <3>2
  <2> QED
    BY <2>1 DEF IInv, Types, TypeOK
<1> QED
  BY <1>1, Invariance, PTL

-----------------------------------------------------------------------------
(* The battery run.                                                        *)

RowKinds == Modes \cup {"none", "lsm"}
Words == {"none", "FAIL", "GUARD_PROVED", "LSM_ENABLED", "LSM_ALREADY_ACTIVE"}
RowFiles == [kind : RowKinds, n : Nat, boot : Nat, ok : BOOLEAN, word : Words, bpf : BOOLEAN,
          preN : Nat, preBoot : Nat]
PreFiles == [n : Nat, boot : Nat, ok : BOOLEAN]
Guests == [up : BOOLEAN, boot : Nat, bpf : BOOLEAN, stock : BOOLEAN, menu : BOOLEAN,
           record : BOOLEAN, rows : RowFiles, pre : PreFiles, timer : BOOLEAN, inst : BOOLEAN,
           stray : BOOLEAN]
Jobs == [mode : Modes, n : Nat, at : {"start", "work", "tail", "tailFail"}, own : BOOLEAN]
Summaries == [n : Nat, ent : BOOLEAN, hold : BOOLEAN, desc : BOOLEAN, b1 : BOOLEAN,
              observed : BOOLEAN, entN : Nat, postN : Nat, preN : Nat, preBoot : Nat,
              postBoot : Nat]

\* The stages of the runner: before the repeats, in one, and in one whose pre was
\* called, and after the repeats.
Early == {"hu", "before", "guard", "waitGuard", "confirm"}
Late == {"pre", "waitReboot", "post"}
Loop == {"repeat", "enterprise"} \cup Late
Rest == {"marks", "2d", "2c", "unin", "phaseHead", "phase", "phaseUnin", "final", "done"}
Runners == [pc : Early \cup Loop \cup Rest, n : Nat, tries : 0 .. 3, rc : Nat, py : Nat,
         before : Nat, after : Nat, lsm : {"missing", "already_active", "lsm_enabled"},
         s : Summaries, passed : BOOLEAN, marks : BOOLEAN, pid : BOOLEAN, loader : BOOLEAN,
         clean : BOOLEAN, blocked : BOOLEAN,
         verified : BOOLEAN, row : BOOLEAN, phases : Seq(BOOLEAN),
         exit : {"none", "h_u", "lsm", "rows_missing", "safety", "battery", "loader",
                 "uninstall", "phases", "pass"}]

GuestTypes ==
    /\ guest \in Guests
    /\ jobs \subseteq Jobs
    /\ run \in Runners
    /\ repeats \in Seq(Summaries)
    /\ drops \in 0 .. MaxDrops

Scripts ==
    /\ \A j \in jobs : j.own => /\ j.mode = ModeAt(run.pc) /\ j.n = run.n
                                /\ run.pc \in CallPcs /\ run.tries \in {1, 2}
    /\ \A j, k \in jobs : j.own /\ k.own => j = k
    /\ \A j \in jobs : ~j.own => guest.stray

Boots ==
    /\ guest.boot >= 1 /\ guest.rows.boot <= guest.boot /\ guest.pre.boot <= guest.boot
    /\ guest.pre.boot = 0 => guest.pre = NoPre
    /\ guest.rows.kind = "post" /\ guest.rows.ok => guest.rows.preBoot < guest.rows.boot

Prepares ==
    run.pc \in Early =>
        /\ guest.pre = NoPre /\ guest.rows.kind \in {"none", "lsm"}
        /\ \A j \in jobs : j.mode = "lsm-guard" /\ j.n = 1
        /\ repeats = <<>> /\ run.n = 1

\* Whatever sets off a reboot measured a pre on this boot, unless it is the guard's
\* own or a new pre has begun.
ThisBoot == guest.pre.boot \in {0, guest.boot}
Timers ==
    /\ \A j \in jobs : j.mode = "lsm-guard" => ThisBoot
    /\ \A j \in jobs : j.mode = "pre" /\ j.at \in {"tail", "tailFail"} => ThisBoot
    /\ guest.timer => ThisBoot

Counts ==
    /\ \A i \in DOMAIN repeats : repeats[i].n = i
    /\ Len(repeats) <= Repeats /\ run.n >= 1 /\ run.n <= Repeats + 1
    /\ run.pc \in Loop => Len(repeats) = run.n - 1
    /\ run.pc \in Late \cup {"enterprise"} => run.n <= Repeats /\ ~run.s.observed
    /\ run.pc \in Late => run.s.n = run.n
    /\ run.pc = "waitReboot" => run.tries = 0

Rebooted == run.pc \in Late /\ guest.boot > run.before

\* What is on the guest after the reboot that this repeat waits for.
Returned ==
    /\ run.pc \in Late => run.before >= 1 /\ run.before <= guest.boot
    /\ run.pc = "post" => run.before < guest.boot
    /\ Rebooted => \A j \in jobs : j.n = run.n /\ j.mode \in {"pre", "post"}
    /\ Rebooted /\ guest.pre.boot # 0 => guest.pre.boot >= run.before
    /\ run.pc \in Late /\ guest.pre.boot > run.before => guest.pre.n = run.n
    /\ run.pc \in Late /\ guest.rows.kind = "post" /\ guest.rows.boot > run.before => guest.rows.n = run.n

RowsNew == guest.rows.kind = "post" => guest.rows.boot > run.before
OwnPost ==
    run.pc = "post" =>
        /\ \A j \in jobs : j.own /\ j.at = "tail" => RowsNew
        /\ run.tries = 3 /\ Zero => RowsNew

\* While no repeat has failed.
AllPass == \A i \in DOMAIN repeats : RepeatPasses(repeats[i])
Floor == IF run.n = 1 THEN 0 ELSE repeats[run.n - 1].postBoot
Near(n) == n \in {run.n - 1, run.n} \ {0}

Chain ==
    AllPass /\ run.pc \in Loop =>
        /\ Floor <= guest.boot
        /\ run.pc \in Late => Floor <= run.before /\ (run.s.hold => run.s.entN = run.n)
        /\ \A j \in jobs : Near(j.n) /\ (j.mode = "enterprise" => j.n = run.n)
        /\ guest.rows.kind = "enterprise" => guest.rows.n = run.n
        /\ guest.pre.boot # 0 /\ guest.pre.boot >= Floor => Near(guest.pre.n)
        /\ run.pc \in Late /\ guest.rows.kind = "post" /\ guest.rows.ok
           /\ guest.rows.boot > run.before
             => guest.rows.preBoot >= run.before /\ Near(guest.rows.preN)

EarnedAt(i) ==
    /\ repeats[i].postN = i /\ repeats[i].preN \in {i - 1, i} \ {0}
    /\ repeats[i].preBoot < repeats[i].postBoot
    /\ repeats[i].hold => repeats[i].entN = i
    /\ i > 1 => repeats[i - 1].postBoot <= repeats[i].preBoot
Earned == AllPass => \A i \in DOMAIN repeats : EarnedAt(i)

Passed == run.passed => full_set_passes /\ run.pc \in Rest \ {"marks"}

Cleaned ==
    /\ run.verified => run.tries = 3
    /\ ~guest.stray /\ (run.verified \/ (run.pc = "phaseHead" /\ ~run.blocked)
                        \/ (run.pc = "phase" /\ run.tries = 0)) => ~guest.inst

PhaseCount ==
    /\ Len(run.phases) <= Len(Phases)
    /\ run.pc \in {"phase", "phaseUnin"} => Len(run.phases) < Len(Phases)

JobNs == \A j \in jobs : j.n \in 1 .. Repeats + 1
BootCap == guest.boot <= MaxBoots

BatteryInv ==
    /\ GuestTypes /\ Scripts /\ Boots /\ Prepares /\ Timers /\ Counts /\ Returned /\ OwnPost
    /\ Chain /\ Earned /\ Passed /\ Cleaned /\ PhaseCount /\ JobNs /\ BootCap

-----------------------------------------------------------------------------

LEMMA BatteryInitInv == BatteryInit => BatteryInv
<1> SUFFICES ASSUME BatteryInit PROVE BatteryInv
  OBVIOUS
<1> USE BatteryAssumption
<1> PICK stock \in BOOLEAN :
       guest = [up |-> TRUE, boot |-> 1, bpf |-> stock, stock |-> stock, menu |-> stock,
                record |-> FALSE, rows |-> NoRows, pre |-> NoPre,
                timer |-> FALSE, inst |-> FALSE, stray |-> FALSE]
  BY DEF BatteryInit
<1>0. /\ NoRows \in RowFiles /\ NoPre \in PreFiles
      /\ NoRows.kind = "none" /\ NoRows.boot = 0 /\ NoPre.boot = 0
  BY DEF NoRows, NoPre, RowFiles, PreFiles, RowKinds, Words
<1>1. GuestTypes
  <2>1. guest \in Guests
    BY <1>0 DEF Guests
  <2>2. run \in Runners
    BY DEF BatteryInit, NoRepeat, NoPy, Runners, Summaries, Early, Loop, Late, Rest
  <2> QED  BY <2>1, <2>2 DEF BatteryInit, GuestTypes
<1>2. Scripts /\ Timers /\ JobNs
  BY DEF BatteryInit, Scripts, Timers, JobNs
<1>3. Prepares /\ Cleaned
  BY <1>0 DEF BatteryInit, Prepares, Cleaned
<1>4. Boots /\ BootCap
  BY <1>0 DEF Boots, BootCap
<1>5. Counts /\ Returned /\ OwnPost /\ Chain /\ Passed
  BY DEF BatteryInit, Counts, Returned, Rebooted, OwnPost, Chain, Passed, Loop, Late
<1>6. Earned
  BY DEF BatteryInit, Earned
<1>7. PhaseCount
  BY DEF BatteryInit, PhaseCount
<1> QED  BY <1>1, <1>2, <1>3, <1>4, <1>5, <1>6, <1>7 DEF BatteryInv

\* The script of a call is the one its place in the runner names.
LEMMA CallMode ==
  ASSUME GuestTypes, PhaseCount, run.pc \in CallPcs
  PROVE  /\ ModeAt(run.pc) \in Modes
         /\ run.pc \in Early <=> ModeAt(run.pc) = "lsm-guard"
         /\ run.pc \in {"enterprise", "pre", "post"} => ModeAt(run.pc) = run.pc
         /\ ModeAt(run.pc) \in {"enterprise", "pre", "post"} => run.pc = ModeAt(run.pc)
<1>1. CASE run.pc = "phase"
  <2>1. Len(run.phases) + 1 \in 1 .. Len(Phases)
    BY <1>1, BatteryAssumption DEF GuestTypes, Runners, PhaseCount
  <2>2. Phase \in Range(Phases)
    BY <2>1, BatteryAssumption DEF Phase, Range
  <2>3. ModeAt(run.pc) = Phase
    BY <1>1 DEF ModeAt
  <2> QED  BY <1>1, <2>2, <2>3, BatteryAssumption DEF Modes, PhaseModes, Early
<1>2. CASE run.pc # "phase"
  BY <1>2 DEF ModeAt, CallPcs, Modes, Early
<1> QED  BY <1>1, <1>2

-----------------------------------------------------------------------------
(* Steps of the runner on its own.                                         *)

RunnerOnly == guest' = guest /\ jobs' = jobs /\ repeats' = repeats /\ drops' = drops
Unowned == \A j \in jobs : ~j.own

LEMMA Quiet ==
  ASSUME BatteryInv, RunnerOnly, Unowned, run' \in Runners
  PROVE  /\ GuestTypes' /\ Scripts' /\ Boots' /\ Timers' /\ Earned' /\ JobNs' /\ BootCap'
         /\ AllPass' <=> AllPass
         /\ full_set_passes' <=> full_set_passes
<1> USE DEF RunnerOnly
<1>1. GuestTypes'
  BY DEF BatteryInv, GuestTypes
<1>2. Scripts'
  BY DEF BatteryInv, Scripts, Unowned
<1>3. Boots' /\ Timers' /\ BootCap'
  BY DEF BatteryInv, Boots, Timers, ThisBoot, BootCap
<1>4. JobNs'
  BY DEF BatteryInv, JobNs
<1>5. AllPass' <=> AllPass
  BY DEF AllPass
<1>6. Earned'
  BY <1>5 DEF BatteryInv, Earned, EarnedAt
<1>7. full_set_passes' <=> full_set_passes
  BY DEF full_set_passes
<1> QED  BY <1>1, <1>2, <1>3, <1>4, <1>5, <1>6, <1>7

\* After the repeats.
LEMMA RestStep ==
  ASSUME BatteryInv, RunnerOnly, Unowned, run' \in Runners,
         run'.pc \in Rest, run'.n = run.n,
         run'.passed => full_set_passes /\ run'.pc # "marks",
         Cleaned', PhaseCount'
  PROVE  BatteryInv'
<1>1. /\ GuestTypes' /\ Scripts' /\ Boots' /\ Timers' /\ Earned' /\ JobNs' /\ BootCap'
      /\ full_set_passes' <=> full_set_passes
  BY Quiet
<1>2. Prepares' /\ Returned' /\ OwnPost' /\ Chain'
  BY DEF Prepares, Returned, Rebooted, OwnPost, Chain, Early, Loop, Late, Rest
<1>3. Counts'
  BY DEF BatteryInv, Counts, RunnerOnly, Loop, Late, Rest
<1>4. Passed'
  BY <1>1 DEF Passed
<1> QED  BY <1>1, <1>2, <1>3, <1>4 DEF BatteryInv

\* The end of a run.
LEMMA ExitStep ==
  ASSUME BatteryInv, RunnerOnly, Unowned,
         NEW code \in {"h_u", "lsm", "rows_missing", "safety", "battery", "loader",
                       "uninstall", "phases", "pass"},
         Exit(code)
  PROVE  BatteryInv'
<1> USE DEF Exit
<1>1. run \in Runners  BY DEF BatteryInv, GuestTypes
<1>2. run' \in Runners /\ run'.pc = "done" /\ run'.n = run.n /\ run'.passed = run.passed
  BY <1>1 DEF Runners, Rest
<1>3. run'.passed => full_set_passes /\ run'.pc # "marks"
  BY <1>2 DEF BatteryInv, Passed
<1>4. Cleaned'
  BY <1>1 DEF BatteryInv, Cleaned, RunnerOnly, Runners
<1>5. PhaseCount'
  BY <1>1 DEF BatteryInv, PhaseCount, Runners
<1> QED  BY <1>2, <1>3, <1>4, <1>5, RestStep DEF Rest

\* Before the repeats.
LEMMA EarlyStep ==
  ASSUME BatteryInv, RunnerOnly, Unowned, run' \in Runners, run.pc \in Early,
         run'.pc \in Early \cup {"repeat"}, run'.n = run.n, run'.passed = run.passed,
         run'.verified => run'.tries = 3 /\ run.verified, run'.phases = run.phases
  PROVE  BatteryInv'
<1>1. /\ GuestTypes' /\ Scripts' /\ Boots' /\ Timers' /\ Earned' /\ JobNs' /\ BootCap'
      /\ AllPass' <=> AllPass
  BY Quiet
<1> USE DEF RunnerOnly, Early, Loop, Late, Rest
<1>2. Prepares'
  BY DEF BatteryInv, Prepares
<1>3. Counts'
  BY BatteryAssumption DEF BatteryInv, Prepares, Counts
<1>4. Returned' /\ OwnPost'
  BY DEF Returned, Rebooted, OwnPost
<1>5. Chain'
  <2>1. /\ guest.pre.boot = 0 /\ guest.rows.kind # "enterprise" /\ run'.n = 1
        /\ \A j \in jobs : j.mode # "enterprise" /\ j.n = 1
    BY DEF BatteryInv, Prepares, NoPre
  <2>2. guest.boot >= 0
    BY DEF BatteryInv, GuestTypes, Guests
  <2>3. Floor' = 0 /\ \A j \in jobs : Near(j.n)'
    BY <2>1 DEF Floor, Near
  <2> QED  BY <2>1, <2>2, <2>3 DEF Chain
<1>6. Passed' /\ PhaseCount' /\ Cleaned'
  BY DEF BatteryInv, Passed, PhaseCount, Cleaned
<1> QED  BY <1>1, <1>2, <1>3, <1>4, <1>5, <1>6 DEF BatteryInv

LEMMA GotUnowned == ASSUME BatteryInv, Got \/ run.pc \notin CallPcs PROVE Unowned
BY DEF BatteryInv, Scripts, Got, Unowned

\* Fields of the runner's state, set one at a time.
LEMMA RunnerFields ==
  ASSUME NEW q \in Runners
  PROVE  /\ \A t \in 0 .. 3 : [q EXCEPT !.tries = t] \in Runners
         /\ \A c \in Nat : [q EXCEPT !.rc = c] \in Runners
         /\ \A c \in Nat : [q EXCEPT !.py = c] \in Runners
         /\ \A v \in BOOLEAN : [q EXCEPT !.verified = v] \in Runners
         /\ \A pc \in Early \cup Loop \cup Rest : [q EXCEPT !.pc = pc] \in Runners
<1>1. \A t \in 0 .. 3 : [q EXCEPT !.tries = t] \in Runners
  BY DEF Runners
<1>2. \A c \in Nat : [q EXCEPT !.rc = c] \in Runners
  BY DEF Runners
<1>3. \A c \in Nat : [q EXCEPT !.py = c] \in Runners
  BY DEF Runners
<1>4. \A v \in BOOLEAN : [q EXCEPT !.verified = v] \in Runners
  BY DEF Runners
<1>5. \A pc \in Early \cup Loop \cup Rest : [q EXCEPT !.pc = pc] \in Runners
  BY DEF Runners
<1> QED  BY <1>1, <1>2, <1>3, <1>4, <1>5

\* What the runner forgets of an answered call, and what it keeps.
LEMMA ThenKeeps ==
  ASSUME run \in Runners, NEW pc \in Early \cup Loop \cup Rest
  PROVE  /\ Then(pc) \in Runners
         /\ Then(pc).pc = pc /\ Then(pc).tries = 0 /\ ~Then(pc).verified
         /\ Then(pc).n = run.n /\ Then(pc).before = run.before /\ Then(pc).s = run.s
         /\ Then(pc).passed = run.passed /\ Then(pc).phases = run.phases
         /\ Then(pc).blocked = run.blocked
<1> DEFINE keep == [run EXCEPT !.pc = pc, !.tries = 0, !.rc = 0, !.py = 9, !.verified = FALSE]
<1>1. Then(pc) = keep
  BY DEF Then, NoPy
<1>2. keep \in Runners
  <2> DEFINE r1 == [run EXCEPT !.pc = pc]
             r2 == [r1 EXCEPT !.tries = 0]
             r3 == [r2 EXCEPT !.rc = 0]
             r4 == [r3 EXCEPT !.py = 9]
             r5 == [r4 EXCEPT !.verified = FALSE]
  <2>1. keep = r5  OBVIOUS
  <2> HIDE DEF r1, r2, r3, r4
  <2>2. r1 \in Runners  BY RunnerFields DEF r1
  <2>3. r2 \in Runners
    <3>1. \A t \in 0 .. 3 : [r1 EXCEPT !.tries = t] \in Runners  BY <2>2, RunnerFields
    <3> QED  BY <3>1 DEF r2
  <2>4. r3 \in Runners  BY <2>3, RunnerFields DEF r3
  <2>5. r4 \in Runners  BY <2>4, RunnerFields DEF r4
  <2>6. r5 \in Runners  BY <2>5, RunnerFields
  <2> QED  BY <2>1, <2>6
<1>3. /\ keep.pc = pc /\ keep.tries = 0 /\ ~keep.verified
      /\ keep.n = run.n /\ keep.before = run.before /\ keep.s = run.s
  BY DEF Runners
<1>4. keep.passed = run.passed /\ keep.phases = run.phases /\ keep.blocked = run.blocked
  BY DEF Runners
<1> QED  BY <1>1, <1>2, <1>3, <1>4

\* Before the first repeat: H-U, the boot id, the guard, its reboot, the confirm.
LEMMA PrepareStep ==
  ASSUME BatteryInv,
         HostEvidence \/ ReadBootBefore \/ JudgeGuard \/ WaitGuardBoot \/ JudgeConfirm
  PROVE  BatteryInv'
<1>0. run \in Runners /\ guest \in Guests
  BY DEF BatteryInv, GuestTypes
<1>1. /\ run.pc \in Early /\ Unowned /\ RunnerOnly
  BY GotUnowned DEF HostEvidence, ReadBootBefore, JudgeGuard, WaitGuardBoot, JudgeConfirm,
     Early, CallPcs, RunnerOnly
<1>2. CASE \E code \in {"h_u", "lsm", "rows_missing"} : Exit(code)
  BY <1>1, <1>2, ExitStep
<1>3. CASE ~ \E code \in {"h_u", "lsm", "rows_missing"} : Exit(code)
  <2>1. CASE HostEvidence
    <3>1. run' = [run EXCEPT !.pc = "before"]
      BY <1>3, <2>1 DEF HostEvidence, GoTo
    <3> QED  BY <1>0, <1>1, <3>1, EarlyStep DEF Runners, Early, BatteryInv, Cleaned
  <2>2. CASE ReadBootBefore
    <3>1. run' = [run EXCEPT !.pc = "guard", !.before = guest.boot]
      BY <1>3, <2>2 DEF ReadBootBefore
    <3> QED  BY <1>0, <1>1, <3>1, EarlyStep DEF Runners, Early, BatteryInv, Cleaned, Guests
  <2>3. CASE JudgeGuard
    <3>1. PICK t : /\ t = Then("repeat") \/ t = Then("waitGuard")
                   /\ run' = [t EXCEPT !.lsm = "already_active"] \/ run' = t
      BY <1>3, <2>3 DEF JudgeGuard
    <3>2. /\ t \in Runners /\ t.pc \in {"repeat", "waitGuard"} /\ ~t.verified
          /\ t.n = run.n /\ t.passed = run.passed /\ t.phases = run.phases
      BY <1>0, <3>1, ThenKeeps DEF Early, Loop
    <3>3. /\ run' \in Runners /\ run'.pc \in {"repeat", "waitGuard"} /\ ~run'.verified
          /\ run'.n = run.n /\ run'.passed = run.passed /\ run'.phases = run.phases
      BY <3>1, <3>2 DEF Runners
    <3> QED  BY <1>1, <3>3, EarlyStep DEF Early
  <2>4. CASE WaitGuardBoot
    <3>1. run' = [run EXCEPT !.pc = "confirm", !.after = guest.boot]
      BY <1>3, <2>4 DEF WaitGuardBoot
    <3> QED  BY <1>0, <1>1, <3>1, EarlyStep DEF Runners, Early, BatteryInv, Cleaned, Guests
  <2>5. CASE JudgeConfirm
    <3>1. PICK t : t = Then("repeat") /\ run' = [t EXCEPT !.lsm = "lsm_enabled"]
      BY <1>3, <2>5 DEF JudgeConfirm
    <3>2. /\ t \in Runners /\ t.pc = "repeat" /\ ~t.verified
          /\ t.n = run.n /\ t.passed = run.passed /\ t.phases = run.phases
      BY <1>0, <3>1, ThenKeeps DEF Loop
    <3>3. /\ run' \in Runners /\ run'.pc = "repeat" /\ ~run'.verified
          /\ run'.n = run.n /\ run'.passed = run.passed /\ run'.phases = run.phases
      BY <3>1, <3>2 DEF Runners
    <3> QED  BY <1>1, <3>3, EarlyStep DEF Early
  <2> QED  BY <2>1, <2>2, <2>3, <2>4, <2>5
<1> QED  BY <1>2, <1>3

\* The loader cases and the uninstall.
LEMMA LoaderStep ==
  ASSUME BatteryInv, Marks \/ JudgeLoader \/ JudgeUninstall
  PROVE  BatteryInv'
<1>0. run \in Runners /\ guest \in Guests
  BY DEF BatteryInv, GuestTypes
<1>1. Unowned /\ RunnerOnly
  BY GotUnowned DEF Marks, JudgeLoader, JudgeUninstall, CallPcs, RunnerOnly
<1> HIDE DEF RunnerOnly, Unowned
<1>2. run.passed => full_set_passes
  BY DEF BatteryInv, Passed
<1>3. CASE Marks
  <2>1. PICK m \in BOOLEAN :
          run' = [run EXCEPT !.pc = "2d", !.marks = m, !.passed = full_set_passes]
    BY <1>3 DEF Marks
  <2>2. PICK p \in BOOLEAN : p = full_set_passes
    BY Zenon DEF full_set_passes
  <2>3. /\ run' \in Runners /\ run'.pc = "2d" /\ run'.n = run.n /\ run'.passed = p
        /\ run'.verified = run.verified /\ run'.tries = run.tries /\ run'.phases = run.phases
    BY <1>0, <2>1, <2>2 DEF Runners, Rest
  <2>4. Cleaned'
    BY <1>1, <2>3, <1>3 DEF BatteryInv, Cleaned, RunnerOnly, Marks
  <2>5. PhaseCount'
    BY <2>3 DEF BatteryInv, PhaseCount
  <2> QED  BY <1>1, <2>2, <2>3, <2>4, <2>5, RestStep DEF Rest
<1>4. CASE JudgeLoader
  <2>1. CASE Exit("rows_missing")
    BY <1>1, <2>1, ExitStep
  <2>2. CASE ~Exit("rows_missing")
    <3>a. PICK g \in BOOLEAN : g = LoaderHeld
      BY Zenon DEF LoaderHeld
    <3>b. PICK h \in BOOLEAN : h = (run.loader /\ g)
      BY Zenon
    <3>c. \/ run' = [Then("2c") EXCEPT !.loader = LoaderHeld, !.pid = LoaderHeld]
          \/ run' = [Then("unin") EXCEPT !.loader = run.loader /\ LoaderHeld]
      BY <1>4, <2>2, Zenon DEF JudgeLoader
    <3>d. \/ run' = [Then("2c") EXCEPT !.loader = g, !.pid = g]
          \/ run' = [Then("unin") EXCEPT !.loader = h]
      BY <3>a, <3>b, <3>c, Zenon
    <3>1. PICK x \in BOOLEAN :
            \E t : /\ t = Then("2c") \/ t = Then("unin")
                   /\ \/ run' = [t EXCEPT !.loader = x, !.pid = x]
                      \/ run' = [t EXCEPT !.loader = x]
      BY <3>d, Zenon
    <3>4. PICK t : /\ t = Then("2c") \/ t = Then("unin")
                   /\ \/ run' = [t EXCEPT !.loader = x, !.pid = x]
                      \/ run' = [t EXCEPT !.loader = x]
      BY <3>1
    <3>0. /\ t \in Runners /\ t.pc \in {"2c", "unin"} /\ t.n = run.n
          /\ t.passed = run.passed /\ ~t.verified /\ t.phases = run.phases
      BY <1>0, <3>4, ThenKeeps DEF Rest
    <3>2. /\ run' \in Runners /\ run'.pc \in {"2c", "unin"} /\ run'.n = run.n
          /\ run'.passed = run.passed /\ ~run'.verified /\ run'.phases = run.phases
      BY <3>0, <3>4 DEF Runners
    <3>3. Cleaned' /\ PhaseCount'
      BY <3>2 DEF BatteryInv, Cleaned, PhaseCount
    <3> QED  BY <1>1, <1>2, <3>2, <3>3, RestStep DEF Rest
  <2> QED  BY <2>1, <2>2
<1>5. CASE JudgeUninstall
  <2>0. PICK c \in BOOLEAN : c = phase_host_clean
    BY Zenon DEF phase_host_clean
  <2>6. PICK k \in BOOLEAN :
          run' = [Then("phaseHead") EXCEPT !.clean = k, !.marks = FALSE, !.pid = FALSE, !.blocked = ~c]
    <3>1. PICK row \in BOOLEAN :
          run' = [Then("phaseHead") EXCEPT !.clean = phase_host_clean /\ row /\ run.pid /\ run.marks,
                    !.marks = FALSE, !.pid = FALSE, !.blocked = ~phase_host_clean]
      BY <1>5, Zenon DEF JudgeUninstall
    <3>2. PICK k \in BOOLEAN : k = (phase_host_clean /\ row /\ run.pid /\ run.marks)
      BY Zenon
    <3> QED  BY <2>0, <3>1, <3>2, Zenon
  <2>1. PICK t : t = Then("phaseHead") /\ run' = [t EXCEPT !.clean = k, !.marks = FALSE,
                    !.pid = FALSE, !.blocked = ~c]
    BY <2>6
  <2>2. /\ run' \in Runners /\ run'.pc = "phaseHead" /\ run'.n = run.n
        /\ run'.passed = run.passed /\ ~run'.verified /\ run'.phases = run.phases
        /\ run'.blocked = ~c
    <3>1. /\ t \in Runners /\ t.pc = "phaseHead" /\ t.n = run.n
          /\ t.passed = run.passed /\ ~t.verified /\ t.phases = run.phases
      BY <1>0, <2>1, ThenKeeps DEF Rest
    <3> DEFINE u == [t EXCEPT !.clean = k, !.marks = FALSE, !.pid = FALSE]
    <3>2. u \in Runners
      BY <3>1 DEF Runners
    <3>3. run' = [u EXCEPT !.blocked = ~c]
      BY <2>1
    <3>5. /\ u.pc = "phaseHead" /\ u.n = run.n
          /\ u.passed = run.passed /\ ~u.verified /\ u.phases = run.phases
      BY <3>1 DEF Runners
    <3> HIDE DEF u
    <3>4. [u EXCEPT !.blocked = ~c] \in Runners
      BY <3>2 DEF Runners
    <3> QED  BY <3>2, <3>3, <3>4, <3>5 DEF Runners
  <2>3. ~run'.blocked => run.verified
    BY <2>0, <2>2 DEF phase_host_clean
  <2>4. Cleaned'
    BY <1>1, <2>2, <2>3 DEF BatteryInv, Cleaned, RunnerOnly
  <2>5. PhaseCount'
    BY <2>2 DEF BatteryInv, PhaseCount
  <2> QED  BY <1>1, <1>2, <2>2, <2>4, <2>5, RestStep DEF Rest
<1> QED  BY <1>3, <1>4, <1>5

\* One phase more has its row.
LEMMA PhaseAppended ==
  ASSUME run \in Runners, Len(run.phases) < Len(Phases), NEW row \in BOOLEAN
  PROVE  /\ Appended(row) \in Seq(BOOLEAN)
         /\ Len(Appended(row)) <= Len(Phases)
<1>1. run.phases \in Seq(BOOLEAN) /\ Len(Phases) \in Nat
  BY BatteryAssumption DEF Runners
<1> QED  BY <1>1 DEF Appended

\* The phases.
LEMMA PhaseStep ==
  ASSUME BatteryInv, PhaseHead \/ JudgePhase \/ JudgePhaseUninstall \/ Final
  PROVE  BatteryInv'
<1>0. run \in Runners /\ run.phases \in Seq(BOOLEAN)
  BY DEF BatteryInv, GuestTypes, Runners
<1>1. Unowned /\ RunnerOnly
  BY GotUnowned DEF PhaseHead, JudgePhase, JudgePhaseUninstall, Final, Exit, CallPcs, RunnerOnly
<1>2. run.passed => full_set_passes
  BY DEF BatteryInv, Passed
<1> HIDE DEF RunnerOnly, Unowned
<1>3. CASE PhaseHead
  <2>1. CASE run' = [run EXCEPT !.pc = "final"] \/ run' = [run EXCEPT !.pc = "phase"]
    <3>1. /\ run' \in Runners /\ run'.pc \in Rest \ {"marks", "phaseHead"} /\ run'.n = run.n
          /\ run'.passed = run.passed /\ run'.verified = run.verified /\ run'.tries = run.tries
          /\ run'.phases = run.phases
      BY <1>0, <2>1 DEF Runners, Rest
    <3>2. run'.pc = "phase" => Len(run.phases) < Len(Phases) /\ ~run.blocked
      <4>1. Len(run.phases) <= Len(Phases) /\ Len(run.phases) \in Nat /\ Len(Phases) \in Nat
        BY <1>0, BatteryAssumption DEF BatteryInv, PhaseCount
      <4>2. run.pc = "phaseHead"
        BY <1>3 DEF PhaseHead
      <4>3. run'.pc = "phase" => /\ run' # [run EXCEPT !.pc = "final"]
                                 /\ run' # [run EXCEPT !.blocked = TRUE, !.phases = Appended(FALSE)]
        BY <1>0, <4>2 DEF Runners
      <4> QED  BY <1>3, <4>1, <4>3 DEF PhaseHead, GoTo
    <3>3. Cleaned'
      BY <1>1, <1>3, <3>1, <3>2 DEF BatteryInv, Cleaned, RunnerOnly, PhaseHead
    <3>4. PhaseCount'
      <4>1. run'.pc # "phaseUnin"
        BY <1>0, <2>1 DEF Runners
      <4> QED  BY <3>1, <3>2, <4>1 DEF BatteryInv, PhaseCount
    <3> QED  BY <1>1, <1>2, <3>1, <3>3, <3>4, RestStep
  <2>2. CASE run' = [run EXCEPT !.blocked = TRUE, !.phases = Appended(FALSE)]
    <3>0. run.pc = "phaseHead"
      BY <1>3 DEF PhaseHead
    <3>1. Len(run.phases) < Len(Phases)
      <4>1. Len(run.phases) # Len(Phases)
        <5>1. CASE Len(run.phases) = Len(Phases)
          <6>1. run'.pc = "final"
            BY <1>0, <1>3, <5>1 DEF PhaseHead, GoTo, Runners
          <6> QED  BY <1>0, <2>2, <3>0, <6>1 DEF Runners
        <5> QED  BY <5>1
      <4> QED  BY <1>0, <4>1, BatteryAssumption DEF BatteryInv, PhaseCount
    <3>2. PICK ps \in Seq(BOOLEAN) : ps = Appended(FALSE) /\ Len(ps) <= Len(Phases)
      BY <1>0, <3>1, PhaseAppended
    <3>3. /\ run' \in Runners /\ run'.pc = "phaseHead" /\ run'.n = run.n
          /\ run'.passed = run.passed /\ run'.verified = run.verified /\ run'.tries = run.tries
          /\ run'.phases = ps /\ run'.blocked
      BY <1>0, <2>2, <3>0, <3>2 DEF Runners
    <3>4. Cleaned'
      BY <1>1, <3>3, <3>0 DEF BatteryInv, Cleaned, RunnerOnly
    <3>5. PhaseCount'
      BY <3>2, <3>3 DEF PhaseCount
    <3> QED  BY <1>1, <1>2, <3>3, <3>4, <3>5, RestStep DEF Rest
  <2> QED  BY <1>3, <2>1, <2>2 DEF PhaseHead, GoTo
<1>4. CASE JudgePhase
  <2>0. run.pc = "phase" /\ Len(run.phases) < Len(Phases)
    BY <1>4 DEF JudgePhase, Got, BatteryInv, PhaseCount
  <2>1. CASE \E row \in BOOLEAN : run' = [Then("phaseUnin") EXCEPT !.row = row]
    <3>1. PICK row, t : row \in BOOLEAN /\ t = Then("phaseUnin") /\ run' = [t EXCEPT !.row = row]
      BY <2>1
    <3>2. /\ t \in Runners /\ t.pc = "phaseUnin" /\ t.n = run.n
          /\ t.passed = run.passed /\ ~t.verified /\ t.phases = run.phases
      BY <1>0, <3>1, ThenKeeps DEF Rest
    <3>3. /\ run' \in Runners /\ run'.pc = "phaseUnin" /\ run'.n = run.n
          /\ run'.passed = run.passed /\ ~run'.verified /\ run'.phases = run.phases
      BY <3>1, <3>2 DEF Runners
    <3>4. Cleaned' /\ PhaseCount'
      BY <2>0, <3>3 DEF BatteryInv, Cleaned, PhaseCount
    <3> QED  BY <1>1, <1>2, <3>3, <3>4, RestStep DEF Rest
  <2>2. CASE run' = [Then("phaseHead") EXCEPT !.blocked = TRUE, !.phases = Appended(FALSE)]
    <3>0. PICK ps \in Seq(BOOLEAN) : ps = Appended(FALSE) /\ Len(ps) <= Len(Phases)
      BY <1>0, <2>0, PhaseAppended
    <3>1. PICK t : t = Then("phaseHead") /\ run' = [t EXCEPT !.blocked = TRUE, !.phases = ps]
      BY <2>2, <3>0
    <3>2. /\ t \in Runners /\ t.pc = "phaseHead" /\ t.n = run.n
          /\ t.passed = run.passed /\ ~t.verified
      BY <1>0, <3>1, ThenKeeps DEF Rest
    <3>3. /\ run' \in Runners /\ run'.pc = "phaseHead" /\ run'.n = run.n
          /\ run'.passed = run.passed /\ ~run'.verified /\ run'.phases = ps /\ run'.blocked
      BY <3>1, <3>2 DEF Runners
    <3>4. Cleaned' /\ PhaseCount'
      BY <3>0, <3>3 DEF Cleaned, PhaseCount
    <3> QED  BY <1>1, <1>2, <3>3, <3>4, RestStep DEF Rest
  <2>3. PICK row \in BOOLEAN :
            row = (~InfraRetry /\ Pulls /\ guest.rows.kind = Phase /\ guest.rows.ok)
    BY Zenon
  <2> QED  BY <1>4, <2>1, <2>2, <2>3 DEF JudgePhase
<1>5. CASE JudgePhaseUninstall
  <2>0. run.pc = "phaseUnin" /\ Len(run.phases) < Len(Phases)
    BY <1>5 DEF JudgePhaseUninstall, Got, BatteryInv, PhaseCount
  <2>1. PICK c \in BOOLEAN : c = phase_host_clean
    BY Zenon DEF phase_host_clean
  <2>2. PICK row \in BOOLEAN : row = (run.row /\ phase_host_clean)
    BY Zenon
  <2>3. PICK ps \in Seq(BOOLEAN) : ps = Appended(row) /\ Len(ps) <= Len(Phases)
    BY <1>0, <2>0, PhaseAppended
  <2>4. PICK t : /\ t = Then("phaseHead")
                 /\ run' = [t EXCEPT !.phases = ps, !.row = FALSE, !.blocked = ~c]
    BY <1>5, <2>1, <2>2, <2>3 DEF JudgePhaseUninstall
  <2>5. /\ t \in Runners /\ t.pc = "phaseHead" /\ t.n = run.n
        /\ t.passed = run.passed /\ ~t.verified
    BY <1>0, <2>4, ThenKeeps DEF Rest
  <2>6. PICK b \in BOOLEAN : b = ~c
    OBVIOUS
  <2>7. /\ run' \in Runners /\ run'.pc = "phaseHead" /\ run'.n = run.n
        /\ run'.passed = run.passed /\ ~run'.verified /\ run'.phases = ps /\ run'.blocked = b
    <3>1. PICK u : u = [t EXCEPT !.phases = ps, !.row = FALSE]
      OBVIOUS
    <3>2. /\ u \in Runners /\ u.pc = "phaseHead" /\ u.n = run.n
          /\ u.passed = run.passed /\ ~u.verified /\ u.phases = ps
      BY <2>5, <3>1 DEF Runners
    <3>3. run' = [u EXCEPT !.blocked = b]
      BY <2>4, <2>6, <3>1
    <3> QED  BY <3>2, <3>3 DEF Runners
  <2>8. ~run'.blocked => run.verified
    BY <2>1, <2>6, <2>7 DEF phase_host_clean
  <2>9. Cleaned' /\ PhaseCount'
    BY <1>1, <2>3, <2>7, <2>8 DEF BatteryInv, Cleaned, PhaseCount, RunnerOnly
  <2> QED  BY <1>1, <1>2, <2>7, <2>9, RestStep DEF Rest
<1>6. CASE Final
  <2>1. PICK code \in {"battery", "loader", "uninstall", "phases", "pass"} : Exit(code)
    BY <1>6 DEF Final
  <2> QED  BY <1>1, <2>1, ExitStep
<1> QED  BY <1>3, <1>4, <1>5, <1>6

-----------------------------------------------------------------------------
(* The repeats.                                                            *)

\* A step of the runner inside a repeat.
LEMMA LoopStep ==
  ASSUME BatteryInv, RunnerOnly, Unowned, run' \in Runners,
         run.pc \in Loop, run'.pc \in Loop, ~run'.passed,
         run'.verified => run.verified /\ run'.tries = run.tries, run'.phases = run.phases,
         Counts', Returned', OwnPost', Chain'
  PROVE  BatteryInv'
<1>1. /\ GuestTypes' /\ Scripts' /\ Boots' /\ Timers' /\ Earned' /\ JobNs' /\ BootCap'
  BY Quiet
<1>2. Prepares' /\ PhaseCount'
  BY DEF BatteryInv, Prepares, PhaseCount, Early, Loop, Late
<1>3. Passed'
  BY DEF BatteryInv, Passed, Loop, Late, Rest
<1>4. Cleaned'
  BY DEF BatteryInv, Cleaned, RunnerOnly, Loop, Late
<1> QED  BY <1>1, <1>2, <1>3, <1>4 DEF BatteryInv

\* What Chain reads of a repeat, left as it is.
LEMMA ChainFrame ==
  ASSUME repeats' = repeats, run'.n = run.n
  PROVE  /\ AllPass' <=> AllPass
         /\ Floor' = Floor
<1>1. AllPass' <=> AllPass
  BY DEF AllPass
<1>2. Floor' = Floor
  BY DEF Floor
<1> QED  BY <1>1, <1>2

LEMMA RepeatStep ==
  ASSUME BatteryInv, Repeat
  PROVE  BatteryInv'
<1>0. run \in Runners /\ NoRepeat \in Summaries
  BY DEF BatteryInv, GuestTypes, NoRepeat, Summaries
<1>1. run.pc = "repeat" /\ Unowned /\ RunnerOnly /\ ~run.passed
  BY GotUnowned DEF Repeat, CallPcs, RunnerOnly, GoTo, BatteryInv, Passed, Rest
<1> HIDE DEF RunnerOnly, Unowned
<1>2. CASE run' = [run EXCEPT !.pc = "marks"]
  <2>1. /\ run' \in Runners /\ run'.pc = "marks" /\ run'.n = run.n /\ ~run'.passed
        /\ run'.verified = run.verified /\ run'.tries = run.tries /\ run'.phases = run.phases
    BY <1>0, <1>1, <1>2 DEF Runners, Rest
  <2>2. Cleaned' /\ PhaseCount'
    BY <1>1, <2>1 DEF BatteryInv, Cleaned, PhaseCount, RunnerOnly
  <2> QED  BY <1>1, <2>1, <2>2, RestStep DEF Rest
<1>3. CASE run' = [run EXCEPT !.pc = "enterprise", !.s = NoRepeat] /\ run.n <= Repeats
  <2>1. /\ run' \in Runners /\ run'.pc = "enterprise" /\ run'.n = run.n /\ ~run'.passed
        /\ run'.verified = run.verified /\ run'.tries = run.tries /\ run'.phases = run.phases
        /\ ~run'.s.observed
    BY <1>0, <1>1, <1>3 DEF Runners, Loop, NoRepeat
  <2>2. Counts'
    BY <1>1, <1>3, <2>1 DEF BatteryInv, Counts, RunnerOnly, Loop, Late
  <2>3. Returned' /\ OwnPost'
    BY <2>1 DEF Returned, Rebooted, OwnPost, Late
  <2>4. Chain'
    BY <1>1, <2>1, ChainFrame DEF BatteryInv, Chain, Near, RunnerOnly, Loop, Late
  <2> QED  BY <1>1, <2>1, <2>2, <2>3, <2>4, LoopStep DEF Loop
<1>4. CASE Exit("safety")
  BY <1>1, <1>4, ExitStep
<1>5. run.n > Repeats \/ run.n <= Repeats
  BY <1>0, BatteryAssumption DEF Runners
<1> QED  BY <1>2, <1>3, <1>4, <1>5 DEF Repeat, GoTo

LEMMA EnterpriseStep ==
  ASSUME BatteryInv, JudgeEnterprise
  PROVE  BatteryInv'
<1>0. run \in Runners /\ run.s \in Summaries /\ guest \in Guests /\ guest.rows \in RowFiles
  BY DEF BatteryInv, GuestTypes, Runners, Guests
<1>1. run.pc = "enterprise" /\ Unowned /\ RunnerOnly /\ ~run.passed
  BY GotUnowned DEF JudgeEnterprise, Got, RunnerOnly, BatteryInv, Passed, Rest
<1> HIDE DEF RunnerOnly, Unowned
<1>2. CASE Exit("rows_missing")
  BY <1>1, <1>2, ExitStep
<1>3. CASE ~Exit("rows_missing")
  <2>2. PICK hold \in BOOLEAN : hold = EnterpriseHold
    BY Zenon DEF EnterpriseHold
  <2>1. PICK ent \in BOOLEAN : ent = (run.rc = 0 \/ EnterpriseHold)
    BY Zenon
  <2>3. PICK entN \in Nat : entN = IF EnterpriseHold THEN guest.rows.n ELSE 0
    BY <1>0 DEF RowFiles
  <2>4. PICK t : /\ t = Then("pre")
                 /\ run' = [t EXCEPT !.before = guest.boot,
                              !.s = [@ EXCEPT !.n = run.n, !.ent = ent, !.hold = hold, !.entN = entN]]
    BY <1>3, <2>1, <2>2, <2>3 DEF JudgeEnterprise
  <2>5. /\ t \in Runners /\ t.pc = "pre" /\ t.n = run.n /\ ~t.verified /\ t.tries = 0
        /\ t.passed = run.passed /\ t.phases = run.phases /\ t.s = run.s
    BY <1>0, <2>4, ThenKeeps DEF Loop, Late
  <2>6. PICK s : s = [run.s EXCEPT !.n = run.n, !.ent = ent, !.hold = hold, !.entN = entN]
    OBVIOUS
  <2>7. /\ s \in Summaries /\ s.n = run.n /\ s.hold = hold /\ s.entN = entN
        /\ s.observed = run.s.observed
    BY <1>0, <2>6 DEF Summaries, Runners
  <2>8. run' = [t EXCEPT !.before = guest.boot, !.s = s]
    BY <2>4, <2>5, <2>6 DEF Runners
  <2>9. /\ run' \in Runners /\ run'.pc = "pre" /\ run'.n = run.n /\ ~run'.passed
        /\ ~run'.verified /\ run'.phases = run.phases /\ run'.s = s
        /\ run'.before = guest.boot
    BY <1>0, <1>1, <2>5, <2>7, <2>8 DEF Runners, Guests
  <2>10. Counts'
    BY <1>1, <2>9, <2>7 DEF BatteryInv, Counts, RunnerOnly, Loop, Late
  <2>11. Returned'
    <3>1. guest.boot \in Nat /\ guest.rows.boot \in Nat /\ guest.pre.boot \in Nat
      BY <1>0 DEF Guests, RowFiles, PreFiles
    <3> QED  BY <1>1, <2>9, <3>1 DEF BatteryInv, Returned, Rebooted, Boots, RunnerOnly
  <2>12. OwnPost'
    BY <2>9 DEF OwnPost
  <2>13. Chain'
    <3>1. guest.boot \in Nat /\ guest.rows.boot \in Nat /\ guest.rows.boot <= guest.boot
      BY <1>0 DEF Guests, RowFiles, BatteryInv, Boots
    <3>3. /\ AllPass' <=> AllPass
          /\ Floor' = Floor
      BY <1>1, <2>9, ChainFrame DEF RunnerOnly
    <3>4. SUFFICES ASSUME AllPass PROVE Chain'
      BY <3>3 DEF Chain
    <3>5. /\ Floor <= guest.boot
          /\ \A j \in jobs : Near(j.n) /\ (j.mode = "enterprise" => j.n = run.n)
          /\ guest.rows.kind = "enterprise" => guest.rows.n = run.n
          /\ guest.pre.boot # 0 /\ guest.pre.boot >= Floor => Near(guest.pre.n)
      BY <1>1, <3>4 DEF BatteryInv, Chain, Loop
    <3>6. s.hold => s.entN = run.n
      BY <2>2, <2>3, <2>7, <3>5 DEF EnterpriseHold
    <3> QED  BY <1>1, <2>9, <3>1, <3>3, <3>5, <3>6 DEF Chain, Near, RunnerOnly
  <2> QED  BY <1>1, <2>9, <2>10, <2>11, <2>12, <2>13, LoopStep DEF Loop, Late
<1> QED  BY <1>2, <1>3

LEMMA PreStep ==
  ASSUME BatteryInv, JudgePre
  PROVE  BatteryInv'
<1>0. run \in Runners /\ run.s \in Summaries
  BY DEF BatteryInv, GuestTypes, Runners
<1>1. run.pc = "pre" /\ Unowned /\ RunnerOnly /\ ~run.passed
  BY GotUnowned DEF JudgePre, Got, RunnerOnly, BatteryInv, Passed, Rest
<1> HIDE DEF RunnerOnly, Unowned
<1>2. CASE Exit("rows_missing")
  BY <1>1, <1>2, ExitStep
<1>3. CASE ~Exit("rows_missing")
  <2>1. PICK z \in BOOLEAN : z = Zero
    BY Zenon DEF Zero
  <2>2. PICK t : t = Then("waitReboot") /\ run' = [t EXCEPT !.s.desc = z]
    BY <1>3, <2>1 DEF JudgePre
  <2>3. /\ t \in Runners /\ t.pc = "waitReboot" /\ t.n = run.n /\ ~t.verified /\ t.tries = 0
        /\ t.passed = run.passed /\ t.phases = run.phases /\ t.s = run.s
        /\ t.before = run.before
    BY <1>0, <2>2, ThenKeeps DEF Loop, Late
  <2>4. PICK s : s = [run.s EXCEPT !.desc = z]
    OBVIOUS
  <2>5. /\ s \in Summaries /\ s.n = run.s.n /\ s.hold = run.s.hold /\ s.entN = run.s.entN
        /\ s.observed = run.s.observed
    BY <1>0, <2>4 DEF Summaries
  <2>6. run' = [t EXCEPT !.s = s]
    BY <2>2, <2>3, <2>4 DEF Runners
  <2>7. /\ run' \in Runners /\ run'.pc = "waitReboot" /\ run'.n = run.n /\ ~run'.passed
        /\ ~run'.verified /\ run'.phases = run.phases /\ run'.s = s /\ run'.tries = 0
        /\ run'.before = run.before
    BY <1>1, <2>3, <2>5, <2>6 DEF Runners
  <2>8. Counts'
    BY <1>1, <2>5, <2>7 DEF BatteryInv, Counts, RunnerOnly, Loop, Late
  <2>9. Returned' /\ OwnPost'
    BY <1>1, <2>7 DEF BatteryInv, Returned, Rebooted, OwnPost, RunnerOnly, Late
  <2>10. Chain'
    BY <1>1, <2>5, <2>7, ChainFrame DEF BatteryInv, Chain, Near, RunnerOnly, Loop, Late
  <2> QED  BY <1>1, <2>7, <2>8, <2>9, <2>10, LoopStep DEF Loop, Late
<1> QED  BY <1>2, <1>3

\* What a repeat that counts has to show when it ends.
Shows(s) ==
    /\ s.postN = run.n /\ Near(s.preN) /\ s.preBoot < s.postBoot
    /\ s.hold => s.entN = run.n
    /\ Floor <= s.preBoot
    /\ run.before < s.postBoot /\ s.postBoot <= guest.boot

LEMMA FinishStep ==
  ASSUME BatteryInv, Unowned, run.pc \in Late, ~run.passed,
         guest' = guest, jobs' = jobs, drops' = drops,
         NEW s \in Summaries, s.n = run.n, FinishRepeat(s),
         RepeatPasses(s) =>
            /\ run.pc = "post" /\ guest.rows.kind # "enterprise"
            /\ AllPass => Shows(s)
  PROVE  BatteryInv'
<1>0. /\ run \in Runners /\ guest \in Guests /\ repeats \in Seq(Summaries) /\ jobs \subseteq Jobs
      /\ drops \in 0 .. MaxDrops /\ NoRepeat \in Summaries /\ run.n \in Nat
      /\ Len(repeats) = run.n - 1 /\ run.n <= Repeats /\ run.n >= 1
  BY DEF BatteryInv, GuestTypes, Runners, NoRepeat, Summaries, Counts, Loop
<1>1. PICK r : r = IF RepeatPasses(s) THEN s ELSE [NoRepeat EXCEPT !.n = s.n]
  OBVIOUS
<1>2. /\ r \in Summaries /\ r.n = run.n
      /\ ~RepeatPasses(s) => ~r.ent /\ ~r.hold
  BY <1>0, <1>1 DEF Summaries, NoRepeat
<1>3. RepeatPasses(r) <=> RepeatPasses(s)
  BY <1>1, <1>2 DEF RepeatPasses
<1>4. repeats' = Append(repeats, r)
  BY <1>1 DEF FinishRepeat
<1>5. /\ repeats' \in Seq(Summaries) /\ Len(repeats') = run.n
      /\ \A i \in DOMAIN repeats : repeats'[i] = repeats[i]
      /\ repeats'[run.n] = r /\ DOMAIN repeats' = 1 .. run.n /\ DOMAIN repeats = 1 .. run.n - 1
  BY <1>0, <1>2, <1>4
<1>6. PICK t : /\ t = Then("repeat")
               /\ run' = [t EXCEPT !.n = @ + 1, !.s = NoRepeat, !.before = 0, !.after = 0]
  BY DEF FinishRepeat
<1>7. /\ t \in Runners /\ t.pc = "repeat" /\ t.n = run.n /\ ~t.verified /\ t.tries = 0
      /\ ~t.passed /\ t.phases = run.phases
  BY <1>0, <1>6, ThenKeeps DEF Loop
<1>8. /\ run' \in Runners /\ run'.pc = "repeat" /\ run'.n = run.n + 1 /\ ~run'.verified
      /\ ~run'.passed /\ run'.phases = run.phases
  <2>0. PICK m \in Nat : m = run.n + 1
    BY <1>0
  <2>1. PICK u : u = [t EXCEPT !.n = m]
    OBVIOUS
  <2>2. /\ u \in Runners /\ u.pc = "repeat" /\ u.n = m /\ ~u.verified
        /\ ~u.passed /\ u.phases = run.phases
    BY <1>7, <2>1 DEF Runners
  <2>3. run' = [u EXCEPT !.s = NoRepeat, !.before = 0, !.after = 0]
    BY <1>6, <1>7, <2>0, <2>1 DEF Runners
  <2>4. [u EXCEPT !.s = NoRepeat] \in Runners
    BY <1>0, <2>2 DEF Runners
  <2>5. PICK v : v = [u EXCEPT !.s = NoRepeat]
    OBVIOUS
  <2>6. /\ v \in Runners /\ v.pc = "repeat" /\ v.n = m /\ ~v.verified
        /\ ~v.passed /\ v.phases = run.phases
    BY <2>2, <2>4, <2>5 DEF Runners
  <2>7. run' = [v EXCEPT !.before = 0, !.after = 0]
    BY <2>3, <2>5
  <2> QED  BY <2>0, <2>6, <2>7 DEF Runners
<1>9. /\ AllPass' => AllPass /\ RepeatPasses(s) /\ r = s
  <2>1. AllPass' => RepeatPasses(r)
    BY <1>0, <1>5 DEF AllPass
  <2>2. AllPass' => AllPass
    BY <1>5 DEF AllPass
  <2> QED  BY <1>1, <1>3, <2>1, <2>2
<1>10. GuestTypes'
  BY <1>0, <1>5, <1>8 DEF GuestTypes
<1>11. Scripts' /\ Boots' /\ Timers' /\ JobNs' /\ BootCap'
  BY DEF BatteryInv, Scripts, Unowned, Boots, Timers, ThisBoot, JobNs, BootCap
<1>12. Prepares' /\ Returned' /\ OwnPost' /\ Passed' /\ PhaseCount' /\ Cleaned'
  BY <1>8 DEF BatteryInv, Prepares, Returned, Rebooted, OwnPost, Passed, PhaseCount, Cleaned,
     Early, Late
<1>13. Counts'
  <2>1. \A i \in DOMAIN repeats' : repeats'[i].n = i
    BY <1>0, <1>2, <1>5 DEF BatteryInv, Counts
  <2> QED  BY <1>0, <1>5, <1>8, <2>1, BatteryAssumption DEF Counts, Loop, Late
<1>14. Earned'
  <2> SUFFICES ASSUME AllPass' PROVE \A i \in DOMAIN repeats' : EarnedAt(i)'
    BY DEF Earned
  <2>1. AllPass /\ r = s /\ Shows(s)
    BY <1>9
  <2>2. ASSUME NEW i \in DOMAIN repeats PROVE EarnedAt(i)'
    <3>1. EarnedAt(i)
      BY <2>1 DEF BatteryInv, Earned
    <3>2. i \in Nat /\ (i > 1 => i - 1 \in DOMAIN repeats)
      BY <1>0, <1>5
    <3> QED  BY <1>5, <3>1, <3>2 DEF EarnedAt
  <2>3. ASSUME NEW i \in Nat, i = run.n PROVE EarnedAt(i)'
    <3>1. run.n > 1 => repeats'[run.n - 1] = repeats[run.n - 1] /\ Floor = repeats[run.n - 1].postBoot
      BY <1>0, <1>5 DEF Floor
    <3>2. repeats'[i] = s
      BY <1>5, <2>1, <2>3
    <3> QED  BY <1>0, <1>5, <2>1, <2>3, <3>1, <3>2 DEF EarnedAt, Shows, Near
  <2> QED  BY <1>0, <1>5, <2>2, <2>3
<1>15. Chain'
  <2> SUFFICES ASSUME AllPass'
               PROVE  /\ s.postBoot <= guest.boot
                      /\ \A j \in jobs : j.n = run.n /\ j.mode # "enterprise"
                      /\ guest.rows.kind # "enterprise"
                      /\ guest.pre.boot # 0 /\ guest.pre.boot >= s.postBoot => guest.pre.n = run.n
    <3>1. AllPass' => Floor' = s.postBoot
      BY <1>0, <1>5, <1>8, <1>9 DEF Floor
    <3> QED  BY <1>0, <1>8, <3>1 DEF Chain, Near, Late
  <2>1. run.pc = "post" /\ guest.rows.kind # "enterprise" /\ Shows(s)
    BY <1>9
  <2>2. /\ guest.boot \in Nat /\ guest.pre.boot \in Nat /\ run.before \in Nat /\ s.postBoot \in Nat
        /\ run.before < guest.boot
    BY <1>0, <2>1 DEF Guests, PreFiles, Runners, Summaries, BatteryInv, Returned
  <2>3. \A j \in jobs : j.n = run.n /\ j.mode # "enterprise"
    BY <2>1, <2>2 DEF BatteryInv, Returned, Rebooted, Late
  <2>4. guest.pre.boot >= s.postBoot => guest.pre.n = run.n
    BY <2>1, <2>2 DEF BatteryInv, Returned, Shows, Late
  <2> QED  BY <2>1, <2>3, <2>4 DEF Shows
<1> QED  BY <1>10, <1>11, <1>12, <1>13, <1>14, <1>15 DEF BatteryInv

LEMMA WaitStep ==
  ASSUME BatteryInv, WaitReboot
  PROVE  BatteryInv'
<1>0. /\ run \in Runners /\ run.s \in Summaries /\ guest \in Guests /\ guest.boot \in Nat
      /\ run.before \in Nat
  BY DEF BatteryInv, GuestTypes, Runners, Guests
<1>1. run.pc = "waitReboot" /\ Unowned /\ ~run.passed /\ guest' = guest /\ jobs' = jobs /\ drops' = drops
  BY GotUnowned DEF WaitReboot, CallPcs, BatteryInv, Passed, Rest
<1>2. run.s.n = run.n /\ run.tries = 0 /\ run.before <= guest.boot
  BY <1>1 DEF BatteryInv, Counts, Returned, Late
<1> HIDE DEF Unowned
<1>3. CASE /\ guest.up /\ reboot_ready(run.before, guest.boot)
           /\ run' = [run EXCEPT !.pc = "post", !.after = guest.boot] /\ repeats' = repeats
  <2>1. RunnerOnly
    BY <1>1, <1>3 DEF RunnerOnly
  <2> HIDE DEF RunnerOnly
  <2>2. /\ run' \in Runners /\ run'.pc = "post" /\ run'.n = run.n /\ ~run'.passed
        /\ run'.verified = run.verified /\ run'.tries = 0 /\ run'.phases = run.phases
        /\ run'.s = run.s /\ run'.before = run.before
    BY <1>0, <1>1, <1>2, <1>3 DEF Runners, Loop, Late
  <2>3. run.before < guest.boot
    BY <1>0, <1>2, <1>3 DEF reboot_ready
  <2>4. Counts'
    BY <1>1, <2>1, <2>2 DEF BatteryInv, Counts, RunnerOnly, Loop, Late
  <2>5. Returned'
    BY <1>1, <2>1, <2>2, <2>3 DEF BatteryInv, Returned, Rebooted, RunnerOnly, Late
  <2>6. OwnPost'
    BY <1>1, <2>1, <2>2 DEF OwnPost, Unowned, RunnerOnly
  <2>7. Chain'
    BY <1>1, <2>1, <2>2, ChainFrame DEF BatteryInv, Chain, Near, RunnerOnly, Loop, Late
  <2> QED  BY <1>1, <1>2, <2>1, <2>2, <2>4, <2>5, <2>6, <2>7, LoopStep DEF Loop, Late
<1>4. CASE FinishRepeat(run.s)
  <2>1. CASE RepeatPasses(run.s)
    <3>1. ~run.s.observed
      BY <1>1 DEF BatteryInv, Counts, Late
    <3> QED  BY <2>1, <3>1 DEF RepeatPasses
  <2>2. CASE ~RepeatPasses(run.s)
    BY <1>0, <1>1, <1>2, <1>4, <2>2, FinishStep DEF Late
  <2> QED  BY <2>1, <2>2
<1>5. CASE Exit("safety") /\ repeats' = repeats
  BY <1>1, <1>5, ExitStep DEF RunnerOnly
<1> QED  BY <1>1, <1>3, <1>4, <1>5 DEF WaitReboot

LEMMA PostStep ==
  ASSUME BatteryInv, JudgePost
  PROVE  BatteryInv'
<1>0. /\ run \in Runners /\ run.s \in Summaries /\ guest \in Guests /\ guest.rows \in RowFiles
  BY DEF BatteryInv, GuestTypes, Runners, Guests
<1>1. /\ run.pc = "post" /\ run.tries = 3 /\ Unowned /\ ~run.passed
      /\ guest' = guest /\ jobs' = jobs /\ drops' = drops
  BY GotUnowned DEF JudgePost, Got, BatteryInv, Passed, Rest
<1> HIDE DEF Unowned
<1>2. CASE Exit("rows_missing") /\ repeats' = repeats
  BY <1>1, <1>2, ExitStep DEF RunnerOnly
<1>3. CASE ~(Exit("rows_missing") /\ repeats' = repeats)
  <2>1. PICK z \in BOOLEAN : z = Zero
    BY Zenon DEF Zero
  <2>2. guest.rows.kind = "post"
    BY <1>3 DEF JudgePost
  <2>3. PICK s : /\ s = [run.s EXCEPT !.desc = z, !.b1 = guest.rows.ok, !.observed = TRUE,
                            !.postN = guest.rows.n, !.preN = guest.rows.preN,
                            !.preBoot = guest.rows.preBoot, !.postBoot = guest.rows.boot]
                 /\ FinishRepeat(s)
    BY <1>3, <2>1 DEF JudgePost
  <2>4. /\ s \in Summaries
    <3>1. PICK a : a = [run.s EXCEPT !.desc = z, !.b1 = guest.rows.ok, !.observed = TRUE]
      OBVIOUS
    <3>2. a \in Summaries
      BY <1>0, <3>1 DEF Summaries, RowFiles
    <3>3. s = [a EXCEPT !.postN = guest.rows.n, !.preN = guest.rows.preN,
                        !.preBoot = guest.rows.preBoot, !.postBoot = guest.rows.boot]
      BY <2>3, <3>1
    <3>4. /\ guest.rows.n \in Nat /\ guest.rows.preN \in Nat
          /\ guest.rows.preBoot \in Nat /\ guest.rows.boot \in Nat
      BY <1>0 DEF RowFiles
    <3> QED  BY <3>2, <3>3, <3>4 DEF Summaries
  <2>5. /\ s.n = run.n /\ s.hold = run.s.hold /\ s.entN = run.s.entN
        /\ s.postN = guest.rows.n /\ s.preN = guest.rows.preN
        /\ s.preBoot = guest.rows.preBoot /\ s.postBoot = guest.rows.boot
    BY <1>0, <1>1, <2>3 DEF Summaries, BatteryInv, Counts, Late
  <2>6. s.desc = z /\ s.b1 = guest.rows.ok
    BY <1>0, <2>3 DEF Summaries
  <2>7. ASSUME RepeatPasses(s), AllPass PROVE Shows(s)
    <3>1. Zero /\ guest.rows.ok
      BY <2>1, <2>6, <2>7 DEF RepeatPasses
    <3>2. guest.rows.boot > run.before
      BY <1>1, <2>2, <3>1 DEF BatteryInv, OwnPost, RowsNew
    <3>3. guest.rows.n = run.n
      BY <1>1, <2>2, <3>2 DEF BatteryInv, Returned, Late
    <3>4. /\ Floor <= run.before /\ (run.s.hold => run.s.entN = run.n)
          /\ guest.rows.preBoot >= run.before /\ Near(guest.rows.preN)
      BY <1>1, <2>2, <2>7, <3>1, <3>2 DEF BatteryInv, Chain, Loop, Late
    <3>5. guest.rows.preBoot < guest.rows.boot /\ guest.rows.boot <= guest.boot
      BY <2>2, <3>1 DEF BatteryInv, Boots
    <3>6. Floor \in Nat
      <4>1. run.n \in Nat /\ run.n >= 1 /\ repeats \in Seq(Summaries) /\ Len(repeats) = run.n - 1
        BY <1>0, <1>1 DEF BatteryInv, GuestTypes, Counts, Runners, Loop, Late
      <4>2. run.n # 1 => repeats[run.n - 1] \in Summaries
        BY <4>1
      <4> QED  BY <4>2 DEF Floor, Summaries
    <3>7. run.before \in Nat /\ guest.rows.preBoot \in Nat
      BY <1>0 DEF Runners, RowFiles
    <3>8. Floor <= guest.rows.preBoot
      BY <3>4, <3>6, <3>7
    <3> QED  BY <2>5, <3>2, <3>3, <3>4, <3>5, <3>8 DEF Shows
  <2> QED  BY <1>1, <2>2, <2>3, <2>4, <2>5, <2>7, FinishStep DEF Late
<1> QED  BY <1>2, <1>3

\* An answered call: its exit code, or the transport's.
LEMMA AnsweredKeeps ==
  ASSUME run \in Runners, NEW rc \in Nat, NEW py \in Nat
  PROVE  /\ Answered(rc, py) \in Runners
         /\ Answered(rc, py).tries = 3 /\ Answered(rc, py).rc = rc /\ Answered(rc, py).py = py
         /\ Answered(rc, py).pc = run.pc /\ Answered(rc, py).n = run.n
         /\ Answered(rc, py).before = run.before /\ Answered(rc, py).s = run.s
         /\ Answered(rc, py).phases = run.phases /\ Answered(rc, py).blocked = run.blocked
         /\ Answered(rc, py).passed = run.passed /\ Answered(rc, py).verified = run.verified
<1> DEFINE a == [run EXCEPT !.tries = 3, !.rc = rc, !.py = py]
<1>1. Answered(rc, py) = a
  BY DEF Answered
<1>2. a \in Runners
  <2> DEFINE r1 == [run EXCEPT !.tries = 3]
             r2 == [r1 EXCEPT !.rc = rc]
             r3 == [r2 EXCEPT !.py = py]
  <2>1. a = r3  OBVIOUS
  <2> HIDE DEF r1, r2
  <2>2. r1 \in Runners
    <3>1. \A t \in 0 .. 3 : [run EXCEPT !.tries = t] \in Runners  BY RunnerFields
    <3> QED  BY <3>1 DEF r1
  <2>3. r2 \in Runners  BY <2>2, RunnerFields DEF r2
  <2>4. r3 \in Runners  BY <2>3, RunnerFields
  <2> QED  BY <2>1, <2>4
<1>3. a.tries = 3 /\ a.rc = rc /\ a.py = py /\ a.pc = run.pc /\ a.n = run.n
  BY DEF Runners
<1>4. a.before = run.before /\ a.s = run.s /\ a.phases = run.phases /\ a.blocked = run.blocked
  BY DEF Runners
<1>5. a.passed = run.passed /\ a.verified = run.verified
  BY DEF Runners
<1> QED  BY <1>1, <1>2, <1>3, <1>4, <1>5

-----------------------------------------------------------------------------
(* Steps of the guest's scripts and of the tunnel.                         *)

\* A script of the guest after a step is one from before it, or the runner's call.
KnownJob(k) ==
    \/ \E j \in jobs : k.mode = j.mode /\ k.n = j.n
    \/ run.pc \in CallPcs /\ k.mode = ModeAt(run.pc) /\ k.n = run.n

LEMMA KnownJobs ==
  ASSUME BatteryInv, NEW k, KnownJob(k)
  PROVE  /\ run.pc \in Early => k.mode = "lsm-guard" /\ k.n = 1
         /\ Rebooted => k.n = run.n /\ k.mode \in {"pre", "post"}
         /\ AllPass /\ run.pc \in Loop => Near(k.n) /\ (k.mode = "enterprise" => k.n = run.n)
         /\ k.n \in 1 .. Repeats + 1
<1>1. CASE \E j \in jobs : k.mode = j.mode /\ k.n = j.n
  BY <1>1 DEF BatteryInv, Prepares, Returned, Chain, JobNs
<1>2. CASE run.pc \in CallPcs /\ k.mode = ModeAt(run.pc) /\ k.n = run.n
  <2>1. /\ run.pc \in Early => k.mode = "lsm-guard"
        /\ run.pc \in {"enterprise", "pre", "post"} => k.mode = run.pc
        /\ k.mode \in {"enterprise", "pre", "post"} => run.pc = k.mode
    BY <1>2, CallMode DEF BatteryInv
  <2>2. run.n \in Nat /\ run.n >= 1 /\ run.n <= Repeats + 1
    BY DEF BatteryInv, GuestTypes, Runners, Counts
  <2>3. run.pc \in Early => run.n = 1
    BY DEF BatteryInv, Prepares
  <2>4. Rebooted => k.mode \in {"pre", "post"}
    BY <1>2, <2>1 DEF Rebooted, Late, CallPcs
  <2> QED  BY <1>2, <2>1, <2>2, <2>3, <2>4, BatteryAssumption DEF Near
<1> QED  BY <1>1, <1>2 DEF KnownJob

\* The runner goes on with its call, whatever the call's state.
RunKept ==
    /\ run' \in Runners /\ run'.pc = run.pc /\ run'.n = run.n /\ run'.before = run.before
    /\ run'.s = run.s /\ run'.phases = run.phases /\ run'.passed = run.passed
    /\ run.pc = "waitReboot" => run'.tries = run.tries

\* What a script may do to b1-pre.json and to the rows file.
PreWritten ==
    \/ guest'.pre = guest.pre
    \/ guest'.pre = NoPre
    \/ /\ guest'.pre.boot = guest.boot
       /\ \E j \in jobs : j.mode = "pre" /\ j.n = guest'.pre.n

RowsWritten ==
    \/ guest'.rows = guest.rows
    \/ guest'.rows = NoRows
    \/ /\ guest'.rows.boot = guest.boot
       /\ \E j \in jobs :
            /\ guest'.rows.n = j.n
            /\ j.mode = "lsm-guard" => guest'.rows.kind = "lsm"
            /\ guest'.rows.kind = "enterprise" => j.mode = "enterprise"
            /\ guest'.rows.kind = "post" => j.mode = "post"
       /\ guest'.rows.kind = "post" /\ guest'.rows.ok =>
            /\ guest.pre.ok /\ guest.pre.boot # guest.boot
            /\ guest'.rows.preN = guest.pre.n /\ guest'.rows.preBoot = guest.pre.boot

LEMMA GuestStep ==
  ASSUME BatteryInv, RunKept, repeats' = repeats, drops' \in 0 .. MaxDrops,
         guest' \in Guests, guest'.boot = guest.boot, PreWritten, RowsWritten,
         jobs' \subseteq Jobs, \A k \in jobs' : KnownJob(k),
         Scripts', Timers', OwnPost', Cleaned'
  PROVE  BatteryInv'
<1>0. /\ guest \in Guests /\ run \in Runners /\ guest.rows \in RowFiles /\ guest.pre \in PreFiles
      /\ guest'.rows \in RowFiles /\ guest'.pre \in PreFiles /\ guest.boot \in Nat
      /\ run.n \in Nat /\ run.before \in Nat
  BY DEF BatteryInv, GuestTypes, Guests, Runners
<1>00. NoRows.kind = "none" /\ NoRows.boot = 0
  BY DEF NoRows
<1>1. GuestTypes'
  BY DEF BatteryInv, GuestTypes, RunKept
<1>2. guest.boot >= 1 /\ guest.rows.boot <= guest.boot /\ guest.pre.boot <= guest.boot
  BY DEF BatteryInv, Boots
<1>3. guest.pre.ok => guest.pre.boot # 0
  BY DEF BatteryInv, Boots, NoPre
<1>4. Boots'
  <2>1. guest'.pre.boot <= guest.boot /\ (guest'.pre.boot = 0 => guest'.pre = NoPre)
    BY <1>0, <1>2 DEF PreWritten, NoPre, BatteryInv, Boots
  <2>2. guest'.rows.boot <= guest.boot
    BY <1>0, <1>00, <1>2 DEF RowsWritten
  <2>3. guest'.rows.kind = "post" /\ guest'.rows.ok => guest'.rows.preBoot < guest'.rows.boot
    <3>1. guest.pre.boot # guest.boot => guest.pre.boot < guest.boot
      BY <1>0, <1>2 DEF PreFiles
    <3> QED  BY <1>0, <1>00, <3>1 DEF RowsWritten, BatteryInv, Boots
  <2> QED  BY <1>2, <2>1, <2>2, <2>3 DEF Boots
<1>5. Prepares'
  <2> SUFFICES ASSUME run.pc \in Early
               PROVE  /\ guest'.pre = NoPre /\ guest'.rows.kind \in {"none", "lsm"}
                      /\ \A k \in jobs' : k.mode = "lsm-guard" /\ k.n = 1
                      /\ repeats = <<>> /\ run.n = 1
    BY DEF Prepares, RunKept
  <2>1. /\ guest.pre = NoPre /\ guest.rows.kind \in {"none", "lsm"}
        /\ \A j \in jobs : j.mode = "lsm-guard"
        /\ repeats = <<>> /\ run.n = 1
    BY DEF BatteryInv, Prepares
  <2>2. guest'.pre = NoPre /\ guest'.rows.kind \in {"none", "lsm"}
    BY <1>00, <2>1 DEF PreWritten, RowsWritten
  <2> QED  BY <2>1, <2>2, KnownJobs
<1>6. Counts'
  BY DEF BatteryInv, Counts, RunKept
<1>7. Rebooted' <=> Rebooted
  BY DEF Rebooted, RunKept
<1>8. Returned'
  <2>1. /\ run.pc \in Late => run.before >= 1 /\ run.before <= guest.boot
        /\ run.pc = "post" => run.before < guest.boot
    BY DEF BatteryInv, Returned
  <2>2. Rebooted => \A k \in jobs' : k.n = run.n /\ k.mode \in {"pre", "post"}
    BY KnownJobs
  <2>3. Rebooted /\ guest'.pre.boot # 0 => guest'.pre.boot >= run.before
    BY <1>0 DEF BatteryInv, Returned, PreWritten, NoPre, Rebooted
  <2>4. run.pc \in Late /\ guest'.pre.boot > run.before => guest'.pre.n = run.n
    BY <1>0 DEF BatteryInv, Returned, PreWritten, NoPre, Rebooted
  <2>5. run.pc \in Late /\ guest'.rows.kind = "post" /\ guest'.rows.boot > run.before
          => guest'.rows.n = run.n
    BY <1>0, <1>00 DEF BatteryInv, Returned, RowsWritten, Rebooted
  <2> QED  BY <1>7, <2>1, <2>2, <2>3, <2>4, <2>5 DEF Returned, RunKept
<1>9. (AllPass' <=> AllPass) /\ Floor' = Floor
  BY ChainFrame DEF RunKept
<1>10. Chain'
  <2> SUFFICES ASSUME AllPass, run.pc \in Loop
      PROVE  /\ Floor <= guest.boot
             /\ run.pc \in Late => Floor <= run.before /\ (run.s.hold => run.s.entN = run.n)
             /\ \A k \in jobs' : Near(k.n) /\ (k.mode = "enterprise" => k.n = run.n)
             /\ guest'.rows.kind = "enterprise" => guest'.rows.n = run.n
             /\ guest'.pre.boot # 0 /\ guest'.pre.boot >= Floor => Near(guest'.pre.n)
             /\ run.pc \in Late /\ guest'.rows.kind = "post" /\ guest'.rows.ok
                /\ guest'.rows.boot > run.before
                  => guest'.rows.preBoot >= run.before /\ Near(guest'.rows.preN)
    BY <1>9 DEF Chain, RunKept, Near
  <2>1. /\ Floor <= guest.boot
        /\ run.pc \in Late => Floor <= run.before /\ (run.s.hold => run.s.entN = run.n)
        /\ \A j \in jobs : Near(j.n) /\ (j.mode = "enterprise" => j.n = run.n)
        /\ guest.rows.kind = "enterprise" => guest.rows.n = run.n
        /\ guest.pre.boot # 0 /\ guest.pre.boot >= Floor => Near(guest.pre.n)
        /\ run.pc \in Late /\ guest.rows.kind = "post" /\ guest.rows.ok
           /\ guest.rows.boot > run.before
             => guest.rows.preBoot >= run.before /\ Near(guest.rows.preN)
    BY DEF BatteryInv, Chain
  <2>2. \A k \in jobs' : Near(k.n) /\ (k.mode = "enterprise" => k.n = run.n)
    BY KnownJobs
  <2>3. guest'.rows.kind = "enterprise" => guest'.rows.n = run.n
    BY <1>00, <2>1 DEF RowsWritten
  <2>4. guest'.pre.boot # 0 /\ guest'.pre.boot >= Floor => Near(guest'.pre.n)
    BY <2>1 DEF PreWritten, NoPre
  <2>5. ASSUME run.pc \in Late, guest'.rows.kind = "post", guest'.rows.ok,
               guest'.rows.boot > run.before
        PROVE  guest'.rows.preBoot >= run.before /\ Near(guest'.rows.preN)
    <3>1. CASE guest'.rows = guest.rows
      BY <2>1, <2>5, <3>1
    <3>2. CASE guest'.rows # guest.rows
      <4>1. /\ guest'.rows.boot = guest.boot /\ guest.pre.ok
            /\ guest'.rows.preN = guest.pre.n /\ guest'.rows.preBoot = guest.pre.boot
        BY <1>00, <2>5, <3>2 DEF RowsWritten
      <4>2. guest.pre.boot # 0 /\ Rebooted
        BY <1>3, <2>5, <4>1 DEF Rebooted
      <4>3. guest.pre.boot >= run.before
        BY <4>2 DEF BatteryInv, Returned
      <4>4. Floor \in Nat
        <5>1. repeats \in Seq(Summaries) /\ Len(repeats) = run.n - 1 /\ run.n >= 1
          BY DEF BatteryInv, GuestTypes, Counts
        <5>2. run.n # 1 => repeats[run.n - 1] \in Summaries
          BY <1>0, <5>1
        <5> QED  BY <5>2 DEF Floor, Summaries
      <4>5. guest.pre.boot >= Floor
        BY <1>0, <2>1, <2>5, <4>3, <4>4 DEF PreFiles
      <4> QED  BY <2>1, <4>1, <4>2, <4>3, <4>5
    <3> QED  BY <3>1, <3>2
  <2> QED  BY <2>1, <2>2, <2>3, <2>4, <2>5
<1>11. Earned'
  BY <1>9 DEF BatteryInv, Earned, EarnedAt
<1>12. Passed'
  BY DEF BatteryInv, Passed, full_set_passes, RunKept
<1>13. PhaseCount'
  BY DEF BatteryInv, PhaseCount, RunKept
<1>14. JobNs'
  BY KnownJobs DEF JobNs
<1>15. BootCap'
  BY DEF BatteryInv, BootCap
<1> QED  BY <1>1, <1>4, <1>5, <1>6, <1>8, <1>10, <1>11, <1>12, <1>13, <1>14, <1>15 DEF BatteryInv

\* A rows file written while the runner waits for a post is of that post's boot.
LEMMA NewRows ==
  ASSUME BatteryInv, run.pc = "post", guest' \in Guests, guest'.boot = guest.boot, RowsWritten,
         RunKept, guest'.rows # guest.rows
  PROVE  RowsNew'
<1>1. NoRows.kind = "none"
  BY DEF NoRows
<1>2. run.before < guest.boot
  BY DEF BatteryInv, Returned
<1>3. run.before \in Nat /\ guest.boot \in Nat
  BY DEF BatteryInv, GuestTypes, Guests, Runners
<1> QED  BY <1>1, <1>2, <1>3 DEF RowsWritten, RowsNew, RunKept

\* Without a lost tunnel a script that runs belongs to the call under way.
LEMMA OwnedCall ==
  ASSUME BatteryInv, NEW j \in jobs, j.own \/ ~guest.stray
  PROVE  /\ j.own /\ j.mode = ModeAt(run.pc) /\ j.n = run.n /\ run.pc \in CallPcs
         /\ run.tries \in {1, 2} /\ ~run.verified
<1>1. j.own /\ j.mode = ModeAt(run.pc) /\ j.n = run.n /\ run.pc \in CallPcs
  BY DEF BatteryInv, Scripts
<1>2. run.tries \in {1, 2}
  BY <1>1 DEF BatteryInv, Scripts
<1> QED  BY <1>1, <1>2 DEF BatteryInv, Cleaned

\* The call is for the same script.
LEMMA SameMode ==
  ASSUME RunKept
  PROVE  ModeAt(run.pc)' = ModeAt(run.pc)
BY DEF RunKept, ModeAt, Phase

LEMMA CallStep ==
  ASSUME BatteryInv, Call \/ Retry \/ GiveUp
  PROVE  BatteryInv'
<1>0. /\ run \in Runners /\ guest \in Guests /\ jobs \subseteq Jobs /\ run.n \in Nat
      /\ drops \in 0 .. MaxDrops
  BY DEF BatteryInv, GuestTypes, Runners
<1>1. /\ guest' = guest /\ repeats' = repeats /\ drops' = drops /\ run.pc \in CallPcs
      /\ run.tries \in {0, 1, 2}
  BY DEF Call, Retry, GiveUp
<1>2. Unowned
  BY DEF Call, Retry, GiveUp, OwnJobs, Unowned, BatteryInv, Scripts
<1>3. PreWritten /\ RowsWritten
  BY <1>1 DEF PreWritten, RowsWritten
<1>4. /\ Own \in Jobs /\ Own.own /\ Own.at = "start" /\ Own.n = run.n /\ Own.mode = ModeAt(run.pc)
      /\ Own.mode = "lsm-guard" => ThisBoot
  <2>1. ModeAt(run.pc) \in Modes /\ (run.pc \in Early <=> ModeAt(run.pc) = "lsm-guard")
    BY <1>1, CallMode DEF BatteryInv
  <2>2. run.pc \in Early => ThisBoot
    BY DEF BatteryInv, Prepares, ThisBoot, NoPre
  <2> QED  BY <1>0, <2>1, <2>2 DEF Own, Jobs
<1>5. run.pc \notin {"waitReboot", "phaseHead"}
  BY <1>1 DEF CallPcs
<1> HIDE DEF Own
<1>6. CASE /\ run'.tries \in {1, 2} /\ RunKept /\ (run'.verified => run.verified)
           /\ jobs' \subseteq jobs \cup {Own}
  <2>1. jobs' \subseteq Jobs
    BY <1>0, <1>4, <1>6
  <2>2. \A k \in jobs' : KnownJob(k)
    BY <1>1, <1>4, <1>6 DEF KnownJob
  <2>3. Scripts'
    <3>1. \A k \in jobs' : k.own => k = Own
      BY <1>2, <1>6 DEF Unowned
    <3>2. \A k \in jobs' : ~k.own => guest.stray
      BY <1>4, <1>6 DEF BatteryInv, Scripts
    <3> QED  BY <1>1, <1>4, <1>6, <3>1, <3>2, SameMode DEF Scripts, RunKept
  <2>4. Timers'
    <3>1. ThisBoot' <=> ThisBoot
      BY <1>1 DEF ThisBoot
    <3> QED  BY <1>1, <1>4, <1>6, <3>1 DEF BatteryInv, Timers
  <2>5. OwnPost'
    <3>1. \A k \in jobs' : k.own => k.at # "tail"
      BY <1>2, <1>4, <1>6 DEF Unowned
    <3> QED  BY <1>6, <3>1 DEF OwnPost
  <2>6. Cleaned'
    <3>1. ~run'.verified
      BY <1>1, <1>6 DEF BatteryInv, Cleaned
    <3> QED  BY <1>5, <1>6, <3>1 DEF Cleaned, RunKept
  <2> QED  BY <1>0, <1>1, <1>3, <1>6, <2>1, <2>2, <2>3, <2>4, <2>5, <2>6, GuestStep
<1>7. CASE run' = Answered(255, NoPy) /\ jobs' = jobs /\ run.tries \in {1, 2}
  <2>1. /\ run' \in Runners /\ run'.tries = 3 /\ run'.rc = 255 /\ run'.py = NoPy
        /\ run'.pc = run.pc /\ run'.n = run.n /\ run'.before = run.before /\ run'.s = run.s
        /\ run'.phases = run.phases /\ run'.passed = run.passed /\ run'.verified = run.verified
    <3>1. NoPy \in Nat
      BY DEF NoPy
    <3> QED  BY <1>0, <1>7, <3>1, AnsweredKeeps
  <2>2. RunKept
    BY <1>5, <2>1 DEF RunKept
  <2>3. \A k \in jobs' : KnownJob(k)
    BY <1>7 DEF KnownJob
  <2>4. Scripts' /\ Timers'
    BY <1>1, <1>2, <1>7 DEF BatteryInv, Scripts, Timers, ThisBoot, Unowned
  <2>5. OwnPost'
    BY <1>2, <1>7, <2>1 DEF OwnPost, Zero, Unowned
  <2>6. Cleaned'
    BY <1>5, <1>7, <2>1 DEF BatteryInv, Cleaned
  <2> QED  BY <1>0, <1>1, <1>3, <1>7, <2>2, <2>3, <2>4, <2>5, <2>6, GuestStep
<1>8. CASE Call
  <2>1. run' = [run EXCEPT !.tries = 1, !.py = NoPy, !.verified = FALSE]
    BY <1>8 DEF Call
  <2>2. PICK a : a = [run EXCEPT !.tries = 1]
    OBVIOUS
  <2>3. /\ a \in Runners /\ a.tries = 1 /\ a.pc = run.pc /\ a.n = run.n /\ a.before = run.before
        /\ a.s = run.s /\ a.phases = run.phases /\ a.passed = run.passed
    <3>1. \A t \in 0 .. 3 : [run EXCEPT !.tries = t] \in Runners
      BY <1>0, RunnerFields
    <3> QED  BY <1>0, <2>2, <3>1 DEF Runners
  <2>4. PICK b : b = [a EXCEPT !.py = NoPy]
    OBVIOUS
  <2>5. /\ b \in Runners /\ b.tries = 1 /\ b.pc = run.pc /\ b.n = run.n /\ b.before = run.before
        /\ b.s = run.s /\ b.phases = run.phases /\ b.passed = run.passed
    <3>1. [a EXCEPT !.py = NoPy] \in Runners
      BY <2>3, RunnerFields DEF NoPy
    <3> QED  BY <2>3, <2>4, <3>1 DEF Runners
  <2>6. run' = [b EXCEPT !.verified = FALSE]
    BY <2>1, <2>2, <2>4
  <2>7. /\ run' \in Runners /\ run'.tries = 1 /\ run'.pc = run.pc /\ run'.n = run.n
        /\ run'.before = run.before /\ run'.s = run.s /\ run'.phases = run.phases
        /\ run'.passed = run.passed /\ ~run'.verified
    BY <2>5, <2>6 DEF Runners
  <2>8. RunKept
    BY <1>5, <2>7 DEF RunKept
  <2> QED  BY <1>6, <1>8, <2>7, <2>8 DEF Call
<1>9. CASE Retry
  <2>1. CASE run' = [run EXCEPT !.tries = 2] /\ jobs' = jobs \cup {Own}
    <3>1. /\ run' \in Runners /\ run'.tries = 2 /\ run'.pc = run.pc /\ run'.n = run.n
          /\ run'.before = run.before /\ run'.s = run.s /\ run'.phases = run.phases
          /\ run'.passed = run.passed /\ run'.verified = run.verified
      <4>1. \A t \in 0 .. 3 : [run EXCEPT !.tries = t] \in Runners
        BY <1>0, RunnerFields
      <4> QED  BY <1>0, <2>1, <4>1 DEF Runners
    <3>2. RunKept
      BY <1>5, <3>1 DEF RunKept
    <3> QED  BY <1>6, <2>1, <3>1, <3>2
  <2>2. CASE run' = Answered(255, NoPy) /\ jobs' = jobs
    BY <1>7, <1>9, <2>2 DEF Retry
  <2> QED  BY <1>9, <2>1, <2>2 DEF Retry
<1>10. CASE GiveUp
  BY <1>7, <1>10 DEF GiveUp
<1> QED  BY <1>8, <1>9, <1>10

\* A script goes on to its next stage.
LEMMA MoveStep ==
  ASSUME BatteryInv, NEW j \in jobs, NEW at \in {"work", "tail", "tailFail"}, Move(j, at),
         run' = run, repeats' = repeats, drops' = drops,
         guest' \in Guests, guest'.boot = guest.boot, guest'.timer = guest.timer,
         guest'.stray = guest.stray, PreWritten, RowsWritten,
         \/ guest'.pre.boot \in {0, guest.boot}
         \/ guest'.pre = guest.pre /\ (j.mode = "pre" => at = "work"),
         at = "tail" /\ j.mode = "post" => guest'.rows.boot = guest.boot
  PROVE  BatteryInv'
<1>0. /\ run \in Runners /\ jobs \subseteq Jobs /\ drops \in 0 .. MaxDrops
  BY DEF BatteryInv, GuestTypes
<1>1. PICK k : k = [j EXCEPT !.at = at]
  OBVIOUS
<1>2. k \in Jobs /\ k.mode = j.mode /\ k.n = j.n /\ k.own = j.own /\ k.at = at
  BY <1>0, <1>1 DEF Jobs
<1>3. jobs' = (jobs \ {j}) \cup {k}
  BY <1>1 DEF Move
<1>4. RunKept
  BY <1>0 DEF RunKept
<1>5. jobs' \subseteq Jobs /\ \A i \in jobs' : KnownJob(i)
  BY <1>0, <1>2, <1>3 DEF KnownJob
<1>6. Scripts'
  <2>1. \A i \in jobs' : i.own => i.mode = ModeAt(run.pc) /\ i.n = run.n
                                  /\ run.pc \in CallPcs /\ run.tries \in {1, 2}
    BY <1>2, <1>3 DEF BatteryInv, Scripts
  <2>2. \A h, i \in jobs' : h.own /\ i.own => h = i
    BY <1>2, <1>3 DEF BatteryInv, Scripts
  <2>3. \A i \in jobs' : ~i.own => guest.stray
    BY <1>2, <1>3 DEF BatteryInv, Scripts
  <2> QED  BY <1>4, <2>1, <2>2, <2>3, SameMode DEF Scripts
<1>7. Timers'
  <2>1. CASE guest'.pre.boot \in {0, guest.boot}
    BY <2>1 DEF Timers, ThisBoot
  <2>2. CASE guest'.pre = guest.pre /\ (j.mode = "pre" => at = "work")
    <3>1. ThisBoot' <=> ThisBoot
      BY <2>2 DEF ThisBoot
    <3> QED  BY <1>2, <1>3, <2>2, <3>1 DEF BatteryInv, Timers
  <2> QED  BY <2>1, <2>2
<1>8. OwnPost'
  <2> SUFFICES ASSUME run.pc = "post"
               PROVE  /\ \A i \in jobs' : i.own /\ i.at = "tail" => RowsNew'
                      /\ run.tries = 3 /\ Zero => RowsNew'
    BY DEF OwnPost, Zero
  <2>1. CASE guest'.rows # guest.rows
    BY <1>4, <2>1, NewRows
  <2>2. CASE guest'.rows = guest.rows
    <3>1. RowsNew' <=> RowsNew
      BY <2>2 DEF RowsNew
    <3>2. j.own => j.mode = "post"
      BY OwnedCall DEF ModeAt
    <3>3. \A i \in jobs' : i.own /\ i.at = "tail" => i \in jobs \/ guest.rows.boot = guest.boot
      BY <1>2, <1>3, <2>2, <3>2
    <3>4. guest.rows.boot = guest.boot => RowsNew
      BY <1>0 DEF BatteryInv, GuestTypes, Returned, RowsNew, Runners, Guests
    <3> QED  BY <3>1, <3>3, <3>4 DEF BatteryInv, OwnPost
  <2> QED  BY <2>1, <2>2
<1>9. Cleaned'
  <2>1. CASE guest.stray
    BY <2>1 DEF BatteryInv, Cleaned
  <2>2. CASE ~guest.stray
    <3>1. run.pc \in CallPcs /\ run.tries \in {1, 2} /\ ~run.verified
      BY <2>2, OwnedCall
    <3> QED  BY <3>1 DEF Cleaned, CallPcs
  <2> QED  BY <2>1, <2>2
<1> QED  BY <1>0, <1>4, <1>5, <1>6, <1>7, <1>8, <1>9, GuestStep

\* A script is gone, and its caller has its answer or took it for a lost tunnel.
Ended(j, rc) ==
    /\ jobs' = jobs \ {j} /\ drops' \in 0 .. MaxDrops
    /\ run' = run \/ (j.own /\ run' = Answered(rc, rc))

LEMMA EndsSo ==
  ASSUME drops \in 0 .. MaxDrops, NEW j, NEW rc, (End(j, rc) /\ drops' = drops) \/ EndEarly(j, rc)
  PROVE  Ended(j, rc)
BY BatteryAssumption DEF End, EndEarly, Ended

\* A script ends, and its caller, if there is one, has its answer.
LEMMA EndStep ==
  ASSUME BatteryInv, NEW j \in jobs, NEW rc \in {0, 1, 2}, Ended(j, rc),
         repeats' = repeats,
         guest' \in Guests, guest'.boot = guest.boot, guest'.stray = guest.stray,
         guest'.timer => guest.timer \/ ThisBoot,
         guest'.inst => guest.inst, guest'.pre = guest.pre, RowsWritten,
         guest'.rows = guest.rows /\ rc = 0 => j.at = "tail" \/ guest.rows.kind # "post"
  PROVE  BatteryInv'
<1>0. /\ run \in Runners /\ jobs \subseteq Jobs /\ drops' \in 0 .. MaxDrops /\ rc \in Nat
  BY DEF BatteryInv, GuestTypes, Ended
<1>1. jobs' = jobs \ {j}
  BY DEF Ended
<1>2. \/ run' = run
      \/ /\ j.own /\ run' \in Runners /\ run'.tries = 3 /\ run'.rc = rc /\ run'.py = rc
         /\ run'.pc = run.pc /\ run'.n = run.n /\ run'.before = run.before /\ run'.s = run.s
         /\ run'.phases = run.phases /\ run'.passed = run.passed /\ run'.verified = run.verified
  BY <1>0, AnsweredKeeps DEF Ended
<1>3. j.own => run.tries \in {1, 2} /\ run.pc \in CallPcs /\ ~run.verified /\ j.mode = ModeAt(run.pc)
  BY OwnedCall
<1>4. RunKept
  BY <1>0, <1>2, <1>3 DEF RunKept, CallPcs
<1>5. jobs' \subseteq Jobs /\ (\A i \in jobs' : KnownJob(i)) /\ PreWritten
  BY <1>0, <1>1 DEF KnownJob, PreWritten
<1>6. Scripts'
  <2>1. CASE run' = run
    BY <1>1, <1>4, <2>1, SameMode DEF BatteryInv, Scripts
  <2>2. CASE j.own
    BY <1>1, <2>2 DEF BatteryInv, Scripts
  <2> QED  BY <1>2, <2>1, <2>2
<1>7. Timers'
  <2>1. ThisBoot' <=> ThisBoot
    BY DEF ThisBoot
  <2> QED  BY <1>1, <2>1 DEF BatteryInv, Timers
<1>8. OwnPost'
  <2> SUFFICES ASSUME run.pc = "post"
               PROVE  /\ \A i \in jobs' : i.own /\ i.at = "tail" => RowsNew'
                      /\ run'.tries = 3 /\ Zero' => RowsNew'
    BY <1>4 DEF OwnPost, RunKept
  <2>1. CASE guest'.rows # guest.rows
    BY <1>4, <2>1, NewRows
  <2>2. CASE guest'.rows = guest.rows
    <3>1. RowsNew' <=> RowsNew
      BY <1>4, <2>2 DEF RowsNew, RunKept
    <3>2. j.own /\ run'.tries = 3 /\ Zero' => RowsNew
      <4>1. j.own /\ run'.tries = 3 /\ Zero' => rc = 0
        BY <1>2, <1>3 DEF Zero, NoPy
      <4> QED  BY <2>2, <4>1 DEF BatteryInv, OwnPost, RowsNew
    <3>3. ~j.own /\ run'.tries = 3 /\ Zero' => RowsNew
      BY <1>2 DEF BatteryInv, OwnPost, Zero
    <3> QED  BY <1>1, <3>1, <3>2, <3>3 DEF BatteryInv, OwnPost
  <2> QED  BY <2>1, <2>2
<1>9. Cleaned'
  <2>1. CASE guest.stray
    BY <1>2, <1>3, <2>1 DEF BatteryInv, Cleaned
  <2>2. CASE ~guest.stray
    <3>1. run.pc \in CallPcs /\ run.tries \in {1, 2} /\ ~run.verified /\ j.own
      BY <2>2, OwnedCall
    <3> QED  BY <1>2, <3>1 DEF Cleaned, CallPcs
  <2> QED  BY <2>1, <2>2
<1> QED  BY <1>0, <1>4, <1>5, <1>6, <1>7, <1>8, <1>9, GuestStep

\* A rows file as a script writes it.
LEMMA RowsOf ==
  ASSUME guest \in Guests, NEW kind \in RowKinds, NEW n \in Nat, NEW ok \in BOOLEAN,
         NEW word \in Words
  PROVE  /\ Rows(kind, n, ok, word) \in RowFiles
         /\ Rows(kind, n, ok, word).kind = kind /\ Rows(kind, n, ok, word).n = n
         /\ Rows(kind, n, ok, word).boot = guest.boot /\ Rows(kind, n, ok, word).ok = ok
<1>0. guest.boot \in Nat /\ guest.bpf \in BOOLEAN /\ NoRows \in RowFiles
  BY DEF Guests, NoRows, RowFiles, RowKinds, Words
<1>1. PICK a : a = [NoRows EXCEPT !.kind = kind, !.n = n, !.boot = guest.boot]
  OBVIOUS
<1>2. a \in RowFiles /\ a.kind = kind /\ a.n = n /\ a.boot = guest.boot
  BY <1>0, <1>1 DEF RowFiles
<1>3. Rows(kind, n, ok, word) = [a EXCEPT !.ok = ok, !.word = word, !.bpf = guest.bpf]
  BY <1>1 DEF Rows
<1> QED  BY <1>0, <1>2, <1>3 DEF RowFiles

LEMMA StartStep ==
  ASSUME BatteryInv, NEW j \in jobs, ScriptStarts(j)
  PROVE  BatteryInv'
<1>0. /\ guest \in Guests /\ jobs \subseteq Jobs /\ j \in Jobs /\ guest.rows \in RowFiles
      /\ guest.pre \in PreFiles /\ repeats' = repeats /\ drops \in 0 .. MaxDrops /\ j.at = "start"
  BY DEF BatteryInv, GuestTypes, Guests, ScriptStarts
<1>1. CASE j.mode = "lsm-guard" /\ lsm_boot_decision # "proof"
  <2>1. PICK dec \in Words : dec = lsm_boot_decision
    BY <1>1 DEF lsm_boot_decision, Words
  <2>2. PICK rc \in {0, 1, 2} : Ended(j, rc)
    <3>1. PICK rc \in {0, 1, 2} : EndEarly(j, rc)
      BY <1>1 DEF ScriptStarts
    <3> QED  BY <1>0, <3>1, EndsSo
  <2>8. PICK f \in BOOLEAN : guest' = [guest EXCEPT !.rows = Rows("lsm", j.n, f, dec)]
    <3>1. guest' = [guest EXCEPT !.rows = Rows("lsm", j.n, FALSE, dec)]
      BY <1>1, <2>1, Zenon DEF ScriptStarts
    <3> QED  BY <3>1, Zenon
  <2>3. PICK r \in RowFiles : /\ r = Rows("lsm", j.n, f, dec) /\ r.kind = "lsm"
                              /\ r.n = j.n /\ r.boot = guest.boot
    <3>1. "lsm" \in RowKinds /\ j.n \in Nat
      BY <1>0 DEF RowKinds, Jobs
    <3> QED  BY <1>0, <3>1, RowsOf
  <2>4. guest' = [guest EXCEPT !.rows = r]
    BY <2>3, <2>8
  <2>5. /\ guest' \in Guests /\ guest'.boot = guest.boot /\ guest'.stray = guest.stray
        /\ guest'.timer = guest.timer /\ guest'.inst = guest.inst /\ guest'.pre = guest.pre
        /\ guest'.rows = r
    BY <1>0, <2>3, <2>4 DEF Guests
  <2>6. RowsWritten
    BY <2>3, <2>5 DEF RowsWritten
  <2>7. guest'.rows = guest.rows => guest.rows.kind # "post"
    BY <2>3, <2>5
  <2> QED  BY <1>0, <2>2, <2>5, <2>6, <2>7, EndStep
<1>2. CASE ~(j.mode = "lsm-guard" /\ lsm_boot_decision # "proof")
  <2>1. NoRows \in RowFiles /\ NoPre \in PreFiles /\ NoPre.boot = 0
    BY DEF NoRows, NoPre, RowFiles, PreFiles, RowKinds, Words
  <2>2. PICK r \in {guest.rows, NoRows}, p \in {guest.pre, NoPre} :
           /\ j.mode = "pre" => p = NoPre
           /\ guest' = [guest EXCEPT !.rows = r, !.pre = p]
    BY <1>2 DEF ScriptStarts
  <2>3. Move(j, "work") /\ run' = run /\ drops' = drops
    BY <1>2 DEF ScriptStarts
  <2>4. /\ guest' \in Guests /\ guest'.boot = guest.boot /\ guest'.stray = guest.stray
        /\ guest'.timer = guest.timer /\ guest'.pre = p /\ guest'.rows = r
    BY <1>0, <2>1, <2>2 DEF Guests
  <2>5. PreWritten /\ RowsWritten
    BY <2>2, <2>4 DEF PreWritten, RowsWritten
  <2>6. \/ guest'.pre.boot \in {0, guest.boot}
        \/ guest'.pre = guest.pre
    BY <2>1, <2>2, <2>4
  <2> QED  BY <1>0, <2>3, <2>4, <2>5, <2>6, MoveStep
<1> QED  BY <1>1, <1>2

LEMMA RefusedStep ==
  ASSUME BatteryInv, NEW j \in jobs, ScriptRefused(j)
  PROVE  BatteryInv'
<1>1. guest' = guest /\ repeats' = repeats /\ guest \in Guests /\ drops \in 0 .. MaxDrops
  BY DEF BatteryInv, GuestTypes, ScriptRefused
<1>2. (End(j, 1) /\ drops' = drops) \/ EndEarly(j, 1)
  BY DEF ScriptRefused
<1>3. Ended(j, 1)
  BY <1>1, <1>2, EndsSo
<1> QED  BY <1>1, <1>3, EndStep DEF RowsWritten

LEMMA EndsStep ==
  ASSUME BatteryInv, NEW j \in jobs, ScriptEnds(j)
  PROVE  BatteryInv'
<1>0. guest \in Guests /\ j \in Jobs /\ repeats' = repeats /\ drops' = drops
      /\ drops \in 0 .. MaxDrops
  BY DEF BatteryInv, GuestTypes, ScriptEnds
<1>1. PICK rc \in {0, 1, 2} : Ended(j, rc) /\ (rc = 0 => j.at = "tail")
  <2>1. PICK rc \in {0, 1, 2} : End(j, rc) /\ (rc = 0 => j.at = "tail")
    BY DEF ScriptEnds
  <2> QED  BY <1>0, <2>1, EndsSo
<1>2. PICK timer \in BOOLEAN :
         timer = (guest.timer \/ j.mode = "pre"
                   \/ (j.mode = "lsm-guard" /\ guest.rows.word = "GUARD_PROVED"))
  BY Zenon
<1>3. PICK inst \in BOOLEAN : inst = (guest.inst /\ ~(j.mode = "enterprise" /\ j.at = "tail"))
  BY Zenon
<1>4. guest' = [guest EXCEPT !.timer = timer, !.inst = inst]
  <2>1. guest' = [guest EXCEPT !.timer = guest.timer \/ j.mode = "pre"
                                          \/ (j.mode = "lsm-guard" /\ guest.rows.word = "GUARD_PROVED"),
                           !.inst = guest.inst /\ ~(j.mode = "enterprise" /\ j.at = "tail")]
    BY DEF ScriptEnds
  <2> QED  BY <1>2, <1>3, <2>1, Zenon
<1>5. /\ guest' \in Guests /\ guest'.boot = guest.boot /\ guest'.stray = guest.stray
      /\ guest'.timer = timer /\ guest'.inst = inst /\ guest'.pre = guest.pre
      /\ guest'.rows = guest.rows
  BY <1>0, <1>4 DEF Guests
<1>6. timer => guest.timer \/ ThisBoot
  BY <1>2 DEF ScriptEnds, BatteryInv, Timers
<1>7. inst => guest.inst
  BY <1>3
<1> QED  BY <1>0, <1>1, <1>5, <1>6, <1>7, EndStep DEF RowsWritten

\* The kind of rows each script leaves.
KindOf(mode) == IF mode = "lsm-guard" THEN "lsm" ELSE mode

\* What a script leaves that has measured.
LEMMA MeasuredLeaves ==
  ASSUME BatteryInv, NEW j \in jobs, NEW ok \in BOOLEAN, j.mode # "uninstall",
         guest' = Measured(j, ok)
  PROVE  /\ guest' \in Guests /\ guest'.boot = guest.boot /\ guest'.timer = guest.timer
         /\ guest'.stray = guest.stray
         /\ guest'.rows.boot = guest.boot /\ guest'.rows.n = j.n
         /\ guest'.rows.kind = KindOf(j.mode)
         /\ IF j.mode = "pre" THEN guest'.pre.boot = guest.boot /\ guest'.pre.n = j.n
                              ELSE guest'.pre = guest.pre
         /\ j.mode = "post" /\ guest'.rows.ok =>
              /\ guest.pre.ok /\ guest.pre.boot # guest.boot
              /\ guest'.rows.preN = guest.pre.n /\ guest'.rows.preBoot = guest.pre.boot
<1>0. /\ guest \in Guests /\ j \in Jobs /\ guest.boot \in Nat /\ guest.pre \in PreFiles /\ j.n \in Nat
      /\ j.mode \in Modes /\ KindOf(j.mode) \in RowKinds /\ "none" \in Words
  BY DEF BatteryInv, GuestTypes, Guests, Jobs, KindOf, RowKinds, Words
<1>1. CASE j.mode = "lsm-guard"
  <2>1. PICK word \in Words : word = IF ok THEN "GUARD_PROVED" ELSE "FAIL"
    BY DEF Words
  <2>2. guest' = run_lsm_guard(j.n, ok)
    BY <1>1 DEF Measured
  <2>3. PICK f \in BOOLEAN, m \in BOOLEAN :
          guest' = [guest EXCEPT !.rows = Rows("lsm", j.n, f, word), !.menu = m, !.record = ok]
    <3>1. guest' = [guest EXCEPT !.rows = Rows("lsm", j.n, FALSE, word),
                                 !.menu = guest.menu \/ ok, !.record = ok]
      BY <2>1, <2>2, Zenon DEF run_lsm_guard
    <3>2. (guest.menu \/ ok) \in BOOLEAN
      OBVIOUS
    <3> QED  BY <3>1, <3>2, Zenon
  <2>4. PICK r \in RowFiles : /\ r = Rows("lsm", j.n, f, word) /\ r.kind = "lsm"
                              /\ r.n = j.n /\ r.boot = guest.boot
    <3>1. "lsm" \in RowKinds
      BY DEF RowKinds
    <3> QED  BY <1>0, <3>1, RowsOf
  <2>5. guest' = [guest EXCEPT !.rows = r, !.menu = m, !.record = ok]
    BY <2>3, <2>4
  <2> QED  BY <1>0, <1>1, <2>4, <2>5 DEF Guests, KindOf
<1>2. CASE j.mode = "pre"
  <2>1. PICK r \in RowFiles : /\ r = Rows("pre", j.n, ok, "none") /\ r.kind = "pre"
                              /\ r.n = j.n /\ r.boot = guest.boot
    <3>1. "pre" \in RowKinds
      BY <1>0, <1>2 DEF KindOf
    <3> QED  BY <1>0, <3>1, RowsOf
  <2>2. PICK p \in PreFiles : p = [n |-> j.n, boot |-> guest.boot, ok |-> ok]
    BY <1>0 DEF PreFiles
  <2>3. guest' = [guest EXCEPT !.rows = r, !.inst = TRUE, !.pre = p]
    BY <1>2, <2>1, <2>2 DEF Measured, b1_pre
  <2>4. p.n = j.n /\ p.boot = guest.boot
    BY <2>2
  <2> HIDE DEF Rows
  <2> QED  BY <1>0, <1>2, <2>1, <2>3, <2>4 DEF Guests, KindOf
<1>3. CASE j.mode = "post"
  <2>1. PICK b \in BOOLEAN : b = b1_pass(ok)
    BY Zenon DEF b1_pass
  <2>2. PICK q \in RowFiles : /\ q = Rows("post", j.n, b, "none") /\ q.kind = "post"
                              /\ q.n = j.n /\ q.boot = guest.boot /\ q.ok = b
    <3>1. "post" \in RowKinds
      BY <1>0, <1>3 DEF KindOf
    <3> QED  BY <1>0, <3>1, RowsOf
  <2>3. PICK r : r = [q EXCEPT !.preN = guest.pre.n, !.preBoot = guest.pre.boot]
    OBVIOUS
  <2>4. /\ r \in RowFiles /\ r.kind = "post" /\ r.n = j.n /\ r.boot = guest.boot /\ r.ok = b
        /\ r.preN = guest.pre.n /\ r.preBoot = guest.pre.boot
    <3>1. guest.pre.n \in Nat /\ guest.pre.boot \in Nat
      BY <1>0 DEF PreFiles
    <3> QED  BY <2>2, <2>3, <3>1 DEF RowFiles
  <2>5. guest' = [guest EXCEPT !.rows = r, !.inst = TRUE]
    <3>1. PostRows(j.n, ok) = r
      BY <2>1, <2>2, <2>3 DEF PostRows
    <3> QED  BY <1>3, <3>1 DEF Measured, b1_post
  <2>6. b => guest.pre.ok /\ guest.pre.boot # guest.boot
    BY <2>1 DEF b1_pass
  <2> QED  BY <1>0, <1>3, <2>4, <2>5, <2>6 DEF Guests, KindOf
<1>4. CASE j.mode \notin {"lsm-guard", "pre", "post"}
  <2>1. PICK r \in RowFiles : /\ r = Rows(j.mode, j.n, ok, "none") /\ r.kind = j.mode
                              /\ r.n = j.n /\ r.boot = guest.boot
    <3>1. j.mode \in RowKinds
      BY <1>0, <1>4 DEF KindOf
    <3> QED  BY <1>0, <3>1, RowsOf
  <2>2. guest' = [guest EXCEPT !.rows = r, !.inst = TRUE]
    BY <1>4, <2>1 DEF Measured, enterprise_rows, run_2d, run_2c, run_phase
  <2> QED  BY <1>0, <1>4, <2>1, <2>2 DEF Guests, KindOf
<1> QED  BY <1>1, <1>2, <1>3, <1>4

LEMMA MeasureStep ==
  ASSUME BatteryInv, NEW j \in jobs, NEW ok \in BOOLEAN, ScriptMeasures(j, ok)
  PROVE  BatteryInv'
<1>0. /\ guest \in Guests /\ run \in Runners /\ jobs \subseteq Jobs /\ j \in Jobs
      /\ drops \in 0 .. MaxDrops /\ repeats' = repeats /\ drops' = drops
      /\ guest' = Measured(j, ok)
  BY DEF BatteryInv, GuestTypes, ScriptMeasures
<1>1. CASE j.mode # "uninstall"
  <2>1. /\ guest' \in Guests /\ guest'.boot = guest.boot /\ guest'.timer = guest.timer
        /\ guest'.stray = guest.stray
        /\ guest'.rows.boot = guest.boot /\ guest'.rows.n = j.n
        /\ guest'.rows.kind = KindOf(j.mode)
        /\ IF j.mode = "pre" THEN guest'.pre.boot = guest.boot /\ guest'.pre.n = j.n
                             ELSE guest'.pre = guest.pre
        /\ j.mode = "post" /\ guest'.rows.ok =>
             /\ guest.pre.ok /\ guest.pre.boot # guest.boot
             /\ guest'.rows.preN = guest.pre.n /\ guest'.rows.preBoot = guest.pre.boot
    BY <1>0, <1>1, MeasuredLeaves
  <2>2. PICK at \in {"tail", "tailFail"} : Move(j, at) /\ run' = run
    BY <1>1 DEF ScriptMeasures
  <2>3. PreWritten
    BY <2>1 DEF PreWritten
  <2>4. RowsWritten
    BY <2>1 DEF RowsWritten, KindOf
  <2>5. \/ guest'.pre.boot \in {0, guest.boot}
        \/ guest'.pre = guest.pre /\ (j.mode = "pre" => at = "work")
    BY <2>1
  <2> QED  BY <1>0, <2>1, <2>2, <2>3, <2>4, <2>5, MoveStep
<1>2. CASE j.mode = "uninstall"
  <2>1. PICK inst \in BOOLEAN : inst = (guest.inst /\ ~ok)
    BY Zenon
  <2>2. guest' = [guest EXCEPT !.inst = inst]
    <3>1. guest' = [guest EXCEPT !.inst = guest.inst /\ ~ok]
      BY <1>0, <1>2 DEF Measured, product_uninstall
    <3> QED  BY <2>1, <3>1, Zenon
  <2>3. /\ guest' \in Guests /\ guest'.boot = guest.boot /\ guest'.timer = guest.timer
        /\ guest'.stray = guest.stray /\ guest'.rows = guest.rows /\ guest'.pre = guest.pre
        /\ guest'.inst = inst
    BY <1>0, <2>2 DEF Guests
  <2>4. PICK rc \in {0, 1} :
           run' = IF j.own THEN [Answered(rc, NoPy) EXCEPT !.verified = ok] ELSE run
    BY <1>2 DEF ScriptMeasures
  <2>5. /\ j.own => /\ run' \in Runners /\ run'.tries = 3 /\ run'.verified = ok
                    /\ run'.pc = run.pc /\ run'.n = run.n /\ run'.before = run.before
                    /\ run'.s = run.s /\ run'.phases = run.phases /\ run'.passed = run.passed
        /\ ~j.own => run' = run
    <3>1. PICK a : a = Answered(rc, NoPy)
      OBVIOUS
    <3>2. /\ a \in Runners /\ a.tries = 3 /\ a.pc = run.pc /\ a.n = run.n
          /\ a.before = run.before /\ a.s = run.s /\ a.phases = run.phases
          /\ a.passed = run.passed
      <4>1. NoPy \in Nat /\ rc \in Nat
        BY DEF NoPy
      <4> QED  BY <1>0, <3>1, <4>1, AnsweredKeeps
    <3>3. j.own => run' = [a EXCEPT !.verified = ok]
      BY <2>4, <3>1
    <3> QED  BY <2>4, <3>2, <3>3 DEF Runners
  <2>6. jobs' = jobs \ {j}
    BY <1>2 DEF ScriptMeasures
  <2>7. j.own => run.pc \in CallPcs /\ j.mode = ModeAt(run.pc)
    BY OwnedCall
  <2>8. j.own => run.pc \notin {"post", "waitReboot"}
    BY <1>2, <2>7 DEF ModeAt
  <2>9. RunKept
    BY <1>0, <2>5, <2>8 DEF RunKept
  <2>10. PreWritten /\ RowsWritten /\ jobs' \subseteq Jobs /\ \A i \in jobs' : KnownJob(i)
    BY <1>0, <2>3, <2>6 DEF PreWritten, RowsWritten, KnownJob
  <2>11. Scripts'
    <3>1. CASE ~j.own
      BY <2>3, <2>5, <2>6, <2>9, <3>1, SameMode DEF BatteryInv, Scripts
    <3>2. CASE j.own
      BY <2>3, <2>6, <3>2 DEF BatteryInv, Scripts
    <3> QED  BY <3>1, <3>2
  <2>12. Timers'
    BY <2>3, <2>6 DEF BatteryInv, Timers, ThisBoot
  <2>13. OwnPost'
    <3>1. CASE ~j.own
      BY <2>3, <2>5, <2>6, <3>1 DEF BatteryInv, OwnPost, RowsNew, Zero
    <3>2. CASE j.own
      BY <2>5, <2>8, <3>2 DEF OwnPost
    <3> QED  BY <3>1, <3>2
  <2>14. Cleaned'
    <3>1. CASE ~j.own
      <4>1. guest.stray
        BY <3>1 DEF BatteryInv, Scripts
      <4> QED  BY <2>3, <2>5, <3>1, <4>1 DEF BatteryInv, Cleaned
    <3>2. CASE j.own
      <4>1. run'.pc # "phaseHead" /\ run'.tries = 3
        BY <2>5, <2>7, <3>2 DEF CallPcs
      <4>2. run'.verified => ~guest'.inst
        BY <2>1, <2>3, <2>5, <3>2
      <4> QED  BY <4>1, <4>2 DEF Cleaned
    <3> QED  BY <3>1, <3>2
  <2> QED  BY <1>0, <2>3, <2>9, <2>10, <2>11, <2>12, <2>13, <2>14, GuestStep
<1> QED  BY <1>1, <1>2

\* The tunnel is lost: the runner has what was printed before, the script goes on
\* without it or dies.
LEMMA DropStep ==
  ASSUME BatteryInv, NEW j \in jobs, NEW goesOn \in BOOLEAN, TunnelDrops(j, goesOn)
  PROVE  BatteryInv'
<1>0. /\ guest \in Guests /\ run \in Runners /\ jobs \subseteq Jobs /\ j \in Jobs
      /\ drops \in 0 .. MaxDrops /\ repeats' = repeats /\ drops' \in 0 .. MaxDrops
      /\ j.own
  BY BatteryAssumption DEF BatteryInv, GuestTypes, TunnelDrops, OwnJobs
<1>1. /\ j.mode = ModeAt(run.pc) /\ j.n = run.n /\ run.pc \in CallPcs
      /\ run.tries \in {1, 2} /\ ~run.verified
  BY <1>0, OwnedCall
<1>2. PICK stray \in BOOLEAN : stray = (guest.stray \/ goesOn)
  BY Zenon
<1>3. guest' = [guest EXCEPT !.stray = stray]
  <2>1. guest' = [guest EXCEPT !.stray = guest.stray \/ goesOn]
    BY DEF TunnelDrops
  <2> QED  BY <1>2, <2>1, Zenon
<1>4. /\ guest' \in Guests /\ guest'.boot = guest.boot /\ guest'.timer = guest.timer
      /\ guest'.stray = stray /\ guest'.rows = guest.rows /\ guest'.pre = guest.pre
      /\ guest'.inst = guest.inst
  BY <1>0, <1>3 DEF Guests
<1>5. PICK k : k = [j EXCEPT !.own = FALSE]
  OBVIOUS
<1>6. k \in Jobs /\ k.mode = j.mode /\ k.n = j.n /\ ~k.own /\ k.at = j.at
  BY <1>0, <1>5 DEF Jobs
<1>7. /\ jobs' \subseteq (jobs \ {j}) \cup {k}
      /\ k \in jobs' => k \in jobs \/ goesOn
  BY <1>5 DEF TunnelDrops
<1>8. \/ run' = run
      \/ /\ run' \in Runners /\ run'.tries = 3 /\ run'.py = PyOut(j) /\ run'.py # NoPy
         /\ run'.pc = run.pc /\ run'.n = run.n /\ run'.before = run.before /\ run'.s = run.s
         /\ run'.phases = run.phases /\ run'.passed = run.passed
         /\ run'.verified = run.verified
  <2>1. CASE PyOut(j) = NoPy
    BY <2>1 DEF TunnelDrops
  <2>2. CASE PyOut(j) # NoPy
    <3>1. PyOut(j) \in Nat
      BY DEF PyOut, NoPy
    <3>2. run' = Answered(255, PyOut(j))
      BY <2>2 DEF TunnelDrops
    <3> QED  BY <1>0, <2>2, <3>1, <3>2, AnsweredKeeps
  <2> QED  BY <2>1, <2>2
<1>9. RunKept
  BY <1>0, <1>1, <1>8 DEF RunKept, CallPcs
<1>10. PreWritten /\ RowsWritten /\ jobs' \subseteq Jobs /\ \A i \in jobs' : KnownJob(i)
  BY <1>0, <1>4, <1>6, <1>7 DEF PreWritten, RowsWritten, KnownJob
<1>11. Scripts'
  <2>1. \A i \in jobs' : ~i.own
    BY <1>0, <1>6, <1>7 DEF BatteryInv, Scripts
  <2>2. \A i \in jobs' : stray
    BY <1>2, <1>6, <1>7, <2>1 DEF BatteryInv, Scripts
  <2> QED  BY <1>4, <2>1, <2>2 DEF Scripts
<1>12. Timers'
  BY <1>4, <1>6, <1>7 DEF BatteryInv, Timers, ThisBoot
<1>13. OwnPost'
  <2>1. \A i \in jobs' : ~i.own
    BY <1>0, <1>6, <1>7 DEF BatteryInv, Scripts
  <2>2. ASSUME run.pc = "post", run'.tries = 3, Zero'
        PROVE  RowsNew'
    <3>1. PyOut(j) = 0
      BY <1>1, <1>8, <2>2 DEF Zero
    <3>2. j.at = "tail"
      BY <3>1 DEF PyOut, NoPy
    <3>3. RowsNew
      BY <1>0, <2>2, <3>2 DEF BatteryInv, OwnPost
    <3> QED  BY <1>4, <1>9, <3>3 DEF RowsNew, RunKept
  <2> QED  BY <1>9, <2>1, <2>2 DEF OwnPost, RunKept
<1>14. Cleaned'
  BY <1>1, <1>8 DEF Cleaned, CallPcs
<1> QED  BY <1>0, <1>4, <1>9, <1>10, <1>11, <1>12, <1>13, <1>14, GuestStep

\* A reboot ends every script and every call; what the scripts wrote stays.
LEMMA RebootStep ==
  ASSUME BatteryInv, NEW back \in BOOLEAN, NEW bpf \in BOOLEAN, Reboot(back, bpf)
  PROVE  BatteryInv'
<1>0. /\ guest \in Guests /\ run \in Runners /\ jobs \subseteq Jobs /\ drops \in 0 .. MaxDrops
      /\ repeats' = repeats /\ drops' = drops /\ jobs' = {} /\ guest.timer
      /\ guest.boot < MaxBoots
  BY DEF BatteryInv, GuestTypes, Reboot
<1>1. guest' = [guest EXCEPT !.boot = guest.boot + 1, !.timer = FALSE, !.up = back, !.bpf = bpf]
  BY DEF Reboot
<1>2. /\ guest' \in Guests /\ guest'.boot = guest.boot + 1 /\ ~guest'.timer
      /\ guest'.rows = guest.rows /\ guest'.pre = guest.pre
  <2>0. guest.boot + 1 \in Nat
    BY <1>0 DEF Guests
  <2>1. PICK g : g = [guest EXCEPT !.boot = guest.boot + 1]
    OBVIOUS
  <2>2. g \in Guests /\ g.boot = guest.boot + 1 /\ g.rows = guest.rows /\ g.pre = guest.pre
    BY <1>0, <2>0, <2>1 DEF Guests
  <2>3. PICK h : h = [g EXCEPT !.timer = FALSE]
    OBVIOUS
  <2>4. h \in Guests /\ h.boot = g.boot /\ ~h.timer /\ h.rows = g.rows /\ h.pre = g.pre
    BY <2>2, <2>3 DEF Guests
  <2>5. guest' = [h EXCEPT !.up = back, !.bpf = bpf]
    BY <1>1, <2>1, <2>3
  <2> QED  BY <2>2, <2>4, <2>5 DEF Guests
<1>3. guest'.inst = guest.inst /\ guest'.stray = guest.stray
  BY <1>0, <1>1 DEF Guests
<1>4. \/ run' = run
      \/ \E j \in jobs :
           /\ j.own /\ run' \in Runners /\ run'.tries = 3
           /\ run'.py = PyOut(j) /\ run'.py # NoPy
           /\ run'.pc = run.pc /\ run'.n = run.n /\ run'.before = run.before
           /\ run'.s = run.s /\ run'.phases = run.phases /\ run'.passed = run.passed
           /\ run'.verified = run.verified
  <2>1. CASE ~\E j \in OwnJobs : PyOut(j) # NoPy
    BY <2>1 DEF Reboot
  <2>2. CASE \E j \in OwnJobs : PyOut(j) # NoPy
    <3>1. PICK j \in OwnJobs : PyOut(j) # NoPy
      BY <2>2
    <3>2. (CHOOSE i \in OwnJobs : TRUE) \in OwnJobs
      BY <3>1
    <3>3. (CHOOSE i \in OwnJobs : TRUE) = j
      BY <3>1, <3>2 DEF BatteryInv, Scripts, OwnJobs
    <3>4. run' = Answered(255, PyOut(j))
      BY <2>2, <3>3 DEF Reboot
    <3>5. PyOut(j) \in Nat /\ j \in jobs /\ j.own
      BY <3>1 DEF PyOut, NoPy, OwnJobs
    <3> QED  BY <1>0, <3>1, <3>4, <3>5, AnsweredKeeps
  <2> QED  BY <2>1, <2>2
<1>5. \/ run' = run
      \/ run.pc \in CallPcs /\ ~run.verified
  BY <1>4, OwnedCall
<1>6. RunKept
  BY <1>0, <1>4, <1>5 DEF RunKept, CallPcs
<1> USE DEF RunKept
<1>7. GuestTypes' /\ Scripts' /\ Timers' /\ JobNs' /\ BootCap'
  <2>1. GuestTypes'
    BY <1>0, <1>2, <1>6 DEF BatteryInv, GuestTypes
  <2>2. BootCap'
    BY <1>0, <1>2, BatteryAssumption DEF BootCap, Guests
  <2>3. Scripts' /\ Timers' /\ JobNs'
    BY <1>0, <1>2 DEF Scripts, Timers, JobNs
  <2> QED  BY <2>1, <2>2, <2>3
<1>8. guest.boot \in Nat /\ guest.rows \in RowFiles /\ guest.pre \in PreFiles
      /\ run.before \in Nat
  BY <1>0 DEF Guests, Runners
<1>9. Boots'
  BY <1>2, <1>8 DEF BatteryInv, Boots, RowFiles, PreFiles
<1>10. Prepares' /\ Counts'
  BY <1>0, <1>2, <1>6 DEF BatteryInv, Prepares, Counts
<1>11. Returned'
  <2>1. run.pc \in Late => run.before >= 1 /\ run.before <= guest.boot
    BY DEF BatteryInv, Returned
  <2>2. guest.pre.boot \in {0, guest.boot}
    BY <1>0 DEF BatteryInv, Timers, ThisBoot
  <2>3. /\ run.pc \in Late /\ guest.pre.boot > run.before => guest.pre.n = run.n
        /\ run.pc \in Late /\ guest.rows.kind = "post" /\ guest.rows.boot > run.before
             => guest.rows.n = run.n
    BY DEF BatteryInv, Returned
  <2>4. run.pc = "post" => run.pc \in Late
    BY DEF Late
  <2> QED  BY <1>0, <1>2, <1>6, <1>8, <2>1, <2>2, <2>3, <2>4 DEF Returned, Rebooted
<1>12. OwnPost'
  <2>1. ASSUME run.pc = "post", run'.tries = 3, Zero'
        PROVE  RowsNew
    <3>1. CASE run' = run
      BY <2>1, <3>1 DEF BatteryInv, OwnPost, Zero
    <3>2. CASE run' # run
      <4>1. PICK j \in jobs : j.own /\ run'.py = PyOut(j) /\ run'.py # NoPy
        BY <1>4, <3>2
      <4>2. PyOut(j) = 0
        BY <2>1, <4>1 DEF Zero
      <4>3. j.at = "tail"
        BY <4>2 DEF PyOut, NoPy
      <4> QED  BY <2>1, <4>1, <4>3 DEF BatteryInv, OwnPost
    <3> QED  BY <3>1, <3>2
  <2>2. RowsNew' <=> RowsNew
    BY <1>2, <1>6 DEF RowsNew
  <2> QED  BY <1>0, <1>6, <2>1, <2>2 DEF OwnPost
<1>13. (AllPass' <=> AllPass) /\ Floor' = Floor
  BY <1>0, <1>6, ChainFrame
<1>14. Chain'
  <2> SUFFICES ASSUME AllPass, run.pc \in Loop
      PROVE  /\ Floor <= guest'.boot
             /\ run.pc \in Late => Floor <= run.before /\ (run.s.hold => run.s.entN = run.n)
             /\ guest.rows.kind = "enterprise" => guest.rows.n = run.n
             /\ guest.pre.boot # 0 /\ guest.pre.boot >= Floor => Near(guest.pre.n)
             /\ run.pc \in Late /\ guest.rows.kind = "post" /\ guest.rows.ok
                /\ guest.rows.boot > run.before
                  => guest.rows.preBoot >= run.before /\ Near(guest.rows.preN)
    BY <1>0, <1>2, <1>6, <1>13 DEF Chain, Near
  <2>1. /\ Floor <= guest.boot
        /\ run.pc \in Late => Floor <= run.before /\ (run.s.hold => run.s.entN = run.n)
        /\ guest.rows.kind = "enterprise" => guest.rows.n = run.n
        /\ guest.pre.boot # 0 /\ guest.pre.boot >= Floor => Near(guest.pre.n)
        /\ run.pc \in Late /\ guest.rows.kind = "post" /\ guest.rows.ok
           /\ guest.rows.boot > run.before
             => guest.rows.preBoot >= run.before /\ Near(guest.rows.preN)
    BY DEF BatteryInv, Chain
  <2>2. Floor \in Nat
    <3>1. repeats \in Seq(Summaries) /\ Len(repeats) = run.n - 1 /\ run.n >= 1 /\ run.n \in Nat
      BY <1>0 DEF BatteryInv, GuestTypes, Counts, Runners
    <3>2. run.n # 1 => repeats[run.n - 1] \in Summaries
      BY <3>1
    <3> QED  BY <3>2 DEF Floor, Summaries
  <2>3. Floor <= guest'.boot
    BY <1>2, <1>8, <2>1, <2>2
  <2> QED  BY <2>1, <2>3
<1>15. Earned'
  BY <1>0, <1>13 DEF BatteryInv, Earned, EarnedAt
<1>16. Passed'
  BY <1>0, <1>6 DEF BatteryInv, Passed, full_set_passes
<1>17. Cleaned'
  BY <1>2, <1>3, <1>4, <1>5 DEF BatteryInv, Cleaned, CallPcs
<1>18. PhaseCount'
  BY <1>6 DEF BatteryInv, PhaseCount
<1> QED  BY <1>7, <1>9, <1>10, <1>11, <1>12, <1>14, <1>15, <1>16, <1>17, <1>18 DEF BatteryInv

-----------------------------------------------------------------------------
(* The invariant, and what it gives.                                       *)

LEMMA BatteryNextInv ==
  ASSUME BatteryInv, [BatteryNext]_batteryVars
  PROVE  BatteryInv'
<1>1. CASE UNCHANGED batteryVars
  <2>1. guest' = guest /\ jobs' = jobs /\ run' = run /\ repeats' = repeats /\ drops' = drops
    BY <1>1 DEF batteryVars
  <2>2. /\ RunKept /\ PreWritten /\ RowsWritten /\ drops' \in 0 .. MaxDrops
        /\ guest' \in Guests /\ jobs' \subseteq Jobs /\ \A k \in jobs' : KnownJob(k)
    BY <2>1 DEF RunKept, PreWritten, RowsWritten, KnownJob, BatteryInv, GuestTypes
  <2>3. Scripts'
    BY <2>1, <2>2, SameMode DEF BatteryInv, Scripts
  <2>4. Timers' /\ Cleaned'
    BY <2>1 DEF BatteryInv, Timers, ThisBoot, Cleaned
  <2>5. OwnPost'
    BY <2>1 DEF BatteryInv, OwnPost, RowsNew, Zero
  <2> QED  BY <2>1, <2>2, <2>3, <2>4, <2>5, GuestStep
<1>2. CASE HostEvidence \/ ReadBootBefore \/ JudgeGuard \/ WaitGuardBoot \/ JudgeConfirm
  BY <1>2, PrepareStep
<1>3. CASE Repeat
  BY <1>3, RepeatStep
<1>4. CASE JudgeEnterprise
  BY <1>4, EnterpriseStep
<1>5. CASE JudgePre
  BY <1>5, PreStep
<1>6. CASE WaitReboot
  BY <1>6, WaitStep
<1>7. CASE JudgePost
  BY <1>7, PostStep
<1>8. CASE Marks \/ JudgeLoader \/ JudgeUninstall
  BY <1>8, LoaderStep
<1>9. CASE PhaseHead \/ JudgePhase \/ JudgePhaseUninstall \/ Final
  BY <1>9, PhaseStep
<1>10. CASE Call \/ Retry \/ GiveUp
  BY <1>10, CallStep
<1>11. CASE \E j \in jobs : Script(j)
  <2>1. PICK j \in jobs : Script(j)
    BY <1>11
  <2>2. CASE ScriptStarts(j)
    BY <2>2, StartStep
  <2>3. CASE ScriptRefused(j)
    BY <2>3, RefusedStep
  <2>4. CASE ScriptEnds(j)
    BY <2>4, EndsStep
  <2>5. CASE \E ok \in BOOLEAN : ScriptMeasures(j, ok)
    BY <2>5, MeasureStep
  <2> QED  BY <2>1, <2>2, <2>3, <2>4, <2>5 DEF Script
<1>12. CASE \E j \in jobs, goesOn \in BOOLEAN : TunnelDrops(j, goesOn)
  BY <1>12, DropStep
<1>13. CASE \E back, bpf \in BOOLEAN : Reboot(back, bpf)
  BY <1>13, RebootStep
<1> QED  BY <1>1, <1>2, <1>3, <1>4, <1>5, <1>6, <1>7, <1>8, <1>9, <1>10, <1>11, <1>12, <1>13
         DEF BatteryNext, Runner, Done

\* What is true of the battery at every moment: types, whose script runs, what a boot
\* and a repeat leave on the guest, what the summaries say of each other.
THEOREM BatteryInvariance == BatterySpec => []BatteryInv
<1>1. BatteryInit => BatteryInv
  BY BatteryInitInv
<1>2. BatteryInv /\ [BatteryNext]_batteryVars => BatteryInv'
  BY BatteryNextInv
<1> QED  BY <1>1, <1>2, PTL DEF BatterySpec

\* Types, and at most one script with a live tunnel (_ssh, _ssh_case).
THEOREM BatteryTyped == BatterySpec => []BatteryTypeOK
<1>1. BatteryInv => BatteryTypeOK
  <2> SUFFICES ASSUME BatteryInv PROVE BatteryTypeOK
    OBVIOUS
  <2>1. /\ guest \in Guests /\ run \in Runners /\ jobs \subseteq Jobs /\ repeats \in Seq(Summaries)
        /\ guest.rows \in RowFiles /\ guest.pre \in PreFiles /\ guest.boot \in Nat
        /\ drops \in 0 .. MaxDrops
    BY DEF BatteryInv, GuestTypes, Guests
  <2>2. guest.boot \in 1 .. MaxBoots /\ guest.pre.boot \in 0 .. guest.boot
        /\ guest.rows.boot \in 0 .. guest.boot
    BY <2>1, BatteryAssumption DEF BatteryInv, Boots, BootCap, RowFiles, PreFiles
  <2>3. guest.rows.kind \in Modes \cup {"none", "lsm"}
    BY <2>1 DEF RowFiles, RowKinds
  <2>4. \A j \in jobs : j.mode \in Modes /\ j.n \in 1 .. Repeats + 1
                        /\ j.at \in {"start", "work", "tail", "tailFail"}
    BY <2>1 DEF BatteryInv, JobNs, Jobs
  <2>5. Cardinality(OwnJobs) <= 1
    <3>1. CASE OwnJobs = {}
      BY <3>1, FS_EmptySet
    <3>2. CASE OwnJobs # {}
      <4>1. PICK j : j \in OwnJobs
        BY <3>2
      <4>2. OwnJobs = {j}
        BY <4>1 DEF BatteryInv, Scripts, OwnJobs
      <4>3. Cardinality({j}) = 1
        BY FS_Singleton
      <4> QED  BY <4>2, <4>3
    <3> QED  BY <3>1, <3>2
  <2>6. OwnJobs # {} => run.pc \in CallPcs /\ run.tries \in {1, 2}
    BY DEF BatteryInv, Scripts, OwnJobs
  <2>7. run.tries \in 0 .. 3 /\ run.n \in 1 .. Repeats + 1
    BY <2>1, BatteryAssumption DEF BatteryInv, Counts, Runners
  <2>8. Len(repeats) <= Repeats /\ Len(run.phases) <= Len(Phases)
    BY DEF BatteryInv, Counts, PhaseCount
  <2> QED  BY <2>1, <2>2, <2>3, <2>4, <2>5, <2>6, <2>7, <2>8 DEF BatteryTypeOK
<1> QED  BY <1>1, BatteryInvariance, PTL

\* A full set that counts (full_set_passes over what _run_one_battery recorded) was
\* earned: the posts and the enterprise holds are each repeat's own, the boots of its
\* pre and post lie on either side of a reboot and follow the repeat before, however
\* many tunnels were lost and whatever their scripts did afterwards.
THEOREM PassesAreEarned == BatterySpec => []PassIsEarned
<1>1. BatteryInv => PassIsEarned
  <2> SUFFICES ASSUME BatteryInv, run.passed PROVE
        /\ Len(repeats) = Repeats
        /\ \A i \in 1 .. Repeats : EarnedAt(i)
    BY DEF PassIsEarned, EarnedAt
  <2>1. full_set_passes
    BY DEF BatteryInv, Passed
  <2>2. Len(repeats) = Repeats /\ DOMAIN repeats = 1 .. Repeats
    BY <2>1 DEF full_set_passes, BatteryInv, GuestTypes
  <2>3. AllPass
    BY <2>1, <2>2 DEF full_set_passes, AllPass
  <2> QED  BY <2>2, <2>3 DEF BatteryInv, Earned
<1> QED  BY <1>1, BatteryInvariance, PTL

\* A phase is called only on a host that the last authorized uninstall is known to have
\* cleaned (_run_one_phase, phase_host_clean), unless a lost script is still about.
THEOREM PhasesStartClean == BatterySpec => CleanStart
<1>1. BatteryInv => (run.pc = "phase" /\ run.tries = 0 => ~guest.inst \/ guest.stray)
  BY DEF BatteryInv, Cleaned
<1>2. BatteryInv /\ [BatteryNext]_batteryVars =>
        [run.pc = "phase" /\ run.tries = 0 /\ run'.tries = 1 => ~guest.inst \/ guest.stray]_batteryVars
  BY <1>1
<1> QED  BY <1>2, BatteryInvariance, PTL DEF BatterySpec, CleanStart
=============================================================================
