------------------------------- MODULE GcpLab -------------------------------
(***************************************************************************)
(* The GCP lab slot (scripts/gcp): the workflows of the concurrency group  *)
(* vantio-gce-slot and what they leave in the lab project.  A provision    *)
(* run hands a sealed bundle over through a bucket, passes the cost gate,  *)
(* creates one VM, runs on it (GcpBattery) and tears everything down; an   *)
(* enforcement proof creates or continues a VM and leaves it up; teardown, *)
(* verify-removed and the sweeper are dispatched on their own.  GitHub     *)
(* runs one workflow of the group at a time; any runner may be lost, any   *)
(* gcloud call may fail, and a VM stops itself when its life is over.      *)
(***************************************************************************)
EXTENDS Naturals, FiniteSets, Sequences

CONSTANTS
    MaxRuns,         \* bound: workflow runs that may create a VM
    MaxNow,          \* bound: the clock while runs are dispatched
    MaxFaults,       \* bound: failed calls and lost runners
    Life,            \* STOP_AFTER_MINUTES, in ticks
    SweeperEnabled   \* lab_capabilities.json: sweeper_enabled

ASSUME GcpLabAssumption ==
    /\ MaxRuns \in Nat \ {0} /\ MaxNow \in Nat /\ MaxFaults \in Nat
    /\ Life \in Nat \ {0} /\ SweeperEnabled \in BOOLEAN

VARIABLES
    vms,      \* per run: the instance named after it, and its boot disk
    objs,     \* per run: the handoff objects in the bucket
    job,      \* the workflow that holds the slot
    runs,     \* runs dispatched so far
    closed,   \* per run: what its teardown, or a verify-removed, reported
    now, faults

vars == <<vms, objs, job, runs, closed, now, faults>>

Runs == 1 .. MaxRuns
Objects == {"seal", "contract"}
NoVm == [st |-> "none", disk |-> FALSE, expires |-> 0]
Idle == [kind |-> "none", r |-> 0, slice |-> "", pc |-> "", uploaded |-> FALSE]

Init ==
    /\ vms = [r \in Runs |-> NoVm]
    /\ objs = [r \in Runs |-> {}]
    /\ job = Idle /\ runs = 0
    /\ closed = [r \in Runs |-> "open"]
    /\ now = 0 /\ faults = 0

-----------------------------------------------------------------------------
(* What the scripts decide from the project's lists.                       *)

Listed == {r \in Runs : vms[r].st # "none"}
Disks == {r \in Runs : vms[r].disk}

slot_occupied == \E r \in Listed : vms[r].st # "TERMINATED"

\* The spend is never read from billing, so an out-of-pocket cost of 0 needs an
\* empty project: no active instance and no disk (payload_from_project_reads).
evaluate_cost_gate == ~slot_occupied /\ Disks = {}

\* The instance list alone.
removal_status_Instance(r) ==
    IF vms[r].st \in {"none", "TERMINATED"} THEN "VERIFIED_REMOVED" ELSE "NOT_REMOVED"

\* A terminated instance counts as removed once no disk carries its name.
removal_status(r) ==
    IF vms[r].st \in {"none", "TERMINATED"} /\ ~vms[r].disk
       THEN "VERIFIED_REMOVED" ELSE "NOT_REMOVED"

\* A guest that has stopped itself is somebody else's business.
sweeper_action_Running(r) ==
    IF vms[r].st = "RUNNING" /\ now >= vms[r].expires THEN "delete" ELSE "keep"

\* Every VM of the slot carries the owner's labels and an expiry.
sweeper_action(r) == IF now >= vms[r].expires THEN "delete" ELSE "keep"

apply_sweeper(action) ==
    IF action = "delete" /\ ~SweeperEnabled THEN "would_delete" ELSE action

\* instances delete --delete-disks=all
Deleted(rs) == [r \in Runs |-> IF r \in rs THEN NoVm ELSE vms[r]]

\* gcloud storage rm of both names.  One missing name makes the call fail with
\* "matched no objects", which delete_objects takes for all gone; whether the
\* other name was removed before is up to gcloud.
delete_objects(r) ==
    {os \in SUBSET objs[r] : os = {} \/ (objs[r] # Objects /\ os = objs[r])}

-----------------------------------------------------------------------------
(* The slot.                                                               *)

Free == job.kind = "none"
At(kind, pc) == job.kind = kind /\ job.pc = pc
Go(pc) == job' = [job EXCEPT !.pc = pc]
Release == job' = Idle

\* A call that fails, or an answer that never comes.
Fault == faults < MaxFaults /\ faults' = faults + 1

\* Another workflow gets the slot.
Dispatch(kind, r, slice, pc) ==
    /\ Free
    /\ job' = [Idle EXCEPT !.kind = kind, !.r = r, !.slice = slice, !.pc = pc]
    /\ UNCHANGED <<vms, objs, closed, now, faults>>

DispatchProvision ==
    /\ runs < MaxRuns /\ now <= MaxNow /\ runs' = runs + 1
    /\ Dispatch("provision", runs + 1, "", "upload")

\* precheck: a reboot-post names the VM of an earlier run, the others none.
DispatchProof(slice, r) ==
    /\ IF slice = "reboot-post" THEN r \in Listed /\ runs' = runs
       ELSE runs < MaxRuns /\ now <= MaxNow /\ r = runs + 1 /\ runs' = runs + 1
    /\ Dispatch("proof", r, slice, "gate")

DispatchClose(kind, r) ==
    /\ kind \in {"teardown", "verify"} /\ r \in 1 .. runs
    /\ Dispatch(kind, r, "", kind) /\ UNCHANGED runs

DispatchSweep == Dispatch("sweep", 0, "", "sweep") /\ UNCHANGED runs

-----------------------------------------------------------------------------
(* The provision workflow.                                                 *)

\* upload_handoff: the objects in order; a failure skips to the teardown job.
UploadHandoff ==
    /\ At("provision", "upload")
    /\ \/ /\ objs' = [objs EXCEPT ![job.r] = Objects]
          /\ job' = [job EXCEPT !.pc = "gate", !.uploaded = TRUE]
          /\ UNCHANGED faults
       \/ /\ Fault /\ Go("teardown")
          /\ \E os \in {{}, {"seal"}} : objs' = [objs EXCEPT ![job.r] = os]
    /\ UNCHANGED <<vms, runs, closed, now>>

\* The cost gate of both workflows; billing and budget reads may also refuse.
CostGate ==
    /\ job.kind \in {"provision", "proof"} /\ job.pc = "gate"
    /\ \/ /\ evaluate_cost_gate
          /\ Go(IF job.kind = "provision" THEN "download" ELSE "prove")
       \/ IF job.kind = "provision" THEN Go("teardown") ELSE Release
    /\ UNCHANGED <<vms, objs, runs, closed, now, faults>>

\* download_handoff verifies what it fetched and deletes the objects either way.
DownloadHandoff ==
    /\ At("provision", "download")
    /\ \/ Go("create") /\ UNCHANGED faults
       \/ Go("delete") /\ Fault
    /\ \E os \in delete_objects(job.r) : objs' = [objs EXCEPT ![job.r] = os]
    /\ UNCHANGED <<vms, runs, closed, now>>

NewVm == [st |-> "RUNNING", disk |-> TRUE, expires |-> now + Life]

\* create_instance: the slot is read again; the create may succeed unheard.
CreateInstance ==
    /\ At("provision", "create")
    /\ \/ slot_occupied /\ Go("delete") /\ UNCHANGED <<vms, faults>>
       \/ /\ ~slot_occupied
          /\ vms' = [vms EXCEPT ![job.r] = NewVm]
          /\ Go("run") /\ UNCHANGED faults
       \/ /\ ~slot_occupied
          /\ vms' \in {vms, [vms EXCEPT ![job.r] = NewVm]}
          /\ Go("delete") /\ Fault
    /\ UNCHANGED <<objs, runs, closed, now>>

\* run_batteries and the other guests, with any result.
RunGuest ==
    /\ At("provision", "run") /\ Go("delete")
    /\ UNCHANGED <<vms, objs, runs, closed, now, faults>>

\* delete_handoff, an always() step of the deliver job.
DeleteHandoff ==
    /\ At("provision", "delete") /\ Go("teardown")
    /\ \/ UNCHANGED faults /\ \E os \in delete_objects(job.r) : objs' = [objs EXCEPT ![job.r] = os]
       \/ Fault /\ UNCHANGED objs
    /\ UNCHANGED <<vms, runs, closed, now>>

\* The teardown job: found by name, so an unheard create is found too.  A list
\* or a delete that fails still deletes the handoff objects (finally); the
\* removal is then read back.
teardown_if_present ==
    /\ At("provision", "teardown") /\ Release
    /\ \/ /\ vms' = Deleted({job.r}) /\ UNCHANGED faults
          /\ closed' = [closed EXCEPT ![job.r] = "VERIFIED_REMOVED"]
       \/ Fault /\ UNCHANGED <<vms, closed>>
    /\ \E os \in delete_objects(job.r) : objs' = [objs EXCEPT ![job.r] = os]
    /\ UNCHANGED <<runs, now>>

-----------------------------------------------------------------------------
(* The enforcement proof.                                                  *)

\* run_proof: reboot-post needs the named VM, the other slices a free slot.  A
\* green run leaves the VM up, a red one goes to the teardown job.
RunProof ==
    /\ At("proof", "prove")
    /\ IF job.slice = "reboot-post" THEN UNCHANGED vms
       ELSE IF slot_occupied THEN UNCHANGED vms
       ELSE vms' \in {vms, [vms EXCEPT ![job.r] = NewVm]}
    /\ \/ vms'[job.r].st = "RUNNING" /\ Release
       \/ Go("undo")
    /\ UNCHANGED <<objs, runs, closed, now, faults>>

\* teardown_named, for a proof job that failed.
TeardownNamed ==
    /\ At("proof", "undo") /\ Release
    /\ \/ /\ vms' = Deleted({job.r}) /\ UNCHANGED faults
          /\ closed' = [closed EXCEPT ![job.r] =
                          IF job.r \in Listed THEN "VERIFIED_REMOVED" ELSE @]
       \/ Fault /\ UNCHANGED <<vms, closed>>
    /\ UNCHANGED <<objs, runs, now>>

-----------------------------------------------------------------------------
(* The dispatched workflows.                                               *)

\* execute_teardown; a name that is not listed is skipped.
execute_teardown ==
    /\ At("teardown", "teardown") /\ Release
    /\ \/ vms' = Deleted({job.r}) /\ UNCHANGED faults
       \/ Fault /\ UNCHANGED vms
    /\ UNCHANGED <<objs, runs, closed, now>>

\* execute_verify; a list that fails reports UNKNOWN.
execute_verify ==
    /\ At("verify", "verify") /\ Release
    /\ \/ closed' = [closed EXCEPT ![job.r] = removal_status(job.r)] /\ UNCHANGED faults
       \/ Fault /\ UNCHANGED closed
    /\ UNCHANGED <<vms, objs, runs, now>>

\* execute_sweep: the first delete that fails ends the sweep.
execute_sweep ==
    LET due == {r \in Listed : apply_sweeper(sweeper_action(r)) = "delete"}
    IN /\ At("sweep", "sweep") /\ Release
       /\ \/ vms' = Deleted(due) /\ UNCHANGED faults
          \/ /\ due # {} /\ Fault
             /\ \E rs \in SUBSET due : rs # due /\ vms' = Deleted(rs)
       /\ UNCHANGED <<objs, runs, closed, now>>

-----------------------------------------------------------------------------
(* The world.                                                              *)

\* The runner is gone: a provision still has its teardown job, a proof its own
\* once the prove job had started, and nothing else goes on.
RunnerLost ==
    /\ ~Free /\ Fault
    /\ CASE job.kind = "provision" /\ job.pc # "teardown" -> Go("teardown")
         [] At("proof", "prove") -> Go("undo")
         [] OTHER -> Release
    /\ UNCHANGED <<vms, objs, runs, closed, now>>

\* Past MaxNow the clock goes on until the last VM's life is over.
Tick ==
    /\ now < MaxNow \/ (now < MaxNow + Life /\ job.kind \notin {"provision", "proof"})
    /\ now' = now + 1
    /\ UNCHANGED <<vms, objs, job, runs, closed, faults>>

\* The guest's shutdown timer: the instance stops, its disk stays.
GuestStops(r) ==
    /\ vms[r].st = "RUNNING" /\ now >= vms[r].expires
    /\ vms' = [vms EXCEPT ![r].st = "TERMINATED"]
    /\ UNCHANGED <<objs, job, runs, closed, now, faults>>

Step ==
    \/ UploadHandoff \/ CostGate \/ DownloadHandoff \/ CreateInstance \/ RunGuest
    \/ DeleteHandoff \/ teardown_if_present \/ RunProof \/ TeardownNamed
    \/ execute_teardown \/ execute_verify \/ execute_sweep

Next ==
    \/ Step \/ RunnerLost \/ Tick
    \/ \E r \in Runs : GuestStops(r)
    \/ DispatchProvision \/ DispatchSweep
    \/ \E slice \in {"full", "reboot-pre", "reboot-post"}, r \in Runs : DispatchProof(slice, r)
    \/ \E kind \in {"teardown", "verify"}, r \in Runs : DispatchClose(kind, r)

\* Time passes, the holder of the slot goes on, and the sweeper's cron gets the
\* slot again and again although other dispatches compete for it.
Fairness ==
    /\ WF_vars(Step) /\ SF_vars(Tick) /\ SF_vars(DispatchSweep)

Spec == Init /\ [][Next]_vars /\ Fairness

-----------------------------------------------------------------------------
(* Properties.                                                             *)

\* Types, that no disk outlives its instance, and that at most one VM runs.
TypeOK ==
    /\ vms \in [Runs -> [st : {"none", "RUNNING", "TERMINATED"}, disk : BOOLEAN,
                         expires : 0 .. MaxNow + Life]]
    /\ objs \in [Runs -> SUBSET Objects]
    /\ closed \in [Runs -> {"open", "VERIFIED_REMOVED", "NOT_REMOVED"}]
    /\ runs \in 0 .. MaxRuns /\ now \in 0 .. MaxNow + Life /\ faults \in 0 .. MaxFaults
    /\ \A r \in Runs : vms[r].st # "none" <=> vms[r].disk
    /\ Cardinality({r \in Runs : vms[r].st = "RUNNING"}) <= 1

\* A VERIFIED_REMOVED, of a teardown job or of the verify-removed workflow, is
\* said only of a run that has neither an instance nor a disk left, whatever
\* failed before and whatever the guest did on its own.
VerifiedIsGone ==
    \A r \in Runs : closed[r] = "VERIFIED_REMOVED" => vms[r] = NoVm

\* Every VM is gone in the end, however its own run ended, once the sweeper is
\* armed.
Swept == \A r \in Runs : vms[r].st # "none" ~> vms[r].st = "none"

\* Stated by docs/lab/enforcement-proof-OPERATOR.md: a reboot-post dispatch goes
\* on with the VM that the reboot-pre run left up.
SecondDispatchGoesOn ==
    At("proof", "gate") /\ job.slice = "reboot-post" /\ vms[job.r].st = "RUNNING"
        => evaluate_cost_gate
=============================================================================
