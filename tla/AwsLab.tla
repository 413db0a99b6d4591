------------------------------- MODULE AwsLab -------------------------------
(***************************************************************************)
(* The AWS test lab: scripts/aws/w3_lab_auto.py launches and sweeps tagged *)
(* hosts, w3_lab_steps.py arms, collects, tears down and verifies them,    *)
(* verify_w3_lab_teardown.py closes a fixture with the teardown role.      *)
(*                                                                         *)
(* All but the last are jobs of one concurrency group: one runs at a time, *)
(* against a cloud that moves by itself.  A call may fail, an answer may   *)
(* be lost, a step may be killed (its job still runs close-ssh) and so may *)
(* the runner (its job runs nothing more).                                 *)
(***************************************************************************)
EXTENDS Naturals, FiniteSets

CONSTANTS
  Requests,      \* launch requests an operator dispatches
  Accounts,      \* account plan states the cost gate may read
  Jobs,          \* the jobs an operator dispatches
  Batteries,     \* what an arm job may run on the host
  max_life_hours_36, \* the committed capability file allows the long life
  FounderClosed, \* the labs whose soak the committed close record ends
  MaxLaunches, MaxNow, MaxJobs, MaxFaults

AllJobs == {"provision", "arm", "collect", "teardown", "verify"}
AllBatteries == {"marker", "enterprise", "phase", "reboot-check", "descendant-b1"}
Types == {"small", "brain"}
Hours == {"7", "36"}

ASSUME LabAssumption ==
  /\ Requests \subseteq [type : Types, hours : Hours, soak : BOOLEAN, stop : Nat,
                   expires_in : Nat, close_egress : BOOLEAN]
  /\ max_life_hours_36 \in BOOLEAN
  /\ Accounts \subseteq [plan : {"FREE", "PAID"}, credits : Nat, expires : Nat]
  /\ Jobs \subseteq AllJobs /\ Batteries \subseteq AllBatteries
  /\ MaxLaunches \in Nat /\ MaxNow \in Nat /\ MaxJobs \in Nat /\ MaxFaults \in Nat
  /\ FounderClosed \subseteq 1..MaxLaunches

Fixture == 0             \* the fixture of the teardown role: lab tags, other owner
Labs == 1..MaxLaunches
Ids == 0..MaxLaunches

VARIABLES
  now,      \* the clock
  lab,      \* what AWS holds of each lab: its instance, volume, group and tags
  eip,      \* the fixture's address
  job,      \* the job of the slot group
  ver,      \* the teardown-role verification
  stamp,    \* ssh-stamp.json of the running job
  said,     \* the evidence of the last job
  used      \* how much of each bound is used

vars == <<now, lab, eip, job, ver, stamp, said, used>>

-----------------------------------------------------------------------------
(* Launch decisions.                                                       *)

Occupying == {"running", "shutting-down"}
Ceiling == 2
Buffer == 1
BrainMax == 1
Life == [h \in Hours |-> IF h = "36" THEN 2 ELSE 1]
SoakMin == 3

evaluate_cost_gate(a, t) ==
  {r \in {"plan_type", "credits_not_above_ceiling", "expiration"} :
     CASE r = "plan_type" -> a.plan # "FREE"
       [] r = "credits_not_above_ceiling" -> a.credits <= Ceiling
       [] OTHER -> a.expires <= t + Buffer}

bounded_minutes(m, limit) == m \in 1..limit

plan_launch(s, t) ==
  LET limit == CASE s.soak -> SoakMin [] s.type = "brain" -> BrainMax [] OTHER -> Life[s.hours]
      stop == IF s.soak THEN SoakMin ELSE s.stop
      expires_in == IF s.soak THEN SoakMin ELSE s.expires_in
  IN  IF \/ s.type = "brain" /\ s.hours # "7"
         \/ s.soak /\ s.hours # "36"
         \/ ~s.soak /\ ~(bounded_minutes(s.stop, limit) /\ bounded_minutes(s.expires_in, limit))
      THEN {}
      ELSE {[soak |-> s.soak, hours |-> s.hours, stop |-> stop, expires |-> t + expires_in]}

NoRows == [battery |-> "none", boot |-> 0, pre |-> 0, pass |-> FALSE]
NoLab == [inst |-> "none", vol |-> "none", sg |-> FALSE, egress |-> FALSE, ingress |-> FALSE,
          soak |-> FALSE, hours |-> "7", stop |-> 0, launched |-> 0, expires |-> 0,
          boot |-> 1, due |-> FALSE, rows |-> NoRows]

Created(plan) == [NoLab EXCEPT !.sg = TRUE, !.egress = TRUE, !.soak = plan.soak, !.hours = plan.hours,
                               !.stop = plan.stop, !.expires = plan.expires]

owned(i) == i # Fixture

(* What DescribeInstances returns: a terminated instance stays visible for *)
(* a while and then is gone.                                               *)
Visible(i) == lab[i].inst \in Occupying \cup {"terminated"}
occupying_Running == {i \in Ids : lab[i].inst = "running"}

occupying_instance_ids == {i \in Ids : lab[i].inst \in Occupying}

-----------------------------------------------------------------------------
(* The sweeper's decision on a resource of the census.                     *)

sweeper_action_Early(r, t) ==
  IF ~owned(r.id) THEN "skip_not_owned"
  ELSE IF r.soak THEN "keep_soak" ELSE IF r.type = "sg" THEN "keep"
  ELSE IF t - r.launched >= Life[r.hours] THEN "delete_launch_age" ELSE "keep"

(* _tags writes no purpose but the lab's own, so that skip_bad_purpose only *)
(* meets what others tagged.                                               *)
sweeper_action(r, t) ==
  CASE ~owned(r.id) -> "skip_not_owned"
    [] owned(r.id) /\ r.soak -> "keep_soak"
    [] owned(r.id) /\ ~r.soak /\ r.hours = "36" /\ ~max_life_hours_36 -> "skip_life_not_enabled"
    [] OTHER -> IF r.type # "sg" /\ t - r.launched >= Life[r.hours] THEN "delete_launch_age"
                ELSE IF r.expires <= t THEN "delete_expired" ELSE "keep"

Resource(type, i) == [type |-> type, id |-> i, soak |-> lab[i].soak, hours |-> lab[i].hours,
                      launched |-> lab[i].launched, expires |-> lab[i].expires]
Exists(type, i) == CASE type = "instance" -> Visible(i)
                     [] type = "volume" -> lab[i].vol # "none"
                     [] OTHER -> lab[i].sg
Kinds == {"instance", "volume", "sg"}
census_from_aws == {Resource(e[1], e[2]) : e \in {e \in Kinds \X Ids : Exists(e[1], e[2])}}
DELETE_ACTIONS == {"delete_launch_age", "delete_expired"}
Rank == [k \in Kinds |-> CASE k = "instance" -> 0 [] k = "volume" -> 1 [] OTHER -> 2]
related_owned(i) == {r \in census_from_aws : owned(r.id) /\ r.id = i}

-----------------------------------------------------------------------------
(* Jobs.  An abandoned job leaves nothing on its runner.                   *)

NoStamp == [authorized |-> FALSE, id |-> 0]
Idle == [kind |-> "idle", pc |-> "none", id |-> 0, todo |-> {}, plan |-> {},
         closed |-> FALSE, battery |-> "none", before |-> 0, live |-> 0, status |-> "none"]
Silent == [kind |-> "none", id |-> 0, status |-> "none", boot |-> 0, live |-> 0]

NoVer == [pc |-> "idle", id |-> 0, pass |-> {}]
FixtureUp == [NoLab EXCEPT !.inst = "running", !.vol = "in-use", !.sg = TRUE]

Init ==
  /\ now = 0
  /\ \E up \in BOOLEAN : /\ lab = [i \in Ids |-> IF i = Fixture /\ up THEN FixtureUp ELSE NoLab]
                         /\ eip = IF up THEN "associated" ELSE "none"
  /\ job = Idle /\ ver = NoVer /\ stamp = NoStamp /\ said = Silent
  /\ used = [launches |-> 0, jobs |-> 0, faults |-> 0, lost |-> FALSE, gap |-> FALSE]

outside == <<now, eip, ver>>
Fails == used.faults < MaxFaults /\ used' = [used EXCEPT !.faults = @ + 1]
Works == used' = used
Go(p) == job' = [job EXCEPT !.pc = p]
Says(status) == [Silent EXCEPT !.kind = job.kind, !.id = job.id, !.status = status]
Finish(s) == job' = Idle /\ stamp' = NoStamp /\ said' = s
Abort(status) == Finish(Says(status)) /\ UNCHANGED lab
Keep == UNCHANGED <<stamp, said>>

Dispatch(k) ==
  /\ job = Idle /\ used.jobs < MaxJobs /\ k \in Jobs
  /\ used' = [used EXCEPT !.jobs = @ + 1]
  /\ UNCHANGED <<outside, lab, stamp>>

-----------------------------------------------------------------------------
(* provision: the cost gate, the free slot, then a group and an instance.  *)

launch_from_env(s, a) ==
  /\ used.launches < MaxLaunches /\ (s.soak \/ now + s.expires_in <= MaxNow)
  /\ Dispatch("provision")
  /\ LET refused == \/ s.hours = "36" /\ ~max_life_hours_36
                    \/ evaluate_cost_gate(a, now) # {} \/ plan_launch(s, now) = {}
                    \/ occupying_instance_ids # {}
     IN  IF refused
         THEN /\ said' = [Silent EXCEPT !.kind = "provision", !.status = "REFUSED"]
              /\ UNCHANGED job
         ELSE /\ job' = [Idle EXCEPT !.kind = "provision", !.pc = "create", !.id = used.launches + 1,
                                     !.plan = plan_launch(s, now), !.closed = s.close_egress]
              /\ UNCHANGED said

Plan == CHOOSE p \in job.plan : TRUE
CreateGroup ==
  /\ job.pc = "create"
  /\ \/ /\ lab' = [lab EXCEPT ![job.id] = Created(Plan)]
        /\ used' = [used EXCEPT !.launches = @ + 1]
        /\ Go(IF job.closed THEN "egress" ELSE "run") /\ Keep
     \/ Fails /\ Abort("FAILED")
  /\ UNCHANGED outside

deny_default_egress ==
  /\ job.pc = "egress"
  /\ \/ Works /\ lab' = [lab EXCEPT ![job.id].egress = FALSE] /\ Go("run")
     \/ Fails /\ UNCHANGED lab /\ Go("rollback")
  /\ Keep /\ UNCHANGED outside

(* A failed RunInstances may have launched: the answer was lost.           *)
Launched == [lab EXCEPT ![job.id].inst = "running", ![job.id].vol = "in-use", ![job.id].launched = now]
execute_launch ==
  /\ job.pc = "run"
  /\ \/ Works /\ lab' = Launched /\ Finish(Says("LAUNCHED"))
     \/ Fails /\ lab' \in {lab, Launched} /\ Go("rollback") /\ Keep
  /\ UNCHANGED outside

Attached(i) == lab[i].inst \in Occupying
rollback_security_group ==
  /\ job.pc = "rollback"
  /\ \/ ~Attached(job.id) /\ Works /\ lab' = [lab EXCEPT ![job.id].sg = FALSE] /\ Finish(Says("FAILED"))
     \/ (IF Attached(job.id) THEN Works ELSE Fails) /\ Abort("ROLLBACK_FAILED")
  /\ UNCHANGED outside

-----------------------------------------------------------------------------
(* arm and collect: one /32 rule, a one-minute key, the guest command.     *)

Simple == {"marker", "collect"}
Reboots == {"reboot-check", "descendant-b1"}

BeginArm(k, i, b) ==
  /\ k \in {"arm", "collect"} /\ (k = "collect") = (b = "collect")
  /\ Dispatch(k)
  /\ IF lab[i].inst = "running" /\ owned(i)
     THEN job' = [Idle EXCEPT !.kind = k, !.pc = "stamp", !.id = i, !.battery = b] /\ UNCHANGED said
     ELSE said' = [Silent EXCEPT !.kind = k, !.id = i, !.status = "FAILED"] /\ UNCHANGED job

write_stamp ==
  /\ job.pc = "stamp"
  /\ \/ Works /\ stamp' = [authorized |-> TRUE, id |-> job.id] /\ Go("authorize") /\ UNCHANGED said
     \/ Fails /\ Finish(Says("BLOCKED_IAM"))
  /\ UNCHANGED <<outside, lab>>

Opened == [lab EXCEPT ![job.id].ingress = lab[job.id].sg]
Shut(i) == [lab EXCEPT ![i].ingress = FALSE]
Bad(s) == job' = [job EXCEPT !.pc = "revoke", !.status = s]

open_ssh ==
  /\ job.pc = "authorize"
  /\ \/ Works /\ lab' = Opened /\ Go("guest")
     \/ Fails /\ lab' \in {lab, Opened} /\ Bad("FAILED")
  /\ Keep /\ UNCHANGED outside

(* The guest script drops its old rows and may or may not write new ones;  *)
(* a battery that reboots the host leaves a timer behind.                  *)
Rows(i, pass) == [battery |-> job.battery, boot |-> lab[i].boot, pre |-> lab[i].boot, pass |-> pass]
run_guest ==
  /\ job.pc = "guest"
  /\ LET i == job.id IN
     \/ /\ lab[i].inst = "running" /\ job.battery \in Simple
        /\ UNCHANGED lab /\ job' = [job EXCEPT !.pc = "revoke", !.status = IF job.kind = "arm" THEN "ARMED" ELSE "COLLECTED"]
     \/ /\ lab[i].inst = "running" /\ job.battery \notin Simple
        /\ \E rows \in {NoRows, Rows(i, TRUE), Rows(i, FALSE)} :
             lab' = [lab EXCEPT ![i].rows = rows, ![i].due = job.battery \in Reboots]
        /\ job' = [job EXCEPT !.pc = IF job.battery \in Reboots THEN "release" ELSE "pull", !.before = lab[i].boot]
     \/ UNCHANGED lab /\ Bad("FAILED")
  /\ Works /\ Keep /\ UNCHANGED outside

(* The session is given up before the reboot and taken again after it.     *)
release_ssh ==
  /\ job.pc = "release"
  /\ \/ /\ Works /\ lab' = Shut(job.id) /\ Go("quiet")
        /\ stamp' = [stamp EXCEPT !.authorized = FALSE]
     \/ Fails /\ Bad("FAILED") /\ UNCHANGED <<lab, stamp>>
  /\ UNCHANGED <<outside, said>>
reopen_ssh ==
  /\ job.pc = "quiet"
  /\ \/ Works /\ lab[job.id].inst = "running" /\ lab' = Opened /\ Go("restamp")
     \/ Fails /\ lab[job.id].inst = "running" /\ lab' \in {lab, Opened} /\ Bad("FAILED")
     \/ Works /\ lab[job.id].inst # "running" /\ UNCHANGED lab /\ Bad("FAILED")
  /\ Keep /\ UNCHANGED outside
reopen_stamp ==
  /\ job.pc = "restamp"
  /\ stamp' = [authorized |-> TRUE, id |-> job.id] /\ Go("return")
  /\ UNCHANGED <<outside, lab, said, used>>
wait_for_reboot ==
  /\ job.pc = "return"
  /\ \/ lab[job.id].inst = "running" /\ lab[job.id].boot # job.before /\ Go("post")
     \/ Bad("FAILED")
  /\ UNCHANGED <<outside, lab, stamp, said, used>>
run_post ==
  /\ job.pc = "post"
  /\ LET i == job.id IN
     \/ job.battery = "reboot-check" /\ UNCHANGED lab /\ Go("pull")
     \/ /\ job.battery = "descendant-b1" /\ lab[i].inst = "running" /\ lab[i].rows # NoRows
        /\ \E wrote \in BOOLEAN :
             lab' = IF wrote THEN [lab EXCEPT ![i].rows.boot = lab[i].boot, ![i].rows.pass = TRUE] ELSE lab
        /\ Go("pull")
     \/ UNCHANGED lab /\ Bad("FAILED")
  /\ UNCHANGED <<outside, stamp, said, used>>

rows_disagree_Trusted(rows, live) == FALSE

rows_disagree_with_boot(rows, live) == live # 0 /\ live \notin {rows.boot, rows.pre}
phase_battery_verdict(b, rows) == rows.battery = b /\ rows.pass

Judged(rows, live) ==
  CASE rows = NoRows -> "FAILED"
    [] rows # NoRows /\ job.battery # "reboot-check" /\ rows_disagree_with_boot(rows, live) -> "FAILED"
    [] OTHER ->
       CASE job.battery = "phase" -> IF phase_battery_verdict("phase", rows) THEN "PHASE2" ELSE "FAILED"
         [] job.battery = "enterprise" -> "ENTERPRISE_ROWS"
         [] job.battery = "descendant-b1" ->
              IF rows.boot # rows.pre /\ (live = 0 \/ rows.boot = live) THEN "DESCENDANT_B1" ELSE "FAILED"
         [] OTHER -> IF rows.boot = job.before /\ live # 0 /\ live # rows.boot THEN "REBOOT_CHECKED" ELSE "FAILED"

(* The boot id is read over the session; an unread one is 0.               *)
execute_enterprise_rows ==
  /\ job.pc = "pull"
  /\ LET rows == lab[job.id].rows IN
     \/ /\ lab[job.id].inst = "running" /\ Works
        /\ job' = [job EXCEPT !.pc = "revoke", !.status = Judged(rows, lab[job.id].boot), !.before = rows.boot,
                             !.live = lab[job.id].boot]
     \/ /\ lab[job.id].inst = "running" /\ Fails
        /\ job' = [job EXCEPT !.pc = "revoke", !.status = Judged(rows, 0), !.before = 0,
                             !.live = lab[job.id].boot]
     \/ Works /\ Bad("FAILED")
  /\ Keep /\ UNCHANGED <<outside, lab>>

Verdict == [Says(job.status) EXCEPT !.boot = job.before, !.live = job.live]

(* Every way out of the session takes the rule back, then the stamp; the   *)
(* evidence of a simple arm is lost to a revoke that fails.                *)
FailsOpen ==    \* the step ends here; gap: with an open rule the stamp does not show
  /\ used.faults < MaxFaults
  /\ used' = [used EXCEPT !.faults = @ + 1, !.gap = @ \/ (lab[job.id].ingress /\ ~stamp.authorized)]

revoke_quietly_Silent ==
  /\ job.pc = "revoke"
  /\ \/ Works /\ lab' = Shut(job.id)
     \/ Fails /\ UNCHANGED lab
  /\ stamp' = [stamp EXCEPT !.authorized = FALSE] /\ said' = Verdict /\ Go("close")
  /\ UNCHANGED outside

revoke_quietly ==
  /\ job.pc = "revoke" /\ Go("close")
  /\ \/ /\ Works /\ lab' = Shut(job.id)
        /\ stamp' = [stamp EXCEPT !.authorized = FALSE] /\ said' = Verdict
     \/ /\ FailsOpen /\ UNCHANGED <<lab, stamp>>
        /\ said' = IF job.battery \in Simple THEN Says("FAILED") ELSE Verdict
  /\ UNCHANGED outside

(* The workflow's close-ssh step: it runs whatever became of the arm step. *)
close_ssh ==
  /\ job.pc = "close"
  /\ IF ~stamp.authorized
     THEN job' = Idle /\ stamp' = NoStamp /\ Works /\ UNCHANGED lab
     ELSE \/ Works /\ lab' = Shut(stamp.id) /\ stamp' = [stamp EXCEPT !.authorized = FALSE] /\ UNCHANGED job
          \/ /\ ~used.lost /\ used' = [used EXCEPT !.lost = TRUE]
             /\ job' = Idle /\ stamp' = NoStamp /\ UNCHANGED lab
  /\ UNCHANGED <<outside, said>>

ArmPcs == {"stamp", "authorize", "guest", "release", "quiet", "restamp", "return", "post",
           "pull", "revoke"}

StepKilled ==
  /\ job.pc \in ArmPcs /\ FailsOpen
  /\ Go("close") /\ said' = Says("KILLED")
  /\ UNCHANGED <<outside, lab, stamp>>
RunnerLost ==
  /\ job # Idle /\ used.faults < MaxFaults
  /\ used' = [used EXCEPT !.faults = @ + 1, !.lost = TRUE]
  /\ Finish(Says("LOST")) /\ UNCHANGED <<outside, lab>>

-----------------------------------------------------------------------------
(* sweep and teardown: a list of resources to delete, instances first,     *)
(* then volumes, then groups; the first that cannot be deleted ends the    *)
(* job.                                                                    *)

First(r) ==
  \A s \in job.todo : Rank[r.type] < Rank[s.type] \/ (Rank[r.type] = Rank[s.type] /\ r.id <= s.id)
Rest(r) == job.todo \ {r}

execute_sweep ==
  /\ job = Idle
  /\ job' = [Idle EXCEPT !.kind = "sweep", !.pc = "delete",
                         !.todo = {r \in census_from_aws : sweeper_action(r, now) \in DELETE_ACTIONS}]
  /\ UNCHANGED <<outside, lab, stamp, said, used>>

BeginTeardown(i) ==
  /\ Dispatch("teardown")
  /\ LET start(p, todo) == /\ job' = [Idle EXCEPT !.kind = "teardown", !.pc = p, !.id = i, !.todo = todo]
                           /\ UNCHANGED said
         end(s) == said' = [Silent EXCEPT !.kind = "teardown", !.id = i, !.status = s] /\ UNCHANGED job
     IN  CASE ~Visible(i) /\ i \in FounderClosed -> start("census", {})
           [] ~Visible(i) /\ i \notin FounderClosed -> end("NOT_FOUND")
           [] Visible(i) /\ ~owned(i) -> end("NOT_OWNED")
           [] Visible(i) /\ owned(i) /\ lab[i].soak /\ i \notin FounderClosed -> end("REFUSED_SOAK")
           [] OTHER -> IF lab[i].inst \in Occupying THEN start("delete", {Resource("instance", i)})
                       ELSE start("census", {})

(* The census of a teardown is taken after the instance is terminated.     *)
execute_teardown ==
  /\ job.pc = "census"
  /\ job' = [job EXCEPT !.pc = "delete", !.todo = {r \in related_owned(job.id) : r.type # "instance"}]
  /\ UNCHANGED <<outside, lab, stamp, said, used>>

delete_resource ==
  /\ job.pc = "delete"
  /\ \E r \in job.todo :
       LET done == job' = [job EXCEPT !.todo = Rest(r), !.pc = "delete"]
       IN  /\ First(r)
           /\ \/ /\ r.type = "instance" /\ Visible(r.id) /\ Works
                 /\ lab' = [lab EXCEPT ![r.id].inst = IF @ = "running" THEN "shutting-down" ELSE @]
                 /\ Go("wait") /\ Keep
              \/ /\ r.type = "volume" /\ lab[r.id].vol = "available" /\ Works
                 /\ lab' = [lab EXCEPT ![r.id].vol = "none"] /\ done /\ Keep
              \/ /\ r.type = "sg" /\ lab[r.id].sg /\ ~Attached(r.id) /\ Works
                 /\ lab' = [lab EXCEPT ![r.id].sg = FALSE, ![r.id].ingress = FALSE] /\ done /\ Keep
              \/ /\ CASE r.type = "instance" -> ~Visible(r.id)
                      [] r.type = "volume" -> lab[r.id].vol # "available"
                      [] OTHER -> ~lab[r.id].sg \/ Attached(r.id)
                 /\ Works /\ Abort("FAILED")
              \/ Fails /\ Abort("FAILED")
  /\ UNCHANGED outside

wait_terminated ==
  /\ job.pc = "wait"
  /\ \E r \in job.todo :
       /\ First(r)
       /\ \/ /\ lab[r.id].inst = "terminated" /\ Works /\ Keep /\ UNCHANGED lab
             /\ job' = [job EXCEPT !.todo = Rest(r), !.pc = IF job.kind = "teardown" THEN "census" ELSE "delete"]
          \/ lab[r.id].inst = "gone" /\ Works /\ Abort("FAILED")
          \/ Fails /\ Abort("FAILED")
  /\ UNCHANGED outside

(* verify-removed; the founder's teardown of an absent instance knows the  *)
(* name of what it left behind, a plain verification does not.             *)
Removal_Instance(i, named) ==
  IF ~Visible(i) THEN "INSTANCE_ABSENT"
  ELSE IF owned(i) /\ lab[i].inst = "terminated" THEN "VERIFIED_REMOVED" ELSE "NOT_REMOVED"

Removal(i, named) ==
  LET leftovers == {r \in related_owned(i) : ~(r.type = "instance" /\ lab[i].inst = "terminated")}
  IN  CASE Visible(i) /\ ~owned(i) -> "NOT_OWNED"
        [] Visible(i) /\ owned(i) /\ lab[i].inst = "terminated" /\ leftovers = {} -> "VERIFIED_REMOVED"
        [] ~Visible(i) /\ named /\ related_owned(i) = {} -> "VERIFIED_REMOVED"
        [] ~Visible(i) /\ (~named \/ related_owned(i) # {}) -> "INSTANCE_ABSENT"
        [] OTHER -> "NOT_REMOVED"
EndOfList ==
  /\ job.pc = "delete" /\ job.todo = {} /\ Works /\ UNCHANGED outside
  /\ \/ job.kind = "sweep" /\ Abort("SWEPT")
     \/ job.kind = "teardown" /\ Abort(Removal(job.id, job.id \in FounderClosed))

execute_verify(i) ==
  /\ Dispatch("verify") /\ UNCHANGED job
  /\ said' = [Silent EXCEPT !.kind = "verify", !.id = i, !.status = Removal(i, FALSE)]

-----------------------------------------------------------------------------
(* The verification of the teardown role, in a concurrency group of its    *)
(* own: it closes the fixture it is given and reports what passed.         *)

BeginVerification(i) ==
  /\ ver = NoVer /\ "verify" \in Jobs /\ used.jobs < MaxJobs
  /\ used' = [used EXCEPT !.jobs = @ + 1]
  /\ ver' = [NoVer EXCEPT !.pc = "instance", !.id = i]
  /\ UNCHANGED <<now, lab, eip, job, stamp, said>>

VerGo(p, passed) == ver' = [ver EXCEPT !.pc = p, !.pass = @ \cup passed]
VerRest == UNCHANGED <<now, job, stamp, said>>

close_instance ==
  /\ ver.pc = "instance"
  /\ \/ /\ Visible(ver.id) /\ Works
        /\ lab' = [lab EXCEPT ![ver.id].inst = IF @ = "running" THEN "shutting-down" ELSE @]
        /\ VerGo("settle", {"instance"})
     \/ (Fails \/ (~Visible(ver.id) /\ Works)) /\ UNCHANGED lab /\ VerGo("volume", {})
  /\ VerRest /\ UNCHANGED eip
wait_instance_terminated ==   \* or the budget of polls ends
  /\ ver.pc = "settle" /\ VerGo("volume", {})
  /\ VerRest /\ UNCHANGED <<lab, eip, used>>
close_volume ==               \* only a volume tagged as the fixture's own
  /\ ver.pc = "volume"
  /\ \/ ver.id = Fixture /\ lab[ver.id].vol = "available" /\ lab' = [lab EXCEPT ![ver.id].vol = "none"] /\ VerGo("eip", {"volume"})
     \/ /\ ver.id = Fixture /\ lab[ver.id].vol = "in-use"   \* DetachVolume, the last resort
        /\ \/ lab' = [lab EXCEPT ![ver.id].vol = "none"] /\ VerGo("eip", {"volume"})
           \/ lab' = [lab EXCEPT ![ver.id].vol = "available"] /\ VerGo("eip", {})
     \/ UNCHANGED lab /\ VerGo("eip", {})
  /\ VerRest /\ UNCHANGED <<eip, used>>
close_eip ==                  \* an association is waited out, never cut
  /\ ver.pc = "eip"
  /\ \/ eip = "free" /\ eip' = "released" /\ VerGo("sg", {"eip"})
     \/ UNCHANGED eip /\ VerGo("sg", {})
  /\ VerRest /\ UNCHANGED <<lab, used>>
close_security_group ==
  /\ ver.pc = "sg"
  /\ \/ /\ lab[ver.id].sg /\ ~Attached(ver.id)
        /\ lab' = [lab EXCEPT ![ver.id].sg = FALSE, ![ver.id].ingress = FALSE] /\ VerGo("done", {"sg"})
     \/ UNCHANGED lab /\ VerGo("done", {})
  /\ VerRest /\ UNCHANGED <<eip, used>>

-----------------------------------------------------------------------------
(* The cloud.                                                              *)

Still == UNCHANGED <<job, ver, stamp, said>>

Tick == now < MaxNow /\ now' = now + 1 /\ Still /\ UNCHANGED <<lab, eip, used>>

(* The shutdown the launch plan put into the user data.                    *)
GuestStops(i) ==
  /\ lab[i].inst = "running" /\ owned(i) /\ ~lab[i].soak /\ now >= lab[i].launched + lab[i].stop
  /\ lab' = [lab EXCEPT ![i].inst = "shutting-down"]
  /\ Still /\ UNCHANGED <<now, eip, used>>
Terminates(i) ==
  /\ lab[i].inst = "shutting-down" /\ lab' = [lab EXCEPT ![i].inst = "terminated", ![i].due = FALSE]
  /\ eip' = IF i = Fixture /\ eip = "associated" THEN "free" ELSE eip
  /\ Still /\ UNCHANGED <<now, used>>
VolumeFollows(i) ==
  /\ lab[i].inst = "terminated" /\ lab[i].vol = "in-use"
  /\ lab' = [lab EXCEPT ![i].vol = IF i = Fixture THEN "available" ELSE "none"]
  /\ Still /\ UNCHANGED <<now, eip, used>>
Forgotten(i) ==
  /\ lab[i].inst = "terminated" /\ lab[i].vol # "in-use" /\ lab' = [lab EXCEPT ![i].inst = "gone"]
  /\ Still /\ UNCHANGED <<now, eip, used>>
GuestReboots(i) ==
  /\ lab[i].inst = "running"
  /\ \/ lab[i].due /\ Works
     \/ used.faults < MaxFaults /\ used' = [used EXCEPT !.faults = @ + 1]
  /\ lab' = [lab EXCEPT ![i].boot = @ + 1, ![i].due = FALSE]
  /\ Still /\ UNCHANGED <<now, eip>>

(* The instance ids there are to name in a dispatch.                       *)
Named == {i \in Ids : lab[i].inst # "none"}

JobStep ==
  \/ CreateGroup \/ deny_default_egress \/ execute_launch \/ rollback_security_group
  \/ write_stamp \/ open_ssh \/ run_guest \/ release_ssh \/ reopen_ssh \/ reopen_stamp
  \/ wait_for_reboot \/ run_post \/ execute_enterprise_rows \/ revoke_quietly \/ close_ssh
  \/ execute_teardown \/ delete_resource \/ wait_terminated \/ EndOfList

Next ==
  \/ \E s \in Requests, a \in Accounts : launch_from_env(s, a)
  \/ \E i \in Named, b \in Batteries : BeginArm("arm", i, b)
  \/ \E i \in Named : BeginArm("collect", i, "collect")
  \/ \E i \in Named : BeginTeardown(i) \/ execute_verify(i) \/ BeginVerification(i)
  \/ execute_sweep \/ JobStep \/ StepKilled \/ RunnerLost
  \/ close_instance \/ wait_instance_terminated \/ close_volume \/ close_eip \/ close_security_group
  \/ Tick
  \/ \E i \in Ids : GuestStops(i) \/ Terminates(i) \/ VolumeFollows(i) \/ Forgotten(i) \/ GuestReboots(i)

(* A started job goes on; the sweeper has a cron entry; time and EC2 move. *)
Fairness ==
  /\ WF_vars(JobStep) /\ WF_vars(execute_sweep) /\ WF_vars(Tick)
  /\ \A i \in Ids : WF_vars(Terminates(i)) /\ WF_vars(VolumeFollows(i))

Spec == Init /\ [][Next]_vars /\ Fairness

-----------------------------------------------------------------------------
(* Type invariant.  The last two conjuncts are the shape EC2 enforces and  *)
(* the launch order must respect: a rule lives in a group, and an instance *)
(* that occupies the slot has the group CreateGroup made before it.        *)
TypeOK ==
  /\ now \in 0..MaxNow /\ eip \in {"none", "associated", "free", "released"}
  /\ \A i \in Ids :
       /\ lab[i].inst \in {"none", "running", "shutting-down", "terminated", "gone"}
       /\ lab[i].vol \in {"none", "in-use", "available"}
       /\ lab[i].ingress => lab[i].sg
       /\ lab[i].inst \in Occupying => lab[i].sg
  /\ job.kind \in AllJobs \cup {"idle", "sweep"} /\ stamp.id \in Ids

(* One lab at a time: whatever fails, gets lost or dies between the census *)
(* of launch_from_env and RunInstances, no two launched hosts ever occupy  *)
(* the slot together, a host that is still shutting down included.         *)
OneLab == Cardinality({i \in Labs : lab[i].inst \in Occupying}) <= 1

(* A host tagged as a soak host stops running only by a teardown job that  *)
(* the committed founder close allows, or by the teardown-role             *)
(* verification, whose role does not read the tag: never by the sweeper,   *)
(* whatever its expiry and launch age say.                                 *)
SoakKept ==
  [][\A i \in Labs : lab[i].soak /\ lab[i].inst = "running" /\ lab'[i].inst # "running"
                       => (i \in FounderClosed /\ job.kind = "teardown") \/ ver' # ver]_vars

(* Evidence that says VERIFIED_REMOVED is true for good: from then on the  *)
(* lab has no instance in the slot, no volume, no group and no rule.       *)
RemovedIsGone ==
  said.status = "VERIFIED_REMOVED" =>
    LET l == lab[said.id] IN l.inst \notin Occupying /\ l.vol = "none" /\ ~l.sg /\ ~l.ingress

(* An open ssh rule always has someone left who will close it: the arm     *)
(* step that opened it, or the close-ssh step through the stamp.  The      *)
(* exceptions are a lost runner, a close-ssh that failed, and the step     *)
(* that ended between reopen_ssh's authorize and its stamp (gap).          *)
RuleHasCloser ==
  \A i \in Ids : lab[i].ingress =>
    \/ used.lost \/ used.gap
    \/ job.id = i /\ job.pc \in {"authorize", "guest", "release", "restamp", "return", "post", "pull", "revoke"}
    \/ job.pc = "close" /\ stamp = [authorized |-> TRUE, id |-> i]

(* Rows reported as a pass were written in the boot the host was in when   *)
(* they were pulled (or no boot id could be read), although the host may   *)
(* reboot by itself at any moment; a reboot check passes only when the     *)
(* host came back in another boot.                                         *)
ArmedIsFresh ==
  /\ said.status \in {"PHASE2", "ENTERPRISE_ROWS"} => said.boot \in {0, said.live}
  /\ said.status = "REBOOT_CHECKED" => said.boot # said.live

(* The sweeper cleans up after everything: the group of a host that is not *)
(* a soak host is deleted in the end, whichever step failed, was killed or *)
(* lost its answer, under a sweeper that keeps being started.              *)
Swept == \A i \in Labs : lab[i].sg /\ ~lab[i].soak ~> ~lab[i].sg
=============================================================================
