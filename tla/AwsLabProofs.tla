---------------------------- MODULE AwsLabProofs ----------------------------
(***************************************************************************)
(* Proofs about the AWS lab, for every number of launches, jobs and faults *)
(* and every request, account and battery.                                 *)
(*                                                                         *)
(* The slot is empty from the census of launch_from_env to RunInstances    *)
(* because nothing but RunInstances makes a host occupy it and only one    *)
(* job runs (JobOK); what EC2, the guest and the teardown role do only     *)
(* ever takes away (LabKept); and a lab that has an instance id, which is  *)
(* the only kind a job or a verification can name, is never created again  *)
(* (Fresh).                                                                *)
(***************************************************************************)
EXTENDS AwsLab, FiniteSetTheorems, TLAPS

Insts == {"none", "running", "shutting-down", "terminated", "gone"}
Vols == {"none", "in-use", "available"}
Pcs == ArmPcs \cup {"none", "create", "egress", "run", "rollback", "close", "delete", "wait", "census"}
JobKinds == AllJobs \cup {"idle", "sweep"}
Statuses == {"none", "FAILED", "ROLLBACK_FAILED", "REFUSED", "LAUNCHED", "BLOCKED_IAM", "ARMED", "COLLECTED", "PHASE2",
             "ENTERPRISE_ROWS", "DESCENDANT_B1", "REBOOT_CHECKED", "KILLED", "LOST", "SWEPT", "NOT_FOUND",
             "NOT_OWNED", "REFUSED_SOAK", "VERIFIED_REMOVED", "INSTANCE_ABSENT", "NOT_REMOVED"}
Plans == [soak : BOOLEAN, hours : Hours, stop : Nat, expires : Nat]
RowsRec == [battery : AllBatteries \cup {"none", "collect"}, boot : Nat, pre : Nat, pass : BOOLEAN]
LabRec == [inst : Insts, vol : Vols, sg : BOOLEAN, egress : BOOLEAN, ingress : BOOLEAN, soak : BOOLEAN,
           hours : Hours, stop : Nat, launched : Nat, expires : Nat, boot : Nat \ {0}, due : BOOLEAN, rows : RowsRec]
Resources == [type : Kinds, id : Ids, soak : BOOLEAN, hours : Hours, launched : Nat, expires : Nat]
JobRec == [kind : JobKinds, pc : Pcs, id : Ids, todo : SUBSET Resources, plan : SUBSET Plans, closed : BOOLEAN,
           battery : AllBatteries \cup {"none", "collect"}, before : Nat, live : Nat, status : Statuses]
VerRec == [pc : {"idle", "instance", "settle", "volume", "eip", "sg", "done"}, id : Ids,
           pass : SUBSET {"instance", "volume", "eip", "sg"}]
StampRec == [authorized : BOOLEAN, id : Ids]
SaidRec == [kind : JobKinds \cup {"none"}, id : Ids, status : Statuses, boot : Nat, live : Nat]
UsedRec == [launches : Nat, jobs : Nat, faults : Nat, lost : BOOLEAN, gap : BOOLEAN]

WellTyped ==
  /\ now \in 0..MaxNow /\ eip \in {"none", "associated", "free", "released"}
  /\ lab \in [Ids -> LabRec] /\ job \in JobRec /\ ver \in VerRec /\ stamp \in StampRec /\ said \in SaidRec
  /\ used \in UsedRec

(* What EC2 enforces, and the one host in the slot, without counting.      *)
Shaped(l) == (l.ingress => l.sg) /\ (l.inst \in Occupying => l.sg)
Alone == \A i, k \in Labs : lab[i].inst \in Occupying /\ lab[k].inst \in Occupying => i = k
Fresh == \A i \in Ids : i > used.launches => lab[i].inst = "none"
LabInv == (\A i \in Ids : Shaped(lab[i])) /\ Alone /\ Fresh

(* A judgement that was earned.                                            *)
Earned(status, boot, live) ==
  /\ status \in {"PHASE2", "ENTERPRISE_ROWS"} => boot \in {0, live}
  /\ status = "REBOOT_CHECKED" => boot # live

Empty(l) == \A i \in Labs : l[i].inst \notin Occupying

(* What a job may count on at each of its points.                          *)
JobOK(j, l, n) ==
  /\ j.pc = "create" => j.id = n + 1 /\ j.id \in Labs /\ j.plan # {} /\ Empty(l)
  /\ j.pc \in {"egress", "run"} =>
       j.id \in Labs /\ j.id <= n /\ Empty(l) /\ l[j.id].inst = "none" /\ l[j.id].sg /\ ~l[j.id].ingress
  /\ j.pc = "rollback" => ~l[j.id].ingress
  /\ j.todo # {} => j.pc \in {"delete", "wait"}
  /\ \A r \in j.todo : r.type = "instance" =>
       \/ j.kind = "sweep" /\ ~l[r.id].soak
       \/ j.kind = "teardown" /\ r.id = j.id /\ (l[r.id].soak => r.id \in FounderClosed)
  /\ j.kind = "teardown" => /\ l[j.id].inst # "none"
                            /\ \A r, s \in j.todo : r.type = "instance" => s = r
                            /\ j.pc = "wait" => \A r \in j.todo : r.type = "instance"
  /\ j.pc \notin {"revoke", "close"} => j.status = "none"
  /\ j.status # "VERIFIED_REMOVED" /\ Earned(j.status, j.before, j.live)
  /\ j.pc = "pull" /\ j.battery \notin Reboots => l[j.id].rows = NoRows \/ l[j.id].rows.boot = l[j.id].rows.pre

VerOK == ver.pc # "idle" => lab[ver.id].inst # "none"
StampOK(st, j) == st.authorized => st.id = j.id /\ j.pc \in ArmPcs \cup {"close"}
SaidOK(s, l) ==
  /\ s.status = "VERIFIED_REMOVED" =>
       l[s.id].inst \in {"terminated", "gone"} /\ l[s.id].vol = "none" /\ ~l[s.id].sg
  /\ Earned(s.status, s.boot, s.live)

IInv ==
  /\ WellTyped /\ LabInv /\ JobOK(job, lab, used.launches) /\ VerOK /\ StampOK(stamp, job) /\ SaidOK(said, lab)
  /\ RuleHasCloser

-----------------------------------------------------------------------------
(* The steps that create nothing.                                          *)

Kept(l1, l2) ==
  /\ (l1.inst = "none") <=> (l2.inst = "none")
  /\ l2.inst \in Occupying => l1.inst \in Occupying
  /\ l1.inst \in {"terminated", "gone"} => l2.inst \in {"terminated", "gone"}
  /\ l1.vol = "none" => l2.vol = "none"
  /\ l2.sg => l1.sg
  /\ l2.soak = l1.soak
  /\ Shaped(l2)
LabKept == \A i \in Ids : Kept(lab[i], lab'[i])

LEMMA LabStays ==
  ASSUME IInv, LabKept, used'.launches = used.launches
  PROVE  LabInv' /\ SaidOK(said, lab') /\ (Empty(lab) => Empty(lab'))
<1>1. \A i \in Ids : Kept(lab[i], lab'[i]) BY DEF LabKept
<1>2. Labs \subseteq Ids /\ said.id \in Ids BY DEF Labs, Ids, IInv, WellTyped, SaidRec
<1>3. \A i \in Ids : Shaped(lab'[i]) BY <1>1 DEF Kept
<1>4. Alone' /\ (Empty(lab) => Empty(lab')) BY <1>1, <1>2 DEF IInv, LabInv, Alone, Empty, Kept
<1>5. Fresh' BY <1>1 DEF IInv, LabInv, Fresh, Kept
<1>6. SaidOK(said, lab') BY <1>1, <1>2 DEF IInv, SaidOK, Kept
<1> QED BY <1>3, <1>4, <1>5, <1>6 DEF LabInv

(* EC2, the guest and the verification go on beside the job.               *)
Beside ==
  /\ LabKept
  /\ \A i \in Ids : /\ lab[i].inst = "none" => lab'[i] = lab[i]
                    /\ lab'[i].rows = lab[i].rows
                    /\ lab'[i].ingress => lab[i].ingress

LEMMA BesideKeeps ==
  ASSUME IInv, WellTyped', Beside, UNCHANGED <<job, stamp, said>>, VerOK', used'.launches = used.launches,
         used.lost = used'.lost, used.gap = used'.gap
  PROVE  IInv'
<1>1. LabInv' /\ SaidOK(said, lab') /\ (Empty(lab) => Empty(lab')) BY LabStays DEF Beside
<1>2. job.id \in Ids /\ \A r \in job.todo : r.id \in Ids BY DEF IInv, WellTyped, JobRec, Resources
<1>3. \A i \in Ids : /\ lab[i].inst = "none" => lab'[i] = lab[i]
                     /\ lab'[i].rows = lab[i].rows /\ lab'[i].soak = lab[i].soak
                     /\ lab'[i].ingress => lab[i].ingress
                     /\ lab[i].inst # "none" => lab'[i].inst # "none"
  BY DEF Beside, LabKept, Kept
<1>6. Labs \subseteq Ids BY DEF Labs, Ids
<1>4. JobOK(job, lab', used.launches)
  BY <1>1, <1>2, <1>3, <1>6 DEF IInv, JobOK
<1>5. RuleHasCloser' BY <1>3 DEF IInv, RuleHasCloser
<1> QED BY <1>1, <1>4, <1>5 DEF IInv

(* The job goes on beside the verification: nothing was named twice.       *)
LEMMA JobKeeps ==
  ASSUME IInv, WellTyped', LabKept, UNCHANGED ver, used'.launches = used.launches,
         JobOK(job', lab', used'.launches), StampOK(stamp', job'), SaidOK(said', lab'), RuleHasCloser'
  PROVE  IInv'
<1>1. LabInv' BY LabStays
<1>2. VerOK' BY DEF IInv, VerOK, LabKept, Kept, WellTyped, VerRec
<1> QED BY <1>1, <1>2 DEF IInv

LEMMA Start ==
  ASSUME IInv
  PROVE  /\ lab \in [Ids -> LabRec] /\ job \in JobRec /\ ver \in VerRec /\ stamp \in StampRec /\ said \in SaidRec
         /\ used \in UsedRec /\ now \in 0..MaxNow /\ eip \in {"none", "associated", "free", "released"}
         /\ \A i \in Ids : lab[i] \in LabRec /\ Shaped(lab[i])
         /\ JobOK(job, lab, used.launches) /\ StampOK(stamp, job) /\ SaidOK(said, lab) /\ job.id \in Ids
BY DEF IInv, WellTyped, LabInv, JobRec

LEMMA KeptSame ==
  ASSUME IInv, UNCHANGED lab PROVE LabKept
BY Start DEF LabKept, Kept

(* A fault, or none.                                                       *)
LEMMA FaultCount ==
  ASSUME IInv, Fails \/ Works \/ (used.faults < MaxFaults /\ used' = [used EXCEPT !.faults = @ + 1])
  PROVE  /\ used' \in UsedRec /\ used'.launches = used.launches /\ used'.lost = used.lost /\ used'.gap = used.gap
<1>1. used \in UsedRec BY Start
<1>2. PICK n \in Nat : n = used.faults + 1 BY <1>1 DEF UsedRec
<1>3. used' = used \/ used' = [used EXCEPT !.faults = n] BY <1>2 DEF Fails, Works
<1> QED BY <1>1, <1>3 DEF UsedRec

LEMMA JobCount ==
  ASSUME IInv, used' = [used EXCEPT !.jobs = @ + 1]
  PROVE  /\ used' \in UsedRec /\ used'.launches = used.launches /\ used'.lost = used.lost /\ used'.gap = used.gap
<1>1. used \in UsedRec BY Start
<1>2. PICK n \in Nat : n = used.jobs + 1 BY <1>1 DEF UsedRec
<1>3. used' = [used EXCEPT !.jobs = n] BY <1>2
<1> QED BY <1>1, <1>3 DEF UsedRec

(* One lab changes.                                                        *)
LEMMA OneLabChanges ==
  ASSUME IInv, NEW i \in Ids, NEW r \in LabRec, lab' = [lab EXCEPT ![i] = r], Kept(lab[i], r)
  PROVE  /\ lab' \in [Ids -> LabRec] /\ lab'[i] = r /\ (\A k \in Ids \ {i} : lab'[k] = lab[k]) /\ LabKept
<1>1. lab' \in [Ids -> LabRec] /\ lab'[i] = r /\ \A k \in Ids \ {i} : lab'[k] = lab[k] BY Start
<1>2. \A k \in Ids : Kept(lab[k], lab'[k])
  <2> TAKE k \in Ids
  <2>1. CASE k = i BY <2>1, <1>1
  <2>2. CASE k # i BY <2>2, <1>1, Start DEF Kept
  <2> QED BY <2>1, <2>2
<1> QED BY <1>1, <1>2 DEF LabKept

(* One lab changes beside the job.                                         *)
LEMMA OneLabBeside ==
  ASSUME IInv, NEW i \in Ids, lab[i].inst # "none", NEW r \in LabRec, lab' = [lab EXCEPT ![i] = r],
         Kept(lab[i], r), r.rows = lab[i].rows, r.ingress => lab[i].ingress
  PROVE  Beside /\ lab' \in [Ids -> LabRec]
<1>1. lab' \in [Ids -> LabRec] /\ lab'[i] = r /\ (\A k \in Ids \ {i} : lab'[k] = lab[k]) /\ LabKept BY OneLabChanges
<1> QED BY <1>1 DEF Beside

-----------------------------------------------------------------------------
(* The cloud.                                                              *)

(* An instance goes one step towards its end.                              *)
LEMMA InstanceEnds ==
  ASSUME IInv, NEW i \in Ids, NEW s \in {"shutting-down", "terminated", "gone"}, NEW b \in BOOLEAN, NEW r,
         lab[i].inst # "none", s = "shutting-down" => lab[i].inst \in Occupying,
         r = [lab[i] EXCEPT !.inst = s, !.due = b] \/ r = [lab[i] EXCEPT !.inst = s]
  PROVE  r \in LabRec /\ Kept(lab[i], r) /\ r.rows = lab[i].rows /\ r.ingress = lab[i].ingress /\ r.inst # "none"
<1>1. lab[i] \in LabRec /\ Shaped(lab[i]) BY Start
<1>2. /\ r \in LabRec /\ r.rows = lab[i].rows /\ r.ingress = lab[i].ingress /\ r.inst = s /\ r.vol = lab[i].vol
      /\ r.sg = lab[i].sg /\ r.soak = lab[i].soak
  <2>1. CASE r = [lab[i] EXCEPT !.inst = s, !.due = b] BY <2>1, <1>1 DEF LabRec, Insts
  <2>2. CASE r = [lab[i] EXCEPT !.inst = s] BY <2>2, <1>1 DEF LabRec, Insts
  <2> QED BY <2>1, <2>2
<1>3. Kept(lab[i], r)
  <2>1. lab[i].inst \in {"terminated", "gone"} => r.inst \in {"terminated", "gone"} BY <1>2 DEF Occupying
  <2>2. r.inst \in Occupying => lab[i].inst \in Occupying BY <1>2 DEF Occupying
  <2>3. Shaped(r) BY <1>1, <1>2, <2>2 DEF Shaped
  <2> QED BY <1>2, <2>1, <2>2, <2>3 DEF Kept
<1> QED BY <1>2, <1>3

LEMMA CloudKeeps ==
  ASSUME IInv, NEW i \in Ids, GuestStops(i) \/ Terminates(i) \/ VolumeFollows(i) \/ Forgotten(i) \/ GuestReboots(i)
  PROVE  IInv'
<1>1. UNCHANGED <<job, ver, stamp, said, now>>
  BY DEF GuestStops, Terminates, VolumeFollows, Forgotten, GuestReboots, Still
<1>2. used' \in UsedRec /\ used'.launches = used.launches /\ used'.lost = used.lost /\ used'.gap = used.gap
  <2>1. CASE GuestReboots(i) BY <2>1, FaultCount DEF GuestReboots
  <2>2. CASE ~GuestReboots(i) BY <2>2, Start DEF GuestStops, Terminates, VolumeFollows, Forgotten
  <2> QED BY <2>1, <2>2
<1>3. eip' \in {"none", "associated", "free", "released"}
  BY Start DEF GuestStops, Terminates, VolumeFollows, Forgotten, GuestReboots
<1>4. lab[i] \in LabRec /\ Shaped(lab[i]) BY Start
<1>5. PICK r : /\ lab' = [lab EXCEPT ![i] = r] /\ r \in LabRec /\ Kept(lab[i], r) /\ r.rows = lab[i].rows
               /\ r.ingress = lab[i].ingress /\ lab[i].inst # "none"
  <2>1. CASE GuestStops(i)
    <3>1. PICK r : r = [lab[i] EXCEPT !.inst = "shutting-down"] /\ lab' = [lab EXCEPT ![i] = r] BY <2>1 DEF GuestStops
    <3>2. lab[i].inst # "none" /\ lab[i].inst \in Occupying BY <2>1 DEF GuestStops, Occupying
    <3> QED BY <3>1, <3>2, InstanceEnds
  <2>2. CASE Terminates(i)
    <3>1. PICK r : r = [lab[i] EXCEPT !.inst = "terminated", !.due = FALSE] /\ lab' = [lab EXCEPT ![i] = r]
      BY <2>2 DEF Terminates
    <3>2. lab[i].inst # "none" BY <2>2 DEF Terminates
    <3> QED BY <3>1, <3>2, InstanceEnds
  <2>3. CASE Forgotten(i)
    <3>1. PICK r : r = [lab[i] EXCEPT !.inst = "gone"] /\ lab' = [lab EXCEPT ![i] = r] BY <2>3 DEF Forgotten
    <3>2. lab[i].inst # "none" BY <2>3 DEF Forgotten
    <3> QED BY <3>1, <3>2, InstanceEnds
  <2>4. CASE VolumeFollows(i)
    <3>1. PICK v \in Vols : lab' = [lab EXCEPT ![i] = [lab[i] EXCEPT !.vol = v]] BY <2>4 DEF VolumeFollows, Vols
    <3>2. PICK r : r = [lab[i] EXCEPT !.vol = v] OBVIOUS
    <3>3. /\ r \in LabRec /\ r.rows = lab[i].rows /\ r.ingress = lab[i].ingress /\ r.inst = lab[i].inst
          /\ r.sg = lab[i].sg /\ r.soak = lab[i].soak
      BY <1>4, <3>2 DEF LabRec
    <3>4. lab[i].inst # "none" /\ lab[i].vol # "none" BY <2>4 DEF VolumeFollows
    <3>5. Kept(lab[i], r) BY <1>4, <3>3, <3>4 DEF Kept, Shaped
    <3> QED BY <3>1, <3>2, <3>3, <3>4, <3>5
  <2>5. CASE GuestReboots(i)
    <3>1. PICK n \in Nat \ {0} : n = lab[i].boot + 1 BY <1>4 DEF LabRec
    <3>2. PICK r : r = [lab[i] EXCEPT !.boot = n, !.due = FALSE] /\ lab' = [lab EXCEPT ![i] = r]
      BY <2>5, <3>1 DEF GuestReboots
    <3>3. /\ r \in LabRec /\ r.rows = lab[i].rows /\ r.ingress = lab[i].ingress /\ r.inst = lab[i].inst
          /\ r.sg = lab[i].sg /\ r.soak = lab[i].soak /\ r.vol = lab[i].vol
      BY <1>4, <3>2 DEF LabRec
    <3>4. lab[i].inst # "none" BY <2>5 DEF GuestReboots
    <3>5. Kept(lab[i], r) BY <1>4, <3>3 DEF Kept, Shaped
    <3> QED BY <3>2, <3>3, <3>4, <3>5
  <2> QED BY <2>1, <2>2, <2>3, <2>4, <2>5
<1>6. Beside /\ lab' \in [Ids -> LabRec] BY <1>5, OneLabBeside
<1>7. WellTyped' BY <1>1, <1>2, <1>3, <1>6, Start DEF WellTyped
<1>8. VerOK' BY <1>1, <1>6, Start DEF IInv, VerOK, Beside, LabKept, Kept, VerRec
<1> QED BY <1>1, <1>2, <1>6, <1>7, <1>8, BesideKeeps

LEMMA BesideSame ==
  ASSUME IInv, UNCHANGED lab PROVE Beside
BY KeptSame DEF Beside

LEMMA TickKeeps ==
  ASSUME IInv, Tick
  PROVE  IInv'
<1>1. UNCHANGED <<job, ver, stamp, said, lab, eip, used>> BY DEF Tick, Still
<1>2. now' \in 0..MaxNow BY Start, LabAssumption DEF Tick
<1>3. WellTyped' BY <1>1, <1>2, Start DEF WellTyped
<1>4. VerOK' BY <1>1 DEF IInv, VerOK
<1> QED BY <1>1, <1>3, <1>4, BesideSame, BesideKeeps

-----------------------------------------------------------------------------
(* What a deletion does to a lab.                                          *)

LEMMA Stopping ==
  ASSUME IInv, NEW i \in Ids, NEW r, r = [lab[i] EXCEPT !.inst = IF @ = "running" THEN "shutting-down" ELSE @]
  PROVE  r \in LabRec /\ Kept(lab[i], r) /\ r.rows = lab[i].rows /\ r.ingress = lab[i].ingress
<1>1. lab[i] \in LabRec /\ Shaped(lab[i]) BY Start
<1>2. PICK s \in Insts : s = IF lab[i].inst = "running" THEN "shutting-down" ELSE lab[i].inst BY <1>1 DEF LabRec, Insts
<1>3. r = [lab[i] EXCEPT !.inst = s] BY <1>2
<1>4. /\ r \in LabRec /\ r.rows = lab[i].rows /\ r.ingress = lab[i].ingress /\ r.inst = s /\ r.vol = lab[i].vol
      /\ r.sg = lab[i].sg /\ r.soak = lab[i].soak
  BY <1>1, <1>3 DEF LabRec
<1>5. (s \in Occupying => lab[i].inst \in Occupying) /\ (s = "none" <=> lab[i].inst = "none")
      /\ (lab[i].inst \in {"terminated", "gone"} => s \in {"terminated", "gone"})
  BY <1>2 DEF Occupying
<1> QED BY <1>1, <1>4, <1>5 DEF Kept, Shaped

LEMMA VolumeDeleted ==
  ASSUME IInv, NEW i \in Ids, NEW r, r = [lab[i] EXCEPT !.vol = "none"]
  PROVE  r \in LabRec /\ Kept(lab[i], r) /\ r.rows = lab[i].rows /\ r.ingress = lab[i].ingress
<1>1. lab[i] \in LabRec /\ Shaped(lab[i]) BY Start
<1>2. /\ r \in LabRec /\ r.rows = lab[i].rows /\ r.ingress = lab[i].ingress /\ r.inst = lab[i].inst /\ r.vol = "none"
      /\ r.sg = lab[i].sg /\ r.soak = lab[i].soak
  BY <1>1 DEF LabRec, Vols
<1> QED BY <1>1, <1>2 DEF Kept, Shaped

LEMMA VolumeFreed ==
  ASSUME IInv, NEW i \in Ids, lab[i].vol # "none", NEW r, r = [lab[i] EXCEPT !.vol = "available"]
  PROVE  r \in LabRec /\ Kept(lab[i], r) /\ r.rows = lab[i].rows /\ r.ingress = lab[i].ingress
<1>1. lab[i] \in LabRec /\ Shaped(lab[i]) BY Start
<1>2. /\ r \in LabRec /\ r.rows = lab[i].rows /\ r.ingress = lab[i].ingress /\ r.inst = lab[i].inst
      /\ r.sg = lab[i].sg /\ r.soak = lab[i].soak
  BY <1>1 DEF LabRec, Vols
<1> QED BY <1>1, <1>2 DEF Kept, Shaped

LEMMA GroupDeleted ==
  ASSUME IInv, NEW i \in Ids, ~Attached(i), NEW r, r = [lab[i] EXCEPT !.sg = FALSE, !.ingress = FALSE]
  PROVE  r \in LabRec /\ Kept(lab[i], r) /\ r.rows = lab[i].rows /\ r.ingress = FALSE
<1>1. lab[i] \in LabRec /\ Shaped(lab[i]) BY Start
<1>2. /\ r \in LabRec /\ r.rows = lab[i].rows /\ r.ingress = FALSE /\ r.inst = lab[i].inst /\ r.vol = lab[i].vol
      /\ r.sg = FALSE /\ r.soak = lab[i].soak
  BY <1>1 DEF LabRec
<1> QED BY <1>1, <1>2 DEF Kept, Shaped, Attached

-----------------------------------------------------------------------------
(* The verification of the teardown role.                                  *)

LEMMA BeginVerificationKeeps ==
  ASSUME IInv, NEW i \in Named, BeginVerification(i)
  PROVE  IInv'
<1>1. UNCHANGED <<now, lab, eip, job, stamp, said>> BY DEF BeginVerification
<1>2. used' \in UsedRec /\ used'.launches = used.launches /\ used'.lost = used.lost /\ used'.gap = used.gap
  BY JobCount DEF BeginVerification
<1>3. ver' \in VerRec /\ ver'.id = i BY DEF BeginVerification, NoVer, VerRec, Named
<1>4. WellTyped' BY <1>1, <1>2, <1>3, Start DEF WellTyped
<1>5. VerOK' BY <1>1, <1>3 DEF VerOK, Named
<1> QED BY <1>1, <1>2, <1>4, <1>5, BesideSame, BesideKeeps

LEMMA VerificationKeeps ==
  ASSUME IInv, close_instance \/ wait_instance_terminated \/ close_volume \/ close_eip \/ close_security_group
  PROVE  IInv'
<1>1. UNCHANGED <<now, job, stamp, said>>
  BY DEF close_instance, wait_instance_terminated, close_volume, close_eip, close_security_group, VerRest
<1>2. used' \in UsedRec /\ used'.launches = used.launches /\ used'.lost = used.lost /\ used'.gap = used.gap
  <2>1. CASE close_instance BY <2>1, FaultCount DEF close_instance
  <2>2. CASE ~close_instance
    BY <2>2, Start DEF wait_instance_terminated, close_volume, close_eip, close_security_group
  <2> QED BY <2>1, <2>2
<1>3. eip' \in {"none", "associated", "free", "released"}
  BY Start DEF close_instance, wait_instance_terminated, close_volume, close_eip, close_security_group
<1>4. ver.id \in Ids /\ lab[ver.id].inst # "none"
  <2>1. ver.pc # "idle"
    BY DEF close_instance, wait_instance_terminated, close_volume, close_eip, close_security_group
  <2> QED BY <2>1, Start DEF IInv, VerOK, VerRec
<1>5. ver' \in VerRec /\ ver'.id = ver.id
  <2>1. PICK p \in {"settle", "volume", "eip", "sg", "done"}, s \in SUBSET {"instance", "volume", "eip", "sg"} : VerGo(p, s)
    BY DEF close_instance, wait_instance_terminated, close_volume, close_eip, close_security_group
  <2> QED BY <2>1, Start DEF VerGo, VerRec
<1>6. Beside /\ lab' \in [Ids -> LabRec]
  <2>1. CASE UNCHANGED lab BY <2>1, BesideSame, Start
  <2>2. CASE /\ close_instance
             /\ lab' = [lab EXCEPT ![ver.id].inst = IF @ = "running" THEN "shutting-down" ELSE @]
    <3>1. PICK r : /\ r = [lab[ver.id] EXCEPT !.inst = IF @ = "running" THEN "shutting-down" ELSE @]
                   /\ lab' = [lab EXCEPT ![ver.id] = r]
      BY <2>2
    <3>2. r \in LabRec /\ Kept(lab[ver.id], r) /\ r.rows = lab[ver.id].rows /\ r.ingress = lab[ver.id].ingress
      BY <1>4, <3>1, Stopping
    <3> QED BY <1>4, <3>1, <3>2, OneLabBeside
  <2>5. CASE /\ close_volume /\ lab[ver.id].vol # "none"
             /\ lab' = [lab EXCEPT ![ver.id].vol = "available"]
    <3>1. PICK r : r = [lab[ver.id] EXCEPT !.vol = "available"] /\ lab' = [lab EXCEPT ![ver.id] = r] BY <2>5
    <3>2. r \in LabRec /\ Kept(lab[ver.id], r) /\ r.rows = lab[ver.id].rows /\ r.ingress = lab[ver.id].ingress
      BY <1>4, <2>5, <3>1, VolumeFreed
    <3> QED BY <1>4, <3>1, <3>2, OneLabBeside
  <2>3. CASE close_volume /\ lab' = [lab EXCEPT ![ver.id].vol = "none"]
    <3>1. PICK r : r = [lab[ver.id] EXCEPT !.vol = "none"] /\ lab' = [lab EXCEPT ![ver.id] = r] BY <2>3
    <3>2. r \in LabRec /\ Kept(lab[ver.id], r) /\ r.rows = lab[ver.id].rows /\ r.ingress = lab[ver.id].ingress
      BY <1>4, <3>1, VolumeDeleted
    <3> QED BY <1>4, <3>1, <3>2, OneLabBeside
  <2>4. CASE ~Attached(ver.id) /\ lab' = [lab EXCEPT ![ver.id].sg = FALSE, ![ver.id].ingress = FALSE]
    <3>1. PICK r : r = [lab[ver.id] EXCEPT !.sg = FALSE, !.ingress = FALSE] /\ lab' = [lab EXCEPT ![ver.id] = r]
      BY <2>4, Start, <1>4
    <3>2. r \in LabRec /\ Kept(lab[ver.id], r) /\ r.rows = lab[ver.id].rows /\ r.ingress = FALSE
      BY <1>4, <2>4, <3>1, GroupDeleted
    <3> QED BY <1>4, <3>1, <3>2, OneLabBeside
  <2> QED BY <2>1, <2>2, <2>3, <2>4, <2>5
      DEF close_instance, wait_instance_terminated, close_volume, close_eip, close_security_group
<1>7. WellTyped' BY <1>1, <1>2, <1>3, <1>5, <1>6, Start DEF WellTyped
<1>8. VerOK' BY <1>4, <1>5, <1>6 DEF VerOK, Beside, LabKept, Kept
<1> QED BY <1>1, <1>2, <1>6, <1>7, <1>8, BesideKeeps

-----------------------------------------------------------------------------
(* The ways a job begins, goes on and ends.                                *)

Closers == {"authorize", "guest", "release", "restamp", "return", "post", "pull", "revoke"}
Plain == Statuses \ {"VERIFIED_REMOVED", "PHASE2", "ENTERPRISE_ROWS", "REBOOT_CHECKED"}

LEMMA IdleOK ==
  ASSUME NEW l, NEW n
  PROVE  JobOK(Idle, l, n) /\ Idle \in JobRec /\ NoStamp \in StampRec /\ StampOK(NoStamp, Idle)
         /\ Silent \in SaidRec /\ SaidOK(Silent, l)
<1>1. 0 \in Ids BY LabAssumption DEF Ids
<1>2. Idle \in JobRec BY <1>1 DEF Idle, JobRec, JobKinds, Pcs, Statuses
<1>3. JobOK(Idle, l, n) BY DEF Idle, JobOK, Earned
<1>4. NoStamp \in StampRec /\ StampOK(NoStamp, Idle) BY <1>1 DEF NoStamp, StampRec, StampOK
<1>5. Silent \in SaidRec /\ SaidOK(Silent, l) BY <1>1 DEF Silent, SaidRec, SaidOK, Earned, Statuses
<1> QED BY <1>2, <1>3, <1>4, <1>5

LEMMA SaysOK ==
  ASSUME NEW k \in JobKinds, NEW i \in Ids, NEW s \in Plain, NEW l, NEW m,
         m = [Silent EXCEPT !.kind = k, !.id = i, !.status = s] \/ m = [Silent EXCEPT !.kind = k, !.status = s]
  PROVE  m \in SaidRec /\ SaidOK(m, l)
<1>1. 0 \in Ids BY LabAssumption DEF Ids
<1>2. CASE m = [Silent EXCEPT !.kind = k, !.id = i, !.status = s]
  <2>1. m \in SaidRec /\ m.status = s BY <1>1, <1>2 DEF Silent, SaidRec, Plain
  <2> QED BY <2>1 DEF SaidOK, Earned, Plain
<1>3. CASE m = [Silent EXCEPT !.kind = k, !.status = s]
  <2>1. m \in SaidRec /\ m.status = s BY <1>1, <1>3 DEF Silent, SaidRec, Plain
  <2> QED BY <2>1 DEF SaidOK, Earned, Plain
<1> QED BY <1>2, <1>3

LEMMA BeginKeeps ==
  ASSUME IInv, job = Idle, UNCHANGED <<outside, lab, stamp>>,
         used' \in UsedRec, used'.launches = used.launches, used'.lost = used.lost, used'.gap = used.gap,
         job' \in JobRec, JobOK(job', lab, used.launches), said' \in SaidRec, SaidOK(said', lab)
  PROVE  IInv'
<1>1. now' = now /\ eip' = eip /\ ver' = ver BY DEF outside
<1>2. WellTyped' BY <1>1, Start DEF WellTyped
<1>3. ~stamp.authorized BY Start DEF StampOK, Idle, ArmPcs
<1>4. StampOK(stamp', job') BY <1>3 DEF StampOK
<1>5. RuleHasCloser' BY DEF IInv, RuleHasCloser, Idle
<1>6. LabKept BY KeptSame
<1> QED BY <1>1, <1>2, <1>4, <1>5, <1>6, JobKeeps

LEMMA EndKeeps ==
  ASSUME IInv, UNCHANGED outside, lab' \in [Ids -> LabRec], LabKept, \A i \in Ids : lab'[i].ingress => lab[i].ingress,
         used' \in UsedRec, used'.launches = used.launches, used.lost => used'.lost, used'.gap = used.gap,
         used'.lost \/ job.pc \notin Closers \cup {"close"},
         job' = Idle, stamp' = NoStamp, said' \in SaidRec, SaidOK(said', lab')
  PROVE  IInv'
<1>1. now' = now /\ eip' = eip /\ ver' = ver BY DEF outside
<1>2. WellTyped' BY <1>1, IdleOK, Start DEF WellTyped
<1>3. JobOK(job', lab', used'.launches) /\ StampOK(stamp', job') BY IdleOK
<1>4. RuleHasCloser' BY DEF IInv, RuleHasCloser, Closers
<1> QED BY <1>1, <1>2, <1>3, <1>4, JobKeeps

LEMMA AbortKeeps ==
  ASSUME IInv, UNCHANGED outside, NEW s \in Plain, Abort(s), Works \/ Fails,
         job.pc \notin Closers \cup {"close"}
  PROVE  IInv'
<1>1. UNCHANGED lab /\ job' = Idle /\ stamp' = NoStamp /\ said' = Says(s) BY DEF Abort, Finish
<1>2. job.kind \in JobKinds /\ job.id \in Ids BY Start DEF JobRec
<1>3. said' \in SaidRec /\ SaidOK(said', lab') BY <1>1, <1>2, SaysOK DEF Says
<1>4. used' \in UsedRec /\ used'.launches = used.launches /\ used'.lost = used.lost /\ used'.gap = used.gap BY FaultCount
<1>5. LabKept /\ lab' \in [Ids -> LabRec] BY <1>1, KeptSame, Start
<1> QED BY <1>1, <1>3, <1>4, <1>5, EndKeeps

(* The job goes on in its session.                                         *)
LEMMA OnKeeps ==
  ASSUME IInv, UNCHANGED outside, lab' \in [Ids -> LabRec], LabKept,
         used' \in UsedRec, used'.launches = used.launches, used.lost => used'.lost, used.gap => used'.gap,
         job' \in JobRec, JobOK(job', lab', used'.launches), stamp' \in StampRec, StampOK(stamp', job'),
         said' \in SaidRec, SaidOK(said', lab'), RuleHasCloser'
  PROVE  IInv'
<1>1. now' = now /\ eip' = eip /\ ver' = ver BY DEF outside
<1>2. WellTyped' BY <1>1, Start DEF WellTyped
<1> QED BY <1>1, <1>2, JobKeeps

-----------------------------------------------------------------------------
(* provision.                                                              *)

LEMMA PlanType ==
  ASSUME NEW s \in Requests, NEW t \in Nat PROVE plan_launch(s, t) \subseteq Plans
<1>1. s.soak \in BOOLEAN /\ s.hours \in Hours /\ s.stop \in Nat /\ s.expires_in \in Nat BY LabAssumption
<1>2. PICK stop \in Nat : stop = IF s.soak THEN SoakMin ELSE s.stop BY <1>1 DEF SoakMin
<1>3. PICK e \in Nat : e = t + (IF s.soak THEN SoakMin ELSE s.expires_in) BY <1>1 DEF SoakMin
<1>4. plan_launch(s, t) = {} \/ plan_launch(s, t) = {[soak |-> s.soak, hours |-> s.hours, stop |-> stop, expires |-> e]}
  BY <1>2, <1>3 DEF plan_launch
<1>5. [soak |-> s.soak, hours |-> s.hours, stop |-> stop, expires |-> e] \in Plans BY <1>1 DEF Plans
<1> QED BY <1>4, <1>5

LEMMA LaunchFromEnvKeeps ==
  ASSUME IInv, NEW s \in Requests, NEW a, launch_from_env(s, a)
  PROVE  IInv'
<1>1. /\ job = Idle /\ UNCHANGED <<outside, lab, stamp>>
      /\ used' \in UsedRec /\ used'.launches = used.launches /\ used'.lost = used.lost /\ used'.gap = used.gap
  BY JobCount DEF launch_from_env, Dispatch
<1>2. "provision" \in JobKinds /\ "REFUSED" \in Plain BY DEF JobKinds, AllJobs, Plain, Statuses
<1>3. CASE UNCHANGED job /\ said' = [Silent EXCEPT !.kind = "provision", !.status = "REFUSED"]
  <2>1. said' \in SaidRec /\ SaidOK(said', lab) BY <1>2, <1>3, Start, SaysOK
  <2> QED BY <1>1, <1>3, <2>1, Start, BeginKeeps
<1>4. CASE /\ plan_launch(s, now) # {} /\ occupying_instance_ids = {} /\ UNCHANGED said
           /\ job' = [Idle EXCEPT !.kind = "provision", !.pc = "create", !.id = used.launches + 1,
                                  !.plan = plan_launch(s, now), !.closed = s.close_egress]
  <2>1. PICK n \in Labs : n = used.launches + 1
    BY Start, LabAssumption DEF launch_from_env, UsedRec, Labs
  <2>2. PICK pl \in SUBSET Plans : pl = plan_launch(s, now) BY PlanType, Start
  <2>3. s.close_egress \in BOOLEAN BY LabAssumption
  <2>4. n \in Ids BY LabAssumption DEF Labs, Ids
  <2>5. job' = [Idle EXCEPT !.kind = "provision", !.pc = "create", !.id = n, !.plan = pl, !.closed = s.close_egress]
    BY <1>4, <2>1, <2>2
  <2>6. job' \in JobRec BY <2>3, <2>4, <2>5, IdleOK, <1>2 DEF JobRec, Pcs
  <2>7. /\ job'.kind = "provision" /\ job'.pc = "create" /\ job'.id = n /\ job'.plan = pl /\ job'.todo = {}
        /\ job'.status = "none"
    BY <2>5 DEF Idle
  <2>8. Empty(lab) BY <1>4, LabAssumption DEF Empty, occupying_instance_ids, Labs, Ids
  <2>9. JobOK(job', lab, used.launches) BY <1>4, <2>1, <2>2, <2>7, <2>8 DEF JobOK, Earned
  <2> QED BY <1>1, <1>4, <2>6, <2>9, Start, BeginKeeps
<1> QED BY <1>3, <1>4 DEF launch_from_env

(* The group is made under an id no one has named yet.                     *)
LEMMA CreateGroupKeeps ==
  ASSUME IInv, CreateGroup
  PROVE  IInv'
<1>1. job.pc = "create" /\ UNCHANGED outside BY DEF CreateGroup
<1>2. /\ job.id = used.launches + 1 /\ job.id \in Labs /\ job.plan # {} /\ Empty(lab) /\ job.todo = {}
      /\ job.status = "none" /\ Earned(job.status, job.before, job.live) /\ job.kind \in JobKinds
  BY <1>1, Start DEF JobOK, JobRec
<1>3. CASE Fails /\ Abort("FAILED")
  <2>1. "FAILED" \in Plain BY DEF Plain, Statuses
  <2>2. job.pc \notin Closers \cup {"close"} BY <1>1 DEF Closers
  <2> QED BY <1>1, <1>3, <2>1, <2>2, AbortKeeps
<1>4. CASE /\ lab' = [lab EXCEPT ![job.id] = Created(Plan)]
           /\ used' = [used EXCEPT !.launches = @ + 1]
           /\ Go(IF job.closed THEN "egress" ELSE "run") /\ Keep
  <2>1. used \in UsedRec /\ used.launches \in Nat BY Start DEF UsedRec
  <2>2. PICK n \in Nat : n = used.launches + 1 BY <2>1
  <2>3. used' = [used EXCEPT !.launches = n] BY <1>4, <2>2
  <2>4. used' \in UsedRec /\ used'.launches = n /\ used'.lost = used.lost /\ used'.gap = used.gap
    BY <2>1, <2>3 DEF UsedRec
  <2>5. PICK pl \in Plans : pl = Plan BY <1>2, Start DEF Plan, JobRec
  <2>6. PICK r : r = Created(pl) OBVIOUS
  <2>7. NoLab \in LabRec /\ NoLab.inst = "none" /\ NoLab.ingress = FALSE /\ NoLab.vol = "none"
    BY DEF NoLab, LabRec, Insts, Vols, Hours, NoRows, RowsRec
  <2>8. r \in LabRec /\ r.inst = "none" /\ r.ingress = FALSE /\ r.sg = TRUE
    BY <2>5, <2>6, <2>7 DEF Created, LabRec, Plans
  <2>9. job.id \in Ids /\ Labs \subseteq Ids BY Start, LabAssumption DEF Labs, Ids
  <2>10. lab' \in [Ids -> LabRec] /\ lab'[job.id] = r /\ \A k \in Ids \ {job.id} : lab'[k] = lab[k]
    BY <1>4, <2>5, <2>6, <2>8, <2>9, Start
  <2>11. lab[job.id].inst = "none"
    <3>1. job.id > used.launches BY <1>2, <2>1
    <3> QED BY <3>1, <2>9 DEF IInv, LabInv, Fresh
  <2>12. LabInv'
    <3>1. \A i \in Ids : Shaped(lab'[i])
      <4>1. Shaped(r) BY <2>8 DEF Shaped, Occupying
      <4> QED BY <4>1, <2>10, Start
    <3>2. \A i \in Ids : lab'[i].inst = lab[i].inst BY <2>8, <2>10, <2>11
    <3>3. Alone' BY <3>2, <2>9 DEF IInv, LabInv, Alone
    <3>4. Fresh'
      <4>1. \A i \in Ids : i > n => i > used.launches BY <2>1, <2>2, LabAssumption DEF Ids
      <4> QED BY <3>2, <4>1, <2>4 DEF IInv, LabInv, Fresh
    <3> QED BY <3>1, <3>3, <3>4 DEF LabInv
  <2>13. PICK p \in {"egress", "run"} : job' = [job EXCEPT !.pc = p] BY <1>4 DEF Go
  <2>14. job' \in JobRec /\ job'.pc = p /\ job'.id = job.id /\ job'.todo = {} /\ job'.kind = job.kind
         /\ job'.status = "none" /\ job'.before = job.before /\ job'.live = job.live
    BY <1>2, <2>13, Start DEF JobRec, Pcs
  <2>15. Empty(lab') BY <1>2, <2>8, <2>9, <2>10 DEF Empty, Occupying
  <2>16. job.kind # "teardown" BY <2>11, Start DEF JobOK
  <2>17. JobOK(job', lab', used'.launches)
    BY <1>2, <2>2, <2>4, <2>8, <2>10, <2>14, <2>15, <2>16 DEF JobOK, Earned
  <2>18. VerOK' 
    <3>1. ver.id \in Ids /\ ver' = ver BY <1>1, Start DEF VerRec, outside
    <3> QED BY <3>1, <2>10, <2>11 DEF IInv, VerOK
  <2>19. stamp' = stamp /\ said' = said BY <1>4 DEF Keep
  <2>20. ~stamp.authorized BY <1>1, Start DEF StampOK, ArmPcs
  <2>21. StampOK(stamp', job') BY <2>19, <2>20 DEF StampOK
  <2>22. SaidOK(said', lab')
    <3>1. said.id \in Ids BY Start DEF SaidRec
    <3>2. said.status = "VERIFIED_REMOVED" => said.id # job.id BY <2>11, Start DEF SaidOK
    <3> QED BY <3>1, <3>2, <2>10, <2>19, Start DEF SaidOK
  <2>23. RuleHasCloser'
    BY <1>1, <2>4, <2>8, <2>10, <2>19 DEF IInv, RuleHasCloser
  <2>24. WellTyped' BY <1>1, <2>4, <2>10, <2>14, <2>19, Start DEF WellTyped, outside
  <2> QED BY <2>12, <2>17, <2>18, <2>21, <2>22, <2>23, <2>24 DEF IInv
<1> QED BY <1>1, <1>3, <1>4 DEF CreateGroup

(* A job of one lab outside its ssh session: it has no rule to close.      *)
LEMMA DenyDefaultEgressKeeps ==
  ASSUME IInv, deny_default_egress
  PROVE  IInv'
<1>1. job.pc = "egress" /\ UNCHANGED outside /\ Keep BY DEF deny_default_egress
<1>2. /\ job.id \in Labs /\ job.id <= used.launches /\ Empty(lab) /\ lab[job.id].inst = "none" /\ lab[job.id].sg
      /\ ~lab[job.id].ingress /\ job.todo = {} /\ job.status = "none" /\ Earned(job.status, job.before, job.live)
  BY <1>1, Start DEF JobOK
<1>3. used' \in UsedRec /\ used'.launches = used.launches /\ used'.lost = used.lost /\ used'.gap = used.gap
  BY FaultCount DEF deny_default_egress
<1>4. lab' \in [Ids -> LabRec] /\ LabKept
      /\ \A i \in Ids : lab'[i].ingress = lab[i].ingress /\ lab'[i].inst = lab[i].inst /\ lab'[i].sg = lab[i].sg
  <2>1. CASE UNCHANGED lab BY <2>1, KeptSame, Start
  <2>2. CASE lab' = [lab EXCEPT ![job.id].egress = FALSE]
    <3>1. PICK r : r = [lab[job.id] EXCEPT !.egress = FALSE] /\ lab' = [lab EXCEPT ![job.id] = r] BY <2>2
    <3>2. lab[job.id] \in LabRec /\ Shaped(lab[job.id]) /\ job.id \in Ids BY Start
    <3>3. /\ r \in LabRec /\ r.rows = lab[job.id].rows /\ r.ingress = lab[job.id].ingress /\ r.inst = lab[job.id].inst
          /\ r.vol = lab[job.id].vol /\ r.sg = lab[job.id].sg /\ r.soak = lab[job.id].soak
      BY <3>1, <3>2 DEF LabRec
    <3>4. Kept(lab[job.id], r) BY <3>2, <3>3 DEF Kept, Shaped
    <3>5. lab' \in [Ids -> LabRec] /\ lab'[job.id] = r /\ (\A k \in Ids \ {job.id} : lab'[k] = lab[k]) /\ LabKept
      BY <3>1, <3>2, <3>3, <3>4, OneLabChanges
    <3> QED BY <3>2, <3>3, <3>5
  <2> QED BY <2>1, <2>2 DEF deny_default_egress
<1>5. PICK p \in {"run", "rollback"} : job' = [job EXCEPT !.pc = p] BY DEF deny_default_egress, Go
<1>6. job' \in JobRec /\ job'.pc = p /\ job'.id = job.id /\ job'.todo = {} /\ job'.kind = job.kind
      /\ job'.status = "none" /\ job'.before = job.before /\ job'.live = job.live
  BY <1>2, <1>5, Start DEF JobRec, Pcs
<1>7. job.id \in Ids /\ Labs \subseteq Ids BY Start, LabAssumption DEF Labs, Ids
<1>8. job.kind # "teardown" BY <1>2, Start DEF JobOK
<1>9. JobOK(job', lab', used'.launches)
  BY <1>2, <1>3, <1>4, <1>6, <1>7, <1>8 DEF JobOK, Earned, Empty
<1>10. stamp' = stamp /\ said' = said BY <1>1 DEF Keep
<1>11. ~stamp.authorized BY <1>1, Start DEF StampOK, ArmPcs
<1>12. StampOK(stamp', job') BY <1>10, <1>11 DEF StampOK
<1>13. SaidOK(said', lab') BY <1>3, <1>4, <1>10, LabStays
<1>14. RuleHasCloser' BY <1>1, <1>3, <1>4 DEF IInv, RuleHasCloser
<1> QED BY <1>1, <1>3, <1>4, <1>6, <1>9, <1>10, <1>12, <1>13, <1>14, Start, OnKeeps

(* RunInstances: the slot was empty, and still is.                         *)
LEMMA LaunchedKeeps ==
  ASSUME IInv, job.pc = "run", lab' = Launched, used' \in UsedRec, used'.launches = used.launches
  PROVE  /\ lab' \in [Ids -> LabRec] /\ LabInv' /\ SaidOK(said, lab') /\ ~lab'[job.id].ingress
         /\ (\A i \in Ids : lab'[i].ingress = lab[i].ingress)
         /\ (ver' = ver => VerOK')
<1>1. /\ job.id \in Labs /\ job.id <= used.launches /\ Empty(lab) /\ lab[job.id].inst = "none" /\ lab[job.id].sg
      /\ ~lab[job.id].ingress
  BY Start DEF JobOK
<1>2. job.id \in Ids /\ lab[job.id] \in LabRec /\ now \in Nat /\ lab \in [Ids -> LabRec] /\ Labs \subseteq Ids
  BY Start, LabAssumption DEF Labs, Ids
<1>3. PICK r : r = [lab[job.id] EXCEPT !.inst = "running", !.vol = "in-use", !.launched = now] OBVIOUS
<1>4. lab' = [lab EXCEPT ![job.id] = r] BY <1>2, <1>3 DEF Launched
<1>5. r \in LabRec /\ r.inst = "running" /\ r.sg /\ ~r.ingress /\ r.ingress = lab[job.id].ingress
  BY <1>1, <1>2, <1>3 DEF LabRec, Insts, Vols
<1>6. lab' \in [Ids -> LabRec] /\ lab'[job.id] = r /\ \A k \in Ids \ {job.id} : lab'[k] = lab[k] BY <1>2, <1>4, <1>5
<1>7. \A i \in Ids : Shaped(lab'[i])
  <2>1. Shaped(r) BY <1>5 DEF Shaped
  <2> QED BY <2>1, <1>6, Start DEF Shaped
<1>8. Alone' BY <1>1, <1>2, <1>6 DEF Alone, Empty
<1>9. Fresh'
  <2>1. ~(job.id > used.launches) BY <1>1, <1>2, Start, LabAssumption DEF Ids, UsedRec
  <2> QED BY <2>1, <1>6 DEF IInv, LabInv, Fresh
<1>10. SaidOK(said, lab')
  <2>1. said.id \in Ids BY Start DEF SaidRec
  <2>2. said.status = "VERIFIED_REMOVED" => said.id # job.id BY <1>1, Start DEF SaidOK
  <2> QED BY <2>1, <2>2, <1>6, Start DEF SaidOK
<1>11. ver' = ver => VerOK'
  <2>1. ver.id \in Ids BY Start DEF VerRec
  <2> QED BY <2>1, <1>5, <1>6 DEF IInv, VerOK
<1>12. (\A i \in Ids : lab'[i].ingress = lab[i].ingress) /\ ~lab'[job.id].ingress BY <1>5, <1>6
<1>13. LabInv' BY <1>7, <1>8, <1>9 DEF LabInv
<1> QED BY <1>6, <1>10, <1>11, <1>12, <1>13

LEMMA ExecuteLaunchKeeps ==
  ASSUME IInv, execute_launch
  PROVE  IInv'
<1>1. job.pc = "run" /\ UNCHANGED outside BY DEF execute_launch
<1>2. used' \in UsedRec /\ used'.launches = used.launches /\ used'.lost = used.lost /\ used'.gap = used.gap
  BY FaultCount DEF execute_launch
<1>3. ver' = ver /\ now' = now /\ eip' = eip BY <1>1 DEF outside
<1>4. lab' = Launched \/ lab' = lab BY DEF execute_launch
<1>5. ~lab[job.id].ingress /\ job.todo = {} /\ job.status = "none" /\ job.kind # "teardown" /\ ~stamp.authorized
      /\ Earned(job.status, job.before, job.live)
  BY <1>1, Start DEF JobOK, StampOK, ArmPcs
<1>6. /\ lab' \in [Ids -> LabRec] /\ LabInv' /\ SaidOK(said, lab') /\ ~lab'[job.id].ingress
      /\ \A i \in Ids : lab'[i].ingress = lab[i].ingress
      /\ VerOK'
  <2>1. CASE lab' = Launched BY <2>1, <1>1, <1>2, <1>3, LaunchedKeeps
  <2>2. CASE lab' = lab
    <3>1. LabInv' /\ SaidOK(said, lab') BY <2>2, <1>2, KeptSame, LabStays
    <3>2. VerOK' BY <2>2, <1>3 DEF IInv, VerOK
    <3> QED BY <2>2, <3>1, <3>2, <1>5, Start
  <2> QED BY <1>4, <2>1, <2>2
<1>7. RuleHasCloser' BY <1>1, <1>2, <1>6 DEF IInv, RuleHasCloser
<1>8. CASE Finish(Says("LAUNCHED"))
  <2>1. "LAUNCHED" \in Plain /\ job.kind \in JobKinds /\ job.id \in Ids BY Start DEF Plain, Statuses, JobRec
  <2>2. said' \in SaidRec /\ SaidOK(said', lab') BY <1>8, <2>1, SaysOK DEF Says, Finish
  <2>3. job' = Idle /\ stamp' = NoStamp BY <1>8 DEF Finish
  <2>4. WellTyped' BY <1>2, <1>3, <1>6, <2>2, <2>3, IdleOK, Start DEF WellTyped
  <2> QED BY <1>6, <1>7, <2>2, <2>3, <2>4, IdleOK DEF IInv
<1>9. CASE Go("rollback") /\ Keep
  <2>1. job' \in JobRec /\ job'.pc = "rollback" /\ job'.id = job.id /\ job'.todo = {} /\ job'.kind = job.kind
        /\ job'.status = "none" /\ job'.before = job.before /\ job'.live = job.live
    BY <1>5, <1>9, Start DEF JobRec, Pcs, Go
  <2>2. JobOK(job', lab', used'.launches) BY <1>5, <1>6, <2>1 DEF JobOK, Earned
  <2>3. stamp' = stamp /\ said' = said BY <1>9 DEF Keep
  <2>4. StampOK(stamp', job') BY <1>5, <2>3 DEF StampOK
  <2>5. WellTyped' BY <1>2, <1>3, <1>6, <2>1, <2>3, Start DEF WellTyped
  <2> QED BY <1>6, <1>7, <2>2, <2>3, <2>4, <2>5 DEF IInv
<1> QED BY <1>8, <1>9 DEF execute_launch

LEMMA RollbackKeeps ==
  ASSUME IInv, rollback_security_group
  PROVE  IInv'
<1>1. job.pc = "rollback" /\ UNCHANGED outside BY DEF rollback_security_group
<1>2. ~lab[job.id].ingress /\ job.pc \notin Closers \cup {"close"} BY <1>1, Start DEF JobOK, Closers
<1>3. "FAILED" \in Plain /\ "ROLLBACK_FAILED" \in Plain BY DEF Plain, Statuses
<1>4. CASE ~Attached(job.id) /\ Works /\ lab' = [lab EXCEPT ![job.id].sg = FALSE] /\ Finish(Says("FAILED"))
  <2>1. lab[job.id] \in LabRec /\ Shaped(lab[job.id]) /\ job.id \in Ids /\ job.kind \in JobKinds BY Start DEF JobRec
  <2>2. PICK r : r = [lab[job.id] EXCEPT !.sg = FALSE] /\ lab' = [lab EXCEPT ![job.id] = r] BY <1>4
  <2>3. /\ r \in LabRec /\ r.rows = lab[job.id].rows /\ r.ingress = lab[job.id].ingress /\ r.inst = lab[job.id].inst
        /\ r.vol = lab[job.id].vol /\ ~r.sg /\ r.soak = lab[job.id].soak
    BY <2>1, <2>2 DEF LabRec
  <2>4. Kept(lab[job.id], r) BY <1>2, <1>4, <2>3 DEF Kept, Shaped, Attached
  <2>5. lab' \in [Ids -> LabRec] /\ lab'[job.id] = r /\ (\A k \in Ids \ {job.id} : lab'[k] = lab[k]) /\ LabKept
    BY <2>1, <2>2, <2>3, <2>4, OneLabChanges
  <2>6. \A i \in Ids : lab'[i].ingress => lab[i].ingress BY <2>3, <2>5
  <2>7. said' \in SaidRec /\ SaidOK(said', lab') /\ job' = Idle /\ stamp' = NoStamp
    BY <1>3, <1>4, <2>1, SaysOK DEF Says, Finish
  <2>8. used' \in UsedRec /\ used'.launches = used.launches /\ used'.lost = used.lost /\ used'.gap = used.gap
    BY <1>4, FaultCount
  <2> QED BY <1>1, <1>2, <2>5, <2>6, <2>7, <2>8, EndKeeps
<1>5. CASE (Works \/ Fails) /\ Abort("ROLLBACK_FAILED") BY <1>1, <1>2, <1>3, <1>5, AbortKeeps
<1> QED BY <1>4, <1>5 DEF rollback_security_group

-----------------------------------------------------------------------------
(* arm and collect.                                                        *)

LEMMA BeginArmKeeps ==
  ASSUME IInv, NEW k, NEW i \in Named, NEW b \in Batteries \cup {"collect"}, BeginArm(k, i, b)
  PROVE  IInv'
<1>1. /\ job = Idle /\ UNCHANGED <<outside, lab, stamp>>
      /\ used' \in UsedRec /\ used'.launches = used.launches /\ used'.lost = used.lost /\ used'.gap = used.gap
  BY JobCount DEF BeginArm, Dispatch
<1>2. k \in {"arm", "collect"} /\ k \in JobKinds /\ "FAILED" \in Plain /\ i \in Ids
  BY DEF BeginArm, JobKinds, AllJobs, Plain, Statuses, Named
<1>3. CASE UNCHANGED job /\ said' = [Silent EXCEPT !.kind = k, !.id = i, !.status = "FAILED"]
  <2>1. said' \in SaidRec /\ SaidOK(said', lab) BY <1>2, <1>3, Start, SaysOK
  <2> QED BY <1>1, <1>3, <2>1, Start, BeginKeeps
<1>4. CASE UNCHANGED said /\ job' = [Idle EXCEPT !.kind = k, !.pc = "stamp", !.id = i, !.battery = b]
  <2>1. b \in AllBatteries \cup {"none", "collect"} BY LabAssumption
  <2>2. job' \in JobRec BY <1>2, <1>4, <2>1, IdleOK DEF JobRec, Pcs, ArmPcs
  <2>3. job'.kind = k /\ job'.pc = "stamp" /\ job'.todo = {} /\ job'.status = "none" BY <1>4 DEF Idle
  <2>4. JobOK(job', lab, used.launches) BY <1>2, <2>3 DEF JobOK, Earned
  <2> QED BY <1>1, <1>4, <2>2, <2>4, Start, BeginKeeps
<1> QED BY <1>3, <1>4 DEF BeginArm

(* A step of the session: what it must show for the rule, the rows and the *)
(* judgement it carries to the end.                                        *)
LEMMA SessionKeeps ==
  ASSUME IInv, job.pc \in ArmPcs, UNCHANGED outside, lab' \in [Ids -> LabRec], LabKept,
         used' \in UsedRec, used'.launches = used.launches, used.lost => used'.lost, used.gap => used'.gap,
         job' \in JobRec, job'.pc \in ArmPcs \cup {"close"}, job'.id = job.id, job'.todo = job.todo,
         job'.kind = job.kind, job'.status # "VERIFIED_REMOVED", Earned(job'.status, job'.before, job'.live),
         job'.pc \notin {"revoke", "close"} => job'.status = "none",
         job'.pc = "pull" /\ job'.battery \notin Reboots =>
           lab'[job.id].rows = NoRows \/ lab'[job.id].rows.boot = lab'[job.id].rows.pre,
         stamp' \in StampRec, stamp'.authorized => stamp'.id = job.id,
         said' \in SaidRec, SaidOK(said', lab'),
         \A i \in Ids \ {job.id} : lab'[i].ingress => lab[i].ingress,
         lab'[job.id].ingress => \/ used'.lost \/ used'.gap
                                 \/ job'.pc \in Closers \/ (job'.pc = "close" /\ stamp'.authorized)
  PROVE  IInv'
<1>1. job.todo = {} BY Start DEF JobOK, ArmPcs
<1>2. job.kind = "teardown" => lab'[job.id].inst # "none" BY Start DEF JobOK, LabKept, Kept
<1>3. job'.pc \notin {"create", "egress", "run", "rollback", "delete", "wait"} BY DEF ArmPcs
<1>4. JobOK(job', lab', used'.launches) BY <1>1, <1>2, <1>3 DEF JobOK
<1>5. StampOK(stamp', job') BY DEF StampOK
<1>6. stamp'.authorized => stamp' = [authorized |-> TRUE, id |-> job.id] BY DEF StampRec
<1>7. RuleHasCloser'
  <2> SUFFICES ASSUME NEW i \in Ids, lab'[i].ingress
               PROVE  \/ used'.lost \/ used'.gap
                      \/ job'.id = i /\ job'.pc \in Closers
                      \/ job'.pc = "close" /\ stamp' = [authorized |-> TRUE, id |-> i]
    BY DEF RuleHasCloser, Closers
  <2>1. CASE i = job.id BY <2>1, <1>6
  <2>2. CASE i # job.id BY <2>2 DEF IInv, RuleHasCloser, ArmPcs
  <2> QED BY <2>1, <2>2
<1> QED BY <1>4, <1>5, <1>7, OnKeeps

(* The same, for a step that leaves the labs, the stamp and the evidence   *)
(* alone.                                                                  *)
LEMMA SessionRests ==
  ASSUME IInv, job.pc \in ArmPcs, UNCHANGED <<outside, lab, stamp, said>>,
         used' \in UsedRec, used'.launches = used.launches, used.lost => used'.lost, used.gap => used'.gap,
         job' \in JobRec, job'.pc \in Closers, job'.id = job.id, job'.todo = job.todo,
         job'.kind = job.kind, job'.status # "VERIFIED_REMOVED", Earned(job'.status, job'.before, job'.live),
         job'.pc # "revoke" => job'.status = "none",
         job'.pc = "pull" => job.battery \in Reboots /\ job'.battery = job.battery
  PROVE  IInv'
<1>1. LabKept BY KeptSame
<1>2. job'.pc \in ArmPcs \cup {"close"} BY DEF ArmPcs, Closers
<1>3. stamp.authorized => stamp.id = job.id BY Start DEF StampOK
<1>4. UNCHANGED outside /\ job'.pc # "close" BY DEF Closers
<1> QED BY <1>1, <1>2, <1>3, <1>4, Start, SessionKeeps

(* The fields of the job after Go and after Bad.                           *)
LEMMA GoFields ==
  ASSUME job \in JobRec, NEW p \in Pcs, Go(p)
  PROVE  /\ job' \in JobRec /\ job'.pc = p /\ job'.id = job.id /\ job'.todo = job.todo /\ job'.kind = job.kind
         /\ job'.battery = job.battery /\ job'.status = job.status /\ job'.before = job.before /\ job'.live = job.live
BY DEF Go, JobRec

LEMMA BadFields ==
  ASSUME job \in JobRec, NEW s \in Statuses, Bad(s)
  PROVE  /\ job' \in JobRec /\ job'.pc = "revoke" /\ job'.id = job.id /\ job'.todo = job.todo /\ job'.kind = job.kind
         /\ job'.battery = job.battery /\ job'.status = s /\ job'.before = job.before /\ job'.live = job.live
BY DEF Bad, JobRec, Pcs, ArmPcs

(* The rule is opened or shut.                                             *)
LEMMA RuleChanges ==
  ASSUME IInv, lab' = Opened \/ lab' = Shut(job.id) \/ lab' = lab
  PROVE  /\ lab' \in [Ids -> LabRec] /\ LabKept
         /\ \A i \in Ids \ {job.id} : lab'[i].ingress => lab[i].ingress
         /\ lab' = Shut(job.id) => ~lab'[job.id].ingress
         /\ lab' = lab => lab'[job.id].ingress = lab[job.id].ingress
         /\ lab'[job.id].rows = lab[job.id].rows
<1>1. lab[job.id] \in LabRec /\ Shaped(lab[job.id]) /\ job.id \in Ids /\ lab \in [Ids -> LabRec] BY Start
<1>2. CASE lab' = lab /\ lab' # Shut(job.id) BY <1>2, KeptSame, <1>1
<1>3. CASE lab' # lab \/ lab' = Shut(job.id)
  <2>1. PICK b \in BOOLEAN : /\ lab' = [lab EXCEPT ![job.id] = [lab[job.id] EXCEPT !.ingress = b]]
                             /\ b => lab[job.id].sg
                             /\ lab' = Shut(job.id) => b = FALSE
    <3>1. CASE lab' = Shut(job.id) BY <3>1 DEF Shut
    <3>2. CASE lab' # Shut(job.id)
      <4>1. lab' = [lab EXCEPT ![job.id] = [lab[job.id] EXCEPT !.ingress = lab[job.id].sg]] BY <1>3, <3>2 DEF Opened
      <4>2. lab[job.id].sg \in BOOLEAN BY <1>1 DEF LabRec
      <4> QED BY <3>2, <4>1, <4>2
    <3> QED BY <3>1, <3>2
  <2>2. PICK r : r = [lab[job.id] EXCEPT !.ingress = b] OBVIOUS
  <2>3. /\ r \in LabRec /\ r.rows = lab[job.id].rows /\ r.ingress = b /\ r.inst = lab[job.id].inst
        /\ r.vol = lab[job.id].vol /\ r.sg = lab[job.id].sg /\ r.soak = lab[job.id].soak
    BY <1>1, <2>2 DEF LabRec
  <2>4. Kept(lab[job.id], r) BY <1>1, <2>1, <2>3 DEF Kept, Shaped
  <2>5. lab' \in [Ids -> LabRec] /\ lab'[job.id] = r /\ (\A k \in Ids \ {job.id} : lab'[k] = lab[k]) /\ LabKept
    BY <1>1, <2>1, <2>2, <2>3, <2>4, OneLabChanges
  <2> QED BY <2>1, <2>3, <2>5
<1> QED BY <1>2, <1>3

LEMMA WriteStampKeeps ==
  ASSUME IInv, write_stamp
  PROVE  IInv'
<1>1. job.pc = "stamp" /\ UNCHANGED <<outside, lab>> BY DEF write_stamp
<1>2. job.pc \in ArmPcs /\ job.pc \notin Closers \cup {"close"} /\ job.status = "none" BY <1>1, Start DEF ArmPcs, Closers, JobOK
<1>3. CASE Works /\ stamp' = [authorized |-> TRUE, id |-> job.id] /\ Go("authorize") /\ UNCHANGED said
  <2>1. "authorize" \in Pcs BY DEF Pcs, ArmPcs
  <2>2. /\ job' \in JobRec /\ job'.pc = "authorize" /\ job'.id = job.id /\ job'.todo = job.todo /\ job'.kind = job.kind
        /\ job'.battery = job.battery /\ job'.status = "none"
    BY <1>2, <1>3, <2>1, Start, GoFields
  <2>3. stamp' \in StampRec /\ stamp'.id = job.id BY <1>3, Start DEF StampRec
  <2>4. used' \in UsedRec /\ used' = used BY <1>3, Start DEF Works
  <2>5. LabKept /\ lab' \in [Ids -> LabRec] /\ UNCHANGED outside BY <1>1, KeptSame, Start
  <2>6. Earned(job'.status, job'.before, job'.live) /\ job'.status # "VERIFIED_REMOVED" BY <2>2 DEF Earned
  <2>7. job'.pc \in ArmPcs /\ job'.pc \in Closers BY <2>2 DEF ArmPcs, Closers
  <2> QED BY <1>1, <1>2, <1>3, <2>2, <2>3, <2>4, <2>5, <2>6, <2>7, Start, SessionKeeps
<1>4. CASE Fails /\ Finish(Says("BLOCKED_IAM"))
  <2>1. "BLOCKED_IAM" \in Plain BY DEF Plain, Statuses
  <2>2. Abort("BLOCKED_IAM") /\ UNCHANGED outside BY <1>1, <1>4 DEF Abort
  <2> QED BY <1>2, <1>4, <2>1, <2>2, AbortKeeps
<1> QED BY <1>3, <1>4 DEF write_stamp

(* A step that opens or shuts the rule and goes on in the session.         *)
LEMMA RuleStepKeeps ==
  ASSUME IInv, job.pc \in ArmPcs, UNCHANGED <<outside, said>>, lab' = Opened \/ lab' = Shut(job.id) \/ lab' = lab,
         used' \in UsedRec, used'.launches = used.launches, used'.lost = used.lost, used'.gap = used.gap,
         stamp' \in StampRec, stamp'.authorized => stamp'.id = job.id,
         NEW p \in Closers \cup {"quiet"}, NEW s \in {"none", "FAILED"},
         p # "pull", p # "revoke" => s = "none",
         job' \in JobRec, job'.pc = p, job'.id = job.id, job'.todo = job.todo, job'.kind = job.kind, job'.status = s,
         p = "quiet" => lab' = Shut(job.id)
  PROVE  IInv'
<1>1. /\ lab' \in [Ids -> LabRec] /\ LabKept
      /\ \A i \in Ids \ {job.id} : lab'[i].ingress => lab[i].ingress
      /\ lab' = Shut(job.id) => ~lab'[job.id].ingress
  BY RuleChanges
<1>2. SaidOK(said', lab') BY <1>1, LabStays
<1>3. p \in ArmPcs /\ p # "close" BY DEF Closers, ArmPcs
<1>4. Earned(job'.status, job'.before, job'.live) /\ job'.status # "VERIFIED_REMOVED" BY DEF Earned
<1>5. UNCHANGED outside /\ said' \in SaidRec BY Start
<1> QED BY <1>1, <1>2, <1>3, <1>4, <1>5, SessionKeeps

LEMMA OpenSshKeeps ==
  ASSUME IInv, open_ssh
  PROVE  IInv'
<1>1. job.pc = "authorize" /\ UNCHANGED <<outside, stamp, said>> BY DEF open_ssh, Keep
<1>2. job.pc \in ArmPcs /\ job.status = "none" /\ (stamp.authorized => stamp.id = job.id)
  BY <1>1, Start DEF ArmPcs, JobOK, StampOK
<1>3. used' \in UsedRec /\ used'.launches = used.launches /\ used'.lost = used.lost /\ used'.gap = used.gap
  BY FaultCount DEF open_ssh
<1>4. lab' = Opened \/ lab' = lab BY DEF open_ssh
<1>5. PICK p \in {"guest", "revoke"}, s \in {"none", "FAILED"} :
        /\ p # "revoke" => s = "none"
        /\ job' \in JobRec /\ job'.pc = p /\ job'.id = job.id /\ job'.todo = job.todo /\ job'.kind = job.kind
        /\ job'.status = s
  <2>1. "guest" \in Pcs /\ "FAILED" \in Statuses BY DEF Pcs, ArmPcs, Statuses
  <2>2. CASE Go("guest") BY <1>2, <2>1, <2>2, Start, GoFields
  <2>3. CASE Bad("FAILED") BY <2>1, <2>3, Start, BadFields
  <2> QED BY <2>2, <2>3 DEF open_ssh
<1>6. p \in Closers \cup {"quiet"} /\ p # "pull" /\ p # "quiet" BY DEF Closers
<1> QED BY <1>1, <1>2, <1>3, <1>4, <1>5, <1>6, Start, RuleStepKeeps

LEMMA ReleaseSshKeeps ==
  ASSUME IInv, release_ssh
  PROVE  IInv'
<1>1. job.pc = "release" /\ UNCHANGED <<outside, said>> BY DEF release_ssh
<1>2. job.pc \in ArmPcs /\ job.status = "none" /\ (stamp.authorized => stamp.id = job.id)
  BY <1>1, Start DEF ArmPcs, JobOK, StampOK
<1>3. used' \in UsedRec /\ used'.launches = used.launches /\ used'.lost = used.lost /\ used'.gap = used.gap
  BY FaultCount DEF release_ssh
<1>4. "quiet" \in Pcs /\ "FAILED" \in Statuses BY DEF Pcs, ArmPcs, Statuses
<1>5. CASE lab' = Shut(job.id) /\ Go("quiet") /\ stamp' = [stamp EXCEPT !.authorized = FALSE]
  <2>1. /\ job' \in JobRec /\ job'.pc = "quiet" /\ job'.id = job.id /\ job'.todo = job.todo /\ job'.kind = job.kind
        /\ job'.status = "none"
    BY <1>2, <1>4, <1>5, Start, GoFields
  <2>2. stamp' \in StampRec /\ ~stamp'.authorized BY <1>5, Start DEF StampRec
  <2> QED BY <1>1, <1>2, <1>3, <1>5, <2>1, <2>2, RuleStepKeeps
<1>6. CASE Bad("FAILED") /\ UNCHANGED <<lab, stamp>>
  <2>1. /\ job' \in JobRec /\ job'.pc = "revoke" /\ job'.id = job.id /\ job'.todo = job.todo /\ job'.kind = job.kind
        /\ job'.status = "FAILED"
    BY <1>4, <1>6, Start, BadFields
  <2>2. "revoke" \in Closers \cup {"quiet"} BY DEF Closers
  <2> QED BY <1>1, <1>2, <1>3, <1>6, <2>1, <2>2, Start, RuleStepKeeps
<1> QED BY <1>5, <1>6 DEF release_ssh

LEMMA ReopenSshKeeps ==
  ASSUME IInv, reopen_ssh
  PROVE  IInv'
<1>1. job.pc = "quiet" /\ UNCHANGED <<outside, stamp, said>> BY DEF reopen_ssh, Keep
<1>2. job.pc \in ArmPcs /\ job.status = "none" /\ (stamp.authorized => stamp.id = job.id)
  BY <1>1, Start DEF ArmPcs, JobOK, StampOK
<1>3. used' \in UsedRec /\ used'.launches = used.launches /\ used'.lost = used.lost /\ used'.gap = used.gap
  BY FaultCount DEF reopen_ssh
<1>4. lab' = Opened \/ lab' = lab BY DEF reopen_ssh
<1>5. PICK p \in {"restamp", "revoke"}, s \in {"none", "FAILED"} :
        /\ p # "revoke" => s = "none"
        /\ job' \in JobRec /\ job'.pc = p /\ job'.id = job.id /\ job'.todo = job.todo /\ job'.kind = job.kind
        /\ job'.status = s
  <2>1. "restamp" \in Pcs /\ "FAILED" \in Statuses BY DEF Pcs, ArmPcs, Statuses
  <2>2. CASE Go("restamp") BY <1>2, <2>1, <2>2, Start, GoFields
  <2>3. CASE Bad("FAILED") BY <2>1, <2>3, Start, BadFields
  <2> QED BY <2>2, <2>3 DEF reopen_ssh
<1>6. p \in Closers \cup {"quiet"} /\ p # "pull" /\ p # "quiet" BY DEF Closers
<1> QED BY <1>1, <1>2, <1>3, <1>4, <1>5, <1>6, Start, RuleStepKeeps

LEMMA ReopenStampKeeps ==
  ASSUME IInv, reopen_stamp
  PROVE  IInv'
<1>1. job.pc = "restamp" /\ UNCHANGED <<outside, lab, said, used>> BY DEF reopen_stamp
<1>2. job.pc \in ArmPcs /\ job.status = "none" BY <1>1, Start DEF ArmPcs, JobOK
<1>3. "return" \in Pcs /\ "return" \in Closers \cup {"quiet"} BY DEF Pcs, ArmPcs, Closers
<1>4. /\ job' \in JobRec /\ job'.pc = "return" /\ job'.id = job.id /\ job'.todo = job.todo /\ job'.kind = job.kind
      /\ job'.status = "none"
  BY <1>2, <1>3, Start, GoFields DEF reopen_stamp
<1>5. stamp' \in StampRec /\ stamp'.id = job.id BY Start DEF reopen_stamp, StampRec
<1> QED BY <1>1, <1>2, <1>3, <1>4, <1>5, Start, RuleStepKeeps

LEMMA WaitForRebootKeeps ==
  ASSUME IInv, wait_for_reboot
  PROVE  IInv'
<1>1. job.pc = "return" /\ UNCHANGED <<outside, lab, stamp, said, used>> BY DEF wait_for_reboot
<1>2. job.pc \in ArmPcs /\ job.status = "none" /\ (stamp.authorized => stamp.id = job.id)
  BY <1>1, Start DEF ArmPcs, JobOK, StampOK
<1>3. PICK p \in {"post", "revoke"}, s \in {"none", "FAILED"} :
        /\ p # "revoke" => s = "none"
        /\ job' \in JobRec /\ job'.pc = p /\ job'.id = job.id /\ job'.todo = job.todo /\ job'.kind = job.kind
        /\ job'.status = s
  <2>1. "post" \in Pcs /\ "FAILED" \in Statuses BY DEF Pcs, ArmPcs, Statuses
  <2>2. CASE Go("post") BY <1>2, <2>1, <2>2, Start, GoFields
  <2>3. CASE Bad("FAILED") BY <2>1, <2>3, Start, BadFields
  <2> QED BY <2>2, <2>3 DEF wait_for_reboot
<1>4. p \in Closers \cup {"quiet"} /\ p # "pull" /\ p # "quiet" BY DEF Closers
<1> QED BY <1>1, <1>2, <1>3, <1>4, Start, RuleStepKeeps

(* The rows change, nothing else of the lab that others look at.           *)
LEMMA RowsChange ==
  ASSUME IInv, NEW i \in Ids, NEW rows \in RowsRec, NEW d \in BOOLEAN, NEW r,
         r = [lab[i] EXCEPT !.rows = rows, !.due = d] \/ r = [lab[i] EXCEPT !.rows = rows],
         lab' = [lab EXCEPT ![i] = r]
  PROVE  /\ lab' \in [Ids -> LabRec] /\ LabKept /\ lab'[i].rows = rows
         /\ \A k \in Ids : lab'[k].ingress = lab[k].ingress
<1>1. lab[i] \in LabRec /\ Shaped(lab[i]) BY Start
<1>2. /\ r \in LabRec /\ r.rows = rows /\ r.ingress = lab[i].ingress /\ r.inst = lab[i].inst
      /\ r.vol = lab[i].vol /\ r.sg = lab[i].sg /\ r.soak = lab[i].soak
  <2>1. CASE r = [lab[i] EXCEPT !.rows = rows, !.due = d] BY <1>1, <2>1 DEF LabRec
  <2>2. CASE r = [lab[i] EXCEPT !.rows = rows] BY <1>1, <2>2 DEF LabRec
  <2> QED BY <2>1, <2>2
<1>3. Kept(lab[i], r) BY <1>1, <1>2 DEF Kept, Shaped
<1>4. lab' \in [Ids -> LabRec] /\ lab'[i] = r /\ (\A k \in Ids \ {i} : lab'[k] = lab[k]) /\ LabKept
  BY <1>2, <1>3, OneLabChanges
<1> QED BY <1>2, <1>4

LEMMA RunGuestKeeps ==
  ASSUME IInv, run_guest
  PROVE  IInv'
<1>1. job.pc = "guest" /\ UNCHANGED <<outside, stamp, said, used>> BY DEF run_guest, Keep, Works
<1>2. job.pc \in ArmPcs /\ job.status = "none" /\ (stamp.authorized => stamp.id = job.id) /\ job \in JobRec
  BY <1>1, Start DEF ArmPcs, JobOK, StampOK
<1>3. UNCHANGED outside /\ "FAILED" \in Statuses /\ "revoke" \in Closers /\ "revoke" \in Pcs BY <1>1 DEF Statuses, Closers, Pcs, ArmPcs
<1>4. CASE UNCHANGED lab /\ \E s \in {"ARMED", "COLLECTED", "FAILED"} : Bad(s)
  <2>1. PICK s \in {"ARMED", "COLLECTED", "FAILED"} : Bad(s) BY <1>4
  <2>2. s \in Statuses BY DEF Statuses
  <2>3. /\ job' \in JobRec /\ job'.pc = "revoke" /\ job'.id = job.id /\ job'.todo = job.todo /\ job'.kind = job.kind
        /\ job'.status = s
    BY <1>2, <2>1, <2>2, BadFields
  <2>4. job'.status # "VERIFIED_REMOVED" /\ Earned(job'.status, job'.before, job'.live) BY <2>3 DEF Earned
  <2> QED BY <1>1, <1>2, <1>3, <1>4, <2>3, <2>4, Start, SessionRests
<1>5. CASE /\ \E rows \in {NoRows, Rows(job.id, TRUE), Rows(job.id, FALSE)} :
                lab' = [lab EXCEPT ![job.id].rows = rows, ![job.id].due = job.battery \in Reboots]
           /\ job' = [job EXCEPT !.pc = IF job.battery \in Reboots THEN "release" ELSE "pull",
                                 !.before = lab[job.id].boot]
  <2>1. PICK rows \in {NoRows, Rows(job.id, TRUE), Rows(job.id, FALSE)} :
          lab' = [lab EXCEPT ![job.id].rows = rows, ![job.id].due = job.battery \in Reboots]
    BY <1>5
  <2>2. lab[job.id] \in LabRec /\ job.id \in Ids /\ lab[job.id].boot \in Nat /\ lab \in [Ids -> LabRec]
    BY Start DEF LabRec
  <2>3. rows \in RowsRec /\ rows.boot = rows.pre
    <3>1. NoRows \in RowsRec /\ NoRows.boot = NoRows.pre BY DEF NoRows, RowsRec
    <3>2. job.battery \in AllBatteries \cup {"none", "collect"} BY <1>2 DEF JobRec
    <3>3. \A b \in BOOLEAN : Rows(job.id, b) \in RowsRec /\ Rows(job.id, b).boot = Rows(job.id, b).pre
      BY <2>2, <3>2 DEF Rows, RowsRec
    <3> QED BY <2>1, <3>1, <3>3
  <2>4. (job.battery \in Reboots) \in BOOLEAN OBVIOUS
  <2>5. PICK r : /\ r = [lab[job.id] EXCEPT !.rows = rows, !.due = job.battery \in Reboots]
                 /\ lab' = [lab EXCEPT ![job.id] = r]
    BY <2>1, <2>2
  <2>6. /\ lab' \in [Ids -> LabRec] /\ LabKept /\ lab'[job.id].rows = rows
        /\ \A k \in Ids : lab'[k].ingress = lab[k].ingress
    BY <2>2, <2>3, <2>4, <2>5, RowsChange
  <2>7. PICK p \in {"release", "pull"} : job' = [job EXCEPT !.pc = p, !.before = lab[job.id].boot] BY <1>5
  <2>8. p \in Pcs /\ p \in Closers /\ p \in ArmPcs /\ p \notin {"revoke", "close"} BY DEF Pcs, ArmPcs, Closers
  <2>9. /\ job' \in JobRec /\ job'.pc = p /\ job'.id = job.id /\ job'.todo = job.todo /\ job'.kind = job.kind
        /\ job'.status = "none"
    BY <1>2, <2>2, <2>7, <2>8 DEF JobRec
  <2>10. job'.status # "VERIFIED_REMOVED" /\ Earned(job'.status, job'.before, job'.live) BY <2>9 DEF Earned
  <2>11. SaidOK(said', lab') BY <1>1, <2>6, LabStays
  <2>12. stamp' \in StampRec /\ said' \in SaidRec /\ used' \in UsedRec /\ (stamp'.authorized => stamp'.id = job.id)
    BY <1>1, <1>2, Start
  <2> QED BY <1>1, <1>2, <1>3, <2>3, <2>6, <2>8, <2>9, <2>10, <2>11, <2>12, SessionKeeps
<1> QED BY <1>1, <1>4, <1>5 DEF run_guest, Bad

LEMMA RunPostKeeps ==
  ASSUME IInv, run_post
  PROVE  IInv'
<1>1. job.pc = "post" /\ UNCHANGED <<outside, stamp, said, used>> BY DEF run_post
<1>2. job.pc \in ArmPcs /\ job.status = "none" /\ (stamp.authorized => stamp.id = job.id) /\ job \in JobRec
  BY <1>1, Start DEF ArmPcs, JobOK, StampOK
<1>3. /\ UNCHANGED outside /\ "FAILED" \in Statuses /\ {"revoke", "pull"} \subseteq Closers
      /\ {"revoke", "pull"} \subseteq Pcs /\ "pull" \in ArmPcs
  BY <1>1 DEF Statuses, Closers, Pcs, ArmPcs
<1>4. CASE UNCHANGED lab /\ Bad("FAILED")
  <2>1. /\ job' \in JobRec /\ job'.pc = "revoke" /\ job'.id = job.id /\ job'.todo = job.todo /\ job'.kind = job.kind
        /\ job'.status = "FAILED"
    BY <1>2, <1>3, <1>4, BadFields
  <2>2. job'.status # "VERIFIED_REMOVED" /\ Earned(job'.status, job'.before, job'.live) BY <2>1 DEF Earned
  <2> QED BY <1>1, <1>2, <1>3, <1>4, <2>1, <2>2, Start, SessionRests
<1>5. CASE job.battery \in Reboots /\ Go("pull") /\ (lab' = lab \/
             lab' = [lab EXCEPT ![job.id].rows.boot = lab[job.id].boot, ![job.id].rows.pass = TRUE])
  <2>1. /\ job' \in JobRec /\ job'.pc = "pull" /\ job'.id = job.id /\ job'.todo = job.todo /\ job'.kind = job.kind
        /\ job'.status = "none" /\ job'.battery = job.battery
    BY <1>2, <1>3, <1>5, GoFields
  <2>2. job'.status # "VERIFIED_REMOVED" /\ Earned(job'.status, job'.before, job'.live) BY <2>1 DEF Earned
  <2>3. CASE lab' = lab BY <1>1, <1>2, <1>3, <1>5, <2>1, <2>2, <2>3, Start, SessionRests
  <2>4. CASE lab' = [lab EXCEPT ![job.id].rows.boot = lab[job.id].boot, ![job.id].rows.pass = TRUE]
    <3>1. lab[job.id] \in LabRec /\ job.id \in Ids /\ lab[job.id].boot \in Nat /\ lab \in [Ids -> LabRec]
          /\ lab[job.id].rows \in RowsRec
      BY Start DEF LabRec
    <3>2. PICK rows : rows = [lab[job.id].rows EXCEPT !.boot = lab[job.id].boot, !.pass = TRUE] OBVIOUS
    <3>3. rows \in RowsRec BY <3>1, <3>2 DEF RowsRec
    <3>4. PICK r : r = [lab[job.id] EXCEPT !.rows = rows] /\ lab' = [lab EXCEPT ![job.id] = r]
      BY <2>4, <3>1, <3>2 DEF LabRec
    <3>5. /\ lab' \in [Ids -> LabRec] /\ LabKept /\ lab'[job.id].rows = rows
          /\ \A k \in Ids : lab'[k].ingress = lab[k].ingress
      BY <3>1, <3>3, <3>4, RowsChange
    <3>6. SaidOK(said', lab') BY <1>1, <3>5, LabStays
    <3>7. stamp' \in StampRec /\ said' \in SaidRec /\ used' \in UsedRec /\ (stamp'.authorized => stamp'.id = job.id)
      BY <1>1, <1>2, Start
    <3> QED BY <1>1, <1>2, <1>3, <1>5, <2>1, <2>2, <3>5, <3>6, <3>7, SessionKeeps
  <2> QED BY <1>5, <2>3, <2>4
<1> QED BY <1>4, <1>5 DEF run_post, Reboots

(* A verdict says of the boot what it says on the rows.                    *)
LEMMA JudgedIsEarned ==
  ASSUME NEW rows \in RowsRec, NEW live \in Nat \ {0},
         job.battery \notin Reboots => rows = NoRows \/ rows.boot = rows.pre
  PROVE  /\ Judged(rows, live) \in Statuses \ {"VERIFIED_REMOVED"} /\ Earned(Judged(rows, live), rows.boot, live)
         /\ Judged(rows, 0) \in Statuses \ {"VERIFIED_REMOVED"} /\ Earned(Judged(rows, 0), 0, live)
<1> USE DEF Earned, Judged, Statuses, rows_disagree_with_boot, Reboots
<1>1. CASE rows = NoRows BY <1>1
<1>2. CASE rows # NoRows /\ job.battery = "reboot-check"
  <2>1. Judged(rows, live) \in {"FAILED", "REBOOT_CHECKED"} /\ (Judged(rows, live) = "REBOOT_CHECKED" => live # rows.boot)
    BY <1>2
  <2>2. Judged(rows, 0) = "FAILED" BY <1>2
  <2> QED BY <2>1, <2>2
<1>3. CASE rows # NoRows /\ job.battery = "descendant-b1"
  <2>1. Judged(rows, live) \in {"FAILED", "DESCENDANT_B1"} BY <1>3
  <2>2. Judged(rows, 0) \in {"FAILED", "DESCENDANT_B1"} BY <1>3
  <2> QED BY <2>1, <2>2
<1>4. CASE rows # NoRows /\ job.battery \notin Reboots
  <2>1. rows.boot = rows.pre /\ rows.boot \in Nat BY <1>4 DEF RowsRec
  <2>2. CASE rows.boot # live BY <1>4, <2>1, <2>2
  <2>3. CASE rows.boot = live
    <3>1. Judged(rows, live) \in {"FAILED", "PHASE2", "ENTERPRISE_ROWS"} BY <1>4, <2>1, <2>3
    <3>2. Judged(rows, 0) \in {"FAILED", "PHASE2", "ENTERPRISE_ROWS"} BY <1>4, <2>1, <2>3
    <3> QED BY <2>3, <3>1, <3>2
  <2> QED BY <2>2, <2>3
<1> QED BY <1>1, <1>2, <1>3, <1>4

LEMMA EnterpriseRowsKeeps ==
  ASSUME IInv, execute_enterprise_rows
  PROVE  IInv'
<1>1. job.pc = "pull" /\ UNCHANGED <<outside, lab, stamp, said>> BY DEF execute_enterprise_rows, Keep
<1>2. job.pc \in ArmPcs /\ job.status = "none" /\ (stamp.authorized => stamp.id = job.id) /\ job \in JobRec
  BY <1>1, Start DEF ArmPcs, JobOK, StampOK
<1>3. used' \in UsedRec /\ used'.launches = used.launches /\ used'.lost = used.lost /\ used'.gap = used.gap
  BY FaultCount DEF execute_enterprise_rows
<1>4. "FAILED" \in Statuses /\ "revoke" \in Closers /\ "revoke" \in Pcs BY DEF Statuses, Closers, Pcs, ArmPcs
<1>5. PICK rows \in RowsRec, live \in Nat \ {0} : rows = lab[job.id].rows /\ live = lab[job.id].boot BY Start DEF LabRec
<1>6. job.battery \notin Reboots => rows = NoRows \/ rows.boot = rows.pre BY <1>1, <1>5, Start DEF JobOK
<1>7. rows.boot \in Nat BY DEF RowsRec
<1>8. CASE job' = [job EXCEPT !.pc = "revoke", !.status = Judged(rows, live), !.before = rows.boot, !.live = live]
  <2>1. PICK s \in Statuses \ {"VERIFIED_REMOVED"} : s = Judged(rows, live) BY <1>6, JudgedIsEarned
  <2>2. Earned(s, rows.boot, live) BY <1>6, <2>1, JudgedIsEarned
  <2>3. job' = [job EXCEPT !.pc = "revoke", !.status = s, !.before = rows.boot, !.live = live] BY <1>8, <2>1
  <2>4. /\ job' \in JobRec /\ job'.pc = "revoke" /\ job'.id = job.id /\ job'.todo = job.todo /\ job'.kind = job.kind
        /\ job'.status = s /\ job'.before = rows.boot /\ job'.live = live
    BY <1>2, <1>4, <1>7, <2>3 DEF JobRec
  <2> QED BY <1>1, <1>2, <1>3, <1>4, <2>2, <2>4, Start, SessionRests
<1>9. CASE job' = [job EXCEPT !.pc = "revoke", !.status = Judged(rows, 0), !.before = 0, !.live = live]
  <2>1. PICK s \in Statuses \ {"VERIFIED_REMOVED"} : s = Judged(rows, 0) BY <1>6, JudgedIsEarned
  <2>2. Earned(s, 0, live) BY <1>6, <2>1, JudgedIsEarned
  <2>3. job' = [job EXCEPT !.pc = "revoke", !.status = s, !.before = 0, !.live = live] BY <1>9, <2>1
  <2>4. /\ job' \in JobRec /\ job'.pc = "revoke" /\ job'.id = job.id /\ job'.todo = job.todo /\ job'.kind = job.kind
        /\ job'.status = s /\ job'.before = 0 /\ job'.live = live
    BY <1>2, <1>4, <2>3 DEF JobRec
  <2> QED BY <1>1, <1>2, <1>3, <1>4, <2>2, <2>4, Start, SessionRests
<1>10. CASE Bad("FAILED")
  <2>1. /\ job' \in JobRec /\ job'.pc = "revoke" /\ job'.id = job.id /\ job'.todo = job.todo /\ job'.kind = job.kind
        /\ job'.status = "FAILED"
    BY <1>2, <1>4, <1>10, BadFields
  <2>2. job'.status # "VERIFIED_REMOVED" /\ Earned(job'.status, job'.before, job'.live) BY <2>1 DEF Earned
  <2> QED BY <1>1, <1>2, <1>3, <1>4, <2>1, <2>2, Start, SessionRests
<1> QED BY <1>5, <1>8, <1>9, <1>10 DEF execute_enterprise_rows

(* The end of the step shows the open rule on the stamp, or is the gap.    *)
LEMMA OpenCount ==
  ASSUME IInv, FailsOpen
  PROVE  /\ used' \in UsedRec /\ used'.launches = used.launches /\ used'.lost = used.lost /\ (used.gap => used'.gap)
         /\ lab[job.id].ingress => used'.gap \/ stamp.authorized
<1>1. used \in UsedRec /\ used.gap \in BOOLEAN BY Start DEF UsedRec
<1>2. PICK n \in Nat : n = used.faults + 1 BY <1>1 DEF UsedRec
<1>3. lab[job.id].ingress \in BOOLEAN /\ stamp.authorized \in BOOLEAN BY Start DEF LabRec, StampRec
<1>4. PICK g : g = (used.gap \/ (lab[job.id].ingress /\ ~stamp.authorized)) OBVIOUS
<1>5. g \in BOOLEAN /\ (used.gap => g) /\ (lab[job.id].ingress => g \/ stamp.authorized) BY <1>1, <1>3, <1>4
<1>6. used' = [used EXCEPT !.faults = n, !.gap = g] BY <1>2, <1>4 DEF FailsOpen
<1>7. used' \in UsedRec /\ used'.gap = g /\ used'.launches = used.launches /\ used'.lost = used.lost
  BY <1>1, <1>5, <1>6 DEF UsedRec
<1> QED BY <1>5, <1>7

LEMMA VerdictOK ==
  ASSUME IInv, NEW l
  PROVE  Verdict \in SaidRec /\ SaidOK(Verdict, l)
<1>1. job \in JobRec /\ job.status # "VERIFIED_REMOVED" /\ Earned(job.status, job.before, job.live) BY Start DEF JobOK
<1>2. PICK v : v = Verdict OBVIOUS
<1>3. v = [kind |-> job.kind, id |-> job.id, status |-> job.status, boot |-> job.before, live |-> job.live]
  BY <1>2 DEF Verdict, Says, Silent
<1>4. v \in SaidRec /\ v.status = job.status /\ v.boot = job.before /\ v.live = job.live BY <1>1, <1>3 DEF SaidRec, JobRec
<1> QED BY <1>1, <1>2, <1>4 DEF SaidOK

LEMMA RevokeQuietlyKeeps ==
  ASSUME IInv, revoke_quietly
  PROVE  IInv'
<1>1. job.pc = "revoke" /\ UNCHANGED outside /\ Go("close") BY DEF revoke_quietly
<1>2. /\ job.pc \in ArmPcs /\ (stamp.authorized => stamp.id = job.id) /\ job \in JobRec
      /\ job.status # "VERIFIED_REMOVED" /\ Earned(job.status, job.before, job.live)
  BY <1>1, Start DEF ArmPcs, JobOK, StampOK
<1>3. "close" \in Pcs /\ "FAILED" \in Plain BY DEF Pcs, Plain, Statuses
<1>4. /\ job' \in JobRec /\ job'.pc = "close" /\ job'.id = job.id /\ job'.todo = job.todo /\ job'.kind = job.kind
      /\ job'.status = job.status /\ job'.before = job.before /\ job'.live = job.live
  BY <1>1, <1>2, <1>3, GoFields
<1>5. CASE /\ Works /\ lab' = Shut(job.id)
           /\ stamp' = [stamp EXCEPT !.authorized = FALSE] /\ said' = Verdict
  <2>1. /\ lab' \in [Ids -> LabRec] /\ LabKept
        /\ \A i \in Ids \ {job.id} : lab'[i].ingress => lab[i].ingress
        /\ ~lab'[job.id].ingress
    BY <1>5, RuleChanges
  <2>2. stamp' \in StampRec /\ ~stamp'.authorized BY <1>5, Start DEF StampRec
  <2>3. said' \in SaidRec /\ SaidOK(said', lab') BY <1>5, VerdictOK
  <2>4. used' \in UsedRec /\ used' = used BY <1>5, Start DEF Works
  <2> QED BY <1>1, <1>2, <1>4, <2>1, <2>2, <2>3, <2>4, SessionKeeps
<1>6. CASE /\ FailsOpen /\ UNCHANGED <<lab, stamp>>
           /\ said' = IF job.battery \in Simple THEN Says("FAILED") ELSE Verdict
  <2>1. /\ used' \in UsedRec /\ used'.launches = used.launches /\ used'.lost = used.lost /\ (used.gap => used'.gap)
        /\ lab[job.id].ingress => used'.gap \/ stamp.authorized
    BY <1>6, OpenCount
  <2>2. said' \in SaidRec /\ SaidOK(said', lab')
    <3>1. job.kind \in JobKinds /\ job.id \in Ids BY <1>2 DEF JobRec
    <3>2. Says("FAILED") \in SaidRec /\ SaidOK(Says("FAILED"), lab') BY <1>3, <3>1, SaysOK DEF Says
    <3> QED BY <1>6, <3>2, VerdictOK
  <2>3. lab' \in [Ids -> LabRec] /\ LabKept /\ stamp' \in StampRec BY <1>6, KeptSame, Start
  <2> QED BY <1>1, <1>2, <1>4, <1>6, <2>1, <2>2, <2>3, SessionKeeps
<1> QED BY <1>5, <1>6 DEF revoke_quietly

LEMMA CloseSshKeeps ==
  ASSUME IInv, close_ssh
  PROVE  IInv'
<1>1. job.pc = "close" /\ UNCHANGED outside /\ UNCHANGED said BY DEF close_ssh
<1>2. (stamp.authorized => stamp.id = job.id) /\ job \in JobRec /\ said' \in SaidRec /\ used \in UsedRec
  BY <1>1, Start DEF StampOK
<1>3. CASE ~stamp.authorized
  <2>1. job' = Idle /\ stamp' = NoStamp /\ used' = used /\ lab' = lab BY <1>3 DEF close_ssh, Works
  <2>2. LabKept /\ lab' \in [Ids -> LabRec] /\ SaidOK(said', lab') BY <1>1, <2>1, KeptSame, Start
  <2>3. RuleHasCloser' BY <1>1, <1>3, <2>1 DEF IInv, RuleHasCloser
  <2> QED BY <1>1, <1>2, <2>1, <2>2, <2>3, IdleOK, OnKeeps
<1>4. CASE stamp.authorized /\ Works /\ lab' = Shut(stamp.id) /\ stamp' = [stamp EXCEPT !.authorized = FALSE] /\ UNCHANGED job
  <2>1. /\ lab' \in [Ids -> LabRec] /\ LabKept
        /\ \A i \in Ids \ {job.id} : lab'[i].ingress => lab[i].ingress
        /\ ~lab'[job.id].ingress
    BY <1>2, <1>4, RuleChanges
  <2>2. stamp' \in StampRec /\ ~stamp'.authorized /\ used' = used BY <1>4, Start DEF StampRec, Works
  <2>3. SaidOK(said', lab') BY <1>1, <2>1, <2>2, LabStays
  <2>4. job.todo = {} /\ (job.kind = "teardown" => lab'[job.id].inst # "none")
    BY <1>1, <2>1, Start DEF JobOK, LabKept, Kept
  <2>5. JobOK(job', lab', used'.launches) BY <1>1, <1>4, <2>4, Start DEF JobOK
  <2>6. StampOK(stamp', job') BY <2>2 DEF StampOK
  <2>7. RuleHasCloser'
    <3> SUFFICES ASSUME NEW i \in Ids, lab'[i].ingress
                 PROVE  used'.lost \/ used'.gap
      BY DEF RuleHasCloser
    <3>1. i # job.id /\ lab[i].ingress BY <2>1
    <3>2. stamp # [authorized |-> TRUE, id |-> i] BY <1>2, <1>4, <3>1
    <3> QED BY <1>1, <2>2, <3>1, <3>2 DEF IInv, RuleHasCloser
  <2> QED BY <1>1, <1>2, <1>4, <2>1, <2>2, <2>3, <2>5, <2>6, <2>7, OnKeeps
<1>5. CASE used' = [used EXCEPT !.lost = TRUE] /\ job' = Idle /\ stamp' = NoStamp /\ UNCHANGED lab
  <2>1. used' \in UsedRec /\ used'.launches = used.launches /\ used'.lost /\ used'.gap = used.gap BY <1>2, <1>5 DEF UsedRec
  <2>2. LabKept /\ lab' \in [Ids -> LabRec] /\ SaidOK(said', lab') BY <1>1, <1>5, KeptSame, Start
  <2> QED BY <1>1, <1>2, <1>5, <2>1, <2>2, EndKeeps
<1> QED BY <1>3, <1>4, <1>5 DEF close_ssh

LEMMA StepKilledKeeps ==
  ASSUME IInv, StepKilled
  PROVE  IInv'
<1>1. job.pc \in ArmPcs /\ UNCHANGED outside /\ UNCHANGED <<lab, stamp>> /\ Go("close") /\ said' = Says("KILLED") /\ FailsOpen
  BY DEF StepKilled
<1>2. /\ (stamp.authorized => stamp.id = job.id) /\ job \in JobRec
      /\ job.status # "VERIFIED_REMOVED" /\ Earned(job.status, job.before, job.live)
  BY <1>1, Start DEF JobOK, StampOK
<1>3. "close" \in Pcs /\ "KILLED" \in Plain BY DEF Pcs, Plain, Statuses
<1>4. /\ job' \in JobRec /\ job'.pc = "close" /\ job'.id = job.id /\ job'.todo = job.todo /\ job'.kind = job.kind
      /\ job'.status = job.status /\ job'.before = job.before /\ job'.live = job.live
  BY <1>1, <1>2, <1>3, GoFields
<1>5. /\ used' \in UsedRec /\ used'.launches = used.launches /\ used'.lost = used.lost /\ (used.gap => used'.gap)
      /\ lab[job.id].ingress => used'.gap \/ stamp.authorized
  BY <1>1, OpenCount
<1>6. said' \in SaidRec /\ SaidOK(said', lab')
  <2>1. job.kind \in JobKinds /\ job.id \in Ids BY <1>2 DEF JobRec
  <2> QED BY <1>1, <1>3, <2>1, SaysOK DEF Says
<1>7. lab' \in [Ids -> LabRec] /\ LabKept /\ stamp' \in StampRec BY <1>1, KeptSame, Start
<1> QED BY <1>1, <1>2, <1>4, <1>5, <1>6, <1>7, SessionKeeps

LEMMA RunnerLostKeeps ==
  ASSUME IInv, RunnerLost
  PROVE  IInv'
<1>1. UNCHANGED outside /\ UNCHANGED lab /\ job' = Idle /\ stamp' = NoStamp /\ said' = Says("LOST") BY DEF RunnerLost, Finish
<1>2. used \in UsedRec BY Start
<1>3. PICK n \in Nat : n = used.faults + 1 BY <1>2 DEF UsedRec
<1>4. used' = [used EXCEPT !.faults = n, !.lost = TRUE] BY <1>3 DEF RunnerLost
<1>5. used' \in UsedRec /\ used'.launches = used.launches /\ used'.lost /\ used'.gap = used.gap BY <1>2, <1>4 DEF UsedRec
<1>6. "LOST" \in Plain /\ job.kind \in JobKinds /\ job.id \in Ids BY Start DEF Plain, Statuses, JobRec
<1>7. said' \in SaidRec /\ SaidOK(said', lab') BY <1>1, <1>6, SaysOK DEF Says
<1>8. lab' \in [Ids -> LabRec] /\ LabKept BY <1>1, KeptSame, Start
<1> QED BY <1>1, <1>5, <1>7, <1>8, EndKeeps

-----------------------------------------------------------------------------
(* sweep, teardown and verify.                                             *)

LEMMA ResourceType ==
  ASSUME IInv, NEW t \in Kinds, NEW i \in Ids
  PROVE  /\ Resource(t, i) \in Resources /\ Resource(t, i).type = t /\ Resource(t, i).id = i
         /\ Resource(t, i).soak = lab[i].soak
<1>1. lab[i] \in LabRec BY Start
<1> QED BY <1>1 DEF Resource, Resources, LabRec

LEMMA CensusType ==
  ASSUME IInv
  PROVE  \A r \in census_from_aws : r \in Resources /\ r.soak = lab[r.id].soak
<1> SUFFICES ASSUME NEW r \in census_from_aws PROVE r \in Resources /\ r.soak = lab[r.id].soak OBVIOUS
<1>1. PICK e \in Kinds \X Ids : r = Resource(e[1], e[2]) BY DEF census_from_aws
<1>2. e[1] \in Kinds /\ e[2] \in Ids OBVIOUS
<1> QED BY <1>1, <1>2, ResourceType

LEMMA CensusComplete ==
  ASSUME IInv, NEW t \in Kinds, NEW i \in Ids, Exists(t, i)
  PROVE  Resource(t, i) \in census_from_aws
<1>1. PICK e : e = <<t, i>> OBVIOUS
<1>2. e \in Kinds \X Ids /\ e[1] = t /\ e[2] = i BY <1>1
<1>3. e \in {x \in Kinds \X Ids : Exists(x[1], x[2])} BY <1>2
<1> QED BY <1>2, <1>3 DEF census_from_aws

(* A removal that is said to be verified is one.                           *)
LEMMA RemovalIsTrue ==
  ASSUME IInv, NEW i \in Ids, NEW named \in BOOLEAN, lab[i].inst # "none", named => i \in Labs
  PROVE  /\ Removal(i, named) \in {"NOT_OWNED", "VERIFIED_REMOVED", "INSTANCE_ABSENT", "NOT_REMOVED"}
         /\ Removal(i, named) = "VERIFIED_REMOVED" =>
              lab[i].inst \in {"terminated", "gone"} /\ lab[i].vol = "none" /\ ~lab[i].sg
<1>1. Removal(i, named) \in {"NOT_OWNED", "VERIFIED_REMOVED", "INSTANCE_ABSENT", "NOT_REMOVED"} BY DEF Removal
<1>2. ASSUME Removal(i, named) = "VERIFIED_REMOVED"
      PROVE  lab[i].inst \in {"terminated", "gone"} /\ lab[i].vol = "none" /\ ~lab[i].sg
  <2> DEFINE leftovers == {r \in related_owned(i) : ~(r.type = "instance" /\ lab[i].inst = "terminated")}
  <2>1. \/ Visible(i) /\ owned(i) /\ lab[i].inst = "terminated" /\ leftovers = {}
        \/ ~Visible(i) /\ named /\ related_owned(i) = {}
    BY <1>2 DEF Removal
  <2>2. owned(i) BY <2>1 DEF owned, Labs, Fixture
  <2>3. lab[i].inst \in {"terminated", "gone"}
    <3>1. lab[i].inst \in Insts BY Start DEF LabRec
    <3> QED BY <2>1, <3>1 DEF Visible, Occupying, Insts
  <2>4. \A t \in {"volume", "sg"} : ~Exists(t, i)
    <3> SUFFICES ASSUME NEW t \in {"volume", "sg"}, Exists(t, i) PROVE FALSE OBVIOUS
    <3>1. t \in Kinds BY DEF Kinds
    <3>2. Resource(t, i) \in census_from_aws /\ Resource(t, i).type = t /\ Resource(t, i).id = i
      BY <3>1, CensusComplete, ResourceType
    <3>3. Resource(t, i) \in related_owned(i) BY <2>2, <3>2 DEF related_owned
    <3>4. Resource(t, i) \in leftovers BY <3>2, <3>3
    <3> QED BY <2>1, <3>3, <3>4
  <2>5. lab[i].vol = "none" /\ ~lab[i].sg BY <2>4 DEF Exists
  <2> QED BY <2>3, <2>5
<1> QED BY <1>1, <1>2

LEMMA RemovalOK ==
  ASSUME IInv, NEW k \in JobKinds, NEW i \in Ids, NEW named \in BOOLEAN, lab[i].inst # "none", named => i \in Labs,
         NEW s, s = Removal(i, named), NEW m, m = [Silent EXCEPT !.kind = k, !.id = i, !.status = s]
  PROVE  m \in SaidRec /\ SaidOK(m, lab)
<1>1. /\ s \in {"NOT_OWNED", "VERIFIED_REMOVED", "INSTANCE_ABSENT", "NOT_REMOVED"}
      /\ s = "VERIFIED_REMOVED" => lab[i].inst \in {"terminated", "gone"} /\ lab[i].vol = "none" /\ ~lab[i].sg
  BY RemovalIsTrue
<1>2. s \in Statuses BY <1>1 DEF Statuses
<1>3. m.status = s /\ m.id = i BY DEF Silent
<1>4. m \in SaidRec BY <1>2 DEF SaidRec, Silent
<1> QED BY <1>1, <1>3, <1>4 DEF SaidOK, Earned

LEMMA ExecuteVerifyKeeps ==
  ASSUME IInv, NEW i \in Named, execute_verify(i)
  PROVE  IInv'
<1>1. /\ job = Idle /\ UNCHANGED <<outside, lab, stamp>> /\ UNCHANGED job
      /\ used' \in UsedRec /\ used'.launches = used.launches /\ used'.lost = used.lost /\ used'.gap = used.gap
  BY JobCount DEF execute_verify, Dispatch
<1>2. "verify" \in JobKinds /\ i \in Ids /\ lab[i].inst # "none" BY DEF JobKinds, AllJobs, Named
<1>3. said' \in SaidRec /\ SaidOK(said', lab) BY <1>2, RemovalOK DEF execute_verify
<1> QED BY <1>1, <1>3, Start, BeginKeeps

LEMMA ExecuteSweepKeeps ==
  ASSUME IInv, execute_sweep
  PROVE  IInv'
<1>1. job = Idle /\ UNCHANGED <<outside, lab, stamp>> /\ UNCHANGED <<said, used>> BY DEF execute_sweep
<1>2. PICK todo : todo = {r \in census_from_aws : sweeper_action(r, now) \in DELETE_ACTIONS} OBVIOUS
<1>3. job' = [Idle EXCEPT !.kind = "sweep", !.pc = "delete", !.todo = todo] BY <1>2 DEF execute_sweep
<1>4. todo \in SUBSET Resources /\ \A r \in todo : ~lab[r.id].soak
  <2>1. \A r \in todo : r \in Resources /\ r.soak = lab[r.id].soak BY <1>2, CensusType
  <2>2. \A r \in todo : ~r.soak
    <3> SUFFICES ASSUME NEW r \in todo, r.soak PROVE FALSE OBVIOUS
    <3>1. sweeper_action(r, now) \in {"skip_not_owned", "keep_soak"}
      <4>1. CASE ~owned(r.id) BY <4>1 DEF sweeper_action
      <4>2. CASE owned(r.id) BY <4>2 DEF sweeper_action
      <4> QED BY <4>1, <4>2
    <3> QED BY <1>2, <3>1 DEF DELETE_ACTIONS
  <2> QED BY <2>1, <2>2
<1>5. job' \in JobRec BY <1>3, <1>4, IdleOK DEF JobRec, JobKinds, Pcs
<1>6. job'.kind = "sweep" /\ job'.pc = "delete" /\ job'.todo = todo /\ job'.status = "none" BY <1>3 DEF Idle
<1>7. JobOK(job', lab, used.launches) BY <1>4, <1>6 DEF JobOK, Earned
<1> QED BY <1>1, <1>5, <1>7, Start, BeginKeeps

LEMMA BeginTeardownKeeps ==
  ASSUME IInv, NEW i \in Named, BeginTeardown(i)
  PROVE  IInv'
<1>1. /\ job = Idle /\ UNCHANGED <<outside, lab, stamp>>
      /\ used' \in UsedRec /\ used'.launches = used.launches /\ used'.lost = used.lost /\ used'.gap = used.gap
  BY JobCount DEF BeginTeardown, Dispatch
<1>2. "teardown" \in JobKinds /\ i \in Ids /\ lab[i].inst # "none" /\ "instance" \in Kinds
  BY DEF JobKinds, AllJobs, Named, Kinds
<1>3. CASE \E s \in {"NOT_FOUND", "NOT_OWNED", "REFUSED_SOAK"} :
             said' = [Silent EXCEPT !.kind = "teardown", !.id = i, !.status = s] /\ UNCHANGED job
  <2>1. PICK s \in {"NOT_FOUND", "NOT_OWNED", "REFUSED_SOAK"} :
             said' = [Silent EXCEPT !.kind = "teardown", !.id = i, !.status = s] /\ UNCHANGED job
    BY <1>3
  <2>2. s \in Plain BY DEF Plain, Statuses
  <2>3. said' \in SaidRec /\ SaidOK(said', lab) BY <1>2, <2>1, <2>2, SaysOK
  <2> QED BY <1>1, <2>1, <2>3, Start, BeginKeeps
<1>4. CASE \E p \in {"census", "delete"}, todo \in {{}, {Resource("instance", i)}} :
             /\ job' = [Idle EXCEPT !.kind = "teardown", !.pc = p, !.id = i, !.todo = todo] /\ UNCHANGED said
             /\ todo # {} => p = "delete" /\ (lab[i].soak => i \in FounderClosed)
  <2>1. PICK p \in {"census", "delete"}, todo \in {{}, {Resource("instance", i)}} :
             /\ job' = [Idle EXCEPT !.kind = "teardown", !.pc = p, !.id = i, !.todo = todo] /\ UNCHANGED said
             /\ todo # {} => p = "delete" /\ (lab[i].soak => i \in FounderClosed)
    BY <1>4
  <2>2. \A r \in todo : r \in Resources /\ r.id = i /\ r = Resource("instance", i) BY <1>2, ResourceType
  <2>3. todo \in SUBSET Resources /\ \A r, s \in todo : r = s BY <2>2
  <2>4. job' \in JobRec BY <1>2, <2>1, <2>3, IdleOK DEF JobRec, Pcs
  <2>5. job'.kind = "teardown" /\ job'.pc = p /\ job'.id = i /\ job'.todo = todo /\ job'.status = "none"
    BY <2>1 DEF Idle
  <2>6. JobOK(job', lab, used.launches) BY <1>2, <2>1, <2>2, <2>3, <2>5 DEF JobOK, Earned
  <2> QED BY <1>1, <2>1, <2>4, <2>6, Start, BeginKeeps
<1>5. \/ \E s \in {"NOT_FOUND", "NOT_OWNED", "REFUSED_SOAK"} :
           said' = [Silent EXCEPT !.kind = "teardown", !.id = i, !.status = s] /\ UNCHANGED job
      \/ /\ \/ job' = [Idle EXCEPT !.kind = "teardown", !.pc = "census", !.id = i, !.todo = {}]
            \/ /\ job' = [Idle EXCEPT !.kind = "teardown", !.pc = "delete", !.id = i, !.todo = {Resource("instance", i)}]
               /\ ~(lab[i].soak /\ i \notin FounderClosed)
         /\ UNCHANGED said
  BY DEF BeginTeardown
<1> QED BY <1>3, <1>4, <1>5

(* A step of the list: it takes from the list, or leaves the host to stop. *)
LEMMA ListKeeps ==
  ASSUME IInv, job.pc \in {"delete", "wait", "census"}, UNCHANGED <<outside, stamp, said, used>>,
         lab' \in [Ids -> LabRec], LabKept, \A i \in Ids : lab'[i].ingress => lab[i].ingress,
         NEW p \in {"delete", "wait", "census"}, NEW todo \in SUBSET Resources,
         job' = [job EXCEPT !.todo = todo, !.pc = p],
         p = "census" => todo = {},
         p = "wait" /\ job.kind = "teardown" => \A r \in todo : r.type = "instance",
         \A r \in todo : r \in job.todo \/ r.type # "instance",
         \A r, s \in todo : r.type = "instance" /\ job.kind = "teardown" => s = r
  PROVE  IInv'
<1>1. job \in JobRec /\ job.id \in Ids /\ \A r \in job.todo : r \in Resources BY Start DEF JobRec
<1>2. /\ job' \in JobRec /\ job'.pc = p /\ job'.todo = todo /\ job'.id = job.id /\ job'.kind = job.kind
      /\ job'.status = job.status /\ job'.before = job.before /\ job'.live = job.live
  BY <1>1 DEF JobRec, Pcs
<1>3. job.status = "none" BY Start DEF JobOK
<1>4. \A r \in job.todo : lab'[r.id].soak = lab[r.id].soak BY <1>1 DEF LabKept, Kept, Resources
<1>5. \A r \in todo : r.type = "instance" =>
        \/ job.kind = "sweep" /\ ~lab'[r.id].soak
        \/ job.kind = "teardown" /\ r.id = job.id /\ (lab'[r.id].soak => r.id \in FounderClosed)
  BY <1>4, Start DEF JobOK
<1>6. job.kind = "teardown" => lab'[job.id].inst # "none" BY <1>1, Start DEF JobOK, LabKept, Kept
<1>7. JobOK(job', lab', used'.launches) BY <1>2, <1>3, <1>5, <1>6 DEF JobOK, Earned
<1>8. ~stamp.authorized BY Start DEF StampOK, ArmPcs
<1>9. StampOK(stamp', job') BY <1>8 DEF StampOK
<1>10. SaidOK(said', lab') BY LabStays
<1>11. RuleHasCloser' BY DEF IInv, RuleHasCloser
<1>12. UNCHANGED outside OBVIOUS
<1> QED BY <1>2, <1>7, <1>9, <1>10, <1>11, <1>12, Start, OnKeeps

LEMMA ExecuteTeardownKeeps ==
  ASSUME IInv, execute_teardown
  PROVE  IInv'
<1>1. job.pc = "census" /\ UNCHANGED <<outside, stamp, said, used>> /\ UNCHANGED lab BY DEF execute_teardown
<1>2. PICK todo : todo = {r \in related_owned(job.id) : r.type # "instance"} OBVIOUS
<1>3. job' = [job EXCEPT !.todo = todo, !.pc = "delete"] BY <1>2, Start DEF execute_teardown, JobRec
<1>4. todo \in SUBSET Resources /\ \A r \in todo : r.type # "instance" BY <1>2, CensusType DEF related_owned
<1>5. LabKept /\ lab' \in [Ids -> LabRec] BY <1>1, KeptSame, Start
<1> QED BY <1>1, <1>3, <1>4, <1>5, ListKeeps

LEMMA DeleteResourceKeeps ==
  ASSUME IInv, delete_resource
  PROVE  IInv'
<1>1. job.pc = "delete" /\ UNCHANGED outside /\ "FAILED" \in Plain /\ job.pc \notin Closers \cup {"close"} /\ job \in JobRec
  BY Start DEF delete_resource, Plain, Statuses, Closers
<1>2. PICK r \in job.todo :
        \/ /\ r.type = "instance" /\ Works
           /\ lab' = [lab EXCEPT ![r.id].inst = IF @ = "running" THEN "shutting-down" ELSE @]
           /\ Go("wait") /\ Keep
        \/ /\ r.type = "volume" /\ Works
           /\ lab' = [lab EXCEPT ![r.id].vol = "none"] /\ job' = [job EXCEPT !.todo = Rest(r), !.pc = "delete"] /\ Keep
        \/ /\ r.type = "sg" /\ ~Attached(r.id) /\ Works
           /\ lab' = [lab EXCEPT ![r.id].sg = FALSE, ![r.id].ingress = FALSE]
           /\ job' = [job EXCEPT !.todo = Rest(r), !.pc = "delete"] /\ Keep
        \/ (Works \/ Fails) /\ Abort("FAILED")
  BY DEF delete_resource
<1>3. r \in Resources /\ r.id \in Ids /\ job.todo \in SUBSET Resources BY <1>1 DEF JobRec, Resources
<1>4. lab \in [Ids -> LabRec] /\ Rest(r) \subseteq job.todo /\ Rest(r) \in SUBSET Resources BY <1>3, Start DEF Rest
<1>5. \A s, t \in job.todo : s.type = "instance" /\ job.kind = "teardown" => t = s BY Start DEF JobOK
<1>6. CASE (Works \/ Fails) /\ Abort("FAILED") BY <1>1, <1>6, AbortKeeps
<1>7. CASE /\ r.type = "instance" /\ Works
           /\ lab' = [lab EXCEPT ![r.id].inst = IF @ = "running" THEN "shutting-down" ELSE @]
           /\ Go("wait") /\ Keep
  <2>1. PICK l : /\ l = [lab[r.id] EXCEPT !.inst = IF @ = "running" THEN "shutting-down" ELSE @]
                 /\ lab' = [lab EXCEPT ![r.id] = l]
    BY <1>7
  <2>2. l \in LabRec /\ Kept(lab[r.id], l) /\ l.ingress = lab[r.id].ingress BY <1>3, <2>1, Stopping
  <2>3. lab' \in [Ids -> LabRec] /\ lab'[r.id] = l /\ (\A k \in Ids \ {r.id} : lab'[k] = lab[k]) /\ LabKept
    BY <1>3, <2>1, <2>2, OneLabChanges
  <2>4. job' = [job EXCEPT !.todo = job.todo, !.pc = "wait"] BY <1>1, <1>7 DEF Go, JobRec
  <2>5. \A i \in Ids : lab'[i].ingress => lab[i].ingress BY <2>2, <2>3
  <2>6. UNCHANGED <<outside, stamp, said, used>> BY <1>1, <1>7 DEF Keep, Works
  <2>7. job.kind = "teardown" => \A s \in job.todo : s.type = "instance" BY <1>5, <1>7
  <2> QED BY <1>1, <1>3, <1>5, <2>3, <2>4, <2>5, <2>6, <2>7, ListKeeps
<1>8. CASE /\ r.type = "volume" /\ Works
           /\ lab' = [lab EXCEPT ![r.id].vol = "none"] /\ job' = [job EXCEPT !.todo = Rest(r), !.pc = "delete"] /\ Keep
  <2>1. PICK l : l = [lab[r.id] EXCEPT !.vol = "none"] /\ lab' = [lab EXCEPT ![r.id] = l] BY <1>8
  <2>2. l \in LabRec /\ Kept(lab[r.id], l) /\ l.ingress = lab[r.id].ingress BY <1>3, <2>1, VolumeDeleted
  <2>3. lab' \in [Ids -> LabRec] /\ lab'[r.id] = l /\ (\A k \in Ids \ {r.id} : lab'[k] = lab[k]) /\ LabKept
    BY <1>3, <2>1, <2>2, OneLabChanges
  <2>4. \A i \in Ids : lab'[i].ingress => lab[i].ingress BY <2>2, <2>3
  <2>5. UNCHANGED <<outside, stamp, said, used>> BY <1>1, <1>8 DEF Keep, Works
  <2> QED BY <1>1, <1>4, <1>5, <1>8, <2>3, <2>4, <2>5, ListKeeps
<1>9. CASE /\ r.type = "sg" /\ ~Attached(r.id) /\ Works
           /\ lab' = [lab EXCEPT ![r.id].sg = FALSE, ![r.id].ingress = FALSE]
           /\ job' = [job EXCEPT !.todo = Rest(r), !.pc = "delete"] /\ Keep
  <2>1. PICK l : l = [lab[r.id] EXCEPT !.sg = FALSE, !.ingress = FALSE] /\ lab' = [lab EXCEPT ![r.id] = l]
    BY <1>3, <1>4, <1>9
  <2>2. l \in LabRec /\ Kept(lab[r.id], l) /\ l.ingress = FALSE BY <1>3, <1>9, <2>1, GroupDeleted
  <2>3. lab' \in [Ids -> LabRec] /\ lab'[r.id] = l /\ (\A k \in Ids \ {r.id} : lab'[k] = lab[k]) /\ LabKept
    BY <1>3, <2>1, <2>2, OneLabChanges
  <2>4. \A i \in Ids : lab'[i].ingress => lab[i].ingress BY <2>2, <2>3
  <2>5. UNCHANGED <<outside, stamp, said, used>> BY <1>1, <1>9 DEF Keep, Works
  <2> QED BY <1>1, <1>4, <1>5, <1>9, <2>3, <2>4, <2>5, ListKeeps
<1> QED BY <1>2, <1>6, <1>7, <1>8, <1>9

LEMMA WaitTerminatedKeeps ==
  ASSUME IInv, wait_terminated
  PROVE  IInv'
<1>1. job.pc = "wait" /\ UNCHANGED outside /\ "FAILED" \in Plain /\ job.pc \notin Closers \cup {"close"} /\ job \in JobRec
  BY Start DEF wait_terminated, Plain, Statuses, Closers
<1>2. PICK r \in job.todo :
        \/ /\ Works /\ Keep /\ UNCHANGED lab
           /\ job' = [job EXCEPT !.todo = Rest(r), !.pc = IF job.kind = "teardown" THEN "census" ELSE "delete"]
        \/ (Works \/ Fails) /\ Abort("FAILED")
  BY DEF wait_terminated
<1>3. job.todo \in SUBSET Resources BY <1>1 DEF JobRec
<1>4. Rest(r) \subseteq job.todo /\ Rest(r) \in SUBSET Resources BY <1>3 DEF Rest
<1>5. \A s, t \in job.todo : s.type = "instance" /\ job.kind = "teardown" => t = s BY Start DEF JobOK
<1>6. CASE (Works \/ Fails) /\ Abort("FAILED") BY <1>1, <1>6, AbortKeeps
<1>7. CASE /\ Works /\ Keep /\ UNCHANGED lab
           /\ job' = [job EXCEPT !.todo = Rest(r), !.pc = IF job.kind = "teardown" THEN "census" ELSE "delete"]
  <2>1. PICK p \in {"delete", "wait", "census"} : p = IF job.kind = "teardown" THEN "census" ELSE "delete" OBVIOUS
  <2>2. job.kind = "teardown" => Rest(r) = {}
    <3>1. job.kind = "teardown" => r.type = "instance" BY <1>1, Start DEF JobOK
    <3> QED BY <1>5, <3>1 DEF Rest
  <2>3. p = "census" => Rest(r) = {} BY <2>1, <2>2
  <2>4. job' = [job EXCEPT !.todo = Rest(r), !.pc = p] /\ p # "wait" BY <1>7, <2>1
  <2>5. UNCHANGED <<outside, stamp, said, used>> BY <1>1, <1>7 DEF Keep, Works
  <2>6. LabKept /\ lab' \in [Ids -> LabRec] BY <1>7, KeptSame, Start
  <2>7. \A i \in Ids : lab'[i].ingress => lab[i].ingress BY <1>7
  <2>8. job.pc \in {"delete", "wait", "census"} BY <1>1
  <2>9. PICK todo \in SUBSET Resources : todo = Rest(r) BY <1>4
  <2>10. /\ \A t \in todo : t \in job.todo
         /\ \A t, u \in todo : t.type = "instance" /\ job.kind = "teardown" => u = t
    BY <1>4, <1>5, <2>9
  <2> QED BY <2>3, <2>4, <2>5, <2>6, <2>7, <2>8, <2>9, <2>10, ListKeeps
<1> QED BY <1>2, <1>6, <1>7

LEMMA EndOfListKeeps ==
  ASSUME IInv, EndOfList
  PROVE  IInv'
<1>1. job.pc = "delete" /\ UNCHANGED outside /\ Works /\ job.pc \notin Closers \cup {"close"} BY DEF EndOfList, Closers
<1>2. CASE Abort("SWEPT")
  <2>1. "SWEPT" \in Plain BY DEF Plain, Statuses
  <2> QED BY <1>1, <1>2, <2>1, AbortKeeps
<1>3. CASE job.kind = "teardown" /\ Abort(Removal(job.id, job.id \in FounderClosed))
  <2>1. PICK s : s = Removal(job.id, job.id \in FounderClosed) /\ Abort(s) BY <1>3
  <2>2. UNCHANGED lab /\ job' = Idle /\ stamp' = NoStamp /\ said' = Says(s) BY <2>1 DEF Abort, Finish
  <2>3. job.kind \in JobKinds /\ job.id \in Ids /\ lab[job.id].inst # "none" BY <1>3, Start DEF JobRec, JobOK
  <2>4. (job.id \in FounderClosed) => job.id \in Labs BY LabAssumption DEF Labs
  <2>8. (job.id \in FounderClosed) \in BOOLEAN OBVIOUS
  <2>5. said' \in SaidRec /\ SaidOK(said', lab) BY <2>1, <2>2, <2>3, <2>4, <2>8, RemovalOK DEF Says
  <2>6. LabKept /\ lab' \in [Ids -> LabRec] BY <2>2, KeptSame, Start
  <2>7. used' \in UsedRec /\ used' = used BY <1>1, Start DEF Works
  <2> QED BY <1>1, <2>2, <2>5, <2>6, <2>7, EndKeeps
<1> QED BY <1>2, <1>3 DEF EndOfList

-----------------------------------------------------------------------------
(* The induction.                                                          *)

LEMMA InitIInv == Init => IInv
<1> SUFFICES ASSUME Init PROVE IInv OBVIOUS
<1>1. PICK up \in BOOLEAN : /\ lab = [i \in Ids |-> IF i = Fixture /\ up THEN FixtureUp ELSE NoLab]
                            /\ eip = IF up THEN "associated" ELSE "none"
  BY DEF Init
<1>2. /\ NoLab \in LabRec /\ NoLab.inst = "none" /\ ~NoLab.ingress
      /\ NoLab.rows = NoRows /\ NoRows \in RowsRec
  BY DEF NoLab, LabRec, Insts, Vols, Hours, NoRows, RowsRec
<1>3. FixtureUp \in LabRec /\ FixtureUp.inst = "running" /\ FixtureUp.sg /\ ~FixtureUp.ingress
  BY <1>2 DEF FixtureUp, LabRec, Insts, Vols
<1>4. /\ lab \in [Ids -> LabRec] /\ \A i \in Ids : lab[i] = FixtureUp \/ lab[i] = NoLab
      /\ \A i \in Ids : i # Fixture => lab[i] = NoLab
  BY <1>1, <1>2, <1>3
<1>5. /\ now = 0 /\ job = Idle /\ stamp = NoStamp /\ said = Silent /\ ver = NoVer /\ used.launches = 0
      /\ used \in UsedRec
  BY DEF Init, UsedRec
<1>6. NoVer \in VerRec /\ NoVer.pc = "idle" BY LabAssumption DEF NoVer, VerRec, Ids
<1>7. WellTyped
  <2>1. now \in 0..MaxNow BY <1>5, LabAssumption
  <2>2. eip \in {"none", "associated", "free", "released"} BY <1>1
  <2> QED BY <2>1, <2>2, <1>4, <1>5, <1>6, IdleOK DEF WellTyped
<1>8. LabInv
  <2>1. \A i \in Ids : Shaped(lab[i]) BY <1>2, <1>3, <1>4 DEF Shaped, Occupying
  <2>2. \A i \in Labs : i \in Ids /\ i # Fixture BY LabAssumption DEF Labs, Ids, Fixture
  <2>3. Alone BY <1>2, <1>4, <2>2 DEF Alone, Occupying
  <2>4. \A i \in Ids : i > 0 => i # Fixture BY DEF Fixture
  <2>5. Fresh BY <1>2, <1>4, <1>5, <2>4 DEF Fresh
  <2> QED BY <2>1, <2>3, <2>5 DEF LabInv
<1>9. VerOK BY <1>5, <1>6 DEF VerOK
<1>10. RuleHasCloser BY <1>2, <1>3, <1>4 DEF RuleHasCloser
<1> QED BY <1>5, <1>7, <1>8, <1>9, <1>10, IdleOK DEF IInv

LEMMA JobStepKeeps ==
  ASSUME IInv, JobStep
  PROVE  IInv'
BY CreateGroupKeeps, DenyDefaultEgressKeeps, ExecuteLaunchKeeps, RollbackKeeps, WriteStampKeeps, OpenSshKeeps,
   RunGuestKeeps, ReleaseSshKeeps, ReopenSshKeeps, ReopenStampKeeps, WaitForRebootKeeps, RunPostKeeps,
   EnterpriseRowsKeeps, RevokeQuietlyKeeps, CloseSshKeeps, ExecuteTeardownKeeps, DeleteResourceKeeps,
   WaitTerminatedKeeps, EndOfListKeeps DEF JobStep

LEMMA NextKeeps ==
  ASSUME IInv, Next
  PROVE  IInv'
<1>1. CASE \E s \in Requests, a \in Accounts : launch_from_env(s, a) BY <1>1, LaunchFromEnvKeeps
<1>2. CASE \E i \in Named, b \in Batteries : BeginArm("arm", i, b) BY <1>2, BeginArmKeeps
<1>3. CASE \E i \in Named : BeginArm("collect", i, "collect") BY <1>3, BeginArmKeeps
<1>4. CASE \E i \in Named : BeginTeardown(i) \/ execute_verify(i) \/ BeginVerification(i)
  BY <1>4, BeginTeardownKeeps, ExecuteVerifyKeeps, BeginVerificationKeeps
<1>5. CASE execute_sweep \/ JobStep \/ StepKilled \/ RunnerLost
  BY <1>5, ExecuteSweepKeeps, JobStepKeeps, StepKilledKeeps, RunnerLostKeeps
<1>6. CASE close_instance \/ wait_instance_terminated \/ close_volume \/ close_eip \/ close_security_group
  BY <1>6, VerificationKeeps
<1>7. CASE Tick BY <1>7, TickKeeps
<1>8. CASE \E i \in Ids : GuestStops(i) \/ Terminates(i) \/ VolumeFollows(i) \/ Forgotten(i) \/ GuestReboots(i)
  BY <1>8, CloudKeeps
<1> QED BY <1>1, <1>2, <1>3, <1>4, <1>5, <1>6, <1>7, <1>8 DEF Next

(* The invariant the theorems below follow from.                           *)
THEOREM Invariance == Spec => []IInv
<1>1. IInv /\ UNCHANGED vars => IInv'
  BY DEF vars, IInv, WellTyped, LabInv, Alone, Fresh, VerOK, RuleHasCloser
<1>2. IInv /\ [Next]_vars => IInv' BY <1>1, NextKeeps
<1> QED BY InitIInv, <1>2, PTL DEF Spec

(* Type correctness, with the shape EC2 enforces: a rule lives in a group, *)
(* and an instance in the slot has the group CreateGroup made before it.   *)
THEOREM TypeCorrect == Spec => []TypeOK
<1>1. IInv => TypeOK
  <2> SUFFICES ASSUME IInv PROVE TypeOK OBVIOUS
  <2>1. \A i \in Ids : lab[i] \in LabRec /\ Shaped(lab[i]) BY Start
  <2>2. \A i \in Ids :
       /\ lab[i].inst \in {"none", "running", "shutting-down", "terminated", "gone"}
       /\ lab[i].vol \in {"none", "in-use", "available"}
       /\ lab[i].ingress => lab[i].sg
       /\ lab[i].inst \in Occupying => lab[i].sg
    BY <2>1 DEF LabRec, Insts, Vols, Shaped
  <2>3. job.kind \in AllJobs \cup {"idle", "sweep"} /\ stamp.id \in Ids BY Start DEF JobRec, JobKinds, StampRec
  <2> QED BY <2>2, <2>3, Start DEF TypeOK
<1> QED BY <1>1, Invariance, PTL

(* One lab at a time: between the census of launch_from_env and            *)
(* RunInstances nothing else can occupy the slot, whatever fails, is lost  *)
(* or is killed, for any number of launches, jobs and faults.              *)
THEOREM OneLabAtATime == Spec => []OneLab
<1>1. IInv => OneLab
  <2> SUFFICES ASSUME IInv PROVE OneLab OBVIOUS
  <2> DEFINE S == {i \in Labs : lab[i].inst \in Occupying}
  <2>1. CASE S = {} BY <2>1, FS_EmptySet DEF OneLab
  <2>2. CASE S # {}
    <3>1. Alone BY DEF IInv, LabInv
    <3>2. PICK i \in S : TRUE BY <2>2
    <3>3. \A k \in S : k = i BY <3>1, <3>2 DEF Alone
    <3>4. S = {i} BY <3>2, <3>3
    <3> QED BY <3>4, FS_Singleton DEF OneLab
  <2> QED BY <2>1, <2>2
<1> QED BY <1>1, Invariance, PTL

(* VERIFIED_REMOVED, of a teardown or of verify-removed, is true from then *)
(* on: no host in the slot, no volume, no group, no rule.                  *)
THEOREM RemovedIsTrue == Spec => []RemovedIsGone
<1>1. IInv => RemovedIsGone
  <2> SUFFICES ASSUME IInv, said.status = "VERIFIED_REMOVED"
               PROVE  /\ lab[said.id].inst \notin Occupying /\ lab[said.id].vol = "none"
                      /\ ~lab[said.id].sg /\ ~lab[said.id].ingress
    BY DEF RemovedIsGone
  <2>1. said.id \in Ids /\ Shaped(lab[said.id]) BY Start DEF SaidRec
  <2>2. lab[said.id].inst \in {"terminated", "gone"} /\ lab[said.id].vol = "none" /\ ~lab[said.id].sg
    BY Start DEF SaidOK
  <2> QED BY <2>1, <2>2 DEF Shaped, Occupying
<1> QED BY <1>1, Invariance, PTL

(* An open ssh rule has someone left who closes it, but for a lost runner, *)
(* a failed close-ssh and the gap of reopen_ssh.                           *)
THEOREM RuleIsClosed == Spec => []RuleHasCloser
<1>1. IInv => RuleHasCloser BY DEF IInv
<1> QED BY <1>1, Invariance, PTL

(* Rows reported as a pass are of the boot the host was in when they were  *)
(* pulled; a reboot check passes only in another boot.                     *)
THEOREM PassIsFresh == Spec => []ArmedIsFresh
<1>1. IInv => ArmedIsFresh BY DEF IInv, SaidOK, Earned, ArmedIsFresh
<1> QED BY <1>1, Invariance, PTL

-----------------------------------------------------------------------------
(* The soak host.                                                          *)

Stays == \A i \in Ids : lab[i].inst = "running" => lab'[i].inst = "running"

LEMMA LabUnchanged ==
  ASSUME UNCHANGED lab PROVE Stays
BY DEF Stays

LEMMA OneFieldStays ==
  ASSUME IInv, NEW i \in Ids, NEW r, lab' = [lab EXCEPT ![i] = r], lab[i].inst = "running" => r.inst = "running"
  PROVE  Stays
<1>1. lab \in [Ids -> LabRec] BY Start
<1>2. lab'[i] = r /\ \A k \in Ids \ {i} : lab'[k] = lab[k] BY <1>1
<1> QED BY <1>2 DEF Stays

(* No step of provision or of a session stops a host.                      *)
LEMMA ProvisionStays ==
  ASSUME IInv, CreateGroup \/ deny_default_egress \/ execute_launch \/ rollback_security_group
  PROVE  Stays
<1>1. job.id \in Ids /\ lab[job.id] \in LabRec /\ lab \in [Ids -> LabRec] BY Start
<1>2. CASE UNCHANGED lab BY <1>2, LabUnchanged
<1>3. CASE job.pc = "create" /\ lab' = [lab EXCEPT ![job.id] = Created(Plan)]
  <2>1. job.id > used.launches BY <1>3, Start DEF JobOK, UsedRec
  <2>2. lab[job.id].inst = "none" BY <1>1, <2>1 DEF IInv, LabInv, Fresh
  <2> QED BY <1>1, <1>3, <2>2, OneFieldStays
<1>4. CASE lab' = [lab EXCEPT ![job.id].egress = FALSE]
  <2>1. PICK r : r = [lab[job.id] EXCEPT !.egress = FALSE] /\ lab' = [lab EXCEPT ![job.id] = r] BY <1>4
  <2>2. r.inst = lab[job.id].inst BY <1>1, <2>1 DEF LabRec
  <2> QED BY <1>1, <2>1, <2>2, OneFieldStays
<1>5. CASE lab' = Launched
  <2>1. PICK r : /\ r = [lab[job.id] EXCEPT !.inst = "running", !.vol = "in-use", !.launched = now]
                 /\ lab' = [lab EXCEPT ![job.id] = r]
    BY <1>1, <1>5 DEF Launched
  <2>2. r.inst = "running" BY <1>1, <2>1 DEF LabRec
  <2> QED BY <1>1, <2>1, <2>2, OneFieldStays
<1>6. CASE lab' = [lab EXCEPT ![job.id].sg = FALSE]
  <2>1. PICK r : r = [lab[job.id] EXCEPT !.sg = FALSE] /\ lab' = [lab EXCEPT ![job.id] = r] BY <1>6
  <2>2. r.inst = lab[job.id].inst BY <1>1, <2>1 DEF LabRec
  <2> QED BY <1>1, <2>1, <2>2, OneFieldStays
<1> QED BY <1>2, <1>3, <1>4, <1>5, <1>6
    DEF CreateGroup, deny_default_egress, execute_launch, rollback_security_group, Abort

LEMMA SessionStays ==
  ASSUME IInv, \/ write_stamp \/ open_ssh \/ run_guest \/ release_ssh \/ reopen_ssh \/ reopen_stamp \/ wait_for_reboot
               \/ run_post \/ execute_enterprise_rows \/ revoke_quietly \/ close_ssh \/ StepKilled \/ RunnerLost
  PROVE  Stays
<1>1. job.id \in Ids /\ lab[job.id] \in LabRec /\ lab \in [Ids -> LabRec] /\ stamp.id \in Ids /\ lab[stamp.id] \in LabRec
  BY Start DEF StampRec
<1>2. CASE UNCHANGED lab BY <1>2, LabUnchanged
<1>3. CASE lab' = Opened
  <2>1. PICK r : r = [lab[job.id] EXCEPT !.ingress = lab[job.id].sg] /\ lab' = [lab EXCEPT ![job.id] = r]
    BY <1>3 DEF Opened
  <2>2. r.inst = lab[job.id].inst BY <1>1, <2>1 DEF LabRec
  <2> QED BY <1>1, <2>1, <2>2, OneFieldStays
<1>4. CASE \E i \in Ids : lab' = Shut(i)
  <2>1. PICK i \in Ids : lab' = Shut(i) BY <1>4
  <2>2. PICK r : r = [lab[i] EXCEPT !.ingress = FALSE] /\ lab' = [lab EXCEPT ![i] = r] BY <2>1 DEF Shut
  <2>3. lab[i] \in LabRec BY Start
  <2>4. r.inst = lab[i].inst BY <2>2, <2>3 DEF LabRec
  <2> QED BY <2>2, <2>4, OneFieldStays
<1>5. CASE \E rows : lab' = [lab EXCEPT ![job.id].rows = rows, ![job.id].due = job.battery \in Reboots]
  <2>1. PICK rows : lab' = [lab EXCEPT ![job.id].rows = rows, ![job.id].due = job.battery \in Reboots] BY <1>5
  <2>2. PICK r : /\ r = [lab[job.id] EXCEPT !.rows = rows, !.due = job.battery \in Reboots]
                 /\ lab' = [lab EXCEPT ![job.id] = r]
    BY <1>1, <2>1
  <2>3. r.inst = lab[job.id].inst BY <1>1, <2>2 DEF LabRec
  <2> QED BY <1>1, <2>2, <2>3, OneFieldStays
<1>6. CASE lab' = [lab EXCEPT ![job.id].rows.boot = lab[job.id].boot, ![job.id].rows.pass = TRUE]
  <2>1. PICK rows : rows = [lab[job.id].rows EXCEPT !.boot = lab[job.id].boot, !.pass = TRUE] OBVIOUS
  <2>2. PICK r : r = [lab[job.id] EXCEPT !.rows = rows] /\ lab' = [lab EXCEPT ![job.id] = r]
    BY <1>1, <1>6, <2>1 DEF LabRec
  <2>3. r.inst = lab[job.id].inst BY <1>1, <2>2 DEF LabRec
  <2> QED BY <1>1, <2>2, <2>3, OneFieldStays
<1>7. CASE write_stamp \/ reopen_stamp \/ wait_for_reboot \/ execute_enterprise_rows \/ StepKilled \/ RunnerLost
  BY <1>2, <1>7 DEF write_stamp, reopen_stamp, wait_for_reboot, execute_enterprise_rows, StepKilled, RunnerLost
<1>8. CASE open_ssh \/ reopen_ssh BY <1>2, <1>3, <1>8 DEF open_ssh, reopen_ssh
<1>9. CASE release_ssh \/ revoke_quietly \/ close_ssh BY <1>1, <1>2, <1>4, <1>9 DEF release_ssh, revoke_quietly, close_ssh
<1>10. CASE run_guest BY <1>2, <1>5, <1>10 DEF run_guest
<1>11. CASE run_post BY <1>2, <1>6, <1>11 DEF run_post
<1> QED BY <1>7, <1>8, <1>9, <1>10, <1>11

(* What a job deletes is what its list allows it to.                       *)
Excused(i) == lab[i].soak => (i \in FounderClosed /\ job.kind = "teardown") \/ ver' # ver

LEMMA DeletionExcused ==
  ASSUME IInv, delete_resource
  PROVE  \A i \in Labs : lab[i].inst = "running" => lab'[i].inst = "running" \/ Excused(i)
<1>0. \A i \in Labs : i \in Ids BY LabAssumption DEF Labs, Ids
<1>1. CASE UNCHANGED lab BY <1>0, <1>1
<1>2. CASE lab' # lab
  <2>1. PICK r \in job.todo :
        \/ r.type = "instance" /\ lab' = [lab EXCEPT ![r.id].inst = IF @ = "running" THEN "shutting-down" ELSE @]
        \/ lab' = [lab EXCEPT ![r.id].vol = "none"]
        \/ lab' = [lab EXCEPT ![r.id].sg = FALSE, ![r.id].ingress = FALSE]
    BY <1>2 DEF delete_resource, Abort
  <2>2. r.id \in Ids /\ lab \in [Ids -> LabRec] /\ lab[r.id] \in LabRec BY Start DEF JobRec, Resources
  <2>3. CASE lab' = [lab EXCEPT ![r.id].vol = "none"]
    <3>1. PICK l : l = [lab[r.id] EXCEPT !.vol = "none"] /\ lab' = [lab EXCEPT ![r.id] = l] BY <2>3
    <3>2. l.inst = lab[r.id].inst BY <2>2, <3>1 DEF LabRec
    <3> QED BY <1>0, <2>2, <3>1, <3>2, OneFieldStays DEF Stays
  <2>4. CASE lab' = [lab EXCEPT ![r.id].sg = FALSE, ![r.id].ingress = FALSE]
    <3>1. PICK l : l = [lab[r.id] EXCEPT !.sg = FALSE, !.ingress = FALSE] /\ lab' = [lab EXCEPT ![r.id] = l] BY <2>2, <2>4
    <3>2. l.inst = lab[r.id].inst BY <2>2, <3>1 DEF LabRec
    <3> QED BY <1>0, <2>2, <3>1, <3>2, OneFieldStays DEF Stays
  <2>5. CASE r.type = "instance" /\ lab' = [lab EXCEPT ![r.id].inst = IF @ = "running" THEN "shutting-down" ELSE @]
    <3>1. \A i \in Ids \ {r.id} : lab'[i] = lab[i] BY <2>2, <2>5
    <3>2. Excused(r.id) BY <2>5, Start DEF JobOK, Excused
    <3> QED BY <1>0, <3>1, <3>2
  <2> QED BY <2>1, <2>3, <2>4, <2>5
<1> QED BY <1>1, <1>2

LEMMA VerificationExcused ==
  ASSUME IInv, close_instance \/ wait_instance_terminated \/ close_volume \/ close_eip \/ close_security_group
  PROVE  ver' # ver
<1>1. ver \in VerRec BY Start
<1>2. PICK p \in {"settle", "volume", "eip", "sg", "done"} : ver'.pc = p /\ p # ver.pc
  <2>1. \A p, s : VerGo(p, s) => ver'.pc = p BY <1>1 DEF VerGo, VerRec
  <2> QED BY <2>1 DEF close_instance, wait_instance_terminated, close_volume, close_eip, close_security_group
<1> QED BY <1>2

LEMMA CloudExcused ==
  ASSUME IInv, NEW i \in Ids, GuestStops(i) \/ Terminates(i) \/ VolumeFollows(i) \/ Forgotten(i) \/ GuestReboots(i)
  PROVE  \A k \in Labs : lab[k].inst = "running" => lab'[k].inst = "running" \/ Excused(k)
<1>0. \A k \in Labs : k \in Ids BY LabAssumption DEF Labs, Ids
<1>1. lab \in [Ids -> LabRec] /\ lab[i] \in LabRec BY Start
<1>2. CASE Terminates(i) \/ VolumeFollows(i) \/ Forgotten(i)
  <2>1. lab[i].inst # "running" BY <1>2 DEF Terminates, VolumeFollows, Forgotten
  <2>2. \A k \in Ids \ {i} : lab'[k] = lab[k] BY <1>1, <1>2 DEF Terminates, VolumeFollows, Forgotten
  <2> QED BY <1>0, <2>1, <2>2
<1>3. CASE GuestStops(i)
  <2>1. ~lab[i].soak BY <1>3 DEF GuestStops
  <2>2. \A k \in Ids \ {i} : lab'[k] = lab[k] BY <1>1, <1>3 DEF GuestStops
  <2> QED BY <1>0, <2>1, <2>2 DEF Excused
<1>4. CASE GuestReboots(i)
  <2>1. PICK n : n = lab[i].boot + 1 OBVIOUS
  <2>2. PICK r : r = [lab[i] EXCEPT !.boot = n, !.due = FALSE] /\ lab' = [lab EXCEPT ![i] = r]
    BY <1>1, <1>4, <2>1 DEF GuestReboots
  <2>3. r.inst = lab[i].inst BY <1>1, <2>2 DEF LabRec
  <2> QED BY <1>0, <2>2, <2>3, OneFieldStays DEF Stays
<1> QED BY <1>2, <1>3, <1>4

LEMMA RestStays ==
  ASSUME IInv, \/ \E s \in Requests, a \in Accounts : launch_from_env(s, a)
               \/ \E k, i, b : BeginArm(k, i, b)
               \/ \E i : BeginTeardown(i) \/ execute_verify(i) \/ BeginVerification(i)
               \/ execute_sweep \/ execute_teardown \/ wait_terminated \/ EndOfList \/ Tick
  PROVE  Stays
<1>1. UNCHANGED lab
  BY DEF launch_from_env, BeginArm, BeginTeardown, execute_verify, BeginVerification, execute_sweep,
         execute_teardown, wait_terminated, EndOfList, Tick, Dispatch, Abort
<1> QED BY <1>1, LabUnchanged

(* A soak host stops running only by a teardown job the committed founder  *)
(* close allows, or by the verification of the teardown role: never by the *)
(* sweeper (execute_sweep), the guest or any other job.                    *)
THEOREM SoakIsKept == Spec => SoakKept
<1>1. IInv /\ Next => \A i \in Labs : lab[i].inst = "running" => lab'[i].inst = "running" \/ Excused(i)
  <2> SUFFICES ASSUME IInv, Next
               PROVE  \A i \in Labs : lab[i].inst = "running" => lab'[i].inst = "running" \/ Excused(i)
    OBVIOUS
  <2>0. \A i \in Labs : i \in Ids BY LabAssumption DEF Labs, Ids
  <2>1. CASE Stays BY <2>0, <2>1 DEF Stays
  <2>2. CASE ver' # ver BY <2>2 DEF Excused
  <2>3. CASE delete_resource BY <2>3, DeletionExcused
  <2>4. CASE \E i \in Ids : GuestStops(i) \/ Terminates(i) \/ VolumeFollows(i) \/ Forgotten(i) \/ GuestReboots(i)
    BY <2>4, CloudExcused
  <2>5. CASE close_instance \/ wait_instance_terminated \/ close_volume \/ close_eip \/ close_security_group
    BY <2>2, <2>5, VerificationExcused
  <2>6. CASE JobStep /\ ~delete_resource BY <2>1, <2>6, ProvisionStays, SessionStays, RestStays DEF JobStep
  <2>7. CASE StepKilled \/ RunnerLost BY <2>1, <2>7, SessionStays
  <2>8. CASE \/ \E s \in Requests, a \in Accounts : launch_from_env(s, a)
             \/ \E k, i, b : BeginArm(k, i, b)
             \/ \E i : BeginTeardown(i) \/ execute_verify(i) \/ BeginVerification(i)
             \/ execute_sweep \/ Tick
    BY <2>1, <2>8, RestStays
  <2> QED BY <2>3, <2>4, <2>5, <2>6, <2>7, <2>8 DEF Next
<1>2. IInv /\ [Next]_vars =>
        [\A i \in Labs : lab[i].soak /\ lab[i].inst = "running" /\ lab'[i].inst # "running"
                           => (i \in FounderClosed /\ job.kind = "teardown") \/ ver' # ver]_vars
  BY <1>1 DEF Excused
<1> QED BY Invariance, <1>2, PTL DEF Spec, SoakKept
=============================================================================
