---------------------------- MODULE CustomerPath ----------------------------
(***************************************************************************)
(* The customer's way through vantio-install on one Linux server: fetch a  *)
(* sealed bundle, prepare the boot entry, install observe-only, turn on    *)
(* enforcement, enrol a unit, remove everything, and read the evidence     *)
(* with the independent verifier.  InstallTransaction has the installer's  *)
(* steps one by one; here they are one stretch, and what the customer's    *)
(* commands read from and leave on the host is kept: the licence, the      *)
(* bundle directory, the boot files, Docker, bpffs and the drop-ins.       *)
(*                                                                         *)
(* Commands run one at a time.  A usage error changes nothing and is no    *)
(* step.  The transaction's configuration is observe-only.                 *)
(***************************************************************************)
EXTENDS Naturals, FiniteSets, TLC

CONSTANTS
    Trusted,       \* the classes of artifact keys in the trust files
    OddChecks,     \* the preflight facts that may be other than good
    MaxCommands,   \* bound: commands issued
    MaxFaults      \* bound: kills, tools that fail, loaders that die

\* The checks of preflight.py that grade one fact of the host or the config.
CheckIds == {"arch", "os", "btf", "cgroup2", "bpffs", "lockdown", "tracefs",
             "docker", "apparmor", "docker_perm", "mem", "iface", "ghcr",
             "disclosure", "transfer", "enforcement", "node", "npm",
             "enterprise", "motion"}

ASSUME CustomerAssumption ==
    /\ Trusted \subseteq {"prod", "lab"}
    /\ OddChecks \subseteq CheckIds /\ OddChecks # {}
    /\ MaxCommands \in Nat /\ MaxFaults \in Nat

VARIABLES
    host,     \* the preflight fact that may be odd, and the OCI archive's layout
    lsm,      \* the running kernel lists bpf
    grub,     \* the files under /etc/default with the lsm= word, and grub.cfg
    lic,      \* /etc/vantio/license, and whether the token has expired
    bundle,   \* the bundle directory: the file under each name
    got,      \* the path of the last fetch that answered VERIFIED
    pe,       \* the container vantio-pe-<transaction>
    pins,     \* the known names on bpffs: "none", "old" or "own"
    dropin,   \* the unit's drop-in is on disk
    disk,     \* the transaction directory
    ev,       \* the evidence directory: its copy of disk
    pc,       \* the command that runs, and its local values
    used, faults,
    lost,     \* an update-grub trouble left a word without its file
    whole     \* no command stopped or failed since health was last derived

vars == <<host, lsm, grub, lic, bundle, got, pe, pins, dropin, disk, ev, pc,
          used, faults, lost, whole>>

hostVars == <<host, lsm, grub, lic, dropin>>

-----------------------------------------------------------------------------
(* Trust: tokens, keys and signatures.                                     *)

Parts == {"sums", "manifest", "artifacts"}
NoFile == [rel |-> "none", key |-> "none", intact |-> TRUE]
File(rel, key, intact) == [rel |-> rel, key |-> key, intact |-> intact]

\* What a server may answer with: a release, signed with a key of some class,
\* its rows intact or not.
Bodies == {File(r, k, i) : r \in {"sealed", "other"},
                           k \in {"prod", "lab", "stranger"}, i \in BOOLEAN}

\* A signature file names its key and the release whose digest it is over.
Signatures == {d \in Bodies : d.intact}

\* An archive on its own: the key is in the signature file beside it.
Archives == {d \in Bodies : d.key = "lab"}

Tokens == {"good", "forged"}

\* A token is well formed, of a known key and mode, and not over.
verify_token(t, over) == t = "good" /\ ~over

\* bundle_fetch._signature_reason: the path decides which class of key counts.
signature_reason(key, production) ==
    IF production
    THEN CASE key = "lab" -> "TEST_KEY_ON_PRODUCTION_PATH"
           [] key = "stranger" -> "PRODUCTION_KEY_REQUIRED"
           [] OTHER -> IF "prod" \in Trusted THEN "VERIFIED" ELSE "UNTRUSTED_KEY"
    ELSE CASE key # "lab" -> "PRODUCTION_KEY_REFUSED"
           [] OTHER -> IF "lab" \in Trusted THEN "VERIFIED" ELSE "UNTRUSTED_KEY"

verify_unpacked(d, production) ==
    IF signature_reason(d.key, production) # "VERIFIED"
    THEN signature_reason(d.key, production)
    ELSE IF d.intact THEN "VERIFIED" ELSE "SHA_MISMATCH"

\* artifact_verify.verify_archive_file: the signature file must be of a test
\* artifact key, describe these bytes, and verify under a trusted key.
verify_archive_file(file, sig) ==
    /\ sig.key = "lab"
    /\ file # NoFile /\ file.intact /\ sig.rel = file.rel
    /\ "lab" \in Trusted

\* signed_policy.verify_signed_policy, and the fields each command wants.
Policies == {"absent", "unsigned", "observe", "enforce"}
require_signed_policy(p) == p = "observe"
policy_reason(p) == p = "enforce"

-----------------------------------------------------------------------------
(* Preflight.                                                              *)

\* A fact is good, bad, or could not be read.
probe_live == {"good", "bad", "unread"}

facts == [id \in CheckIds |-> IF id = host.odd THEN host.fact ELSE "good"]

npm_requirement(f) ==
    IF f["npm"] = "good" \/ (f["os"] = "good" /\ f["node"] = "good")
    THEN "PASS" ELSE "BLOCKED"

lockdown_grade(f) == IF f = "good" THEN "PASS" ELSE "BLOCKED"

apparmor_observation(f) ==
    CASE f = "good" -> "PASS" [] f = "unread" -> "UNKNOWN" [] OTHER -> "BLOCKED"

\* The kernel and the machine.
kernel_check(f, id) ==
    IF f[id] = "good" THEN "PASS"
    ELSE IF id = "arch" \/ f[id] = "bad" THEN "UNSUPPORTED"
    ELSE "BLOCKED"

\* What is recorded as a limitation and does not stop the plan.
limitation_check(f, id) == IF f[id] = "good" THEN "PASS" ELSE "LIMITATION"

\* The rest block unless they are known to hold.
required_check(f, id) == IF f[id] = "good" THEN "PASS" ELSE "BLOCKED"

host_check(f, id) ==
    CASE id \in {"arch", "os", "btf", "cgroup2"} -> kernel_check(f, id)
      [] id \in {"mem", "enterprise", "motion"} -> limitation_check(f, id)
      [] id = "npm" -> npm_requirement(f)
      [] id = "lockdown" -> lockdown_grade(f[id])
      [] id = "apparmor" -> apparmor_observation(f[id])
      [] OTHER -> required_check(f, id)

\* manifest.verify_sha256sums: the rows of the list, against the files there.
verify_sha256sums(b) ==
    b["sums"] # NoFile /\ \A p \in Parts : b[p].rel = b["sums"].rel /\ b[p].intact

\* Frozen pins: the sealed release, and nothing else.
artifact_check(b) ==
    IF b["artifacts"].rel = "sealed" /\ b["artifacts"].intact /\ b["manifest"] # NoFile
    THEN "PASS" ELSE "BLOCKED"

sums_check(b) == IF verify_sha256sums(b) THEN "PASS" ELSE "BLOCKED"

\* oci_load.describe_archive: a layout that can be corrected is no block.
oci_load_check(layout) == IF layout = "broken" THEN "BLOCKED" ELSE "PASS"

aggregate(results) ==
    IF "UNSUPPORTED" \in results THEN "UNSUPPORTED"
    ELSE IF results \cap {"BLOCKED", "UNKNOWN"} # {} THEN "BLOCKED"
    ELSE IF "LIMITATION" \in results THEN "READY_WITH_LIMITATIONS"
    ELSE "READY"

run_preflight(b) ==
    aggregate({host_check(facts, id) : id \in CheckIds}
              \cup {IF lsm THEN "PASS" ELSE "BLOCKED"}
              \cup {artifact_check(b), sums_check(b), oci_load_check(host.layout)})

\* oci_load.plan_load: which file docker load reads, and whether it must be
\* written first.
plan_load(layout) == [rewrite |-> layout = "mislabelled"]

-----------------------------------------------------------------------------
(* Health, from the recorded snapshot.                                     *)

NoEnrollment == [requested |-> FALSE, banner |-> FALSE, listed |-> FALSE]

empty_runtime_state ==
    [cont |-> "none", loader |-> FALSE, pins |-> FALSE, clsact |-> FALSE,
     cli |-> FALSE, lsm |-> FALSE, enr |-> NoEnrollment, flag |-> FALSE]

\* The banner is enough, or the program is.
enforce_proof_Either(e) == e.banner \/ e.listed

enforce_proof(e) == e.banner /\ e.listed

enforcement_view(s) ==
    CASE ~s.enr.requested -> [component |-> "NOT_ENABLED", prot |-> "OBSERVE"]
      [] s.enr.requested /\ enforce_proof(s.enr) ->
            [component |-> "PASS", prot |-> "PROTECTED"]
      [] OTHER -> [component |-> "DEGRADED", prot |-> "DEGRADED"]

container_after_enforce(base, s) ==
    IF base # "FAIL" \/ ~s.enr.requested THEN base
    ELSE IF s.cont = "none" THEN "DEGRADED"
    ELSE enforcement_view(s).component

apply_enforce_overall(overall, values) ==
    IF overall \notin {"UNKNOWN", "FAIL"} /\ "DEGRADED" \in values
    THEN "DEGRADED" ELSE overall

pe_container(s) ==
    container_after_enforce(
        IF s.cont = "none" THEN "NOT_INSTALLED"
        ELSE IF s.cont = "enforce" \/ s.flag THEN "FAIL" ELSE "PASS", s)

\* health.derive.
derive(s, limited) ==
    LET piece(there) == IF there THEN "PASS"
                        ELSE IF pe_container(s) = "NOT_INSTALLED" THEN "NOT_INSTALLED"
                        ELSE "FAIL"
        required == {IF s.cli THEN "PASS" ELSE "NOT_INSTALLED", pe_container(s),
                     piece(s.loader), piece(s.pins), piece(s.clsact)}
        all == required \cup {enforcement_view(s).component,
                              IF s.lsm THEN "PASS" ELSE "FAIL"}
        base == IF "FAIL" \in all \/ "NOT_INSTALLED" \in required THEN "FAIL"
                ELSE IF limited THEN "PASS_WITH_LIMITATIONS"
                ELSE "PASS"
    IN  [overall |-> apply_enforce_overall(base, all), prot |-> enforcement_view(s).prot]

\* verifier._recompute_health: written again, from the evidence alone.
recompute_health(s, limited) ==
    LET c == pe_container(s)
        missing == {~s.cli, ~s.loader, ~s.pins, ~s.clsact, c = "NOT_INSTALLED"}
        failed == \/ c = "FAIL" \/ ~s.lsm
                  \/ c # "NOT_INSTALLED" /\ FALSE \in {s.loader, s.pins, s.clsact}
    IN  IF failed \/ TRUE \in missing THEN "FAIL"
        ELSE apply_enforce_overall(IF limited THEN "PASS_WITH_LIMITATIONS" ELSE "PASS",
                                   {c, enforcement_view(s).component})

-----------------------------------------------------------------------------
(* Docker and the loader.                                                  *)

NoContainer == [kind |-> "none", life |-> "none", said |-> FALSE]
Started(kind) == [kind |-> kind, life |-> "created", said |-> FALSE]

\* The pins outlive the container that made them.
Left(p) == IF p = "own" THEN "old" ELSE p

observe_lifecycle(c) ==
    CASE c.kind = "none" -> "unknown"
      [] c.life = "stopped" -> "stopped"
      [] c.life = "created" -> "starting"
      [] OTHER -> "detached"

pins_are_current(p) == p = "own"

\* The container runs and the known names are on bpffs.
readiness_gaps_Pins(c, p) == p = "none"

\* A detached container: pins of this start, the programs attached, and the
\* loader's own lines, which come last.
readiness_gaps(c, p) == ~(pins_are_current(p) /\ c.said)

\* wait_for_observe_host looks at one sample.
observe_sample(c, p) ==
    CASE observe_lifecycle(c) = "stopped" -> "NOT_VERIFIED"
      [] observe_lifecycle(c) = "detached" /\ ~readiness_gaps(c, p) -> "VERIFIED"
      [] OTHER -> "again"

\* The loader of the container pins its maps, attaches, and prints its banner.
LoaderAttaches ==
    /\ pe.life = "created"
    /\ pe' = [pe EXCEPT !.life = "attached"]
    /\ pins' = "own"
    /\ UNCHANGED <<hostVars, bundle, got, disk, ev, pc, used, faults, lost, whole>>

LoaderReports ==
    /\ pe.life = "attached"
    /\ pe' = [pe EXCEPT !.life = "active", !.said = TRUE]
    /\ UNCHANGED <<hostVars, bundle, got, pins, disk, ev, pc, used, faults, lost, whole>>

LoaderDies ==
    /\ faults < MaxFaults /\ faults' = faults + 1
    /\ pe.life \in {"created", "attached", "active"}
    /\ pe' = [pe EXCEPT !.life = "stopped"]
    /\ UNCHANGED <<hostVars, bundle, got, pins, disk, ev, pc, used, lost, whole>>

\* classify_docker_object_operation, with the inspect made after the command.
\* The answer is "ok", the sentence for an absent object, or another failure.
classify_docker_object_operation(answer, seen, done) ==
    IF answer \notin {"ok", "absent"} \/ seen = "unknown" THEN "FAILED_SAFE"
    ELSE IF answer = "ok" /\ done THEN "REMOVED"
    ELSE IF answer = "absent" /\ seen = "absent" THEN "IDEMPOTENT_ABSENT"
    ELSE "RESIDUAL_FOUND"

\* The exit code of docker decides.
docker_removal_Exit(answer, seen, done) == answer = "ok" \/ answer = "absent"

\* execute_primitive, on docker_stop and docker_rm.
docker_removal(answer, seen, done) ==
    classify_docker_object_operation(answer, seen, done) \in {"REMOVED", "IDEMPOTENT_ABSENT"}

-----------------------------------------------------------------------------
(* Commands.                                                               *)

Idle == [cmd |-> "none", at |-> "idle", body |-> NoFile, production |-> FALSE,
         left |-> {}, prior |-> {}, enr |-> NoEnrollment]

Begin(cmd, at, production, body) ==
    /\ pc = Idle
    /\ used < MaxCommands /\ used' = used + 1
    /\ pc' = [Idle EXCEPT !.cmd = cmd, !.at = at, !.production = production, !.body = body]

At(cmd, at) == pc.cmd = cmd /\ pc.at = at
Goto(at) == pc' = [pc EXCEPT !.at = at]
Fault == faults < MaxFaults /\ faults' = faults + 1

\* A tool does its work, or is one of the faults.
Tool(ok) == IF ok THEN faults' = faults ELSE Fault

\* _sync: the evidence directory is a copy of the transaction directory.
sync == ev' = disk'

(* fetch: the licence is stored first; nothing enters the bundle directory *)
(* before the unpacked tree has verified.                                  *)

FetchStart(t, production) ==
    /\ Begin("fetch", "store", production, NoFile)
    /\ verify_token(t, lic.over)
    /\ UNCHANGED <<hostVars, bundle, got, pe, pins, disk, ev, faults, lost, whole>>

\* store_license truncates the file and writes the token.
StoreOpened ==
    /\ At("fetch", "store")
    /\ lic' = [lic EXCEPT !.stored = "torn"]
    /\ Goto("write")
    /\ UNCHANGED <<host, lsm, grub, dropin, bundle, got, pe, pins, disk, ev, used,
                   faults, lost, whole>>

StoreWritten ==
    /\ At("fetch", "write")
    /\ lic' = [lic EXCEPT !.stored = "good"]
    /\ Goto("request")
    /\ UNCHANGED <<host, lsm, grub, dropin, bundle, got, pe, pins, disk, ev, used,
                   faults, lost, whole>>

\* redirect_refusal, on the n-th redirect of one response.
redirect_refused(production, n, target) ==
    ~production \/ n # 1 \/ target # "release asset host"

\* _read_response: how many redirects were met, and where the last one led.
read_response(production, hops, target) ==
    hops = 0 \/ (hops = 1 /\ ~redirect_refused(production, 1, target))

\* _maybe_record_license: with a transaction, the licence goes into its health
\* file and the evidence is copied again.
record_license == IF disk.state = "NONE" THEN UNCHANGED ev ELSE ev' = disk

FetchRefused ==
    /\ pc' = Idle
    /\ record_license
    /\ UNCHANGED <<hostVars, bundle, got, pe, pins, disk, used, lost, whole>>

\* The answer is one of Bodies, or none that can be used: a status other than
\* 200, a body that is cut, over the cap, or no tar.
Answers == Bodies \cup {NoFile}

nonempty(b) == \E p \in Parts : b[p] # NoFile

\* Does the tree go into the bundle directory?
accepted_Over(d) == verify_unpacked(d, pc.production) = "VERIFIED"

accepted(d) == verify_unpacked(d, pc.production) = "VERIFIED" /\ ~nonempty(bundle)

fetch_bundle(hops, target, d) ==
    /\ At("fetch", "request")
    /\ IF /\ read_response(pc.production, hops, target)
          /\ d # NoFile
          /\ accepted(d)
       THEN /\ pc' = [pc EXCEPT !.at = "move", !.body = d, !.left = Parts]
            /\ UNCHANGED <<hostVars, bundle, got, pe, pins, disk, ev, used, lost, whole>>
       ELSE FetchRefused
    /\ UNCHANGED faults

\* The children of the tree are moved one by one.
MoveChild(p) ==
    /\ At("fetch", "move") /\ p \in pc.left
    /\ bundle' = [bundle EXCEPT ![p] = pc.body]
    /\ IF pc.left = {p}
       THEN /\ pc' = Idle
            /\ got' = IF pc.production THEN "prod" ELSE "lab"
            /\ record_license
       ELSE /\ pc' = [pc EXCEPT !.left = @ \ {p}]
            /\ UNCHANGED <<got, ev>>
    /\ UNCHANGED <<hostVars, pe, pins, disk, used, faults, lost, whole>>

-----------------------------------------------------------------------------
(* host-prep and the boot files.                                           *)

\* update-grub writes grub.cfg from the files, fails and leaves it, or exits 0
\* having written elsewhere.
Updates == {"ok", "fails", "elsewhere"}
update_grub(g, res) == [g EXCEPT !.cfg = IF res = "ok" THEN g.files # {} ELSE @]

PrepareStart ==
    /\ Begin("prep", "grub", FALSE, NoFile)
    /\ ~lsm
    /\ grub' = [grub EXCEPT !.files = @ \cup {"dropin"}]
    /\ UNCHANGED <<host, lsm, lic, dropin, bundle, got, pe, pins, disk, ev, faults,
                   lost, whole>>

\* A failed update takes the drop-in away again, also one that was there before.
prepare(res) ==
    /\ At("prep", "grub")
    /\ Tool(res = "ok")
    /\ grub' = IF res = "fails" THEN [grub EXCEPT !.files = @ \ {"dropin"}]
               ELSE update_grub(grub, res)
    /\ lost' = (lost \/ (grub'.cfg /\ grub'.files = {}))
    /\ pc' = Idle
    /\ record_license
    /\ UNCHANGED <<host, lsm, lic, dropin, bundle, got, pe, pins, disk, used, whole>>

-----------------------------------------------------------------------------
(* The one command: verify the archive, plan, apply observe-only.          *)

\* One transaction, the one whose id the customer goes on using.  An install that
\* names no id starts another transaction beside it, with a container of its own.
InstallStart(p, sig, url) ==
    /\ Begin("install", IF url THEN "fetch" ELSE "verify", FALSE, sig)
    /\ disk.state \in {"NONE", "PREFLIGHT_BLOCKED", "UNSUPPORTED", "PLANNED",
                       "VERIFIED_REMOVED"}
    /\ require_signed_policy(p)
    /\ UNCHANGED <<hostVars, bundle, got, pe, pins, disk, ev, faults, lost, whole>>

\* fetch_to_file over loopback, and the checks on what came: an archive that is
\* already there must be the same bytes.
InstallFetch(d, gates) ==
    /\ At("install", "fetch")
    /\ IF /\ verify_archive_file(d, pc.body)
          /\ IF bundle["artifacts"] = NoFile THEN gates
             ELSE bundle["artifacts"].rel = d.rel /\ bundle["artifacts"].intact
       THEN /\ Goto("verify")
            /\ bundle' = [bundle EXCEPT !["artifacts"] = IF @ = NoFile THEN d ELSE @]
       ELSE pc' = Idle /\ UNCHANGED bundle
    /\ UNCHANGED <<hostVars, got, pe, pins, disk, ev, used, faults, lost, whole>>

NewDisk(state, limited) ==
    [state |-> state, prot |-> "none", limited |-> limited,
     snap |-> [empty_runtime_state EXCEPT !.lsm = lsm],
     health |-> "NOT_TESTED"]

gate == [READY |-> "PLANNED", READY_WITH_LIMITATIONS |-> "PLANNED",
         BLOCKED |-> "PREFLIGHT_BLOCKED", UNSUPPORTED |-> "UNSUPPORTED"]

\* The archive's signature, then plan; apply goes on only with both gates.  A plan
\* whose digests still hold is replayed without a probe, and apply runs the
\* preflight once more over the facts recorded with it: facts are constant here, so
\* plan, replay and that second look agree on them.
InstallPlan(gates) ==
    /\ At("install", "verify")
    /\ IF verify_archive_file(bundle["artifacts"], pc.body) /\ bundle["manifest"] # NoFile
       THEN LET overall == run_preflight(bundle)
            IN  /\ disk' = NewDisk(IF gate[overall] = "PLANNED" /\ gates THEN "APPLYING"
                                   ELSE gate[overall],
                                   overall = "READY_WITH_LIMITATIONS")
                /\ pc' = IF disk'.state = "APPLYING" THEN [pc EXCEPT !.at = "load"] ELSE Idle
                /\ sync
                /\ whole' = FALSE
       ELSE pc' = Idle /\ UNCHANGED <<disk, ev, whole>>
    /\ UNCHANGED <<hostVars, bundle, got, pe, pins, used, faults, lost>>

\* InstallError in apply or in a removal.
FailSafe ==
    /\ disk' = [disk EXCEPT !.state = "FAILED_SAFE"]
    /\ pc' = Idle
    /\ sync
    /\ whole' = FALSE

\* _materialize_load and docker load: a layer labelled as plain tar and packed
\* does not unpack unless the load archive was rewritten.
InstallLoad(ok) ==
    /\ At("install", "load")
    /\ Tool(ok)
    /\ IF ok /\ (host.layout = "plain" \/ plan_load(host.layout).rewrite)
       THEN Goto("run") /\ UNCHANGED <<disk, ev, whole>>
       ELSE FailSafe
    /\ UNCHANGED <<hostVars, bundle, got, pe, pins, used, lost>>

InstallRun(ok) ==
    /\ At("install", "run")
    /\ Tool(ok)
    /\ IF ok
       THEN /\ pe' = Started("observe") /\ pins' = Left(pins)
            /\ Goto("wait")
            /\ UNCHANGED <<disk, ev, whole>>
       ELSE FailSafe /\ UNCHANGED <<pe, pins>>
    /\ UNCHANGED <<hostVars, bundle, got, used, lost>>

\* wait_for_observe_host ends with the first ready or stopped sample, or when
\* the time is over or bpffs cannot be read (late).
wait_for_observe_host(late) ==
    /\ At("install", "wait")
    /\ Tool(~late)
    /\ late \/ observe_sample(pe, pins) # "again"
    /\ IF ~late /\ observe_sample(pe, pins) = "VERIFIED"
       THEN Goto("save") /\ UNCHANGED <<disk, ev, whole>>
       ELSE FailSafe
    /\ UNCHANGED <<hostVars, bundle, got, pe, pins, used, lost>>

\* collect_health: the snapshot, its health, and the state that follows.
InstallSave ==
    /\ At("install", "save")
    /\ LET s == [disk.snap EXCEPT !.cont = "observe", !.loader = TRUE, !.clsact = TRUE,
                                  !.cli = TRUE, !.pins = pins_are_current(pins)]
           h == derive(s, disk.limited)
       IN  disk' = [disk EXCEPT !.snap = s, !.health = h.overall, !.prot = h.prot,
                        !.state = CASE h.overall = "PASS" -> "HEALTHY"
                                    [] h.overall \in {"PASS_WITH_LIMITATIONS", "DEGRADED"} -> "DEGRADED"
                                    [] OTHER -> "FAILED_SAFE"]
    /\ pc' = Idle
    /\ sync
    /\ whole' = TRUE
    /\ UNCHANGED <<hostVars, bundle, got, pe, pins, used, faults, lost>>

-----------------------------------------------------------------------------
(* apply --enforce-enrolled.                                               *)

\* enforce_apply._license_reason: the stored token, read and verified again.
license_reason(l) == verify_token(l.stored, l.over)

manifest_has_exec_deny(b) == b["artifacts"].rel = "sealed"

EnforceStart(p, preset) ==
    /\ Begin("enforce", "rm", FALSE, NoFile)
    /\ disk.state \in {"HEALTHY", "DEGRADED"}
    /\ license_reason(lic) /\ policy_reason(p) /\ lsm
    /\ preset => manifest_has_exec_deny(bundle)
    /\ UNCHANGED <<hostVars, bundle, got, pe, pins, disk, ev, faults, lost, whole>>

\* docker rm -f, then docker run: neither exit code is looked at, and the name
\* is taken when the first one failed.
EnforceRemove(ok) ==
    /\ At("enforce", "rm")
    /\ Tool(ok)
    /\ pe' = (IF ok THEN NoContainer ELSE pe)
    /\ pins' = (IF ok THEN Left(pins) ELSE pins)
    /\ Goto("run")
    /\ UNCHANGED <<hostVars, bundle, got, disk, ev, used, lost, whole>>

EnforceRun(ok) ==
    /\ At("enforce", "run")
    /\ Tool(ok)
    /\ pe' = (IF ok /\ pe = NoContainer THEN Started("enforce") ELSE pe)
    /\ Goto("logs")
    /\ UNCHANGED <<hostVars, bundle, got, pins, disk, ev, used, lost, whole>>

\* docker logs of whatever has the name, then bpftool prog list.
EnforceLogs(ok) ==
    /\ At("enforce", "logs")
    /\ Tool(ok)
    /\ pc' = [pc EXCEPT !.at = "programs", !.enr.requested = TRUE,
                        !.enr.banner = ok /\ pe.kind = "enforce" /\ pe.said]
    /\ UNCHANGED <<hostVars, bundle, got, pe, pins, disk, ev, used, lost, whole>>

\* The list is of the whole host: a program of another loader is on it too.
EnforcePrograms(ok, elsewhere) ==
    /\ At("enforce", "programs")
    /\ Tool(ok)
    /\ pc' = [pc EXCEPT !.at = "health",
                        !.enr.listed = ok /\ (elsewhere \/ pe.life \in {"attached", "active"})]
    /\ UNCHANGED <<hostVars, bundle, got, pe, pins, disk, ev, used, lost, whole>>

\* _start_loader's row says running, whatever happened.
EnforcedSnapshot ==
    [disk.snap EXCEPT !.cont = "enforce", !.enr = pc.enr, !.lsm = TRUE, !.flag = TRUE]

EnforceHealth ==
    /\ At("enforce", "health")
    /\ disk' = [disk EXCEPT !.health = derive(EnforcedSnapshot, disk.limited).overall]
    /\ Goto("snapshot")
    /\ whole' = FALSE
    /\ UNCHANGED <<hostVars, bundle, got, pe, pins, ev, used, faults, lost>>

\* HEALTH.json is written and the snapshot is not.
EnforceSnapshot_Skipped ==
    /\ At("enforce", "snapshot")
    /\ Goto("save")
    /\ UNCHANGED <<hostVars, bundle, got, pe, pins, disk, ev, used, faults, lost, whole>>

EnforceSnapshot ==
    /\ At("enforce", "snapshot")
    /\ disk' = [disk EXCEPT !.snap = EnforcedSnapshot]
    /\ Goto("save")
    /\ UNCHANGED <<hostVars, bundle, got, pe, pins, ev, used, faults, lost, whole>>

EnforceSave ==
    /\ At("enforce", "save")
    /\ LET prot == derive(EnforcedSnapshot, disk.limited).prot
       IN  disk' = [disk EXCEPT !.prot = prot,
                        !.state = IF prot = "PROTECTED" /\ disk.health = "PASS"
                                  THEN "HEALTHY" ELSE "DEGRADED"]
    /\ pc' = Idle
    /\ sync
    /\ whole' = TRUE
    /\ UNCHANGED <<hostVars, bundle, got, pe, pins, used, faults, lost>>

-----------------------------------------------------------------------------
(* enroll and unenroll, in any state of the transaction.                   *)

EnrollWrite(remove) ==
    /\ Begin(IF remove THEN "unenroll" ELSE "enroll", "reload", FALSE, NoFile)
    /\ disk.state # "NONE"
    /\ dropin' = ~remove
    /\ UNCHANGED <<host, lsm, grub, lic, bundle, got, pe, pins, disk, ev, faults,
                   lost, whole>>

\* daemon-reload: when it fails, enroll takes the file back and unenroll does
\* not put it back.  The list of units in the record is read by nobody else.
EnrollReload(ok) ==
    /\ pc.cmd \in {"enroll", "unenroll"}
    /\ Tool(ok)
    /\ dropin' = (IF ok THEN dropin ELSE FALSE)
    /\ pc' = Idle
    /\ ev' = disk
    /\ UNCHANGED <<host, lsm, grub, lic, bundle, got, pe, pins, disk, used, lost, whole>>

-----------------------------------------------------------------------------
(* rollback or uninstall, and verify-removal.                              *)

RemoveStart ==
    /\ Begin("remove", "stop", FALSE, NoFile)
    /\ disk.state \in {"HEALTHY", "DEGRADED", "FAILED_SAFE", "APPLYING",
                       "ROLLING_BACK", "RESIDUAL_FOUND"}
    /\ disk' = [disk EXCEPT !.state = "ROLLING_BACK"]
    /\ UNCHANGED <<hostVars, bundle, got, pe, pins, ev, faults, lost, whole>>

\* One docker command on the transaction's container, and the inspect after it:
\* it is refused, or answers; it may have answered before it was done.
DockerAnswers(there) == IF there THEN {"ok", "error"} ELSE {"absent", "error"}
Inspected(c, blind) ==
    IF blind THEN "unknown" ELSE IF c.kind = "none" THEN "absent" ELSE "present"

RemoveStop(answer, done, blind) ==
    /\ At("remove", "stop")
    /\ answer \in DockerAnswers(pe # NoContainer)
    /\ Tool(answer # "error" /\ done /\ ~blind)
    /\ LET c == IF answer = "ok" /\ done THEN [pe EXCEPT !.life = "stopped"] ELSE pe
       IN  /\ pe' = c
           /\ IF docker_removal(answer, Inspected(c, blind), c.life = "stopped")
              THEN Goto("rm") /\ UNCHANGED <<disk, ev, whole>>
              ELSE FailSafe
    /\ UNCHANGED <<hostVars, bundle, got, pins, used, lost>>

\* The snapshot is written with what the removed container leaves.  (A container
\* whose step was never recorded is not asked for; InstallTransaction has that.)
RemoveContainer(answer, done, blind) ==
    /\ At("remove", "rm")
    /\ answer \in DockerAnswers(pe # NoContainer)
    /\ Tool(answer # "error" /\ done /\ ~blind)
    /\ LET c == IF answer = "ok" /\ done THEN NoContainer ELSE pe
       IN  /\ pe' = c
           /\ IF docker_removal(answer, Inspected(c, blind), c = NoContainer)
              THEN /\ disk' = [disk EXCEPT !.snap.cont = "none", !.snap.loader = FALSE,
                                           !.snap.clsact = FALSE, !.snap.cli = FALSE,
                                           !.snap.pins = pins # "none"]
                   /\ Goto("unpin")
                   /\ whole' = FALSE
                   /\ UNCHANGED ev
              ELSE FailSafe
    /\ pins' = IF pe' = NoContainer THEN Left(pins) ELSE pins
    /\ UNCHANGED <<hostVars, bundle, got, used, lost>>

\* vantio-loader uninstall must print that it verified, and the scan be empty.
RemovePins(ok) ==
    /\ At("remove", "unpin")
    /\ Tool(ok)
    /\ IF ok
       THEN /\ pins' = "none"
            /\ disk' = [disk EXCEPT !.snap.pins = FALSE]
            /\ Goto("grub")
            /\ UNCHANGED <<ev, whole>>
       ELSE FailSafe /\ UNCHANGED pins
    /\ UNCHANGED <<hostVars, bundle, got, pe, used, lost>>

\* remove_grub_dropin: only when the drop-in is there.  The same word is taken
\* out of the other files too.
RemoveWord ==
    /\ At("remove", "grub")
    /\ IF "dropin" \in grub.files
       THEN /\ grub' = [grub EXCEPT !.files = {}]
            /\ pc' = [pc EXCEPT !.at = "regen", !.prior = grub.files]
       ELSE Goto("units") /\ UNCHANGED grub
    /\ UNCHANGED <<host, lsm, lic, dropin, bundle, got, pe, pins, disk, ev, used,
                   faults, lost, whole>>

remove_grub_dropin(res) ==
    /\ At("remove", "regen")
    /\ Tool(res = "ok")
    /\ IF res = "fails" \/ update_grub(grub, res).cfg
       THEN /\ grub' = [grub EXCEPT !.files = pc.prior]
            /\ FailSafe
       ELSE /\ grub' = update_grub(grub, res)
            /\ pc' = [pc EXCEPT !.at = "units", !.prior = {}]
            /\ UNCHANGED <<disk, ev, whole>>
    /\ UNCHANGED <<host, lsm, lic, dropin, bundle, got, pe, pins, used, lost>>

\* The licence file and every drop-in go; then daemon-reload.
RemoveUnits(ok) ==
    /\ At("remove", "units")
    /\ Tool(ok)
    /\ lic' = [lic EXCEPT !.stored = "none"]
    /\ dropin' = FALSE
    /\ IF ok \/ ~dropin THEN Goto("finish") /\ UNCHANGED <<disk, ev, whole>> ELSE FailSafe
    /\ UNCHANGED <<host, lsm, grub, bundle, got, pe, pins, used, lost>>

RemoveFinish ==
    /\ At("remove", "finish")
    /\ LET s == [disk.snap EXCEPT !.enr = NoEnrollment, !.flag = FALSE]
           h == derive(s, disk.limited)
       IN  disk' = [disk EXCEPT !.snap = s, !.health = h.overall, !.state = "ROLLED_BACK"]
    /\ pc' = Idle
    /\ sync
    /\ whole' = TRUE
    /\ UNCHANGED <<hostVars, bundle, got, pe, pins, used, faults, lost>>

\* inspect_residual: the recorded container, the live pins, and the customer's
\* files.
residual_items ==
    {i \in {"container", "pins", "grub_dropin", "license", "enroll_dropin"} :
        CASE i = "container" -> disk.snap.cont # "none"
          [] i = "pins" -> pins # "none"
          [] i = "grub_dropin" -> "dropin" \in grub.files
          [] i = "license" -> lic.stored # "none"
          [] OTHER -> dropin}

verify_removal ==
    /\ pc = Idle
    /\ used < MaxCommands /\ used' = used + 1
    /\ disk.state \in {"ROLLED_BACK", "VERIFIED_REMOVED"}
    /\ disk' = [disk EXCEPT !.state = IF residual_items = {} THEN "VERIFIED_REMOVED"
                                      ELSE "RESIDUAL_FOUND"]
    /\ sync
    /\ UNCHANGED <<hostVars, bundle, got, pe, pins, pc, faults, lost, whole>>

-----------------------------------------------------------------------------
(* The world around the commands.                                          *)

\* A command is killed.
Kill ==
    /\ pc # Idle
    /\ Fault
    /\ pc' = Idle
    /\ lost' = (lost \/ (grub.cfg /\ grub.files = {}))
    /\ whole' = (whole /\ pc.cmd \notin {"install", "enforce", "remove"})
    /\ UNCHANGED <<hostVars, bundle, got, pe, pins, disk, ev, used>>

\* The server boots with what grub.cfg says; no container is restarted, and
\* bpffs is empty.
Reboot ==
    /\ pc = Idle
    /\ lsm # grub.cfg
    /\ lsm' = grub.cfg
    /\ pins' = "none"
    /\ pe' = IF pe = NoContainer THEN pe ELSE [pe EXCEPT !.life = "stopped"]
    /\ UNCHANGED <<host, grub, lic, dropin, bundle, got, disk, ev, pc, used, faults, lost, whole>>

\* The customer's token runs out after it was stored.  A command reads the
\* clock only when it starts, so the moments between commands are enough.
Expire ==
    /\ pc = Idle
    /\ lic.stored = "good" /\ ~lic.over
    /\ lic' = [lic EXCEPT !.over = TRUE]
    /\ UNCHANGED <<host, lsm, grub, dropin, bundle, got, pe, pins, disk, ev, pc, used,
                   faults, lost, whole>>

-----------------------------------------------------------------------------
NoDisk == [state |-> "NONE", prot |-> "none", limited |-> FALSE,
           snap |-> empty_runtime_state, health |-> "NOT_TESTED"]

\* A host nobody prepared, or one whose own boot files have the word already.
\* At most one thing is odd: a fact of the host, the archive's layout, or pins
\* that an earlier install left.
Init ==
    /\ host \in [odd : OddChecks, fact : probe_live, layout : {"plain", "mislabelled", "broken"}]
    /\ pins \in {"none", "old"}
    /\ Cardinality({host.fact, host.layout, pins} \ {"good", "plain", "none"}) <= 1
    /\ host.fact = "good" => host.odd = CHOOSE id \in OddChecks : TRUE
    /\ grub \in {[files |-> {}, cfg |-> FALSE], [files |-> {"other"}, cfg |-> TRUE]}
    /\ lsm = grub.cfg
    /\ lic = [stored |-> "none", over |-> FALSE]
    /\ bundle = [p \in Parts |-> NoFile]
    /\ got = "none"
    /\ pe = NoContainer
    /\ dropin = FALSE
    /\ disk = NoDisk /\ ev = NoDisk
    /\ pc = Idle
    /\ used = 0 /\ faults = 0
    /\ lost = FALSE /\ whole = FALSE

Fetch ==
    \/ \E t \in Tokens, production \in BOOLEAN : FetchStart(t, production)
    \/ StoreOpened \/ StoreWritten
    \/ \E route \in {<<0, "none">>, <<1, "release asset host">>, <<1, "elsewhere">>,
                      <<2, "release asset host">>}, d \in Answers :
          fetch_bundle(route[1], route[2], d)
    \/ \E p \in Parts : MoveChild(p)

Install ==
    \/ \E p \in Policies, sig \in Signatures, url \in BOOLEAN : InstallStart(p, sig, url)
    \/ \E d \in Archives, gates \in BOOLEAN : InstallFetch(d, gates)
    \/ \E gates \in BOOLEAN : InstallPlan(gates)
    \/ \E ok \in BOOLEAN : InstallLoad(ok) \/ InstallRun(ok) \/ wait_for_observe_host(~ok)
    \/ InstallSave

Enforce ==
    \/ \E p \in Policies, preset \in BOOLEAN : EnforceStart(p, preset)
    \/ \E ok \in BOOLEAN : EnforceRemove(ok) \/ EnforceRun(ok) \/ EnforceLogs(ok)
    \/ \E ok, elsewhere \in BOOLEAN : EnforcePrograms(ok, elsewhere)
    \/ EnforceHealth \/ EnforceSnapshot \/ EnforceSave

Remove ==
    \/ RemoveStart \/ RemoveWord \/ RemoveFinish \/ verify_removal
    \/ \E answer \in {"ok", "absent", "error"}, done, blind \in BOOLEAN :
          RemoveStop(answer, done, blind) \/ RemoveContainer(answer, done, blind)
    \/ \E ok \in BOOLEAN : RemovePins(ok) \/ RemoveUnits(ok)
    \/ \E res \in Updates : remove_grub_dropin(res)

Next ==
    \/ Fetch \/ Install \/ Enforce \/ Remove
    \/ PrepareStart \/ (\E res \in Updates : prepare(res))
    \/ (\E remove \in BOOLEAN : EnrollWrite(remove)) \/ (\E ok \in BOOLEAN : EnrollReload(ok))
    \/ LoaderAttaches \/ LoaderReports \/ LoaderDies
    \/ Kill \/ Reboot \/ Expire

Spec == Init /\ [][Next]_vars

-----------------------------------------------------------------------------
(* Properties.                                                             *)

\* A fetch that answered VERIFIED leaves a directory with the files of one
\* download, signed with a key of the class its path allows, however many
\* fetches were cut short before it (fetch_bundle moves the children one by
\* one).
BundleIsOneRelease ==
    got # "none" =>
        /\ \A p, q \in Parts : bundle[p] = bundle[q]
        /\ \A p \in Parts : bundle[p].key = got /\ bundle[p].intact

\* HEALTHY or DEGRADED after an install: this install's loader had printed its
\* banner and owns the pins, the bundle is the sealed release, and no required
\* fact of the host was bad or unread (run_one_command, wait_for_observe_host).
InstallIsEarned ==
    [][(disk.state = "APPLYING" /\ disk'.state \in {"HEALTHY", "DEGRADED"}) =>
        /\ pe.kind = "observe" /\ pe.said /\ pins = "own"
        /\ \A p \in Parts : bundle[p].rel = "sealed" /\ bundle[p].intact
        /\ \A id \in CheckIds \ {"mem", "enterprise", "motion", "npm"} :
              facts[id] = "good"]_vars

\* The record turns PROTECTED only on a kernel booted with the bpf LSM, while
\* the transaction's container is an enforcing one whose loader has printed
\* its banner (apply_enforce_enrolled ignores docker's exit codes and looks at
\* logs and programs at different moments).
ProtectedIsEarned ==
    [][(disk.prot # "PROTECTED" /\ disk'.prot = "PROTECTED") =>
        lsm /\ pe.kind = "enforce" /\ pe.said]_vars

\* The independent verifier, which computes health again from the evidence,
\* agrees with the recorded health after every command that ended by deriving
\* it, whatever fetch, host-prep and enroll copied since.
VerifierAgrees ==
    (pc = Idle /\ whole) => recompute_health(ev.snap, ev.limited) = ev.health

\* When verify-removal says so, the container and the pins are gone, the
\* customer's files too, and grub.cfg has the word only if a file of the
\* server's own asks for it, unless update-grub was cut off or failed in
\* host-prep before.
RemovalIsTrue ==
    [][(disk.state # "VERIFIED_REMOVED" /\ disk'.state = "VERIFIED_REMOVED") =>
        /\ pe = NoContainer /\ pins = "none" /\ ~dropin /\ lic.stored = "none"
        /\ lost \/ (grub.cfg => grub.files = {"other"})]_vars

=============================================================================
