----------------------------- MODULE GcpBattery -----------------------------
(***************************************************************************)
(* The battery run of the offline GCP lab (scripts/gcp/offline_deliver 1-4):*)
(* a runner drives one guest over an IAP tunnel.  It proves the boot-time  *)
(* LSM guard, runs the enterprise and descendant batteries Repeats times   *)
(* with a reboot inside each repeat, kills and restarts the loader,        *)
(* uninstalls, and runs the three phases.  Every verdict is read from one  *)
(* rows file on the guest that every script overwrites and that survives a *)
(* reboot.                                                                 *)
(*                                                                         *)
(* The tunnel may drop during any guest script.  The script may go on      *)
(* without its tunnel ("stray") or die; a drop before the PY_RC line is    *)
(* retried once, and so is a script that ended before that line and whose  *)
(* output looks like a dead tunnel.  A reboot kills every script and may be*)
(* the guest's last.                                                       *)
(***************************************************************************)
EXTENDS Naturals, Sequences, FiniteSets, Functions

CONSTANTS
    Repeats,      \* BATTERY_REPEATS
    Phases,       \* PHASE_MODES, in order
    MaxDrops,     \* bound: tunnels lost, or taken for lost, while a guest script runs
    MaxBoots      \* bound: boots of the guest

ASSUME BatteryAssumption ==
    /\ Repeats \in Nat \ {0} /\ MaxDrops \in Nat /\ MaxBoots \in Nat \ {0}
    /\ Phases \in Seq(STRING) /\ IsInjective(Phases)
    /\ Range(Phases) \cap {"lsm-guard", "enterprise", "pre", "post", "2d", "2c",
                           "uninstall", "none", "lsm"} = {}

VARIABLES
    guest,   \* boot number, LSM list, boot menu, files, pending reboot, loader
    jobs,    \* guest scripts that run: [mode, n, at, own]
    run,     \* the runner's program state
    repeats, \* the summary of every finished repeat
    drops    \* tunnels lost so far, or taken for lost

batteryVars == <<guest, jobs, run, repeats, drops>>

NoRows == [kind |-> "none", n |-> 0, boot |-> 0, ok |-> FALSE,
           word |-> "none", bpf |-> FALSE, preN |-> 0, preBoot |-> 0]
NoPre == [n |-> 0, boot |-> 0, ok |-> FALSE]

\* _py_rc: no PY_RC line came through the tunnel.
NoPy == 9

PhaseModes == Range(Phases)
Modes == {"lsm-guard", "enterprise", "pre", "post", "2d", "2c", "uninstall"} \cup PhaseModes

-----------------------------------------------------------------------------
(* What the guest's scripts write.                                         *)

Rows(kind, n, ok, word) ==
    [NoRows EXCEPT !.kind = kind, !.n = n, !.boot = guest.boot, !.ok = ok,
                   !.word = word, !.bpf = guest.bpf]

\* lsm_boot_decision and lsm_status_body: a recorded request has to show bpf on
\* this boot; without a record a listed bpf is the stock kernel's own.
lsm_boot_decision ==
    IF guest.record THEN IF guest.bpf THEN "LSM_ENABLED" ELSE "FAIL"
    ELSE IF guest.bpf THEN "LSM_ALREADY_ACTIVE" ELSE "proof"

\* The reboot the runner saw taken for the one between pre and post.
b1_pass_AnyBoot(ok) == guest.pre.ok /\ ok

\* A descendant post compares its own boot with the one in b1-pre.json.
b1_pass(ok) == guest.pre.ok /\ ok /\ guest.pre.boot # guest.boot

PostRows(n, ok) ==
    [Rows("post", n, b1_pass(ok), "none") EXCEPT
        !.preN = guest.pre.n, !.preBoot = guest.pre.boot]

-----------------------------------------------------------------------------
(* Reading the rows on the runner.                                         *)

confirm_matches_boot(rows, boot) == rows.kind # "none" /\ boot # 0 /\ rows.boot = boot

guard_ready(rows, boot) == rows.word = "GUARD_PROVED" /\ confirm_matches_boot(rows, boot)

stock_bpf_ready(rows, boot) ==
    /\ confirm_matches_boot(rows, boot)
    /\ rows.word \in {"LSM_ALREADY_ACTIVE", "LSM_ENABLED"}
    /\ rows.bpf

lsm_confirm_ok(rows) == rows.word \in {"LSM_ENABLED", "LSM_ALREADY_ACTIVE"} /\ rows.bpf

\* live_lsm_from_probe and live_stock_bpf: the live files of the boot waited for
\* replace a rows file of another boot.
Live(word) == Rows("lsm", 0, FALSE, word)
live_lsm_from_probe(boot) == guest.up /\ guest.boot = boot /\ guest.bpf

reboot_ready(before, after) == before # 0 /\ after # 0 /\ before # after

RepeatPasses(s) ==
    /\ s.ent \/ s.hold
    /\ s.desc /\ s.b1 /\ s.observed

full_set_passes ==
    /\ Len(repeats) = Repeats
    /\ \A i \in 1 .. Repeats : repeats[i].n = i /\ RepeatPasses(repeats[i])

-----------------------------------------------------------------------------
\* ent: the enterprise battery exited 0 or holds, either will do.  desc: the
\* descendant battery exited 0.  entN: whose rows the hold was read from.
NoRepeat == [n |-> 0, ent |-> FALSE, hold |-> FALSE, desc |-> FALSE, b1 |-> FALSE,
             observed |-> FALSE, entN |-> 0, postN |-> 0, preN |-> 0,
             preBoot |-> 0, postBoot |-> 0]

\* A fresh guest; its stock image may already list bpf among its LSMs.
BatteryInit ==
    /\ \E stock \in BOOLEAN :
       guest = [up |-> TRUE, boot |-> 1, bpf |-> stock, stock |-> stock, menu |-> stock,
                record |-> FALSE, rows |-> NoRows, pre |-> NoPre,
                timer |-> FALSE, inst |-> FALSE, stray |-> FALSE]
    /\ jobs = {}
    /\ run = [pc |-> "hu", n |-> 1, tries |-> 0, rc |-> 0, py |-> NoPy,
              before |-> 0, after |-> 0, lsm |-> "missing",
              s |-> NoRepeat, passed |-> FALSE, marks |-> FALSE, pid |-> FALSE,
              loader |-> FALSE, clean |-> FALSE,
              blocked |-> FALSE, verified |-> FALSE, row |-> FALSE, phases |-> <<>>, exit |-> "none"]
    /\ repeats = <<>>
    /\ drops = 0

Running == run.exit = "none"
Exit(code) == run' = [run EXCEPT !.pc = "done", !.exit = code]
GoTo(pc) == run' = [run EXCEPT !.pc = pc]

\* The phase the runner is at: one row per phase so far.
Phase == Phases[Len(run.phases) + 1]

\* A pc at which the runner calls the guest, and the script it calls.
ModeAt(pc) ==
    CASE pc \in {"guard", "confirm"} -> "lsm-guard"
      [] pc = "phase" -> Phase
      [] pc \in {"unin", "phaseUnin"} -> "uninstall"
      [] OTHER -> pc
CallPcs == {"guard", "confirm", "enterprise", "pre", "post", "2d", "2c",
            "unin", "phase", "phaseUnin"}

-----------------------------------------------------------------------------
(* The tunnel.                                                             *)

Own == [mode |-> ModeAt(run.pc), n |-> run.n, at |-> "start", own |-> TRUE]

\* _ssh, _ssh_case and _phase_ssh_case: one guest script, and a second one when
\* the tunnel died before PY_RC and sshd is back.
Call ==
    /\ Running /\ run.pc \in CallPcs /\ run.tries = 0
    /\ run' = [run EXCEPT !.tries = 1, !.py = NoPy, !.verified = FALSE]
    /\ jobs' = jobs \cup IF guest.up THEN {Own} ELSE {}
    /\ UNCHANGED <<guest, repeats, drops>>

OwnJobs == {j \in jobs : j.own}

\* The call came back: the script ended (rc), or the tunnel is gone.
Answered(rc, py) == [run EXCEPT !.tries = 3, !.rc = rc, !.py = py]

\* No retry for the uninstall calls, and none once PY_RC was printed.
Retry ==
    /\ Running /\ run.pc \in CallPcs /\ run.tries \in {1, 2} /\ OwnJobs = {}
    /\ IF run.tries = 1 /\ guest.up /\ ModeAt(run.pc) # "uninstall"
          THEN /\ run' = [run EXCEPT !.tries = 2]
               /\ jobs' = jobs \cup {Own}
          ELSE run' = Answered(255, NoPy) /\ UNCHANGED jobs
    /\ UNCHANGED <<guest, repeats, drops>>

\* Any poll or retry may also give up for time (sshd not back in time).
GiveUp ==
    /\ Running /\ run.pc \in CallPcs /\ run.tries = 1 /\ OwnJobs = {}
    /\ run' = Answered(255, NoPy)
    /\ UNCHANGED <<guest, jobs, repeats, drops>>

\* What PY_RC says once it is out.  The enterprise script prints it last of all.
PyOut(j) ==
    IF j.mode = "enterprise" \/ j.at \notin {"tail", "tailFail"} THEN NoPy
    ELSE IF j.at = "tail" THEN 0 ELSE 1

TunnelDrops(j, goesOn) ==
    /\ j \in OwnJobs /\ drops < MaxDrops
    /\ drops' = drops + 1
    /\ jobs' = (jobs \ {j}) \cup IF goesOn THEN {[j EXCEPT !.own = FALSE]} ELSE {}
    /\ guest' = [guest EXCEPT !.stray = @ \/ goesOn]
    /\ run' = IF PyOut(j) # NoPy THEN Answered(255, PyOut(j)) ELSE run
    /\ UNCHANGED repeats

-----------------------------------------------------------------------------
(* The guest scripts (gcp/lab-guests/enterprise-rows.sh).                  *)

Move(j, at) == jobs' = (jobs \ {j}) \cup {[j EXCEPT !.at = at]}

\* The script ended with rc; its own runner sees PY_RC.
End(j, rc) ==
    /\ jobs' = jobs \ {j}
    /\ run' = IF j.own THEN Answered(rc, rc) ELSE run

\* The script ended before its PY_RC line.  _transport_failure takes a marker
\* anywhere in the output ("4010", "connection refused") for a dead tunnel.
EndEarly(j, rc) ==
    \/ End(j, rc) /\ UNCHANGED drops
    \/ /\ j.own /\ drops < MaxDrops
       /\ drops' = drops + 1
       /\ jobs' = jobs \ {j} /\ UNCHANGED run

\* Every script drops the rows it is about to write, once its packages, docker and
\* the image are there.  A descendant post keeps the durable file, a pre drops
\* b1-pre.json too, an uninstall touches neither; a guard drops first of all, and an
\* LSM that has its boot decided ends there.
ScriptStarts(j) ==
    /\ j \in jobs /\ j.at = "start" /\ guest.up
    /\ IF j.mode = "lsm-guard" /\ lsm_boot_decision # "proof"
          THEN /\ guest' = [guest EXCEPT !.rows = Rows("lsm", j.n, FALSE, lsm_boot_decision)]
               /\ EndEarly(j, IF lsm_boot_decision = "FAIL" THEN 2 ELSE 0)
          ELSE /\ guest' = [guest EXCEPT
                     !.rows = IF j.mode \in {"post", "uninstall"} THEN @ ELSE NoRows,
                     !.pre = IF j.mode = "pre" THEN NoPre ELSE @]
               /\ Move(j, "work") /\ UNCHANGED <<run, drops>>
    /\ UNCHANGED repeats

\* The script is refused before it dropped any rows (H-U, packages, docker, image),
\* or it fails after that and leaves none.  The batteries on python print PY_RC then,
\* an enterprise script and a guard need not have come that far.
ScriptRefused(j) ==
    /\ j \in jobs /\ j.at \in {"start", "work"} /\ guest.up
    /\ IF j.at = "start" \/ j.mode \in {"lsm-guard", "enterprise"}
          THEN EndEarly(j, 1) ELSE End(j, 1) /\ UNCHANGED drops
    /\ UNCHANGED <<guest, repeats>>

\* run_lsm_guard: the loader refused, the boot menu carries the token, the
\* request is recorded; otherwise a FAIL row and nothing to boot.
run_lsm_guard(n, ok) ==
    [guest EXCEPT !.rows = Rows("lsm", n, FALSE, IF ok THEN "GUARD_PROVED" ELSE "FAIL"),
                  !.menu = @ \/ ok, !.record = ok]

\* The rows each script leaves, with the verdict of its grader; all of them install
\* the engine first.
enterprise_rows(n, ok) == [guest EXCEPT !.rows = Rows("enterprise", n, ok, "none"), !.inst = TRUE]
b1_pre(n, ok) == [guest EXCEPT !.rows = Rows("pre", n, ok, "none"), !.inst = TRUE,
                               !.pre = [n |-> n, boot |-> guest.boot, ok |-> ok]]
b1_post(n, ok) == [guest EXCEPT !.rows = PostRows(n, ok), !.inst = TRUE]
run_2d(n, ok) == [guest EXCEPT !.rows = Rows("2d", n, ok, "none"), !.inst = TRUE]
run_2c(n, ok) == [guest EXCEPT !.rows = Rows("2c", n, ok, "none"), !.inst = TRUE]
run_phase(mode, n, ok) == [guest EXCEPT !.rows = Rows(mode, n, ok, "none"), !.inst = TRUE]
product_uninstall(ok) == [guest EXCEPT !.inst = @ /\ ~ok]

Measured(j, ok) ==
    CASE j.mode = "lsm-guard" -> run_lsm_guard(j.n, ok)
      [] j.mode = "enterprise" -> enterprise_rows(j.n, ok)
      [] j.mode = "pre" -> b1_pre(j.n, ok)
      [] j.mode = "post" -> b1_post(j.n, ok)
      [] j.mode = "2d" -> run_2d(j.n, ok)
      [] j.mode = "2c" -> run_2c(j.n, ok)
      [] j.mode = "uninstall" -> product_uninstall(ok)
      [] OTHER -> run_phase(j.mode, j.n, ok)

ScriptMeasures(j, ok) ==
    /\ j \in jobs /\ j.at = "work" /\ guest.up
    /\ guest' = Measured(j, ok)
    /\ IF j.mode = "uninstall"
          THEN /\ jobs' = jobs \ {j}
               /\ \E rc \in {0, 1} : /\ ok \/ rc = 1
                                     /\ run' = IF j.own THEN [Answered(rc, NoPy) EXCEPT !.verified = ok] ELSE run
          ELSE Move(j, IF ok THEN "tail" ELSE "tailFail") /\ UNCHANGED run
    /\ UNCHANGED <<repeats, drops>>

\* The enterprise script uninstalls before it ends; a pre, and a proved guard,
\* leave a reboot behind.
ScriptEnds(j) ==
    /\ j \in jobs /\ j.at \in {"tail", "tailFail"} /\ guest.up
    /\ guest' = [guest EXCEPT !.timer = @ \/ j.mode = "pre"
                                          \/ (j.mode = "lsm-guard" /\ guest.rows.word = "GUARD_PROVED"),
                           !.inst = @ /\ ~(j.mode = "enterprise" /\ j.at = "tail")]
    /\ End(j, IF j.at = "tail" THEN 0 ELSE 1)
    /\ UNCHANGED <<repeats, drops>>

\* The forced reboot: scripts and tunnels die, the kernel that comes up may or
\* may not have taken the menu's LSM list, and the guest may never come back.
Reboot(back, bpf) ==
    /\ bpf \in {guest.stock, guest.menu}
    /\ guest.timer /\ guest.up /\ guest.boot < MaxBoots
    /\ guest' = [guest EXCEPT !.boot = @ + 1, !.timer = FALSE, !.up = back, !.bpf = bpf]
    /\ jobs' = {}
    /\ run' = IF \E j \in OwnJobs : PyOut(j) # NoPy
                 THEN Answered(255, PyOut(CHOOSE j \in OwnJobs : TRUE)) ELSE run
    /\ UNCHANGED <<repeats, drops>>

-----------------------------------------------------------------------------
(* The runner (run_batteries).                                             *)

Got == Running /\ run.pc \in CallPcs /\ run.tries = 3

\* The next step of the runner, with its call answered.
Then(pc) == [run EXCEPT !.pc = pc, !.tries = 0, !.rc = 0, !.py = NoPy, !.verified = FALSE]

\* A call's exit code: PY_RC when it came through, else the transport's.
Zero == IF run.py # NoPy THEN run.py = 0 ELSE run.rc = 0

\* _pull_guest_json and _rows_for_boot: no file is rows_missing.
Pulls == guest.up /\ guest.rows.kind # "none"

\* require_host_evidence: a verdict other than PASS stops the run.
HostEvidence ==
    /\ Running /\ run.pc = "hu"
    /\ GoTo("before") \/ Exit("h_u")
    /\ UNCHANGED <<guest, jobs, repeats, drops>>

\* _prepare_lab_lsm up to the guard: the boot id comes first.
ReadBootBefore ==
    /\ Running /\ run.pc = "before"
    /\ IF guest.up THEN run' = [run EXCEPT !.pc = "guard", !.before = guest.boot]
                   ELSE Exit("lsm")
    /\ UNCHANGED <<guest, jobs, repeats, drops>>

\* The guard's rows: an active stock LSM ends the preparation, a guard proved on
\* this boot leads to the reboot, everything else refuses.
JudgeGuard ==
    /\ Got /\ run.pc = "guard"
    /\ CASE ~Pulls -> Exit("rows_missing")
         [] Pulls /\ guest.rows.word = "LSM_ALREADY_ACTIVE" ->
               IF stock_bpf_ready(guest.rows, run.before) \/ live_lsm_from_probe(run.before)
                  THEN run' = [Then("repeat") EXCEPT !.lsm = "already_active"]
                  ELSE Exit("lsm")
         [] Pulls /\ guest.rows.word # "LSM_ALREADY_ACTIVE" ->
               IF guard_ready(guest.rows, run.before)
                  THEN run' = Then("waitGuard") ELSE Exit("lsm")
    /\ UNCHANGED <<guest, jobs, repeats, drops>>

\* _wait_boot: the new boot id, or nothing when the wait ran out.
WaitGuardBoot ==
    /\ Running /\ run.pc = "waitGuard"
    /\ \/ /\ guest.up /\ reboot_ready(run.before, guest.boot)
          /\ run' = [run EXCEPT !.pc = "confirm", !.after = guest.boot]
       \/ Exit("lsm")
    /\ UNCHANGED <<guest, jobs, repeats, drops>>

\* The confirm: rows of another boot are replaced by the live files of the boot
\* waited for, a guard proved again on this boot is followed up by one more boot
\* (outside the model: the recorded request never lets a guard be proved twice).
JudgeConfirm ==
    /\ Got /\ run.pc = "confirm"
    /\ IF ~Pulls THEN Exit("rows_missing")
       ELSE LET matched == confirm_matches_boot(guest.rows, run.after)
                adopted == live_lsm_from_probe(run.after)
                body    == IF matched THEN guest.rows ELSE Live("LSM_ENABLED")
            IN IF (matched \/ adopted) /\ lsm_confirm_ok(body)
                  THEN run' = [Then("repeat") EXCEPT !.lsm = "lsm_enabled"]
                  ELSE Exit("lsm")
    /\ UNCHANGED <<guest, jobs, repeats, drops>>

\* The head of the repeat loop: a host that is down ends it, a lockout the run.
Repeat ==
    /\ Running /\ run.pc = "repeat"
    /\ IF run.n > Repeats THEN GoTo("marks")
       ELSE IF run.n = 1 \/ guest.up
               THEN run' = [run EXCEPT !.pc = "enterprise", !.s = NoRepeat]
       ELSE GoTo("marks") \/ Exit("safety")
    /\ UNCHANGED <<guest, jobs, repeats, drops>>

\* _enterprise_hold: what the rows file says, whoever wrote it.
EnterpriseHold == guest.rows.kind = "enterprise" /\ guest.rows.ok

\* The enterprise rows, the boot id for the reboot, then the descendant pre.
JudgeEnterprise ==
    /\ Got /\ run.pc = "enterprise"
    /\ IF ~Pulls THEN Exit("rows_missing")
       ELSE run' = [Then("pre") EXCEPT
              !.before = guest.boot,
              !.s = [@ EXCEPT !.n = run.n, !.ent = run.rc = 0 \/ EnterpriseHold,
                              !.hold = EnterpriseHold,
                              !.entN = IF EnterpriseHold THEN guest.rows.n ELSE 0]]
    /\ UNCHANGED <<guest, jobs, repeats, drops>>

JudgePre ==
    /\ Got /\ run.pc = "pre"
    /\ IF ~Pulls THEN Exit("rows_missing")
       ELSE run' = [Then("waitReboot") EXCEPT !.s.desc = Zero]
    /\ UNCHANGED <<guest, jobs, repeats, drops>>

\* _finish_repeat.  Of a repeat that fails only the failure is kept.
FinishRepeat(s) ==
    /\ repeats' = Append(repeats, IF RepeatPasses(s) THEN s ELSE [NoRepeat EXCEPT !.n = s.n])
    /\ run' = [Then("repeat") EXCEPT !.n = @ + 1, !.s = NoRepeat, !.before = 0, !.after = 0]

\* The reboot is observed by a new boot id; else the repeat ends here, or the
\* run when the serial console shows a lockout.
WaitReboot ==
    /\ Running /\ run.pc = "waitReboot"
    /\ \/ /\ guest.up /\ reboot_ready(run.before, guest.boot)
          /\ run' = [run EXCEPT !.pc = "post", !.after = guest.boot]
          /\ UNCHANGED repeats
       \/ FinishRepeat(run.s)
       \/ ~guest.up /\ Exit("safety") /\ UNCHANGED repeats
    /\ UNCHANGED <<guest, jobs, drops>>

JudgePost ==
    /\ Got /\ run.pc = "post"
    /\ IF ~Pulls \/ guest.rows.kind # "post" THEN Exit("rows_missing") /\ UNCHANGED repeats
       ELSE FinishRepeat([run.s EXCEPT
              !.desc = Zero,
              !.b1 = guest.rows.ok, !.observed = TRUE,
              !.postN = guest.rows.n, !.preN = guest.rows.preN,
              !.preBoot = guest.rows.preBoot, !.postBoot = guest.rows.boot])
    /\ UNCHANGED <<guest, jobs, drops>>

\* full_set_passes is read here; then the sizes of the two ledgers before the
\* kill.
Marks ==
    /\ Running /\ run.pc = "marks"
    /\ \E m \in BOOLEAN : (m => guest.up) /\ run' = [run EXCEPT !.pc = "2d", !.marks = m, !.passed = full_set_passes]
    /\ UNCHANGED <<guest, jobs, repeats, drops>>

\* _loader_case: infra_retry when the tunnel died for good.
InfraRetry == run.rc = 255 /\ run.py = NoPy

\* _loader_word: held, or not.  loader: killed and restarted, both of them held.
LoaderHeld == ~InfraRetry /\ guest.rows.kind = run.pc /\ guest.rows.ok

JudgeLoader ==
    /\ Got /\ run.pc \in {"2d", "2c"}
    /\ IF ~InfraRetry /\ ~Pulls THEN Exit("rows_missing")
       ELSE run' = IF run.pc = "2d"
                      THEN [Then("2c") EXCEPT !.loader = LoaderHeld, !.pid = LoaderHeld]
                      ELSE [Then("unin") EXCEPT !.loader = run.loader /\ LoaderHeld]
    /\ UNCHANGED <<guest, jobs, repeats, drops>>

\* The exit code alone: 1 is also the code of a missing post-kill row.
phase_host_clean_Exit == run.rc \in {0, 1}

\* phase_host_clean: an exact UNINSTALL_VERIFIED line and an exit of the script.
phase_host_clean == run.rc \in {0, 1} /\ run.verified

\* The post-kill row counts only with a probe pid and the marks of this run.
\* clean: the row and the uninstall, both of them good.
JudgeUninstall ==
    /\ Got /\ run.pc = "unin"
    /\ \E row \in BOOLEAN :
          run' = [Then("phaseHead") EXCEPT
                    !.clean = phase_host_clean /\ row /\ run.pid /\ run.marks,
                    !.marks = FALSE, !.pid = FALSE, !.blocked = ~phase_host_clean]
    /\ UNCHANGED <<guest, jobs, repeats, drops>>

-----------------------------------------------------------------------------
(* The three phases (run_phase_batteries).                                 *)

Appended(row) == Append(run.phases, row)

\* The head of the loop.  A dirty host blocks every later phase; so does a
\* deadline that is too close, which is for good.
PhaseHead ==
    /\ Running /\ run.pc = "phaseHead"
    /\ IF Len(run.phases) = Len(Phases) THEN GoTo("final")
       ELSE \E late \in BOOLEAN :
          IF run.blocked \/ late
             THEN run' = [run EXCEPT !.blocked = TRUE, !.phases = Appended(FALSE)]
             ELSE GoTo("phase")
    /\ UNCHANGED <<guest, jobs, repeats, drops>>

\* _run_one_phase: the rows of this phase, or the reason there are none.  The
\* uninstall follows either way, unless the phase raised.
JudgePhase ==
    /\ Got /\ run.pc = "phase"
    /\ \/ run' = [Then("phaseUnin") EXCEPT
                  !.row = ~InfraRetry /\ Pulls /\ guest.rows.kind = Phase /\ guest.rows.ok]
       \/ run' = [Then("phaseHead") EXCEPT !.blocked = TRUE, !.phases = Appended(FALSE)]
    /\ UNCHANGED <<guest, jobs, repeats, drops>>

\* phase_row and phase_verdict: a pass needs a verified uninstall.
JudgePhaseUninstall ==
    /\ Got /\ run.pc = "phaseUnin"
    /\ run' = [Then("phaseHead") EXCEPT
                 !.phases = Appended(run.row /\ phase_host_clean),
                 !.row = FALSE, !.blocked = ~phase_host_clean]
    /\ UNCHANGED <<guest, jobs, repeats, drops>>

phases_pass == \A i \in DOMAIN Phases : run.phases[i]

\* The end of run_batteries: the first gap names the exit.
Final ==
    /\ Running /\ run.pc = "final"
    /\ Exit(IF ~run.passed THEN "battery"
            ELSE IF ~run.loader THEN "loader"
            ELSE IF ~run.clean THEN "uninstall"
            ELSE IF ~phases_pass THEN "phases" ELSE "pass")
    /\ UNCHANGED <<guest, jobs, repeats, drops>>

Done == ~Running /\ UNCHANGED batteryVars

Runner ==
    \/ HostEvidence \/ ReadBootBefore \/ JudgeGuard \/ WaitGuardBoot \/ JudgeConfirm
    \/ Repeat \/ JudgeEnterprise \/ JudgePre \/ WaitReboot \/ JudgePost
    \/ Marks \/ JudgeLoader \/ JudgeUninstall
    \/ PhaseHead \/ JudgePhase \/ JudgePhaseUninstall \/ Final
    \/ Call \/ Retry \/ GiveUp

Script(j) ==
    \/ ScriptStarts(j) \/ ScriptRefused(j) \/ ScriptEnds(j)
    \/ \E ok \in BOOLEAN : ScriptMeasures(j, ok)

BatteryNext ==
    \/ Runner
    \/ Running /\ \E j \in jobs : Script(j)
    \/ Running /\ \E j \in jobs, goesOn \in BOOLEAN : TunnelDrops(j, goesOn)
    \/ Running /\ \E back, bpf \in BOOLEAN : Reboot(back, bpf)
    \/ Done

BatterySpec == BatteryInit /\ [][BatteryNext]_batteryVars

-----------------------------------------------------------------------------
(* Properties.                                                             *)

\* Types, and that every call has at most one script with a live tunnel.
BatteryTypeOK ==
    /\ guest.boot \in 1 .. MaxBoots /\ guest.pre.boot \in 0 .. guest.boot
    /\ guest.rows.kind \in Modes \cup {"none", "lsm"} /\ guest.rows.boot \in 0 .. guest.boot
    /\ \A j \in jobs : j.mode \in Modes /\ j.n \in 1 .. Repeats + 1
                       /\ j.at \in {"start", "work", "tail", "tailFail"}
    /\ Cardinality(OwnJobs) <= 1
    /\ OwnJobs # {} => run.pc \in CallPcs /\ run.tries \in {1, 2}
    /\ run.tries \in 0 .. 3 /\ run.n \in 1 .. Repeats + 1
    /\ Len(repeats) <= Repeats /\ Len(run.phases) <= Len(Phases)
    /\ drops \in 0 .. MaxDrops

\* A full set that counts (full_set_passes over what _run_one_battery kept) stands on
\* measurements in order: every repeat has the rows of its own post and of a pre on
\* the other side of a reboot, taken after the repeat before had measured its post,
\* and no enterprise hold was read from another script's rows, although lost tunnels
\* leave scripts behind that write the same files.  The pre is the repeat's own, or,
\* after two lost tunnels, one that the repeat before left running and that measured
\* after its post: the post compares boots only, not whose pre it reads.
PassIsEarned ==
    run.passed =>
        /\ Len(repeats) = Repeats
        /\ \A i \in 1 .. Repeats :
              /\ repeats[i].postN = i /\ repeats[i].preN \in {i - 1, i} \ {0}
              /\ repeats[i].preBoot < repeats[i].postBoot
              /\ repeats[i].hold => repeats[i].entN = i
              /\ i > 1 => repeats[i - 1].postBoot <= repeats[i].preBoot

\* A phase is called on a host whose last authorized uninstall is known to have
\* cleaned it, unless a script whose tunnel was lost is still about.
CleanStart ==
    [][run.pc = "phase" /\ run.tries = 0 /\ run'.tries = 1 => ~guest.inst \/ guest.stray]_batteryVars
=============================================================================
