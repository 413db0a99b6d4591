------------------------------ MODULE BootHold ------------------------------
(***************************************************************************)
(* The early-boot hold of enrolled workloads (vantio_install/boot_hold) on *)
(* a live host.  vantio-boot-hold is a command that any root process can   *)
(* run: systemd runs it from two units at boot, an operator from a shell,  *)
(* the installer from its apply and rollback steps.  There is no lock, so  *)
(* the commands interleave, and each of them is a series of file writes    *)
(* and host programs that can stop in the middle.                          *)
(*                                                                         *)
(* A command is a sequence of step names; Step performs the first of them. *)
(***************************************************************************)
EXTENDS Naturals, Sequences, FiniteSets

CONSTANTS
  Workloads, Kind,   \* what can be enrolled: systemd, docker or compose
  Policies,          \* what a signed boot-hold.json may say
  Trusted,           \* the packaged trust file has the key that signs policies
  Commands,          \* what the operator runs
  MaxCommands, MaxBoots, MaxProbes,
  FaultKinds, MaxFaults

Kinds == {"systemd", "docker", "compose"}
Faults == {"iptables", "apparmor", "docker", "engine", "kill"}
AllCommands == {"install", "apply-boot", "from-apply", "release", "break-glass", "remove",
                "enroll", "observe-unenrolled", "opt-out", "opt-in", "configure", "prepare-enforce"}

ASSUME ConstantsAssumption ==
  /\ Kind \in [Workloads -> Kinds]
  /\ Policies \subseteq [enabled : BOOLEAN, hold : BOOLEAN, ordering : BOOLEAN]
  /\ Trusted \in BOOLEAN
  /\ Commands \subseteq AllCommands
  /\ FaultKinds \subseteq Faults
  /\ MaxCommands \in Nat /\ MaxBoots \in Nat /\ MaxProbes \in Nat /\ MaxFaults \in Nat

Families == {"v4", "v6"}
Units == {"hold", "loader", "ready"}
Procs == {"systemd", "operator"}

VARIABLES
  conf,     \* boot-hold.json
  reg,      \* registry.json
  hold,     \* hold-state.json
  tree,     \* the static units and their links are in /etc/systemd/system
  gate,     \* the drop-in, template or unit file of each workload
  prep,     \* pe-loader.argv.json and expected-policy-id are written
  view,     \* the workload files as systemd last loaded them
  svc,      \* the states of the three units
  net,      \* the packet filter chain of each address family
  exc,      \* probe exceptions in the IPv4 chain
  profile,  \* the AppArmor profile, on disk and in the kernel
  pe,       \* Phantom Engine
  live,     \* how each workload runs
  audit,    \* the results logged in this boot
  why,      \* the grounds for letting workloads go
  run,      \* the memory of each process
  count     \* how much of each bound is used

disk == <<conf, reg, hold, tree, gate, prep>>
kernel == <<net, exc, profile>>
vars == <<conf, reg, hold, tree, gate, prep, view, svc, net, exc, profile, pe, live, audit, why, run, count>>

----------------------------------------------------------------------------
(* Policy and registry. *)

Body == [enabled : BOOLEAN, hold : BOOLEAN, ordering : BOOLEAN]

default_policy == [enabled |-> TRUE, hold |-> TRUE, ordering |-> TRUE]

\* A file that is missing, loose or not JSON is "absent": all three mean default_policy.
Conf == [kind : {"absent", "plain", "signed"}, body : Body]

\* Variant with a bug: a plain file is honoured on a live host.
load_policy_Unsigned(c) == IF c.kind = "absent" THEN default_policy ELSE c.body

\* On the live root only an envelope signed by a packaged key counts.
load_policy(c) == IF c.kind = "signed" /\ Trusted THEN c.body ELSE default_policy

\* save_policy writes a plain body, never an envelope.
save_policy(b) == [kind |-> "plain", body |-> b]

\* mechanisms_active: which start gates a policy asks for.
mechanisms_active(b) ==
  {u \in {"hold", "ready"} : b.enabled /\ (u = "hold" => b.hold) /\ (u = "ready" => b.ordering)}

\* A registry whose JSON is damaged is "bad": load_registry raises.
Registry == [ok : BOOLEAN, row : [Workloads -> {"none", "enrolled", "observed"}]]

Enrolled(r) == {w \in Workloads : r.row[w] = "enrolled"}

----------------------------------------------------------------------------
(* Workload files. *)

NoGate == [here |-> FALSE, req |-> {}, hide |-> FALSE]

Gates == [here : BOOLEAN, req : SUBSET {"hold", "ready"}, hide : BOOLEAN]

Gate(req, hide) == [here |-> TRUE, req |-> req, hide |-> hide]

\* write_workload_dropins: one file for each enrolled systemd workload; none
\* when hold and ordering are both off.
write_workload_dropins(g, r, b, fileHold, startGate) ==
  [w \in Workloads |->
    IF Kind[w] # "systemd" \/ w \notin Enrolled(r) THEN g[w]
    ELSE IF mechanisms_active(b) = {} THEN NoGate
    ELSE Gate(IF startGate THEN mechanisms_active(b) ELSE {},
              fileHold /\ "hold" \in mechanisms_active(b))]

\* Variant with a bug: the container template does not require the hold unit.
install_tree_NoHoldGate(g, b) ==
  [w \in Workloads |-> IF Kind[w] = "docker" THEN Gate(mechanisms_active(b) \ {"hold"}, FALSE) ELSE g[w]]

\* install_tree: the container template is one of the static units; a compose
\* project has a unit of its own, which is not.
install_tree(g, b) ==
  [w \in Workloads |-> IF Kind[w] = "docker" THEN Gate(mechanisms_active(b), FALSE) ELSE g[w]]

\* _lift_hold with clear_start_gate: template and compose units lose their gates.
ClearGates(g, r) ==
  [w \in Workloads |->
    IF Kind[w] = "docker" \/ (Kind[w] = "compose" /\ w \in Enrolled(r)) THEN Gate({}, FALSE) ELSE g[w]]

\* remove_from_apply unlinks the static units only.
RemoveTree(g) == [w \in Workloads |-> IF Kind[w] = "docker" THEN NoGate ELSE g[w]]

HasPaths(r) == \E w \in Enrolled(r) : Kind[w] # "compose"

----------------------------------------------------------------------------
(* The commands as scripts. *)

Flush == [f \in Families |-> IF f = "v4" THEN "flush_v4" ELSE "flush_v6"]
Fill == [f \in Families |-> IF f = "v4" THEN "fill_v4" ELSE "fill_v6"]
Lift == [f \in Families |-> IF f = "v4" THEN "lift_v4" ELSE "lift_v6"]

remove_hold == <<Lift["v4"], Lift["v6"]>>

install_hold == <<Flush["v4"], Fill["v4"], Flush["v6"], Fill["v6"]>>

apply_boot(b) ==
  IF "hold" \in mechanisms_active(b)
  THEN <<"files_held">> \o install_hold \o <<"reload", "save_held", "log_held">>
  ELSE remove_hold \o <<"profile_allow", "save_off", "files_gated", "log_off">>

Probe == <<"insert", "judge">>

\* Variant with a bug: a release that is not logged.
Lifting_Silent(breakGlass) ==
  <<"profile_allow">> \o remove_hold \o <<IF breakGlass THEN "files_open" ELSE "files_gated", "save_released">>

\* _lift_hold, which allows the file paths first, and what release writes afterwards.
Lifting(breakGlass) ==
  <<"profile_allow">> \o remove_hold \o <<IF breakGlass THEN "files_open" ELSE "files_gated", "save_released", "log_released">>

\* What each command does after it has been authorized.  The installer's two entry
\* points are enable_from_apply and remove_from_apply.
install(k) == (IF k.kind = "absent" THEN <<"conf">> ELSE <<>>) \o <<"files_tree", "keep_registry", "log_ok">>

enable_from_apply(k) == (IF k.kind = "absent" THEN <<"conf">> ELSE <<>>) \o <<"load">>

\* opt_in and configure save the policy first and read it back in apply_boot.
opt_in == <<"conf", "log_ok", "load">>

release == <<"read">> \o Probe

remove_from_apply == remove_hold \o <<"files_removed", "save_removed", "log_removed">>

enroll == <<"read", "register", "files_enroll", "log_ok">>

observe_unenrolled == <<"read", "register", "log_ok">>

opt_out == <<"conf", "read">> \o remove_hold \o <<"profile_allow", "files_gated", "save_optout", "log_optout">>

prepare_enforce == <<"prepare", "docker_run", "log_ok">>

Script(c, k) ==
  CASE c = "install"            -> install(k)
    [] c = "apply-boot"         -> <<"load">>
    [] c = "from-apply"         -> enable_from_apply(k)
    [] c \in {"opt-in", "configure"} -> opt_in
    [] c \in {"release", "break-glass"} -> release
    [] c = "remove"             -> remove_from_apply
    [] c = "enroll"             -> enroll
    [] c = "observe-unenrolled" -> observe_unenrolled
    [] c = "opt-out"            -> opt_out
    [] c = "prepare-enforce"    -> prepare_enforce

\* The steps that scripts are made of.
Steps == {"conf", "load", "read", "register", "keep_registry", "prepare", "docker_run", "insert", "judge", "reload",
          "files_tree", "files_held", "files_gated", "files_open", "files_removed", "files_enroll", "profile_allow",
          "flush_v4", "flush_v6", "fill_v4", "fill_v6", "lift_v4", "lift_v6",
          "save_held", "save_off", "save_failed", "save_refused", "save_released", "save_removed", "save_optout",
          "log_ok", "log_held", "log_off", "log_failed", "log_refused", "log_released", "log_removed", "log_optout"}

----------------------------------------------------------------------------
(* State. *)

Reasons == {"none", "hold-off", "hold-failed", "boot-hold", "not-ready", "enforce-ready",
            "BREAK_GLASS", "removed", "OPT_OUT"}

HoldState == [network_hold : BOOLEAN, released : BOOLEAN, reason : Reasons]

Grounds == {"ready", "break-glass", "opt-out", "removed", "hold-off", "earlier"}

\* The grounds whose effect on the workload files outlives the boot.
Lasting == {"break-glass", "opt-out", "removed", "hold-off", "earlier"}

\* A policy that the packaged key signed and that turns the hold off is grounds by itself.
PolicyGrounds(c) ==
  {g \in {"hold-off"} : c.kind = "signed" /\ Trusted /\ "hold" \notin mechanisms_active(c.body)}

Idle == [cmd |-> "none", todo |-> <<>>, w |-> "none", arg |-> default_policy,
         body |-> default_policy, rows |-> [w \in Workloads |-> "none"],
         tries |-> 0, bypassed |-> FALSE]

\* A host without Vantio, and one that boots with everything enrolled.
Fresh ==
  /\ conf.kind = "absent"
  /\ reg = [ok |-> TRUE, row |-> [w \in Workloads |-> "none"]]
  /\ gate = [w \in Workloads |-> NoGate]
  /\ tree = FALSE /\ prep = FALSE

Installed ==
  /\ reg = [ok |-> TRUE, row |-> [w \in Workloads |-> "enrolled"]]
  /\ gate = [w \in Workloads |->
       IF Kind[w] = "systemd"
       THEN write_workload_dropins([v \in Workloads |-> NoGate], reg, load_policy(conf), TRUE, TRUE)[w]
       ELSE Gate(mechanisms_active(load_policy(conf)), FALSE)]
  /\ tree = TRUE /\ prep = TRUE

Init ==
  /\ conf \in [kind : {"absent"}, body : {default_policy}] \cup [kind : {"signed"}, body : Policies]
  /\ Fresh \/ Installed
  /\ view = gate
  /\ hold = [network_hold |-> FALSE, released |-> FALSE, reason |-> "none"]
  /\ svc = [u \in Units |-> "inactive"]
  /\ net = [f \in Families |-> "none"] /\ exc = 0
  /\ profile = [file |-> "none", loaded |-> "none"]
  /\ pe = "down"
  /\ live = [w \in Workloads |-> "no"]
  /\ audit = {} /\ why = PolicyGrounds(conf)
  /\ run = [p \in Procs |-> Idle]
  /\ count = [commands |-> 0, boots |-> 0, faults |-> 0, kills |-> 0]

----------------------------------------------------------------------------
(* The frame of a command. *)

m(p) == run[p]
At(p, labels) == m(p).todo # <<>> /\ Head(m(p).todo) \in labels

UnitOf(c) == IF c = "apply-boot" THEN "hold" ELSE "ready"

\* The process ends.  systemd takes its exit status as the state of the unit.
Exit(p, ok) ==
  /\ run' = [run EXCEPT ![p] = Idle]
  /\ svc' = IF p = "systemd" THEN [svc EXCEPT ![UnitOf(m(p).cmd)] = IF ok THEN "active" ELSE "failed"] ELSE svc

Continue(p, mem) == run' = [run EXCEPT ![p] = mem] /\ UNCHANGED svc

Proceed(p) ==
  IF Len(m(p).todo) = 1 THEN Exit(p, Head(m(p).todo) \notin {"log_failed", "log_refused"})
  ELSE Continue(p, [m(p) EXCEPT !.todo = Tail(@)])

Fault(kind) ==
  /\ kind \in FaultKinds /\ count.faults < MaxFaults
  /\ count' = [count EXCEPT !.faults = @ + 1, !.kills = IF kind = "kill" THEN @ + 1 ELSE @]

Steady == UNCHANGED count

\* A command begins, after require_operator: anybody but a root caller outside the
\* slice is refused with a line in the log and nothing else.  opt-out edits the policy it has read; configure refuses
\* to turn both mechanisms off.
Begin(p, c) ==
  /\ m(p).cmd = "none"
  /\ \E w \in IF c \in {"enroll", "observe-unenrolled"} THEN Workloads ELSE {"none"},
        b \in Body :
       /\ CASE c = "configure" -> b \in Policies /\ b.enabled /\ (b.hold \/ b.ordering)
            [] c = "opt-out"   -> b = [load_policy(conf) EXCEPT !.enabled = FALSE]
            [] c = "install"   -> b = load_policy(conf)
            [] OTHER           -> b = default_policy
       /\ run' = [run EXCEPT ![p] = [Idle EXCEPT !.cmd = c, !.w = w, !.arg = b, !.body = b,
                                                 !.todo = Script(c, conf)]]
  /\ why' = why \cup {g \in {"opt-out", "removed"} : c = (IF g = "removed" THEN "remove" ELSE g)}
  /\ UNCHANGED <<disk, view, svc, kernel, pe, live, audit>>

OperatorRuns(c) ==
  /\ count.commands < MaxCommands
  /\ count' = [count EXCEPT !.commands = @ + 1]
  /\ Begin("operator", c)

----------------------------------------------------------------------------
(* The steps. *)

\* load_policy and load_registry.  Every command that meets a damaged registry
\* raises here, break-glass and opt-out included.
ReadStep(p) ==
  LET b == IF m(p).cmd = "opt-out" THEN m(p).body ELSE load_policy(conf)
  IN /\ At(p, {"load", "read"})
     /\ IF ~reg.ok THEN Exit(p, FALSE)
        ELSE LET rest == IF At(p, {"load"}) THEN apply_boot(b) ELSE Tail(m(p).todo)
             IN Continue(p, [m(p) EXCEPT !.body = b, !.rows = reg.row, !.todo = rest])
     /\ Steady
     /\ UNCHANGED <<disk, view, kernel, pe, live, audit, why>>

ConfStep(p) ==
  /\ At(p, {"conf"})
  /\ conf' = save_policy(m(p).arg)
  /\ Proceed(p) /\ Steady
  /\ UNCHANGED <<reg, hold, tree, gate, prep, view, kernel, pe, live, audit, why>>

\* upsert and save_registry, on the copy read before.
RegisterStep(p) ==
  /\ At(p, {"register"})
  /\ LET row == IF m(p).cmd = "enroll" THEN "enrolled" ELSE "observed"
         rows == [m(p).rows EXCEPT ![m(p).w] = row]
         mem == [m(p) EXCEPT !.rows = rows, !.todo = Tail(@)]
     IN reg' = [ok |-> TRUE, row |-> rows] /\ Continue(p, mem)
  /\ Steady
  /\ UNCHANGED <<conf, hold, tree, gate, prep, view, kernel, pe, live, audit, why>>

\* install keeps the registry it finds, and raises on a damaged one.
KeepRegistryStep(p) ==
  /\ At(p, {"keep_registry"})
  /\ IF reg.ok THEN Proceed(p) ELSE Exit(p, FALSE)
  /\ Steady
  /\ UNCHANGED <<disk, view, kernel, pe, live, audit, why>>

\* The files of one new workload: a drop-in, the container template with the name's
\* own link, or a unit of its own.
enroll_systemd(g, r, b) == install_tree(write_workload_dropins(g, r, b, TRUE, TRUE), b)
enroll_docker(g, b) == install_tree(g, b)
enroll_compose(g, b, w) == [install_tree(g, b) EXCEPT ![w] = Gate(mechanisms_active(b), FALSE)]

\* The workload files each group of writes leaves behind.
WorkloadFiles(label, mem) ==
  LET b == mem.body
      r == [ok |-> TRUE, row |-> mem.rows]
      Dropins(hide, gated) == write_workload_dropins(gate, r, b, hide, gated)
  IN CASE label = "files_tree"    -> install_tree(gate, b)
       [] label = "files_held"    -> install_tree(Dropins(TRUE, TRUE), b)
       [] label = "files_gated"   -> install_tree(Dropins(FALSE, TRUE), b)
       [] label = "files_open"    -> ClearGates(Dropins(FALSE, FALSE), r)
       [] label = "files_removed" -> RemoveTree(gate)
       [] label = "profile_allow" -> gate
       [] label = "files_enroll"  ->
            CASE Kind[mem.w] = "systemd" -> enroll_systemd(gate, r, b)
              [] Kind[mem.w] = "docker"  -> enroll_docker(gate, b)
              [] Kind[mem.w] = "compose" -> enroll_compose(gate, b, mem.w)

\* _write_profile: deny with the other files of a hold that goes up, allow by itself
\* when one is lifted, for the protected paths of the enrolled workloads.
ProfileText(label, mem) ==
  IF ~HasPaths([ok |-> TRUE, row |-> mem.rows]) THEN profile.file
  ELSE IF label = "files_held" THEN "deny"
  ELSE IF label = "profile_allow" THEN "allow"
  ELSE profile.file

\* The files a command writes in a row.  The profile is always written; loading it
\* may fail, which no command treats as an error.  Where the hold is lifted,
\* daemon-reload follows.
FileStep(p) ==
  \E label \in {"files_tree", "files_held", "files_gated", "files_open", "files_removed", "files_enroll",
                "profile_allow"} :
    /\ At(p, {label})
    /\ gate' = WorkloadFiles(label, m(p))
    /\ view' = IF label \in {"files_gated", "files_open"} THEN gate' ELSE view
    /\ tree' = (label # "files_removed" /\ (tree \/ label \notin {"files_open", "profile_allow"}))
    /\ LET text == ProfileText(label, m(p))
       IN \/ profile' = [file |-> text, loaded |-> IF text = profile.file THEN profile.loaded ELSE text] /\ Steady
          \/ text # profile.file /\ profile' = [profile EXCEPT !.file = text] /\ Fault("apparmor")
    /\ Proceed(p)
    /\ UNCHANGED <<conf, reg, hold, prep, net, exc, pe, live, audit, why>>

\* install_hold for one family: -N and -F, then -A DROP and the two jumps.
\* Between them the chain is empty; a chain that dropped packets is "emptied", to
\* tell a hold that is written anew from one that is not up yet.
FlushStep(p) ==
  \E f \in Families :
    /\ At(p, {Flush[f]})
    /\ \/ /\ net' = [net EXCEPT ![f] = IF @ \in {"drop", "emptied"} THEN "emptied" ELSE "empty"]
          /\ exc' = (IF f = "v4" THEN 0 ELSE exc)
          /\ Proceed(p) /\ Steady
       \/ /\ Fault("iptables")
          /\ Continue(p, [m(p) EXCEPT !.todo = <<"save_failed", "log_failed">>])
          /\ UNCHANGED <<net, exc>>
    /\ UNCHANGED <<disk, view, profile, pe, live, audit, why>>

\* -A fails on a chain that another command has taken down in the meantime.
FillStep(p) ==
  \E f \in Families :
    /\ At(p, {Fill[f]})
    /\ \/ net[f] # "none" /\ net' = [net EXCEPT ![f] = "drop"] /\ Proceed(p) /\ Steady
       \/ /\ IF net[f] = "none" THEN Steady ELSE Fault("iptables")
          /\ Continue(p, [m(p) EXCEPT !.todo = <<"save_failed", "log_failed">>])
          /\ UNCHANGED net
    /\ UNCHANGED <<disk, view, exc, profile, pe, live, audit, why>>

\* remove_hold ignores every exit status: a failing iptables leaves the chain.
LiftStep(p) ==
  \E f \in Families :
    /\ At(p, {Lift[f]})
    /\ \/ net' = [net EXCEPT ![f] = "none"] /\ exc' = (IF f = "v4" THEN 0 ELSE exc) /\ Steady
       \/ Fault("iptables") /\ UNCHANGED <<net, exc>>
    /\ Proceed(p)
    /\ UNCHANGED <<disk, view, profile, pe, live, audit, why>>

\* _daemon_reload of an apply_boot that holds.  What an earlier boot let go is held
\* again once every workload file is gated; a compose unit that a break-glass has
\* opened is rewritten only when it is enrolled again.
ReloadStep(p) ==
  /\ At(p, {"reload"})
  /\ view' = gate
  /\ why' = IF \A w \in Workloads : gate[w].here => "hold" \in gate[w].req THEN why \ {"earlier"} ELSE why
  /\ Proceed(p) /\ Steady
  /\ UNCHANGED <<disk, kernel, pe, live, audit>>

State(nh, rel, reason) == [network_hold |-> nh, released |-> rel, reason |-> reason]

\* save_hold_state.  A refused release records a network hold whatever the
\* packet filter holds.
SaveStep(p) ==
  \E label \in {"save_held", "save_off", "save_failed", "save_refused", "save_released", "save_removed", "save_optout"} :
    /\ At(p, {label})
    /\ hold' = CASE label = "save_held"     -> State(TRUE, FALSE, "boot-hold")
                 [] label = "save_off"      -> State(FALSE, TRUE, "hold-off")
                 [] label = "save_failed"   -> State(FALSE, FALSE, "hold-failed")
                 [] label = "save_refused"  -> State(TRUE, FALSE, "not-ready")
                 [] label = "save_released" -> State(FALSE, TRUE, IF m(p).cmd = "release" THEN "enforce-ready" ELSE "BREAK_GLASS")
                 [] label = "save_removed"  -> State(FALSE, TRUE, "removed")
                 [] label = "save_optout"   -> State(FALSE, TRUE, "OPT_OUT")
    /\ Proceed(p) /\ Steady
    /\ UNCHANGED <<conf, reg, tree, gate, prep, view, kernel, pe, live, audit, why>>

Logs == {"log_ok", "log_held", "log_off", "log_failed", "log_refused", "log_released", "log_removed", "log_optout"}

LogStep(p) ==
  \E label \in Logs :
    /\ At(p, {label})
    /\ audit' = audit \cup {label}
    /\ Proceed(p) /\ Steady
    /\ UNCHANGED <<disk, view, kernel, pe, live, why>>

\* The deny self-check of assemble_host_facts begins with an exception for the
\* probe's destination.  Without an attached program, or without a chain to open,
\* nothing is tried.
InsertStep(p) ==
  /\ At(p, {"insert"})
  /\ \/ /\ pe = "enforcing" /\ net["v4"] # "none"
        /\ exc' = exc + 1
        /\ Continue(p, [m(p) EXCEPT !.bypassed = TRUE, !.todo = Tail(@)]) /\ Steady
     \/ /\ pe # "enforcing" \/ net["v4"] = "none"
        /\ Continue(p, [m(p) EXCEPT !.bypassed = FALSE, !.todo = Tail(@)])
        /\ UNCHANGED exc /\ Steady
     \/ /\ pe = "enforcing" /\ net["v4"] # "none" /\ Fault("iptables")
        /\ Continue(p, [m(p) EXCEPT !.bypassed = FALSE, !.todo = Tail(@)])
        /\ UNCHANGED exc
  /\ UNCHANGED <<disk, view, net, profile, pe, live, audit, why>>

\* Variant with a bug: a check that was not attempted counts as passed.
Ready_Untried(mem, denied, removed) == mem.bypassed => denied /\ removed

\* interpret_self_check: the connect from inside the slice was denied, with a new
\* block event, by an engine that still enforces.
Denied(mem) == mem.bypassed /\ pe = "enforcing"

\* evaluate_ready, as far as the deny check decides it.
Ready(mem, denied, removed) == mem.bypassed /\ denied /\ removed

\* _wait_ready: the unit waits for its deadline, an operator's release looks once.
Again(p, mem, ready) == ~ready /\ mem.cmd = "release" /\ p = "systemd" /\ mem.tries < MaxProbes

\* Variant with a bug: the probe's exception stays in the chain.
Removed_Kept(n) == n

\* iptables -D of one exception.
Removed(n) == n - 1

\* The exception is removed, then _wait_ready and release decide: try again, go on
\* to lift the hold, or refuse.
JudgeStep(p) ==
  /\ At(p, {"judge"})
  /\ \E removed \in BOOLEAN :
       /\ \/ ~m(p).bypassed /\ removed /\ UNCHANGED exc /\ Steady
          \/ m(p).bypassed /\ removed /\ exc > 0 /\ exc' = Removed(exc) /\ Steady
          \/ m(p).bypassed /\ ~removed /\ exc = 0 /\ UNCHANGED exc /\ Steady
          \/ m(p).bypassed /\ ~removed /\ exc > 0 /\ UNCHANGED exc /\ Fault("iptables")
       /\ LET denied == Denied(m(p))
              ready == Ready(m(p), denied, removed)
              again == Again(p, m(p), ready)
              lift == ready \/ m(p).cmd = "break-glass"
          IN /\ Continue(p, [m(p) EXCEPT
                 !.tries = IF again THEN @ + 1 ELSE @, !.bypassed = FALSE,
                 !.todo = IF again THEN Probe ELSE IF lift THEN Lifting(m(p).cmd = "break-glass")
                          ELSE <<"save_refused", "log_refused">>])
             /\ why' = why \cup {g \in {"ready", "break-glass"} :
                                  IF g = "ready" THEN ready /\ denied ELSE m(p).cmd = g}
  /\ UNCHANGED <<disk, view, net, profile, pe, live, audit>>

\* prepare_enforce: the expected policy id and the loader command, then docker run.
PrepareStep(p) ==
  /\ At(p, {"prepare"})
  /\ prep' = TRUE
  /\ Proceed(p) /\ Steady
  /\ UNCHANGED <<conf, reg, hold, tree, gate, view, kernel, pe, live, audit, why>>

DockerRunStep(p) ==
  /\ At(p, {"docker_run"})
  /\ \/ pe' = "up" /\ Proceed(p) /\ Steady
     \/ Fault("docker") /\ Exit(p, FALSE) /\ UNCHANGED pe
  /\ UNCHANGED <<disk, view, kernel, live, audit, why>>

Step(p) ==
  \/ ReadStep(p) \/ ConfStep(p) \/ RegisterStep(p) \/ KeepRegistryStep(p) \/ FileStep(p)
  \/ FlushStep(p) \/ FillStep(p) \/ LiftStep(p) \/ ReloadStep(p)
  \/ SaveStep(p) \/ LogStep(p) \/ InsertStep(p) \/ JudgeStep(p)
  \/ PrepareStep(p) \/ DockerRunStep(p)

\* The process is killed.  The registry is rewritten in place, so a process
\* killed while it saves it leaves a damaged file.
Kill(p) ==
  /\ m(p).cmd # "none" /\ Fault("kill")
  /\ Exit(p, FALSE)
  /\ reg' = IF At(p, {"register", "keep_registry"}) THEN [reg EXCEPT !.ok = FALSE] ELSE reg
  /\ UNCHANGED <<conf, hold, tree, gate, prep, view, kernel, pe, live, audit, why>>

----------------------------------------------------------------------------
(* systemd, Docker and Phantom Engine. *)

\* The order of the units: the hold first, then the loader, then enforce-ready,
\* which requires the loader.
StartHoldUnit ==
  /\ tree /\ svc["hold"] = "inactive"
  /\ Begin("systemd", "apply-boot") /\ Steady

StartLoaderUnit ==
  /\ tree /\ svc["hold"] # "inactive" /\ svc["loader"] = "inactive" /\ m("systemd").cmd = "none"
  /\ IF prep THEN /\ svc' = [svc EXCEPT !["loader"] = "active"]
                  /\ pe' = IF pe = "down" THEN "up" ELSE pe
     ELSE svc' = [svc EXCEPT !["loader"] = "failed"] /\ UNCHANGED pe
  /\ UNCHANGED <<disk, view, kernel, live, audit, why, run, count>>

StartReadyUnit ==
  /\ tree /\ svc["ready"] = "inactive"
  /\ \/ svc["loader"] = "active" /\ Begin("systemd", "release") /\ Steady
     \/ /\ svc["loader"] = "failed" /\ svc' = [svc EXCEPT !["ready"] = "failed"]
        /\ UNCHANGED <<disk, view, kernel, pe, live, audit, why, run, count>>

EngineAttaches ==
  /\ pe = "up" /\ pe' = "enforcing"
  /\ UNCHANGED <<disk, view, svc, kernel, live, audit, why, run, count>>

EngineExits ==
  /\ pe # "down" /\ pe' = "down" /\ Fault("engine")
  /\ UNCHANGED <<disk, view, svc, kernel, live, audit, why, run>>

\* sysinit.target and docker.service wait for the hold unit to finish; the
\* gates of the loaded unit require their units to be active.
CanStart(w) ==
  /\ tree => svc["hold"] # "inactive"
  /\ view[w].here \/ Kind[w] = "systemd"
  /\ \A u \in view[w].req : svc[u] = "active"

\* A systemd workload without its drop-in runs outside the enrolled slice.
StartWorkload(w) ==
  /\ live[w] = "no" /\ CanStart(w)
  /\ live' = [live EXCEPT ![w] = IF view[w].here THEN "slice" ELSE "outside"]
  /\ UNCHANGED <<disk, view, svc, kernel, pe, audit, why, run, count>>

\* Nothing in the kernel, in /run or in a process survives; AppArmor loads the
\* profile file again and systemd the unit files.
Reboot ==
  /\ count.boots < MaxBoots
  /\ count' = [count EXCEPT !.boots = @ + 1]
  /\ view' = gate
  /\ svc' = [u \in Units |-> "inactive"]
  /\ net' = [f \in Families |-> "none"] /\ exc' = 0
  /\ profile' = [profile EXCEPT !.loaded = profile.file]
  /\ pe' = "down"
  /\ live' = [w \in Workloads |-> "no"]
  /\ audit' = {}
  /\ why' = PolicyGrounds(conf) \cup {g \in {"earlier"} : why \cap Lasting # {}}
  /\ run' = [p \in Procs |-> Idle]
  /\ UNCHANGED disk

Next ==
  \/ \E c \in Commands : OperatorRuns(c)
  \/ \E p \in Procs : Step(p) \/ Kill(p)
  \/ StartHoldUnit \/ StartLoaderUnit \/ StartReadyUnit
  \/ EngineAttaches \/ EngineExits
  \/ \E w \in Workloads : StartWorkload(w)
  \/ Reboot

Spec == Init /\ [][Next]_vars

----------------------------------------------------------------------------
(* Properties. *)

\* status_body, in the order of its branches.
status ==
  CASE ~reg.ok                                    -> "UNKNOWN"
    [] reg.ok /\ ~load_policy(conf).enabled       -> "OPTED_OUT"
    [] OTHER ->
        CASE hold.network_hold /\ ~hold.released  -> "HELD"
          [] hold.reason = "BREAK_GLASS"          -> "BREAK_GLASS"
          [] hold.released /\ hold.reason = "enforce-ready" -> "HANDOFF"
          [] OTHER -> IF load_policy(conf).hold THEN "CONFIGURED" ELSE "HOLD_OFF"

Quiet == \A p \in Procs : m(p).cmd = "none"

Blocked == \A f \in Families : net[f] = "drop"

\* Each chain drops or did and was not taken down since; one is empty at the moment.
Rewriting == ~Blocked /\ \A f \in Families : net[f] \in {"drop", "emptied"}

TypeOK ==
  /\ conf \in Conf /\ reg \in Registry /\ hold \in HoldState
  /\ tree \in BOOLEAN /\ prep \in BOOLEAN
  /\ gate \in [Workloads -> Gates] /\ view \in [Workloads -> Gates]
  /\ svc \in [Units -> {"inactive", "active", "failed"}]
  /\ net \in [Families -> {"none", "empty", "emptied", "drop"}] /\ exc \in Nat
  /\ profile \in [file : {"none", "deny", "allow"}, loaded : {"none", "deny", "allow"}]
  /\ pe \in {"down", "up", "enforcing"}
  /\ live \in [Workloads -> {"no", "slice", "outside"}]
  /\ audit \subseteq Logs /\ why \subseteq Grounds
  /\ run \in [Procs -> [cmd : AllCommands \cup {"none"}, todo : Seq(Steps), w : Workloads \cup {"none"},
                        arg : Body, body : Body, rows : [Workloads -> {"none", "enrolled", "observed"}],
                        tries : 0..MaxProbes, bypassed : BOOLEAN]]

\* The boot hold implements its contract: whatever commands run together, whatever
\* fails, and across reboots, an enrolled workload runs behind both packet chains
\* unless there are grounds to let it go, or a chain of the hold it runs behind is
\* being written anew (net.py:61-62; README, Disagreements: BOOT-HOLD.md:3 says that
\* enrolled workloads stay held until Phantom Engine is enforce-ready).
Contract == INSTANCE HoldContract WITH started <- {w \in Workloads : live[w] = "slice"},
                                       blocked <- Blocked, rewriting <- Rewriting, grounds <- why
ContractKept == Contract!Spec

\* status says that the hold was handed over to enforcement only when a deny
\* check of this boot passed, even though hold-state.json outlives the boot.
HandoffIsEarned == Quiet /\ svc["hold"] = "active" /\ status = "HANDOFF" => "ready" \in why

\* There is no silent release: once this boot's hold was up, an open chain has a
\* line in the audit log, unless a command was killed before it could write one.
NoSilentRelease ==
  Quiet /\ count.kills = 0 /\ svc["hold"] = "active" /\ ~Blocked =>
    audit \cap {"log_released", "log_removed", "log_optout", "log_off", "log_failed"} # {}

\* The self-check takes its exception back, also when two checks and a release
\* overlap: at rest none is left, unless an iptables call failed or a check was killed.
NoExceptionLeft == Quiet /\ count.faults = 0 => exc = 0

\* What status says after a completed opt-out (LIMITATIONS.md: "that opt-out is
\* logged and shown in vantio-boot-hold status").
OptOutIsShown == Quiet /\ hold.reason = "OPT_OUT" => status \in {"OPTED_OUT", "UNKNOWN"}

\* HELD means held (BOOT-HOLD.md: "While the hold is in the packet filter and
\* Phantom Engine is not enforce-ready, state is HELD").
HeldIsHeld == Quiet /\ svc["hold"] = "active" /\ status = "HELD" => Blocked
=============================================================================
