--------------------------- MODULE InstallCatalog ---------------------------
(***************************************************************************)
(* The frozen tables of the Phantom Engine installer: the apply steps      *)
(* (constants.py), the live operations each step runs and the operations   *)
(* that take it back (live_executor.py), what each operation does to the   *)
(* host, and the transaction state table (state_machine.py).               *)
(*                                                                         *)
(* A step is its position in APPLY_STEPS, so "earlier" is <.  The host is  *)
(* the set of product items that are on it.                                *)
(***************************************************************************)
EXTENDS Naturals, Sequences

verify_artifacts     == 1
ensure_node          == 2
install_optics_cli   == 3
install_agent_sdks   == 4
stage_pe_archive     == 5
docker_load          == 6
write_observe_config == 7
install_boot_hold    == 8
start_pe_observe     == 9
mark_applied         == 10
collect_health       == 11
write_support_index  == 12

APPLY_STEPS == 1..12

HOST_MUTATION_STEPS ==
  {install_optics_cli, install_agent_sdks, stage_pe_archive, docker_load,
   write_observe_config, install_boot_hold, start_pe_observe}

----------------------------------------------------------------------------
(***************************************************************************)
(* The host.  "enforce" stands for the grub drop-in, the license file and  *)
(* the enroll drop-ins that other commands of the installer write and that *)
(* rollback and uninstall clear.                                           *)
(***************************************************************************)
OpticsItems == {"optics", "sdk_npm", "sdk_py"}
EngineItems == {"archive", "profile_text", "image", "tag", "config", "o7",
                "hold", "clsact", "profile", "container", "pins"}
Items == OpticsItems \cup EngineItems \cup {"enforce"}

\* What HOST-SNAPSHOT.json has a field for; the others are not recorded.
\* "lsm" is the bpf token that the plan's probe found in the LSM list.
SnapItems == OpticsItems \cup {"tag", "clsact", "container", "pins", "lsm"}

STEP_OPERATIONS(s) ==
  CASE s = ensure_node          -> <<"ensure_npm">>
    [] s = install_optics_cli   -> <<"mkdir_prefix", "install_optics_cli">>
    [] s = install_agent_sdks   -> <<"install_agent_sdk_npm", "install_agent_sdk_py">>
    [] s = stage_pe_archive     -> <<"mkdir_stage", "stage_pe_archive">>
    [] s = docker_load          -> <<"docker_load", "docker_tag">>
    [] s = write_observe_config -> <<"mkdir_evidence", "write_observe_config", "o7_init">>
    [] s = install_boot_hold    -> <<"install_boot_hold">>
    [] s = start_pe_observe     -> <<"tc_clsact", "write_pe_apparmor",
                                     "load_pe_apparmor", "start_pe_observe">>
    [] OTHER                    -> <<>>

ROLLBACK_OPERATIONS(s) ==
  CASE s = start_pe_observe     -> <<"docker_stop", "docker_rm", "unpin_bpf_maps",
                                     "unload_pe_apparmor", "remove_pe_apparmor",
                                     "tc_clsact_del">>
    [] s = docker_load          -> <<"docker_rmi">>
    [] s = stage_pe_archive     -> <<"remove_stage">>
    [] s = write_observe_config -> <<"remove_observe_config", "remove_o7_record">>
    [] s = install_boot_hold    -> <<"remove_boot_hold">>
    [] s = install_agent_sdks   -> <<"remove_sdks">>
    [] s = install_optics_cli   -> <<"remove_optics">>
    [] OTHER                    -> <<>>

\* Operations that run a program (catalog_argv gives an argv) and can time out;
\* the others are confined file-system operations.
Commands_argv ==
  {"ensure_npm", "mkdir_prefix", "mkdir_stage", "mkdir_evidence",
   "install_optics_cli", "install_agent_sdk_npm", "install_agent_sdk_py",
   "docker_load", "docker_tag", "tc_clsact", "load_pe_apparmor",
   "start_pe_observe", "docker_stop", "docker_rm", "unload_pe_apparmor",
   "docker_rmi", "tc_clsact_del"}

\* Variants with a bug: the profile load is not noted; a step is noted that is
\* not a host step.
PARTIAL_NoProfile(op) ==
  CASE op = "install_optics_cli"                                -> {install_optics_cli}
    [] op \in {"install_agent_sdk_npm", "install_agent_sdk_py"} -> {install_agent_sdks}
    [] OTHER                                                    -> {}
PARTIAL_Unfiltered(op) ==
  IF op = "ensure_npm" THEN {ensure_node} ELSE {}

\* _PARTIAL_ON_EXIT: the step that is noted in PARTIAL-MUTATIONS.json as soon as
\* the command returns 0 (a set, empty for the operations that note nothing).
PARTIAL_ON_EXIT(op) ==
  CASE op = "install_optics_cli"                                -> {install_optics_cli}
    [] op \in {"install_agent_sdk_npm", "install_agent_sdk_py"} -> {install_agent_sdks}
    [] op = "load_pe_apparmor"                                  -> {start_pe_observe}
    [] OTHER                                                    -> {}

\* Items a complete run of an apply operation puts on the host.
Adds(op) ==
  CASE op = "install_optics_cli"    -> {"optics"}
    [] op = "install_agent_sdk_npm" -> {"sdk_npm"}
    [] op = "install_agent_sdk_py"  -> {"sdk_py"}
    [] op = "stage_pe_archive"      -> {"archive"}
    [] op = "docker_load"           -> {"image"}
    [] op = "docker_tag"            -> {"tag"}
    [] op = "write_observe_config"  -> {"config"}
    [] op = "o7_init"               -> {"o7"}
    [] op = "install_boot_hold"     -> {"hold"}
    [] op = "tc_clsact"             -> {"clsact"}
    [] op = "write_pe_apparmor"     -> {"profile_text"}
    [] op = "load_pe_apparmor"      -> {"profile"}
    [] op = "start_pe_observe"      -> {"container", "pins"}
    \* the unload writes the profile text under the stage when it is not there
    [] op = "unload_pe_apparmor"    -> {"profile_text"}
    [] OTHER                        -> {}

\* Items a complete run of a removal operation takes off the host.
Removes(op) ==
  CASE op = "docker_rm"             -> {"container"}
    [] op = "unpin_bpf_maps"        -> {"pins"}
    [] op = "unload_pe_apparmor"    -> {"profile"}
    [] op = "tc_clsact_del"         -> {"clsact"}
    [] op = "docker_rmi"            -> {"image", "tag"}
    [] op = "remove_pe_apparmor"    -> {"profile_text"}
    [] op = "remove_stage"          -> {"archive", "profile_text"}
    [] op = "remove_observe_config" -> {"config"}
    [] op = "remove_o7_record"      -> {"o7"}
    [] op = "remove_boot_hold"      -> {"hold"}
    [] op = "remove_sdks"           -> {"sdk_npm", "sdk_py"}
    [] op = "remove_optics"         -> {"optics"}
    [] OTHER                        -> {}

\* Items without which, and items with which, the program exits non-zero.  A stop
\* or rm of an absent container, a del of an absent qdisc and the unload of an
\* absent profile count as success (_recover_absent_target); docker rmi of an
\* absent tag, or of one a container uses, does not, nor does docker run with a
\* name that is taken.
Needs(op) ==
  CASE op = "docker_tag"       -> {"image"}
    [] op = "load_pe_apparmor" -> {"profile_text"}
    [] op = "start_pe_observe" -> {"tag", "profile"}
    [] op = "docker_rmi"       -> {"tag"}
    [] OTHER                   -> {}

\* Variant with a bug: docker rmi -f.
Excludes_Force(op) == IF op = "start_pe_observe" THEN {"container"} ELSE {}

Excludes(op) ==
  IF op \in {"start_pe_observe", "docker_rmi"} THEN {"container"} ELSE {}

\* Removals that verify takes at their word: they unlink in this process, and
\* raise unless what they remove is gone.
TakenAtWord == {"remove_stage", "remove_observe_config", "remove_o7_record"}

\* Variant with a bug: exit 0 is success.
Verified_ExitCode(op, h) == TRUE

\* ProductionObserver.verify on a host that answers: the operation's own items
\* are there (or gone; for docker rmi only the tag is looked up), and for the
\* observe container every fact of the readiness contract.
Verified(op, h) ==
  /\ op # "unload_pe_apparmor" => Adds(op) \subseteq h
  /\ (Removes(op) \ {"image"}) \cap h = {}
  /\ op = "start_pe_observe" => {"clsact", "hold", "profile"} \subseteq h

\* ProductionObserver.observed_delta merged into the snapshot.
Delta(op, sn, h) ==
  CASE op = "install_optics_cli"    -> sn \cup {"optics"}
    [] op = "install_agent_sdk_npm" -> sn \cup {"sdk_npm"}
    [] op = "install_agent_sdk_py"  -> sn \cup {"sdk_py"}
    [] op = "docker_tag"            -> sn \cup {"tag"}
    [] op = "start_pe_observe"      -> sn \cup {"container", "pins", "clsact"}
    [] op \in {"docker_stop", "docker_rm"} ->
         (sn \ {"container", "clsact", "pins"}) \cup (h \cap {"pins"})
    [] op = "unpin_bpf_maps"        -> (sn \ {"pins"}) \cup (h \cap {"pins"})
    [] op = "docker_rmi"            -> sn \ {"tag"}
    [] op = "remove_optics"         -> sn \ {"optics"}
    [] op = "remove_sdks"           -> sn \ {"sdk_npm", "sdk_py"}
    [] OTHER                        -> sn

----------------------------------------------------------------------------
(***************************************************************************)
(* The transaction state table.  transition(current, target) refuses a hop *)
(* that TRANSITIONS does not list.                                         *)
(***************************************************************************)
TxStates ==
  {"CREATED", "PREFLIGHTING", "PREFLIGHT_READY", "PREFLIGHT_READY_WITH_LIMITATIONS",
   "PREFLIGHT_BLOCKED", "UNSUPPORTED", "PLANNED", "APPLYING", "APPLIED", "HEALTHY",
   "DEGRADED", "FAILED_SAFE", "ROLLING_BACK", "ROLLED_BACK", "UNINSTALLING",
   "UNINSTALLED", "VERIFYING_REMOVAL", "VERIFIED_REMOVED", "RESIDUAL_PRESENT",
   "RESIDUAL_FOUND", "INTERRUPTED"}

RESIDUAL_STATES == {"RESIDUAL_FOUND", "RESIDUAL_PRESENT"}

TRANSIENT == {"PREFLIGHTING", "APPLYING", "ROLLING_BACK", "UNINSTALLING", "VERIFYING_REMOVAL"}

TRANSITIONS(state) ==
  CASE state = "CREATED"      -> {"PREFLIGHTING"}
    [] state = "PREFLIGHTING" -> {"PREFLIGHT_READY", "PREFLIGHT_READY_WITH_LIMITATIONS",
                                  "PREFLIGHT_BLOCKED", "UNSUPPORTED", "FAILED_SAFE",
                                  "INTERRUPTED"}
    [] state = "PREFLIGHT_READY"                  -> {"PLANNED", "APPLYING"}
    [] state = "PREFLIGHT_READY_WITH_LIMITATIONS" -> {"PLANNED", "APPLYING"}
    [] state = "PREFLIGHT_BLOCKED" -> {"PREFLIGHTING", "CREATED"}
    [] state = "PLANNED"      -> {"APPLYING", "CREATED"}
    [] state = "APPLYING"     -> {"APPLIED", "FAILED_SAFE", "INTERRUPTED", "ROLLING_BACK"}
    [] state = "APPLIED"      -> {"HEALTHY", "DEGRADED", "FAILED_SAFE", "INTERRUPTED"}
    [] state = "HEALTHY"      -> {"ROLLING_BACK", "UNINSTALLING", "DEGRADED"}
    [] state = "DEGRADED"     -> {"ROLLING_BACK", "UNINSTALLING", "HEALTHY"}
    [] state = "FAILED_SAFE"  -> {"ROLLING_BACK", "UNINSTALLING", "CREATED"}
    [] state = "ROLLING_BACK" -> {"ROLLED_BACK", "FAILED_SAFE", "INTERRUPTED"}
    [] state = "ROLLED_BACK"  -> {"VERIFYING_REMOVAL", "CREATED"}
    [] state = "UNINSTALLING" -> {"UNINSTALLED", "FAILED_SAFE", "INTERRUPTED"}
    [] state = "UNINSTALLED"  -> {"VERIFYING_REMOVAL"}
    [] state = "VERIFYING_REMOVAL" -> {"VERIFIED_REMOVED", "RESIDUAL_PRESENT",
                                       "RESIDUAL_FOUND", "FAILED_SAFE"}
    [] state = "VERIFIED_REMOVED"  -> {"VERIFYING_REMOVAL"}
    [] state \in RESIDUAL_STATES   -> {"VERIFYING_REMOVAL", "ROLLING_BACK", "UNINSTALLING"}
    [] state = "INTERRUPTED"  -> {"APPLYING", "ROLLING_BACK", "UNINSTALLING",
                                  "FAILED_SAFE", "PREFLIGHTING"}
    [] OTHER                  -> {}
=============================================================================
