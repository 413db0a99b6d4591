---------------------------- MODULE BootHoldProofs ----------------------------
(***************************************************************************)
(* Proofs about BootHold, for every set of workloads, policies, commands   *)
(* and faults and for every bound: the refinement of HoldContract and the  *)
(* three invariants of the run boot_hold.                                  *)
(*                                                                         *)
(* Nothing stops two commands from interleaving, so the inductive          *)
(* invariant says of each process by itself what its remaining steps may   *)
(* rely on: what the order of a script guarantees (ScriptOK) and which     *)
(* grounds exist before a step that lets workloads go is still to come     *)
(* (Entitled).  Grounds of this boot are never taken back, so no step of   *)
(* the other process can disturb these facts.                              *)
(***************************************************************************)
EXTENDS BootHold, SequenceTheorems, TLAPS

----------------------------------------------------------------------------
(* The inductive invariant. *)

Labels(s) == {s[i] : i \in 1..Len(s)}

Fills == {Fill[f] : f \in Families}
NetLabels == {Flush[f] : f \in Families} \cup Fills \cup {Lift[f] : f \in Families}

FileLabels == {"files_tree", "files_held", "files_gated", "files_open", "files_removed", "files_enroll", "profile_allow"}

ChainStates == {"none", "empty", "emptied", "drop"}

\* A chain of a hold that is up drops packets or is being written anew.
Up(n, f) == n[f] \in {"drop", "emptied"}

\* The steps at which a command may stop or take another turn.
Turns == {"load", "read", "keep_registry", "docker_run", "insert", "judge"}

\* The lines of the audit log that disclose an open chain.
Disclosing == {"log_released", "log_removed", "log_optout", "log_off", "log_failed"}

\* What the order of the steps guarantees: the check ends its script, a chain that
\* is emptied is filled next, a lifted one is disclosed at the end, no command
\* turns back after it has touched a chain, an apply-boot reloads
\* between filling the chains and logging the hold, and the policy is read before
\* files are written.
ScriptOK(s) ==
  \A i \in 1..Len(s) :
    /\ s[i] = "insert" => i + 1 = Len(s) /\ s[Len(s)] = "judge"
    /\ s[i] = "judge" => i = Len(s)
    /\ \A f \in Families : s[i] = Flush[f] => i < Len(s) /\ s[i + 1] = Fill[f]
    /\ \A f \in Families : s[i] = Lift[f] => s[Len(s)] \in Disclosing
    /\ s[i] \in NetLabels => \A j \in i..Len(s) : s[j] \notin Turns
    /\ s[i] = "reload" => s[Len(s)] = "log_held" /\ \A j \in i..Len(s) : s[j] \notin Fills
    /\ s[i] \in FileLabels => \A j \in i..Len(s) : s[j] # "load"

\* The grounds of this boot.
Given(y) == y \ {"earlier"}

\* The grounds the remaining steps of a process rely on.
Entitled(mem, y) ==
  LET todo == Labels(mem.todo) IN
  /\ \A f \in Families : Lift[f] \in todo => Given(y) # {}
  /\ "files_open" \in todo => "break-glass" \in y
  /\ "log_off" \in todo => "hold-off" \in y
  /\ "save_released" \in todo /\ mem.cmd = "release" => "ready" \in y
  /\ "load" \in todo \/ "hold" \in mechanisms_active(mem.body) \/ {"hold-off", "opt-out"} \cap y # {}

\* A chain that an apply-boot has filled is still up, or this boot has grounds.
Filled(mem, y, n) ==
  \A f \in Families :
    "log_held" \in Labels(mem.todo) /\ Fill[f] \notin Labels(mem.todo) => Up(n, f) \/ Given(y) # {}

\* How the command of the hold unit may end.
Ends == {"load", "log_held", "log_off", "log_failed"}

Memory == [cmd : AllCommands \cup {"none"}, todo : Seq(Steps), w : Workloads \cup {"none"},
           arg : Body, body : Body, rows : [Workloads -> {"none", "enrolled", "observed"}],
           tries : 0..MaxProbes, bypassed : BOOLEAN]

MemOK(mem) ==
  /\ mem \in Memory
  /\ ScriptOK(mem.todo)
  /\ mem.cmd = "none" => mem = Idle
  /\ "files_enroll" \in Labels(mem.todo) => mem.w \in Workloads
  /\ mem.cmd = "opt-out" => "load" \notin Labels(mem.todo)
  /\ mem.cmd = "apply-boot" => mem.todo # <<>> /\ mem.todo[Len(mem.todo)] \in Ends
  /\ mem.bypassed => Len(mem.todo) = 1 /\ mem.todo[1] = "judge"

ProcOK(mem, y, n) == MemOK(mem) /\ Entitled(mem, y) /\ Filled(mem, y, n)

\* A workload file without the hold gate has grounds that outlive the boot.
Gated(g, y) ==
  \A w \in Workloads : g[w].here /\ "hold" \notin g[w].req => y \cap Lasting # {}

\* The hold is up, or workloads may go.
Safe == (\A f \in Families : Up(net, f)) \/ why # {}

\* Behind an active hold unit, and behind a running workload, the hold is up or
\* there are grounds.
Guarded ==
  svc["hold"] = "active" \/ (\E w \in Workloads : live[w] = "slice") => Safe

Flag(p) == IF run[p].bypassed THEN 1 ELSE 0

\* Each exception in the chain belongs to a check that will take it back.
Owned == count.faults = 0 => exc <= Flag("systemd") + Flag("operator")

Saves == {"load", "save_held", "save_off", "save_failed"}

\* A recorded handoff is of this boot, or the hold unit has still to overwrite it.
Handoff ==
  hold.reason = "enforce-ready" /\ "ready" \notin why =>
    /\ svc["hold"] # "active"
    /\ run["systemd"].cmd = "apply-boot" => Labels(run["systemd"].todo) \cap Saves # {}

\* The hold unit has filled the chain of family f in this boot.
HeldUp(f) ==
  \/ svc["hold"] = "active"
  \/ /\ run["systemd"].cmd = "apply-boot"
     /\ "log_held" \in Labels(run["systemd"].todo) /\ Fill[f] \notin Labels(run["systemd"].todo)

\* A process that will fill the chain again or write a disclosing line.
Pending(s, f) ==
  /\ s # <<>> /\ Labels(s) \cap Turns = {}
  /\ s[Len(s)] \in Disclosing \/ Fill[f] \in Labels(s)

Disclosed ==
  count.kills = 0 =>
    \A f \in Families : HeldUp(f) =>
      net[f] = "drop" \/ audit \cap Disclosing # {} \/ \E p \in Procs : Pending(run[p].todo, f)

Counts == [commands : Nat, boots : Nat, faults : Nat, kills : Nat]

IInv ==
  /\ TypeOK /\ count \in Counts
  /\ run["systemd"].cmd \in {"none", "apply-boot", "release"}
  /\ PolicyGrounds(conf) \subseteq why
  /\ \A p \in Procs : ProcOK(run[p], why, net)
  /\ Gated(gate, why) /\ Gated(view, why)
  /\ Guarded
  /\ Owned
  /\ Handoff
  /\ Disclosed

----------------------------------------------------------------------------
(* Scripts. *)

\* The six names of the packet filter steps.
LEMMA NetNames ==
  /\ Families = {"v4", "v6"}
  /\ Flush["v4"] = "flush_v4" /\ Flush["v6"] = "flush_v6"
  /\ Fill["v4"] = "fill_v4" /\ Fill["v6"] = "fill_v6"
  /\ Lift["v4"] = "lift_v4" /\ Lift["v6"] = "lift_v6"
  /\ Fills = {"fill_v4", "fill_v6"}
  /\ NetLabels = {"flush_v4", "flush_v6", "fill_v4", "fill_v6", "lift_v4", "lift_v6"}
<1>1. Families = {"v4", "v6"} /\ Flush["v4"] = "flush_v4" /\ Flush["v6"] = "flush_v6"
      /\ Fill["v4"] = "fill_v4" /\ Fill["v6"] = "fill_v6"
      /\ Lift["v4"] = "lift_v4" /\ Lift["v6"] = "lift_v6"
  BY DEF Families, Flush, Fill, Lift
<1>2. Fills = {"fill_v4", "fill_v6"}  BY <1>1 DEF Fills
<1>3. {Flush[f] : f \in Families} = {"flush_v4", "flush_v6"}  BY <1>1
<1>4. {Lift[f] : f \in Families} = {"lift_v4", "lift_v6"}  BY <1>1
<1> QED  BY <1>1, <1>2, <1>3, <1>4 DEF NetLabels

\* The first step and the others.
LEMMA TailLabels ==
  ASSUME NEW s \in Seq(Steps), s # <<>>
  PROVE  /\ Tail(s) \in Seq(Steps) /\ Len(Tail(s)) = Len(s) - 1 /\ Len(s) \in Nat \ {0}
         /\ Labels(s) = {Head(s)} \cup Labels(Tail(s))
         /\ Head(s) = s[1] /\ Head(s) \in Steps
         /\ \A i \in 1..Len(Tail(s)) : Tail(s)[i] = s[i + 1]
         /\ Len(s) = 1 => Labels(s) = {Head(s)} /\ s[Len(s)] = Head(s)
         /\ Len(s) # 1 => Tail(s) # <<>> /\ Tail(s)[Len(Tail(s))] = s[Len(s)]
<1>1. /\ Tail(s) \in Seq(Steps) /\ Len(Tail(s)) = Len(s) - 1 /\ Len(s) \in Nat \ {0}
      /\ Head(s) = s[1] /\ Head(s) \in Steps
      /\ \A i \in 1..Len(Tail(s)) : Tail(s)[i] = s[i + 1]
  OBVIOUS
<1>2. Labels(s) = {Head(s)} \cup Labels(Tail(s))
  <2>1. ASSUME NEW x \in Labels(s)  PROVE x = Head(s) \/ x \in Labels(Tail(s))
    <3>1. PICK i \in 1..Len(s) : x = s[i]  BY <2>1 DEF Labels
    <3>2. CASE i = 1  BY <3>1, <3>2, <1>1
    <3>3. CASE i # 1
      <4>1. PICK j \in 1..Len(Tail(s)) : j + 1 = i
        <5>1. i - 1 \in 1..Len(Tail(s)) /\ (i - 1) + 1 = i  BY <3>3, <1>1
        <5> QED  BY <5>1
      <4>2. x = Tail(s)[j]  BY <3>1, <4>1, <1>1
      <4> QED  BY <4>2 DEF Labels
    <3> QED  BY <3>2, <3>3
  <2>2. Head(s) \in Labels(s)  BY <1>1 DEF Labels
  <2>3. ASSUME NEW x \in Labels(Tail(s))  PROVE x \in Labels(s)
    <3>1. PICK i \in 1..Len(Tail(s)) : x = Tail(s)[i]  BY <2>3 DEF Labels
    <3>2. i + 1 \in 1..Len(s)  BY <1>1
    <3> QED  BY <3>1, <3>2, <1>1 DEF Labels
  <2> QED  BY <2>1, <2>2, <2>3
<1>3. ASSUME Len(s) = 1  PROVE Labels(s) = {Head(s)} /\ s[Len(s)] = Head(s)
  <2>1. Labels(Tail(s)) = {}  BY <1>1, <1>3 DEF Labels
  <2> QED  BY <2>1, <1>1, <1>2, <1>3
<1>4. ASSUME Len(s) # 1  PROVE Tail(s) # <<>> /\ Tail(s)[Len(Tail(s))] = s[Len(s)]
  <2>1. Len(Tail(s)) \in 1..Len(Tail(s)) /\ Len(Tail(s)) + 1 = Len(s)  BY <1>1, <1>4
  <2>2. Tail(s)[Len(Tail(s))] = s[Len(s)]  BY <1>1, <2>1
  <2>3. Tail(s) # <<>>
    <3>1. Len(Tail(s)) # 0  BY <2>1, <1>1
    <3> QED  BY <3>1, <1>1, EmptySeq
  <2> QED  BY <2>2, <2>3
<1> QED  BY <1>1, <1>2, <1>3, <1>4

\* The rest of a well-ordered script is well ordered.
LEMMA TailScript ==
  ASSUME NEW s \in Seq(Steps), s # <<>>, ScriptOK(s)
  PROVE  ScriptOK(Tail(s))
<1>1. /\ Tail(s) \in Seq(Steps) /\ Len(Tail(s)) = Len(s) - 1 /\ Len(s) \in Nat \ {0}
      /\ \A i \in 1..Len(Tail(s)) : Tail(s)[i] = s[i + 1]
      /\ Len(s) # 1 => Tail(s)[Len(Tail(s))] = s[Len(s)]
  BY TailLabels
<1> SUFFICES ASSUME NEW i \in 1..Len(Tail(s))
             PROVE  /\ Tail(s)[i] = "insert" => i + 1 = Len(Tail(s)) /\ Tail(s)[Len(Tail(s))] = "judge"
                    /\ Tail(s)[i] = "judge" => i = Len(Tail(s))
                    /\ \A f \in Families : Tail(s)[i] = Flush[f] => i < Len(Tail(s)) /\ Tail(s)[i + 1] = Fill[f]
                    /\ \A f \in Families : Tail(s)[i] = Lift[f] => Tail(s)[Len(Tail(s))] \in Disclosing
                    /\ Tail(s)[i] \in NetLabels => \A j \in i..Len(Tail(s)) : Tail(s)[j] \notin Turns
                    /\ Tail(s)[i] = "reload" => Tail(s)[Len(Tail(s))] = "log_held" /\ \A j \in i..Len(Tail(s)) : Tail(s)[j] \notin Fills
                    /\ Tail(s)[i] \in FileLabels => \A j \in i..Len(Tail(s)) : Tail(s)[j] # "load"
  BY DEF ScriptOK
<1>2. PICK k \in 1..Len(s) : k = i + 1  BY <1>1
<1>3. Tail(s)[i] = s[k] /\ Len(s) # 1  BY <1>1, <1>2
<1>4. /\ s[k] = "insert" => k + 1 = Len(s) /\ s[Len(s)] = "judge"
      /\ s[k] = "judge" => k = Len(s)
      /\ \A f \in Families : s[k] = Flush[f] => k < Len(s) /\ s[k + 1] = Fill[f]
      /\ \A f \in Families : s[k] = Lift[f] => s[Len(s)] \in Disclosing
      /\ s[k] \in NetLabels => \A j \in k..Len(s) : s[j] \notin Turns
      /\ s[k] = "reload" => s[Len(s)] = "log_held" /\ \A j \in k..Len(s) : s[j] \notin Fills
      /\ s[k] \in FileLabels => \A j \in k..Len(s) : s[j] # "load"
  BY DEF ScriptOK
<1>5. \A j \in i..Len(Tail(s)) : j + 1 \in k..Len(s) /\ Tail(s)[j] = s[j + 1]  BY <1>1, <1>2
<1>6. ASSUME NEW f \in Families, s[k] = Flush[f]  PROVE i < Len(Tail(s)) /\ Tail(s)[i + 1] = Fill[f]
  <2>1. k < Len(s) /\ s[k + 1] = Fill[f]  BY <1>4, <1>6
  <2>2. i < Len(Tail(s)) /\ i + 1 \in 1..Len(Tail(s)) /\ (i + 1) + 1 = k + 1  BY <2>1, <1>1, <1>2
  <2> QED  BY <2>1, <2>2, <1>1
<1>7. s[k] = "insert" => i + 1 = Len(Tail(s)) /\ Tail(s)[Len(Tail(s))] = "judge"
  <2>1. PICK n \in Nat : n = Len(s) /\ Len(Tail(s)) = n - 1  BY <1>1
  <2>2. i \in Nat /\ k = i + 1 /\ (k + 1 = n => i + 1 = n - 1)  BY <1>2, <2>1
  <2>3. s[k] = "insert" => i + 1 = Len(Tail(s))  BY <2>1, <2>2, <1>4
  <2> QED  BY <2>3, <1>1, <1>3, <1>4
<1>8. s[k] = "judge" => i = Len(Tail(s))
  <2>1. PICK n \in Nat : n = Len(s) /\ Len(Tail(s)) = n - 1  BY <1>1
  <2>2. i \in Nat /\ k = i + 1 /\ (k = n => i = n - 1)  BY <1>2, <2>1
  <2> QED  BY <2>1, <2>2, <1>4
<1>9. \A f \in Families : s[k] = Lift[f] => Tail(s)[Len(Tail(s))] \in Disclosing  BY <1>1, <1>3, <1>4
<1>10. s[k] \in NetLabels => \A j \in i..Len(Tail(s)) : Tail(s)[j] \notin Turns  BY <1>4, <1>5
<1>11. s[k] = "reload" => Tail(s)[Len(Tail(s))] = "log_held" /\ \A j \in i..Len(Tail(s)) : Tail(s)[j] \notin Fills
  BY <1>1, <1>3, <1>4, <1>5
<1>12. s[k] \in FileLabels => \A j \in i..Len(Tail(s)) : Tail(s)[j] # "load"  BY <1>4, <1>5
<1> QED  BY <1>3, <1>6, <1>7, <1>8, <1>9, <1>10, <1>11, <1>12

\* What apply_boot does after the policy is read, with the hold on and off.
LEMMA HeldScript ==
  ASSUME NEW x \in Body, "hold" \in mechanisms_active(x)
  PROVE  /\ apply_boot(x) \in Seq(Steps) /\ apply_boot(x) # <<>> /\ ScriptOK(apply_boot(x))
         /\ apply_boot(x)[Len(apply_boot(x))] = "log_held"
         /\ Labels(apply_boot(x)) = {"files_held", "flush_v4", "fill_v4", "flush_v6", "fill_v6", "reload", "save_held", "log_held"}
<1> DEFINE s == apply_boot(x)
            a == <<"files_held">>
            b == <<"flush_v4", "fill_v4", "flush_v6", "fill_v6">>
            c == <<"reload", "save_held", "log_held">>
<1>1. s = a \o b \o c  BY NetNames DEF apply_boot, install_hold
<1> HIDE DEF s
<1>2. "files_held" \in Steps /\ "flush_v4" \in Steps /\ "fill_v4" \in Steps /\ "flush_v6" \in Steps /\ "fill_v6" \in Steps /\ "reload" \in Steps /\ "save_held" \in Steps /\ "log_held" \in Steps  BY DEF Steps
<1>3. a \in Seq(Steps) /\ Len(a) = 1 /\ a[1] = "files_held"  BY <1>2
<1>4. b \in Seq(Steps) /\ Len(b) = 4 /\ b[1] = "flush_v4" /\ b[2] = "fill_v4" /\ b[3] = "flush_v6" /\ b[4] = "fill_v6"  BY <1>2
<1>5. c \in Seq(Steps) /\ Len(c) = 3 /\ c[1] = "reload" /\ c[2] = "save_held" /\ c[3] = "log_held"  BY <1>2
<1> DEFINE ab == <<"files_held", "flush_v4", "fill_v4", "flush_v6", "fill_v6">>
<1>6. a \o b \in Seq(Steps) /\ Len(a \o b) = 5 /\ (a \o b)[1] = "files_held" /\ (a \o b)[2] = "flush_v4" /\ (a \o b)[3] = "fill_v4" /\ (a \o b)[4] = "flush_v6" /\ (a \o b)[5] = "fill_v6"  BY <1>3, <1>4
<1>7. ab \in Seq(Steps) /\ Len(ab) = 5 /\ ab[1] = "files_held" /\ ab[2] = "flush_v4" /\ ab[3] = "fill_v4" /\ ab[4] = "flush_v6" /\ ab[5] = "fill_v6"  BY <1>2
<1>8. a \o b = ab
  <2> HIDE DEF a, b, ab
  <2>1. \A i \in 1..5 : (a \o b)[i] = ab[i]  BY <1>6, <1>7
  <2> QED  BY <2>1, <1>6, <1>7, SeqEqual
<1>9. s \in Seq(Steps) /\ Len(s) = 8 /\ s[1] = "files_held" /\ s[2] = "flush_v4" /\ s[3] = "fill_v4" /\ s[4] = "flush_v6" /\ s[5] = "fill_v6" /\ s[6] = "reload" /\ s[7] = "save_held" /\ s[8] = "log_held"
  BY <1>1, <1>8, <1>7, <1>5
<1> HIDE DEF a, b, c
<1>10. Labels(s) = {"files_held", "flush_v4", "fill_v4", "flush_v6", "fill_v6", "reload", "save_held", "log_held"}  BY <1>9 DEF Labels
<1>11. ScriptOK(s)  BY <1>9, NetNames DEF ScriptOK, Disclosing, Turns, FileLabels
<1>12. s # <<>>
  <2>1. Len(s) = 8  BY <1>9
  <2> QED  BY <2>1, EmptySeq
<1> QED  BY <1>9, <1>10, <1>11, <1>12 DEF s

\* With the hold off.
LEMMA OffScript ==
  ASSUME NEW x \in Body, "hold" \notin mechanisms_active(x)
  PROVE  /\ apply_boot(x) \in Seq(Steps) /\ apply_boot(x) # <<>> /\ ScriptOK(apply_boot(x))
         /\ apply_boot(x)[Len(apply_boot(x))] = "log_off"
         /\ Labels(apply_boot(x)) = {"lift_v4", "lift_v6", "profile_allow", "save_off", "files_gated", "log_off"}
<1> DEFINE s == apply_boot(x)
            a == <<"lift_v4", "lift_v6">>
            b == <<"profile_allow", "save_off", "files_gated", "log_off">>
<1>1. s = a \o b  BY NetNames DEF apply_boot, remove_hold
<1> HIDE DEF s
<1>2. "lift_v4" \in Steps /\ "lift_v6" \in Steps /\ "profile_allow" \in Steps /\ "save_off" \in Steps /\ "files_gated" \in Steps /\ "log_off" \in Steps  BY DEF Steps
<1>3. a \in Seq(Steps) /\ Len(a) = 2 /\ a[1] = "lift_v4" /\ a[2] = "lift_v6"  BY <1>2
<1>4. b \in Seq(Steps) /\ Len(b) = 4 /\ b[1] = "profile_allow" /\ b[2] = "save_off" /\ b[3] = "files_gated" /\ b[4] = "log_off"  BY <1>2
<1>5. s \in Seq(Steps) /\ Len(s) = 6 /\ s[1] = "lift_v4" /\ s[2] = "lift_v6" /\ s[3] = "profile_allow" /\ s[4] = "save_off" /\ s[5] = "files_gated" /\ s[6] = "log_off"
  BY <1>1, <1>3, <1>4
<1> HIDE DEF a, b
<1>6. Labels(s) = {"lift_v4", "lift_v6", "profile_allow", "save_off", "files_gated", "log_off"}  BY <1>5 DEF Labels
<1>7. ScriptOK(s)  BY <1>5, NetNames DEF ScriptOK, Disclosing, Turns, FileLabels
<1>8. s # <<>>
  <2>1. Len(s) = 6  BY <1>5
  <2> QED  BY <2>1, EmptySeq
<1> QED  BY <1>5, <1>6, <1>7, <1>8 DEF s

\* What a decided release does.
LEMMA OpenScript ==
  /\ Lifting(TRUE) \in Seq(Steps) /\ Lifting(TRUE) # <<>> /\ ScriptOK(Lifting(TRUE))
  /\ Lifting(TRUE)[Len(Lifting(TRUE))] = "log_released"
  /\ Labels(Lifting(TRUE)) = {"profile_allow", "lift_v4", "lift_v6", "files_open", "save_released", "log_released"}
<1> DEFINE s == Lifting(TRUE)
            a0 == <<"profile_allow">>
            a1 == <<"lift_v4", "lift_v6">>
            a == <<"profile_allow", "lift_v4", "lift_v6">>
            b == <<"files_open", "save_released", "log_released">>
<1>1. s = a0 \o a1 \o b  BY NetNames DEF Lifting, remove_hold
<1> HIDE DEF s
<1>2. "profile_allow" \in Steps /\ "lift_v4" \in Steps /\ "lift_v6" \in Steps /\ "files_open" \in Steps /\ "save_released" \in Steps /\ "log_released" \in Steps  BY DEF Steps
<1>3. a \in Seq(Steps) /\ Len(a) = 3 /\ a[1] = "profile_allow" /\ a[2] = "lift_v4" /\ a[3] = "lift_v6"  BY <1>2
<1>9. a0 \o a1 = a
  <2>1. a0 \o a1 \in Seq(Steps) /\ Len(a0 \o a1) = 3 /\ (a0 \o a1)[1] = "profile_allow" /\ (a0 \o a1)[2] = "lift_v4" /\ (a0 \o a1)[3] = "lift_v6"
    BY <1>2
  <2> HIDE DEF a, a0, a1
  <2>2. \A i \in 1..3 : (a0 \o a1)[i] = a[i]  BY <2>1, <1>3
  <2> QED  BY <2>1, <2>2, <1>3, SeqEqual
<1>4. b \in Seq(Steps) /\ Len(b) = 3 /\ b[1] = "files_open" /\ b[2] = "save_released" /\ b[3] = "log_released"  BY <1>2
<1>5. s \in Seq(Steps) /\ Len(s) = 6 /\ s[1] = "profile_allow" /\ s[2] = "lift_v4" /\ s[3] = "lift_v6" /\ s[4] = "files_open" /\ s[5] = "save_released" /\ s[6] = "log_released"
  BY <1>1, <1>3, <1>4, <1>9
<1> HIDE DEF a, a0, a1, b
<1>6. Labels(s) = {"profile_allow", "lift_v4", "lift_v6", "files_open", "save_released", "log_released"}  BY <1>5 DEF Labels
<1>7. ScriptOK(s)  BY <1>5, NetNames DEF ScriptOK, Disclosing, Turns, FileLabels
<1>8. s # <<>>
  <2>1. Len(s) = 6  BY <1>5
  <2> QED  BY <2>1, EmptySeq
<1> QED  BY <1>5, <1>6, <1>7, <1>8 DEF s

\* A release that keeps the start gates.
LEMMA GatedScript ==
  /\ Lifting(FALSE) \in Seq(Steps) /\ Lifting(FALSE) # <<>> /\ ScriptOK(Lifting(FALSE))
  /\ Lifting(FALSE)[Len(Lifting(FALSE))] = "log_released"
  /\ Labels(Lifting(FALSE)) = {"profile_allow", "lift_v4", "lift_v6", "files_gated", "save_released", "log_released"}
<1> DEFINE s == Lifting(FALSE)
            a0 == <<"profile_allow">>
            a1 == <<"lift_v4", "lift_v6">>
            a == <<"profile_allow", "lift_v4", "lift_v6">>
            b == <<"files_gated", "save_released", "log_released">>
<1>1. s = a0 \o a1 \o b  BY NetNames DEF Lifting, remove_hold
<1> HIDE DEF s
<1>2. "profile_allow" \in Steps /\ "lift_v4" \in Steps /\ "lift_v6" \in Steps /\ "files_gated" \in Steps /\ "save_released" \in Steps /\ "log_released" \in Steps  BY DEF Steps
<1>3. a \in Seq(Steps) /\ Len(a) = 3 /\ a[1] = "profile_allow" /\ a[2] = "lift_v4" /\ a[3] = "lift_v6"  BY <1>2
<1>9. a0 \o a1 = a
  <2>1. a0 \o a1 \in Seq(Steps) /\ Len(a0 \o a1) = 3 /\ (a0 \o a1)[1] = "profile_allow" /\ (a0 \o a1)[2] = "lift_v4" /\ (a0 \o a1)[3] = "lift_v6"
    BY <1>2
  <2> HIDE DEF a, a0, a1
  <2>2. \A i \in 1..3 : (a0 \o a1)[i] = a[i]  BY <2>1, <1>3
  <2> QED  BY <2>1, <2>2, <1>3, SeqEqual
<1>4. b \in Seq(Steps) /\ Len(b) = 3 /\ b[1] = "files_gated" /\ b[2] = "save_released" /\ b[3] = "log_released"  BY <1>2
<1>5. s \in Seq(Steps) /\ Len(s) = 6 /\ s[1] = "profile_allow" /\ s[2] = "lift_v4" /\ s[3] = "lift_v6" /\ s[4] = "files_gated" /\ s[5] = "save_released" /\ s[6] = "log_released"
  BY <1>1, <1>3, <1>4, <1>9
<1> HIDE DEF a, a0, a1, b
<1>6. Labels(s) = {"profile_allow", "lift_v4", "lift_v6", "files_gated", "save_released", "log_released"}  BY <1>5 DEF Labels
<1>7. ScriptOK(s)  BY <1>5, NetNames DEF ScriptOK, Disclosing, Turns, FileLabels
<1>8. s # <<>>
  <2>1. Len(s) = 6  BY <1>5
  <2> QED  BY <2>1, EmptySeq
<1> QED  BY <1>5, <1>6, <1>7, <1>8 DEF s

\* The deny check.
LEMMA ProbeScript ==
  /\ Probe \in Seq(Steps) /\ Probe # <<>> /\ ScriptOK(Probe)
  /\ Probe[Len(Probe)] = "judge"
  /\ Labels(Probe) = {"insert", "judge"}
<1> DEFINE s == <<"insert", "judge">>
<1>1. Probe = s  BY NetNames DEF Probe
<1>2. s \in Seq(Steps) /\ Len(s) = 2
  <2>1. "insert" \in Steps /\ "judge" \in Steps  BY DEF Steps
  <2> QED  BY <2>1
<1>3. s[1] = "insert" /\ s[2] = "judge"  OBVIOUS
<1> HIDE DEF s
<1>4. Labels(s) = {"insert", "judge"}  BY <1>2, <1>3 DEF Labels
<1>5. ScriptOK(s)  BY <1>2, <1>3, NetNames DEF ScriptOK, Disclosing, Turns, FileLabels
<1>6. s # <<>>  BY <1>2, EmptySeq
<1> QED  BY <1>1, <1>2, <1>3, <1>4, <1>5, <1>6

\* After a failed iptables call.
LEMMA FailedScript ==
  /\ <<"save_failed", "log_failed">> \in Seq(Steps) /\ <<"save_failed", "log_failed">> # <<>> /\ ScriptOK(<<"save_failed", "log_failed">>)
  /\ <<"save_failed", "log_failed">>[Len(<<"save_failed", "log_failed">>)] = "log_failed"
  /\ Labels(<<"save_failed", "log_failed">>) = {"save_failed", "log_failed"}
<1> DEFINE s == <<"save_failed", "log_failed">>
<1>1. <<"save_failed", "log_failed">> = s  OBVIOUS
<1>2. s \in Seq(Steps) /\ Len(s) = 2
  <2>1. "save_failed" \in Steps /\ "log_failed" \in Steps  BY DEF Steps
  <2> QED  BY <2>1
<1>3. s[1] = "save_failed" /\ s[2] = "log_failed"  OBVIOUS
<1> HIDE DEF s
<1>4. Labels(s) = {"save_failed", "log_failed"}  BY <1>2, <1>3 DEF Labels
<1>5. ScriptOK(s)  BY <1>2, <1>3, NetNames DEF ScriptOK, Disclosing, Turns, FileLabels
<1>6. s # <<>>  BY <1>2, EmptySeq
<1> QED  BY <1>1, <1>2, <1>3, <1>4, <1>5, <1>6

\* After a refused release.
LEMMA RefusedScript ==
  /\ <<"save_refused", "log_refused">> \in Seq(Steps) /\ <<"save_refused", "log_refused">> # <<>> /\ ScriptOK(<<"save_refused", "log_refused">>)
  /\ <<"save_refused", "log_refused">>[Len(<<"save_refused", "log_refused">>)] = "log_refused"
  /\ Labels(<<"save_refused", "log_refused">>) = {"save_refused", "log_refused"}
<1> DEFINE s == <<"save_refused", "log_refused">>
<1>1. <<"save_refused", "log_refused">> = s  OBVIOUS
<1>2. s \in Seq(Steps) /\ Len(s) = 2
  <2>1. "save_refused" \in Steps /\ "log_refused" \in Steps  BY DEF Steps
  <2> QED  BY <2>1
<1>3. s[1] = "save_refused" /\ s[2] = "log_refused"  OBVIOUS
<1> HIDE DEF s
<1>4. Labels(s) = {"save_refused", "log_refused"}  BY <1>2, <1>3 DEF Labels
<1>5. ScriptOK(s)  BY <1>2, <1>3, NetNames DEF ScriptOK, Disclosing, Turns, FileLabels
<1>6. s # <<>>  BY <1>2, EmptySeq
<1> QED  BY <1>1, <1>2, <1>3, <1>4, <1>5, <1>6

\* The hold unit.
LEMMA LoadScript ==
  /\ <<"load">> \in Seq(Steps) /\ <<"load">> # <<>> /\ ScriptOK(<<"load">>)
  /\ <<"load">>[Len(<<"load">>)] = "load"
  /\ Labels(<<"load">>) = {"load"}
<1> DEFINE s == <<"load">>
<1>1. <<"load">> = s  OBVIOUS
<1>2. s \in Seq(Steps) /\ Len(s) = 1
  <2>1. "load" \in Steps  BY DEF Steps
  <2> QED  BY <2>1
<1>3. s[1] = "load"  OBVIOUS
<1> HIDE DEF s
<1>4. Labels(s) = {"load"}  BY <1>2, <1>3 DEF Labels
<1>5. ScriptOK(s)  BY <1>2, <1>3, NetNames DEF ScriptOK, Disclosing, Turns, FileLabels
<1>6. s # <<>>  BY <1>2, EmptySeq
<1> QED  BY <1>1, <1>2, <1>3, <1>4, <1>5, <1>6

\* install, on a host without a policy and with one.
LEMMA InstallScript ==
  ASSUME NEW k, k.kind = "absent"
  PROVE  /\ install(k) \in Seq(Steps) /\ install(k) # <<>> /\ ScriptOK(install(k))
         /\ install(k)[Len(install(k))] = "log_ok"
         /\ Labels(install(k)) = {"conf", "files_tree", "keep_registry", "log_ok"}
<1> DEFINE s == install(k)
            a == <<"conf">>
            b == <<"files_tree", "keep_registry", "log_ok">>
<1>1. s = a \o b  BY NetNames DEF install
<1> HIDE DEF s
<1>2. "conf" \in Steps /\ "files_tree" \in Steps /\ "keep_registry" \in Steps /\ "log_ok" \in Steps  BY DEF Steps
<1>3. a \in Seq(Steps) /\ Len(a) = 1 /\ a[1] = "conf"  BY <1>2
<1>4. b \in Seq(Steps) /\ Len(b) = 3 /\ b[1] = "files_tree" /\ b[2] = "keep_registry" /\ b[3] = "log_ok"  BY <1>2
<1>5. s \in Seq(Steps) /\ Len(s) = 4 /\ s[1] = "conf" /\ s[2] = "files_tree" /\ s[3] = "keep_registry" /\ s[4] = "log_ok"
  BY <1>1, <1>3, <1>4
<1> HIDE DEF a, b
<1>6. Labels(s) = {"conf", "files_tree", "keep_registry", "log_ok"}  BY <1>5 DEF Labels
<1>7. ScriptOK(s)  BY <1>5, NetNames DEF ScriptOK, Disclosing, Turns, FileLabels
<1>8. s # <<>>
  <2>1. Len(s) = 4  BY <1>5
  <2> QED  BY <2>1, EmptySeq
<1> QED  BY <1>5, <1>6, <1>7, <1>8 DEF s

\* With a policy.
LEMMA ReinstallScript ==
  ASSUME NEW k, k.kind # "absent"
  PROVE  /\ install(k) \in Seq(Steps) /\ install(k) # <<>> /\ ScriptOK(install(k))
         /\ install(k)[Len(install(k))] = "log_ok"
         /\ Labels(install(k)) = {"files_tree", "keep_registry", "log_ok"}
<1> DEFINE s == <<"files_tree", "keep_registry", "log_ok">>
<1>1. install(k) = s  BY ConcatEmptySeq DEF install
<1>2. s \in Seq(Steps) /\ Len(s) = 3
  <2>1. "files_tree" \in Steps /\ "keep_registry" \in Steps /\ "log_ok" \in Steps  BY DEF Steps
  <2> QED  BY <2>1
<1>3. s[1] = "files_tree" /\ s[2] = "keep_registry" /\ s[3] = "log_ok"  OBVIOUS
<1> HIDE DEF s
<1>4. Labels(s) = {"files_tree", "keep_registry", "log_ok"}  BY <1>2, <1>3 DEF Labels
<1>5. ScriptOK(s)  BY <1>2, <1>3, NetNames DEF ScriptOK, Disclosing, Turns, FileLabels
<1>6. s # <<>>  BY <1>2, EmptySeq
<1> QED  BY <1>1, <1>2, <1>3, <1>4, <1>5, <1>6

\* enable_from_apply.
LEMMA ApplyScript ==
  ASSUME NEW k, k.kind = "absent"
  PROVE  /\ enable_from_apply(k) \in Seq(Steps) /\ enable_from_apply(k) # <<>> /\ ScriptOK(enable_from_apply(k))
         /\ enable_from_apply(k)[Len(enable_from_apply(k))] = "load"
         /\ Labels(enable_from_apply(k)) = {"conf", "load"}
<1> DEFINE s == enable_from_apply(k)
            a == <<"conf">>
            b == <<"load">>
<1>1. s = a \o b  BY NetNames DEF enable_from_apply
<1> HIDE DEF s
<1>2. "conf" \in Steps /\ "load" \in Steps  BY DEF Steps
<1>3. a \in Seq(Steps) /\ Len(a) = 1 /\ a[1] = "conf"  BY <1>2
<1>4. b \in Seq(Steps) /\ Len(b) = 1 /\ b[1] = "load"  BY <1>2
<1>5. s \in Seq(Steps) /\ Len(s) = 2 /\ s[1] = "conf" /\ s[2] = "load"
  BY <1>1, <1>3, <1>4
<1> HIDE DEF a, b
<1>6. Labels(s) = {"conf", "load"}  BY <1>5 DEF Labels
<1>7. ScriptOK(s)  BY <1>5, NetNames DEF ScriptOK, Disclosing, Turns, FileLabels
<1>8. s # <<>>
  <2>1. Len(s) = 2  BY <1>5
  <2> QED  BY <2>1, EmptySeq
<1> QED  BY <1>5, <1>6, <1>7, <1>8 DEF s

\* With a policy.
LEMMA ReapplyScript ==
  ASSUME NEW k, k.kind # "absent"
  PROVE  /\ enable_from_apply(k) \in Seq(Steps) /\ enable_from_apply(k) # <<>> /\ ScriptOK(enable_from_apply(k))
         /\ enable_from_apply(k)[Len(enable_from_apply(k))] = "load"
         /\ Labels(enable_from_apply(k)) = {"load"}
<1> DEFINE s == <<"load">>
<1>1. enable_from_apply(k) = s  BY ConcatEmptySeq DEF enable_from_apply
<1>2. s \in Seq(Steps) /\ Len(s) = 1
  <2>1. "load" \in Steps  BY DEF Steps
  <2> QED  BY <2>1
<1>3. s[1] = "load"  OBVIOUS
<1> HIDE DEF s
<1>4. Labels(s) = {"load"}  BY <1>2, <1>3 DEF Labels
<1>5. ScriptOK(s)  BY <1>2, <1>3, NetNames DEF ScriptOK, Disclosing, Turns, FileLabels
<1>6. s # <<>>  BY <1>2, EmptySeq
<1> QED  BY <1>1, <1>2, <1>3, <1>4, <1>5, <1>6

\* The other commands.
LEMMA OptInScript ==
  /\ opt_in \in Seq(Steps) /\ opt_in # <<>> /\ ScriptOK(opt_in)
  /\ opt_in[Len(opt_in)] = "load"
  /\ Labels(opt_in) = {"conf", "log_ok", "load"}
<1> DEFINE s == <<"conf", "log_ok", "load">>
<1>1. opt_in = s  BY NetNames DEF opt_in
<1>2. s \in Seq(Steps) /\ Len(s) = 3
  <2>1. "conf" \in Steps /\ "log_ok" \in Steps /\ "load" \in Steps  BY DEF Steps
  <2> QED  BY <2>1
<1>3. s[1] = "conf" /\ s[2] = "log_ok" /\ s[3] = "load"  OBVIOUS
<1> HIDE DEF s
<1>4. Labels(s) = {"conf", "log_ok", "load"}  BY <1>2, <1>3 DEF Labels
<1>5. ScriptOK(s)  BY <1>2, <1>3, NetNames DEF ScriptOK, Disclosing, Turns, FileLabels
<1>6. s # <<>>  BY <1>2, EmptySeq
<1> QED  BY <1>1, <1>2, <1>3, <1>4, <1>5, <1>6

\* release.
LEMMA ReleaseScript ==
  /\ release \in Seq(Steps) /\ release # <<>> /\ ScriptOK(release)
  /\ release[Len(release)] = "judge"
  /\ Labels(release) = {"read", "insert", "judge"}
<1> DEFINE s == release
            a == <<"read">>
            b == <<"insert", "judge">>
<1>1. s = a \o b  BY NetNames DEF release, Probe
<1> HIDE DEF s
<1>2. "read" \in Steps /\ "insert" \in Steps /\ "judge" \in Steps  BY DEF Steps
<1>3. a \in Seq(Steps) /\ Len(a) = 1 /\ a[1] = "read"  BY <1>2
<1>4. b \in Seq(Steps) /\ Len(b) = 2 /\ b[1] = "insert" /\ b[2] = "judge"  BY <1>2
<1>5. s \in Seq(Steps) /\ Len(s) = 3 /\ s[1] = "read" /\ s[2] = "insert" /\ s[3] = "judge"
  BY <1>1, <1>3, <1>4
<1> HIDE DEF a, b
<1>6. Labels(s) = {"read", "insert", "judge"}  BY <1>5 DEF Labels
<1>7. ScriptOK(s)  BY <1>5, NetNames DEF ScriptOK, Disclosing, Turns, FileLabels
<1>8. s # <<>>
  <2>1. Len(s) = 3  BY <1>5
  <2> QED  BY <2>1, EmptySeq
<1> QED  BY <1>5, <1>6, <1>7, <1>8 DEF s

\* remove_from_apply.
LEMMA RemoveScript ==
  /\ remove_from_apply \in Seq(Steps) /\ remove_from_apply # <<>> /\ ScriptOK(remove_from_apply)
  /\ remove_from_apply[Len(remove_from_apply)] = "log_removed"
  /\ Labels(remove_from_apply) = {"lift_v4", "lift_v6", "files_removed", "save_removed", "log_removed"}
<1> DEFINE s == remove_from_apply
            a == <<"lift_v4", "lift_v6">>
            b == <<"files_removed", "save_removed", "log_removed">>
<1>1. s = a \o b  BY NetNames DEF remove_from_apply, remove_hold
<1> HIDE DEF s
<1>2. "lift_v4" \in Steps /\ "lift_v6" \in Steps /\ "files_removed" \in Steps /\ "save_removed" \in Steps /\ "log_removed" \in Steps  BY DEF Steps
<1>3. a \in Seq(Steps) /\ Len(a) = 2 /\ a[1] = "lift_v4" /\ a[2] = "lift_v6"  BY <1>2
<1>4. b \in Seq(Steps) /\ Len(b) = 3 /\ b[1] = "files_removed" /\ b[2] = "save_removed" /\ b[3] = "log_removed"  BY <1>2
<1>5. s \in Seq(Steps) /\ Len(s) = 5 /\ s[1] = "lift_v4" /\ s[2] = "lift_v6" /\ s[3] = "files_removed" /\ s[4] = "save_removed" /\ s[5] = "log_removed"
  BY <1>1, <1>3, <1>4
<1> HIDE DEF a, b
<1>6. Labels(s) = {"lift_v4", "lift_v6", "files_removed", "save_removed", "log_removed"}  BY <1>5 DEF Labels
<1>7. ScriptOK(s)  BY <1>5, NetNames DEF ScriptOK, Disclosing, Turns, FileLabels
<1>8. s # <<>>
  <2>1. Len(s) = 5  BY <1>5
  <2> QED  BY <2>1, EmptySeq
<1> QED  BY <1>5, <1>6, <1>7, <1>8 DEF s

\* enroll.
LEMMA EnrollScript ==
  /\ enroll \in Seq(Steps) /\ enroll # <<>> /\ ScriptOK(enroll)
  /\ enroll[Len(enroll)] = "log_ok"
  /\ Labels(enroll) = {"read", "register", "files_enroll", "log_ok"}
<1> DEFINE s == <<"read", "register", "files_enroll", "log_ok">>
<1>1. enroll = s  BY NetNames DEF enroll
<1>2. s \in Seq(Steps) /\ Len(s) = 4
  <2>1. "read" \in Steps /\ "register" \in Steps /\ "files_enroll" \in Steps /\ "log_ok" \in Steps  BY DEF Steps
  <2> QED  BY <2>1
<1>3. s[1] = "read" /\ s[2] = "register" /\ s[3] = "files_enroll" /\ s[4] = "log_ok"  OBVIOUS
<1> HIDE DEF s
<1>4. Labels(s) = {"read", "register", "files_enroll", "log_ok"}  BY <1>2, <1>3 DEF Labels
<1>5. ScriptOK(s)  BY <1>2, <1>3, NetNames DEF ScriptOK, Disclosing, Turns, FileLabels
<1>6. s # <<>>  BY <1>2, EmptySeq
<1> QED  BY <1>1, <1>2, <1>3, <1>4, <1>5, <1>6

\* observe_unenrolled.
LEMMA ObserveScript ==
  /\ observe_unenrolled \in Seq(Steps) /\ observe_unenrolled # <<>> /\ ScriptOK(observe_unenrolled)
  /\ observe_unenrolled[Len(observe_unenrolled)] = "log_ok"
  /\ Labels(observe_unenrolled) = {"read", "register", "log_ok"}
<1> DEFINE s == <<"read", "register", "log_ok">>
<1>1. observe_unenrolled = s  BY NetNames DEF observe_unenrolled
<1>2. s \in Seq(Steps) /\ Len(s) = 3
  <2>1. "read" \in Steps /\ "register" \in Steps /\ "log_ok" \in Steps  BY DEF Steps
  <2> QED  BY <2>1
<1>3. s[1] = "read" /\ s[2] = "register" /\ s[3] = "log_ok"  OBVIOUS
<1> HIDE DEF s
<1>4. Labels(s) = {"read", "register", "log_ok"}  BY <1>2, <1>3 DEF Labels
<1>5. ScriptOK(s)  BY <1>2, <1>3, NetNames DEF ScriptOK, Disclosing, Turns, FileLabels
<1>6. s # <<>>  BY <1>2, EmptySeq
<1> QED  BY <1>1, <1>2, <1>3, <1>4, <1>5, <1>6

\* opt_out.
LEMMA OptOutScript ==
  /\ opt_out \in Seq(Steps) /\ opt_out # <<>> /\ ScriptOK(opt_out)
  /\ opt_out[Len(opt_out)] = "log_optout"
  /\ Labels(opt_out) = {"conf", "read", "lift_v4", "lift_v6", "profile_allow", "files_gated", "save_optout", "log_optout"}
<1> DEFINE s == opt_out
            a == <<"conf", "read">>
            b == <<"lift_v4", "lift_v6">>
            c == <<"profile_allow", "files_gated", "save_optout", "log_optout">>
<1>1. s = a \o b \o c  BY NetNames DEF opt_out, remove_hold
<1> HIDE DEF s
<1>2. "conf" \in Steps /\ "read" \in Steps /\ "lift_v4" \in Steps /\ "lift_v6" \in Steps /\ "profile_allow" \in Steps /\ "files_gated" \in Steps /\ "save_optout" \in Steps /\ "log_optout" \in Steps  BY DEF Steps
<1>3. a \in Seq(Steps) /\ Len(a) = 2 /\ a[1] = "conf" /\ a[2] = "read"  BY <1>2
<1>4. b \in Seq(Steps) /\ Len(b) = 2 /\ b[1] = "lift_v4" /\ b[2] = "lift_v6"  BY <1>2
<1>5. c \in Seq(Steps) /\ Len(c) = 4 /\ c[1] = "profile_allow" /\ c[2] = "files_gated" /\ c[3] = "save_optout" /\ c[4] = "log_optout"  BY <1>2
<1> DEFINE ab == <<"conf", "read", "lift_v4", "lift_v6">>
<1>6. a \o b \in Seq(Steps) /\ Len(a \o b) = 4 /\ (a \o b)[1] = "conf" /\ (a \o b)[2] = "read" /\ (a \o b)[3] = "lift_v4" /\ (a \o b)[4] = "lift_v6"  BY <1>3, <1>4
<1>7. ab \in Seq(Steps) /\ Len(ab) = 4 /\ ab[1] = "conf" /\ ab[2] = "read" /\ ab[3] = "lift_v4" /\ ab[4] = "lift_v6"  BY <1>2
<1>8. a \o b = ab
  <2> HIDE DEF a, b, ab
  <2>1. \A i \in 1..4 : (a \o b)[i] = ab[i]  BY <1>6, <1>7
  <2> QED  BY <2>1, <1>6, <1>7, SeqEqual
<1>9. s \in Seq(Steps) /\ Len(s) = 8 /\ s[1] = "conf" /\ s[2] = "read" /\ s[3] = "lift_v4" /\ s[4] = "lift_v6" /\ s[5] = "profile_allow" /\ s[6] = "files_gated" /\ s[7] = "save_optout" /\ s[8] = "log_optout"
  BY <1>1, <1>8, <1>7, <1>5
<1> HIDE DEF a, b, c
<1>10. Labels(s) = {"conf", "read", "lift_v4", "lift_v6", "profile_allow", "files_gated", "save_optout", "log_optout"}  BY <1>9 DEF Labels
<1>11. ScriptOK(s)  BY <1>9, NetNames DEF ScriptOK, Disclosing, Turns, FileLabels
<1>13. Len(s) = 8  BY <1>9
<1>12. s # <<>>
  <2>1. s \in Seq(Steps) /\ Len(s) # 0  BY <1>9, <1>13
  <2> HIDE DEF s
  <2> QED  BY <2>1, EmptySeq
<1> QED  BY <1>9, <1>10, <1>11, <1>12 DEF s

\* prepare_enforce.
LEMMA PrepareScript ==
  /\ prepare_enforce \in Seq(Steps) /\ prepare_enforce # <<>> /\ ScriptOK(prepare_enforce)
  /\ prepare_enforce[Len(prepare_enforce)] = "log_ok"
  /\ Labels(prepare_enforce) = {"prepare", "docker_run", "log_ok"}
<1> DEFINE s == <<"prepare", "docker_run", "log_ok">>
<1>1. prepare_enforce = s  BY NetNames DEF prepare_enforce
<1>2. s \in Seq(Steps) /\ Len(s) = 3
  <2>1. "prepare" \in Steps /\ "docker_run" \in Steps /\ "log_ok" \in Steps  BY DEF Steps
  <2> QED  BY <2>1
<1>3. s[1] = "prepare" /\ s[2] = "docker_run" /\ s[3] = "log_ok"  OBVIOUS
<1> HIDE DEF s
<1>4. Labels(s) = {"prepare", "docker_run", "log_ok"}  BY <1>2, <1>3 DEF Labels
<1>5. ScriptOK(s)  BY <1>2, <1>3, NetNames DEF ScriptOK, Disclosing, Turns, FileLabels
<1>6. s # <<>>  BY <1>2, EmptySeq
<1> QED  BY <1>1, <1>2, <1>3, <1>4, <1>5, <1>6

----------------------------------------------------------------------------
(* One process. *)

\* A process with a step to take is in a command.
LEMMA Working ==
  ASSUME NEW mem, NEW y, NEW n, ProcOK(mem, y, n), mem.todo # <<>>
  PROVE  mem.cmd # "none"
BY DEF ProcOK, MemOK, Idle

\* A process without a command relies on nothing.
LEMMA IdleOK ==
  ASSUME NEW y, NEW n
  PROVE  Idle \in Memory /\ ProcOK(Idle, y, n)
<1>1. Idle \in Memory
  <2>1. <<>> \in Seq(Steps)  BY EmptySeq
  <2>2. default_policy \in Body  BY DEF default_policy, Body
  <2>3. 0 \in 0..MaxProbes  BY ConstantsAssumption
  <2>4. [w \in Workloads |-> "none"] \in [Workloads -> {"none", "enrolled", "observed"}]  OBVIOUS
  <2> QED  BY <2>1, <2>2, <2>3, <2>4 DEF Idle, Memory
<1>2. Idle.todo = <<>> /\ Idle.cmd = "none" /\ Idle.bypassed = FALSE /\ Idle.body = default_policy  BY DEF Idle
<1>3. Labels(Idle.todo) = {}
  <2>1. Len(Idle.todo) = 0  BY <1>2, EmptySeq
  <2> QED  BY <2>1 DEF Labels
<1>4. ScriptOK(Idle.todo)
  <2>1. Len(Idle.todo) = 0  BY <1>2, EmptySeq
  <2> QED  BY <2>1 DEF ScriptOK
<1>5. "hold" \in mechanisms_active(Idle.body)  BY <1>2 DEF mechanisms_active, default_policy
<1>6. MemOK(Idle)  BY <1>1, <1>2, <1>3, <1>4 DEF MemOK
<1>7. Entitled(Idle, y)  BY <1>3, <1>5 DEF Entitled
<1>8. Filled(Idle, y, n)  BY <1>3 DEF Filled
<1> QED  BY <1>1, <1>6, <1>7, <1>8 DEF ProcOK

\* What the rest of the host may do to the grounds and the chains while a process
\* waits: grounds of this boot stay, and a chain is taken down only when there are some.
Kept(y, y2, n, n2) ==
  /\ Given(y) \subseteq y2
  /\ \A f \in Families : Up(n, f) => Up(n2, f) \/ Given(y2) # {}

LEMMA Waits ==
  ASSUME NEW mem, NEW y, NEW y2, NEW n, NEW n2, ProcOK(mem, y, n), Kept(y, y2, n, n2)
  PROVE  ProcOK(mem, y2, n2)
<1>1. Given(y) \subseteq Given(y2)  BY DEF Kept, Given, Up
<1>2. \A g \in {"break-glass", "hold-off", "ready", "opt-out"} : g \in y => g \in y2  BY DEF Kept, Given, Up
<1>3. Entitled(mem, y2)
  <2>1. Entitled(mem, y)  BY DEF ProcOK
  <2>2. {"hold-off", "opt-out"} \cap y # {} => {"hold-off", "opt-out"} \cap y2 # {}  BY <1>2
  <2> QED  BY <1>1, <1>2, <2>1, <2>2 DEF Entitled
<1>4. Filled(mem, y2, n2)
  <2>1. Filled(mem, y, n)  BY DEF ProcOK
  <2> QED  BY <1>1, <2>1 DEF Filled, Kept, Up
<1> QED  BY <1>3, <1>4 DEF ProcOK

\* A process that goes on to its next step, with what it has read meanwhile.
LEMMA Advances ==
  ASSUME NEW mem, NEW y, NEW n, ProcOK(mem, y, n), mem.todo # <<>>, Head(mem.todo) # "load",
         \A f \in Families : Head(mem.todo) = Fill[f] => Up(n, f),
         Len(mem.todo) = 1 => mem.cmd # "apply-boot",
         NEW mem2 \in Memory, mem2.todo = Tail(mem.todo), mem2.cmd = mem.cmd, mem2.w = mem.w,
         mem2.bypassed => Len(mem2.todo) = 1 /\ mem2.todo[1] = "judge",
         mem2.body = mem.body \/ "hold" \in mechanisms_active(mem2.body) \/ {"hold-off", "opt-out"} \cap y # {}
  PROVE  ProcOK(mem2, y, n)
<1>1. mem \in Memory /\ mem.todo \in Seq(Steps) /\ ScriptOK(mem.todo)  BY DEF ProcOK, MemOK, Memory
<1>2. Labels(mem.todo) = {Head(mem.todo)} \cup Labels(mem2.todo)  BY <1>1, TailLabels
<1>3. ScriptOK(mem2.todo)  BY <1>1, TailScript
<1>4. mem2.cmd # "none"  BY Working
<1>5. mem.cmd = "apply-boot" => mem2.todo # <<>> /\ mem2.todo[Len(mem2.todo)] \in Ends
  <2>1. mem.cmd = "apply-boot" => mem.todo[Len(mem.todo)] \in Ends  BY DEF ProcOK, MemOK
  <2>2. Len(mem.todo) # 1 => mem2.todo # <<>> /\ mem2.todo[Len(mem2.todo)] = mem.todo[Len(mem.todo)]
    BY <1>1, TailLabels
  <2> QED  BY <2>1, <2>2
<1>6. MemOK(mem2)
  <2>1. /\ "files_enroll" \in Labels(mem.todo) => mem.w \in Workloads
        /\ mem.cmd = "opt-out" => "load" \notin Labels(mem.todo)
    BY DEF ProcOK, MemOK
  <2> QED  BY <2>1, <1>2, <1>3, <1>4, <1>5 DEF MemOK
<1>7. Entitled(mem2, y)
  <2>1. Entitled(mem, y)  BY DEF ProcOK
  <2>2. "load" \in Labels(mem.todo) => "load" \in Labels(mem2.todo)  BY <1>2
  <2> QED  BY <1>2, <2>1, <2>2 DEF Entitled
<1>8. Filled(mem2, y, n)
  <2>1. Filled(mem, y, n)  BY DEF ProcOK
  <2> QED  BY <1>2, <2>1 DEF Filled
<1> QED  BY <1>6, <1>7, <1>8 DEF ProcOK

----------------------------------------------------------------------------
(* The processes together. *)

UnitStates == [Units -> {"inactive", "active", "failed"}]

ProcsOK ==
  /\ run \in [Procs -> Memory] /\ svc \in UnitStates
  /\ run["systemd"].cmd \in {"none", "apply-boot", "release"}
  /\ \A p \in Procs : ProcOK(run[p], why, net)

LEMMA ContinueKeeps ==
  ASSUME ProcsOK, NEW p \in Procs, NEW mem, Continue(p, mem), mem \in Memory, mem.cmd = run[p].cmd,
         Kept(why, why', net, net'), ProcOK(mem, why', net')
  PROVE  ProcsOK'
<1>1. run' = [run EXCEPT ![p] = mem] /\ svc' = svc  BY DEF Continue
<1>2. run' \in [Procs -> Memory]  BY <1>1 DEF ProcsOK
<1>3. \A q \in Procs : ProcOK(run'[q], why', net')
  <2> SUFFICES ASSUME NEW q \in Procs  PROVE ProcOK(run'[q], why', net')  OBVIOUS
  <2>1. CASE q = p  BY <1>1, <2>1 DEF ProcsOK
  <2>2. CASE q # p
    <3>1. run'[q] = run[q]  BY <1>1, <2>2 DEF ProcsOK
    <3>2. ProcOK(run[q], why, net)  BY DEF ProcsOK
    <3> QED  BY <3>1, <3>2, Waits
  <2> QED  BY <2>1, <2>2
<1>4. run'["systemd"].cmd = run["systemd"].cmd  BY <1>1 DEF ProcsOK, Procs
<1> QED  BY <1>1, <1>2, <1>3, <1>4 DEF ProcsOK

LEMMA ExitKeeps ==
  ASSUME ProcsOK, NEW p \in Procs, NEW ok, Exit(p, ok), Kept(why, why', net, net')
  PROVE  ProcsOK'
<1>1. run' = [run EXCEPT ![p] = Idle]  BY DEF Exit
<1>2. run' \in [Procs -> Memory]  BY <1>1, IdleOK DEF ProcsOK
<1>3. svc' \in UnitStates
  <2>1. UnitOf(m(p).cmd) \in Units  BY DEF UnitOf, Units
  <2>2. (IF ok THEN "active" ELSE "failed") \in {"inactive", "active", "failed"}  OBVIOUS
  <2>3. [svc EXCEPT ![UnitOf(m(p).cmd)] = IF ok THEN "active" ELSE "failed"] \in UnitStates
    BY <2>1, <2>2 DEF ProcsOK, UnitStates
  <2> QED  BY <2>3 DEF Exit, ProcsOK
<1>4. \A q \in Procs : ProcOK(run'[q], why', net')
  <2> SUFFICES ASSUME NEW q \in Procs  PROVE ProcOK(run'[q], why', net')  OBVIOUS
  <2>1. CASE q = p
    <3>1. run'[q] = Idle  BY <1>1, <2>1 DEF ProcsOK
    <3> QED  BY <3>1, IdleOK
  <2>2. CASE q # p
    <3>1. run'[q] = run[q]  BY <1>1, <2>2 DEF ProcsOK
    <3>2. ProcOK(run[q], why, net)  BY DEF ProcsOK
    <3> QED  BY <3>1, <3>2, Waits
  <2> QED  BY <2>1, <2>2
<1>5. run'["systemd"].cmd \in {"none", run["systemd"].cmd}  BY <1>1 DEF ProcsOK, Procs, Idle
<1> QED  BY <1>2, <1>3, <1>4, <1>5 DEF ProcsOK

LEMMA ProceedKeeps ==
  ASSUME ProcsOK, NEW p \in Procs, Proceed(p), m(p).todo # <<>>, Head(m(p).todo) # "load",
         Kept(why, why', net, net'), \A f \in Families : Head(m(p).todo) = Fill[f] => Up(net', f)
  PROVE  ProcsOK'
<1>1. CASE Len(m(p).todo) = 1
  <2>1. PICK ok : Exit(p, ok)  BY <1>1 DEF Proceed
  <2> QED  BY <2>1, ExitKeeps
<1>2. CASE Len(m(p).todo) # 1
  <2>1. PICK mem : mem = [m(p) EXCEPT !.todo = Tail(@)] /\ Continue(p, mem)  BY <1>2 DEF Proceed
  <2>2. m(p) \in Memory /\ ProcOK(m(p), why, net)  BY DEF ProcsOK, m
  <2>3. Tail(m(p).todo) \in Seq(Steps)  BY <2>2, TailLabels DEF Memory
  <2>4. /\ mem \in Memory /\ mem.todo = Tail(m(p).todo) /\ mem.cmd = m(p).cmd /\ mem.w = m(p).w
        /\ mem.bypassed = m(p).bypassed /\ mem.body = m(p).body
    BY <2>1, <2>2, <2>3 DEF Memory
  <2>5. ~m(p).bypassed  BY <1>2, <2>2 DEF ProcOK, MemOK
  <2>6. ProcOK(m(p), why', net')  BY <2>2, Waits
  <2>7. ProcOK(mem, why', net')  BY <1>2, <2>4, <2>5, <2>6, Advances
  <2> QED  BY <2>1, <2>4, <2>7, ContinueKeeps DEF m
<1> QED  BY <1>1, <1>2

LEMMA StutterKeeps ==
  ASSUME ProcsOK, UNCHANGED run, svc' \in UnitStates, Kept(why, why', net, net')
  PROVE  ProcsOK'
<1>1. \A q \in Procs : ProcOK(run[q], why', net')  BY Waits DEF ProcsOK
<1> QED  BY <1>1 DEF ProcsOK

----------------------------------------------------------------------------
(* Which steps a command begins with. *)

LEMMA BeginScript ==
  ASSUME NEW c \in AllCommands, NEW k
  PROVE  /\ Script(c, k) \in Seq(Steps) /\ Script(c, k) # <<>> /\ ScriptOK(Script(c, k))
         /\ {"files_open", "log_off", "log_held", "save_released"} \cap Labels(Script(c, k)) = {}
         /\ {"lift_v4", "lift_v6"} \cap Labels(Script(c, k)) # {} => c \in {"remove", "opt-out"}
         /\ "files_enroll" \in Labels(Script(c, k)) => c = "enroll"
         /\ c = "opt-out" => "load" \notin Labels(Script(c, k))
         /\ c = "configure" => "load" \in Labels(Script(c, k))
         /\ c = "apply-boot" => Labels(Script(c, k)) = {"load"} /\ Script(c, k)[Len(Script(c, k))] = "load"
<1>1. CASE c = "install"
  <2>1. Script(c, k) = install(k)  BY <1>1 DEF Script
  <2> QED  BY <1>1, <2>1, InstallScript, ReinstallScript
<1>2. CASE c = "apply-boot"
  <2> DEFINE s == <<"load">>
  <2>1. Script(c, k) = s  BY <1>2 DEF Script
  <2>2. s \in Seq(Steps) /\ s # <<>> /\ ScriptOK(s) /\ s[Len(s)] = "load" /\ Labels(s) = {"load"}  BY LoadScript
  <2> HIDE DEF s
  <2> QED  BY <1>2, <2>1, <2>2
<1>3. CASE c = "from-apply"
  <2>1. Script(c, k) = enable_from_apply(k)  BY <1>3 DEF Script
  <2> QED  BY <1>3, <2>1, ApplyScript, ReapplyScript
<1>4. CASE c \in {"opt-in", "configure"}
  <2>1. Script(c, k) = opt_in  BY <1>4 DEF Script
  <2> QED  BY <1>4, <2>1, OptInScript
<1>5. CASE c \in {"release", "break-glass"}
  <2>1. Script(c, k) = release  BY <1>5 DEF Script
  <2> QED  BY <1>5, <2>1, ReleaseScript
<1>6. CASE c = "remove"
  <2>1. Script(c, k) = remove_from_apply  BY <1>6 DEF Script
  <2> QED  BY <1>6, <2>1, RemoveScript
<1>7. CASE c = "enroll"
  <2>1. Script(c, k) = enroll  BY <1>7 DEF Script
  <2> QED  BY <1>7, <2>1, EnrollScript
<1>8. CASE c = "observe-unenrolled"
  <2>1. Script(c, k) = observe_unenrolled  BY <1>8 DEF Script
  <2> QED  BY <1>8, <2>1, ObserveScript
<1>9. CASE c = "opt-out"
  <2>1. Script(c, k) = opt_out  BY <1>9 DEF Script
  <2> QED  BY <1>9, <2>1, OptOutScript
<1>10. CASE c = "prepare-enforce"
  <2>1. Script(c, k) = prepare_enforce  BY <1>10 DEF Script
  <2> QED  BY <1>10, <2>1, PrepareScript
<1> QED  BY <1>1, <1>2, <1>3, <1>4, <1>5, <1>6, <1>7, <1>8, <1>9, <1>10 DEF AllCommands

\* A policy without the hold that a live host honours is grounds.
LEMMA TrustedOff ==
  ASSUME conf \in Conf, PolicyGrounds(conf) \subseteq why
  PROVE  /\ load_policy(conf) \in Body
         /\ "hold" \in mechanisms_active(load_policy(conf)) \/ "hold-off" \in why
<1>1. default_policy \in Body /\ "hold" \in mechanisms_active(default_policy)
  BY DEF default_policy, Body, mechanisms_active
<1>2. CASE conf.kind = "signed" /\ Trusted
  <2>1. load_policy(conf) = conf.body /\ conf.body \in Body  BY <1>2 DEF load_policy, Conf
  <2>2. "hold" \notin mechanisms_active(conf.body) => "hold-off" \in PolicyGrounds(conf)  BY <1>2 DEF PolicyGrounds
  <2> QED  BY <2>1, <2>2
<1>3. CASE ~(conf.kind = "signed" /\ Trusted)
  <2>1. load_policy(conf) = default_policy  BY <1>3 DEF load_policy
  <2> QED  BY <1>1, <2>1
<1> QED  BY <1>2, <1>3

LEMMA BeginKeeps ==
  ASSUME ProcsOK, conf \in Conf, PolicyGrounds(conf) \subseteq why,
         NEW p \in Procs, NEW c \in AllCommands, p = "systemd" => c \in {"apply-boot", "release"}, Begin(p, c)
  PROVE  ProcsOK'
<1>1. PICK w \in IF c \in {"enroll", "observe-unenrolled"} THEN Workloads ELSE {"none"}, b \in Body :
        /\ CASE c = "configure" -> b \in Policies /\ b.enabled /\ (b.hold \/ b.ordering)
             [] c = "opt-out"   -> b = [load_policy(conf) EXCEPT !.enabled = FALSE]
             [] c = "install"   -> b = load_policy(conf)
             [] OTHER           -> b = default_policy
        /\ run' = [run EXCEPT ![p] = [Idle EXCEPT !.cmd = c, !.w = w, !.arg = b, !.body = b,
                                                  !.todo = Script(c, conf)]]
  BY DEF Begin
<1>2. PICK mem : mem = [Idle EXCEPT !.cmd = c, !.w = w, !.arg = b, !.body = b, !.todo = Script(c, conf)]  OBVIOUS
<1>3. w \in Workloads \cup {"none"} /\ (c = "enroll" => w \in Workloads)  BY <1>1
<1>4. /\ mem \in Memory /\ mem.cmd = c /\ mem.w = w /\ mem.body = b /\ mem.todo = Script(c, conf)
      /\ mem.bypassed = FALSE
  BY <1>2, <1>3, IdleOK, BeginScript DEF Memory, Idle
<1>5. /\ c = "configure" \/ c = "opt-out" \/ "hold" \in mechanisms_active(b) \/ "hold-off" \in why
  <2>1. CASE c = "install"
    <3>1. b = load_policy(conf)  BY <1>1, <2>1
    <3> QED  BY <3>1, TrustedOff
  <2>2. CASE c \notin {"install", "opt-out", "configure"}
    <3>1. b = default_policy  BY <1>1, <2>2
    <3> QED  BY <3>1 DEF default_policy, mechanisms_active
  <2> QED  BY <2>1, <2>2
<1>6. /\ why \subseteq why' /\ net' = net /\ svc' = svc
      /\ c = "opt-out" => "opt-out" \in why'
      /\ c = "remove" => "removed" \in why'
  BY DEF Begin, kernel
<1>7. Kept(why, why', net, net')  BY <1>6 DEF Kept, Given
<1>8. ProcOK(mem, why', net')
  <2>1. MemOK(mem)
    <3>1. c # "none"  BY DEF AllCommands
    <3>2. c = "apply-boot" => mem.todo[Len(mem.todo)] \in Ends  BY <1>4, BeginScript DEF Ends
    <3> QED  BY <1>3, <1>4, <3>1, <3>2, BeginScript DEF MemOK
  <2>2. Entitled(mem, why')
    <3>1. \A f \in Families : Lift[f] \in Labels(mem.todo) => Given(why') # {}
      <4>1. \A f \in Families : Lift[f] \in {"lift_v4", "lift_v6"}  BY NetNames
      <4>2. {"lift_v4", "lift_v6"} \cap Labels(mem.todo) # {} => c \in {"remove", "opt-out"}  BY <1>4, BeginScript
      <4>3. c \in {"remove", "opt-out"} => Given(why') # {}  BY <1>6 DEF Given
      <4> QED  BY <4>1, <4>2, <4>3
    <3>2. {"files_open", "log_off", "save_released"} \cap Labels(mem.todo) = {}  BY <1>4, BeginScript
    <3>3. "load" \in Labels(mem.todo) \/ "hold" \in mechanisms_active(mem.body) \/ {"hold-off", "opt-out"} \cap why' # {}
      BY <1>4, <1>5, <1>6, BeginScript
    <3> QED  BY <3>1, <3>2, <3>3 DEF Entitled
  <2>3. Filled(mem, why', net')  BY <1>4, BeginScript DEF Filled
  <2> QED  BY <2>1, <2>2, <2>3 DEF ProcOK
<1>9. run' = [run EXCEPT ![p] = mem]  BY <1>1, <1>2
<1>10. run' \in [Procs -> Memory]  BY <1>4, <1>9 DEF ProcsOK
<1>11. \A q \in Procs : ProcOK(run'[q], why', net')
  <2> SUFFICES ASSUME NEW q \in Procs  PROVE ProcOK(run'[q], why', net')  OBVIOUS
  <2>1. CASE q = p  BY <1>8, <1>9, <2>1 DEF ProcsOK
  <2>2. CASE q # p
    <3>1. run'[q] = run[q]  BY <1>9, <2>2 DEF ProcsOK
    <3>2. ProcOK(run[q], why, net)  BY DEF ProcsOK
    <3> QED  BY <3>1, <3>2, <1>7, Waits
  <2> QED  BY <2>1, <2>2
<1>12. run'["systemd"].cmd \in {"none", "apply-boot", "release"}
  <2>1. CASE p = "systemd"  BY <1>4, <1>9, <2>1 DEF ProcsOK
  <2>2. CASE p # "systemd"  BY <1>9, <2>2 DEF ProcsOK, Procs
  <2> QED  BY <2>1, <2>2
<1> QED  BY <1>6, <1>10, <1>11, <1>12 DEF ProcsOK

----------------------------------------------------------------------------
(* Every step keeps what the processes rely on. *)

\* A step that leaves grounds and chains alone, and one that adds grounds.
LEMMA KeptByAdding ==
  ASSUME why \subseteq why', UNCHANGED net
  PROVE  Kept(why, why', net, net')
BY DEF Kept, Given, Up

\* The process at a step.
LEMMA Here ==
  ASSUME ProcsOK, NEW p \in Procs, NEW S, At(p, S)
  PROVE  /\ m(p) = run[p] /\ m(p) \in Memory /\ m(p).todo \in Seq(Steps) /\ m(p).todo # <<>>
         /\ Head(m(p).todo) \in S /\ Head(m(p).todo) \in Labels(m(p).todo)
         /\ Head(m(p).todo) = m(p).todo[1] /\ Len(m(p).todo) \in Nat \ {0}
         /\ m(p).cmd # "none" /\ ProcOK(m(p), why, net)
         /\ Len(m(p).todo) = 1 /\ m(p).cmd = "apply-boot" => Head(m(p).todo) \in Ends
<1>1. m(p) = run[p] /\ m(p) \in Memory /\ ProcOK(m(p), why, net)  BY DEF ProcsOK, m
<1>2. m(p).todo \in Seq(Steps)  BY <1>1 DEF Memory
<1>3. m(p).todo # <<>> /\ Head(m(p).todo) \in S  BY DEF At
<1>4. m(p).cmd # "none"  BY <1>1, <1>3, Working
<1>5. Len(m(p).todo) = 1 => m(p).todo[Len(m(p).todo)] = Head(m(p).todo)  BY <1>2, <1>3, TailLabels
<1>6. m(p).cmd = "apply-boot" => m(p).todo[Len(m(p).todo)] \in Ends  BY <1>1 DEF ProcOK, MemOK
<1>7. Head(m(p).todo) \in Labels(m(p).todo) /\ Head(m(p).todo) = m(p).todo[1] /\ Len(m(p).todo) \in Nat \ {0}
  BY <1>2, <1>3, TailLabels
<1> QED  BY <1>1, <1>2, <1>3, <1>4, <1>5, <1>6, <1>7

\* The steps that only go on.
LEMMA PlainKeeps ==
  ASSUME ProcsOK, NEW p \in Procs, NEW S, At(p, S), S \cap {"load", "fill_v4", "fill_v6"} = {},
         Proceed(p), why \subseteq why', UNCHANGED net
  PROVE  ProcsOK'
<1>1. m(p).todo # <<>> /\ Head(m(p).todo) \in S  BY Here
<1>2. \A f \in Families : Fill[f] \in {"fill_v4", "fill_v6"}  BY NetNames
<1> QED  BY <1>1, <1>2, KeptByAdding, ProceedKeeps

LEMMA ReadKeeps ==
  ASSUME ProcsOK, conf \in Conf, reg \in Registry, PolicyGrounds(conf) \subseteq why,
         NEW p \in Procs, ReadStep(p)
  PROVE  ProcsOK'
<1> DEFINE b == IF m(p).cmd = "opt-out" THEN m(p).body ELSE load_policy(conf)
           rest == IF At(p, {"load"}) THEN apply_boot(b) ELSE Tail(m(p).todo)
<1>1. At(p, {"load", "read"}) /\ why' = why /\ net' = net  BY DEF ReadStep, kernel
<1>2. Kept(why, why', net, net')  BY <1>1, KeptByAdding
<1>3. CASE ~reg.ok
  <2>1. Exit(p, FALSE)  BY <1>3 DEF ReadStep
  <2> QED  BY <2>1, <1>2, ExitKeeps
<1>4. CASE reg.ok
  <2>1. PICK mem : mem = [m(p) EXCEPT !.body = b, !.rows = reg.row, !.todo = rest] /\ Continue(p, mem)
    BY <1>4 DEF ReadStep
  <2>2. /\ m(p) = run[p] /\ m(p) \in Memory /\ m(p).todo \in Seq(Steps) /\ m(p).todo # <<>>
        /\ Head(m(p).todo) \in {"load", "read"} /\ Head(m(p).todo) \in Labels(m(p).todo)
        /\ m(p).cmd # "none" /\ ProcOK(m(p), why, net)
        /\ Len(m(p).todo) = 1 /\ m(p).cmd = "apply-boot" => Head(m(p).todo) \in Ends
        /\ Head(m(p).todo) = m(p).todo[1]
    BY <1>1, Here
  <2>3. b \in Body  BY <2>2, TrustedOff DEF Memory
  <2>4. reg.row \in [Workloads -> {"none", "enrolled", "observed"}]  BY DEF Registry
  <2>5. ~m(p).bypassed  BY <2>2 DEF ProcOK, MemOK
  <2>6. CASE Head(m(p).todo) = "load"
    <3>1. rest = apply_boot(b)  BY <2>2, <2>6 DEF At
    <3>2. m(p).cmd # "opt-out"  BY <2>2, <2>6 DEF ProcOK, MemOK
    <3>3. "hold" \in mechanisms_active(b) \/ "hold-off" \in why  BY <3>2, TrustedOff
    <3> HIDE DEF b, rest
    <3>4. /\ rest \in Seq(Steps) /\ rest # <<>> /\ ScriptOK(rest) /\ rest[Len(rest)] \in Ends
          /\ {"load", "files_open", "save_released", "files_enroll"} \cap Labels(rest) = {}
          /\ "log_held" \in Labels(rest) => {"fill_v4", "fill_v6"} \subseteq Labels(rest)
          /\ {"lift_v4", "lift_v6", "log_off"} \cap Labels(rest) # {} => "hold-off" \in why
      <4>1. CASE "hold" \in mechanisms_active(b)  BY <2>3, <3>1, <4>1, HeldScript DEF Ends
      <4>2. CASE "hold" \notin mechanisms_active(b)  BY <2>3, <3>1, <3>3, <4>2, OffScript DEF Ends
      <4> QED  BY <4>1, <4>2
    <3>5. /\ mem \in Memory /\ mem.todo = rest /\ mem.cmd = m(p).cmd /\ mem.w = m(p).w
          /\ mem.bypassed = m(p).bypassed /\ mem.body = b
      BY <2>1, <2>2, <2>3, <2>4, <3>4 DEF Memory
    <3>6. MemOK(mem)  BY <2>2, <2>5, <3>4, <3>5 DEF MemOK
    <3>7. Entitled(mem, why)
      <4>1. \A f \in Families : Lift[f] \in {"lift_v4", "lift_v6"}  BY NetNames
      <4>2. "hold-off" \in why => Given(why) # {}  BY DEF Given
      <4> QED  BY <3>3, <3>4, <3>5, <4>1, <4>2 DEF Entitled
    <3>8. Filled(mem, why, net)
      <4>1. \A f \in Families : Fill[f] \in {"fill_v4", "fill_v6"}  BY NetNames
      <4> QED  BY <3>4, <3>5, <4>1 DEF Filled
    <3> QED  BY <1>1, <1>2, <2>1, <2>2, <3>5, <3>6, <3>7, <3>8, ContinueKeeps DEF ProcOK
  <2>7. CASE Head(m(p).todo) = "read"
    <3>1. rest = Tail(m(p).todo)
      <4>1. ~At(p, {"load"})  BY <2>7 DEF At
      <4> QED  BY <4>1
    <3>2. Tail(m(p).todo) \in Seq(Steps)  BY <2>2, TailLabels
    <3>3. b = m(p).body \/ "hold" \in mechanisms_active(b) \/ "hold-off" \in why  BY TrustedOff
    <3> HIDE DEF b, rest
    <3>4. /\ mem \in Memory /\ mem.todo = Tail(m(p).todo) /\ mem.cmd = m(p).cmd /\ mem.w = m(p).w
          /\ mem.bypassed = m(p).bypassed /\ mem.body = b
      BY <2>1, <2>2, <2>3, <2>4, <3>1, <3>2 DEF Memory
    <3>5. \A f \in Families : Head(m(p).todo) # Fill[f]  BY <2>7, NetNames
    <3>6. Len(m(p).todo) = 1 => m(p).cmd # "apply-boot"  BY <2>2, <2>7 DEF Ends
    <3>7. ProcOK(mem, why, net)  BY <2>2, <2>5, <2>7, <3>3, <3>4, <3>5, <3>6, Advances
    <3> QED  BY <1>1, <1>2, <2>1, <2>2, <3>4, <3>7, ContinueKeeps
  <2> QED  BY <2>2, <2>6, <2>7
<1> QED  BY <1>3, <1>4 DEF Registry

LEMMA RegisterKeeps ==
  ASSUME ProcsOK, NEW p \in Procs, RegisterStep(p)
  PROVE  ProcsOK' /\ reg' \in Registry
<1> DEFINE row == IF m(p).cmd = "enroll" THEN "enrolled" ELSE "observed"
           rows == [m(p).rows EXCEPT ![m(p).w] = row]
<1>1. At(p, {"register"}) /\ why' = why /\ net' = net  BY DEF RegisterStep, kernel
<1>2. PICK mem : mem = [m(p) EXCEPT !.rows = rows, !.todo = Tail(@)] /\ Continue(p, mem)
                 /\ reg' = [ok |-> TRUE, row |-> rows]
  BY DEF RegisterStep
<1>3. /\ m(p) = run[p] /\ m(p) \in Memory /\ m(p).todo \in Seq(Steps) /\ m(p).todo # <<>>
      /\ Head(m(p).todo) = "register" /\ ProcOK(m(p), why, net) /\ Head(m(p).todo) = m(p).todo[1]
      /\ Len(m(p).todo) = 1 /\ m(p).cmd = "apply-boot" => Head(m(p).todo) \in Ends
  BY <1>1, Here
<1>4. rows \in [Workloads -> {"none", "enrolled", "observed"}]
  <2>1. m(p).rows \in [Workloads -> {"none", "enrolled", "observed"}]  BY <1>3 DEF Memory
  <2>2. row \in {"none", "enrolled", "observed"}  OBVIOUS
  <2> QED  BY <2>1, <2>2
<1>5. reg' \in Registry  BY <1>2, <1>4 DEF Registry
<1>6. Tail(m(p).todo) \in Seq(Steps)  BY <1>3, TailLabels
<1> HIDE DEF rows, row
<1>7. /\ mem \in Memory /\ mem.todo = Tail(m(p).todo) /\ mem.cmd = m(p).cmd /\ mem.w = m(p).w
      /\ mem.bypassed = m(p).bypassed /\ mem.body = m(p).body
  BY <1>2, <1>3, <1>4, <1>6 DEF Memory
<1>8. ~m(p).bypassed  BY <1>3 DEF ProcOK, MemOK
<1>9. \A f \in Families : Head(m(p).todo) # Fill[f]  BY <1>3, NetNames
<1>10. Len(m(p).todo) = 1 => m(p).cmd # "apply-boot"  BY <1>3 DEF Ends
<1>11. ProcOK(mem, why, net)  BY <1>3, <1>7, <1>8, <1>9, <1>10, Advances
<1>12. Kept(why, why', net, net')  BY <1>1, KeptByAdding
<1>13. ProcsOK'  BY <1>1, <1>2, <1>3, <1>7, <1>11, <1>12, ContinueKeeps
<1> QED  BY <1>5, <1>13

\* No command turns back from a chain.
LEMMA NoTurn ==
  ASSUME NEW s \in Seq(Steps), s # <<>>, ScriptOK(s), Head(s) \in NetLabels
  PROVE  Labels(s) \cap Turns = {}
<1>1. Head(s) = s[1] /\ Len(s) \in Nat \ {0}  BY TailLabels
<1>2. 1 \in 1..Len(s)  BY <1>1
<1>3. \A j \in 1..Len(s) : s[j] \notin Turns  BY <1>1, <1>2 DEF ScriptOK
<1> QED  BY <1>3 DEF Labels

\* After a failed iptables call, only the failure is saved and logged.
LEMMA FailedKeeps ==
  ASSUME ProcsOK, NEW p \in Procs, At(p, NetLabels),
         Continue(p, [m(p) EXCEPT !.todo = <<"save_failed", "log_failed">>]), why' = why, net' = net
  PROVE  ProcsOK'
<1> DEFINE s == <<"save_failed", "log_failed">>
<1>1. s \in Seq(Steps) /\ s # <<>> /\ ScriptOK(s) /\ s[Len(s)] = "log_failed" /\ Labels(s) = {"save_failed", "log_failed"}
  BY FailedScript
<1>2. PICK mem : mem = [m(p) EXCEPT !.todo = s] /\ Continue(p, mem)  OBVIOUS
<1> HIDE DEF s
<1>3. /\ m(p) = run[p] /\ m(p) \in Memory /\ ProcOK(m(p), why, net) /\ m(p).cmd # "none"
      /\ m(p).todo \in Seq(Steps) /\ m(p).todo # <<>> /\ Head(m(p).todo) \in NetLabels
      /\ Head(m(p).todo) = m(p).todo[1]
  BY Here
<1>4. /\ mem \in Memory /\ mem.todo = s /\ mem.cmd = m(p).cmd /\ mem.w = m(p).w
      /\ mem.bypassed = m(p).bypassed /\ mem.body = m(p).body
  BY <1>1, <1>2, <1>3 DEF Memory
<1>5. ~m(p).bypassed
  <2>1. "judge" \notin NetLabels  BY NetNames
  <2> QED  BY <1>3, <2>1 DEF ProcOK, MemOK
<1>6. MemOK(mem)  BY <1>1, <1>3, <1>4, <1>5 DEF MemOK, Ends
<1>7. "load" \notin Labels(m(p).todo)
  <2>1. Labels(m(p).todo) \cap Turns = {}  BY <1>3, NoTurn DEF ProcOK, MemOK
  <2> QED  BY <2>1 DEF Turns
<1>8. Entitled(mem, why)
  <2>1. \A f \in Families : Lift[f] \notin Labels(mem.todo)  BY <1>1, <1>4, NetNames
  <2>2. Entitled(m(p), why)  BY <1>3 DEF ProcOK
  <2> QED  BY <1>1, <1>4, <1>7, <2>1, <2>2 DEF Entitled
<1>9. Filled(mem, why, net)  BY <1>1, <1>4 DEF Filled
<1>10. Kept(why, why', net, net')  BY KeptByAdding
<1>11. ProcOK(mem, why', net')  BY <1>6, <1>8, <1>9 DEF ProcOK
<1> QED  BY <1>2, <1>3, <1>4, <1>10, <1>11, ContinueKeeps

LEMMA FlushKeeps ==
  ASSUME ProcsOK, net \in [Families -> ChainStates], NEW p \in Procs, FlushStep(p)
  PROVE  ProcsOK' /\ Kept(why, why', net, net')
<1>1. PICK f \in Families :
        /\ At(p, {Flush[f]})
        /\ \/ /\ net' = [net EXCEPT ![f] = IF @ \in {"drop", "emptied"} THEN "emptied" ELSE "empty"]
              /\ Proceed(p)
           \/ /\ Continue(p, [m(p) EXCEPT !.todo = <<"save_failed", "log_failed">>])
              /\ UNCHANGED <<net, exc>>
  BY DEF FlushStep
<1>2. {Flush[f]} \subseteq NetLabels /\ {Flush[f]} \cap {"load", "fill_v4", "fill_v6"} = {}  BY NetNames
<1>3. m(p).todo # <<>> /\ Head(m(p).todo) = Flush[f] /\ At(p, NetLabels)  BY <1>1, <1>2, Here DEF At
<1>6. why' = why  BY DEF FlushStep
<1>4. CASE /\ net' = [net EXCEPT ![f] = IF @ \in {"drop", "emptied"} THEN "emptied" ELSE "empty"]
           /\ Proceed(p)
  <2>1. Kept(why, why', net, net')
    <3>1. \A g \in Families : g # f => net'[g] = net[g]  BY <1>4
    <3>2. Up(net, f) => Up(net', f)  BY <1>4 DEF Up
    <3> QED  BY <1>6, <3>1, <3>2 DEF Kept, Given, Up
  <2>2. \A g \in Families : Head(m(p).todo) # Fill[g]  BY <1>2, <1>3, NetNames
  <2>3. Head(m(p).todo) # "load"  BY <1>2, <1>3
  <2> QED  BY <1>3, <1>4, <2>1, <2>2, <2>3, ProceedKeeps
<1>5. CASE /\ Continue(p, [m(p) EXCEPT !.todo = <<"save_failed", "log_failed">>])
           /\ UNCHANGED <<net, exc>>
  BY <1>3, <1>5, <1>6, FailedKeeps, KeptByAdding
<1> QED  BY <1>1, <1>4, <1>5

LEMMA FillKeeps ==
  ASSUME ProcsOK, net \in [Families -> ChainStates], NEW p \in Procs, FillStep(p)
  PROVE  ProcsOK' /\ Kept(why, why', net, net')
<1>1. PICK f \in Families :
        /\ At(p, {Fill[f]})
        /\ \/ net' = [net EXCEPT ![f] = "drop"] /\ Proceed(p)
           \/ /\ Continue(p, [m(p) EXCEPT !.todo = <<"save_failed", "log_failed">>])
              /\ UNCHANGED net
  BY DEF FillStep
<1>2. {Fill[f]} \subseteq NetLabels /\ Fill[f] # "load" /\ \A g \in Families : Fill[g] = Fill[f] => g = f  BY NetNames
<1>3. m(p).todo # <<>> /\ Head(m(p).todo) = Fill[f] /\ At(p, NetLabels)  BY <1>1, <1>2, Here DEF At
<1>4. why' = why  BY DEF FillStep
<1>5. CASE net' = [net EXCEPT ![f] = "drop"] /\ Proceed(p)
  <2>1. Kept(why, why', net, net')  BY <1>4, <1>5 DEF Kept, Given, Up
  <2>2. \A g \in Families : Head(m(p).todo) = Fill[g] => Up(net', g)  BY <1>2, <1>3, <1>5 DEF Up
  <2> QED  BY <1>2, <1>3, <1>5, <2>1, <2>2, ProceedKeeps
<1>6. CASE Continue(p, [m(p) EXCEPT !.todo = <<"save_failed", "log_failed">>]) /\ UNCHANGED net
  BY <1>3, <1>4, <1>6, FailedKeeps, KeptByAdding
<1> QED  BY <1>1, <1>5, <1>6

LEMMA LiftKeeps ==
  ASSUME ProcsOK, net \in [Families -> ChainStates], NEW p \in Procs, LiftStep(p)
  PROVE  ProcsOK' /\ Kept(why, why', net, net') /\ Given(why) # {} /\ why' = why
<1>1. PICK f \in Families :
        At(p, {Lift[f]}) /\ (net' = [net EXCEPT ![f] = "none"] \/ net' = net) /\ Proceed(p) /\ why' = why
  BY DEF LiftStep
<1>2. Lift[f] # "load" /\ \A g \in Families : Fill[g] # Lift[f]  BY NetNames
<1>3. m(p).todo # <<>> /\ Head(m(p).todo) = Lift[f] /\ Lift[f] \in Labels(m(p).todo) /\ ProcOK(m(p), why, net)
  BY <1>1, Here
<1>4. Given(why) # {}  BY <1>3 DEF ProcOK, Entitled
<1>5. Kept(why, why', net, net')  BY <1>1, <1>4 DEF Kept, Given, Up
<1>6. ProcsOK'  BY <1>1, <1>2, <1>3, <1>5, ProceedKeeps
<1> QED  BY <1>1, <1>4, <1>5, <1>6

LEMMA ReloadKeeps ==
  ASSUME ProcsOK, NEW p \in Procs, ReloadStep(p)
  PROVE  ProcsOK' /\ Kept(why, why', net, net')
<1>1. At(p, {"reload"}) /\ Proceed(p) /\ net' = net /\ (why' = why \/ why' = why \ {"earlier"})
  BY DEF ReloadStep, kernel
<1>2. m(p).todo # <<>> /\ Head(m(p).todo) = "reload"  BY <1>1, Here
<1>3. \A f \in Families : Head(m(p).todo) # Fill[f]  BY <1>2, NetNames
<1>4. Kept(why, why', net, net')  BY <1>1 DEF Kept, Given, Up
<1> QED  BY <1>1, <1>2, <1>3, <1>4, ProceedKeeps

\* The deny check is the last two steps of its script.
LEMMA ProbeShape ==
  ASSUME NEW s \in Seq(Steps), s # <<>>, ScriptOK(s)
  PROVE  /\ Head(s) = "insert" => Len(Tail(s)) = 1 /\ Tail(s)[1] = "judge" /\ Len(s) # 1
                                  /\ s[Len(s)] = "judge" /\ Labels(s) = {"insert", "judge"}
         /\ Head(s) = "judge" => Len(s) = 1 /\ s[1] = "judge" /\ s[Len(s)] = "judge" /\ Labels(s) = {"judge"}
<1>1. /\ Head(s) = s[1] /\ Len(s) \in Nat \ {0} /\ Tail(s) \in Seq(Steps) /\ Len(Tail(s)) = Len(s) - 1
      /\ Labels(s) = {Head(s)} \cup Labels(Tail(s))
      /\ Len(s) = 1 => Labels(s) = {Head(s)}
      /\ Len(s) # 1 => Tail(s)[Len(Tail(s))] = s[Len(s)]
  BY TailLabels
<1>2. 1 \in 1..Len(s)  BY <1>1
<1>3. s[1] = "judge" => Len(s) = 1  BY <1>2 DEF ScriptOK
<1>4. s[1] = "insert" => 2 = Len(s) /\ s[Len(s)] = "judge"
  <2>1. s[1] = "insert" => 1 + 1 = Len(s) /\ s[Len(s)] = "judge"  BY <1>2 DEF ScriptOK
  <2> QED  BY <2>1
<1>5. ASSUME Head(s) = "insert"
      PROVE  Len(Tail(s)) = 1 /\ Tail(s)[1] = "judge" /\ Len(s) # 1 /\ s[Len(s)] = "judge" /\ Labels(s) = {"insert", "judge"}
  <2>1. Len(s) = 2 /\ s[Len(s)] = "judge"  BY <1>1, <1>4, <1>5
  <2>2. Len(Tail(s)) = 1 /\ Len(s) # 1  BY <1>1, <2>1
  <2>3. Tail(s)[1] = "judge"
    <3>1. Tail(s)[Len(Tail(s))] = "judge"  BY <1>1, <2>1, <2>2
    <3> QED  BY <3>1, <2>2
  <2>4. Labels(Tail(s)) = {"judge"}
    <3>1. Tail(s) # <<>>  BY <2>2, TailLabels
    <3>2. Labels(Tail(s)) = {Head(Tail(s))} /\ Head(Tail(s)) = Tail(s)[1]  BY <1>1, <2>2, <3>1, TailLabels
    <3> QED  BY <2>3, <3>2
  <2> QED  BY <1>1, <1>5, <2>1, <2>2, <2>3, <2>4
<1>6. ASSUME Head(s) = "judge"
      PROVE  Len(s) = 1 /\ s[1] = "judge" /\ s[Len(s)] = "judge" /\ Labels(s) = {"judge"}
  BY <1>1, <1>3, <1>6
<1> QED  BY <1>5, <1>6

LEMMA InsertKeeps ==
  ASSUME ProcsOK, NEW p \in Procs, InsertStep(p)
  PROVE  ProcsOK' /\ why' = why /\ net' = net
<1>1. At(p, {"insert"}) /\ why' = why /\ net' = net  BY DEF InsertStep
<1>2. PICK x \in BOOLEAN : Continue(p, [m(p) EXCEPT !.bypassed = x, !.todo = Tail(@)])  BY DEF InsertStep
<1>3. PICK mem : mem = [m(p) EXCEPT !.bypassed = x, !.todo = Tail(@)] /\ Continue(p, mem)  BY <1>2
<1>4. /\ m(p) = run[p] /\ m(p) \in Memory /\ m(p).todo \in Seq(Steps) /\ m(p).todo # <<>>
      /\ Head(m(p).todo) = "insert" /\ ProcOK(m(p), why, net)
  BY <1>1, Here
<1>5. Len(Tail(m(p).todo)) = 1 /\ Tail(m(p).todo)[1] = "judge" /\ Len(m(p).todo) # 1
  BY <1>4, ProbeShape DEF ProcOK, MemOK
<1>6. Tail(m(p).todo) \in Seq(Steps)  BY <1>4, TailLabels
<1>7. /\ mem \in Memory /\ mem.todo = Tail(m(p).todo) /\ mem.cmd = m(p).cmd /\ mem.w = m(p).w
      /\ mem.body = m(p).body
  BY <1>3, <1>4, <1>6 DEF Memory
<1>8. \A f \in Families : Head(m(p).todo) # Fill[f]  BY <1>4, NetNames
<1>9. ProcOK(mem, why, net)  BY <1>4, <1>5, <1>7, <1>8, Advances
<1>10. Kept(why, why', net, net')  BY <1>1, KeptByAdding
<1>11. ProcsOK'  BY <1>1, <1>3, <1>4, <1>7, <1>9, <1>10, ContinueKeeps
<1> QED  BY <1>1, <1>11

\* What a check leaves to do, and the grounds a release then has.
LEMMA JudgeKeeps ==
  ASSUME ProcsOK, NEW p \in Procs, JudgeStep(p)
  PROVE  ProcsOK' /\ why \subseteq why' /\ net' = net
<1>1. At(p, {"judge"}) /\ net' = net  BY DEF JudgeStep
<1>2. PICK removed \in BOOLEAN :
        LET denied == Denied(m(p))
            ready == Ready(m(p), denied, removed)
            again == Again(p, m(p), ready)
            lift == ready \/ m(p).cmd = "break-glass"
        IN /\ Continue(p, [m(p) EXCEPT
                 !.tries = IF again THEN @ + 1 ELSE @, !.bypassed = FALSE,
                 !.todo = IF again THEN Probe ELSE IF lift THEN Lifting(m(p).cmd = "break-glass")
                          ELSE <<"save_refused", "log_refused">>])
           /\ why' = why \cup {g \in {"ready", "break-glass"} :
                                IF g = "ready" THEN ready /\ denied ELSE m(p).cmd = g}
  BY DEF JudgeStep
<1> DEFINE denied == Denied(m(p))
           ready == Ready(m(p), denied, removed)
           again == Again(p, m(p), ready)
           lift == ready \/ m(p).cmd = "break-glass"
           tries == IF again THEN m(p).tries + 1 ELSE m(p).tries
           todo == IF again THEN Probe ELSE IF lift THEN Lifting(m(p).cmd = "break-glass")
                   ELSE <<"save_refused", "log_refused">>
<1>3. PICK mem : mem = [m(p) EXCEPT !.tries = tries, !.bypassed = FALSE, !.todo = todo] /\ Continue(p, mem)  BY <1>2
<1>4. /\ m(p) = run[p] /\ m(p) \in Memory /\ m(p).todo \in Seq(Steps) /\ m(p).todo # <<>>
      /\ Head(m(p).todo) = "judge" /\ m(p).cmd # "none" /\ ProcOK(m(p), why, net)
  BY <1>1, Here
<1>5. why \subseteq why' /\ (ready => "ready" \in why') /\ (m(p).cmd = "break-glass" => "break-glass" \in why')
  BY <1>2 DEF Ready
<1>6. tries \in 0..MaxProbes
  <2>1. m(p).tries \in 0..MaxProbes  BY <1>4 DEF Memory
  <2>2. again => m(p).tries < MaxProbes  BY DEF Again
  <2> QED  BY <2>1, <2>2, ConstantsAssumption
<1>7. /\ todo \in Seq(Steps) /\ ScriptOK(todo)
      /\ {"load", "log_off", "log_held", "files_enroll"} \cap Labels(todo) = {}
      /\ {"lift_v4", "lift_v6", "save_released"} \cap Labels(todo) # {} => ready \/ m(p).cmd = "break-glass"
      /\ "files_open" \in Labels(todo) => m(p).cmd = "break-glass"
  <2>1. CASE again
    <3>1. todo = Probe  BY <2>1
    <3> HIDE DEF todo
    <3> QED  BY <3>1, ProbeScript
  <2>2. CASE ~again /\ lift /\ m(p).cmd = "break-glass"
    <3>1. todo = Lifting(TRUE)  BY <2>2
    <3> HIDE DEF todo
    <3> QED  BY <2>2, <3>1, OpenScript
  <2>3. CASE ~again /\ lift /\ m(p).cmd # "break-glass"
    <3>1. todo = Lifting(FALSE)  BY <2>3
    <3> HIDE DEF todo
    <3> QED  BY <2>3, <3>1, GatedScript
  <2>4. CASE ~again /\ ~lift
    <3> DEFINE s == <<"save_refused", "log_refused">>
    <3>1. todo = s  BY <2>4
    <3>2. s \in Seq(Steps) /\ ScriptOK(s) /\ Labels(s) = {"save_refused", "log_refused"}  BY RefusedScript
    <3> HIDE DEF todo, s
    <3> QED  BY <3>1, <3>2
  <2> QED  BY <2>1, <2>2, <2>3, <2>4
<1> HIDE DEF todo, tries, again, lift, ready, denied
<1>8. /\ mem \in Memory /\ mem.todo = todo /\ mem.cmd = m(p).cmd /\ mem.w = m(p).w
      /\ mem.body = m(p).body /\ mem.bypassed = FALSE
  BY <1>3, <1>4, <1>6, <1>7 DEF Memory
<1>9. Labels(m(p).todo) = {"judge"} /\ m(p).todo[Len(m(p).todo)] = "judge"  BY <1>4, ProbeShape DEF ProcOK, MemOK
<1>10. MemOK(mem)
  <2>1. m(p).cmd # "apply-boot"  BY <1>4, <1>9 DEF ProcOK, MemOK, Ends
  <2> QED  BY <1>4, <1>7, <1>8, <2>1 DEF MemOK
<1>11. Entitled(mem, why')
  <2>1. \A f \in Families : Lift[f] \in {"lift_v4", "lift_v6"}  BY NetNames
  <2>2. ready \/ m(p).cmd = "break-glass" => Given(why') # {}  BY <1>5 DEF Given
  <2>3. "hold" \in mechanisms_active(m(p).body) \/ {"hold-off", "opt-out"} \cap why # {}
    BY <1>4, <1>9 DEF ProcOK, Entitled
  <2>4. "save_released" \in Labels(todo) /\ m(p).cmd = "release" => "ready" \in why'  BY <1>5, <1>7
  <2> QED  BY <1>5, <1>7, <1>8, <2>1, <2>2, <2>3, <2>4 DEF Entitled
<1>12. Filled(mem, why', net')  BY <1>7, <1>8 DEF Filled
<1>13. Kept(why, why', net, net')  BY <1>1, <1>5, KeptByAdding
<1>14. ProcOK(mem, why', net')  BY <1>10, <1>11, <1>12 DEF ProcOK
<1>15. ProcsOK'  BY <1>3, <1>4, <1>8, <1>13, <1>14, ContinueKeeps
<1> QED  BY <1>1, <1>5, <1>15

LEMMA RebootKeeps ==
  ASSUME Reboot
  PROVE  ProcsOK'
<1>1. run' = [p \in Procs |-> Idle] /\ svc' = [u \in Units |-> "inactive"]  BY DEF Reboot
<1>2. Idle \in Memory  BY IdleOK
<1>3. run' \in [Procs -> Memory] /\ svc' \in UnitStates  BY <1>1, <1>2 DEF UnitStates
<1>4. \A p \in Procs : run'[p] = Idle  BY <1>1
<1>5. \A p \in Procs : ProcOK(run'[p], why', net')  BY <1>4, IdleOK
<1>6. run'["systemd"].cmd = "none"  BY <1>4 DEF Procs, Idle
<1> QED  BY <1>3, <1>5, <1>6 DEF ProcsOK

LEMMA StepKeeps ==
  ASSUME TypeOK, ProcsOK, PolicyGrounds(conf) \subseteq why, NEW p \in Procs, Step(p)
  PROVE  ProcsOK'
<1>1. CASE ReadStep(p)  BY <1>1, ReadKeeps DEF TypeOK
<1>2. CASE ConfStep(p)
  <2>1. At(p, {"conf"}) /\ Proceed(p) /\ why' = why /\ net' = net  BY <1>2 DEF ConfStep, kernel
  <2> QED  BY <2>1, PlainKeeps
<1>3. CASE RegisterStep(p)  BY <1>3, RegisterKeeps
<1>4. CASE KeepRegistryStep(p)
  <2>1. At(p, {"keep_registry"}) /\ (Proceed(p) \/ Exit(p, FALSE)) /\ why' = why /\ net' = net
    BY <1>4 DEF KeepRegistryStep, kernel
  <2> QED  BY <2>1, PlainKeeps, KeptByAdding, ExitKeeps
<1>5. CASE FileStep(p)
  <2>1. PICK label \in {"files_tree", "files_held", "files_gated", "files_open", "files_removed", "files_enroll", "profile_allow"} :
          At(p, {label}) /\ Proceed(p) /\ why' = why /\ net' = net
    BY <1>5 DEF FileStep
  <2>2. {label} \cap {"load", "fill_v4", "fill_v6"} = {}  OBVIOUS
  <2> QED  BY <2>1, <2>2, PlainKeeps
<1>6. CASE FlushStep(p)  BY <1>6, FlushKeeps DEF TypeOK, ChainStates
<1>7. CASE FillStep(p)  BY <1>7, FillKeeps DEF TypeOK, ChainStates
<1>8. CASE LiftStep(p)  BY <1>8, LiftKeeps DEF TypeOK, ChainStates
<1>9. CASE ReloadStep(p)  BY <1>9, ReloadKeeps
<1>10. CASE SaveStep(p)
  <2>1. PICK label \in {"save_held", "save_off", "save_failed", "save_refused", "save_released", "save_removed", "save_optout"} :
          At(p, {label}) /\ Proceed(p) /\ why' = why /\ net' = net
    BY <1>10 DEF SaveStep, kernel
  <2>2. {label} \cap {"load", "fill_v4", "fill_v6"} = {}  OBVIOUS
  <2> QED  BY <2>1, <2>2, PlainKeeps
<1>11. CASE LogStep(p)
  <2>1. PICK label \in Logs : At(p, {label}) /\ Proceed(p) /\ why' = why /\ net' = net
    BY <1>11 DEF LogStep, kernel
  <2>2. {label} \cap {"load", "fill_v4", "fill_v6"} = {}  BY DEF Logs
  <2> QED  BY <2>1, <2>2, PlainKeeps
<1>12. CASE InsertStep(p)  BY <1>12, InsertKeeps
<1>13. CASE JudgeStep(p)  BY <1>13, JudgeKeeps
<1>14. CASE PrepareStep(p)
  <2>1. At(p, {"prepare"}) /\ Proceed(p) /\ why' = why /\ net' = net  BY <1>14 DEF PrepareStep, kernel
  <2> QED  BY <2>1, PlainKeeps
<1>15. CASE DockerRunStep(p)
  <2>1. At(p, {"docker_run"}) /\ (Proceed(p) \/ Exit(p, FALSE)) /\ why' = why /\ net' = net
    BY <1>15 DEF DockerRunStep, kernel
  <2> QED  BY <2>1, PlainKeeps, KeptByAdding, ExitKeeps
<1> QED  BY <1>1, <1>2, <1>3, <1>4, <1>5, <1>6, <1>7, <1>8, <1>9, <1>10, <1>11, <1>12, <1>13, <1>14, <1>15 DEF Step

LEMMA ProcsKept ==
  ASSUME TypeOK, ProcsOK, PolicyGrounds(conf) \subseteq why, [Next]_vars
  PROVE  ProcsOK'
<1>1. ASSUME NEW c \in Commands, OperatorRuns(c)  PROVE ProcsOK'
  <2>1. c \in AllCommands /\ "operator" \in Procs /\ Begin("operator", c)
    BY <1>1, ConstantsAssumption DEF OperatorRuns, Procs
  <2> QED  BY <2>1, BeginKeeps DEF TypeOK
<1>2. ASSUME NEW p \in Procs, Step(p)  PROVE ProcsOK'  BY <1>2, StepKeeps
<1>3. ASSUME NEW p \in Procs, Kill(p)  PROVE ProcsOK'
  <2>1. Exit(p, FALSE) /\ why' = why /\ net' = net  BY <1>3 DEF Kill, kernel
  <2> QED  BY <2>1, KeptByAdding, ExitKeeps
<1>4. CASE StartHoldUnit
  <2>1. Begin("systemd", "apply-boot") /\ "systemd" \in Procs /\ "apply-boot" \in AllCommands
    BY <1>4 DEF StartHoldUnit, Procs, AllCommands
  <2> QED  BY <2>1, BeginKeeps DEF TypeOK
<1>5. CASE StartLoaderUnit
  <2>1. run' = run /\ why' = why /\ net' = net  BY <1>5 DEF StartLoaderUnit, kernel
  <2>2. svc' \in UnitStates
    <3>1. svc' = [svc EXCEPT !["loader"] = "active"] \/ svc' = [svc EXCEPT !["loader"] = "failed"]
      BY <1>5 DEF StartLoaderUnit
    <3> QED  BY <3>1 DEF ProcsOK, UnitStates, Units
  <2> QED  BY <2>1, <2>2, KeptByAdding, StutterKeeps
<1>6. CASE StartReadyUnit
  <2>1. CASE Begin("systemd", "release")
    <3>1. "systemd" \in Procs /\ "release" \in AllCommands  BY DEF Procs, AllCommands
    <3> QED  BY <2>1, <3>1, BeginKeeps DEF TypeOK
  <2>2. CASE svc' = [svc EXCEPT !["ready"] = "failed"] /\ UNCHANGED <<kernel, why, run>>
    <3>1. svc' \in UnitStates  BY <2>2 DEF ProcsOK, UnitStates, Units
    <3>2. run' = run /\ why' = why /\ net' = net  BY <2>2 DEF kernel
    <3> QED  BY <3>1, <3>2, KeptByAdding, StutterKeeps
  <2> QED  BY <1>6, <2>1, <2>2 DEF StartReadyUnit
<1>7. CASE EngineAttaches \/ EngineExits \/ (\E w \in Workloads : StartWorkload(w)) \/ UNCHANGED vars
  <2>1. run' = run /\ why' = why /\ net' = net /\ svc' = svc
    BY <1>7 DEF EngineAttaches, EngineExits, StartWorkload, kernel, vars
  <2> QED  BY <2>1, KeptByAdding, StutterKeeps DEF ProcsOK
<1>8. CASE Reboot  BY <1>8, RebootKeeps
<1> QED  BY <1>1, <1>2, <1>3, <1>4, <1>5, <1>6, <1>7, <1>8 DEF Next

----------------------------------------------------------------------------
(* The workload files. *)

FilesOK(g, y) == g \in [Workloads -> Gates] /\ Gated(g, y)

\* The file of one workload.
FileOK(x, y) == x \in Gates /\ (x.here /\ "hold" \notin x.req => y \cap Lasting # {})

LEMMA FilesAreFiles ==
  ASSUME NEW g, NEW y, g = [w \in Workloads |-> g[w]], \A w \in Workloads : FileOK(g[w], y)
  PROVE  FilesOK(g, y)
BY DEF FilesOK, FileOK, Gated

LEMMA GateFiles ==
  ASSUME NEW b \in Body, NEW y, NEW hide \in BOOLEAN,
         "hold" \in mechanisms_active(b) \/ y \cap Lasting # {}
  PROVE  FileOK(Gate(mechanisms_active(b), hide), y) /\ FileOK(NoGate, y)
<1>1. mechanisms_active(b) \in SUBSET {"hold", "ready"}  BY DEF mechanisms_active
<1>2. Gate(mechanisms_active(b), hide) \in Gates  BY <1>1 DEF Gate, Gates
<1>3. NoGate \in Gates /\ ~NoGate.here  BY DEF NoGate, Gates
<1>4. Gate(mechanisms_active(b), hide).req = mechanisms_active(b)  BY DEF Gate
<1> QED  BY <1>2, <1>3, <1>4 DEF FileOK

LEMMA OpenFiles ==
  ASSUME NEW y, NEW hide \in BOOLEAN, y \cap Lasting # {}
  PROVE  FileOK(Gate({}, hide), y)
<1>1. Gate({}, hide) \in Gates  BY DEF Gate, Gates
<1> QED  BY <1>1 DEF FileOK

LEMMA DropinFiles ==
  ASSUME NEW g, NEW y, FilesOK(g, y), NEW r, NEW b \in Body, NEW hide \in BOOLEAN, NEW gated \in BOOLEAN,
         (gated /\ "hold" \in mechanisms_active(b)) \/ y \cap Lasting # {}
  PROVE  FilesOK(write_workload_dropins(g, r, b, hide, gated), y)
<1> DEFINE h == write_workload_dropins(g, r, b, hide, gated)
<1> SUFFICES ASSUME NEW w \in Workloads  PROVE FileOK(h[w], y)
  <2>1. h = [w \in Workloads |-> h[w]]  BY DEF write_workload_dropins
  <2> HIDE DEF h
  <2>2. FilesOK(h, y)  BY <2>1, FilesAreFiles
  <2> QED  BY <2>2 DEF h
<1>1. CASE Kind[w] # "systemd" \/ w \notin Enrolled(r)
  <2>1. h[w] = g[w]  BY <1>1 DEF write_workload_dropins
  <2> QED  BY <2>1 DEF FilesOK, FileOK, Gated
<1>2. CASE ~(Kind[w] # "systemd" \/ w \notin Enrolled(r)) /\ mechanisms_active(b) = {}
  <2>1. h[w] = NoGate  BY <1>2 DEF write_workload_dropins
  <2>2. FileOK(NoGate, y)  BY DEF FileOK, NoGate, Gates
  <2> QED  BY <2>1, <2>2
<1>3. CASE ~(Kind[w] # "systemd" \/ w \notin Enrolled(r)) /\ mechanisms_active(b) # {}
  <2> DEFINE x == hide /\ "hold" \in mechanisms_active(b)
  <2>1. x \in BOOLEAN  OBVIOUS
  <2>2. CASE gated
    <3>1. h[w] = Gate(mechanisms_active(b), x)  BY <1>3, <2>2 DEF write_workload_dropins
    <3> QED  BY <2>1, <2>2, <3>1, GateFiles
  <2>3. CASE ~gated
    <3>1. h[w] = Gate({}, x)  BY <1>3, <2>3 DEF write_workload_dropins
    <3> QED  BY <2>1, <2>3, <3>1, OpenFiles
  <2> QED  BY <2>2, <2>3
<1> QED  BY <1>1, <1>2, <1>3

LEMMA TreeFiles ==
  ASSUME NEW g, NEW y, FilesOK(g, y), NEW b \in Body, "hold" \in mechanisms_active(b) \/ y \cap Lasting # {}
  PROVE  FilesOK(install_tree(g, b), y)
<1> DEFINE h == install_tree(g, b)
<1> SUFFICES ASSUME NEW w \in Workloads  PROVE FileOK(h[w], y)
  <2>1. h = [w \in Workloads |-> h[w]]  BY DEF install_tree
  <2> HIDE DEF h
  <2>2. FilesOK(h, y)  BY <2>1, FilesAreFiles
  <2> QED  BY <2>2 DEF h
<1>1. h[w] = g[w] \/ h[w] = Gate(mechanisms_active(b), FALSE)  BY DEF install_tree
<1>2. FileOK(g[w], y)  BY DEF FilesOK, FileOK, Gated
<1> QED  BY <1>1, <1>2, GateFiles

LEMMA ClearedFiles ==
  ASSUME NEW g, NEW y, FilesOK(g, y), NEW r, y \cap Lasting # {}
  PROVE  FilesOK(ClearGates(g, r), y)
<1> DEFINE h == ClearGates(g, r)
<1> SUFFICES ASSUME NEW w \in Workloads  PROVE FileOK(h[w], y)
  <2>1. h = [w \in Workloads |-> h[w]]  BY DEF ClearGates
  <2> HIDE DEF h
  <2>2. FilesOK(h, y)  BY <2>1, FilesAreFiles
  <2> QED  BY <2>2 DEF h
<1>1. h[w] = g[w] \/ h[w] = Gate({}, FALSE)  BY DEF ClearGates
<1>2. FileOK(g[w], y)  BY DEF FilesOK, FileOK, Gated
<1> QED  BY <1>1, <1>2, OpenFiles

LEMMA RemovedFiles ==
  ASSUME NEW g, NEW y, FilesOK(g, y)
  PROVE  FilesOK(RemoveTree(g), y)
<1> DEFINE h == RemoveTree(g)
<1> SUFFICES ASSUME NEW w \in Workloads  PROVE FileOK(h[w], y)
  <2>1. h = [w \in Workloads |-> h[w]]  BY DEF RemoveTree
  <2> HIDE DEF h
  <2>2. FilesOK(h, y)  BY <2>1, FilesAreFiles
  <2> QED  BY <2>2 DEF h
<1>1. h[w] = g[w] \/ h[w] = NoGate  BY DEF RemoveTree
<1>2. FileOK(g[w], y) /\ FileOK(NoGate, y)  BY DEF FilesOK, FileOK, Gated, NoGate, Gates
<1> QED  BY <1>1, <1>2

LEMMA ComposeFiles ==
  ASSUME NEW g, NEW y, FilesOK(g, y), NEW b \in Body, "hold" \in mechanisms_active(b) \/ y \cap Lasting # {},
         NEW v \in Workloads
  PROVE  FilesOK(enroll_compose(g, b, v), y)
<1> DEFINE h == enroll_compose(g, b, v)
<1>1. FilesOK(install_tree(g, b), y)  BY TreeFiles
<1> SUFFICES ASSUME NEW w \in Workloads  PROVE FileOK(h[w], y)
  <2>1. h = [w \in Workloads |-> h[w]]  BY <1>1 DEF enroll_compose, FilesOK
  <2> HIDE DEF h
  <2>2. FilesOK(h, y)  BY <2>1, FilesAreFiles
  <2> QED  BY <2>2 DEF h
<1>2. h[w] = install_tree(g, b)[w] \/ h[w] = Gate(mechanisms_active(b), FALSE)  BY <1>1 DEF enroll_compose, FilesOK
<1>3. FileOK(install_tree(g, b)[w], y)  BY <1>1 DEF FilesOK, FileOK, Gated
<1> QED  BY <1>2, <1>3, GateFiles

\* Whatever a command writes, a file without the hold gate has grounds.
LEMMA WrittenFiles ==
  ASSUME FilesOK(gate, why), NEW mem \in Memory,
         NEW label \in {"files_tree", "files_held", "files_gated", "files_open", "files_removed", "files_enroll", "profile_allow"},
         "hold" \in mechanisms_active(mem.body) \/ why \cap Lasting # {},
         label = "files_open" => why \cap Lasting # {},
         label = "files_enroll" => mem.w \in Workloads
  PROVE  FilesOK(WorkloadFiles(label, mem), why)
<1> DEFINE b == mem.body
           r == [ok |-> TRUE, row |-> mem.rows]
<1>1. b \in Body  BY DEF Memory
<1>2. FilesOK(write_workload_dropins(gate, r, b, TRUE, TRUE), why)  BY <1>1, DropinFiles
<1>3. FilesOK(write_workload_dropins(gate, r, b, FALSE, TRUE), why)  BY <1>1, DropinFiles
<1>4. CASE label = "files_tree"
  <2>1. WorkloadFiles(label, mem) = install_tree(gate, b)  BY <1>4 DEF WorkloadFiles
  <2> QED  BY <1>1, <2>1, TreeFiles
<1>5. CASE label = "files_held"
  <2>1. WorkloadFiles(label, mem) = install_tree(write_workload_dropins(gate, r, b, TRUE, TRUE), b)
    BY <1>5 DEF WorkloadFiles
  <2> QED  BY <1>1, <1>2, <2>1, TreeFiles
<1>6. CASE label = "files_gated"
  <2>1. WorkloadFiles(label, mem) = install_tree(write_workload_dropins(gate, r, b, FALSE, TRUE), b)
    BY <1>6 DEF WorkloadFiles
  <2> QED  BY <1>1, <1>3, <2>1, TreeFiles
<1>7. CASE label = "files_open"
  <2>1. WorkloadFiles(label, mem) = ClearGates(write_workload_dropins(gate, r, b, FALSE, FALSE), r)
    BY <1>7 DEF WorkloadFiles
  <2>2. FilesOK(write_workload_dropins(gate, r, b, FALSE, FALSE), why)  BY <1>1, <1>7, DropinFiles
  <2> QED  BY <1>7, <2>1, <2>2, ClearedFiles
<1>8. CASE label = "files_removed"
  <2>1. WorkloadFiles(label, mem) = RemoveTree(gate)  BY <1>8 DEF WorkloadFiles
  <2> QED  BY <2>1, RemovedFiles
<1>10. CASE label = "profile_allow"
  <2>1. WorkloadFiles(label, mem) = gate  BY <1>10 DEF WorkloadFiles
  <2> QED  BY <2>1
<1>9. CASE label = "files_enroll"
  <2>1. Kind[mem.w] \in {"systemd", "docker", "compose"}  BY <1>9, ConstantsAssumption DEF Kinds
  <2>2. CASE Kind[mem.w] = "systemd"
    <3>1. WorkloadFiles(label, mem) = enroll_systemd(gate, r, b)  BY <1>9, <2>2 DEF WorkloadFiles
    <3> QED  BY <1>1, <1>2, <3>1, TreeFiles DEF enroll_systemd
  <2>3. CASE Kind[mem.w] = "docker"
    <3>1. WorkloadFiles(label, mem) = enroll_docker(gate, b)  BY <1>9, <2>3 DEF WorkloadFiles
    <3> QED  BY <1>1, <3>1, TreeFiles DEF enroll_docker
  <2>4. CASE Kind[mem.w] = "compose"
    <3>1. WorkloadFiles(label, mem) = enroll_compose(gate, b, mem.w)  BY <1>9, <2>4 DEF WorkloadFiles
    <3> QED  BY <1>1, <1>9, <3>1, ComposeFiles
  <2> QED  BY <2>1, <2>2, <2>3, <2>4
<1> QED  BY <1>4, <1>5, <1>6, <1>7, <1>8, <1>9, <1>10

----------------------------------------------------------------------------
(* The files and the grounds. *)

DiskOK ==
  /\ conf \in Conf /\ why \subseteq Grounds /\ PolicyGrounds(conf) \subseteq why
  /\ FilesOK(gate, why) /\ FilesOK(view, why)

LEMMA MoreGrounds ==
  ASSUME NEW g, NEW y, NEW y2, FilesOK(g, y), y \subseteq y2
  PROVE  FilesOK(g, y2)
BY DEF FilesOK, Gated

LEMMA DiskGrows ==
  ASSUME DiskOK, UNCHANGED <<conf, gate, view>>, why \subseteq why', why' \subseteq Grounds
  PROVE  DiskOK'
<1>1. FilesOK(gate, why') /\ FilesOK(view, why')  BY MoreGrounds DEF DiskOK
<1> QED  BY <1>1 DEF DiskOK

LEMMA FileKeepsDisk ==
  ASSUME ProcsOK, DiskOK, NEW p \in Procs, FileStep(p)
  PROVE  DiskOK'
<1>1. PICK label \in {"files_tree", "files_held", "files_gated", "files_open", "files_removed", "files_enroll", "profile_allow"} :
        /\ At(p, {label}) /\ gate' = WorkloadFiles(label, m(p))
        /\ view' = IF label \in {"files_gated", "files_open"} THEN gate' ELSE view
        /\ conf' = conf /\ why' = why
  BY DEF FileStep
<1>2. /\ m(p) \in Memory /\ m(p).todo # <<>> /\ m(p).todo \in Seq(Steps) /\ label \in Labels(m(p).todo)
      /\ ProcOK(m(p), why, net)
  BY <1>1, Here
<1>3. "hold" \in mechanisms_active(m(p).body) \/ why \cap Lasting # {}
  <2>1. 1 \in 1..Len(m(p).todo) /\ m(p).todo[1] \in FileLabels  BY <1>1, Here DEF FileLabels
  <2>2. \A j \in 1..Len(m(p).todo) : m(p).todo[j] # "load"  BY <1>2, <2>1 DEF ProcOK, MemOK, ScriptOK
  <2>3. "load" \notin Labels(m(p).todo)  BY <2>2 DEF Labels
  <2> QED  BY <1>2, <2>3 DEF ProcOK, Entitled, Lasting
<1>4. label = "files_open" => why \cap Lasting # {}  BY <1>2 DEF ProcOK, Entitled, Lasting
<1>5. label = "files_enroll" => m(p).w \in Workloads  BY <1>2 DEF ProcOK, MemOK
<1>6. FilesOK(gate', why)  BY <1>1, <1>2, <1>3, <1>4, <1>5, WrittenFiles DEF DiskOK
<1> QED  BY <1>1, <1>6 DEF DiskOK

LEMMA ReloadKeepsDisk ==
  ASSUME DiskOK, NEW p \in Procs, ReloadStep(p)
  PROVE  DiskOK'
<1>1. /\ view' = gate /\ gate' = gate /\ conf' = conf
      /\ why' = IF \A w \in Workloads : gate[w].here => "hold" \in gate[w].req THEN why \ {"earlier"} ELSE why
  BY DEF ReloadStep, disk
<1>2. PolicyGrounds(conf) \subseteq why' /\ why' \subseteq Grounds  BY <1>1 DEF DiskOK, PolicyGrounds
<1>3. FilesOK(gate, why')  BY <1>1 DEF DiskOK, FilesOK, Gated
<1> QED  BY <1>1, <1>2, <1>3 DEF DiskOK

LEMMA RebootKeepsDisk ==
  ASSUME DiskOK, Reboot
  PROVE  DiskOK'
<1>1. /\ view' = gate /\ gate' = gate /\ conf' = conf
      /\ why' = PolicyGrounds(conf) \cup {g \in {"earlier"} : why \cap Lasting # {}}
  BY DEF Reboot, disk
<1>2. PolicyGrounds(conf) \subseteq why' /\ why' \subseteq Grounds  BY <1>1 DEF PolicyGrounds, Grounds
<1>3. why \cap Lasting # {} => why' \cap Lasting # {}  BY <1>1 DEF Lasting
<1>4. FilesOK(gate, why')  BY <1>3 DEF DiskOK, FilesOK, Gated
<1> QED  BY <1>1, <1>2, <1>4 DEF DiskOK

LEMMA BeginGrounds ==
  ASSUME DiskOK, NEW p, NEW c, Begin(p, c)
  PROVE  DiskOK'
<1>1. conf' = conf /\ gate' = gate /\ view' = view /\ why \subseteq why'  BY DEF Begin, disk
<1>2. why' \subseteq Grounds  BY DEF Begin, DiskOK, Grounds
<1> QED  BY <1>1, <1>2, DiskGrows

LEMMA StepKeepsDisk ==
  ASSUME TypeOK, ProcsOK, DiskOK, NEW p \in Procs, Step(p)
  PROVE  DiskOK'
<1>1. CASE FileStep(p)  BY <1>1, FileKeepsDisk
<1>2. CASE ReloadStep(p)  BY <1>2, ReloadKeepsDisk
<1>3. CASE ConfStep(p)
  <2>1. conf' = save_policy(m(p).arg) /\ gate' = gate /\ view' = view /\ why' = why  BY <1>3 DEF ConfStep
  <2>2. m(p).arg \in Body  BY DEF ProcsOK, Memory, m
  <2>3. conf' \in Conf /\ PolicyGrounds(conf') = {}  BY <2>1, <2>2 DEF save_policy, Conf, PolicyGrounds
  <2> QED  BY <2>1, <2>3 DEF DiskOK
<1>4. CASE FlushStep(p)
  <2>1. conf' = conf /\ gate' = gate /\ view' = view  BY <1>4 DEF FlushStep, disk
  <2>3. why \subseteq why' /\ why' \subseteq Grounds  BY <1>4 DEF FlushStep, DiskOK
  <2> QED  BY <2>1, <2>3, DiskGrows
<1>5. CASE JudgeStep(p)
  <2>1. conf' = conf /\ gate' = gate /\ view' = view  BY <1>5 DEF JudgeStep, disk
  <2>2. why \subseteq why' /\ why' \subseteq Grounds
    <3>1. why \subseteq why' /\ why' \subseteq why \cup {"ready", "break-glass"}  BY <1>5 DEF JudgeStep
    <3> QED  BY <3>1 DEF DiskOK, Grounds
  <2> QED  BY <2>1, <2>2, DiskGrows
<1>6. CASE \/ ReadStep(p) \/ RegisterStep(p) \/ KeepRegistryStep(p) \/ FillStep(p) \/ LiftStep(p)
           \/ SaveStep(p) \/ LogStep(p) \/ InsertStep(p) \/ PrepareStep(p) \/ DockerRunStep(p)
  <2>1. conf' = conf /\ gate' = gate /\ view' = view /\ why' = why
    BY <1>6 DEF ReadStep, RegisterStep, KeepRegistryStep, FillStep, LiftStep, SaveStep, LogStep, InsertStep,
                PrepareStep, DockerRunStep, disk
  <2> QED  BY <2>1, DiskGrows DEF DiskOK
<1> QED  BY <1>1, <1>2, <1>3, <1>4, <1>5, <1>6 DEF Step

LEMMA DiskKept ==
  ASSUME TypeOK, ProcsOK, DiskOK, [Next]_vars
  PROVE  DiskOK'
<1>1. ASSUME NEW c \in Commands, OperatorRuns(c)  PROVE DiskOK'  BY <1>1, BeginGrounds DEF OperatorRuns
<1>2. ASSUME NEW p \in Procs, Step(p)  PROVE DiskOK'  BY <1>2, StepKeepsDisk
<1>3. CASE StartHoldUnit  BY <1>3, BeginGrounds DEF StartHoldUnit
<1>4. CASE StartReadyUnit /\ Begin("systemd", "release")  BY <1>4, BeginGrounds
<1>5. CASE Reboot  BY <1>5, RebootKeepsDisk
<1>6. CASE \/ (\E p \in Procs : Kill(p)) \/ StartLoaderUnit \/ (StartReadyUnit /\ ~Begin("systemd", "release"))
           \/ EngineAttaches \/ EngineExits \/ (\E w \in Workloads : StartWorkload(w)) \/ UNCHANGED vars
  <2>1. conf' = conf /\ gate' = gate /\ view' = view /\ why' = why
    BY <1>6 DEF Kill, StartLoaderUnit, StartReadyUnit, EngineAttaches, EngineExits, StartWorkload, disk, vars
  <2> QED  BY <2>1, DiskGrows DEF DiskOK
<1> QED  BY <1>1, <1>2, <1>3, <1>4, <1>5, <1>6 DEF Next

----------------------------------------------------------------------------
(* Types. *)

LEMMA FaultCounts ==
  ASSUME count \in Counts, NEW kind, Fault(kind)
  PROVE  /\ count' \in Counts /\ count'.faults # 0
         /\ count'.kills = 0 => count.kills = 0 /\ kind # "kill"
<1>1. /\ count.faults \in Nat /\ count.kills \in Nat /\ count.commands \in Nat /\ count.boots \in Nat  BY DEF Counts
<1>2. PICK n \in Nat : n = count.faults + 1 /\ n # 0  BY <1>1
<1>3. PICK k \in Nat : k = (IF kind = "kill" THEN count.kills + 1 ELSE count.kills)
                       /\ (k = 0 => count.kills = 0 /\ kind # "kill")
  BY <1>1
<1>4. count' = [count EXCEPT !.faults = n, !.kills = k]  BY <1>2, <1>3 DEF Fault
<1> QED  BY <1>1, <1>2, <1>3, <1>4 DEF Counts

\* The fields of TypeOK that neither ProcsOK nor DiskOK speaks of.
HostOK ==
  /\ reg \in Registry /\ hold \in HoldState /\ tree \in BOOLEAN /\ prep \in BOOLEAN
  /\ net \in [Families -> ChainStates] /\ exc \in Nat
  /\ profile \in [file : {"none", "deny", "allow"}, loaded : {"none", "deny", "allow"}]
  /\ pe \in {"down", "up", "enforcing"}
  /\ live \in [Workloads -> {"no", "slice", "outside"}]
  /\ audit \subseteq Logs
  /\ count \in Counts

LEMMA TypeParts == TypeOK /\ count \in Counts /\ why \subseteq Grounds <=>
  /\ HostOK /\ run \in [Procs -> Memory] /\ svc \in UnitStates
  /\ conf \in Conf /\ gate \in [Workloads -> Gates] /\ view \in [Workloads -> Gates] /\ why \subseteq Grounds
BY DEF TypeOK, HostOK, Memory, UnitStates, ChainStates

LEMMA FileTypes ==
  ASSUME HostOK, NEW p, FileStep(p)
  PROVE  HostOK'
<1>1. PICK label \in FileLabels :
        /\ tree' = (label # "files_removed" /\ (tree \/ label \notin {"files_open", "profile_allow"}))
        /\ LET text == ProfileText(label, m(p))
           IN \/ profile' = [file |-> text, loaded |-> IF text = profile.file THEN profile.loaded ELSE text] /\ Steady
              \/ text # profile.file /\ profile' = [profile EXCEPT !.file = text] /\ Fault("apparmor")
  BY DEF FileStep, FileLabels
<1>2. ProfileText(label, m(p)) \in {"none", "deny", "allow"}  BY DEF ProfileText, HostOK
<1>3. /\ profile' \in [file : {"none", "deny", "allow"}, loaded : {"none", "deny", "allow"}]
      /\ count' = count \/ Fault("apparmor")
  BY <1>1, <1>2 DEF HostOK, Steady
<1>4. count' \in Counts  BY <1>3, FaultCounts DEF HostOK
<1>5. tree' \in BOOLEAN  BY <1>1
<1>6. UNCHANGED <<reg, hold, prep, net, exc, pe, live, audit>>  BY DEF FileStep
<1> QED  BY <1>3, <1>4, <1>5, <1>6 DEF HostOK

LEMMA NetTypes ==
  ASSUME HostOK, NEW p, FlushStep(p) \/ FillStep(p) \/ LiftStep(p)
  PROVE  HostOK'
<1>1. UNCHANGED <<reg, hold, tree, prep, profile, pe, live, audit>>  BY DEF FlushStep, FillStep, LiftStep, disk
<1>2. PICK f \in Families, x \in ChainStates : net' = [net EXCEPT ![f] = x] \/ net' = net
  BY DEF FlushStep, FillStep, LiftStep, ChainStates
<1>3. net' \in [Families -> ChainStates]  BY <1>2 DEF HostOK
<1>4. exc' = 0 \/ exc' = exc  BY DEF FlushStep, FillStep, LiftStep
<1>5. count' = count \/ Fault("iptables")  BY DEF FlushStep, FillStep, LiftStep, Steady
<1>6. count' \in Counts /\ exc' \in Nat  BY <1>4, <1>5, FaultCounts DEF HostOK
<1> QED  BY <1>1, <1>3, <1>6 DEF HostOK

LEMMA ProbeTypes ==
  ASSUME HostOK, NEW p, InsertStep(p) \/ JudgeStep(p)
  PROVE  HostOK'
<1>1. UNCHANGED <<reg, hold, tree, prep, net, profile, pe, live, audit>>  BY DEF InsertStep, JudgeStep, disk
<1>2. count' = count \/ Fault("iptables")  BY DEF InsertStep, JudgeStep, Steady
<1>3. exc' = exc \/ exc' = exc + 1 \/ (exc > 0 /\ exc' = exc - 1)  BY DEF InsertStep, JudgeStep, Removed
<1>4. exc' \in Nat  BY <1>3 DEF HostOK
<1>5. count' \in Counts  BY <1>2, FaultCounts DEF HostOK
<1> QED  BY <1>1, <1>4, <1>5 DEF HostOK

LEMMA SaveTypes ==
  ASSUME HostOK, NEW p, SaveStep(p)
  PROVE  HostOK'
<1>1. hold' \in HoldState
  <2>1. \A x \in BOOLEAN, y \in BOOLEAN, z \in Reasons : State(x, y, z) \in HoldState  BY DEF State, HoldState
  <2>2. {"boot-hold", "hold-off", "hold-failed", "not-ready", "enforce-ready", "BREAK_GLASS", "removed", "OPT_OUT"} \subseteq Reasons
    BY DEF Reasons
  <2>3. PICK x \in BOOLEAN, y \in BOOLEAN,
             z \in {"boot-hold", "hold-off", "hold-failed", "not-ready", "enforce-ready", "BREAK_GLASS", "removed", "OPT_OUT"} :
               hold' = State(x, y, z)
    BY DEF SaveStep
  <2> QED  BY <2>1, <2>2, <2>3
<1>2. UNCHANGED <<reg, tree, prep, net, exc, profile, pe, live, audit, count>>  BY DEF SaveStep, kernel, Steady
<1> QED  BY <1>1, <1>2 DEF HostOK

LEMMA StepTypes ==
  ASSUME HostOK, ProcsOK, NEW p \in Procs, Step(p)
  PROVE  HostOK'
<1>1. CASE FileStep(p)  BY <1>1, FileTypes
<1>2. CASE FlushStep(p) \/ FillStep(p) \/ LiftStep(p)  BY <1>2, NetTypes
<1>3. CASE InsertStep(p) \/ JudgeStep(p)  BY <1>3, ProbeTypes
<1>4. CASE SaveStep(p)  BY <1>4, SaveTypes
<1>5. CASE RegisterStep(p)
  <2>1. reg' \in Registry  BY <1>5, RegisterKeeps
  <2>2. UNCHANGED <<hold, tree, prep, net, exc, profile, pe, live, audit, count>>  BY <1>5 DEF RegisterStep, kernel, Steady
  <2> QED  BY <2>1, <2>2 DEF HostOK
<1>6. CASE LogStep(p)
  <2>1. audit' \subseteq Logs  BY <1>6 DEF LogStep, HostOK
  <2>2. UNCHANGED <<reg, hold, tree, prep, net, exc, profile, pe, live, count>>  BY <1>6 DEF LogStep, kernel, disk, Steady
  <2> QED  BY <2>1, <2>2 DEF HostOK
<1>7. CASE PrepareStep(p)
  <2>1. prep' \in BOOLEAN /\ UNCHANGED <<reg, hold, tree, net, exc, profile, pe, live, audit, count>>
    BY <1>7 DEF PrepareStep, kernel, Steady
  <2> QED  BY <2>1 DEF HostOK
<1>8. CASE DockerRunStep(p)
  <2>1. UNCHANGED <<reg, hold, tree, prep, net, exc, profile, live, audit>> /\ pe' \in {"up", pe}
    BY <1>8 DEF DockerRunStep, kernel, disk
  <2>2. count' = count \/ Fault("docker")  BY <1>8 DEF DockerRunStep, Steady
  <2>3. count' \in Counts  BY <2>2, FaultCounts DEF HostOK
  <2> QED  BY <2>1, <2>3 DEF HostOK
<1>9. CASE ReadStep(p) \/ ConfStep(p) \/ KeepRegistryStep(p) \/ ReloadStep(p)
  <2>1. UNCHANGED <<reg, hold, tree, prep, net, exc, profile, pe, live, audit, count>>
    BY <1>9 DEF ReadStep, ConfStep, KeepRegistryStep, ReloadStep, kernel, disk, Steady
  <2> QED  BY <2>1 DEF HostOK
<1> QED  BY <1>1, <1>2, <1>3, <1>4, <1>5, <1>6, <1>7, <1>8, <1>9 DEF Step

LEMMA HostKept ==
  ASSUME HostOK, ProcsOK, [Next]_vars
  PROVE  HostOK'
<1>1. ASSUME NEW c \in Commands, OperatorRuns(c)  PROVE HostOK'
  <2>1. UNCHANGED <<reg, hold, tree, prep, net, exc, profile, pe, live, audit>>
    BY <1>1 DEF OperatorRuns, Begin, kernel, disk
  <2>2. PICK n \in Nat : n = count.commands + 1  BY DEF HostOK, Counts
  <2>3. count' \in Counts  BY <1>1, <2>2 DEF OperatorRuns, HostOK, Counts
  <2> QED  BY <2>1, <2>3 DEF HostOK
<1>2. ASSUME NEW p \in Procs, Step(p)  PROVE HostOK'  BY <1>2, StepTypes
<1>3. ASSUME NEW p \in Procs, Kill(p)  PROVE HostOK'
  <2>1. UNCHANGED <<hold, tree, prep, net, exc, profile, pe, live, audit>> /\ Fault("kill")  BY <1>3 DEF Kill, kernel
  <2>2. reg' \in Registry  BY <1>3 DEF Kill, HostOK, Registry
  <2>3. count' \in Counts  BY <2>1, FaultCounts DEF HostOK
  <2> QED  BY <2>1, <2>2, <2>3 DEF HostOK
<1>4. CASE StartHoldUnit
  <2>1. UNCHANGED <<reg, hold, tree, prep, net, exc, profile, pe, live, audit, count>>
    BY <1>4 DEF StartHoldUnit, Begin, kernel, disk, Steady
  <2> QED  BY <2>1 DEF HostOK
<1>5. CASE StartReadyUnit
  <2>1. UNCHANGED <<reg, hold, tree, prep, net, exc, profile, pe, live, audit, count>>
    BY <1>5 DEF StartReadyUnit, Begin, kernel, disk, Steady
  <2> QED  BY <2>1 DEF HostOK
<1>6. CASE StartLoaderUnit
  <2>1. UNCHANGED <<reg, hold, tree, prep, net, exc, profile, live, audit, count>> /\ pe' \in {"up", pe}
    BY <1>6 DEF StartLoaderUnit, kernel, disk
  <2> QED  BY <2>1 DEF HostOK
<1>7. CASE EngineAttaches \/ EngineExits
  <2>1. UNCHANGED <<reg, hold, tree, prep, net, exc, profile, live, audit>> /\ pe' \in {"down", "enforcing"}
    BY <1>7 DEF EngineAttaches, EngineExits, kernel, disk
  <2>2. count' = count \/ Fault("engine")  BY <1>7 DEF EngineAttaches, EngineExits
  <2>3. count' \in Counts  BY <2>2, FaultCounts DEF HostOK
  <2> QED  BY <2>1, <2>3 DEF HostOK
<1>8. ASSUME NEW w \in Workloads, StartWorkload(w)  PROVE HostOK'
  <2>1. UNCHANGED <<reg, hold, tree, prep, net, exc, profile, pe, audit, count>>
    BY <1>8 DEF StartWorkload, kernel, disk
  <2>2. live' \in [Workloads -> {"no", "slice", "outside"}]  BY <1>8 DEF StartWorkload, HostOK
  <2> QED  BY <2>1, <2>2 DEF HostOK
<1>9. CASE Reboot
  <2>1. UNCHANGED <<reg, hold, tree, prep>>  BY <1>9 DEF Reboot, disk
  <2>2. PICK n \in Nat : n = count.boots + 1  BY DEF HostOK, Counts
  <2>3. count' \in Counts  BY <1>9, <2>2 DEF Reboot, HostOK, Counts
  <2>4. net' = [f \in Families |-> "none"] /\ exc' = 0 /\ profile' = [profile EXCEPT !.loaded = profile.file]
        /\ pe' = "down" /\ live' = [w \in Workloads |-> "no"] /\ audit' = {}
    BY <1>9 DEF Reboot
  <2>5. profile' \in [file : {"none", "deny", "allow"}, loaded : {"none", "deny", "allow"}]  BY <2>4 DEF HostOK
  <2> QED  BY <2>1, <2>3, <2>4, <2>5 DEF HostOK, ChainStates
<1>10. CASE UNCHANGED vars  BY <1>10 DEF vars, HostOK
<1> QED  BY <1>1, <1>2, <1>3, <1>4, <1>5, <1>6, <1>7, <1>8, <1>9, <1>10 DEF Next

----------------------------------------------------------------------------
(* How a step moves a process on. *)

Failed == <<"save_failed", "log_failed">>

\* The six ways.
Proceeds(p) ==
  /\ Head(run[p].todo) \notin {"load", "read", "insert", "judge"} /\ Proceed(p)
  /\ \A f \in Families : Head(run[p].todo) = Fill[f] => net'[f] = "drop"
Stops(p) == Head(run[p].todo) \in Turns /\ Exit(p, FALSE)
Reads(p, mem) == Head(run[p].todo) \in {"read", "register", "insert"} /\ mem.todo = Tail(run[p].todo)
Loads(p, mem) == Head(run[p].todo) = "load" /\ \E b \in Body : mem.todo = apply_boot(b)
Fails(p, mem) == Head(run[p].todo) \in NetLabels /\ mem.todo = Failed /\ net' = net
Judges(p) == Head(run[p].todo) = "judge"

Moves(p) ==
  \/ Proceeds(p)
  \/ Stops(p)
  \/ \E mem : /\ Continue(p, mem) /\ mem.cmd = run[p].cmd
              /\ Reads(p, mem) \/ Loads(p, mem) \/ Fails(p, mem) \/ Judges(p)

\* What a step does to the chains, the audit log and the grounds.
Effects(p) ==
  LET h == Head(run[p].todo) IN
  /\ \A f \in Families : net'[f] = net[f] \/ net'[f] = "drop" \/ (h \in {Flush[f], Lift[f]} /\ Proceeds(p))
  /\ audit \subseteq audit' /\ (h \in Logs => h \in audit')
  /\ Given(why) \subseteq why' /\ UNCHANGED live
  /\ count'.kills = 0 => count.kills = 0
  /\ count'.faults = 0 => count.faults = 0

LEMMA PlainMoves ==
  ASSUME ProcsOK, NEW p \in Procs, NEW S, At(p, S), Proceed(p),
         S \cap {"load", "read", "insert", "judge", "fill_v4", "fill_v6"} = {}
  PROVE  Proceeds(p)
<1>1. Head(run[p].todo) \in S  BY Here
<1>2. \A f \in Families : Fill[f] \in {"fill_v4", "fill_v6"}  BY NetNames
<1> QED  BY <1>1, <1>2 DEF Proceeds

\* A step that leaves the chains alone.
LEMMA QuietEffects ==
  ASSUME ProcsOK, HostOK, NEW p \in Procs, At(p, Steps \ Logs), net' = net, audit' = audit, Given(why) \subseteq why',
         live' = live, count' = count \/ (\E kind \in Faults \ {"kill"} : Fault(kind))
  PROVE  Effects(p)
<1>1. Head(run[p].todo) \notin Logs  BY Here
<1>2. (count'.kills = 0 => count.kills = 0) /\ (count'.faults = 0 => count.faults = 0)
  <2>1. count \in Counts  BY DEF HostOK
  <2> QED  BY <2>1, FaultCounts
<1> QED  BY <1>1, <1>2 DEF Effects

LEMMA ReadMoves ==
  ASSUME ProcsOK, HostOK, DiskOK, NEW p \in Procs, ReadStep(p)
  PROVE  Moves(p) /\ Effects(p)
<1> DEFINE b == IF m(p).cmd = "opt-out" THEN m(p).body ELSE load_policy(conf)
           rest == IF At(p, {"load"}) THEN apply_boot(b) ELSE Tail(m(p).todo)
<1>1. At(p, {"load", "read"}) /\ net' = net /\ audit' = audit /\ why' = why /\ live' = live /\ count' = count
  BY DEF ReadStep, kernel, Steady
<1>2. m(p) = run[p] /\ m(p) \in Memory /\ Head(run[p].todo) \in {"load", "read"}  BY <1>1, Here
<1>3. Effects(p)
  <2>1. At(p, Steps \ Logs)  BY <1>1 DEF At, Steps, Logs
  <2>2. Given(why) \subseteq why'  BY <1>1 DEF Given
  <2> QED  BY <1>1, <2>1, <2>2, QuietEffects
<1>4. Moves(p)
  <2>1. CASE ~reg.ok
    <3>1. Exit(p, FALSE)  BY <2>1 DEF ReadStep
    <3> QED  BY <1>2, <3>1 DEF Moves, Stops, Turns
  <2>2. CASE reg.ok
    <3>1. PICK mem : mem = [m(p) EXCEPT !.body = b, !.rows = reg.row, !.todo = rest] /\ Continue(p, mem)
      BY <2>2 DEF ReadStep
    <3>2. b \in Body  BY <1>2, TrustedOff DEF Memory, DiskOK
    <3>3. CASE Head(run[p].todo) = "load"
      <4>1. rest = apply_boot(b)
        <5>1. At(p, {"load"})  BY <1>1, <1>2, <3>3 DEF At
        <5> QED  BY <5>1
      <4> HIDE DEF b, rest
      <4>2. mem.todo = apply_boot(b) /\ mem.cmd = run[p].cmd  BY <1>2, <3>1, <4>1 DEF Memory
      <4>3. Loads(p, mem)  BY <3>2, <3>3, <4>2 DEF Loads
      <4> QED  BY <3>1, <4>2, <4>3 DEF Moves
    <3>4. CASE Head(run[p].todo) = "read"
      <4>1. rest = Tail(run[p].todo)
        <5>1. ~At(p, {"load"})  BY <1>2, <3>4 DEF At
        <5> QED  BY <1>2, <5>1
      <4> HIDE DEF b, rest
      <4>2. mem.todo = Tail(run[p].todo) /\ mem.cmd = run[p].cmd  BY <1>2, <3>1, <4>1 DEF Memory
      <4>3. Reads(p, mem)  BY <3>4, <4>2 DEF Reads
      <4> QED  BY <3>1, <4>2, <4>3 DEF Moves
    <3> QED  BY <1>2, <3>3, <3>4
  <2> QED  BY <2>1, <2>2 DEF HostOK, Registry
<1> QED  BY <1>3, <1>4

LEMMA NetMoves ==
  ASSUME ProcsOK, HostOK, NEW p \in Procs, FlushStep(p) \/ FillStep(p) \/ LiftStep(p)
  PROVE  Moves(p) /\ Effects(p)
<1>1. PICK f \in Families :
        /\ At(p, {Flush[f], Fill[f], Lift[f]})
        /\ \/ /\ Proceed(p) /\ Head(m(p).todo) = Flush[f] /\ (\E x \in ChainStates : net' = [net EXCEPT ![f] = x])
           \/ /\ Proceed(p) /\ Head(m(p).todo) = Fill[f] /\ net' = [net EXCEPT ![f] = "drop"]
           \/ /\ Proceed(p) /\ Head(m(p).todo) = Lift[f] /\ ((\E x \in ChainStates : net' = [net EXCEPT ![f] = x]) \/ net' = net)
           \/ Continue(p, [m(p) EXCEPT !.todo = Failed]) /\ net' = net
  BY DEF FlushStep, FillStep, LiftStep, At, Failed, ChainStates
<1>2. m(p) = run[p] /\ m(p) \in Memory /\ Head(run[p].todo) \in {Flush[f], Fill[f], Lift[f]}  BY <1>1, Here
<1>3. \A g \in Families : /\ Fill[f] = Fill[g] => f = g
                          /\ Flush[f] # Fill[g] /\ Lift[f] # Fill[g]
  BY NetNames
<1>4. {Flush[f], Fill[f], Lift[f]} \subseteq NetLabels
      /\ {Flush[f], Fill[f], Lift[f]} \cap ({"load", "read", "insert", "judge"} \cup Logs) = {}
  BY NetNames DEF Logs
<1>5. net \in [Families -> ChainStates]  BY DEF HostOK
<1>6. audit' = audit /\ live' = live /\ Given(why) \subseteq why'  BY DEF FlushStep, FillStep, LiftStep, Given
<1>7. (count'.kills = 0 => count.kills = 0) /\ (count'.faults = 0 => count.faults = 0)
  <2>1. count' = count \/ Fault("iptables")  BY DEF FlushStep, FillStep, LiftStep, Steady
  <2> QED  BY <2>1, FaultCounts DEF HostOK
<1>8. CASE Proceed(p) /\ Head(m(p).todo) = Fill[f] /\ net' = [net EXCEPT ![f] = "drop"]
  <2>1. net'[f] = "drop" /\ \A g \in Families : g # f => net'[g] = net[g]  BY <1>5, <1>8
  <2>2. Proceeds(p)  BY <1>2, <1>3, <1>4, <1>8, <2>1 DEF Proceeds
  <2> QED  BY <1>2, <1>4, <1>6, <1>7, <2>1, <2>2 DEF Moves, Effects
<1>9. CASE /\ Proceed(p) /\ Head(m(p).todo) \in {Flush[f], Lift[f]}
           /\ \A g \in Families : g # f => net'[g] = net[g]
  <2>1. Proceeds(p)  BY <1>2, <1>3, <1>4, <1>9 DEF Proceeds
  <2> QED  BY <1>2, <1>4, <1>6, <1>7, <1>9, <2>1 DEF Moves, Effects
<1>10. CASE Continue(p, [m(p) EXCEPT !.todo = Failed]) /\ net' = net
  <2>1. PICK mem : mem = [m(p) EXCEPT !.todo = Failed] /\ Continue(p, mem)  BY <1>10
  <2>2. mem.todo = Failed /\ mem.cmd = run[p].cmd
    <3> HIDE DEF Failed
    <3> QED  BY <1>2, <2>1 DEF Memory
  <2>3. Fails(p, mem)  BY <1>2, <1>4, <1>10, <2>2 DEF Fails
  <2> QED  BY <1>2, <1>4, <1>6, <1>7, <1>10, <2>1, <2>2, <2>3 DEF Moves, Effects
<1>11. ((\E x \in ChainStates : net' = [net EXCEPT ![f] = x]) \/ net' = net)
         => \A g \in Families : g # f => net'[g] = net[g]
  BY <1>5
<1> QED  BY <1>1, <1>8, <1>9, <1>10, <1>11

LEMMA ProbeMoves ==
  ASSUME ProcsOK, HostOK, NEW p \in Procs, InsertStep(p) \/ JudgeStep(p)
  PROVE  Moves(p) /\ Effects(p)
<1>1. At(p, {"insert", "judge"}) /\ net' = net /\ audit' = audit /\ live' = live
  BY DEF InsertStep, JudgeStep, At
<1>2. m(p) = run[p] /\ m(p) \in Memory /\ Head(run[p].todo) \in {"insert", "judge"}  BY <1>1, Here
<1>3. count' = count \/ Fault("iptables")  BY DEF InsertStep, JudgeStep, Steady
<1>4. Given(why) \subseteq why'
  <2>1. CASE InsertStep(p)  BY <2>1, InsertKeeps DEF Given
  <2>2. CASE JudgeStep(p)  BY <2>2, JudgeKeeps DEF Given
  <2> QED  BY <2>1, <2>2
<1>5. Effects(p)
  <2>1. At(p, Steps \ Logs)  BY <1>1 DEF At, Steps, Logs
  <2>2. "iptables" \in Faults \ {"kill"}  BY DEF Faults
  <2> QED  BY <1>1, <1>3, <1>4, <2>1, <2>2, QuietEffects
<1>6. CASE InsertStep(p)
  <2>1. PICK x \in BOOLEAN : Continue(p, [m(p) EXCEPT !.bypassed = x, !.todo = Tail(@)])  BY <1>6 DEF InsertStep
  <2>2. PICK mem : mem = [m(p) EXCEPT !.bypassed = x, !.todo = Tail(@)] /\ Continue(p, mem)  BY <2>1
  <2>3. mem.todo = Tail(run[p].todo) /\ mem.cmd = run[p].cmd  BY <1>2, <2>2 DEF Memory
  <2>4. Head(run[p].todo) = "insert"  BY <1>2, <1>6 DEF InsertStep, At
  <2>5. Reads(p, mem)  BY <2>3, <2>4 DEF Reads
  <2> QED  BY <1>5, <2>2, <2>3, <2>5 DEF Moves
<1>7. CASE JudgeStep(p)
  <2>1. PICK x, y : Continue(p, [m(p) EXCEPT !.tries = x, !.bypassed = FALSE, !.todo = y])  BY <1>7 DEF JudgeStep
  <2>2. PICK mem : mem = [m(p) EXCEPT !.tries = x, !.bypassed = FALSE, !.todo = y] /\ Continue(p, mem)  BY <2>1
  <2>3. mem.cmd = run[p].cmd  BY <1>2, <2>2 DEF Memory
  <2>4. Judges(p)  BY <1>2, <1>7 DEF Judges, JudgeStep, At
  <2> QED  BY <1>5, <2>2, <2>3, <2>4 DEF Moves
<1> QED  BY <1>6, <1>7

LEMMA OtherMoves ==
  ASSUME ProcsOK, HostOK, NEW p \in Procs, NEW S, At(p, S), Proceed(p) \/ (S \subseteq Turns /\ Exit(p, FALSE)),
         S \cap {"load", "read", "insert", "judge", "fill_v4", "fill_v6"} = {}
  PROVE  Moves(p)
<1>1. Head(run[p].todo) \in S  BY Here
<1>2. CASE Proceed(p)  BY <1>2, PlainMoves DEF Moves
<1>3. CASE S \subseteq Turns /\ Exit(p, FALSE)  BY <1>1, <1>3 DEF Moves, Stops
<1> QED  BY <1>2, <1>3

LEMMA StepMoves ==
  ASSUME ProcsOK, HostOK, DiskOK, NEW p \in Procs, Step(p)
  PROVE  Moves(p) /\ Effects(p)
<1>1. CASE ReadStep(p)  BY <1>1, ReadMoves
<1>2. CASE FlushStep(p) \/ FillStep(p) \/ LiftStep(p)  BY <1>2, NetMoves
<1>3. CASE InsertStep(p) \/ JudgeStep(p)  BY <1>3, ProbeMoves
<1>4. CASE RegisterStep(p)
  <2>1. At(p, {"register"}) /\ net' = net /\ audit' = audit /\ why' = why /\ live' = live /\ count' = count
    BY <1>4 DEF RegisterStep, kernel, Steady
  <2>2. m(p) = run[p] /\ m(p) \in Memory /\ Head(run[p].todo) = "register"  BY <2>1, Here
  <2>3. Effects(p)
    <3>1. At(p, Steps \ Logs)  BY <2>1 DEF At, Steps, Logs
    <3> QED  BY <2>1, <3>1, QuietEffects DEF Given
  <2>4. PICK x : Continue(p, [m(p) EXCEPT !.rows = x, !.todo = Tail(@)])  BY <1>4 DEF RegisterStep
  <2>5. PICK mem : mem = [m(p) EXCEPT !.rows = x, !.todo = Tail(@)] /\ Continue(p, mem)  BY <2>4
  <2>6. mem.todo = Tail(run[p].todo) /\ mem.cmd = run[p].cmd  BY <2>2, <2>5 DEF Memory
  <2>7. Reads(p, mem)  BY <2>2, <2>6 DEF Reads
  <2> QED  BY <2>3, <2>5, <2>6, <2>7 DEF Moves
<1>5. CASE ConfStep(p) \/ PrepareStep(p) \/ KeepRegistryStep(p) \/ DockerRunStep(p)
  <2>1. /\ \/ At(p, {"conf", "prepare"}) /\ Proceed(p)
           \/ At(p, {"keep_registry", "docker_run"}) /\ (Proceed(p) \/ Exit(p, FALSE))
        /\ net' = net /\ audit' = audit /\ why' = why /\ live' = live /\ (count' = count \/ Fault("docker"))
    BY <1>5 DEF ConfStep, PrepareStep, KeepRegistryStep, DockerRunStep, kernel, Steady, At
  <2>2. Moves(p)
    <3>1. {"keep_registry", "docker_run"} \subseteq Turns  BY DEF Turns
    <3> QED  BY <2>1, <3>1, OtherMoves
  <2>3. At(p, Steps \ Logs)  BY <2>1 DEF At, Steps, Logs
  <2>4. "docker" \in Faults \ {"kill"}  BY DEF Faults
  <2>5. Effects(p)  BY <2>1, <2>3, <2>4, QuietEffects DEF Given
  <2> QED  BY <2>2, <2>5
<1>6. CASE FileStep(p)
  <2>1. PICK label \in FileLabels :
          At(p, {label}) /\ Proceed(p) /\ (count' = count \/ Fault("apparmor"))
    BY <1>6 DEF FileStep, FileLabels, Steady
  <2>2. net' = net /\ audit' = audit /\ why' = why /\ live' = live  BY <1>6 DEF FileStep
  <2>3. {label} \cap {"load", "read", "insert", "judge", "fill_v4", "fill_v6"} = {}  BY DEF FileLabels
  <2>4. At(p, Steps \ Logs)  BY <2>1 DEF At, FileLabels, Steps, Logs
  <2>5. "apparmor" \in Faults \ {"kill"}  BY DEF Faults
  <2>6. Effects(p)  BY <2>1, <2>2, <2>4, <2>5, QuietEffects DEF Given
  <2> QED  BY <2>1, <2>3, <2>6, OtherMoves
<1>7. CASE ReloadStep(p)
  <2>1. At(p, {"reload"}) /\ Proceed(p) /\ net' = net /\ audit' = audit /\ live' = live /\ count' = count
    BY <1>7 DEF ReloadStep, kernel, Steady
  <2>2. Given(why) \subseteq why'  BY <1>7 DEF ReloadStep, Given
  <2>3. At(p, Steps \ Logs)  BY <2>1 DEF At, Steps, Logs
  <2> QED  BY <2>1, <2>2, <2>3, OtherMoves, QuietEffects
<1>8. CASE SaveStep(p)
  <2>1. PICK label \in {"save_held", "save_off", "save_failed", "save_refused", "save_released", "save_removed", "save_optout"} :
          At(p, {label}) /\ Proceed(p)
    BY <1>8 DEF SaveStep
  <2>2. net' = net /\ audit' = audit /\ why' = why /\ live' = live /\ count' = count  BY <1>8 DEF SaveStep, kernel, Steady
  <2>3. {label} \cap {"load", "read", "insert", "judge", "fill_v4", "fill_v6"} = {}  OBVIOUS
  <2>4. At(p, Steps \ Logs)  BY <2>1 DEF At, Steps, Logs
  <2>5. Effects(p)  BY <2>2, <2>4, QuietEffects DEF Given
  <2> QED  BY <2>1, <2>3, <2>5, OtherMoves
<1>9. CASE LogStep(p)
  <2>1. PICK label \in Logs : At(p, {label}) /\ audit' = audit \cup {label} /\ Proceed(p)  BY <1>9 DEF LogStep
  <2>2. net' = net /\ why' = why /\ live' = live /\ count' = count  BY <1>9 DEF LogStep, kernel, Steady
  <2>3. Head(run[p].todo) = label  BY <2>1, Here
  <2>4. Effects(p)  BY <2>1, <2>2, <2>3 DEF Effects, Given
  <2>5. {label} \cap {"load", "read", "insert", "judge", "fill_v4", "fill_v6"} = {}  BY DEF Logs
  <2> QED  BY <2>1, <2>4, <2>5, OtherMoves
<1> QED  BY <1>1, <1>2, <1>3, <1>4, <1>5, <1>6, <1>7, <1>8, <1>9 DEF Step

\* The other process stays where it is.
LEMMA OthersWait ==
  ASSUME ProcsOK, NEW p \in Procs, Moves(p)
  PROVE  \A q \in Procs \ {p} : run'[q] = run[q]
<1>1. (\E mem : run' = [run EXCEPT ![p] = mem])
  BY DEF Moves, Proceeds, Proceed, Stops, Continue, Exit
<1> QED  BY <1>1 DEF ProcsOK

\* What a process has left to do after a step: the rest, or a shorter way out.
LEMMA Rest ==
  ASSUME ProcsOK, NEW p \in Procs, Moves(p), run[p].todo # <<>>
  PROVE  \/ run'[p] = Idle /\ ((Len(run[p].todo) = 1 /\ Proceeds(p)) \/ Stops(p))
         \/ run'[p].cmd = run[p].cmd /\ run'[p].todo = Tail(run[p].todo) /\ Head(run[p].todo) \notin {"load", "judge"}
            /\ \A f \in Families : Head(run[p].todo) = Fill[f] => net'[f] = "drop"
         \/ run'[p].cmd = run[p].cmd /\ Head(run[p].todo) = "load" /\ \E b \in Body : run'[p].todo = apply_boot(b)
         \/ run'[p].cmd = run[p].cmd /\ Head(run[p].todo) \in NetLabels /\ run'[p].todo = Failed /\ net' = net
         \/ run'[p].cmd = run[p].cmd /\ Head(run[p].todo) = "judge"
<1>1. run[p] \in Memory /\ m(p) = run[p]  BY DEF ProcsOK, m
<1>2. CASE Proceeds(p)
  <2>1. CASE Len(run[p].todo) = 1
    <3>1. run' = [run EXCEPT ![p] = Idle]  BY <1>1, <1>2, <2>1 DEF Proceeds, Proceed, Exit
    <3> QED  BY <1>2, <2>1, <3>1 DEF ProcsOK
  <2>2. CASE Len(run[p].todo) # 1
    <3>1. PICK mem : mem = [run[p] EXCEPT !.todo = Tail(@)] /\ run' = [run EXCEPT ![p] = mem]
      BY <1>1, <1>2, <2>2 DEF Proceeds, Proceed, Continue
    <3>2. mem.todo = Tail(run[p].todo) /\ mem.cmd = run[p].cmd /\ run'[p] = mem  BY <1>1, <3>1 DEF Memory, ProcsOK
    <3> QED  BY <1>2, <3>2 DEF Proceeds
  <2> QED  BY <2>1, <2>2
<1>3. CASE Stops(p)  BY <1>3 DEF Stops, Exit, ProcsOK
<1>4. ASSUME NEW mem, Continue(p, mem), mem.cmd = run[p].cmd, Reads(p, mem) \/ Loads(p, mem) \/ Fails(p, mem) \/ Judges(p)
      PROVE  \/ run'[p].cmd = run[p].cmd /\ run'[p].todo = Tail(run[p].todo) /\ Head(run[p].todo) \in {"read", "register", "insert"}
             \/ run'[p].cmd = run[p].cmd /\ Head(run[p].todo) = "load" /\ \E b \in Body : run'[p].todo = apply_boot(b)
             \/ run'[p].cmd = run[p].cmd /\ Head(run[p].todo) \in NetLabels /\ run'[p].todo = Failed /\ net' = net
             \/ run'[p].cmd = run[p].cmd /\ Head(run[p].todo) = "judge"
  <2>1. run'[p] = mem  BY <1>4 DEF Continue, ProcsOK
  <2> QED  BY <1>4, <2>1 DEF Reads, Loads, Fails, Judges
<1>5. \A f \in Families : Fill[f] \notin {"read", "register", "insert"}  BY NetNames
<1> QED  BY <1>2, <1>3, <1>4, <1>5 DEF Moves

\* The hold unit becomes active only at the end of an apply-boot.
LEMMA Activates ==
  ASSUME ProcsOK, NEW p \in Procs, Moves(p), run[p].todo # <<>>, svc'["hold"] = "active"
  PROVE  \/ svc["hold"] = "active"
         \/ /\ p = "systemd" /\ run[p].cmd = "apply-boot" /\ Labels(run[p].todo) = {Head(run[p].todo)}
            /\ Head(run[p].todo) \in {"log_held", "log_off"}
<1>1. run[p] \in Memory /\ run[p].todo \in Seq(Steps) /\ m(p) = run[p] /\ ProcOK(run[p], why, net) /\ svc \in UnitStates
  BY DEF ProcsOK, m, Memory
<1>2. ASSUME NEW ok \in BOOLEAN, Exit(p, ok), svc["hold"] # "active"
      PROVE  ok /\ p = "systemd" /\ run[p].cmd = "apply-boot"
  <2>1. p = "systemd" /\ svc' = [svc EXCEPT ![UnitOf(run[p].cmd)] = IF ok THEN "active" ELSE "failed"]
    BY <1>1, <1>2 DEF Exit
  <2>2. UnitOf(run[p].cmd) = "hold" /\ ok  BY <1>1, <1>2, <2>1 DEF UnitStates, Units
  <2> QED  BY <2>1, <2>2 DEF UnitOf
<1>3. CASE Proceeds(p) /\ Len(run[p].todo) = 1 /\ svc["hold"] # "active"
  <2>1. PICK ok \in BOOLEAN : ok = (Head(run[p].todo) \notin {"log_failed", "log_refused"}) /\ Exit(p, ok)
    BY <1>1, <1>3 DEF Proceeds, Proceed
  <2>2. ok /\ p = "systemd" /\ run[p].cmd = "apply-boot"  BY <1>2, <1>3, <2>1
  <2>3. run[p].todo[Len(run[p].todo)] = Head(run[p].todo) /\ Labels(run[p].todo) = {Head(run[p].todo)}
    BY <1>1, <1>3, TailLabels
  <2>4. Head(run[p].todo) \in Ends  BY <1>1, <2>2, <2>3 DEF ProcOK, MemOK
  <2> QED  BY <1>3, <2>1, <2>2, <2>3, <2>4 DEF Ends, Proceeds
<1>4. CASE Proceeds(p) /\ Len(run[p].todo) # 1  BY <1>1, <1>4 DEF Proceeds, Proceed, Continue
<1>5. CASE Stops(p)  BY <1>2, <1>5 DEF Stops
<1>6. CASE \E mem : Continue(p, mem)  BY <1>6 DEF Continue
<1> QED  BY <1>3, <1>4, <1>5, <1>6 DEF Moves

----------------------------------------------------------------------------
(* The guard: behind a workload that runs the hold is up or there are grounds. *)

\* A step takes a chain down or drops grounds only where it is safe.
LEMMA StepIsSafe ==
  ASSUME TypeOK, ProcsOK, NEW p \in Procs, Step(p)
  PROVE  /\ Kept(why, why', net, net')
         /\ why # {} => Safe'
<1>1. CASE FlushStep(p) \/ FillStep(p) \/ LiftStep(p)
  <2>1. Kept(why, why', net, net')  BY <1>1, FlushKeeps, FillKeeps, LiftKeeps DEF TypeOK, ChainStates
  <2>2. why \subseteq why'  BY <1>1 DEF FlushStep, FillStep, LiftStep
  <2> QED  BY <2>1, <2>2 DEF Safe
<1>2. CASE ReloadStep(p)
  <2>1. Kept(why, why', net, net')  BY <1>2, ReloadKeeps
  <2>2. At(p, {"reload"}) /\ net' = net  BY <1>2 DEF ReloadStep, kernel
  <2>3. /\ m(p).todo \in Seq(Steps) /\ m(p).todo # <<>> /\ m(p).todo[1] = "reload" /\ ProcOK(m(p), why, net)
        /\ Len(m(p).todo) \in Nat \ {0}
    BY <2>2, Here
  <2>4. 1 \in 1..Len(m(p).todo) /\ Len(m(p).todo) \in 1..Len(m(p).todo)  BY <2>3
  <2>5. m(p).todo[Len(m(p).todo)] = "log_held" /\ \A j \in 1..Len(m(p).todo) : m(p).todo[j] \notin Fills
    BY <2>3, <2>4 DEF ProcOK, MemOK, ScriptOK
  <2>6. "log_held" \in Labels(m(p).todo) /\ \A f \in Families : Fill[f] \notin Labels(m(p).todo)
    BY <2>4, <2>5 DEF Labels, Fills
  <2>7. \A f \in Families : Up(net, f) \/ Given(why) # {}  BY <2>3, <2>6 DEF ProcOK, Filled
  <2>8. Given(why) # {} => why' # {}  BY <2>1 DEF Kept
  <2>9. Safe'  BY <2>2, <2>7, <2>8 DEF Safe, Up
  <2> QED  BY <2>1, <2>9
<1>3. CASE \/ ReadStep(p) \/ ConfStep(p) \/ RegisterStep(p) \/ KeepRegistryStep(p) \/ FileStep(p) \/ SaveStep(p)
           \/ LogStep(p) \/ InsertStep(p) \/ JudgeStep(p) \/ PrepareStep(p) \/ DockerRunStep(p)
  <2>1. net' = net /\ why \subseteq why'
    BY <1>3 DEF ReadStep, ConfStep, RegisterStep, KeepRegistryStep, FileStep, SaveStep, LogStep, InsertStep,
                JudgeStep, PrepareStep, DockerRunStep, kernel
  <2> QED  BY <2>1, KeptByAdding DEF Safe
<1> QED  BY <1>1, <1>2, <1>3 DEF Step

\* So does every action but a reboot.
LEMMA StaysSafe ==
  ASSUME TypeOK, ProcsOK, Safe, [Next]_vars, ~Reboot
  PROVE  Safe'
<1>1. ASSUME NEW p \in Procs, Step(p)  PROVE Safe'
  <2>1. Kept(why, why', net, net') /\ (why # {} => Safe')  BY <1>1, StepIsSafe
  <2>2. CASE \A f \in Families : Up(net, f)
    <3>1. \A f \in Families : Up(net', f) \/ Given(why') # {}  BY <2>1, <2>2 DEF Kept
    <3>2. Given(why') # {} => why' # {}  BY DEF Given
    <3> QED  BY <3>1, <3>2 DEF Safe, Up
  <2> QED  BY <2>1, <2>2 DEF Safe
<1>2. CASE ~(\E p \in Procs : Step(p))
  <2>1. net' = net /\ why \subseteq why'
    BY <1>2 DEF Next, OperatorRuns, Begin, Kill, StartHoldUnit, StartLoaderUnit, StartReadyUnit, EngineAttaches,
                EngineExits, StartWorkload, kernel, vars
  <2> QED  BY <2>1 DEF Safe, Up
<1> QED  BY <1>1, <1>2

\* The hold unit becomes active behind a hold that is up, or on grounds.
LEMMA ActiveIsSafe ==
  ASSUME TypeOK, ProcsOK, HostOK, DiskOK, NEW p \in Procs, Step(p), svc'["hold"] = "active", svc["hold"] # "active"
  PROVE  Safe
<1>1. Moves(p)  BY StepMoves
<1>2. run[p].todo # <<>>
  <2>1. m(p).todo # <<>>
    BY DEF Step, At, ReadStep, ConfStep, RegisterStep, KeepRegistryStep, FileStep, FlushStep, FillStep, LiftStep,
           ReloadStep, SaveStep, LogStep, InsertStep, JudgeStep, PrepareStep, DockerRunStep
  <2> QED  BY <2>1 DEF m
<1>3. Labels(run[p].todo) = {Head(run[p].todo)} /\ Head(run[p].todo) \in {"log_held", "log_off"}
  BY <1>1, <1>2, Activates
<1>4. ProcOK(run[p], why, net)  BY DEF ProcsOK
<1>5. CASE Head(run[p].todo) = "log_held"
  <2>1. "log_held" \in Labels(run[p].todo) /\ \A f \in Families : Fill[f] \notin Labels(run[p].todo)
    BY <1>3, <1>5, NetNames
  <2>2. \A f \in Families : Up(net, f) \/ Given(why) # {}  BY <1>4, <2>1 DEF ProcOK, Filled
  <2>3. Given(why) # {} => why # {}  BY DEF Given
  <2> QED  BY <2>2, <2>3 DEF Safe
<1>6. CASE Head(run[p].todo) = "log_off"
  <2>1. "hold-off" \in why  BY <1>3, <1>4, <1>6 DEF ProcOK, Entitled
  <2> QED  BY <2>1 DEF Safe
<1> QED  BY <1>3, <1>5, <1>6

\* A workload starts behind a hold that is up, or on grounds.
LEMMA StartIsSafe ==
  ASSUME TypeOK, DiskOK, Guarded, NEW w \in Workloads, StartWorkload(w), view[w].here
  PROVE  Safe
<1>1. CanStart(w)  BY DEF StartWorkload
<1>2. CASE "hold" \in view[w].req
  <2>1. svc["hold"] = "active"  BY <1>1, <1>2 DEF CanStart
  <2> QED  BY <2>1 DEF Guarded, Safe
<1>3. CASE "hold" \notin view[w].req
  <2>1. why \cap Lasting # {}  BY <1>3 DEF DiskOK, FilesOK, Gated
  <2> QED  BY <2>1 DEF Safe
<1> QED  BY <1>2, <1>3

LEMMA GuardKept ==
  ASSUME TypeOK, ProcsOK, HostOK, DiskOK, Guarded, [Next]_vars
  PROVE  Guarded'
<1>1. CASE Reboot
  <2>1. svc'["hold"] = "inactive" /\ \A w \in Workloads : live'[w] = "no"  BY <1>1 DEF Reboot, Units
  <2> QED  BY <2>1 DEF Guarded
<1>2. CASE ~Reboot
  <2> SUFFICES ASSUME svc'["hold"] = "active" \/ \E w \in Workloads : live'[w] = "slice"
               PROVE  Safe
    BY <1>2, StaysSafe DEF Guarded, Safe
  <2>1. CASE svc["hold"] = "active" \/ \E w \in Workloads : live[w] = "slice"  BY <2>1 DEF Guarded, Safe
  <2>2. CASE svc["hold"] # "active" /\ \A w \in Workloads : live[w] # "slice"
    <3>1. ASSUME NEW p \in Procs, Step(p)  PROVE Safe
      <4>1. live' = live  BY <3>1, StepMoves DEF Effects
      <4>2. svc'["hold"] = "active"  BY <2>2, <4>1
      <4> QED  BY <2>2, <3>1, <4>2, ActiveIsSafe
    <3>2. ASSUME NEW w \in Workloads, StartWorkload(w)  PROVE Safe
      <4>1. svc' = svc /\ live' = [live EXCEPT ![w] = IF view[w].here THEN "slice" ELSE "outside"]
        BY <3>2 DEF StartWorkload
      <4>2. live \in [Workloads -> {"no", "slice", "outside"}]  BY DEF HostOK
      <4>3. PICK v \in Workloads : live'[v] = "slice"  BY <2>2, <4>1
      <4>4. v = w /\ view[w].here  BY <2>2, <4>1, <4>2, <4>3
      <4> QED  BY <3>2, <4>4, StartIsSafe
    <3>3. CASE ~(\E p \in Procs : Step(p)) /\ ~(\E w \in Workloads : StartWorkload(w))
      <4>1. live' = live
        BY <1>2, <3>3 DEF Next, OperatorRuns, Begin, Kill, StartHoldUnit, StartLoaderUnit, StartReadyUnit,
                          EngineAttaches, EngineExits, vars
      <4>2. svc'["hold"] # "active"
        <5>1. svc \in UnitStates  BY DEF ProcsOK
        <5>2. \/ svc' = svc
              \/ svc' = [svc EXCEPT !["loader"] = "active"] \/ svc' = [svc EXCEPT !["loader"] = "failed"]
              \/ svc' = [svc EXCEPT !["ready"] = "failed"]
              \/ \E p \in Procs : Exit(p, FALSE)
          BY <1>2, <3>3 DEF Next, OperatorRuns, Begin, Kill, StartHoldUnit, StartLoaderUnit, StartReadyUnit,
                            EngineAttaches, EngineExits, vars
        <5>3. ASSUME NEW p \in Procs, Exit(p, FALSE)  PROVE svc'["hold"] # "active"
          BY <2>2, <5>1, <5>3 DEF Exit, UnitStates, Units
        <5> QED  BY <2>2, <5>1, <5>2, <5>3 DEF UnitStates, Units
      <4> QED  BY <2>2, <4>1, <4>2
    <3> QED  BY <3>1, <3>2, <3>3
  <2> QED  BY <2>1, <2>2
<1> QED  BY <1>1, <1>2

----------------------------------------------------------------------------
(* The boot hold implements its contract. *)

\* The workloads that run in the enrolled slice.
Started == {w \in Workloads : live[w] = "slice"}

\* The two predicates the contract is about.
LEMMA Chains ==
  /\ Blocked \in BOOLEAN /\ Rewriting \in BOOLEAN
  /\ Safe <=> Blocked \/ Rewriting \/ why # {}
BY DEF Blocked, Rewriting, Safe, Up

\* A step that leaves the workloads alone.
LEMMA DecideOrOpen ==
  ASSUME live' = live, why' \subseteq Grounds, Guarded', why \subseteq why', net' = net \/ why' = why
  PROVE  [Contract!Next]_(Contract!vars)
<1>1. Started' = Started  BY DEF Started
<1>2. /\ Blocked' \in BOOLEAN /\ Rewriting' \in BOOLEAN
      /\ Safe' <=> Blocked' \/ Rewriting' \/ why' # {}
  BY DEF Blocked, Rewriting, Safe, Up
<1>3. CASE net' = net
  <2>1. Blocked' = Blocked /\ Rewriting' = Rewriting  BY <1>3 DEF Blocked, Rewriting
  <2>2. Contract!Decide  BY <1>1, <2>1 DEF Contract!Decide, Started
  <2> QED  BY <2>2 DEF Contract!Next
<1>4. CASE why' = why /\ ~Blocked' /\ ~Rewriting'
  <2>1. Started # {} => why' # {}  BY <1>1, <1>2, <1>4 DEF Guarded, Started
  <2>2. Contract!Open  BY <1>1, <1>2, <1>4, <2>1 DEF Contract!Open, Started
  <2> QED  BY <2>2 DEF Contract!Next
<1>5. CASE why' = why /\ ~Blocked' /\ Rewriting'
  <2>1. Contract!Rewrite  BY <1>1, <1>2, <1>5 DEF Contract!Rewrite, Started
  <2> QED  BY <2>1 DEF Contract!Next
<1>6. CASE why' = why /\ Blocked'
  <2>1. ~Rewriting'  BY <1>6 DEF Rewriting
  <2>2. Contract!Block  BY <1>1, <1>2, <1>6, <2>1 DEF Contract!Block, Started
  <2> QED  BY <2>2 DEF Contract!Next
<1> QED  BY <1>3, <1>4, <1>5, <1>6

LEMMA StepImplements ==
  ASSUME TypeOK, ProcsOK, HostOK, DiskOK, DiskOK', Guarded', NEW p \in Procs, Step(p)
  PROVE  [Contract!Next]_(Contract!vars)
<1>1. live' = live  BY StepMoves DEF Effects
<1>2. why' \subseteq Grounds  BY DEF DiskOK
<1>4. CASE ReloadStep(p)
  <2>1. net' = net /\ (why' = why \/ why' = why \ {"earlier"})  BY <1>4 DEF ReloadStep, kernel
  <2>2. Blocked' = Blocked /\ Rewriting' = Rewriting /\ Started' = Started
    BY <1>1, <2>1 DEF Blocked, Rewriting, Started
  <2>3. why # {} => Safe'  BY StepIsSafe
  <2>4. CASE why' = why  BY <1>1, <1>2, <2>4, DecideOrOpen
  <2>5. CASE why' # why
    <3>4. Safe'  BY <2>1, <2>3, <2>5
    <3>5. Safe' => Blocked' \/ Rewriting' \/ why' # {}  BY DEF Blocked, Rewriting, Safe, Up
    <3>1. why' \subseteq why /\ (Blocked \/ Rewriting \/ why' # {})  BY <2>1, <2>2, <2>5, <3>4, <3>5
    <3>2. Contract!Lapse  BY <2>2, <3>1 DEF Contract!Lapse, Started
    <3> QED  BY <3>2 DEF Contract!Next
  <2> QED  BY <2>4, <2>5
<1>5. CASE FlushStep(p) \/ FillStep(p) \/ LiftStep(p)
  <2>1. why' = why  BY <1>5 DEF FlushStep, FillStep, LiftStep
  <2> QED  BY <1>1, <1>2, <2>1, DecideOrOpen
<1>6. CASE \/ ReadStep(p) \/ ConfStep(p) \/ RegisterStep(p) \/ KeepRegistryStep(p) \/ FileStep(p) \/ SaveStep(p)
           \/ LogStep(p) \/ InsertStep(p) \/ JudgeStep(p) \/ PrepareStep(p) \/ DockerRunStep(p)
  <2>1. net' = net /\ why \subseteq why'
    BY <1>6 DEF ReadStep, ConfStep, RegisterStep, KeepRegistryStep, FileStep, SaveStep, LogStep, InsertStep,
                JudgeStep, PrepareStep, DockerRunStep, kernel
  <2> QED  BY <1>1, <1>2, <2>1, DecideOrOpen
<1> QED  BY <1>4, <1>5, <1>6 DEF Step

\* Every step of the boot hold is a step of the contract.
LEMMA Implements ==
  ASSUME TypeOK, ProcsOK, HostOK, DiskOK, DiskOK', Guarded, Guarded', [Next]_vars
  PROVE  [Contract!Next]_(Contract!vars)
<1>1. why' \subseteq Grounds  BY DEF DiskOK
<1>2. ASSUME NEW p \in Procs, Step(p)  PROVE [Contract!Next]_(Contract!vars)  BY <1>2, StepImplements
<1>3. ASSUME NEW w \in Workloads, StartWorkload(w)  PROVE [Contract!Next]_(Contract!vars)
  <2>1. /\ live' = [live EXCEPT ![w] = IF view[w].here THEN "slice" ELSE "outside"] /\ live[w] = "no"
        /\ net' = net /\ why' = why
    BY <1>3 DEF StartWorkload, kernel
  <2>2. live \in [Workloads -> {"no", "slice", "outside"}] /\ Blocked' = Blocked /\ Rewriting' = Rewriting
    BY <2>1 DEF HostOK, Blocked, Rewriting
  <2>3. CASE view[w].here
    <3>1. Started' = Started \cup {w}  BY <2>1, <2>2, <2>3 DEF Started
    <3>2. Blocked \/ Rewriting \/ why # {}  BY <1>3, <2>3, StartIsSafe, Chains
    <3>3. Contract!Start(w)  BY <2>1, <2>2, <3>1, <3>2 DEF Contract!Start, Started
    <3> QED  BY <3>3 DEF Contract!Next
  <2>4. CASE ~view[w].here
    <3>1. Started' = Started  BY <2>1, <2>2, <2>4 DEF Started
    <3> QED  BY <2>1, <2>2, <3>1 DEF Contract!vars, Started
  <2> QED  BY <2>3, <2>4
<1>4. CASE Reboot
  <2>1. /\ net' = [f \in Families |-> "none"] /\ live' = [w \in Workloads |-> "no"]
        /\ why' = PolicyGrounds(conf) \cup {g \in {"earlier"} : why \cap Lasting # {}}
    BY <1>4 DEF Reboot
  <2>2. Blocked' = FALSE /\ Rewriting' = FALSE  BY <2>1 DEF Blocked, Rewriting, Families
  <2>3. Started' = {}  BY <2>1 DEF Started
  <2>4. why # {} \/ why' = {}  BY <2>1 DEF DiskOK
  <2>5. Contract!Reboot  BY <2>2, <2>3, <2>4 DEF Contract!Reboot, Started
  <2> QED  BY <2>5 DEF Contract!Next
<1>5. CASE ~(\E p \in Procs : Step(p)) /\ ~(\E w \in Workloads : StartWorkload(w)) /\ ~Reboot
  <2>1. live' = live /\ net' = net /\ why \subseteq why'
    BY <1>5 DEF Next, OperatorRuns, Begin, Kill, StartHoldUnit, StartLoaderUnit, StartReadyUnit,
                EngineAttaches, EngineExits, kernel, vars
  <2> QED  BY <1>1, <2>1, DecideOrOpen
<1> QED  BY <1>2, <1>3, <1>4, <1>5

LEMMA ContractInit ==
  ASSUME Init
  PROVE  Contract!Init
<1>1. live = [w \in Workloads |-> "no"] /\ net = [f \in Families |-> "none"] /\ why = PolicyGrounds(conf)  BY DEF Init
<1>2. Started = {}  BY <1>1 DEF Started
<1>3. Blocked = FALSE /\ Rewriting = FALSE  BY <1>1 DEF Blocked, Rewriting, Families
<1>4. why \subseteq Grounds  BY <1>1 DEF PolicyGrounds, Grounds
<1> QED  BY <1>2, <1>3, <1>4 DEF Contract!Init, Started

----------------------------------------------------------------------------
(* The exceptions of the deny checks. *)

\* What a command has after it began.
LEMMA Begins ==
  ASSUME ProcsOK, NEW p \in Procs, NEW c, Begin(p, c)
  PROVE  /\ run[p] = Idle
         /\ run'[p].cmd = c /\ run'[p].todo = Script(c, conf) /\ run'[p].bypassed = FALSE
         /\ \A q \in Procs \ {p} : run'[q] = run[q]
         /\ UNCHANGED <<hold, svc, net, exc, live, audit>> /\ why \subseteq why'
<1>1. PICK w, b : run' = [run EXCEPT ![p] = [Idle EXCEPT !.cmd = c, !.w = w, !.arg = b, !.body = b,
                                                         !.todo = Script(c, conf)]]
  BY DEF Begin
<1>2. PICK mem : mem = [Idle EXCEPT !.cmd = c, !.w = w, !.arg = b, !.body = b, !.todo = Script(c, conf)]  OBVIOUS
<1>3. mem.cmd = c /\ mem.todo = Script(c, conf) /\ mem.bypassed = FALSE  BY <1>2 DEF Idle
<1>4. run' = [run EXCEPT ![p] = mem]  BY <1>1, <1>2
<1>5. run'[p] = mem /\ \A q \in Procs \ {p} : run'[q] = run[q]  BY <1>4 DEF ProcsOK
<1>6. run[p] = Idle
  <2>1. run[p].cmd = "none"  BY DEF Begin, m
  <2> QED  BY <2>1 DEF ProcsOK, ProcOK, MemOK
<1>7. UNCHANGED <<hold, svc, net, exc, live, audit>> /\ why \subseteq why'  BY DEF Begin, disk, kernel
<1> QED  BY <1>3, <1>5, <1>6, <1>7

\* A step of one process takes one exception for itself, or takes its own back.
LEMMA Shift ==
  ASSUME ProcsOK, HostOK, HostOK', Owned, NEW p \in Procs, \A q \in Procs \ {p} : run'[q] = run[q],
         count'.faults = 0 => /\ count.faults = 0
                              /\ exc' = 0 \/ exc' + Flag(p) <= exc + Flag(p)'
  PROVE  Owned'
<1>1. exc \in Nat /\ exc' \in Nat  BY DEF HostOK
<1>2. /\ Flag("systemd") \in {0, 1} /\ Flag("systemd")' \in {0, 1}
      /\ Flag("operator") \in {0, 1} /\ Flag("operator")' \in {0, 1}
  BY DEF Flag
<1>3. CASE p = "systemd"
  <2>1. run'["operator"] = run["operator"]  BY <1>3 DEF Procs
  <2>2. Flag("operator")' = Flag("operator")  BY <2>1 DEF Flag
  <2>3. ASSUME count'.faults = 0  PROVE exc' <= Flag("systemd")' + Flag("operator")'
    <3>1. exc <= Flag("systemd") + Flag("operator")  BY <2>3 DEF Owned
    <3>2. exc' = 0 \/ exc' + Flag("systemd") <= exc + Flag("systemd")'  BY <1>3, <2>3
    <3> QED  BY <1>1, <1>2, <2>2, <3>1, <3>2
  <2> QED  BY <2>3 DEF Owned
<1>4. CASE p = "operator"
  <2>1. run'["systemd"] = run["systemd"]  BY <1>4 DEF Procs
  <2>2. Flag("systemd")' = Flag("systemd")  BY <2>1 DEF Flag
  <2>3. ASSUME count'.faults = 0  PROVE exc' <= Flag("systemd")' + Flag("operator")'
    <3>1. exc <= Flag("systemd") + Flag("operator")  BY <2>3 DEF Owned
    <3>2. exc' = 0 \/ exc' + Flag("operator") <= exc + Flag("operator")'  BY <1>4, <2>3
    <3> QED  BY <1>1, <1>2, <2>2, <3>1, <3>2
  <2> QED  BY <2>3 DEF Owned
<1> QED  BY <1>3, <1>4 DEF Procs

LEMMA StepOwns ==
  ASSUME ProcsOK, HostOK, HostOK', DiskOK, Owned, NEW p \in Procs, Step(p)
  PROVE  Owned'
<1>1. (\A q \in Procs \ {p} : run'[q] = run[q]) /\ (count'.faults = 0 => count.faults = 0)
  BY StepMoves, OthersWait DEF Effects
<1>2. exc \in Nat /\ exc' \in Nat /\ Flag(p) \in {0, 1} /\ Flag(p)' \in {0, 1}  BY DEF HostOK, Flag
<1>3. ASSUME NEW S, At(p, S), "judge" \notin S  PROVE Flag(p) = 0
  <2>1. Head(run[p].todo) \in S /\ Head(run[p].todo) = run[p].todo[1] /\ ProcOK(run[p], why, net)  BY <1>3, Here
  <2>2. ~run[p].bypassed  BY <1>3, <2>1 DEF ProcOK, MemOK
  <2> QED  BY <2>2 DEF Flag
<1>4. CASE InsertStep(p)
  <2>1. Flag(p) = 0  BY <1>3, <1>4 DEF InsertStep
  <2>2. run[p] \in Memory /\ m(p) = run[p]  BY DEF ProcsOK, m
  <2>3. CASE exc' = exc + 1 /\ Continue(p, [m(p) EXCEPT !.bypassed = TRUE, !.todo = Tail(@)])
    <3>1. run'[p].bypassed = TRUE  BY <2>2, <2>3 DEF Continue, ProcsOK, Memory
    <3>2. Flag(p)' = 1  BY <3>1 DEF Flag
    <3>3. exc' + Flag(p) <= exc + Flag(p)'  BY <1>2, <2>1, <2>3, <3>2
    <3> QED  BY <1>1, <3>3, Shift
  <2>4. CASE exc' = exc
    <3>1. exc' + Flag(p) <= exc + Flag(p)'  BY <1>2, <2>1, <2>4
    <3> QED  BY <1>1, <3>1, Shift
  <2> QED  BY <1>4, <2>3, <2>4 DEF InsertStep
<1>5. CASE JudgeStep(p)
  <2>1. run[p] \in Memory /\ m(p) = run[p]  BY DEF ProcsOK, m
  <2>2. CASE m(p).bypassed /\ exc > 0 /\ exc' = Removed(exc)
    <3>1. exc' = exc - 1 /\ Flag(p) = 1  BY <2>1, <2>2 DEF Removed, Flag
    <3>2. exc' + Flag(p) <= exc + Flag(p)'  BY <1>2, <2>2, <3>1
    <3> QED  BY <1>1, <3>2, Shift
  <2>3. CASE ~m(p).bypassed /\ exc' = exc
    <3>1. Flag(p) = 0  BY <2>1, <2>3 DEF Flag
    <3>2. exc' + Flag(p) <= exc + Flag(p)'  BY <1>2, <2>3, <3>1
    <3> QED  BY <1>1, <3>2, Shift
  <2>4. CASE exc = 0 /\ exc' = exc
    <3>1. exc' = 0  BY <2>4
    <3> QED  BY <1>1, <3>1, Shift
  <2>5. CASE Fault("iptables")
    <3>1. count'.faults # 0  BY <2>5, FaultCounts DEF HostOK
    <3> QED  BY <1>1, <3>1, Shift
  <2> QED  BY <1>5, <2>2, <2>3, <2>4, <2>5 DEF JudgeStep
<1>6. CASE \/ ReadStep(p) \/ ConfStep(p) \/ RegisterStep(p) \/ KeepRegistryStep(p) \/ FileStep(p) \/ FlushStep(p)
           \/ FillStep(p) \/ LiftStep(p) \/ ReloadStep(p) \/ SaveStep(p) \/ LogStep(p) \/ PrepareStep(p) \/ DockerRunStep(p)
  <2>1. exc' = exc \/ exc' = 0
    BY <1>6 DEF ReadStep, ConfStep, RegisterStep, KeepRegistryStep, FileStep, FlushStep, FillStep, LiftStep, ReloadStep,
                SaveStep, LogStep, PrepareStep, DockerRunStep, kernel
  <2>2. At(p, Steps \ {"judge"})
    <3>1. \A f \in Families : Flush[f] # "judge" /\ Fill[f] # "judge" /\ Lift[f] # "judge"  BY NetNames
    <3>2. m(p).todo # <<>> /\ Head(m(p).todo) # "judge"
      BY <1>6, <3>1 DEF ReadStep, ConfStep, RegisterStep, KeepRegistryStep, FileStep, FlushStep, FillStep, LiftStep,
                        ReloadStep, SaveStep, LogStep, PrepareStep, DockerRunStep, At, Logs
    <3>3. At(p, {Head(m(p).todo)})  BY <3>2 DEF At
    <3>4. Head(m(p).todo) \in Steps
      <4>1. m(p).todo \in Seq(Steps)  BY <3>3, Here
      <4> QED  BY <3>2, <4>1, TailLabels
    <3> QED  BY <3>2, <3>4 DEF At
  <2>3. Flag(p) = 0  BY <1>3, <2>2
  <2>4. exc' = 0 \/ exc' + Flag(p) <= exc + Flag(p)'  BY <1>2, <2>1, <2>3
  <2> QED  BY <1>1, <2>4, Shift
<1> QED  BY <1>4, <1>5, <1>6 DEF Step

LEMMA OwnedKept ==
  ASSUME ProcsOK, HostOK, HostOK', DiskOK, Owned, [Next]_vars
  PROVE  Owned'
<1>1. exc \in Nat /\ exc' \in Nat /\ \A p \in Procs : Flag(p) \in {0, 1} /\ Flag(p)' \in {0, 1}  BY DEF HostOK, Flag
<1>2. ASSUME NEW p \in Procs, Step(p)  PROVE Owned'  BY <1>2, StepOwns
<1>3. ASSUME NEW p \in Procs, NEW c, Begin(p, c), count'.faults = count.faults  PROVE Owned'
  <2>1. exc' = exc /\ run[p] = Idle /\ \A q \in Procs \ {p} : run'[q] = run[q]  BY <1>3, Begins
  <2>2. Flag(p) = 0  BY <2>1 DEF Flag, Idle
  <2>3. exc' + Flag(p) <= exc + Flag(p)'  BY <1>1, <2>1, <2>2
  <2> QED  BY <1>3, <2>1, <2>3, Shift
<1>4. ASSUME NEW p \in Procs, Kill(p)  PROVE Owned'
  <2>1. count'.faults # 0  BY <1>4, FaultCounts DEF Kill, HostOK
  <2> QED  BY <2>1 DEF Owned
<1>5. CASE Reboot
  <2>1. exc' = 0  BY <1>5 DEF Reboot
  <2>2. Flag("systemd")' \in {0, 1} /\ Flag("operator")' \in {0, 1}  BY DEF Flag
  <2> QED  BY <2>1, <2>2 DEF Owned
<1>6. ASSUME NEW c \in Commands, OperatorRuns(c)  PROVE Owned'
  <2>1. Begin("operator", c) /\ "operator" \in Procs  BY <1>6 DEF OperatorRuns, Procs
  <2>2. count' = [count EXCEPT !.commands = @ + 1] /\ count \in Counts  BY <1>6 DEF OperatorRuns, HostOK
  <2>3. count'.faults = count.faults  BY <2>2 DEF Counts
  <2> QED  BY <1>3, <2>1, <2>3
<1>7. CASE StartHoldUnit \/ (StartReadyUnit /\ Begin("systemd", "release"))
  <2>1. "systemd" \in Procs /\ (Begin("systemd", "apply-boot") \/ Begin("systemd", "release"))
    BY <1>7 DEF StartHoldUnit, Procs
  <2>2. count' = count  BY <1>7 DEF StartHoldUnit, StartReadyUnit, Steady
  <2> QED  BY <1>3, <2>1, <2>2
<1>8. CASE \/ StartLoaderUnit \/ (StartReadyUnit /\ ~Begin("systemd", "release")) \/ EngineAttaches \/ EngineExits
           \/ (\E w \in Workloads : StartWorkload(w)) \/ UNCHANGED vars
  <2>1. run' = run /\ exc' = exc
    BY <1>8 DEF StartLoaderUnit, StartReadyUnit, EngineAttaches, EngineExits, StartWorkload, kernel, vars
  <2>2. count' = count \/ Fault("engine")
    BY <1>8 DEF StartLoaderUnit, StartReadyUnit, EngineAttaches, EngineExits, StartWorkload, vars
  <2>3. count'.faults = 0 => count.faults = 0  BY <2>2, FaultCounts DEF HostOK
  <2> QED  BY <2>1, <2>3 DEF Owned, Flag
<1> QED  BY <1>2, <1>4, <1>5, <1>6, <1>7, <1>8 DEF Next

----------------------------------------------------------------------------
(* A recorded handoff. *)

\* A process at a step.
LEMMA AtStep ==
  ASSUME ProcsOK, NEW p \in Procs, Step(p)
  PROVE  /\ run[p] \in Memory /\ run[p].todo \in Seq(Steps) /\ run[p].todo # <<>>
         /\ ProcOK(run[p], why, net) /\ m(p) = run[p]
         /\ ~SaveStep(p) => Head(run[p].todo) \notin {"save_held", "save_off", "save_failed"}
<1>1. run[p] \in Memory /\ m(p) = run[p] /\ run[p].todo \in Seq(Steps) /\ ProcOK(run[p], why, net)
  BY DEF ProcsOK, m, Memory
<1>2. run[p].todo # <<>>
  BY <1>1 DEF Step, At, ReadStep, ConfStep, RegisterStep, KeepRegistryStep, FileStep, FlushStep, FillStep, LiftStep,
              ReloadStep, SaveStep, LogStep, InsertStep, JudgeStep, PrepareStep, DockerRunStep
<1>3. ~SaveStep(p) => Head(run[p].todo) \notin {"save_held", "save_off", "save_failed"}
  <2>1. \A f \in Families : {Flush[f], Fill[f], Lift[f]} \cap {"save_held", "save_off", "save_failed"} = {}  BY NetNames
  <2> QED
    BY <1>1, <2>1 DEF Step, At, ReadStep, ConfStep, RegisterStep, KeepRegistryStep, FileStep, FlushStep, FillStep,
                      LiftStep, ReloadStep, LogStep, InsertStep, JudgeStep, PrepareStep, DockerRunStep, Logs
<1> QED  BY <1>1, <1>2, <1>3

\* apply_boot records what it did.
LEMMA AppliesAndSaves ==
  ASSUME NEW b \in Body
  PROVE  /\ Labels(apply_boot(b)) \cap Saves # {}
         /\ "log_held" \in Labels(apply_boot(b)) => \A f \in Families : Fill[f] \in Labels(apply_boot(b))
<1>1. CASE "hold" \in mechanisms_active(b)
  <2>1. Labels(apply_boot(b)) = {"files_held", "flush_v4", "fill_v4", "flush_v6", "fill_v6", "reload", "save_held", "log_held"}
    BY <1>1, HeldScript
  <2> QED  BY <2>1, NetNames DEF Saves
<1>2. CASE "hold" \notin mechanisms_active(b)
  <2>1. Labels(apply_boot(b)) = {"lift_v4", "lift_v6", "profile_allow", "save_off", "files_gated", "log_off"}  BY <1>2, OffScript
  <2> QED  BY <2>1 DEF Saves
<1> QED  BY <1>1, <1>2

\* The hold unit's command never looks for enforce-ready.
LEMMA BootDoesNotJudge ==
  ASSUME NEW mem, NEW y, NEW n, ProcOK(mem, y, n), mem.todo # <<>>, mem.cmd = "apply-boot"
  PROVE  Head(mem.todo) # "judge"
<1>1. mem.todo \in Seq(Steps) /\ ScriptOK(mem.todo)  BY DEF ProcOK, MemOK, Memory
<1>2. mem.todo[Len(mem.todo)] \in Ends  BY DEF ProcOK, MemOK
<1> QED  BY <1>1, <1>2, ProbeShape DEF Ends

LEMMA StepHandsOff ==
  ASSUME TypeOK, ProcsOK, HostOK, DiskOK, Handoff, NEW p \in Procs, Step(p)
  PROVE  Handoff'
<1> SUFFICES ASSUME hold'.reason = "enforce-ready", "ready" \notin why'
             PROVE  /\ svc'["hold"] # "active"
                    /\ run'["systemd"].cmd = "apply-boot" => Labels(run'["systemd"].todo) \cap Saves # {}
  BY DEF Handoff
<1>1. /\ run[p] \in Memory /\ run[p].todo \in Seq(Steps) /\ run[p].todo # <<>> /\ ProcOK(run[p], why, net)
      /\ m(p) = run[p]
      /\ ~SaveStep(p) => Head(run[p].todo) \notin {"save_held", "save_off", "save_failed"}
  BY AtStep
<1>2. Moves(p) /\ Effects(p)  BY StepMoves
<1>3. "ready" \notin why  BY <1>2 DEF Effects, Given
<1>4. ~SaveStep(p)
  <2> SUFFICES ASSUME SaveStep(p)  PROVE FALSE  OBVIOUS
  <2>1. Head(m(p).todo) = "save_released" /\ At(p, {"save_released"}) /\ m(p).cmd = "release"
    BY DEF SaveStep, State, At
  <2>2. "save_released" \in Labels(run[p].todo)  BY <2>1, Here
  <2> QED  BY <1>1, <1>3, <2>1, <2>2 DEF ProcOK, Entitled
<1>5. hold' = hold
  BY <1>4 DEF Step, ReadStep, ConfStep, RegisterStep, KeepRegistryStep, FileStep, FlushStep, FillStep, LiftStep,
              ReloadStep, LogStep, InsertStep, JudgeStep, PrepareStep, DockerRunStep, disk
<1>6. /\ svc["hold"] # "active"
      /\ run["systemd"].cmd = "apply-boot" => Labels(run["systemd"].todo) \cap Saves # {}
  BY <1>3, <1>5 DEF Handoff
<1>7. svc'["hold"] # "active"
  <2> SUFFICES ASSUME svc'["hold"] = "active"  PROVE FALSE  OBVIOUS
  <2>1. /\ p = "systemd" /\ run[p].cmd = "apply-boot" /\ Labels(run[p].todo) = {Head(run[p].todo)}
        /\ Head(run[p].todo) \in {"log_held", "log_off"}
    BY <1>1, <1>2, <1>6, Activates
  <2> QED  BY <1>6, <2>1 DEF Saves
<1>8. ASSUME run'["systemd"].cmd = "apply-boot"  PROVE Labels(run'["systemd"].todo) \cap Saves # {}
  <2>1. CASE p # "systemd"
    <3>1. run'["systemd"] = run["systemd"]  BY <1>2, <2>1, OthersWait DEF Procs
    <3> QED  BY <1>6, <1>8, <3>1
  <2>2. CASE p = "systemd"
    <3>1. run'[p].cmd # "none"  BY <1>8, <2>2
    <3>2. run'[p] # Idle  BY <3>1 DEF Idle
    <3>3. CASE /\ run'[p].cmd = run[p].cmd /\ run'[p].todo = Tail(run[p].todo)
               /\ Head(run[p].todo) \notin {"load", "judge"}
      <4>1. Labels(run[p].todo) = {Head(run[p].todo)} \cup Labels(run'[p].todo)  BY <1>1, <3>3, TailLabels
      <4>2. Head(run[p].todo) \notin Saves  BY <1>1, <1>4, <3>3 DEF Saves
      <4> QED  BY <1>6, <1>8, <2>2, <3>3, <4>1, <4>2
    <3>4. CASE Head(run[p].todo) = "load" /\ \E b \in Body : run'[p].todo = apply_boot(b)
      BY <2>2, <3>4, AppliesAndSaves
    <3>5. CASE run'[p].todo = Failed
      <4>1. Labels(Failed) = {"save_failed", "log_failed"}  BY FailedScript DEF Failed
      <4> QED  BY <2>2, <3>5, <4>1 DEF Saves
    <3>6. CASE run'[p].cmd = run[p].cmd /\ Head(run[p].todo) = "judge"
      BY <1>1, <1>8, <2>2, <3>6, BootDoesNotJudge
    <3> QED  BY <1>1, <1>2, <3>2, <3>3, <3>4, <3>5, <3>6, Rest
  <2> QED  BY <2>1, <2>2
<1> QED  BY <1>7, <1>8

\* What the actions besides the steps do to the units and the processes.
LEMMA Elsewhere ==
  ASSUME ProcsOK, HostOK, [Next]_vars, ~\E p \in Procs : Step(p)
  PROVE  \/ Reboot
         \/ \E p \in Procs, c \in AllCommands :
              /\ Begin(p, c) /\ (p = "systemd" => c \in {"apply-boot", "release"})
              /\ count'.kills = count.kills
         \/ \E p \in Procs : Kill(p)
         \/ /\ UNCHANGED <<run, hold, net, audit, why>> /\ (count'.kills = 0 => count.kills = 0)
            /\ svc'["hold"] = svc["hold"]
<1>1. count \in Counts  BY DEF HostOK
<1>2. ASSUME NEW c \in Commands, OperatorRuns(c)
      PROVE  c \in AllCommands /\ "operator" \in Procs /\ Begin("operator", c) /\ count'.kills = count.kills
  <2>1. count' = [count EXCEPT !.commands = @ + 1]  BY <1>2 DEF OperatorRuns
  <2>2. count'.kills = count.kills  BY <1>1, <2>1 DEF Counts
  <2> QED  BY <1>2, <2>2, ConstantsAssumption DEF OperatorRuns, Procs
<1>3. CASE StartHoldUnit \/ (StartReadyUnit /\ Begin("systemd", "release"))
  <2>1. "systemd" \in Procs /\ (Begin("systemd", "apply-boot") \/ Begin("systemd", "release"))
    BY <1>3 DEF StartHoldUnit, Procs
  <2>2. count' = count  BY <1>3 DEF StartHoldUnit, StartReadyUnit, Steady
  <2>3. "apply-boot" \in AllCommands /\ "release" \in AllCommands  BY DEF AllCommands
  <2> QED  BY <2>1, <2>2, <2>3
<1>4. CASE \/ StartLoaderUnit \/ (StartReadyUnit /\ ~Begin("systemd", "release")) \/ EngineAttaches \/ EngineExits
           \/ (\E w \in Workloads : StartWorkload(w)) \/ UNCHANGED vars
  <2>1. UNCHANGED <<run, hold, net, audit, why>>
    BY <1>4 DEF StartLoaderUnit, StartReadyUnit, EngineAttaches, EngineExits, StartWorkload, disk, kernel, vars
  <2>2. count' = count \/ Fault("engine")
    BY <1>4 DEF StartLoaderUnit, StartReadyUnit, EngineAttaches, EngineExits, StartWorkload, vars
  <2>3. count'.kills = 0 => count.kills = 0  BY <1>1, <2>2, FaultCounts
  <2>4. \/ svc' = svc \/ svc' = [svc EXCEPT !["ready"] = "failed"]
        \/ svc' = [svc EXCEPT !["loader"] = "active"] \/ svc' = [svc EXCEPT !["loader"] = "failed"]
    BY <1>4 DEF StartLoaderUnit, StartReadyUnit, EngineAttaches, EngineExits, StartWorkload, vars
  <2>5. svc'["hold"] = svc["hold"]  BY <2>4 DEF ProcsOK, UnitStates, Units
  <2> QED  BY <2>1, <2>3, <2>5
<1>5. CASE Reboot \/ \E p \in Procs : Kill(p)  BY <1>5
<1>6. \/ \E c \in Commands : OperatorRuns(c)
      \/ StartHoldUnit \/ (StartReadyUnit /\ Begin("systemd", "release"))
      \/ StartLoaderUnit \/ (StartReadyUnit /\ ~Begin("systemd", "release")) \/ EngineAttaches \/ EngineExits
      \/ (\E w \in Workloads : StartWorkload(w)) \/ UNCHANGED vars
      \/ Reboot \/ \E p \in Procs : Kill(p)
  BY DEF Next
<1>7. CASE \E c \in Commands : OperatorRuns(c)  BY <1>2, <1>7 DEF Procs
<1> QED  BY <1>3, <1>4, <1>5, <1>6, <1>7

\* A killed process leaves the hold unit as it was, or failed.
LEMMA Killed ==
  ASSUME ProcsOK, NEW p \in Procs, Kill(p)
  PROVE  /\ run'[p] = Idle /\ \A q \in Procs \ {p} : run'[q] = run[q]
         /\ svc'["hold"] = "active" => svc["hold"] = "active"
<1>1. Exit(p, FALSE)  BY DEF Kill
<1> QED  BY <1>1 DEF Exit, ProcsOK, UnitStates, Units

LEMMA HandoffKept ==
  ASSUME TypeOK, ProcsOK, HostOK, DiskOK, Handoff, [Next]_vars
  PROVE  Handoff'
<1>1. ASSUME NEW p \in Procs, Step(p)  PROVE Handoff'  BY <1>1, StepHandsOff
<1>2. CASE Reboot
  <2>1. svc'["hold"] = "inactive" /\ run'["systemd"] = Idle  BY <1>2 DEF Reboot, Units, Procs
  <2> QED  BY <2>1 DEF Handoff, Idle
<1>3. ASSUME NEW p \in Procs, NEW c \in AllCommands, Begin(p, c)
      PROVE  Handoff'
  <2>1. /\ run'[p].cmd = c /\ run'[p].todo = Script(c, conf) /\ (\A q \in Procs \ {p} : run'[q] = run[q])
        /\ hold' = hold /\ svc' = svc /\ why \subseteq why'
    BY <1>3, Begins
  <2>2. c = "apply-boot" => Labels(Script(c, conf)) \cap Saves # {}  BY BeginScript DEF Saves
  <2>3. CASE p = "systemd"  BY <2>1, <2>2, <2>3 DEF Handoff
  <2>4. CASE p # "systemd"
    <3>1. run'["systemd"] = run["systemd"]  BY <2>1, <2>4 DEF Procs
    <3> QED  BY <2>1, <3>1 DEF Handoff
  <2> QED  BY <2>3, <2>4
<1>4. ASSUME NEW p \in Procs, Kill(p)  PROVE Handoff'
  <2>1. /\ run'[p] = Idle /\ (\A q \in Procs \ {p} : run'[q] = run[q])
        /\ (svc'["hold"] = "active" => svc["hold"] = "active")
    BY <1>4, Killed
  <2>2. hold' = hold /\ why' = why  BY <1>4 DEF Kill
  <2>3. run'["systemd"] = Idle \/ run'["systemd"] = run["systemd"]  BY <2>1 DEF Procs
  <2> QED  BY <2>1, <2>2, <2>3 DEF Handoff, Idle
<1>5. CASE UNCHANGED <<run, hold, net, audit, why>> /\ svc'["hold"] = svc["hold"]  BY <1>5 DEF Handoff
<1> QED  BY <1>1, <1>2, <1>3, <1>4, <1>5, Elsewhere

----------------------------------------------------------------------------
(* An open chain is disclosed. *)

\* What there is to know of the chain of family f.
Known(f) == net[f] = "drop" \/ audit \cap Disclosing # {} \/ \E p \in Procs : Pending(run[p].todo, f)

\* A step does not make the hold unit claim a chain it has not filled.
LEMMA StepHoldsUp ==
  ASSUME ProcsOK, HostOK, DiskOK, NEW p \in Procs, Step(p), NEW f \in Families, HeldUp(f)'
  PROVE  HeldUp(f) \/ net'[f] = "drop" \/ audit' \cap Disclosing # {}
<1>1. run[p] \in Memory /\ run[p].todo \in Seq(Steps) /\ run[p].todo # <<>> /\ ProcOK(run[p], why, net)
  BY AtStep
<1>2. Moves(p) /\ Effects(p)  BY StepMoves
<1>3. CASE svc'["hold"] = "active" /\ svc["hold"] # "active"
  <2>1. /\ p = "systemd" /\ run[p].cmd = "apply-boot" /\ Labels(run[p].todo) = {Head(run[p].todo)}
        /\ Head(run[p].todo) \in {"log_held", "log_off"}
    BY <1>1, <1>2, <1>3, Activates
  <2>2. CASE Head(run[p].todo) = "log_held"  BY <2>1, <2>2, NetNames DEF HeldUp
  <2>3. CASE Head(run[p].todo) = "log_off"
    <3>1. "log_off" \in audit'  BY <1>2, <2>3 DEF Effects, Logs
    <3> QED  BY <3>1 DEF Disclosing
  <2> QED  BY <2>1, <2>2, <2>3
<1>4. CASE svc["hold"] = "active"  BY <1>4 DEF HeldUp
<1>5. CASE svc'["hold"] # "active"
  <2>1. /\ run'["systemd"].cmd = "apply-boot"
        /\ "log_held" \in Labels(run'["systemd"].todo) /\ Fill[f] \notin Labels(run'["systemd"].todo)
    BY <1>5 DEF HeldUp
  <2>2. CASE p # "systemd"
    <3>1. run'["systemd"] = run["systemd"]  BY <1>2, <2>2, OthersWait DEF Procs
    <3> QED  BY <2>1, <3>1 DEF HeldUp
  <2>3. CASE p = "systemd"
    <3>1. run'[p] # Idle  BY <2>1, <2>3 DEF Idle
    <3>2. CASE /\ run'[p].cmd = run[p].cmd /\ run'[p].todo = Tail(run[p].todo)
               /\ \A g \in Families : Head(run[p].todo) = Fill[g] => net'[g] = "drop"
      <4>1. Labels(run[p].todo) = {Head(run[p].todo)} \cup Labels(run'[p].todo)  BY <1>1, <3>2, TailLabels
      <4>2. CASE Head(run[p].todo) = Fill[f]  BY <3>2, <4>2
      <4>3. CASE Head(run[p].todo) # Fill[f]  BY <2>1, <2>3, <3>2, <4>1, <4>3 DEF HeldUp
      <4> QED  BY <4>2, <4>3
    <3>3. CASE \E b \in Body : run'[p].todo = apply_boot(b)  BY <2>1, <2>3, <3>3, AppliesAndSaves
    <3>4. CASE run'[p].todo = Failed
      <4>1. Labels(Failed) = {"save_failed", "log_failed"}  BY FailedScript DEF Failed
      <4> QED  BY <2>1, <2>3, <3>4, <4>1
    <3>5. CASE run'[p].cmd = run[p].cmd /\ Head(run[p].todo) = "judge"
      BY <1>1, <2>1, <2>3, <3>5, BootDoesNotJudge
    <3> QED  BY <1>1, <1>2, <3>1, <3>2, <3>3, <3>4, <3>5, Rest
  <2> QED  BY <2>2, <2>3
<1> QED  BY <1>3, <1>4, <1>5

\* A failed command discloses its failure.
LEMMA FailedPends ==
  ASSUME NEW f
  PROVE  Pending(Failed, f)
<1>1. /\ Failed # <<>> /\ Failed[Len(Failed)] = "log_failed" /\ Labels(Failed) = {"save_failed", "log_failed"}
  BY FailedScript DEF Failed
<1> QED  BY <1>1 DEF Pending, Turns, Disclosing

\* A process that has emptied or lifted a chain has its filling or a line of the log ahead.
LEMMA OpensAndPends ==
  ASSUME NEW s \in Seq(Steps), s # <<>>, ScriptOK(s), NEW f \in Families, Head(s) \in {Flush[f], Lift[f]}
  PROVE  Pending(Tail(s), f) /\ Len(s) # 1
<1>1. /\ Tail(s) \in Seq(Steps) /\ Len(Tail(s)) = Len(s) - 1 /\ Len(s) \in Nat \ {0}
      /\ Labels(s) = {Head(s)} \cup Labels(Tail(s)) /\ Head(s) = s[1]
      /\ \A i \in 1..Len(Tail(s)) : Tail(s)[i] = s[i + 1]
      /\ Len(s) = 1 => s[Len(s)] = Head(s)
      /\ Len(s) # 1 => Tail(s) # <<>> /\ Tail(s)[Len(Tail(s))] = s[Len(s)]
  BY TailLabels
<1>2. Head(s) \in NetLabels  BY DEF NetLabels
<1>3. Labels(Tail(s)) \cap Turns = {}
  <2>1. Labels(s) \cap Turns = {}  BY <1>2, NoTurn
  <2> QED  BY <1>1, <2>1
<1>4. PICK i \in 1..Len(s) : i = 1  BY <1>1
<1>5. /\ s[i] = Flush[f] => i < Len(s) /\ s[i + 1] = Fill[f]
      /\ s[i] = Lift[f] => s[Len(s)] \in Disclosing
  BY DEF ScriptOK
<1>6. s[i] = Head(s)  BY <1>1, <1>4
<1>7. CASE Head(s) = Flush[f]
  <2>1. 1 < Len(s) /\ s[1 + 1] = Fill[f]  BY <1>4, <1>7, <1>5, <1>6
  <2>2. Len(s) # 1 /\ 1 \in 1..Len(Tail(s))  BY <1>1, <2>1
  <2>3. Tail(s)[1] = Fill[f]  BY <1>1, <2>1, <2>2
  <2>4. Fill[f] \in Labels(Tail(s))  BY <2>2, <2>3 DEF Labels
  <2> QED  BY <1>1, <1>3, <2>2, <2>4 DEF Pending
<1>8. CASE Head(s) = Lift[f]
  <2>1. s[Len(s)] \in Disclosing  BY <1>8, <1>5, <1>6
  <2>2. Lift[f] \notin Disclosing  BY NetNames DEF Disclosing
  <2>3. Len(s) # 1  BY <1>1, <1>8, <2>1, <2>2
  <2> QED  BY <1>1, <1>3, <2>1, <2>3 DEF Pending
<1> QED  BY <1>7, <1>8

\* A process that has a line of the log ahead writes it, or still has it ahead.
LEMMA PendsOn ==
  ASSUME ProcsOK, NEW p \in Procs, Moves(p), Effects(p), NEW f \in Families,
         run[p].todo \in Seq(Steps), run[p].todo # <<>>, Pending(run[p].todo, f)
  PROVE  net'[f] = "drop" \/ audit' \cap Disclosing # {} \/ Pending(run'[p].todo, f)
<1> DEFINE s == run[p].todo
<1>1. /\ Labels(s) = {Head(s)} \cup Labels(Tail(s))
      /\ Len(s) = 1 => Labels(s) = {Head(s)} /\ s[Len(s)] = Head(s)
      /\ Len(s) # 1 => Tail(s) # <<>> /\ Tail(s)[Len(Tail(s))] = s[Len(s)]
  BY TailLabels
<1>2. Labels(s) \cap Turns = {} /\ (s[Len(s)] \in Disclosing \/ Fill[f] \in Labels(s))  BY DEF Pending
<1>3. Head(s) \notin Turns  BY <1>1, <1>2
<1>4. ASSUME Len(s) = 1, Head(s) = Fill[f] => net'[f] = "drop"
      PROVE  net'[f] = "drop" \/ audit' \cap Disclosing # {}
  <2>1. CASE Head(s) \in Disclosing
    <3>1. Head(s) \in audit'  BY <2>1 DEF Effects, Disclosing, Logs
    <3> QED  BY <2>1, <3>1
  <2>2. CASE Head(s) = Fill[f]  BY <1>4, <2>2
  <2> QED  BY <1>1, <1>2, <1>4, <2>1, <2>2
<1>5. CASE Len(s) = 1 /\ Proceeds(p)  BY <1>4, <1>5 DEF Proceeds
<1>6. CASE run'[p].todo = Tail(s) /\ \A g \in Families : Head(s) = Fill[g] => net'[g] = "drop"
  <2>1. CASE Len(s) = 1  BY <1>4, <1>6, <2>1
  <2>2. CASE Len(s) # 1 /\ Head(s) # Fill[f]
    <3>1. Labels(Tail(s)) \cap Turns = {}  BY <1>1, <1>2
    <3>2. Tail(s)[Len(Tail(s))] \in Disclosing \/ Fill[f] \in Labels(Tail(s))  BY <1>1, <1>2, <2>2
    <3> QED  BY <1>1, <1>6, <2>2, <3>1, <3>2 DEF Pending
  <2> QED  BY <1>6, <2>1, <2>2
<1>7. CASE run'[p].todo = Failed  BY <1>7, FailedPends
<1>8. "load" \in Turns /\ "judge" \in Turns  BY DEF Turns
<1>9. ~Stops(p)  BY <1>3 DEF Stops
<1> QED  BY <1>3, <1>5, <1>6, <1>7, <1>8, <1>9, Rest

LEMMA StepDiscloses ==
  ASSUME ProcsOK, HostOK, DiskOK, NEW p \in Procs, Step(p), NEW f \in Families, Known(f)
  PROVE  Known(f)'
<1>1. /\ run[p] \in Memory /\ run[p].todo \in Seq(Steps) /\ run[p].todo # <<>> /\ ProcOK(run[p], why, net)
      /\ m(p) = run[p]
  BY AtStep
<1>2. Moves(p) /\ Effects(p)  BY StepMoves
<1>3. CASE net[f] = "drop"
  <2>1. CASE net'[f] = "drop"  BY <2>1 DEF Known
  <2>2. CASE net'[f] # "drop"
    <3>1. Head(run[p].todo) \in {Flush[f], Lift[f]} /\ Proceeds(p)  BY <1>2, <1>3, <2>2 DEF Effects
    <3>2. Pending(Tail(run[p].todo), f) /\ Len(run[p].todo) # 1
      <4>1. ScriptOK(run[p].todo)  BY <1>1 DEF ProcOK, MemOK
      <4> QED  BY <1>1, <3>1, <4>1, OpensAndPends
    <3>3. run'[p].todo = Tail(run[p].todo)
      <4>1. PICK mem : mem = [run[p] EXCEPT !.todo = Tail(@)] /\ run' = [run EXCEPT ![p] = mem]
        BY <1>1, <3>1, <3>2 DEF Proceeds, Proceed, Continue
      <4> QED  BY <1>1, <4>1 DEF Memory, ProcsOK
    <3> QED  BY <3>2, <3>3 DEF Known
  <2> QED  BY <2>1, <2>2
<1>4. CASE audit \cap Disclosing # {}
  <2>1. audit \subseteq audit'  BY <1>2 DEF Effects
  <2> QED  BY <1>4, <2>1 DEF Known
<1>5. ASSUME NEW q \in Procs, Pending(run[q].todo, f)  PROVE Known(f)'
  <2>1. CASE q = p  BY <1>1, <1>2, <1>5, <2>1, PendsOn DEF Known
  <2>2. CASE q # p
    <3>1. run'[q] = run[q]  BY <1>2, <2>2, OthersWait
    <3> QED  BY <1>5, <3>1 DEF Known
  <2> QED  BY <2>1, <2>2
<1> QED  BY <1>3, <1>4, <1>5 DEF Known

LEMMA DisclosedKept ==
  ASSUME ProcsOK, HostOK, DiskOK, Disclosed, [Next]_vars
  PROVE  Disclosed'
<1> SUFFICES ASSUME count'.kills = 0, NEW f \in Families, HeldUp(f)'
             PROVE  Known(f)'
  BY DEF Disclosed, Known
<1>1. count.kills = 0 => (HeldUp(f) => Known(f))  BY DEF Disclosed, Known
<1>2. ASSUME NEW p \in Procs, Step(p)  PROVE Known(f)'
  <2>1. count.kills = 0  BY <1>2, StepMoves DEF Effects
  <2>2. CASE HeldUp(f)  BY <1>1, <1>2, <2>1, <2>2, StepDiscloses
  <2>3. CASE ~HeldUp(f)  BY <1>2, <2>3, StepHoldsUp DEF Known
  <2> QED  BY <2>2, <2>3
<1>3. CASE Reboot
  <2>1. svc'["hold"] = "inactive" /\ run'["systemd"] = Idle  BY <1>3 DEF Reboot, Units, Procs
  <2> QED  BY <2>1 DEF HeldUp, Idle
<1>4. ASSUME NEW p \in Procs, NEW c \in AllCommands, Begin(p, c), count'.kills = count.kills
      PROVE  Known(f)'
  <2>1. /\ run[p] = Idle /\ run'[p].cmd = c /\ run'[p].todo = Script(c, conf)
        /\ (\A q \in Procs \ {p} : run'[q] = run[q]) /\ svc' = svc /\ net' = net /\ audit' = audit
    BY <1>4, Begins
  <2>2. "log_held" \notin Labels(Script(c, conf))  BY BeginScript
  <2>3. HeldUp(f)
    <3>1. CASE p = "systemd"  BY <2>1, <2>2, <3>1 DEF HeldUp
    <3>2. CASE p # "systemd"
      <4>1. run'["systemd"] = run["systemd"]  BY <2>1, <3>2 DEF Procs
      <4> QED  BY <2>1, <4>1 DEF HeldUp
    <3> QED  BY <3>1, <3>2
  <2>4. Known(f)  BY <1>1, <1>4, <2>3
  <2>5. ~Pending(run[p].todo, f)  BY <2>1 DEF Pending, Idle
  <2> QED  BY <2>1, <2>4, <2>5 DEF Known
<1>5. ASSUME NEW p \in Procs, Kill(p)  PROVE FALSE
  <2>1. Fault("kill") /\ count \in Counts  BY <1>5 DEF Kill, HostOK
  <2> QED  BY <2>1, FaultCounts
<1>6. CASE UNCHANGED <<run, hold, net, audit, why>> /\ (count'.kills = 0 => count.kills = 0) /\ svc'["hold"] = svc["hold"]
  <2>1. HeldUp(f)  BY <1>6 DEF HeldUp
  <2>2. Known(f)  BY <1>1, <1>6, <2>1
  <2> QED  BY <1>6, <2>2 DEF Known
<1> QED  BY <1>2, <1>3, <1>4, <1>5, <1>6, Elsewhere

----------------------------------------------------------------------------
(* The theorems. *)

LEMMA Parts ==
  IInv <=> /\ HostOK /\ ProcsOK /\ DiskOK
           /\ Guarded /\ Owned /\ Handoff /\ Disclosed
<1>1. IInv => TypeOK /\ count \in Counts /\ why \subseteq Grounds  BY DEF IInv, TypeOK
<1>2. HostOK /\ ProcsOK /\ DiskOK => TypeOK /\ count \in Counts
  <2>1. DiskOK => /\ conf \in Conf /\ gate \in [Workloads -> Gates] /\ view \in [Workloads -> Gates]
                  /\ why \subseteq Grounds
    BY DEF DiskOK, FilesOK
  <2> QED  BY <2>1, TypeParts DEF ProcsOK
<1>3. IInv => HostOK /\ ProcsOK /\ DiskOK
  <2>1. IInv => HostOK /\ run \in [Procs -> Memory] /\ svc \in UnitStates /\ conf \in Conf
                /\ gate \in [Workloads -> Gates] /\ view \in [Workloads -> Gates] /\ why \subseteq Grounds
    BY <1>1, TypeParts
  <2> QED  BY <2>1 DEF IInv, ProcsOK, DiskOK, FilesOK
<1>4. HostOK /\ ProcsOK /\ DiskOK /\ Guarded /\ Owned /\ Handoff /\ Disclosed => IInv
  BY <1>2 DEF IInv, ProcsOK, DiskOK, FilesOK
<1>5. IInv => Guarded /\ Owned /\ Handoff /\ Disclosed  BY DEF IInv
<1> QED  BY <1>3, <1>4, <1>5

LEMMA InitFiles ==
  ASSUME Init
  PROVE  DiskOK
<1>1. conf \in Conf
  <2>1. default_policy \in Body  BY DEF default_policy, Body
  <2>2. Policies \subseteq Body  BY ConstantsAssumption DEF Body
  <2> QED  BY <2>1, <2>2 DEF Init, Conf
<1>2. why = PolicyGrounds(conf) /\ PolicyGrounds(conf) \subseteq Grounds  BY DEF Init, PolicyGrounds, Grounds
<1>3. /\ load_policy(conf) \in Body
      /\ "hold" \in mechanisms_active(load_policy(conf)) \/ why \cap Lasting # {}
  <2>1. PolicyGrounds(conf) \subseteq why  BY <1>2
  <2> QED  BY <1>1, <2>1, TrustedOff DEF Lasting
<1>4. ASSUME NEW x, x = [w \in Workloads |-> NoGate]  PROVE FilesOK(x, why)
  <2>1. FileOK(NoGate, why)  BY DEF FileOK, NoGate, Gates
  <2>2. x = [w \in Workloads |-> x[w]] /\ \A w \in Workloads : x[w] = NoGate  BY <1>4
  <2> QED  BY <2>1, <2>2, FilesAreFiles
<1>5. FilesOK(gate, why)
  <2>1. CASE Fresh  BY <1>4, <2>1 DEF Fresh
  <2>2. CASE Installed
    <3> DEFINE b == load_policy(conf)
               d == write_workload_dropins([v \in Workloads |-> NoGate], reg, b, TRUE, TRUE)
    <3>1. FilesOK(d, why)
      <4>1. FilesOK([v \in Workloads |-> NoGate], why)  BY <1>4
      <4> QED  BY <1>3, <4>1, DropinFiles
    <3>2. gate = [w \in Workloads |-> IF Kind[w] = "systemd" THEN d[w] ELSE Gate(mechanisms_active(b), FALSE)]
      BY <2>2 DEF Installed
    <3>3. FileOK(Gate(mechanisms_active(b), FALSE), why)  BY <1>3, GateFiles
    <3> HIDE DEF b, d
    <3>4. \A w \in Workloads : FileOK(d[w], why)  BY <3>1 DEF FilesOK, FileOK, Gated
    <3>5. gate = [w \in Workloads |-> gate[w]] /\ \A w \in Workloads : FileOK(gate[w], why)  BY <3>2, <3>3, <3>4
    <3> QED  BY <3>5, FilesAreFiles
  <2> QED  BY <2>1, <2>2 DEF Init
<1>6. view = gate  BY DEF Init
<1> QED  BY <1>1, <1>2, <1>5, <1>6 DEF DiskOK

LEMMA InitInv ==
  ASSUME Init
  PROVE  IInv
<1>1. HostOK
  <2>1. /\ hold = [network_hold |-> FALSE, released |-> FALSE, reason |-> "none"]
        /\ net = [f \in Families |-> "none"] /\ exc = 0 /\ profile = [file |-> "none", loaded |-> "none"]
        /\ pe = "down" /\ live = [w \in Workloads |-> "no"] /\ audit = {}
        /\ count = [commands |-> 0, boots |-> 0, faults |-> 0, kills |-> 0]
    BY DEF Init
  <2>2. reg \in Registry /\ tree \in BOOLEAN /\ prep \in BOOLEAN
    <3>1. \/ reg = [ok |-> TRUE, row |-> [w \in Workloads |-> "none"]] /\ tree = FALSE /\ prep = FALSE
          \/ reg = [ok |-> TRUE, row |-> [w \in Workloads |-> "enrolled"]] /\ tree = TRUE /\ prep = TRUE
      BY DEF Init, Fresh, Installed
    <3>2. /\ [w \in Workloads |-> "none"] \in [Workloads -> {"none", "enrolled", "observed"}]
          /\ [w \in Workloads |-> "enrolled"] \in [Workloads -> {"none", "enrolled", "observed"}]
      OBVIOUS
    <3>3. PICK row \in [Workloads -> {"none", "enrolled", "observed"}] : reg = [ok |-> TRUE, row |-> row]
      BY <3>1, <3>2
    <3>4. reg \in Registry  BY <3>3 DEF Registry
    <3> QED  BY <3>1, <3>4
  <2>3. hold \in HoldState  BY <2>1 DEF HoldState, Reasons
  <2>4. count \in Counts  BY <2>1 DEF Counts
  <2> QED  BY <2>1, <2>2, <2>3, <2>4 DEF HostOK, ChainStates
<1>2. ProcsOK
  <2>1. run = [p \in Procs |-> Idle] /\ svc = [u \in Units |-> "inactive"]  BY DEF Init
  <2>2. run \in [Procs -> Memory] /\ svc \in UnitStates /\ \A p \in Procs : ProcOK(run[p], why, net)
    BY <2>1, IdleOK DEF UnitStates
  <2>3. run["systemd"].cmd = "none"  BY <2>1 DEF Procs, Idle
  <2> QED  BY <2>2, <2>3 DEF ProcsOK
<1>3. DiskOK  BY InitFiles
<1>4. /\ svc["hold"] = "inactive" /\ live = [w \in Workloads |-> "no"] /\ exc = 0 /\ hold.reason = "none"
      /\ run["systemd"] = Idle /\ run["operator"] = Idle
  BY DEF Init, Units, Procs
<1>5. Guarded  BY <1>4 DEF Guarded
<1>6. Owned  BY <1>4 DEF Owned, Flag, Idle
<1>7. Handoff  BY <1>4 DEF Handoff
<1>8. Disclosed  BY <1>4 DEF Disclosed, HeldUp, Idle
<1> QED  BY <1>1, <1>2, <1>3, <1>5, <1>6, <1>7, <1>8, Parts

\* The inductive invariant holds in every state, whatever commands interleave
\* (run_boot_hold and the functions of enroll.py), whatever fails and across reboots.
THEOREM Invariance == Spec => []IInv
<1>1. Init => IInv  BY InitInv
<1>2. IInv /\ [Next]_vars => IInv'
  <2> SUFFICES ASSUME IInv, [Next]_vars  PROVE IInv'  OBVIOUS
  <2>1. TypeOK /\ PolicyGrounds(conf) \subseteq why  BY DEF IInv
  <2>2. HostOK /\ ProcsOK /\ DiskOK /\ Guarded /\ Owned /\ Handoff /\ Disclosed  BY Parts
  <2>3. HostOK'  BY <2>2, HostKept
  <2>4. ProcsOK'  BY <2>1, <2>2, ProcsKept
  <2>5. DiskOK'  BY <2>1, <2>2, DiskKept
  <2>6. Guarded'  BY <2>1, <2>2, GuardKept
  <2>7. Owned'  BY <2>2, <2>3, OwnedKept
  <2>8. Handoff'  BY <2>1, <2>2, HandoffKept
  <2>9. Disclosed'  BY <2>2, DisclosedKept
  <2>10. (HostOK /\ ProcsOK /\ DiskOK /\ Guarded /\ Owned /\ Handoff /\ Disclosed)' => IInv'  BY Parts, PTL
  <2> QED  BY <2>3, <2>4, <2>5, <2>6, <2>7, <2>8, <2>9, <2>10
<1> QED  BY <1>1, <1>2, PTL DEF Spec

\* Every file, unit, chain and process keeps its type.
THEOREM TypeCorrect == Spec => []TypeOK
<1>1. IInv => TypeOK  BY DEF IInv
<1> QED  BY <1>1, Invariance, PTL

\* The boot hold refines its contract: apply_boot, release, break_glass, opt_out and
\* remove_hold, interleaved, failing or killed, open the packet hold behind a running
\* workload, and let one start without it, only on grounds.
THEOREM KeepsContract == Spec => ContractKept
<1>1. Init => Contract!Init  BY ContractInit
<1>2. IInv /\ IInv' /\ [Next]_vars => [Contract!Next]_(Contract!vars)
  <2> SUFFICES ASSUME IInv, IInv', [Next]_vars  PROVE [Contract!Next]_(Contract!vars)  OBVIOUS
  <2>1. TypeOK /\ HostOK /\ ProcsOK /\ DiskOK /\ Guarded  BY Parts DEF IInv
  <2>2. DiskOK' /\ Guarded'
    <3>1. DiskOK'  BY <2>1, DiskKept
    <3>2. Guarded'  BY <2>1, GuardKept
    <3> QED  BY <3>1, <3>2
  <2> QED  BY <2>1, <2>2, Implements
<1> QED  BY <1>1, <1>2, Invariance, PTL DEF Spec, ContractKept, Contract!Spec

\* Status reports a handoff to enforcement (status_body, save_hold_state) only when
\* release_allowed found enforce-ready in this boot.
THEOREM HandoffEarned == Spec => []HandoffIsEarned
<1>1. IInv => HandoffIsEarned
  <2> SUFFICES ASSUME IInv, Quiet, svc["hold"] = "active", status = "HANDOFF"  PROVE "ready" \in why
    BY DEF HandoffIsEarned
  <2>1. hold.reason = "enforce-ready"  BY DEF status
  <2>2. Handoff  BY DEF IInv
  <2> QED  BY <2>1, <2>2 DEF Handoff
<1> QED  BY <1>1, Invariance, PTL

\* Once the hold unit succeeded, a chain that does not drop has a line in the audit
\* log (append_audit), unless a command was killed in between.
THEOREM ReleasesAreLogged == Spec => []NoSilentRelease
<1>1. IInv => NoSilentRelease
  <2> SUFFICES ASSUME IInv, Quiet, count.kills = 0, svc["hold"] = "active", ~Blocked
               PROVE  audit \cap Disclosing # {}
    BY DEF NoSilentRelease, Disclosing
  <2>1. PICK f \in Families : net[f] # "drop"  BY DEF Blocked
  <2>2. \A p \in Procs : ~Pending(run[p].todo, f)
    <3>1. \A p \in Procs : run[p] = Idle  BY DEF IInv, ProcOK, MemOK, Quiet, m
    <3> QED  BY <3>1 DEF Pending, Idle
  <2>3. Disclosed /\ HeldUp(f)  BY DEF IInv, HeldUp
  <2> QED  BY <2>1, <2>2, <2>3 DEF Disclosed
<1> QED  BY <1>1, Invariance, PTL

\* Each deny check takes its own exception back (remove_probe_exception): at rest the
\* chain has none, unless an iptables call failed or a check was killed.
THEOREM ExceptionsAreRemoved == Spec => []NoExceptionLeft
<1>1. IInv => NoExceptionLeft
  <2> SUFFICES ASSUME IInv, Quiet, count.faults = 0  PROVE exc = 0  BY DEF NoExceptionLeft
  <2>1. \A p \in Procs : run[p] = Idle  BY DEF IInv, ProcOK, MemOK, Quiet, m
  <2>2. Flag("systemd") = 0 /\ Flag("operator") = 0  BY <2>1 DEF Flag, Idle, Procs
  <2>3. exc \in Nat /\ exc <= 0  BY <2>2 DEF IInv, TypeOK, Owned
  <2> QED  BY <2>3
<1> QED  BY <1>1, Invariance, PTL
=============================================================================
