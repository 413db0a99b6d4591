---------------------------- MODULE HoldContract ----------------------------
(***************************************************************************)
(* What the boot hold promises, without the files, units and packet rules  *)
(* that keep the promise: an enrolled workload runs behind the packet hold *)
(* unless somebody gave grounds to let it go.  Grounds are a passing       *)
(* enforce-ready check, a root operator's decision, or a trusted policy    *)
(* that turns the hold off.  A reboot stops every workload.                *)
(*                                                                         *)
(* One exception is part of what the code does: a command that puts up a   *)
(* hold which is already up empties its chains before it fills them again  *)
(* (net.py: -F, then -A DROP).  While a chain is empty the packets of      *)
(* running workloads pass without any grounds, and they go on passing if   *)
(* the command stops there.  The promise binds again as soon as the chains *)
(* are filled, and they may not be taken down in between without grounds.  *)
(***************************************************************************)
CONSTANTS Workloads, Grounds

VARIABLES started,    \* the enrolled workloads that run
          blocked,    \* their packets are dropped
          rewriting,  \* the hold is up, and a chain of it is empty to be filled again
          grounds     \* why they may be let go

vars == <<started, blocked, rewriting, grounds>>

Init == started = {} /\ blocked = FALSE /\ rewriting = FALSE /\ grounds \subseteq Grounds

Block == blocked' = TRUE /\ rewriting' = FALSE /\ UNCHANGED <<started, grounds>>

Rewrite == blocked' = FALSE /\ rewriting' = TRUE /\ UNCHANGED <<started, grounds>>

\* With a workload behind it, the hold opens only on grounds, old or new.
Open ==
  /\ blocked' = FALSE /\ rewriting' = FALSE
  /\ grounds \subseteq grounds' /\ grounds' \subseteq Grounds
  /\ started # {} => grounds' # {}
  /\ UNCHANGED started

Decide ==
  /\ grounds \subseteq grounds' /\ grounds' \subseteq Grounds
  /\ UNCHANGED <<started, blocked, rewriting>>

Start(w) ==
  /\ blocked \/ rewriting \/ grounds # {}
  /\ started' = started \cup {w}
  /\ UNCHANGED <<blocked, rewriting, grounds>>

\* Grounds lapse only while they are not needed.
Lapse ==
  /\ grounds' \subseteq grounds
  /\ blocked \/ rewriting \/ grounds' # {}
  /\ UNCHANGED <<started, blocked, rewriting>>

Reboot ==
  /\ started' = {} /\ blocked' = FALSE /\ rewriting' = FALSE
  /\ grounds # {} \/ grounds' = {}

Next ==
  \/ Block \/ Rewrite \/ Open \/ Decide \/ Lapse \/ Reboot
  \/ \E w \in Workloads : Start(w)

Spec == Init /\ [][Next]_vars
=============================================================================
