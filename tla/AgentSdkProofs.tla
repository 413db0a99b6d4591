--------------------------- MODULE AgentSdkProofs ---------------------------
(***************************************************************************)
(* Proofs about the agent SDK, for every set of processes, threads and     *)
(* workers, every library they call and every bound: a request is recorded *)
(* once but for the pairs of Again, the run log is whole, a destination is *)
(* flagged once for a program.                                             *)
(*                                                                         *)
(* WorkerOK says what a worker may count on at each point of a call: that  *)
(* for each redirect it follows one frame of its stack at most has still   *)
(* to record, that a hook below an owning hook sees it in the context      *)
(* variable, which hooks may have recorded already, and that its own call  *)
(* is in the list once the outermost frame has recorded.  CountOK ties the *)
(* reference count to the open shields, so that the list is never cleared  *)
(* under an open shield.                                                   *)
(***************************************************************************)
EXTENDS AgentSdk, FiniteSetTheorems, WellFoundedInduction, TLAPS

Pcs == {"idle", "enter", "wire", "return", "append", "lock", "write", "journal", "dead"}
Results == {"none", "TypeError", "ok", "http_error", "network_error", "redirect", "cancelled"}
Frames == [lib : DOMAIN Hooks, hop : 0..MaxHops, hook : BOOLEAN, invoked : BOOLEAN, was : BOOLEAN, own : BOOLEAN, rec : BOOLEAN]
Conn == [made : BOOLEAN, bound : BOOLEAN, sent : BOOLEAN, pending : Calls \cup {NoOne}]
WorkerRec == [pc : Pcs, stack : Seq(Frames), n : 0..MaxCalls, hops : 0..MaxHops, host : Hosts \cup {NoOne}, outcome : Results,
              shields : 0..MaxShields, opened : 0..MaxShields, known : SUBSET Destinations, conn : Conn, own_run : BOOLEAN]
CallRec == [id : Calls, lib : DOMAIN Hooks, status : Results]
Mem == [depth : Nat, trace : Traces \cup {NoOne}, calls : SUBSET CallRec, life : {"new", "on", "gone"}]
LogRec == [calls : SUBSET CallRec, status : {rollup_status(c) : c \in SUBSET CallRec}]
Home == [runs : [Traces -> SUBSET LogRec], seen : SUBSET Destinations, lock : Workers \cup {NoOne},
         flagged : [Destinations -> Nat], lines : SUBSET Destinations]

WellTyped ==
  /\ sdk \in [Procs -> Mem] /\ worker \in [Workers -> WorkerRec] /\ ctx \in [Workers -> BOOLEAN]
  /\ home \in Home /\ owed \in [Procs -> SUBSET Calls]

-----------------------------------------------------------------------------
(* The inductive invariant.                                                *)

InCall(r) == r.pc \notin {"idle", "dead"}
Leaves == {"connect", "pycurl", "Popen", "os_system"}

\* No two frames of a stack have the same request to record.
Single(s) == \A i, j \in 1..Len(s) : s[i].rec /\ s[j].rec /\ s[i].hop = s[j].hop => i = j

Placed(r) ==
  /\ InCall(r) => /\ r.stack # <<>> /\ r.host \in Hosts /\ r.n \in 1..MaxCalls /\ Bottom(r.stack).hop = 0
                  /\ \A i \in 1..Len(r.stack) : r.stack[i].hop <= r.hops
  /\ ~InCall(r) => r.stack = <<>> /\ ~r.own_run
  /\ r.outcome = "cancelled" => r.pc = "return" /\ \A i \in 1..Len(r.stack) : ~r.stack[i].rec
  /\ r.pc = "dead" => r.shields = 0
  /\ r.shields <= r.opened

\* A frame that goes on with a record to make owns what is below it.
Owns(s, c) == \A i \in 1..Len(s) : s[i].rec /\ s[i].hop = s[1].hop
                                      => c \/ (i = 1 /\ (s[1].own \/ s[1].lib \in Leaves))

\* A hook that records first has recorded when it goes on; only hooks that
\* record first call one.
Prompt(r) ==
  /\ \A i \in 1..Len(r.stack) : r.stack[i].rec /\ r.stack[i].lib \in Early => i = 1 /\ r.pc = "append"
  /\ InCall(r) /\ r.stack[1].lib \in Early => \A i \in 1..Len(r.stack) : r.stack[i].lib \in Early

\* The libraries that have recorded a request.
Libs(calls, id) == {c.lib : c \in {d \in calls : d.id = id}}

\* The second library may record after the first one, or be on top of the stack
\* when the first one has recorded and the call goes on.
Later == {<<"asyncio_exec", "Popen">>, <<"putrequest", "create_connection">>, <<"putrequest", "connect">>}
Onward == {<<"asyncio_exec", "asyncio_exec">>, <<"putrequest", "putrequest">>,
           <<"putrequest", "create_connection">>}

\* The call is about to go further down.
Down(r) ==
  \/ r.pc = "enter"
  \/ r.pc \in {"append", "lock", "write", "journal"} /\ r.stack[1].lib \in Early /\ ~r.stack[1].invoked

\* What has still to be recorded is in the list only where Later allows it, and
\* a redirect that was not followed yet is not.
Unrecorded(r, w, m) ==
  /\ \A i \in 1..Len(r.stack) : r.stack[i].rec =>
       \A l \in Libs(m.calls, <<w, r.n, r.stack[i].hop>>) : <<l, r.stack[i].lib>> \in Later
  /\ Down(r) => \/ r.stack[1].lib \in Leaves
                \/ \A l \in Libs(m.calls, <<w, r.n, r.stack[1].hop>>) : <<l, r.stack[1].lib>> \in Onward
  /\ InCall(r) => \A j \in Nat : <<w, r.n, j>> \in Ids(m.calls) => j <= r.hops

\* A call of a run of its own is made under an open shield, and is in the list
\* once the outermost frame has recorded.
OwnRun(r, w, m) ==
  r.own_run =>
    /\ r.shields > 0 \/ (Process(w) \in Wrapped /\ m.life = "on")
    /\ LET last == Bottom(r.stack)
       IN last.lib \in Outer /\ in_scope(r.host) /\ ~last.rec /\ r.outcome # "cancelled"
            => <<w, r.n, 0>> \in Ids(m.calls)

\* Who notes a destination has the lock, and knows what was flagged.
DestOf(r, w) == <<ProgramOf[Process(w)], r.host>>
Noting(r, w, hm) ==
  /\ r.pc \in {"write", "journal"} => hm.lock = w /\ \A x \in Destinations : hm.flagged[x] > 0 => x \in r.known
  /\ r.pc = "write" => r.known = hm.seen
  /\ r.pc = "journal" => hm.seen = r.known \cup {DestOf(r, w)}

WorkerOK(r, w, c, m, hm) ==
  /\ Placed(r) /\ Single(r.stack) /\ (r.pc = "enter" => Owns(r.stack, c)) /\ Prompt(r)
  /\ Unrecorded(r, w, m) /\ OwnRun(r, w, m) /\ Noting(r, w, hm)

\* The shields that the workers of a process have open.
Open(p, wk) == {x \in Workers \X (1..MaxShields) : Process(x[1]) = p /\ x[2] <= wk[x[1]].shields}
Wrap(p, m) == IF p \in Wrapped /\ m.life = "on" THEN 1 ELSE 0
CountOK(p, wk, m) ==
  /\ m.depth = Cardinality(Open(p, wk)) + Wrap(p, m)
  /\ p \in Wrapped /\ m.life # "on" => Open(p, wk) = {}

\* The list holds calls that the workers of the process made.
Listed(p, wk, m) ==
  \A w \in Workers, k \in Nat, j \in Nat :
     <<w, k, j>> \in Ids(m.calls) => Process(w) = p /\ (k <= wk[w].n \/ m.life = "gone")

\* The calls of a worker in the list are among those it made.
Made(w, n, m) == \A k \in Nat, j \in Nat : <<w, k, j>> \in Ids(m.calls) => k <= n \/ m.life = "gone"

TracesOf(p) == {TraceOf[x] : x \in {w \in Workers : Process(w) = p} \cup ({p} \cap Wrapped)}
MemOK(p, m, o) ==
  /\ Once(m.calls) /\ o \subseteq Ids(m.calls)
  /\ m.depth > 0 \/ o # {} => m.trace \in TracesOf(p)

HomeOK(hm) ==
  /\ \A t \in Traces : \A l \in hm.runs[t] : Once(l.calls)
  /\ \A x \in Destinations : hm.flagged[x] <= IF x[2] \in Allowlist THEN 0 ELSE 1
  /\ \A x \in Destinations : hm.flagged[x] > 0 => x \in hm.seen
  /\ hm.lines \subseteq hm.seen

IInv ==
  /\ WellTyped
  /\ \A w \in Workers : WorkerOK(worker[w], w, ctx[w], sdk[Process(w)], home)
  /\ \A p \in Procs : CountOK(p, worker, sdk[p]) /\ Listed(p, worker, sdk[p]) /\ MemOK(p, sdk[p], owed[p])
  /\ HomeOK(home)

-----------------------------------------------------------------------------
(* What a step of one worker leaves to the others.                         *)

\* Another worker's calls stay in the list, and no record of them appears in it.
Spared(m1, m2, v) ==
  /\ \A k, j : Libs(m2.calls, <<v, k, j>>) \subseteq Libs(m1.calls, <<v, k, j>>)
  /\ m1.depth > 0 => Ids(m1.calls) \subseteq Ids(m2.calls)
  /\ m1.life \in {"on", "gone"} => m2.life = m1.life

\* What is under another worker's lock is left alone.
Locked(h1, h2, v) == h1.lock = v => h2.lock = v /\ h2.seen = h1.seen /\ h2.flagged = h1.flagged

LEMMA HooksAre ==
  DOMAIN Hooks = {"urlopen", "opener", "requests", "urllib3", "httpx", "aiohttp", "http_client", "putrequest",
                  "create_connection", "connect", "pycurl", "asyncio_exec", "Popen", "os_system"}
BY DEF Hooks

LEMMA LibsIds == \A calls, id : id \in Ids(calls) <=> Libs(calls, id) # {}
BY DEF Libs, Ids

LEMMA ProcessType == \A w \in Workers : Process(w) \in Procs
BY SdkAssumption DEF Process

LEMMA OpenFinite == \A p, wk : IsFiniteSet(Open(p, wk)) /\ Cardinality(Open(p, wk)) \in Nat
<1> TAKE p, wk
<1>1. IsFiniteSet(1..MaxShields)  BY FS_Interval, SdkAssumption
<1>2. IsFiniteSet(Workers \X (1..MaxShields))  BY <1>1, FS_Product, SdkAssumption
<1>3. Open(p, wk) \subseteq Workers \X (1..MaxShields)  BY DEF Open
<1> QED  BY <1>2, <1>3, FS_Subset, FS_CardinalityType

\* A process with an open shield, or with the process wrap, is installed.
LEMMA OpenInstalled ==
  ASSUME IInv, NEW w \in Workers,
         worker[w].shields > 0 \/ (Process(w) \in Wrapped /\ sdk[Process(w)].life = "on")
  PROVE  sdk[Process(w)].depth > 0
<1> DEFINE p == Process(w)
<1>1. p \in Procs  BY ProcessType
<1>2. CountOK(p, worker, sdk[p])  BY <1>1 DEF IInv
<1>3. Cardinality(Open(p, worker)) \in Nat /\ IsFiniteSet(Open(p, worker))  BY OpenFinite
<1>4. CASE worker[w].shields > 0
  <2>1. worker[w] \in WorkerRec  BY DEF IInv, WellTyped
  <2>2. worker[w].shields \in 0..MaxShields  BY <2>1 DEF WorkerRec
  <2>3. <<w, 1>> \in Open(p, worker)  BY <1>4, <2>2, SdkAssumption DEF Open
  <2>4. Cardinality(Open(p, worker)) # 0  BY <2>3, <1>3, FS_EmptySet
  <2> QED  BY <2>4, <1>2, <1>3 DEF CountOK, Wrap
<1>5. CASE p \in Wrapped /\ sdk[p].life = "on"
  BY <1>5, <1>2, <1>3 DEF CountOK, Wrap
<1> QED  BY <1>4, <1>5

\* A worker that does not move keeps what it counts on.
LEMMA OthersKeep ==
  ASSUME IInv, NEW v \in Workers, NEW m \in Mem, NEW hm \in Home,
         Spared(sdk[Process(v)], m, v), Locked(home, hm, v)
  PROVE  WorkerOK(worker[v], v, ctx[v], m, hm)
<1> DEFINE r == worker[v]
<1> DEFINE m1 == sdk[Process(v)]
<1>1. WorkerOK(r, v, ctx[v], m1, home) /\ r \in WorkerRec
  BY DEF IInv, WellTyped
<1>2. r.n \in Nat
  BY <1>1, SdkAssumption DEF WorkerRec
<1>3. Unrecorded(r, v, m)
  <2>1. \A k, j : Libs(m.calls, <<v, k, j>>) \subseteq Libs(m1.calls, <<v, k, j>>)  BY DEF Spared
  <2>2. \A k, j : <<v, k, j>> \in Ids(m.calls) => <<v, k, j>> \in Ids(m1.calls)  BY <2>1, LibsIds
  <2>3. Unrecorded(r, v, m1)  BY <1>1 DEF WorkerOK
  <2> HIDE DEF r, m1
  <2> QED  BY <2>1, <2>2, <2>3 DEF Unrecorded
<1>4. OwnRun(r, v, m)
  <2> SUFFICES ASSUME r.own_run PROVE OwnRun(r, v, m)  BY DEF OwnRun
  <2>1. r.shields > 0 \/ (Process(v) \in Wrapped /\ m1.life = "on")
    BY <1>1 DEF WorkerOK, OwnRun
  <2>2. m1.depth > 0
    BY <2>1, OpenInstalled
  <2>3. Ids(m1.calls) \subseteq Ids(m.calls)  BY <2>2 DEF Spared
  <2>4. m1.life = "on" => m.life = "on"  BY DEF Spared
  <2> QED  BY <1>1, <2>1, <2>3, <2>4 DEF WorkerOK, OwnRun
<1>5. Noting(r, v, hm)
  BY <1>1 DEF WorkerOK, Noting, Locked
<1> QED  BY <1>1, <1>3, <1>4, <1>5 DEF WorkerOK

\* The step of one worker.
LEMMA Counted ==
  ASSUME IInv, NEW w \in Workers, NEW r \in WorkerRec, NEW c \in BOOLEAN, NEW m \in Mem,
         NEW hm \in Home, NEW o \in SUBSET Calls,
         worker' = [worker EXCEPT ![w] = r], ctx' = [ctx EXCEPT ![w] = c],
         sdk' = [sdk EXCEPT ![Process(w)] = m], owed' = [owed EXCEPT ![Process(w)] = o], home' = hm,
         WorkerOK(r, w, c, m, hm), r.n >= worker[w].n, CountOK(Process(w), worker', m),
         \A v \in Workers \ {w} : Spared(sdk[Process(w)], m, v),
         \A v \in Workers \ {w} : Locked(home, hm, v),
         Made(w, r.n, m),
         MemOK(Process(w), m, o), HomeOK(hm)
  PROVE  IInv'
<1> DEFINE p == Process(w)
<1>p. p \in Procs  BY ProcessType
<1>t. WellTyped  BY DEF IInv
<1>1. WellTyped'
  BY <1>p, <1>t DEF WellTyped
<1>2. ASSUME NEW v \in Workers
      PROVE  WorkerOK(worker'[v], v, ctx'[v], sdk'[Process(v)], home')
  <2>1. CASE v = w
    BY <2>1, <1>p, <1>t DEF WellTyped
  <2>2. CASE v # w
    <3>1. worker'[v] = worker[v] /\ ctx'[v] = ctx[v]  BY <2>2, <1>t DEF WellTyped
    <3>2. Process(v) \in Procs  BY ProcessType
    <3>3. sdk'[Process(v)] \in Mem  BY <1>1, <3>2 DEF WellTyped
    <3>4. Spared(sdk[Process(v)], sdk'[Process(v)], v)
      <4>1. CASE Process(v) = p
        <5>1. sdk'[Process(v)] = m  BY <4>1, <1>p, <1>t DEF WellTyped
        <5> QED  BY <4>1, <5>1, <2>2
      <4>2. CASE Process(v) # p
        <5>1. sdk'[Process(v)] = sdk[Process(v)]  BY <4>2, <3>2, <1>p, <1>t DEF WellTyped
        <5> QED  BY <5>1 DEF Spared
      <4> QED  BY <4>1, <4>2
    <3>5. Locked(home, home', v)  BY <2>2
    <3> HIDE DEF p
    <3> QED  BY <3>1, <3>3, <3>4, <3>5, OthersKeep
  <2> QED  BY <2>1, <2>2
<1>3. ASSUME NEW q \in Procs PROVE CountOK(q, worker', sdk'[q])
  <2>1. CASE q = p
    BY <2>1, <1>p, <1>t DEF WellTyped
  <2>2. CASE q # p
    <3>1. \A v \in Workers : Process(v) = q => worker'[v] = worker[v]
      BY <2>2, <1>t DEF WellTyped
    <3>2. Open(q, worker') = Open(q, worker)
      BY <3>1 DEF Open
    <3>3. sdk'[q] = sdk[q]
      BY <2>2, <1>p, <1>t DEF WellTyped
    <3>4. CountOK(q, worker, sdk[q])  BY DEF IInv
    <3> QED  BY <3>2, <3>3, <3>4 DEF CountOK
  <2> QED  BY <2>1, <2>2
<1>4. ASSUME NEW q \in Procs PROVE Listed(q, worker', sdk'[q])
  <2> SUFFICES ASSUME NEW v \in Workers, NEW k \in Nat, NEW j \in Nat, <<v, k, j>> \in Ids(sdk'[q].calls)
               PROVE  Process(v) = q /\ (k <= worker'[v].n \/ sdk'[q].life = "gone")
    BY DEF Listed
  <2>1. Listed(q, worker, sdk[q])  BY DEF IInv
  <2>2. CASE q # p
    <3>1. sdk'[q] = sdk[q]  BY <2>2, <1>p, <1>t DEF WellTyped
    <3>2. Process(v) = q /\ (k <= worker[v].n \/ sdk[q].life = "gone")  BY <2>1, <3>1 DEF Listed
    <3>3. v # w  BY <3>2, <2>2
    <3>4. worker'[v] = worker[v]  BY <3>3, <1>t DEF WellTyped
    <3> QED  BY <3>1, <3>2, <3>4
  <2>3. CASE q = p /\ v = w
    <3>1. sdk'[q] = m /\ worker'[v] = r  BY <2>3, <1>p, <1>t DEF WellTyped
    <3> QED  BY <2>3, <3>1 DEF Made
  <2>4. CASE q = p /\ v # w
    <3>1. sdk'[q] = m /\ worker'[v] = worker[v]  BY <2>4, <1>p, <1>t DEF WellTyped
    <3>2. Spared(sdk[p], m, v)  BY <2>4
    <3>3. <<v, k, j>> \in Ids(sdk[p].calls)  BY <3>1, <3>2, LibsIds DEF Spared
    <3>4. sdk[p].life = "gone" => m.life = "gone"  BY <3>2 DEF Spared
    <3> QED  BY <3>1, <3>3, <3>4, <2>1, <2>4 DEF Listed
  <2> QED  BY <2>2, <2>3, <2>4
<1>5. ASSUME NEW q \in Procs PROVE MemOK(q, sdk'[q], owed'[q])
  <2>1. MemOK(q, sdk[q], owed[q])  BY DEF IInv
  <2> QED  BY <2>1, <1>p, <1>t DEF WellTyped
<1> QED  BY <1>1, <1>2, <1>3, <1>4, <1>5 DEF IInv

\* The step of one worker that opens and closes no shield.
LEMMA Stepped ==
  ASSUME IInv, NEW w \in Workers, NEW r \in WorkerRec, NEW c \in BOOLEAN, NEW m \in Mem,
         NEW hm \in Home, NEW o \in SUBSET Calls,
         worker' = [worker EXCEPT ![w] = r], ctx' = [ctx EXCEPT ![w] = c],
         sdk' = [sdk EXCEPT ![Process(w)] = m], owed' = [owed EXCEPT ![Process(w)] = o], home' = hm,
         WorkerOK(r, w, c, m, hm), r.shields = worker[w].shields, r.n >= worker[w].n,
         m.depth = sdk[Process(w)].depth, m.life = sdk[Process(w)].life,
         \A v \in Workers \ {w} : Spared(sdk[Process(w)], m, v),
         \A v \in Workers \ {w} : Locked(home, hm, v),
         Made(w, r.n, m),
         MemOK(Process(w), m, o), HomeOK(hm)
  PROVE  IInv'
<1>1. Process(w) \in Procs  BY ProcessType
<1>2. \A v \in Workers : worker'[v].shields = worker[v].shields
  BY DEF IInv, WellTyped
<1>3. Open(Process(w), worker') = Open(Process(w), worker)
  BY <1>2 DEF Open
<1>4. CountOK(Process(w), worker, sdk[Process(w)])  BY <1>1 DEF IInv
<1>5. CountOK(Process(w), worker', m)  BY <1>3, <1>4 DEF CountOK, Wrap
<1> QED  BY <1>5, Counted

\* The same for a step that adds nothing to the lists.
Quiet == UNCHANGED <<sdk, owed>>

LEMMA Moved ==
  ASSUME IInv, NEW w \in Workers, NEW r \in WorkerRec, NEW c \in BOOLEAN, NEW hm \in Home,
         worker' = [worker EXCEPT ![w] = r], ctx' = [ctx EXCEPT ![w] = c], Quiet,
         home' = hm, WorkerOK(r, w, c, sdk[Process(w)], hm), r.shields = worker[w].shields,
         r.n >= worker[w].n, \A v \in Workers \ {w} : Locked(home, hm, v), HomeOK(hm)
  PROVE  IInv'
<1> DEFINE p == Process(w)
<1>1. p \in Procs  BY ProcessType
<1>2. sdk[p] \in Mem /\ owed[p] \in SUBSET Calls  BY <1>1 DEF IInv, WellTyped
<1>3. sdk' = [sdk EXCEPT ![p] = sdk[p]] /\ owed' = [owed EXCEPT ![p] = owed[p]]
  BY <1>1 DEF IInv, WellTyped, Quiet
<1>4. \A v \in Workers \ {w} : Spared(sdk[p], sdk[p], v)
  BY DEF Spared
<1>5. MemOK(p, sdk[p], owed[p]) /\ Listed(p, worker, sdk[p])  BY <1>1 DEF IInv
<1>6. worker[w].n \in Nat /\ r.n \in Nat  BY SdkAssumption DEF IInv, WellTyped, WorkerRec
<1>7. Made(w, r.n, sdk[p])
  BY <1>5, <1>6 DEF Listed, Made
<1>8. PICK m \in Mem : m = sdk[Process(w)]  BY <1>2
<1>9. PICK o \in SUBSET Calls : o = owed[Process(w)]  BY <1>2
<1>10. /\ sdk' = [sdk EXCEPT ![Process(w)] = m] /\ owed' = [owed EXCEPT ![Process(w)] = o]
       /\ WorkerOK(r, w, c, m, hm) /\ m.depth = sdk[Process(w)].depth /\ m.life = sdk[Process(w)].life
       /\ MemOK(Process(w), m, o) /\ Made(w, r.n, m)
       /\ \A v \in Workers \ {w} : Spared(sdk[Process(w)], m, v)
  BY <1>3, <1>4, <1>5, <1>7, <1>8, <1>9
<1> HIDE DEF p
<1> QED  BY <1>8, <1>9, <1>10, Stepped

\* Steps that leave the shared files alone as well.
LEMMA MovedAlone ==
  ASSUME IInv, NEW w \in Workers, NEW r \in WorkerRec, NEW c \in BOOLEAN,
         worker' = [worker EXCEPT ![w] = r], ctx' = [ctx EXCEPT ![w] = c], UNCHANGED <<sdk, owed, home>>,
         WorkerOK(r, w, c, sdk[Process(w)], home), r.shields = worker[w].shields, r.n >= worker[w].n
  PROVE  IInv'
<1>1. home \in Home /\ HomeOK(home)  BY DEF IInv, WellTyped
<1>2. \A v \in Workers \ {w} : Locked(home, home, v)  BY DEF Locked
<1>3. Quiet  BY DEF Quiet
<1> QED  BY <1>1, <1>2, <1>3, Moved

\* What is known of a worker before it moves.
LEMMA Before ==
  ASSUME IInv, NEW w \in Workers
  PROVE  /\ worker[w] \in WorkerRec /\ ctx[w] \in BOOLEAN /\ sdk[Process(w)] \in Mem
         /\ home \in Home /\ owed[Process(w)] \in SUBSET Calls /\ HomeOK(home)
         /\ WorkerOK(worker[w], w, ctx[w], sdk[Process(w)], home)
         /\ Process(w) \in Procs /\ MemOK(Process(w), sdk[Process(w)], owed[Process(w)])
         /\ Listed(Process(w), worker, sdk[Process(w)]) /\ worker[w].n \in Nat
         /\ ctx = [ctx EXCEPT ![w] = ctx[w]]
<1>1. Process(w) \in Procs  BY ProcessType
<1> QED  BY <1>1, SdkAssumption DEF IInv, WellTyped, WorkerRec

-----------------------------------------------------------------------------
(* Frames and stacks.                                                      *)

LEMMA FrameFacts ==
  ASSUME IInv, NEW w \in Workers, NEW lib \in DOMAIN Hooks, NEW host, NEW hop \in 0..MaxHops,
         NEW c \in BOOLEAN, NEW d, NEW f, f = Frame(w, lib, host, hop, c, d)
  PROVE  /\ f \in Frames /\ f.lib = lib /\ f.hop = hop /\ ~f.invoked
         /\ f.rec => lib \in Outer \/ ~c
         /\ f.rec => f.own \/ lib \in Leaves \cup Early
         /\ lib # "create_connection" /\ lib \in Outer /\ in_scope(host) /\ sdk[Process(w)].depth > 0 => f.rec
<1>1. worker[w].conn.bound \in BOOLEAN /\ installed(Process(w)) \in BOOLEAN
  BY Before DEF WorkerRec, Conn, installed
<1>2. f = [lib |-> f.lib, hop |-> f.hop, hook |-> f.hook, invoked |-> f.invoked, was |-> f.was, own |-> f.own, rec |-> f.rec]
  BY DEF Frame
<1>3. f.lib = lib /\ f.hop = hop /\ ~f.invoked /\ f.hook \in BOOLEAN /\ f.own \in BOOLEAN /\ f.rec \in BOOLEAN /\ f.was = c
      /\ f.invoked \in BOOLEAN
  BY <1>1 DEF Frame, dispatch_gate, http_owns
<1>4. f.rec => f.hook /\ in_scope(host) /\ (lib \in Outer \/ ~http_owns(c, d))
  BY DEF Frame, dispatch_gate
<1>5. f.own = (f.hook /\ (lib \in Handled \/ (lib \in Guarded /\ ~http_owns(c, d))))
  BY DEF Frame
<1>6. lib \notin Handled \cup Guarded => lib \in Leaves \cup Early
  BY DEF Handled, Guarded, Leaves, Early, Hooks, Hook, urlopen, opener, requests, urllib3, httpx, aiohttp,
         http_client, putrequest, create_connection, connect, pycurl, asyncio_exec, Popen, os_system
<1>7. lib \in Outer /\ lib \in Guarded => FALSE
  BY DEF Outer, Guarded, Hooks, Hook, urlopen, opener, requests, urllib3, httpx, aiohttp,
         http_client, putrequest, create_connection, connect, pycurl, asyncio_exec, Popen, os_system
<1>8. lib # "create_connection" /\ sdk[Process(w)].depth > 0 => f.hook
  BY DEF Frame, installed
<1>9. lib # "create_connection" /\ lib \in Outer /\ in_scope(host) /\ sdk[Process(w)].depth > 0 => f.rec
  BY <1>8 DEF Frame, dispatch_gate
<1>10. f \in Frames
  BY <1>2, <1>3 DEF Frames
<1>11. f.rec => lib \in Outer \/ ~c
  BY <1>4 DEF http_owns
<1>12. f.rec => f.own \/ lib \in Leaves \cup Early
  BY <1>4, <1>5, <1>6, <1>7
<1> QED  BY <1>3, <1>9, <1>10, <1>11, <1>12

\* What lies below a hook is no outer library, or below one that records first.
LEMMA BelowFacts ==
  ASSUME NEW lib \in DOMAIN Hooks, NEW low, low = Hooks[lib].below, low # NoOne
  PROVE  /\ low \in DOMAIN Hooks /\ lib \notin Leaves
         /\ low \notin Outer \/ lib \in Early
         /\ low \in Early => lib \in Early
         /\ \A l : <<l, lib>> \in Onward => <<l, low>> \in Later /\ (low \in Leaves \/ <<l, low>> \in Onward)
<1>1. low \in {"opener", "http_client", "urllib3", "create_connection", "connect", "Popen", NoOne}
  BY DEF Hooks, Hook, urlopen, opener, requests, urllib3, httpx, aiohttp,
         http_client, putrequest, create_connection, connect, pycurl, asyncio_exec, Popen, os_system
<1>2. Outer \cap {"opener", "http_client", "urllib3", "create_connection", "connect"} = {}
  BY DEF Outer, Hooks, Hook, urlopen, opener, requests, urllib3, httpx, aiohttp,
         http_client, putrequest, create_connection, connect, pycurl, asyncio_exec, Popen, os_system
<1>3. lib \notin Leaves
  BY DEF Leaves, Hooks, Hook, urlopen, opener, requests, urllib3, httpx, aiohttp,
         http_client, putrequest, create_connection, connect, pycurl, asyncio_exec, Popen, os_system
<1>4. low = "Popen" => lib = "asyncio_exec"
  BY DEF Hooks, Hook, urlopen, opener, requests, urllib3, httpx, aiohttp,
         http_client, putrequest, create_connection, connect, pycurl, asyncio_exec, Popen, os_system
<1>5. /\ lib = "asyncio_exec" => low = "Popen"
      /\ lib = "putrequest" => low = "create_connection"
      /\ lib = "create_connection" => low = "connect"
  BY DEF Hooks, Hook, asyncio_exec, putrequest, create_connection
<1>6. \A l : <<l, lib>> \in Onward => \/ l = "asyncio_exec" /\ lib = "asyncio_exec"
                                      \/ l = "putrequest" /\ lib \in {"putrequest", "create_connection"}
  BY DEF Onward
<1> QED  BY <1>1, <1>2, <1>3, <1>4, <1>5, <1>6, HooksAre DEF Leaves, Later, Onward, Early

\* A stack whose top is replaced, with or without a frame pushed on it, and one
\* that was cut.
LEMMA Replaced ==
  ASSUME NEW s \in Seq(Frames), s # <<>>, NEW g \in Frames
  PROVE  LET t == <<g>> \o Tail(s)
         IN t \in Seq(Frames) /\ Len(t) = Len(s) /\ t[1] = g /\ \A i \in 2..Len(s) : t[i] = s[i]
BY Z3

LEMMA Pushed ==
  ASSUME NEW s \in Seq(Frames), s # <<>>, NEW f \in Frames, NEW g \in Frames
  PROVE  LET t == <<f, g>> \o Tail(s)
         IN /\ t \in Seq(Frames) /\ Len(t) = Len(s) + 1 /\ t[1] = f /\ t[2] = g
            /\ \A i \in 2..Len(s) : t[i + 1] = s[i]
BY Z3

LEMMA CutOff ==
  ASSUME NEW s \in Seq(Frames), NEW n \in 1..Len(s), NEW g \in Frames
  PROVE  LET t == <<g>> \o SubSeq(s, n + 1, Len(s))
         IN /\ t \in Seq(Frames) /\ Len(t) = Len(s) - n + 1 /\ t[1] = g
            /\ \A i \in 2..Len(t) : t[i] = s[i + n - 1]
BY Z3

\* An idle worker counts on little.
LEMMA IdleOK ==
  ASSUME NEW w \in Workers, NEW r \in WorkerRec, NEW c, NEW m, NEW hm,
         r.pc = "idle" \/ (r.pc = "dead" /\ r.shields = 0), r.stack = <<>>, r.own_run = FALSE, r.shields <= r.opened,
         r.outcome # "cancelled"
  PROVE  WorkerOK(r, w, c, m, hm)
BY DEF WorkerOK, Placed, InCall, Single, Unrecorded, Down, OwnRun, Prompt, Noting, DestOf

\* What is known of the connection does not matter.
LEMMA Reconnected ==
  ASSUME NEW w \in Workers, NEW r \in WorkerRec, NEW q \in WorkerRec, NEW c, NEW m, NEW hm,
         WorkerOK(r, w, c, m, hm),
         q.pc = r.pc, q.stack = r.stack, q.n = r.n, q.hops = r.hops, q.host = r.host, q.outcome = r.outcome,
         q.shields = r.shields, q.opened = r.opened, q.known = r.known, q.own_run = r.own_run
  PROVE  WorkerOK(q, w, c, m, hm)
<1>1. InCall(q) <=> InCall(r)  BY DEF InCall
<1>2. Down(q) <=> Down(r)  BY DEF Down
<1>3. Placed(q)  BY <1>1 DEF WorkerOK, Placed
<1>4. Single(q.stack) /\ (q.pc = "enter" => Owns(q.stack, c))  BY DEF WorkerOK
<1>5. Prompt(q)  BY <1>1 DEF WorkerOK, Prompt
<1>6. Unrecorded(q, w, m)  BY <1>1, <1>2 DEF WorkerOK, Unrecorded
<1>7. OwnRun(q, w, m)  BY DEF WorkerOK, OwnRun
<1>8. Noting(q, w, hm)  BY DEF WorkerOK, Noting, DestOf
<1> QED  BY <1>3, <1>4, <1>5, <1>6, <1>7, <1>8 DEF WorkerOK

-----------------------------------------------------------------------------
(* One lemma for each step.                                                *)

LEMMA MakeConnectionKeeps ==
  ASSUME IInv, NEW w \in Workers, MakeConnection(w)
  PROVE  IInv'
<1> DEFINE r == [worker[w] EXCEPT !.conn = [NoConn EXCEPT !.made = TRUE, !.bound = installed(Process(w))]]
<1>0. worker[w] \in WorkerRec /\ WorkerOK(worker[w], w, ctx[w], sdk[Process(w)], home) /\ ctx[w] \in BOOLEAN
      /\ ctx = [ctx EXCEPT ![w] = ctx[w]] /\ worker[w].n \in Nat
  BY Before
<1>1. worker' = [worker EXCEPT ![w] = r] /\ ctx' = [ctx EXCEPT ![w] = ctx[w]] /\ UNCHANGED <<sdk, owed, home>>
  BY <1>0 DEF MakeConnection
<1>2. [NoConn EXCEPT !.made = TRUE, !.bound = installed(Process(w))] \in Conn
  <2>1. installed(Process(w)) \in BOOLEAN  BY DEF installed
  <2>2. \A x \in BOOLEAN : [NoConn EXCEPT !.made = TRUE, !.bound = x] \in Conn  BY DEF NoConn, Conn
  <2> QED  BY <2>1, <2>2
<1>3. r \in WorkerRec  BY <1>0, <1>2 DEF WorkerRec
<1>4. /\ r.pc = worker[w].pc /\ r.stack = worker[w].stack /\ r.n = worker[w].n /\ r.hops = worker[w].hops
      /\ r.host = worker[w].host /\ r.outcome = worker[w].outcome /\ r.shields = worker[w].shields
      /\ r.opened = worker[w].opened /\ r.known = worker[w].known /\ r.own_run = worker[w].own_run
  BY <1>0 DEF WorkerRec
<1> HIDE DEF r
<1>5. WorkerOK(r, w, ctx[w], sdk[Process(w)], home)  BY <1>0, <1>3, <1>4, Reconnected
<1>6. r.shields = worker[w].shields /\ r.n >= worker[w].n  BY <1>0, <1>4
<1> QED  BY <1>0, <1>1, <1>3, <1>5, <1>6, MovedAlone

LEMMA CloseConnectionKeeps ==
  ASSUME IInv, NEW w \in Workers, CloseConnection(w)
  PROVE  IInv'
<1> DEFINE r == [worker[w] EXCEPT !.conn.sent = FALSE]
<1>0. worker[w] \in WorkerRec /\ WorkerOK(worker[w], w, ctx[w], sdk[Process(w)], home) /\ ctx[w] \in BOOLEAN
      /\ ctx = [ctx EXCEPT ![w] = ctx[w]] /\ worker[w].n \in Nat
  BY Before
<1>1. worker' = [worker EXCEPT ![w] = r] /\ ctx' = [ctx EXCEPT ![w] = ctx[w]] /\ UNCHANGED <<sdk, owed, home>>
  BY <1>0 DEF CloseConnection
<1>3. r \in WorkerRec  BY <1>0 DEF WorkerRec, Conn
<1>4. /\ r.pc = worker[w].pc /\ r.stack = worker[w].stack /\ r.n = worker[w].n /\ r.hops = worker[w].hops
      /\ r.host = worker[w].host /\ r.outcome = worker[w].outcome /\ r.shields = worker[w].shields
      /\ r.opened = worker[w].opened /\ r.known = worker[w].known /\ r.own_run = worker[w].own_run
  BY <1>0 DEF WorkerRec
<1> HIDE DEF r
<1>5. WorkerOK(r, w, ctx[w], sdk[Process(w)], home)  BY <1>0, <1>3, <1>4, Reconnected
<1>6. r.shields = worker[w].shields /\ r.n >= worker[w].n  BY <1>0, <1>4
<1> QED  BY <1>0, <1>1, <1>3, <1>5, <1>6, MovedAlone

LEMMA BeginKeeps ==
  ASSUME IInv, NEW w \in Workers, NEW lib \in Entries[w], NEW host \in Hosts, Begin(w, lib, host)
  PROVE  IInv'
<1> DEFINE p == Process(w)
<1> DEFINE f == Frame(w, lib, host, 0, ctx[w], tls[ThreadOf[w]])
<1> DEFINE pc == Start(lib)
<1> DEFINE own_run == worker[w].shields > 0 \/ p \in Wrapped
<1> DEFINE r == [worker[w] EXCEPT !.n = @ + 1, !.hops = 0, !.host = host, !.outcome = "none", !.own_run = own_run,
                                  !.stack = <<f>>, !.pc = pc]
<1>0. worker[w] \in WorkerRec /\ WorkerOK(worker[w], w, ctx[w], sdk[p], home) /\ ctx[w] \in BOOLEAN
      /\ ctx = [ctx EXCEPT ![w] = ctx[w]] /\ worker[w].n \in Nat /\ Listed(p, worker, sdk[p])
  BY Before
<1>a. lib \in DOMAIN Hooks  BY SdkAssumption
<1>b. f \in Frames /\ f.lib = lib /\ f.hop = 0 /\ ~f.invoked /\ (f.rec => f.own \/ lib \in Leaves \cup Early)
      /\ (lib # "create_connection" /\ lib \in Outer /\ in_scope(host) /\ sdk[p].depth > 0 => f.rec)
  <2>1. 0 \in 0..MaxHops  BY SdkAssumption
  <2>2. f = Frame(w, lib, host, 0, ctx[w], tls[ThreadOf[w]])  OBVIOUS
  <2>3. ctx[w] \in BOOLEAN  BY <1>0
  <2> HIDE DEF f
  <2> QED  BY <2>1, <2>2, <2>3, <1>a, FrameFacts
<1>c. "create_connection" \notin Outer
  BY DEF Outer, Hooks, Hook, create_connection
<1>1. worker' = [worker EXCEPT ![w] = r] /\ ctx' = [ctx EXCEPT ![w] = ctx[w]] /\ UNCHANGED <<sdk, owed, home>>
  BY <1>0 DEF Begin
<1>2. worker[w].n < MaxCalls /\ worker[w].pc = "idle" /\ (p \in Wrapped => sdk[p].life = "on")
      /\ sdk[p].life # "gone"
  BY DEF Begin, Idle, Has
<1>3. /\ r.n = worker[w].n + 1 /\ r.hops = 0 /\ r.outcome = "none" /\ r.host = host /\ r.own_run = own_run /\ r.stack = <<f>> /\ r.pc = pc
      /\ r.shields = worker[w].shields /\ r.known = worker[w].known /\ r.opened = worker[w].opened
  BY <1>0 DEF WorkerRec
<1>4. r \in WorkerRec
  <2>2. worker[w].n + 1 \in 0..MaxCalls  BY <1>0, <1>2, SdkAssumption
  <2>3. pc \in Pcs /\ "none" \in Results /\ own_run \in BOOLEAN /\ 0 \in 0..MaxHops
    BY SdkAssumption DEF Pcs, Results, Start
  <2> HIDE DEF f, pc, own_run
  <2>1. <<f>> \in Seq(Frames)  BY <1>b
  <2> QED  BY <1>0, <2>1, <2>2, <2>3 DEF WorkerRec
<1>5. Len(r.stack) = 1 /\ r.stack[1] = f /\ Bottom(r.stack) = f  BY <1>3 DEF Bottom
<1>6. WorkerOK(r, w, ctx[w], sdk[p], home)
  <2>0. pc = Start(lib) /\ (pc = "append" => lib \in Early) /\ (pc = "enter" => lib \notin Early) /\ pc \in {"append", "enter"}
    BY DEF Start
  <2> HIDE DEF f, r, pc
  <2>1. Placed(r)
    BY <1>0, <1>2, <1>3, <1>5, <1>b, <2>0, SdkAssumption DEF Placed, InCall, WorkerOK
  <2>2. Single(r.stack)  BY <1>5 DEF Single
  <2>3. r.pc = "enter" => Owns(r.stack, ctx[w])  BY <1>3, <1>5, <1>b, <2>0 DEF Owns
  <2>4. \A j \in Nat : <<w, r.n, j>> \notin Ids(sdk[p].calls)
    <3> SUFFICES ASSUME NEW j \in Nat, <<w, r.n, j>> \in Ids(sdk[p].calls) PROVE FALSE  OBVIOUS
    <3>1. r.n = worker[w].n + 1 /\ r.n \in Nat /\ ~(r.n <= worker[w].n) /\ sdk[p].life # "gone"  BY <1>0, <1>2, <1>3
    <3>2. Listed(p, worker, sdk[p])  BY <1>0
    <3> HIDE DEF p
    <3> QED  BY <3>1, <3>2 DEF Listed
  <2>5. OwnRun(r, w, sdk[p])
    <3> SUFFICES ASSUME r.own_run PROVE OwnRun(r, w, sdk[p])  BY DEF OwnRun
    <3>1. r.shields > 0 \/ (p \in Wrapped /\ sdk[p].life = "on")  BY <1>2, <1>3
    <3>2. sdk[p].depth > 0  BY <3>1, <1>3, OpenInstalled
    <3> QED  BY <3>1, <3>2, <1>b, <1>c, <1>3, <1>5 DEF OwnRun
  <2>6. Noting(r, w, home) /\ Prompt(r)  BY <1>3, <1>5, <1>b, <2>0 DEF Noting, Prompt
  <2>7. Unrecorded(r, w, sdk[p])
    <3>1. Libs(sdk[p].calls, <<w, r.n, 0>>) = {}  BY <2>4, LibsIds
    <3> QED  BY <2>4, <3>1, <1>5, <1>b DEF Unrecorded
  <2> QED  BY <2>1, <2>2, <2>3, <2>5, <2>6, <2>7 DEF WorkerOK
<1>7. r.shields = worker[w].shields /\ r.n >= worker[w].n  BY <1>0, <1>3
<1> HIDE DEF r, p
<1> QED  BY <1>0, <1>1, <1>4, <1>6, <1>7, MovedAlone DEF p

\* A call that goes on, or back, with the same records to make.
LEMMA Restacked ==
  ASSUME NEW w \in Workers, NEW r \in WorkerRec, NEW q \in WorkerRec, NEW c, NEW d, NEW m, NEW hm,
         WorkerOK(r, w, c, m, hm), r.pc \in {"enter", "wire"}, q.pc \in {"return", "wire"}, q.outcome # "cancelled",
         Len(q.stack) = Len(r.stack),
         \A i \in 1..Len(r.stack) : /\ q.stack[i].rec = r.stack[i].rec /\ q.stack[i].lib = r.stack[i].lib
                                    /\ q.stack[i].hop = r.stack[i].hop,
         q.n = r.n, q.hops = r.hops, q.host = r.host, q.shields = r.shields, q.opened = r.opened,
         q.own_run = r.own_run
  PROVE  WorkerOK(q, w, d, m, hm)
<1>1. r.stack # <<>> /\ r.stack \in Seq(Frames) /\ q.stack \in Seq(Frames) /\ InCall(r) /\ InCall(q)
  BY DEF WorkerOK, Placed, InCall, WorkerRec
<1>2. Len(r.stack) \in 1..Len(r.stack) /\ q.stack # <<>> /\ 1 \in 1..Len(r.stack)
  BY <1>1
<1>3. r.outcome # "cancelled"  BY DEF WorkerOK, Placed
<1>4. Placed(q)  BY <1>1, <1>2 DEF WorkerOK, Placed, Bottom
<1>5. Single(q.stack)  BY DEF WorkerOK, Single
<1>6. Unrecorded(q, w, m)  BY <1>1 DEF WorkerOK, Unrecorded, Down
<1>7. OwnRun(q, w, m)  BY <1>2, <1>3 DEF WorkerOK, OwnRun, Bottom
<1>8. Noting(q, w, hm)  BY DEF Noting
<1>9. Prompt(q)  BY <1>1, <1>2 DEF WorkerOK, Prompt
<1> QED  BY <1>4, <1>5, <1>6, <1>7, <1>8, <1>9 DEF WorkerOK

\* A BaseException leaves nothing to record.
LEMMA UncaughtFacts ==
  ASSUME NEW s \in Seq(Frames)
  PROVE  /\ Uncaught(s) \in Seq(Frames) /\ Len(Uncaught(s)) = Len(s)
         /\ \A i \in 1..Len(s) : /\ ~Uncaught(s)[i].rec /\ Uncaught(s)[i].lib = s[i].lib
                                 /\ Uncaught(s)[i].hop = s[i].hop
<1>1. DOMAIN s = 1..Len(s) /\ Len(s) \in Nat /\ \A i \in 1..Len(s) : s[i] \in Frames  OBVIOUS
<1>2. \A x \in Frames : /\ [x EXCEPT !.rec = FALSE] \in Frames /\ ~[x EXCEPT !.rec = FALSE].rec
                        /\ [x EXCEPT !.rec = FALSE].lib = x.lib /\ [x EXCEPT !.rec = FALSE].hop = x.hop
  BY DEF Frames
<1> HIDE DEF Frames
<1>3. Uncaught(s) = [i \in 1..Len(s) |-> [s[i] EXCEPT !.rec = FALSE]]  BY <1>1 DEF Uncaught
<1>4. \A i \in 1..Len(s) : Uncaught(s)[i] = [s[i] EXCEPT !.rec = FALSE]  BY <1>3
<1>5. Uncaught(s) \in [1..Len(s) -> Frames]  BY <1>1, <1>2, <1>3
<1>6. Uncaught(s) \in Seq(Frames) /\ Len(Uncaught(s)) = Len(s)  BY <1>1, <1>5
<1> QED  BY <1>1, <1>2, <1>4, <1>6

LEMMA AnswerKeeps ==
  ASSUME IInv, NEW w \in Workers, NEW o \in Outcomes, Answer(w, o)
  PROVE  IInv'
<1> DEFINE st == IF o = "cancelled" THEN Uncaught(worker[w].stack) ELSE worker[w].stack
<1> DEFINE r == [worker[w] EXCEPT !.outcome = o, !.pc = "return", !.stack = st]
<1>0. worker[w] \in WorkerRec /\ WorkerOK(worker[w], w, ctx[w], sdk[Process(w)], home) /\ ctx[w] \in BOOLEAN
      /\ ctx = [ctx EXCEPT ![w] = ctx[w]] /\ worker[w].n \in Nat
  BY Before
<1>1. worker' = [worker EXCEPT ![w] = r] /\ ctx' = [ctx EXCEPT ![w] = ctx[w]] /\ UNCHANGED <<sdk, owed, home>>
      /\ worker[w].pc = "wire"
  BY <1>0 DEF Answer
<1>2. o \in Results /\ o # "redirect"  BY SdkAssumption DEF Results
<1>3. /\ worker[w].stack \in Seq(Frames) /\ worker[w].stack # <<>> /\ InCall(worker[w])
      /\ Len(worker[w].stack) \in 1..Len(worker[w].stack) /\ 1 \in 1..Len(worker[w].stack)
  BY <1>0, <1>1 DEF WorkerRec, WorkerOK, Placed, InCall
<1>4. /\ st \in Seq(Frames) /\ Len(st) = Len(worker[w].stack)
      /\ \A i \in 1..Len(worker[w].stack) : /\ st[i].lib = worker[w].stack[i].lib /\ st[i].hop = worker[w].stack[i].hop
                                            /\ st[i].rec => o # "cancelled"
      /\ o # "cancelled" => st = worker[w].stack
  BY <1>3, UncaughtFacts
<1> HIDE DEF st
<1>5. r \in WorkerRec  BY <1>0, <1>2, <1>4 DEF WorkerRec, Pcs
<1>6. /\ r.n = worker[w].n /\ r.hops = worker[w].hops /\ r.host = worker[w].host /\ r.shields = worker[w].shields
      /\ r.opened = worker[w].opened /\ r.own_run = worker[w].own_run /\ r.pc = "return" /\ r.outcome = o /\ r.stack = st
  BY <1>0 DEF WorkerRec
<1> HIDE DEF r
<1>7. WorkerOK(r, w, ctx[w], sdk[Process(w)], home)
  <2>1. CASE o # "cancelled"
    BY <1>0, <1>1, <1>4, <1>5, <1>6, <2>1, Restacked
  <2>2. CASE o = "cancelled"
    <3>1. \A i \in 1..Len(st) : ~st[i].rec  BY <2>2, <1>4
    <3>2. st # <<>> /\ InCall(r)  BY <1>3, <1>4, <1>6 DEF InCall
    <3>3. Placed(r)  BY <3>1, <3>2, <1>0, <1>3, <1>4, <1>6 DEF WorkerOK, Placed, Bottom
    <3>4. Single(r.stack) /\ Noting(r, w, home)  BY <3>1, <1>6 DEF Single, Noting
    <3>5. Prompt(r)  BY <3>1, <1>0, <1>3, <1>4, <1>6 DEF WorkerOK, Prompt
    <3>6. Unrecorded(r, w, sdk[Process(w)])  BY <3>1, <1>0, <1>3, <1>6 DEF WorkerOK, Unrecorded, Down
    <3>7. OwnRun(r, w, sdk[Process(w)])  BY <2>2, <1>0, <1>6 DEF WorkerOK, OwnRun
    <3> QED  BY <3>3, <3>4, <3>5, <3>6, <3>7, <1>6 DEF WorkerOK
  <2> QED  BY <2>1, <2>2
<1>8. r.shields = worker[w].shields /\ r.n >= worker[w].n  BY <1>0, <1>6
<1> QED  BY <1>0, <1>1, <1>5, <1>7, <1>8, MovedAlone

LEMMA RedirectKeeps ==
  ASSUME IInv, NEW w \in Workers, Redirect(w)
  PROVE  IInv'
<1> DEFINE r == [worker[w] EXCEPT !.outcome = "redirect", !.pc = "return"]
<1>0. worker[w] \in WorkerRec /\ WorkerOK(worker[w], w, ctx[w], sdk[Process(w)], home) /\ ctx[w] \in BOOLEAN
      /\ ctx = [ctx EXCEPT ![w] = ctx[w]] /\ worker[w].n \in Nat
  BY Before
<1>1. worker' = [worker EXCEPT ![w] = r] /\ ctx' = [ctx EXCEPT ![w] = ctx[w]] /\ UNCHANGED <<sdk, owed, home>>
      /\ worker[w].pc = "wire"
  BY <1>0 DEF Redirect
<1>2. r \in WorkerRec  BY <1>0 DEF WorkerRec, Pcs, Results
<1>3. /\ r.n = worker[w].n /\ r.hops = worker[w].hops /\ r.host = worker[w].host /\ r.shields = worker[w].shields
      /\ r.opened = worker[w].opened /\ r.own_run = worker[w].own_run /\ r.pc = "return" /\ r.outcome = "redirect"
      /\ r.stack = worker[w].stack
  BY <1>0 DEF WorkerRec
<1> HIDE DEF r
<1>4. WorkerOK(r, w, ctx[w], sdk[Process(w)], home)  BY <1>0, <1>1, <1>2, <1>3, Restacked
<1>5. r.shields = worker[w].shields /\ r.n >= worker[w].n  BY <1>0, <1>3
<1> QED  BY <1>0, <1>1, <1>2, <1>4, <1>5, MovedAlone

LEMMA InvokeKeeps ==
  ASSUME IInv, NEW w \in Workers, Invoke(w)
  PROVE  IInv'
<1> DEFINE r == worker[w]
<1> DEFINE s == r.stack
<1> DEFINE m == sdk[Process(w)]
<1>0. r \in WorkerRec /\ WorkerOK(r, w, ctx[w], m, home) /\ ctx[w] \in BOOLEAN
      /\ r.n \in Nat
  BY Before
<1>1. r.pc = "enter" /\ UNCHANGED <<sdk, owed, home>>  BY DEF Invoke
<1>2. s # <<>> /\ s \in Seq(Frames) /\ InCall(r) /\ Top(w) = s[1] /\ s[1] \in Frames /\ Len(s) \in Nat /\ Len(s) >= 1
  BY <1>0, <1>1 DEF WorkerOK, Placed, InCall, WorkerRec, Top
<1>3. PICK own \in BOOLEAN : own <=> (Original(w) /\ s[1].own)
  OBVIOUS
<1>4. PICK c \in BOOLEAN : c <=> (ctx[w] \/ own)
  OBVIOUS
<1>5. (Original(w) /\ s[1].own) = own /\ (ctx[w] \/ own) = c
  BY <1>3, <1>4
<1> DEFINE g == [s[1] EXCEPT !.invoked = TRUE, !.own = own]
<1> DEFINE lib == Hooks[s[1].lib].below
<1> DEFINE deep == IF own THEN tls[ThreadOf[w]] + 1 ELSE tls[ThreadOf[w]]
<1> DEFINE f == Frame(w, lib, r.host, s[1].hop, c, deep)
<1>6. g \in Frames /\ g.rec = s[1].rec /\ g.lib = s[1].lib /\ g.hop = s[1].hop
  BY <1>2 DEF Frames
<1>7. ctx' = [ctx EXCEPT ![w] = c]
  BY <1>2, <1>5 DEF Invoke
<1>8. \/ worker' = [worker EXCEPT ![w] = [r EXCEPT !.outcome = "TypeError", !.pc = "return", !.stack = <<g>> \o Tail(@)]]
      \/ Original(w) /\ lib # NoOne /\ worker' = [worker EXCEPT ![w] = [r EXCEPT !.stack = <<f, g>> \o Tail(@), !.pc = Start(lib)]]
      \/ worker' = [worker EXCEPT ![w] = [r EXCEPT !.pc = "wire", !.stack = <<g>> \o Tail(@)]]
  <2>1. LET h == [Top(w) EXCEPT !.invoked = TRUE, !.own = Original(w) /\ Top(w).own]
            k == IF Original(w) /\ Top(w).own THEN tls[ThreadOf[w]] + 1 ELSE tls[ThreadOf[w]]
            fr == Frame(w, Hooks[Top(w).lib].below, worker[w].host, Top(w).hop, ctx[w] \/ (Original(w) /\ Top(w).own), k)
        IN \/ worker' = [worker EXCEPT ![w].outcome = "TypeError", ![w].pc = "return", ![w].stack = <<h>> \o Tail(@)]
           \/ /\ Original(w) /\ Hooks[Top(w).lib].below # NoOne
              /\ worker' = [worker EXCEPT ![w].stack = <<fr, h>> \o Tail(@), ![w].pc = Start(Hooks[Top(w).lib].below)]
           \/ worker' = [worker EXCEPT ![w].pc = "wire", ![w].stack = <<h>> \o Tail(@)]
    BY Zenon DEF Invoke
  <2>2. LET h == [Top(w) EXCEPT !.invoked = TRUE, !.own = own]
            k == IF own THEN tls[ThreadOf[w]] + 1 ELSE tls[ThreadOf[w]]
            fr == Frame(w, Hooks[Top(w).lib].below, worker[w].host, Top(w).hop, c, k)
        IN \/ worker' = [worker EXCEPT ![w].outcome = "TypeError", ![w].pc = "return", ![w].stack = <<h>> \o Tail(@)]
           \/ /\ Original(w) /\ Hooks[Top(w).lib].below # NoOne
              /\ worker' = [worker EXCEPT ![w].stack = <<fr, h>> \o Tail(@), ![w].pc = Start(Hooks[Top(w).lib].below)]
           \/ worker' = [worker EXCEPT ![w].pc = "wire", ![w].stack = <<h>> \o Tail(@)]
    <3>1. Top(w).own = s[1].own  BY <1>2
    <3>2. (Original(w) /\ Top(w).own) = own  BY <1>2, <1>5
    <3>3. (ctx[w] \/ (Original(w) /\ Top(w).own)) = c  BY <1>5, <3>2
    <3> QED  BY <2>1, <3>2, <3>3, Zenon
  <2>3. \/ worker' = [worker EXCEPT ![w].outcome = "TypeError", ![w].pc = "return", ![w].stack = <<g>> \o Tail(@)]
        \/ /\ Original(w) /\ lib # NoOne
           /\ worker' = [worker EXCEPT ![w].stack = <<f, g>> \o Tail(@), ![w].pc = Start(lib)]
        \/ worker' = [worker EXCEPT ![w].pc = "wire", ![w].stack = <<g>> \o Tail(@)]
    BY <2>2, <1>2, Zenon
  <2>4. worker \in [Workers -> WorkerRec]  BY DEF IInv, WellTyped
  <2> HIDE DEF f, g, lib, WorkerRec
  <2>5. [worker EXCEPT ![w].outcome = "TypeError", ![w].pc = "return", ![w].stack = <<g>> \o Tail(@)]
          = [worker EXCEPT ![w] = [r EXCEPT !.outcome = "TypeError", !.pc = "return", !.stack = <<g>> \o Tail(@)]]
    BY <2>4
  <2>6. [worker EXCEPT ![w].stack = <<f, g>> \o Tail(@), ![w].pc = Start(lib)]
          = [worker EXCEPT ![w] = [r EXCEPT !.stack = <<f, g>> \o Tail(@), !.pc = Start(lib)]]
    BY <2>4
  <2>7. [worker EXCEPT ![w].pc = "wire", ![w].stack = <<g>> \o Tail(@)]
          = [worker EXCEPT ![w] = [r EXCEPT !.pc = "wire", !.stack = <<g>> \o Tail(@)]]
    BY <2>4
  <2> QED  BY <2>3, <2>5, <2>6, <2>7, Zenon
<1>9. ASSUME NEW pc \in {"return", "wire"}, NEW o \in Results \ {"cancelled"},
             worker' = [worker EXCEPT ![w] = [r EXCEPT !.outcome = o, !.pc = pc, !.stack = <<g>> \o Tail(@)]]
      PROVE  IInv'
  <2> DEFINE t == <<g>> \o Tail(s)
  <2> DEFINE q == [r EXCEPT !.outcome = o, !.pc = pc, !.stack = t]
  <2>1. t \in Seq(Frames) /\ Len(t) = Len(s) /\ t[1] = g /\ \A i \in 2..Len(s) : t[i] = s[i]
    <3> HIDE DEF s, g
    <3> QED  BY <1>2, <1>6, Replaced
  <2>2. \A i \in 1..Len(s) : t[i].rec = s[i].rec /\ t[i].lib = s[i].lib /\ t[i].hop = s[i].hop
    <3> TAKE i \in 1..Len(s)
    <3> HIDE DEF t, g, s
    <3>1. CASE i = 1  BY <3>1, <2>1, <1>6
    <3>2. CASE i # 1
      <4>1. i \in 2..Len(s)  BY <3>2, <1>2
      <4> QED  BY <4>1, <2>1
    <3> QED  BY <3>1, <3>2
  <2> HIDE DEF t, g, m
  <2>3. q \in WorkerRec  BY <1>0, <2>1 DEF WorkerRec, Pcs
  <2>4. /\ q.n = r.n /\ q.hops = r.hops /\ q.host = r.host /\ q.shields = r.shields /\ q.opened = r.opened
        /\ q.own_run = r.own_run /\ q.pc = pc /\ q.outcome = o /\ q.stack = t
    BY <1>0 DEF WorkerRec
  <2>5. worker' = [worker EXCEPT ![w] = q]  BY <1>9 DEF t
  <2> HIDE DEF q
  <2>6. WorkerOK(q, w, c, m, home)
    BY <1>0, <1>1, <1>2, <2>1, <2>2, <2>3, <2>4, Restacked
  <2>7. q.shields = worker[w].shields /\ q.n >= worker[w].n  BY <1>0, <2>4
  <2>8. WorkerOK(q, w, c, sdk[Process(w)], home)  BY <2>6 DEF m
  <2> HIDE DEF r, s
  <2> QED  BY <1>1, <1>7, <2>3, <2>5, <2>7, <2>8, MovedAlone
<1>10. ASSUME Original(w), lib # NoOne,
              worker' = [worker EXCEPT ![w] = [r EXCEPT !.stack = <<f, g>> \o Tail(@), !.pc = Start(lib)]]
       PROVE  IInv'
  <2> DEFINE pc == Start(lib)
  <2>0. pc \in {"append", "enter"} /\ (pc = "append" <=> lib \in Early)  BY DEF Start
  <2>1. s[1].lib \in DOMAIN Hooks /\ s[1].hop \in 0..MaxHops  BY <1>2 DEF Frames
  <2>2. /\ lib \in DOMAIN Hooks /\ s[1].lib \notin Leaves /\ (lib \in Outer => s[1].lib \in Early)
        /\ lib \in Early => s[1].lib \in Early
        /\ \A l : <<l, s[1].lib>> \in Onward => <<l, lib>> \in Later /\ (lib \in Leaves \/ <<l, lib>> \in Onward)
    <3> HIDE DEF s
    <3> QED  BY <2>1, <1>10, BelowFacts
  <2>5. f \in Frames /\ f.lib = lib /\ f.hop = s[1].hop /\ (f.rec => lib \in Outer \/ ~c)
        /\ (f.rec => f.own \/ lib \in Leaves \cup Early)
    <3>1. PICK k \in 0..MaxHops : k = s[1].hop  BY <2>1
    <3>2. PICK x \in DOMAIN Hooks : x = lib  BY <2>2
    <3>3. PICK h, d, fr : h = r.host /\ d = deep /\ fr = f  OBVIOUS
    <3>4. fr = Frame(w, x, h, k, c, d)  BY <3>1, <3>2, <3>3
    <3> HIDE DEF f, lib, deep, s, r
    <3>5. /\ fr \in Frames /\ fr.lib = x /\ fr.hop = k /\ (fr.rec => x \in Outer \/ ~c)
          /\ fr.rec => fr.own \/ x \in Leaves \cup Early
      BY <3>4, FrameFacts
    <3> QED  BY <3>1, <3>2, <3>3, <3>5
  <2> DEFINE t == <<f, g>> \o Tail(s)
  <2> DEFINE q == [r EXCEPT !.stack = t, !.pc = pc]
  <2>6. t \in Seq(Frames) /\ Len(t) = Len(s) + 1 /\ t[1] = f /\ t[2] = g /\ \A i \in 2..Len(s) : t[i + 1] = s[i]
    <3> HIDE DEF s, g, f
    <3> QED  BY <1>2, <1>6, <2>5, Pushed
  <2>7. \A i \in 2..Len(t) : t[i].rec = s[i - 1].rec /\ t[i].lib = s[i - 1].lib /\ t[i].hop = s[i - 1].hop
    <3> TAKE i \in 2..Len(t)
    <3> HIDE DEF t, g, s
    <3>1. CASE i = 2  BY <3>1, <2>6, <1>6
    <3>2. CASE i # 2
      <4>1. PICK j \in 2..Len(s) : j = i - 1  BY <3>2, <2>6, <1>2
      <4>2. t[j + 1] = s[j] /\ i = j + 1  BY <4>1, <2>6
      <4> QED  BY <4>1, <4>2
    <3> QED  BY <3>1, <3>2
  <2>8. \A j \in 1..Len(s) : s[j].rec /\ s[j].hop = s[1].hop => c
    <3>1. Owns(s, ctx[w])  BY <1>0, <1>1 DEF WorkerOK
    <3> HIDE DEF s
    <3> QED  BY <3>1, <2>2, <1>3, <1>4, <1>10 DEF Owns
  <2>9. s[1].lib \in Early => \A j \in 1..Len(s) : ~s[j].rec /\ s[j].lib \in Early
    BY <1>0, <1>1, <1>2 DEF WorkerOK, Prompt
  <2> HIDE DEF t, g, f, m, lib, pc
  <2>10. worker' = [worker EXCEPT ![w] = q]  BY <1>10 DEF t, pc
  <2>11. q \in WorkerRec  BY <1>0, <2>0, <2>6 DEF WorkerRec, Pcs
  <2>12. /\ q.n = r.n /\ q.hops = r.hops /\ q.host = r.host /\ q.shields = r.shields /\ q.opened = r.opened
         /\ q.own_run = r.own_run /\ q.pc = pc /\ q.outcome = r.outcome /\ q.stack = t
    BY <1>0 DEF WorkerRec
  <2> HIDE DEF q
  <2>13. \A i \in 1..Len(t) : i = 1 \/ (i \in 2..Len(t) /\ i - 1 \in 1..Len(s))
    BY <2>6, <1>2
  <2>14. InCall(q) /\ q.pc # "return" /\ 1 \in 1..Len(s) /\ 1 \in 1..Len(t)  BY <2>0, <2>6, <2>12, <1>2 DEF InCall
  <2>15. t # <<>> /\ Bottom(t).rec = Bottom(s).rec /\ Bottom(t).lib = Bottom(s).lib /\ Bottom(t).hop = Bottom(s).hop
    <3>1. Len(t) \in 2..Len(t) /\ Len(t) - 1 = Len(s)  BY <2>6, <1>2
    <3> QED  BY <3>1, <2>6, <2>7 DEF Bottom
  <2>16. \A i \in 1..Len(t) : t[i].hop = s[1].hop \/ (i # 1 /\ t[i].hop = s[i - 1].hop /\ i - 1 \in 1..Len(s))
    BY <2>5, <2>6, <2>7, <2>13
  <2>17. Placed(q)
    <3>1. Placed(r)  BY <1>0 DEF WorkerOK
    <3>2. r.outcome # "cancelled"  BY <3>1, <1>1 DEF Placed
    <3>3. \A i \in 1..Len(t) : t[i].hop <= q.hops  BY <3>1, <1>2, <2>12, <2>14, <2>16 DEF Placed
    <3>4. q.stack # <<>> /\ q.host \in Hosts /\ q.n \in 1..MaxCalls /\ Bottom(q.stack).hop = 0
      BY <3>1, <1>2, <2>12, <2>15 DEF Placed
    <3>5. q.shields <= q.opened  BY <3>1, <2>12 DEF Placed
    <3> QED  BY <3>2, <3>3, <3>4, <3>5, <2>0, <2>12, <2>14 DEF Placed
  <2>18. f.rec => \A j \in 1..Len(s) : s[j].rec => s[j].hop # s[1].hop
    BY <2>2, <2>5, <2>8, <2>9
  <2>19. Single(t)
    <3> SUFFICES ASSUME NEW i \in 1..Len(t), NEW j \in 1..Len(t), t[i].rec, t[j].rec, t[i].hop = t[j].hop PROVE i = j
      BY DEF Single
    <3>1. Single(s)  BY <1>0 DEF WorkerOK
    <3>2. CASE i = 1
      BY <3>2, <2>5, <2>6, <2>7, <2>13, <2>18
    <3>3. CASE j = 1
      BY <3>3, <2>5, <2>6, <2>7, <2>13, <2>18
    <3>4. CASE i # 1 /\ j # 1
      <4>1. i - 1 \in 1..Len(s) /\ j - 1 \in 1..Len(s) /\ s[i - 1].rec /\ s[j - 1].rec /\ s[i - 1].hop = s[j - 1].hop
        BY <3>4, <2>7, <2>13
      <4>2. i - 1 = j - 1  BY <4>1, <3>1 DEF Single
      <4> QED  BY <4>2, <2>6, <1>2
    <3> QED  BY <3>2, <3>3, <3>4
  <2>20. q.pc = "enter" => Owns(t, c)
    <3> SUFFICES ASSUME q.pc = "enter", NEW i \in 1..Len(t), t[i].rec, t[i].hop = t[1].hop
                 PROVE  c \/ (i = 1 /\ (t[1].own \/ t[1].lib \in Leaves))
      BY DEF Owns
    <3>1. lib \notin Early  BY <2>0, <2>12
    <3>2. CASE i = 1  BY <3>1, <3>2, <2>5, <2>6
    <3>3. CASE i # 1
      <4>1. i - 1 \in 1..Len(s) /\ s[i - 1].rec /\ s[i - 1].hop = s[1].hop  BY <3>3, <2>5, <2>6, <2>7, <2>13
      <4> QED  BY <4>1, <2>8
    <3> QED  BY <3>2, <3>3
  <2>21. Prompt(q)
    <3>1. ASSUME NEW i \in 1..Len(t), t[i].rec, t[i].lib \in Early PROVE i = 1 /\ q.pc = "append"
      <4>1. CASE i = 1  BY <3>1, <4>1, <2>0, <2>5, <2>6, <2>12
      <4>2. CASE i # 1
        <5>1. i - 1 \in 1..Len(s) /\ s[i - 1].rec /\ s[i - 1].lib \in Early  BY <3>1, <4>2, <2>7, <2>13
        <5> QED  BY <5>1, <1>0, <1>1 DEF WorkerOK, Prompt
      <4> QED  BY <4>1, <4>2
    <3>2. ASSUME t[1].lib \in Early, NEW i \in 1..Len(t) PROVE t[i].lib \in Early
      BY <3>2, <2>2, <2>5, <2>6, <2>7, <2>9, <2>13
    <3> QED  BY <3>1, <3>2, <2>12 DEF Prompt
  <2>22. Unrecorded(q, w, m)
    <3>1. Unrecorded(r, w, m)  BY <1>0 DEF WorkerOK
    <3>2. Down(r)  BY <1>1 DEF Down
    <3>3. \A l \in Libs(m.calls, <<w, r.n, s[1].hop>>) : <<l, s[1].lib>> \in Onward
      BY <3>1, <3>2, <2>2 DEF Unrecorded
    <3>4. ASSUME NEW i \in 1..Len(t), t[i].rec
          PROVE  \A l \in Libs(m.calls, <<w, r.n, t[i].hop>>) : <<l, t[i].lib>> \in Later
      <4>1. CASE i = 1  BY <4>1, <3>3, <2>2, <2>5, <2>6
      <4>2. CASE i # 1
        <5>1. i - 1 \in 1..Len(s) /\ s[i - 1].rec /\ s[i - 1].lib = t[i].lib /\ s[i - 1].hop = t[i].hop
          BY <3>4, <4>2, <2>7, <2>13
        <5> QED  BY <5>1, <3>1 DEF Unrecorded
      <4> QED  BY <4>1, <4>2
    <3>5. t[1].lib \in Leaves \/ \A l \in Libs(m.calls, <<w, r.n, t[1].hop>>) : <<l, t[1].lib>> \in Onward
      BY <3>3, <2>2, <2>5, <2>6
    <3>6. \A j \in Nat : <<w, r.n, j>> \in Ids(m.calls) => j <= r.hops  BY <3>1, <1>2 DEF Unrecorded
    <3> HIDE DEF r, s
    <3> QED  BY <3>4, <3>5, <3>6, <2>12 DEF Unrecorded
  <2>23. OwnRun(q, w, m)
    <3>1. OwnRun(r, w, m)  BY <1>0 DEF WorkerOK
    <3> QED  BY <3>1, <2>12, <2>15 DEF OwnRun
  <2>24. Noting(q, w, home)  BY <2>0, <2>12 DEF Noting
  <2>25. WorkerOK(q, w, c, m, home)  BY <2>12, <2>17, <2>19, <2>20, <2>21, <2>22, <2>23, <2>24 DEF WorkerOK
  <2>26. q.shields = worker[w].shields /\ q.n >= worker[w].n  BY <1>0, <2>12
  <2>27. WorkerOK(q, w, c, sdk[Process(w)], home)  BY <2>25 DEF m
  <2> HIDE DEF r, s
  <2> QED  BY <1>1, <1>7, <2>10, <2>11, <2>26, <2>27, MovedAlone
<1>11. r.outcome \in Results \ {"cancelled"} /\ "TypeError" \in Results \ {"cancelled"}
  BY <1>0, <1>1 DEF WorkerRec, Results, WorkerOK, Placed
<1>12. [r EXCEPT !.pc = "wire", !.stack = <<g>> \o Tail(@)]
         = [r EXCEPT !.outcome = r.outcome, !.pc = "wire", !.stack = <<g>> \o Tail(@)]
  BY <1>0 DEF WorkerRec
<1> HIDE DEF g, f, r, lib
<1> QED  BY <1>8, <1>9, <1>10, <1>11, <1>12

\* The ends of a set of positions.
LEMMA MinNat ==
  ASSUME NEW T, T \subseteq Nat, T # {}
  PROVE  Min(T) \in T /\ \A y \in T : Min(T) <= y
<1>1. \E x \in T : \A y \in T : ~ (<<y, x>> \in OpToRel(<, Nat))
  BY NatLessThanWellFounded, WFMin
<1>2. PICK x \in T : \A y \in T : ~ (<<y, x>> \in OpToRel(<, Nat))
  BY <1>1
<1>3. ASSUME NEW y \in T PROVE x <= y
  <2>1. x \in Nat /\ y \in Nat  OBVIOUS
  <2>2. ~ (<<y, x>> \in OpToRel(<, Nat))  BY <1>2
  <2>3. ~ (y < x)  BY <2>1, <2>2 DEF OpToRel
  <2> QED  BY <2>1, <2>3
<1> QED  BY <1>3 DEF Min

LEMMA MaxBelow ==
  ASSUME NEW k \in Nat, NEW T, T \subseteq 1..k, T # {}
  PROVE  Max(T) \in T
<1> DEFINE U == {k - i : i \in T}
<1>1. PICK j \in T : TRUE  OBVIOUS
<1>2. U # {}  BY <1>1
<1>3. U \subseteq Nat
  <2> SUFFICES ASSUME NEW i \in T PROVE k - i \in Nat  OBVIOUS
  <2>1. i \in 1..k  OBVIOUS
  <2> QED  BY <2>1
<1>4. Min(U) \in U /\ \A y \in U : Min(U) <= y
  BY <1>2, <1>3, MinNat
<1>5. PICK i \in T : Min(U) = k - i
  BY <1>4
<1>6. ASSUME NEW l \in T PROVE i >= l
  <2>1. k - i <= k - l  BY <1>4, <1>5
  <2>2. i \in 1..k /\ l \in 1..k  OBVIOUS
  <2> QED  BY <2>1, <2>2
<1> QED  BY <1>6 DEF Max

\* How far a call unwinds.
LEMMA LeavingFacts ==
  ASSUME NEW s \in Seq(Frames), s # <<>>
  PROVE  /\ Leaving(s) \in 1..Len(s)
         /\ Leaving(s) # Len(s) => s[Leaving(s)].rec
<1> DEFINE S == {i \in 1..Len(s) : s[i].rec} \cup {Len(s)}
<1>1. Len(s) \in Nat /\ Len(s) >= 1  OBVIOUS
<1>2. S \subseteq 1..Len(s) /\ S # {}  BY <1>1
<1>3. S \subseteq Nat  BY <1>1
<1>4. Leaving(s) \in S  BY <1>2, <1>3, MinNat DEF Leaving
<1> QED  BY <1>2, <1>4

LEMMA FollowRedirectKeeps ==
  ASSUME IInv, NEW w \in Workers, FollowRedirect(w)
  PROVE  IInv'
<1> DEFINE r == worker[w]
<1> DEFINE s == r.stack
<1> DEFINE m == sdk[Process(w)]
<1> DEFINE owning == {i \in 1..(Len(s) - 1) : s[i].own}
<1> DEFINE hop == r.hops + 1
<1>0. r \in WorkerRec /\ WorkerOK(r, w, ctx[w], m, home) /\ ctx[w] \in BOOLEAN /\ r.n \in Nat
  BY Before
<1>1. r.pc = "return" /\ r.outcome = "redirect" /\ r.hops < MaxHops /\ UNCHANGED <<sdk, owed, home>>
      /\ \A i \in 1..(Len(s) - 1) : ~s[i].rec
  BY DEF FollowRedirect
<1>2. s # <<>> /\ s \in Seq(Frames) /\ InCall(r) /\ Len(s) \in Nat /\ Len(s) >= 1 /\ Len(s) \in 1..Len(s)
  BY <1>0, <1>1 DEF WorkerOK, Placed, InCall, WorkerRec
<1>3. r.hops \in Nat /\ hop \in 0..MaxHops /\ hop > r.hops /\ hop \in Nat
  BY <1>0, <1>1, SdkAssumption DEF WorkerRec
<1>4. PICK c \in BOOLEAN : c = IF owning = {} THEN ctx[w] ELSE s[Max(owning)].was
  <2>1. CASE owning = {}  BY <2>1, <1>0
  <2>2. CASE owning # {}
    <3>1. owning \subseteq 1..Len(s)  BY <1>2
    <3>2. Max(owning) \in 1..Len(s)
      <4> HIDE DEF owning
      <4> QED  BY <1>2, <2>2, <3>1, MaxBelow
    <3>3. s[Max(owning)].was \in BOOLEAN
      <4> HIDE DEF owning, s, r
      <4>1. s[Max(owning)] \in Frames  BY <1>2, <3>2
      <4> QED  BY <4>1 DEF Frames
    <3> QED  BY <2>2, <3>3
  <2> QED  BY <2>1, <2>2
<1> DEFINE depth == tls[ThreadOf[w]] - Cardinality(owning)
<1> DEFINE f == Frame(w, "requests", r.host, hop, c, depth)
<1> DEFINE b == Bottom(s)
<1> DEFINE q == [r EXCEPT !.stack = <<f, b>>, !.hops = hop, !.outcome = "none", !.pc = "enter"]
<1>5. ctx' = [ctx EXCEPT ![w] = c] /\ worker' = [worker EXCEPT ![w] = q]
  <2>1. /\ ctx' = [ctx EXCEPT ![w] = IF owning = {} THEN ctx[w] ELSE s[Max(owning)].was]
        /\ worker' = [worker EXCEPT
             ![w].stack = <<Frame(w, "requests", r.host, hop, IF owning = {} THEN ctx[w] ELSE s[Max(owning)].was, depth), b>>,
             ![w].hops = hop, ![w].outcome = "none", ![w].pc = "enter"]
    BY Zenon DEF FollowRedirect
  <2>2. ctx' = [ctx EXCEPT ![w] = c] /\ worker' = [worker EXCEPT ![w].stack = <<f, b>>, ![w].hops = hop, ![w].outcome = "none", ![w].pc = "enter"]
    <3> HIDE DEF owning, hop, depth, b
    <3> QED  BY <2>1, <1>4, Zenon
  <2>3. worker \in [Workers -> WorkerRec]  BY DEF IInv, WellTyped
  <2> HIDE DEF f, b, hop, WorkerRec
  <2> QED  BY <2>2, <2>3
<1>6. b \in Frames  BY <1>2 DEF Bottom
<1>7. f \in Frames /\ f.lib = "requests" /\ f.hop = hop /\ (f.rec => f.own)
  <2>1. "requests" \in DOMAIN Hooks /\ "requests" \notin Leaves \cup Early  BY HooksAre DEF Leaves, Early
  <2>2. PICK k \in 0..MaxHops : k = hop  BY <1>3
  <2>3. PICK x \in DOMAIN Hooks : x = "requests"  BY <2>1
  <2>4. PICK h, d, fr : h = r.host /\ d = depth /\ fr = f  OBVIOUS
  <2>5. fr = Frame(w, x, h, k, c, d)  BY <2>2, <2>3, <2>4
  <2> HIDE DEF f, hop, r, depth
  <2>6. fr \in Frames /\ fr.lib = x /\ fr.hop = k /\ (fr.rec => fr.own \/ x \in Leaves \cup Early)
    BY <2>5, FrameFacts
  <2> QED  BY <2>1, <2>2, <2>3, <2>4, <2>6
<1> HIDE DEF f, b, hop, depth
<1>8. <<f, b>> \in Seq(Frames) /\ Len(<<f, b>>) = 2 /\ <<f, b>>[1] = f /\ <<f, b>>[2] = b /\ <<f, b>> # <<>>
      /\ Bottom(<<f, b>>) = b
  BY <1>6, <1>7 DEF Bottom
<1>9. q \in WorkerRec  BY <1>0, <1>3, <1>8 DEF WorkerRec, Pcs, Results
<1>10. /\ q.n = r.n /\ q.hops = hop /\ q.host = r.host /\ q.shields = r.shields /\ q.opened = r.opened
       /\ q.own_run = r.own_run /\ q.pc = "enter" /\ q.outcome = "none" /\ q.stack = <<f, b>>
  BY <1>0 DEF WorkerRec
<1> DEFINE t == <<f, b>>
<1>11. /\ \A i \in 1..Len(t) : i = 1 \/ i = 2
       /\ t[1] = f /\ t[2] = b /\ 1 \in 1..Len(t) /\ t # <<>> /\ Bottom(t) = b
  BY <1>8
<1> HIDE DEF q, t, m
<1>12. q.stack = t  BY <1>10 DEF t
<1>13. b.hop = 0 /\ hop # 0 /\ b.hop <= hop /\ f.hop <= hop
  BY <1>0, <1>2, <1>3, <1>7 DEF WorkerOK, Placed, b
<1>14. InCall(q)  BY <1>10 DEF InCall
<1>15. Placed(q)
  BY <1>0, <1>2, <1>7, <1>10, <1>11, <1>12, <1>13, <1>14 DEF WorkerOK, Placed
<1>16. Single(t)  BY <1>7, <1>11, <1>13 DEF Single
<1>17. Owns(t, c)  BY <1>7, <1>11, <1>13 DEF Owns
<1>18. b.rec => b.lib \notin Early
  BY <1>0, <1>1, <1>2 DEF WorkerOK, Prompt, b, Bottom
<1>19. Prompt(q)
  <2>1. f.lib \notin Early  BY <1>7 DEF Early
  <2> QED  BY <2>1, <1>11, <1>12, <1>18 DEF Prompt
<1>20. Unrecorded(q, w, m)
  <2>1. Unrecorded(r, w, m)  BY <1>0 DEF WorkerOK
  <2>2. \A j \in Nat : <<w, r.n, j>> \in Ids(m.calls) => j <= r.hops  BY <2>1, <1>2 DEF Unrecorded
  <2>3. \A j \in Nat : j <= r.hops => j <= hop /\ j # hop  BY <1>3
  <2>4. Libs(m.calls, <<w, r.n, hop>>) = {}  BY <2>2, <2>3, <1>3, LibsIds
  <2>5. b.rec => \A l \in Libs(m.calls, <<w, r.n, b.hop>>) : <<l, b.lib>> \in Later
    BY <2>1, <1>2 DEF Unrecorded, b, Bottom
  <2> HIDE DEF r, s
  <2>6. \A i \in 1..Len(t) : t[i].rec => \A l \in Libs(m.calls, <<w, q.n, t[i].hop>>) : <<l, t[i].lib>> \in Later
    BY <2>4, <2>5, <1>7, <1>10, <1>11
  <2>7. \A l \in Libs(m.calls, <<w, q.n, t[1].hop>>) : <<l, t[1].lib>> \in Onward
    BY <2>4, <1>7, <1>10, <1>11
  <2> QED  BY <2>2, <2>3, <2>6, <2>7, <1>10, <1>12 DEF Unrecorded
<1>21. OwnRun(q, w, m)
  <2>1. OwnRun(r, w, m)  BY <1>0 DEF WorkerOK
  <2> QED  BY <2>1, <1>1, <1>10, <1>11, <1>12 DEF OwnRun, b
<1>22. Noting(q, w, home)  BY <1>10 DEF Noting
<1>23. WorkerOK(q, w, c, sdk[Process(w)], home)
  BY <1>12, <1>15, <1>16, <1>17, <1>19, <1>20, <1>21, <1>22 DEF WorkerOK, m
<1>24. q.shields = worker[w].shields /\ q.n >= worker[w].n  BY <1>0, <1>10
<1> HIDE DEF r, s
<1> QED  BY <1>1, <1>5, <1>9, <1>23, <1>24, MovedAlone

LEMMA ReturnKeeps ==
  ASSUME IInv, NEW w \in Workers, Return(w)
  PROVE  IInv'
<1> DEFINE p == Process(w)
<1> DEFINE r == worker[w]
<1> DEFINE s == r.stack
<1> DEFINE m == sdk[p]
<1> DEFINE n == Leaving(s)
<1> DEFINE owning == {i \in 1..n : s[i].own}
<1>0. /\ r \in WorkerRec /\ WorkerOK(r, w, ctx[w], m, home) /\ ctx[w] \in BOOLEAN /\ r.n \in Nat
      /\ m \in Mem /\ p \in Procs /\ owed[p] \in SUBSET Calls /\ MemOK(p, m, owed[p])
      /\ Listed(p, worker, m) /\ home \in Home /\ HomeOK(home)
  BY Before
<1>1. r.pc = "return" /\ UNCHANGED <<sdk, home>>  BY DEF Return
<1>2. s # <<>> /\ s \in Seq(Frames) /\ InCall(r)
  BY <1>0, <1>1 DEF WorkerOK, Placed, InCall, WorkerRec
<1>3. n \in 1..Len(s) /\ (n # Len(s) => s[n].rec)
  BY <1>2, LeavingFacts
<1>4. PICK c \in BOOLEAN : ctx' = [ctx EXCEPT ![w] = c]
  <2>1. ctx' = [ctx EXCEPT ![w] = IF owning = {} THEN @ ELSE s[Max(owning)].was]
    BY DEF Return
  <2>2. CASE owning = {}
    BY <2>1, <2>2, <1>0
  <2>3. CASE owning # {}
    <3>1. owning \subseteq 1..Len(s)  BY <1>3
    <3>2. Max(owning) \in 1..Len(s)
      <4>1. Len(s) \in Nat  BY <1>2
      <4> HIDE DEF owning
      <4> QED  BY <4>1, <2>3, <3>1, MaxBelow
    <3>3. PICK i \in 1..Len(s) : i = Max(owning)  BY <3>2
    <3>4. s[Max(owning)].was \in BOOLEAN
      <4> HIDE DEF owning, s, r
      <4>1. s[i] \in Frames  BY <1>2
      <4> QED  BY <3>3, <4>1 DEF Frames
    <3>5. ctx' = [ctx EXCEPT ![w] = s[Max(owning)].was]  BY <2>1, <2>3
    <3> QED  BY <3>4, <3>5
  <2> QED  BY <2>2, <2>3
<1> DEFINE ends == n = Len(s) /\ ~s[n].rec
<1> DEFINE sent == ends /\ s[n].lib \in Connected /\ r.outcome = "ok"
<1>e. PICK e \in BOOLEAN : e = ends  BY DEF ends
<1>x. PICK x \in BOOLEAN : x = (r.conn.sent \/ sent)  OBVIOUS
<1>y. PICK y \in BOOLEAN : y = (r.own_run /\ ~ends)  OBVIOUS
<1> DEFINE st == IF e THEN <<>> ELSE <<[s[n] EXCEPT !.own = FALSE]>> \o SubSeq(s, n + 1, Len(s))
<1> DEFINE pc == IF e THEN "idle" ELSE "append"
<1> DEFINE host == IF e THEN NoOne ELSE r.host
<1> DEFINE out == IF e THEN "none" ELSE r.outcome
<1>s. worker' = [worker EXCEPT ![w] = [r EXCEPT !.stack = st, !.pc = pc, !.conn = [r.conn EXCEPT !.sent = x],
                                                !.host = host, !.own_run = y, !.outcome = out]]
  <2>1. worker' = [worker EXCEPT
       ![w].stack = IF ends THEN <<>> ELSE <<[s[n] EXCEPT !.own = FALSE]>> \o SubSeq(s, n + 1, Len(s)),
       ![w].pc = IF ends THEN "idle" ELSE "append",
       ![w].conn.sent = @ \/ sent,
       ![w].host = IF ends THEN NoOne ELSE @, ![w].own_run = @ /\ ~ends,
       ![w].outcome = IF ends THEN "none" ELSE @]
    BY Zenon DEF Return
  <2>2. worker' = [worker EXCEPT
       ![w].stack = IF e THEN <<>> ELSE <<[s[n] EXCEPT !.own = FALSE]>> \o SubSeq(s, n + 1, Len(s)),
       ![w].pc = IF e THEN "idle" ELSE "append",
       ![w].conn.sent = x,
       ![w].host = IF e THEN NoOne ELSE @, ![w].own_run = y,
       ![w].outcome = IF e THEN "none" ELSE @]
    BY <2>1, <1>e, <1>x, <1>y, Zenon
  <2>3. worker' = [worker EXCEPT ![w].stack = st, ![w].pc = pc, ![w].conn.sent = x, ![w].host = host,
                                 ![w].own_run = y, ![w].outcome = out]
    BY <2>2, Zenon
  <2>4. worker \in [Workers -> WorkerRec]  BY DEF IInv, WellTyped
  <2> HIDE DEF n, ends, sent, st, pc, host, out, WorkerRec
  <2>5. PICK a : a = [worker[w] EXCEPT !.stack = st, !.pc = pc]  OBVIOUS
  <2>6. [worker EXCEPT ![w].stack = st, ![w].pc = pc] = [worker EXCEPT ![w] = a]  BY <2>4, <2>5
  <2>7. PICK b : b = [a EXCEPT !.conn.sent = x, !.host = host]  OBVIOUS
  <2>8. [[worker EXCEPT ![w] = a] EXCEPT ![w].conn.sent = x, ![w].host = host] = [worker EXCEPT ![w] = b]
    BY <2>4, <2>7
  <2>9. PICK d : d = [b EXCEPT !.own_run = y, !.outcome = out]  OBVIOUS
  <2>10. [[worker EXCEPT ![w] = b] EXCEPT ![w].own_run = y, ![w].outcome = out] = [worker EXCEPT ![w] = d]
    BY <2>4, <2>9
  <2>11. worker' = [[[worker EXCEPT ![w].stack = st, ![w].pc = pc] EXCEPT ![w].conn.sent = x, ![w].host = host]
                     EXCEPT ![w].own_run = y, ![w].outcome = out]
    BY <2>3, Zenon
  <2>12. worker' = [worker EXCEPT ![w] = d]  BY <2>6, <2>8, <2>10, <2>11, Zenon
  <2>13. d = [r EXCEPT !.stack = st, !.pc = pc, !.conn = [r.conn EXCEPT !.sent = x],
                       !.host = host, !.own_run = y, !.outcome = out]
    <3>1. r = [pc |-> r.pc, stack |-> r.stack, n |-> r.n, hops |-> r.hops, host |-> r.host, outcome |-> r.outcome,
               shields |-> r.shields, opened |-> r.opened, known |-> r.known, conn |-> r.conn, own_run |-> r.own_run]
      BY <1>0 DEF WorkerRec
    <3> QED  BY <3>1, <2>5, <2>7, <2>9
  <2> QED  BY <2>12, <2>13
<1>5. CASE ends
  <2> DEFINE q == [r EXCEPT !.stack = <<>>, !.pc = "idle", !.conn = [r.conn EXCEPT !.sent = x], !.host = NoOne,
                            !.own_run = FALSE, !.outcome = "none"]
  <2>1. worker' = [worker EXCEPT ![w] = q]
    <3>1. e = TRUE /\ y = FALSE  BY <1>5, <1>e, <1>y
    <3> HIDE DEF n, ends
    <3> QED  BY <1>s, <3>1
  <2>2. q \in WorkerRec
    <3> DEFINE cn == [r.conn EXCEPT !.sent = x]
    <3>1. cn \in Conn  BY <1>0 DEF WorkerRec, Conn
    <3>2. <<>> \in Seq(Frames)  OBVIOUS
    <3> HIDE DEF cn
    <3>3. [r EXCEPT !.stack = <<>>, !.pc = "idle", !.conn = cn, !.host = NoOne, !.own_run = FALSE,
                    !.outcome = "none"] \in WorkerRec
      BY <1>0, <3>1, <3>2 DEF WorkerRec, Pcs, Results
    <3> QED  BY <3>3 DEF cn
  <2>3. /\ q.n = r.n /\ q.shields = r.shields /\ q.opened = r.opened /\ q.own_run = FALSE /\ q.pc = "idle" /\ q.stack = <<>>
        /\ q.outcome = "none"
    BY <1>0 DEF WorkerRec
  <2> HIDE DEF q
  <2>4. WorkerOK(q, w, c, m, home)
    BY <2>2, <2>3, <1>0, IdleOK DEF WorkerOK, Placed
  <2> DEFINE o == IF r.own_run /\ s[n].lib \in Outer /\ in_scope(r.host) /\ r.outcome # "cancelled"
                  THEN owed[p] \cup {<<w, r.n, 0>>} ELSE owed[p]
  <2>5. owed' = [owed EXCEPT ![p] = o]
    <3>1. owed = [owed EXCEPT ![p] = owed[p]]  BY <1>0 DEF IInv, WellTyped
    <3>2. CASE r.own_run /\ s[n].lib \in Outer /\ in_scope(r.host) /\ r.outcome # "cancelled"
      BY <3>2, <1>5 DEF Return
    <3>3. CASE ~(r.own_run /\ s[n].lib \in Outer /\ in_scope(r.host) /\ r.outcome # "cancelled")
      <4>1. owed' = owed  BY <3>3, <1>5 DEF Return
      <4> QED  BY <4>1, <3>1, <3>3
    <3> QED  BY <3>2, <3>3
  <2>6. o \subseteq Calls
    <3>1. r.n \in 1..MaxCalls  BY <1>0, <1>2 DEF WorkerOK, Placed
    <3> QED  BY <1>0, <3>1, SdkAssumption DEF Calls
  <2>7. MemOK(p, m, o)
    <3>1. CASE r.own_run /\ s[n].lib \in Outer /\ in_scope(r.host) /\ r.outcome # "cancelled"
      <4>1. <<w, r.n, 0>> \in Ids(m.calls)
        BY <1>0, <1>5, <3>1 DEF WorkerOK, OwnRun, Bottom
      <4>2. r.shields > 0 \/ (p \in Wrapped /\ m.life = "on")
        BY <1>0, <3>1 DEF WorkerOK, OwnRun
      <4>3. m.depth > 0  BY <4>2, OpenInstalled
      <4> QED  BY <1>0, <3>1, <4>1, <4>3 DEF MemOK
    <3>2. CASE ~(r.own_run /\ s[n].lib \in Outer /\ in_scope(r.host) /\ r.outcome # "cancelled")
      BY <1>0, <3>2
    <3> QED  BY <3>1, <3>2
  <2>8. \A v \in Workers \ {w} : Spared(m, m, v) /\ Locked(home, home, v)
    BY DEF Spared, Locked
  <2>9. sdk' = [sdk EXCEPT ![p] = m] /\ home' = home
    BY <1>0, <1>1 DEF IInv, WellTyped
  <2>10. Made(w, q.n, m)
    BY <1>0, <2>3 DEF Listed, Made
  <2>11. q.n >= r.n  BY <2>3, <1>0
  <2> HIDE DEF o, m
  <2> QED  BY <1>0, <1>4, <2>1, <2>2, <2>3, <2>4, <2>5, <2>6, <2>7, <2>8, <2>9, <2>10, <2>11, Stepped DEF m
<1>6. CASE ~ends
  <2> DEFINE g == [s[n] EXCEPT !.own = FALSE]
  <2> DEFINE t == <<g>> \o SubSeq(s, n + 1, Len(s))
  <2> DEFINE q == [r EXCEPT !.stack = t, !.pc = "append"]
  <2>0. s[n].rec /\ s[n] \in Frames  BY <1>2, <1>3, <1>6
  <2>1. g \in Frames /\ g.rec = s[n].rec /\ g.lib = s[n].lib /\ g.hop = s[n].hop  BY <2>0 DEF Frames
  <2>2. t \in Seq(Frames) /\ Len(t) = Len(s) - n + 1 /\ t[1] = g /\ \A i \in 2..Len(t) : t[i] = s[i + n - 1]
    <3> HIDE DEF g, s, n
    <3> QED  BY <1>2, <1>3, <2>1, CutOff
  <2>4. worker' = [worker EXCEPT ![w] = q]
    <3>1. r.own_run \in BOOLEAN /\ r.conn.sent \in BOOLEAN  BY <1>0 DEF WorkerRec, Conn
    <3>2. e = FALSE /\ ~ends /\ ~sent  BY <1>6, <1>e DEF sent
    <3>3. x = r.conn.sent /\ y = r.own_run
      <4> HIDE DEF ends, sent
      <4> QED  BY <3>1, <3>2, <1>x, <1>y
    <3>4. st = t /\ pc = "append" /\ host = r.host /\ out = r.outcome  BY <3>2
    <3>5. [r.conn EXCEPT !.sent = x] = r.conn  BY <1>0, <3>3 DEF WorkerRec, Conn
    <3> HIDE DEF t, st, pc, host, out
    <3> QED  BY <1>s, <3>3, <3>4, <3>5, <1>0 DEF WorkerRec
  <2>5. \A i \in 1..Len(t) : /\ i + n - 1 \in 1..Len(s) /\ t[i].rec = s[i + n - 1].rec
                             /\ t[i].lib = s[i + n - 1].lib /\ t[i].hop = s[i + n - 1].hop
    <3> TAKE i \in 1..Len(t)
    <3> HIDE DEF t, g, s, n
    <3>a. Len(s) \in Nat /\ n \in Nat /\ i \in Nat /\ Len(t) \in Nat  BY <1>2, <1>3, <2>2
    <3>b. i + n - 1 \in 1..Len(s)  BY <3>a, <2>2, <1>3
    <3>1. CASE i = 1
      <4>1. i + n - 1 = n  BY <3>1, <3>a
      <4> QED  BY <4>1, <3>1, <3>b, <2>1, <2>2
    <3>2. CASE i # 1
      <4>1. i \in 2..Len(t)  BY <3>2, <3>a
      <4> QED  BY <4>1, <3>b, <2>2
    <3> QED  BY <3>1, <3>2
  <2> HIDE DEF t, g
  <2>6. q \in WorkerRec  BY <1>0, <2>2 DEF WorkerRec, Pcs
  <2>7. /\ q.n = r.n /\ q.hops = r.hops /\ q.host = r.host /\ q.shields = r.shields /\ q.opened = r.opened
        /\ q.own_run = r.own_run /\ q.pc = "append" /\ q.outcome = r.outcome /\ q.stack = t
    BY <1>0 DEF WorkerRec
  <2> HIDE DEF q, m, n
  <2>3. Bottom(t).rec = Bottom(s).rec /\ Bottom(t).lib = Bottom(s).lib /\ Bottom(t).hop = Bottom(s).hop
        /\ t # <<>> /\ 1 \in 1..Len(t) /\ InCall(q)
    <3>1. Len(s) \in Nat /\ n \in 1..Len(s)  BY <1>2, <1>3
    <3>2. Len(t) \in 1..Len(t) /\ Len(t) + n - 1 = Len(s) /\ 1 \in 1..Len(t)
      <4> HIDE DEF s
      <4> QED  BY <3>1, <2>2
    <3> QED  BY <3>2, <2>2, <2>5, <2>7 DEF Bottom, InCall
  <2>8. Placed(q)
    <3>1. Placed(r)  BY <1>0 DEF WorkerOK
    <3>2. r.outcome # "cancelled"  BY <3>1, <1>3, <2>0 DEF Placed
    <3>3. \A i \in 1..Len(t) : t[i].hop <= q.hops  BY <3>1, <1>2, <2>5, <2>7 DEF Placed
    <3>4. q.stack # <<>> /\ q.host \in Hosts /\ q.n \in 1..MaxCalls /\ Bottom(q.stack).hop = 0
      BY <3>1, <1>2, <2>3, <2>7 DEF Placed
    <3>5. q.shields <= q.opened  BY <3>1, <2>7 DEF Placed
    <3> QED  BY <3>2, <3>3, <3>4, <3>5, <2>3, <2>7 DEF Placed
  <2>9. Single(t)
    <3> SUFFICES ASSUME NEW i \in 1..Len(t), NEW j \in 1..Len(t), t[i].rec, t[j].rec, t[i].hop = t[j].hop PROVE i = j
      BY DEF Single
    <3>1. /\ i + n - 1 \in 1..Len(s) /\ j + n - 1 \in 1..Len(s) /\ s[i + n - 1].rec /\ s[j + n - 1].rec
          /\ s[i + n - 1].hop = s[j + n - 1].hop
      BY <2>5
    <3>2. i + n - 1 = j + n - 1  BY <1>0, <3>1 DEF WorkerOK, Single
    <3> QED  BY <3>2, <1>3, <2>2
  <2>10. \A i \in 1..Len(t) : t[i].rec => t[i].lib \notin Early
    BY <1>0, <1>1, <2>5 DEF WorkerOK, Prompt
  <2>11. t[1].rec  BY <2>0, <2>1, <2>2
  <2>12. Prompt(q) /\ Noting(q, w, home)  BY <2>3, <2>7, <2>10, <2>11 DEF Prompt, Noting
  <2>13. WorkerOK(q, w, c, sdk[Process(w)], home)
    <3>1. Unrecorded(q, w, m)
      <4>1. Unrecorded(r, w, m)  BY <1>0 DEF WorkerOK
      <4>2. ~Down(q)  BY <2>3, <2>7, <2>10, <2>11 DEF Down
      <4>3. \A j \in Nat : <<w, r.n, j>> \in Ids(m.calls) => j <= r.hops  BY <4>1, <1>2 DEF Unrecorded
      <4>4. ASSUME NEW i \in 1..Len(t), t[i].rec
            PROVE  \A l \in Libs(m.calls, <<w, r.n, t[i].hop>>) : <<l, t[i].lib>> \in Later
        <5>1. i + n - 1 \in 1..Len(s) /\ s[i + n - 1].rec /\ t[i].lib = s[i + n - 1].lib /\ t[i].hop = s[i + n - 1].hop
          BY <2>5, <4>4
        <5> QED  BY <5>1, <4>1 DEF Unrecorded
      <4> HIDE DEF r, s
      <4> QED  BY <4>2, <4>3, <4>4, <2>7 DEF Unrecorded
    <3>2. OwnRun(q, w, m)
      <4>1. OwnRun(r, w, m)  BY <1>0 DEF WorkerOK
      <4> QED  BY <4>1, <2>3, <2>7 DEF OwnRun
    <3> QED  BY <3>1, <3>2, <2>7, <2>8, <2>9, <2>12 DEF WorkerOK, m
  <2>14. owed' = owed  BY <1>6 DEF Return, n
  <2>15. q.n >= worker[w].n /\ q.shields = worker[w].shields  BY <2>7, <1>0
  <2> HIDE DEF r, s
  <2> QED  BY <1>1, <1>4, <2>4, <2>6, <2>13, <2>14, <2>15, MovedAlone
<1> QED  BY <1>5, <1>6

LEMMA RecordKeeps ==
  ASSUME IInv, NEW w \in Workers, Record(w)
  PROVE  IInv'
<1> DEFINE p == Process(w)
<1> DEFINE r == worker[w]
<1> DEFINE s == r.stack
<1> DEFINE m == sdk[p]
<1> DEFINE id == <<w, r.n, s[1].hop>>
<1> DEFINE waits == s[1].lib = "putrequest" \/ (s[1].lib = "http_client" /\ r.outcome = "ok")
<1> DEFINE skip == ~s[1].rec \/ (waits /\ r.conn.pending # NoOne)
<1>0. /\ r \in WorkerRec /\ WorkerOK(r, w, ctx[w], m, home) /\ ctx[w] \in BOOLEAN /\ r.n \in Nat
      /\ m \in Mem /\ p \in Procs /\ owed[p] \in SUBSET Calls /\ MemOK(p, m, owed[p])
      /\ Listed(p, worker, m) /\ home \in Home /\ HomeOK(home) /\ ctx = [ctx EXCEPT ![w] = ctx[w]]
  BY Before
<1>1. r.pc = "append" /\ UNCHANGED <<ctx, home, owed>>  BY DEF Record
<1>2. s # <<>> /\ s \in Seq(Frames) /\ InCall(r) /\ Top(w) = s[1] /\ s[1] \in Frames /\ Len(s) \in Nat /\ Len(s) >= 1
      /\ r.n \in 1..MaxCalls
  BY <1>0, <1>1 DEF WorkerOK, Placed, InCall, WorkerRec, Top
<1>h. s[1].hop \in 0..MaxHops /\ s[1].hop \in Nat
  <2>1. s[1].hop \in 0..MaxHops
    <3> HIDE DEF s
    <3> QED  BY <1>2 DEF Frames
  <2> QED  BY <2>1, SdkAssumption
<1>3. id \in Calls  BY <1>2, <1>h DEF Calls
<1> DEFINE g == [s[1] EXCEPT !.rec = FALSE]
<1> DEFINE t == <<g>> \o Tail(s)
<1> DEFINE pend == IF waits /\ ~skip THEN id ELSE r.conn.pending
<1> DEFINE pc == IF skip THEN IF s[1].lib \in Early /\ ~s[1].invoked THEN "enter" ELSE "return" ELSE "lock"
<1> DEFINE q == [r EXCEPT !.stack = t, !.conn = [r.conn EXCEPT !.pending = pend], !.pc = pc]
<1>4. g \in Frames /\ ~g.rec /\ g.lib = s[1].lib /\ g.hop = s[1].hop /\ g.own = s[1].own /\ g.invoked = s[1].invoked
  BY <1>2 DEF Frames
<1>5. t \in Seq(Frames) /\ Len(t) = Len(s) /\ t[1] = g /\ \A i \in 2..Len(s) : t[i] = s[i]
  <2> HIDE DEF s, g
  <2> QED  BY <1>2, <1>4, Replaced
<1>6. worker' = [worker EXCEPT ![w] = q]
  <2>1. worker' = [worker EXCEPT ![w].stack = t, ![w].conn.pending = pend, ![w].pc = pc]
    <3>1. worker' = [worker EXCEPT
             ![w].stack = <<[Top(w) EXCEPT !.rec = FALSE]>> \o Tail(@),
             ![w].conn.pending =
               IF (Top(w).lib = "putrequest" \/ (Top(w).lib = "http_client" /\ r.outcome = "ok"))
                  /\ ~(~Top(w).rec \/ ((Top(w).lib = "putrequest" \/ (Top(w).lib = "http_client" /\ r.outcome = "ok"))
                                       /\ r.conn.pending # NoOne))
               THEN <<w, r.n, Top(w).hop>> ELSE @,
             ![w].pc = IF ~Top(w).rec \/ ((Top(w).lib = "putrequest" \/ (Top(w).lib = "http_client" /\ r.outcome = "ok"))
                                          /\ r.conn.pending # NoOne)
                       THEN IF Top(w).lib \in Early /\ ~Top(w).invoked THEN "enter" ELSE "return"
                       ELSE "lock"]
      BY Zenon DEF Record, After
    <3> QED  BY <3>1, <1>2, Zenon
  <2>2. worker \in [Workers -> WorkerRec]  BY DEF IInv, WellTyped
  <2> HIDE DEF t, pend, pc, WorkerRec
  <2> QED  BY <2>1, <2>2
<1>7. q \in WorkerRec
  <2>1. [r.conn EXCEPT !.pending = pend] \in Conn  BY <1>0, <1>3 DEF WorkerRec, Conn
  <2>2. pc \in Pcs  BY DEF Pcs
  <2> DEFINE cn == [r.conn EXCEPT !.pending = pend]
  <2>3. cn \in Conn  BY <2>1
  <2> HIDE DEF cn, pc, t, s
  <2>4. [r EXCEPT !.stack = t, !.conn = cn, !.pc = pc] \in WorkerRec  BY <1>0, <1>5, <2>2, <2>3 DEF WorkerRec
  <2> QED  BY <2>4 DEF cn
<1>8. /\ q.n = r.n /\ q.hops = r.hops /\ q.host = r.host /\ q.shields = r.shields /\ q.opened = r.opened
      /\ q.own_run = r.own_run /\ q.pc = pc /\ q.stack = t /\ q.known = r.known /\ q.outcome = r.outcome
  <2> HIDE DEF t, pc, s, pend
  <2> QED  BY <1>0 DEF WorkerRec
<1>9. \A i \in 1..Len(t) : /\ t[i].lib = s[i].lib /\ t[i].hop = s[i].hop /\ t[i].invoked = s[i].invoked
                           /\ t[i].rec => i # 1 /\ s[i].rec
  <2> TAKE i \in 1..Len(t)
  <2> HIDE DEF t, g, s
  <2>1. CASE i = 1  BY <2>1, <1>4, <1>5
  <2>2. CASE i # 1
    <3>1. i \in 2..Len(s)  BY <2>2, <1>2, <1>5
    <3>2. t[i] = s[i]  BY <3>1, <1>5
    <3> QED  BY <3>2, <2>2
  <2> QED  BY <2>1, <2>2
<1>10. Len(s) \in 1..Len(s) /\ 1 \in 1..Len(s) /\ t # <<>> /\ Len(t) = Len(s) /\ Bottom(t) = t[Len(s)]
  BY <1>2, <1>5 DEF Bottom
<1>11. pc = "enter" => s[1].lib \in Early /\ ~s[1].invoked  OBVIOUS
<1>12. pc \in {"enter", "return", "lock"} /\ (skip <=> pc # "lock")  OBVIOUS
<1>a. \A i \in 1..Len(t) : t[i].rec => t[i].lib \notin Early
  BY <1>0, <1>1, <1>5, <1>9, <1>10 DEF WorkerOK, Prompt, s
<1>b. s[1].lib \in Early => \A i \in 1..Len(s) : s[i].lib \in Early
  BY <1>0, <1>2 DEF WorkerOK, Prompt, s
<1> HIDE DEF q
<1>13. Placed(q) /\ Single(q.stack) /\ (q.pc = "enter" => Owns(q.stack, ctx[w])) /\ Prompt(q) /\ Noting(q, w, home)
  <2> HIDE DEF pc, t, s, skip
  <2>1. Placed(q)
    <3>1. Placed(r)  BY <1>0 DEF WorkerOK
    <3>2. r.outcome # "cancelled"  BY <3>1, <1>1 DEF Placed
    <3>3. Bottom(t).hop = Bottom(s).hop  BY <1>9, <1>10 DEF Bottom
    <3> HIDE DEF r
    <3> QED  BY <3>1, <3>2, <3>3, <1>2, <1>8, <1>9, <1>10, <1>12 DEF Placed, InCall, s
  <2>2. Single(q.stack)
    <3>1. Single(s)  BY <1>0 DEF WorkerOK, s
    <3> HIDE DEF r
    <3> QED  BY <3>1, <1>8, <1>9, <1>10 DEF Single
  <2>3. q.pc = "enter" => Owns(q.stack, ctx[w])
    <3>1. q.pc = "enter" => \A i \in 1..Len(t) : ~t[i].rec  BY <1>8, <1>9, <1>10, <1>11, <1>a, <1>b
    <3> QED  BY <3>1, <1>8 DEF Owns
  <2>4. Prompt(q) /\ Noting(q, w, home)  BY <1>8, <1>9, <1>10, <1>12, <1>a, <1>b DEF Prompt, Noting
  <2> QED  BY <2>1, <2>2, <2>3, <2>4
<1>15. q.shields = worker[w].shields /\ q.n >= worker[w].n  BY <1>0, <1>8
<1>c. Unrecorded(r, w, m) /\ OwnRun(r, w, m) /\ Single(s)  BY <1>0 DEF WorkerOK
<1>d. Down(q) => Down(r) /\ s[1].lib \in Early
  <2>1. t[1].lib = s[1].lib /\ t[1].invoked = s[1].invoked  BY <1>9, <1>10
  <2> HIDE DEF pc, t, skip
  <2> QED  BY <2>1, <1>1, <1>8, <1>11, <1>12 DEF Down
<1>e. Bottom(t).lib = Bottom(s).lib /\ (Bottom(s).rec => Bottom(t).rec \/ (Len(s) = 1 /\ s[1].rec))
  <2>1. Bottom(t) = t[Len(s)] /\ Bottom(s) = s[Len(s)] /\ Len(s) \in 1..Len(t)
    <3> HIDE DEF t, s
    <3> QED  BY <1>10 DEF Bottom
  <2>2. CASE Len(s) = 1
    <3>1. Bottom(t) = t[1] /\ Bottom(s) = s[1] /\ 1 \in 1..Len(t)  BY <2>1, <2>2
    <3>2. t[1].lib = s[1].lib  BY <3>1, <1>9
    <3> HIDE DEF t, s
    <3> QED  BY <3>1, <3>2, <2>2
  <2>3. CASE Len(s) # 1
    <3>1. PICK k \in Nat : k = Len(s) /\ k >= 1 /\ k # 1  BY <2>3, <1>2
    <3> HIDE DEF t, s
    <3>2. k \in 2..k  BY <3>1
    <3> QED  BY <3>1, <3>2, <2>1, <1>5
  <2> QED  BY <2>2, <2>3
<1>16. CASE skip
  <2>1. UNCHANGED sdk  BY <1>16, <1>2 DEF Record
  <2>2. OwnRun(q, w, m)
    <3>1. Len(s) = 1 /\ s[1].rec => s[1].lib \notin Outer
      BY <1>16 DEF Outer, Hooks, Hook, http_client, putrequest
    <3>3. Bottom(s).lib \in Outer /\ ~Bottom(t).rec => ~Bottom(s).rec
      BY <3>1, <1>e DEF Bottom
    <3> HIDE DEF t, m
    <3> QED  BY <1>e, <3>3, <1>8, <1>c DEF OwnRun
  <2>3. Unrecorded(q, w, m)
    <3>1. \A i \in 1..Len(t) : t[i].rec => i \in 1..Len(s) /\ s[i].rec  BY <1>9, <1>10
    <3>2. t[1].lib = s[1].lib /\ t[1].hop = s[1].hop  BY <1>9, <1>10
    <3>3. InCall(q) => InCall(r)  BY <1>2
    <3> HIDE DEF t, m, pc
    <3> QED  BY <3>1, <3>2, <3>3, <1>8, <1>9, <1>10, <1>c, <1>d DEF Unrecorded
  <2>4. WorkerOK(q, w, ctx[w], sdk[Process(w)], home)
    BY <2>2, <2>3, <1>13 DEF WorkerOK
  <2> HIDE DEF r
  <2> QED  BY <1>0, <1>1, <1>6, <1>7, <1>15, <2>1, <2>4, MovedAlone
<1>17. CASE ~skip
  <2> DEFINE status == IF s[1].lib = "http_client" /\ r.outcome = "ok" THEN "none" ELSE r.outcome
  <2> DEFINE rec == [id |-> id, lib |-> s[1].lib, status |-> status]
  <2> DEFINE m2 == [m EXCEPT !.calls = @ \cup {rec}]
  <2>1. sdk' = [sdk EXCEPT ![p] = m2]
    <3>1. sdk' = [sdk EXCEPT ![p].calls = @ \cup {rec}]
      BY <1>17, <1>2 DEF Record
    <3>2. sdk \in [Procs -> Mem]  BY DEF IInv, WellTyped
    <3> HIDE DEF rec, Mem
    <3> QED  BY <3>1, <3>2
  <2>2. rec \in CallRec
    <3>1. status \in Results  BY <1>0 DEF WorkerRec, Results
    <3>2. s[1].lib \in DOMAIN Hooks  BY <1>2 DEF Frames
    <3> HIDE DEF status, s, id
    <3> QED  BY <3>1, <3>2, <1>3 DEF CallRec
  <2>3. m2 \in Mem
    <3> HIDE DEF rec
    <3> QED  BY <1>0, <2>2 DEF Mem
  <2>4. m2.calls = m.calls \cup {rec} /\ m2.depth = m.depth /\ m2.life = m.life /\ m2.trace = m.trace
    <3> HIDE DEF rec
    <3> QED  BY <1>0 DEF Mem
  <2>5. Ids(m2.calls) = Ids(m.calls) \cup {id}
    <3>1. rec.id = id  OBVIOUS
    <3> HIDE DEF rec, m2, m
    <3> QED  BY <2>4, <3>1 DEF Ids
  <2>5a. rec.id = id /\ rec.lib = s[1].lib  OBVIOUS
  <2>6. /\ \A i : i # id => Libs(m2.calls, i) = Libs(m.calls, i)
        /\ \A l \in Libs(m2.calls, id) : l \in Libs(m.calls, id) \/ l = s[1].lib
    <3> HIDE DEF rec, m2, m, id, s
    <3> QED  BY <2>4, <2>5a DEF Libs
  <2>7. Once(m2.calls)
    <3>1. \A l \in Libs(m.calls, id) : <<l, s[1].lib>> \in Later
      BY <1>c, <1>10, <1>17 DEF Unrecorded
    <3>2. \A x \in m.calls : x.id = rec.id => {x.lib, rec.lib} \in Again /\ {rec.lib, x.lib} \in Again
      <4> TAKE x \in m.calls
      <4> HAVE x.id = rec.id
      <4>1. x.lib \in Libs(m.calls, id)  BY <2>5a DEF Libs
      <4>2. <<x.lib, rec.lib>> \in Later  BY <4>1, <3>1, <2>5a
      <4> HIDE DEF rec
      <4> QED  BY <4>2 DEF Later, Again
    <3>3. Once(m.calls)  BY <1>0 DEF MemOK
    <3> HIDE DEF rec, m2
    <3> QED  BY <3>2, <3>3, <2>4 DEF Once
  <2> HIDE DEF rec, m2
  <2>8. MemOK(p, m2, owed[p])  BY <1>0, <2>4, <2>5, <2>7 DEF MemOK
  <2>9. OwnRun(q, w, m2)
    <3>2. Len(s) = 1 => <<w, q.n, 0>> \in Ids(m2.calls)
      <4>1. Bottom(s).hop = 0  BY <1>0, <1>2 DEF WorkerOK, Placed
      <4> QED  BY <4>1, <2>5, <1>8 DEF Bottom
    <3> HIDE DEF m, t
    <3> QED  BY <1>e, <3>2, <2>4, <2>5, <1>8, <1>c DEF OwnRun, m
  <2>10. WorkerOK(q, w, ctx[w], m2, home)
    <3>1. \A i \in 1..Len(t) : t[i].rec => i \in 1..Len(s) /\ s[i].rec /\ s[i].hop # s[1].hop
      <4> TAKE i \in 1..Len(t)
      <4> HAVE t[i].rec
      <4>1. i \in 1..Len(s) /\ i # 1 /\ s[i].rec /\ 1 \in 1..Len(s)  BY <1>9, <1>10
      <4> HIDE DEF t, s
      <4> QED  BY <4>1, <1>c, <1>17 DEF Single
    <3>2. \A i \in 1..Len(t) : t[i].rec =>
            \A l \in Libs(m2.calls, <<w, q.n, t[i].hop>>) : <<l, t[i].lib>> \in Later
      <4> TAKE i \in 1..Len(t)
      <4> HAVE t[i].rec
      <4>a. t[i].hop = s[i].hop /\ t[i].lib = s[i].lib /\ q.n = r.n /\ s[i].hop # s[1].hop  BY <3>1, <1>8, <1>9
      <4>1. <<w, q.n, t[i].hop>> # id /\ t[i].hop = s[i].hop /\ t[i].lib = s[i].lib /\ q.n = r.n
        <5> HIDE DEF t, s, r
        <5> QED  BY <4>a
      <4>2. Libs(m2.calls, <<w, q.n, t[i].hop>>) = Libs(m.calls, <<w, r.n, s[i].hop>>)
        <5> HIDE DEF id, m, t, s, r
        <5> QED  BY <4>1, <2>6
      <4> QED  BY <3>1, <4>1, <4>2, <1>c DEF Unrecorded
    <3>3. Down(q) => \/ s[1].lib \in Leaves
                     \/ \A l \in Libs(m2.calls, id) : <<l, s[1].lib>> \in Onward
      <4> SUFFICES ASSUME Down(q), s[1].lib \notin Leaves, NEW l \in Libs(m2.calls, id)
                   PROVE  <<l, s[1].lib>> \in Onward
        OBVIOUS
      <4>1. s[1].lib \in {"asyncio_exec", "putrequest"}  BY <1>d DEF Early, Leaves
      <4>2. CASE l \in Libs(m.calls, id)
        BY <4>2, <1>d, <1>c DEF Unrecorded
      <4>3. CASE l = s[1].lib
        <5> HIDE DEF s
        <5> QED  BY <4>1, <4>3 DEF Onward
      <4> QED  BY <4>2, <4>3, <2>6
    <3>4. \A j \in Nat : <<w, q.n, j>> \in Ids(m2.calls) => j <= q.hops
      <4>1. s[1].hop <= r.hops  BY <1>0, <1>2, <1>10 DEF WorkerOK, Placed
      <4>2. \A j \in Nat : <<w, r.n, j>> \in Ids(m.calls) => j <= r.hops  BY <1>c, <1>2 DEF Unrecorded
      <4> HIDE DEF m, s
      <4> QED  BY <4>1, <4>2, <2>5, <1>8
    <3>5. t[1].lib = s[1].lib /\ t[1].hop = s[1].hop  BY <1>9, <1>10
    <3>6. Unrecorded(q, w, m2)
      <4> HIDE DEF t, s, m, pc
      <4> QED  BY <3>2, <3>3, <3>4, <3>5, <1>8 DEF Unrecorded
    <3> QED  BY <3>6, <2>9, <1>13 DEF WorkerOK
  <2>11. \A v \in Workers \ {w} : Spared(m, m2, v) /\ Locked(home, home, v)
    <3> TAKE v \in Workers \ {w}
    <3>1. \A k, j : <<v, k, j>> # id  OBVIOUS
    <3>2. Ids(m.calls) \subseteq Ids(m2.calls)  BY <2>5
    <3> HIDE DEF id, m
    <3> QED  BY <3>1, <3>2, <2>4, <2>6 DEF Spared, Locked
  <2>12. Made(w, q.n, m2)
    BY <1>0, <1>8, <2>4, <2>5 DEF Listed, Made
  <2>13. owed' = [owed EXCEPT ![p] = owed[p]]
    BY <1>0, <1>1 DEF IInv, WellTyped
  <2>14. ctx' = [ctx EXCEPT ![w] = ctx[w]] /\ home' = home  BY <1>0, <1>1
  <2>15. PICK x \in Mem : x = m2  BY <2>3
  <2>16. /\ sdk' = [sdk EXCEPT ![Process(w)] = x] /\ owed' = [owed EXCEPT ![Process(w)] = owed[Process(w)]]
         /\ WorkerOK(q, w, ctx[w], x, home) /\ x.depth = sdk[Process(w)].depth /\ x.life = sdk[Process(w)].life
         /\ MemOK(Process(w), x, owed[Process(w)]) /\ Made(w, q.n, x)
         /\ \A v \in Workers \ {w} : Spared(sdk[Process(w)], x, v) /\ Locked(home, home, v)
    BY <2>1, <2>4, <2>8, <2>10, <2>11, <2>12, <2>13, <2>15
  <2> HIDE DEF m, r, p
  <2>17. owed[Process(w)] \in SUBSET Calls  BY <1>0 DEF p
  <2> QED  BY <1>0, <1>6, <1>7, <1>15, <2>14, <2>16, <2>17, Stepped
<1> QED  BY <1>16, <1>17

\* A list whose records are completed holds the same calls.
Complete(calls, id, o) == {IF c.id = id THEN [c EXCEPT !.status = o] ELSE c : c \in calls}

LEMMA Completed ==
  ASSUME NEW calls \in SUBSET CallRec, NEW id, NEW o \in Results, NEW new, new = Complete(calls, id, o)
  PROVE  /\ new \in SUBSET CallRec /\ Ids(new) = Ids(calls) /\ (Once(calls) => Once(new))
         /\ \A i : Libs(new, i) = Libs(calls, i)
<1> DEFINE F(c) == IF c.id = id THEN [c EXCEPT !.status = o] ELSE c
<1>1. \A c \in calls : F(c) \in CallRec /\ F(c).id = c.id /\ F(c).lib = c.lib
  BY DEF CallRec
<1>2. (\A d \in new : \E c \in calls : d = F(c)) /\ \A c \in calls : F(c) \in new  BY DEF Complete
<1> HIDE DEF F
<1>3. Ids(new) = Ids(calls)
  <2>1. \A i \in Ids(new) : i \in Ids(calls)  BY <1>1, <1>2 DEF Ids
  <2>2. \A i \in Ids(calls) : i \in Ids(new)  BY <1>1, <1>2 DEF Ids
  <2> QED  BY <2>1, <2>2
<1>4. Once(calls) => Once(new)
  <2> SUFFICES ASSUME Once(calls), NEW x \in new, NEW y \in new, x.id = y.id
               PROVE  x = y \/ {x.lib, y.lib} \in Again
    BY DEF Once
  <2>1. PICK c \in calls : x = F(c)  BY <1>2
  <2>2. PICK d \in calls : y = F(d)  BY <1>2
  <2>3. c.id = d.id /\ c.lib = x.lib /\ d.lib = y.lib  BY <1>1, <2>1, <2>2
  <2>4. c = d \/ {c.lib, d.lib} \in Again  BY <2>3 DEF Once
  <2> QED  BY <2>1, <2>2, <2>3, <2>4
<1>5. ASSUME NEW i PROVE Libs(new, i) = Libs(calls, i)
  <2>1. \A l \in Libs(new, i) : l \in Libs(calls, i)  BY <1>1, <1>2 DEF Libs
  <2>2. \A l \in Libs(calls, i) : l \in Libs(new, i)  BY <1>1, <1>2 DEF Libs
  <2> QED  BY <2>1, <2>2
<1> QED  BY <1>1, <1>2, <1>3, <1>4, <1>5

LEMMA GetResponseKeeps ==
  ASSUME IInv, NEW w \in Workers, NEW o \in Outcomes, GetResponse(w, o)
  PROVE  IInv'
<1> DEFINE p == Process(w)
<1> DEFINE r == worker[w]
<1> DEFINE m == sdk[p]
<1>0. /\ r \in WorkerRec /\ WorkerOK(r, w, ctx[w], m, home) /\ ctx[w] \in BOOLEAN /\ r.n \in Nat
      /\ m \in Mem /\ p \in Procs /\ owed[p] \in SUBSET Calls /\ MemOK(p, m, owed[p])
      /\ Listed(p, worker, m) /\ home \in Home /\ HomeOK(home) /\ ctx = [ctx EXCEPT ![w] = ctx[w]]
  BY Before
<1>1. r.pc = "idle" /\ UNCHANGED <<ctx, home, owed>>  BY DEF GetResponse, Idle
<1>2. PICK pend \in Calls \cup {NoOne} :
        worker' = [worker EXCEPT ![w].conn.sent = FALSE, ![w].conn.pending = pend]
  <2>1. worker' = [worker EXCEPT ![w].conn.sent = FALSE, ![w].conn.pending = NoOne]
        \/ worker' = [worker EXCEPT ![w].conn.sent = FALSE, ![w].conn.pending = @]
    BY DEF GetResponse
  <2>2. r.conn.pending \in Calls \cup {NoOne}  BY <1>0 DEF WorkerRec, Conn
  <2> QED  BY <2>1, <2>2
<1> DEFINE cn == [r.conn EXCEPT !.sent = FALSE, !.pending = pend]
<1> DEFINE q == [r EXCEPT !.conn = cn]
<1>3. cn \in Conn  BY <1>0 DEF WorkerRec, Conn
<1>4. worker' = [worker EXCEPT ![w] = q]
  <2>1. worker \in [Workers -> WorkerRec]  BY DEF IInv, WellTyped
  <2> HIDE DEF WorkerRec
  <2> QED  BY <1>2, <2>1
<1> HIDE DEF cn
<1>5. q \in WorkerRec  BY <1>0, <1>3 DEF WorkerRec
<1>6. /\ q.n = r.n /\ q.host = r.host /\ q.shields = r.shields /\ q.opened = r.opened
      /\ q.own_run = r.own_run /\ q.pc = "idle" /\ q.stack = r.stack /\ q.outcome = r.outcome
  BY <1>0, <1>1 DEF WorkerRec
<1> HIDE DEF q
<1>7. PICK m2 \in Mem : /\ sdk' = [sdk EXCEPT ![p] = m2] /\ Ids(m2.calls) = Ids(m.calls) /\ Once(m2.calls)
                        /\ \A i : Libs(m2.calls, i) = Libs(m.calls, i)
                        /\ m2.depth = m.depth /\ m2.life = m.life /\ m2.trace = m.trace
  <2>1. sdk \in [Procs -> Mem]  BY DEF IInv, WellTyped
  <2>2. CASE sdk' = sdk
    <3>1. sdk' = [sdk EXCEPT ![p] = m]  BY <2>1, <2>2
    <3>2. Once(m.calls)  BY <1>0 DEF MemOK
    <3> QED  BY <3>1, <3>2, <1>0
  <2>3. CASE sdk' # sdk
    <3> DEFINE new == {IF c.id = r.conn.pending THEN [c EXCEPT !.status = o] ELSE c : c \in m.calls}
    <3> DEFINE m2 == [m EXCEPT !.calls = new]
    <3>1. sdk' = [sdk EXCEPT ![p].calls = new]  BY <2>3, Zenon DEF GetResponse
    <3>2. sdk' = [sdk EXCEPT ![p] = m2]
      <4> HIDE DEF new, Mem
      <4> QED  BY <3>1, <2>1
    <3>3. o \in Results  BY SdkAssumption DEF Results
    <3>4. m.calls \in SUBSET CallRec  BY <1>0 DEF Mem
    <3>5. new \in SUBSET CallRec /\ Ids(new) = Ids(m.calls) /\ (Once(m.calls) => Once(new))
          /\ \A i : Libs(new, i) = Libs(m.calls, i)
      <4>1. PICK x, y, i : x = m.calls /\ y = new /\ i = r.conn.pending  OBVIOUS
      <4>2. new = Complete(m.calls, r.conn.pending, o)  BY DEF Complete
      <4> HIDE DEF new, m, r
      <4>3. x \in SUBSET CallRec /\ y = Complete(x, i, o)  BY <3>4, <4>1, <4>2
      <4>4. y \in SUBSET CallRec /\ Ids(y) = Ids(x) /\ (Once(x) => Once(y)) /\ \A z : Libs(y, z) = Libs(x, z)
        BY <3>3, <4>3, Completed
      <4> QED  BY <4>1, <4>4
    <3> HIDE DEF new
    <3>6. m2 \in Mem /\ m2.calls = new /\ m2.depth = m.depth /\ m2.life = m.life /\ m2.trace = m.trace
      BY <1>0, <3>5 DEF Mem
    <3>7. Once(m2.calls)  BY <3>5, <3>6, <1>0 DEF MemOK
    <3> HIDE DEF m2
    <3> QED  BY <3>2, <3>5, <3>6, <3>7
  <2> QED  BY <2>2, <2>3
<1>8. WorkerOK(q, w, ctx[w], m2, home)
  <2>1. q.stack = <<>> /\ q.own_run = FALSE /\ q.shields <= q.opened /\ q.outcome # "cancelled"
    BY <1>0, <1>1, <1>6 DEF WorkerOK, Placed, InCall
  <2> QED  BY <2>1, <1>5, <1>6, IdleOK
<1>9. \A v \in Workers \ {w} : Spared(m, m2, v) /\ Locked(home, home, v)
  BY <1>7 DEF Spared, Locked
<1>10. Made(w, q.n, m2)
  BY <1>0, <1>6, <1>7 DEF Listed, Made
<1>11. MemOK(p, m2, owed[p])  BY <1>0, <1>7 DEF MemOK
<1>12. owed' = [owed EXCEPT ![p] = owed[p]] /\ ctx' = [ctx EXCEPT ![w] = ctx[w]] /\ home' = home
  BY <1>0, <1>1 DEF IInv, WellTyped
<1>13. q.shields = worker[w].shields /\ q.n >= worker[w].n  BY <1>0, <1>6
<1> HIDE DEF m, r
<1> QED  BY <1>0, <1>4, <1>5, <1>7, <1>8, <1>9, <1>10, <1>11, <1>12, <1>13, Stepped DEF m

\* A step on the shared files of a worker that noted what it recorded: its call
\* goes to another point with the same stack.
LEMMA Noted ==
  ASSUME NEW w \in Workers, NEW r \in WorkerRec, NEW q \in WorkerRec, NEW c, NEW m, NEW h1, NEW h2,
         WorkerOK(r, w, c, m, h1), r.pc \in {"lock", "write", "journal"},
         q.pc \in {"enter", "return", "write", "journal"},
         q.pc = "enter" => r.stack[1].lib \in Early /\ ~r.stack[1].invoked,
         q.stack = r.stack, q.n = r.n, q.hops = r.hops, q.host = r.host, q.shields = r.shields, q.opened = r.opened,
         q.own_run = r.own_run, q.outcome = r.outcome, Noting(q, w, h2)
  PROVE  WorkerOK(q, w, c, m, h2)
<1>1. InCall(r) /\ InCall(q) /\ r.outcome # "cancelled"  BY DEF WorkerOK, Placed, InCall
<1>2. Placed(q) /\ Single(q.stack)  BY <1>1 DEF WorkerOK, Placed
<1>3. \A i \in 1..Len(r.stack) : r.stack[i].rec => r.stack[i].lib \notin Early  BY DEF WorkerOK, Prompt
<1>4. Prompt(q)  BY <1>1, <1>3 DEF WorkerOK, Prompt
<1>5. q.pc = "enter" => Owns(q.stack, c)  BY <1>1, <1>3 DEF WorkerOK, Prompt, Owns
<1>6. Down(q) => Down(r)  BY DEF Down
<1>7. Unrecorded(q, w, m)  BY <1>1, <1>6 DEF WorkerOK, Unrecorded
<1>8. OwnRun(q, w, m)  BY DEF WorkerOK, OwnRun
<1> QED  BY <1>2, <1>4, <1>5, <1>7, <1>8 DEF WorkerOK

\* A call that goes on after its note.
LEMMA AfterNote ==
  ASSUME IInv, NEW w \in Workers, worker[w].pc \in {"lock", "journal"}
  PROVE  /\ After(w) \in {"enter", "return"}
         /\ After(w) = "enter" => worker[w].stack[1].lib \in Early /\ ~worker[w].stack[1].invoked
<1>1. worker[w] \in WorkerRec /\ Placed(worker[w])  BY Before DEF WorkerOK
<1>2. worker[w].stack # <<>> /\ worker[w].stack \in Seq(Frames)  BY <1>1 DEF Placed, InCall, WorkerRec
<1>3. Top(w) = worker[w].stack[1]  BY <1>2 DEF Top
<1> QED  BY <1>3 DEF After

LEMMA LockKeeps ==
  ASSUME IInv, NEW w \in Workers, Lock(w)
  PROVE  IInv'
<1> DEFINE r == worker[w]
<1> DEFINE hm == [home EXCEPT !.lock = w]
<1> DEFINE q == [r EXCEPT !.known = home.seen, !.pc = "write"]
<1>0. /\ r \in WorkerRec /\ WorkerOK(r, w, ctx[w], sdk[Process(w)], home) /\ ctx[w] \in BOOLEAN /\ r.n \in Nat
      /\ home \in Home /\ HomeOK(home) /\ ctx = [ctx EXCEPT ![w] = ctx[w]]
  BY Before
<1>1. r.pc = "lock" /\ home.lock = NoOne /\ home' = hm /\ UNCHANGED <<ctx, sdk, owed>>  BY DEF Lock
<1>2. worker' = [worker EXCEPT ![w] = q]
  <2>1. worker \in [Workers -> WorkerRec]  BY DEF IInv, WellTyped
  <2> HIDE DEF WorkerRec
  <2> QED  BY <2>1 DEF Lock
<1>3. hm \in Home /\ hm.lock = w /\ hm.seen = home.seen /\ hm.flagged = home.flagged /\ hm.runs = home.runs
      /\ hm.lines = home.lines
  BY <1>0 DEF Home
<1> HIDE DEF hm
<1>4. q \in WorkerRec  BY <1>0 DEF WorkerRec, Pcs, Home
<1>5. /\ q.n = r.n /\ q.hops = r.hops /\ q.outcome = r.outcome /\ q.host = r.host /\ q.shields = r.shields /\ q.opened = r.opened /\ q.own_run = r.own_run
      /\ q.stack = r.stack /\ q.pc = "write" /\ q.known = home.seen
  BY <1>0 DEF WorkerRec
<1> HIDE DEF q
<1>6. Noting(q, w, hm)  BY <1>0, <1>3, <1>5 DEF Noting, HomeOK
<1>7. WorkerOK(q, w, ctx[w], sdk[Process(w)], hm)  BY <1>0, <1>1, <1>4, <1>5, <1>6, Noted
<1>8. HomeOK(hm)  BY <1>0, <1>3 DEF HomeOK
<1>9. \A v \in Workers \ {w} : Locked(home, hm, v)  BY <1>1, SdkAssumption DEF Locked
<1>10. q.shields = worker[w].shields /\ q.n >= worker[w].n  BY <1>0, <1>5
<1> HIDE DEF r
<1>q. Quiet  BY <1>1 DEF Quiet
<1> QED  BY <1>0, <1>1, <1>2, <1>3, <1>4, <1>7, <1>8, <1>9, <1>10, <1>q, Moved

LEMMA LockTimeoutKeeps ==
  ASSUME IInv, NEW w \in Workers, LockTimeout(w)
  PROVE  IInv'
<1> DEFINE r == worker[w]
<1> DEFINE q == [r EXCEPT !.pc = After(w)]
<1>0. /\ r \in WorkerRec /\ WorkerOK(r, w, ctx[w], sdk[Process(w)], home) /\ ctx[w] \in BOOLEAN /\ r.n \in Nat
      /\ ctx = [ctx EXCEPT ![w] = ctx[w]]
  BY Before
<1>1. r.pc = "lock" /\ UNCHANGED <<ctx, sdk, owed, home>>  BY DEF LockTimeout
<1>2. worker' = [worker EXCEPT ![w] = q]  BY <1>0 DEF LockTimeout
<1>3. After(w) \in {"enter", "return"} /\ (After(w) = "enter" => r.stack[1].lib \in Early /\ ~r.stack[1].invoked)  BY <1>1, AfterNote
<1>4. q \in WorkerRec  BY <1>0, <1>3 DEF WorkerRec, Pcs
<1>5. /\ q.n = r.n /\ q.hops = r.hops /\ q.outcome = r.outcome /\ q.host = r.host /\ q.shields = r.shields /\ q.opened = r.opened /\ q.own_run = r.own_run
      /\ q.stack = r.stack /\ q.pc = After(w)
  BY <1>0 DEF WorkerRec
<1> HIDE DEF q
<1>6. Noting(q, w, home)  BY <1>3, <1>5 DEF Noting
<1>7. WorkerOK(q, w, ctx[w], sdk[Process(w)], home)  BY <1>0, <1>1, <1>3, <1>4, <1>5, <1>6, Noted
<1>8. q.shields = worker[w].shields /\ q.n >= worker[w].n  BY <1>0, <1>5
<1> HIDE DEF r
<1> QED  BY <1>0, <1>1, <1>2, <1>4, <1>7, <1>8, MovedAlone

LEMMA WriteSeenKeeps ==
  ASSUME IInv, NEW w \in Workers, WriteSeen(w)
  PROVE  IInv'
<1> DEFINE r == worker[w]
<1> DEFINE dest == DestOf(r, w)
<1> DEFINE hm == [home EXCEPT !.seen = IF dest \in r.known THEN @ ELSE r.known \cup {dest}]
<1> DEFINE q == [r EXCEPT !.pc = "journal"]
<1>0. /\ r \in WorkerRec /\ WorkerOK(r, w, ctx[w], sdk[Process(w)], home) /\ ctx[w] \in BOOLEAN /\ r.n \in Nat
      /\ home \in Home /\ HomeOK(home) /\ ctx = [ctx EXCEPT ![w] = ctx[w]]
  BY Before
<1>1. r.pc = "write" /\ home' = hm /\ UNCHANGED <<ctx, sdk, owed>>  BY DEF WriteSeen, Dest, DestOf
<1>2. worker' = [worker EXCEPT ![w] = q]  BY <1>0 DEF WriteSeen
<1>3. home.lock = w /\ (\A x \in Destinations : home.flagged[x] > 0 => x \in r.known) /\ r.known = home.seen
      /\ dest \in Destinations
  BY <1>0, <1>1, ProcessType DEF WorkerOK, Noting, Placed, InCall, DestOf, Destinations
<1>4. hm \in Home /\ hm.lock = w /\ hm.seen = r.known \cup {dest} /\ hm.flagged = home.flagged
      /\ hm.runs = home.runs /\ hm.lines = home.lines
  BY <1>0, <1>3 DEF Home
<1> HIDE DEF hm
<1>5. q \in WorkerRec  BY <1>0 DEF WorkerRec, Pcs
<1>6. /\ q.n = r.n /\ q.hops = r.hops /\ q.outcome = r.outcome /\ q.host = r.host /\ q.shields = r.shields /\ q.opened = r.opened /\ q.own_run = r.own_run
      /\ q.stack = r.stack /\ q.pc = "journal" /\ q.known = r.known
  BY <1>0 DEF WorkerRec
<1> HIDE DEF q
<1>7. Noting(q, w, hm)  BY <1>3, <1>4, <1>6 DEF Noting, DestOf
<1>8. WorkerOK(q, w, ctx[w], sdk[Process(w)], hm)  BY <1>0, <1>1, <1>5, <1>6, <1>7, Noted
<1>9. HomeOK(hm)  BY <1>0, <1>3, <1>4 DEF HomeOK
<1>10. \A v \in Workers \ {w} : Locked(home, hm, v)  BY <1>3 DEF Locked
<1>11. q.shields = worker[w].shields /\ q.n >= worker[w].n  BY <1>0, <1>6
<1> HIDE DEF r
<1>q. Quiet  BY <1>1 DEF Quiet
<1> QED  BY <1>0, <1>1, <1>2, <1>4, <1>5, <1>8, <1>9, <1>10, <1>11, <1>q, Moved

LEMMA JournalKeeps ==
  ASSUME IInv, NEW w \in Workers, Journal(w)
  PROVE  IInv'
<1> DEFINE r == worker[w]
<1> DEFINE dest == DestOf(r, w)
<1> DEFINE fresh == dest \notin r.known /\ ~allowlist_suppresses(r.host)
<1> DEFINE flags == [home.flagged EXCEPT ![dest] = IF fresh THEN @ + 1 ELSE @]
<1> DEFINE hm == [home EXCEPT !.flagged = flags, !.lines = @ \cup {dest}, !.lock = NoOne]
<1> DEFINE q == [r EXCEPT !.pc = After(w), !.known = {}]
<1>0. /\ r \in WorkerRec /\ WorkerOK(r, w, ctx[w], sdk[Process(w)], home) /\ ctx[w] \in BOOLEAN /\ r.n \in Nat
      /\ home \in Home /\ HomeOK(home) /\ ctx = [ctx EXCEPT ![w] = ctx[w]]
  BY Before
<1>1. r.pc = "journal" /\ UNCHANGED <<ctx, sdk, owed>>  BY DEF Journal
<1>2. worker' = [worker EXCEPT ![w] = q]
  <2>1. worker \in [Workers -> WorkerRec]  BY DEF IInv, WellTyped
  <2> HIDE DEF WorkerRec
  <2> QED  BY <2>1 DEF Journal
<1>3. home.lock = w /\ (\A x \in Destinations : home.flagged[x] > 0 => x \in r.known)
      /\ home.seen = r.known \cup {dest} /\ dest \in Destinations /\ dest[2] = r.host
  BY <1>0, <1>1, ProcessType DEF WorkerOK, Noting, Placed, InCall, DestOf, Destinations
<1>4. home' = hm
  <2>1. home' = [home EXCEPT !.flagged[dest] = IF fresh THEN @ + 1 ELSE @, !.lines = @ \cup {dest}, !.lock = NoOne]
    BY DEF Journal, Dest, DestOf
  <2> HIDE DEF fresh, r, dest
  <2> QED  BY <2>1, <1>0 DEF Home
<1>5. flags \in [Destinations -> Nat]
  <2>1. home.flagged \in [Destinations -> Nat]  BY <1>0 DEF Home
  <2> HIDE DEF fresh, r, dest
  <2> QED  BY <2>1, <1>3
<1>6. \A x \in Destinations : flags[x] = home.flagged[x] \/ (x = dest /\ fresh /\ flags[x] = home.flagged[x] + 1)
  BY <1>0 DEF Home
<1>7. \A x \in Destinations : flags[x] > 0 => x \in home.seen
  <2> HIDE DEF flags, fresh, r, dest
  <2> QED  BY <1>3, <1>6, <1>0 DEF HomeOK
<1>8. \A x \in Destinations : flags[x] <= IF x[2] \in Allowlist THEN 0 ELSE 1
  <2> TAKE x \in Destinations
  <2>1. home.flagged[x] \in Nat  BY <1>0 DEF Home
  <2>2. CASE flags[x] = home.flagged[x]  BY <2>2, <1>0 DEF HomeOK
  <2>3. CASE x = dest /\ fresh /\ flags[x] = home.flagged[x] + 1
    <3>1. ~(home.flagged[x] > 0) /\ x[2] \notin Allowlist  BY <2>3, <1>3 DEF allowlist_suppresses
    <3> HIDE DEF flags
    <3> QED  BY <3>1, <2>1, <2>3
  <2> QED  BY <2>2, <2>3, <1>6
<1> HIDE DEF flags
<1>9. hm \in Home /\ hm.lock = NoOne /\ hm.seen = home.seen /\ hm.flagged = flags /\ hm.runs = home.runs
      /\ hm.lines = home.lines \cup {dest}
  BY <1>0, <1>3, <1>5 DEF Home
<1> HIDE DEF hm
<1>10. After(w) \in {"enter", "return"} /\ (After(w) = "enter" => r.stack[1].lib \in Early /\ ~r.stack[1].invoked)  BY <1>1, AfterNote
<1>11. q \in WorkerRec  BY <1>0, <1>10 DEF WorkerRec, Pcs
<1>12. /\ q.n = r.n /\ q.hops = r.hops /\ q.outcome = r.outcome /\ q.host = r.host /\ q.shields = r.shields /\ q.opened = r.opened /\ q.own_run = r.own_run
       /\ q.stack = r.stack /\ q.pc = After(w)
  BY <1>0 DEF WorkerRec
<1> HIDE DEF q
<1>13. Noting(q, w, hm)  BY <1>10, <1>12 DEF Noting
<1>14. WorkerOK(q, w, ctx[w], sdk[Process(w)], hm)  BY <1>0, <1>1, <1>10, <1>11, <1>12, <1>13, Noted
<1>15. HomeOK(hm)  BY <1>0, <1>3, <1>7, <1>8, <1>9 DEF HomeOK
<1>16. \A v \in Workers \ {w} : Locked(home, hm, v)  BY <1>3 DEF Locked
<1>17. q.shields = worker[w].shields /\ q.n >= worker[w].n  BY <1>0, <1>12
<1> HIDE DEF r
<1>q. Quiet  BY <1>1 DEF Quiet
<1> QED  BY <1>0, <1>1, <1>2, <1>4, <1>9, <1>11, <1>14, <1>15, <1>16, <1>17, <1>q, Moved

-----------------------------------------------------------------------------
(* Shields and processes.                                                  *)

LEMMA TraceTypes ==
  /\ \A p : TracesOf(p) \subseteq Traces
  /\ \A w \in Workers : TraceOf[w] \in TracesOf(Process(w))
  /\ \A p \in Wrapped : TraceOf[p] \in TracesOf(p)
BY SdkAssumption DEF TracesOf, Traces

\* What the last shield of a process writes is a list of calls made once.
LEMMA RunLogFacts ==
  ASSUME IInv, NEW p \in Procs, sdk[p].depth > 0, NEW hm, hm = home \/ hm = write_run_log(p)
  PROVE  /\ hm \in Home /\ HomeOK(hm)
         /\ hm.lock = home.lock /\ hm.seen = home.seen /\ hm.flagged = home.flagged
<1> DEFINE m == sdk[p]
<1>0. home \in Home /\ HomeOK(home) /\ m \in Mem /\ MemOK(p, m, owed[p])  BY DEF IInv, WellTyped
<1>1. CASE hm = home  BY <1>0, <1>1
<1>2. CASE hm # home
  <2> DEFINE log == [calls |-> m.calls, status |-> rollup_status(m.calls)]
  <2> DEFINE runs == [home.runs EXCEPT ![m.trace] = {log}]
  <2>1. m.trace \in Traces  BY <1>0, TraceTypes DEF MemOK
  <2>2. hm = [home EXCEPT !.runs = runs]
    <3>1. hm = [home EXCEPT !.runs[m.trace] = {log}]  BY <1>2, Zenon DEF write_run_log
    <3> HIDE DEF log
    <3> QED  BY <3>1, <1>0 DEF Home
  <2>3. log \in LogRec
    <3>1. m.calls \in SUBSET CallRec  BY <1>0 DEF Mem
    <3>2. rollup_status(m.calls) \in {rollup_status(c) : c \in SUBSET CallRec}  BY <3>1
    <3> QED  BY <3>1, <3>2 DEF LogRec
  <2>4. log.calls = m.calls  OBVIOUS
  <2>5. home.runs \in [Traces -> SUBSET LogRec]  BY <1>0 DEF Home
  <2> HIDE DEF log
  <2>6. runs \in [Traces -> SUBSET LogRec]  BY <2>1, <2>3, <2>5
  <2>7. \A t \in Traces : \A l \in runs[t] : Once(l.calls)
    BY <1>0, <2>1, <2>4, <2>5 DEF HomeOK, MemOK
  <2> HIDE DEF runs
  <2>8. /\ hm.lock = home.lock /\ hm.seen = home.seen /\ hm.flagged = home.flagged
        /\ hm.lines = home.lines /\ hm.runs = runs /\ hm \in Home
    BY <1>0, <2>2, <2>6 DEF Home
  <2> QED  BY <1>0, <2>7, <2>8 DEF HomeOK
<1> QED  BY <1>1, <1>2

\* The open shields of a process when one of its workers opens or closes one.
LEMMA OneMore ==
  ASSUME NEW p, NEW w \in Workers, Process(w) = p, NEW wk, NEW wk2, NEW k \in 1..MaxShields,
         wk[w].shields = k - 1, wk2[w].shields = k,
         \A v \in Workers \ {w} : wk2[v].shields = wk[v].shields
  PROVE  Cardinality(Open(p, wk2)) = Cardinality(Open(p, wk)) + 1
<1>1. k \in Nat /\ \A i \in 1..MaxShields : i <= k <=> (i <= k - 1 \/ i = k)
  BY SdkAssumption
<1>2. Open(p, wk2) = Open(p, wk) \cup {<<w, k>>}
  <2>1. ASSUME NEW x \in Workers \X (1..MaxShields)
        PROVE  (Process(x[1]) = p /\ x[2] <= wk2[x[1]].shields)
                 <=> ((Process(x[1]) = p /\ x[2] <= wk[x[1]].shields) \/ x = <<w, k>>)
    <3>1. x[1] \in Workers /\ x[2] \in 1..MaxShields /\ x = <<x[1], x[2]>>  OBVIOUS
    <3>2. CASE x[1] = w  BY <3>1, <3>2, <1>1
    <3>3. CASE x[1] # w  BY <3>1, <3>3
    <3> QED  BY <3>2, <3>3
  <2>2. <<w, k>> \in Workers \X (1..MaxShields)  OBVIOUS
  <2> QED  BY <2>1, <2>2 DEF Open
<1>3. <<w, k>> \notin Open(p, wk)
  <2>1. ~(k <= k - 1)  BY <1>1
  <2> QED  BY <2>1 DEF Open
<1>4. PICK S : S = Open(p, wk)  OBVIOUS
<1>5. IsFiniteSet(S) /\ <<w, k>> \notin S  BY <1>3, <1>4, OpenFinite
<1>6. Cardinality(S \cup {<<w, k>>}) = Cardinality(S) + 1  BY <1>5, FS_AddElement
<1> QED  BY <1>2, <1>4, <1>6

LEMMA ShieldKeeps ==
  ASSUME IInv, NEW w \in Workers, Shield(w)
  PROVE  IInv'
<1> DEFINE p == Process(w)
<1> DEFINE r == worker[w]
<1> DEFINE m == sdk[p]
<1> DEFINE m2 == [m EXCEPT !.depth = @ + 1, !.calls = IF m.depth = 0 THEN {} ELSE @,
                           !.trace = IF m.depth = 0 THEN TraceOf[w] ELSE @, !.life = "on"]
<1> DEFINE q == [r EXCEPT !.shields = @ + 1, !.opened = @ + 1]
<1> DEFINE o == IF m.depth = 0 THEN {} ELSE owed[p]
<1>0. /\ r \in WorkerRec /\ WorkerOK(r, w, ctx[w], m, home) /\ ctx[w] \in BOOLEAN /\ r.n \in Nat
      /\ m \in Mem /\ p \in Procs /\ owed[p] \in SUBSET Calls /\ MemOK(p, m, owed[p])
      /\ Listed(p, worker, m) /\ home \in Home /\ HomeOK(home) /\ ctx = [ctx EXCEPT ![w] = ctx[w]]
  BY Before
<1>1. r.pc = "idle" /\ r.opened < MaxShields /\ (p \notin Wrapped \/ m.life = "on") /\ UNCHANGED <<ctx, home>>
      /\ m.life # "gone"
  BY DEF Shield, Idle, Has
<1>2. r.stack = <<>> /\ r.own_run = FALSE /\ r.shields <= r.opened /\ r.shields \in 0..MaxShields
      /\ r.opened \in 0..MaxShields /\ r.outcome # "cancelled"
  BY <1>0, <1>1 DEF WorkerOK, Placed, InCall, WorkerRec
<1>3. worker' = [worker EXCEPT ![w] = q]
  <2>1. worker \in [Workers -> WorkerRec]  BY DEF IInv, WellTyped
  <2> HIDE DEF WorkerRec
  <2> QED  BY <2>1 DEF Shield
<1>4. sdk' = [sdk EXCEPT ![p] = m2]
  <2>1. sdk \in [Procs -> Mem]  BY DEF IInv, WellTyped
  <2>2. sdk' = install(p, TraceOf[w])  BY DEF Shield
  <2> HIDE DEF Mem
  <2> QED  BY <2>1, <2>2 DEF install
<1>5. owed' = [owed EXCEPT ![p] = o]  BY <1>0 DEF Shield
<1>6. q \in WorkerRec /\ q.n = r.n /\ q.pc = "idle" /\ q.stack = <<>> /\ q.own_run = FALSE
      /\ q.outcome # "cancelled"
      /\ q.shields = r.shields + 1 /\ q.opened = r.opened + 1 /\ q.shields \in 1..MaxShields
  <2>1. r.shields + 1 \in 1..MaxShields /\ r.opened + 1 \in 0..MaxShields /\ r.shields + 1 \in 0..MaxShields
    BY <1>1, <1>2, SdkAssumption
  <2> DEFINE a == r.shields + 1
  <2> DEFINE b == r.opened + 1
  <2> HIDE DEF a, b
  <2>2. q = [r EXCEPT !.shields = a, !.opened = b]  BY DEF a, b
  <2>3. a \in 0..MaxShields /\ b \in 0..MaxShields  BY <2>1 DEF a, b
  <2>4. q \in WorkerRec /\ q.shields = a /\ q.opened = b /\ q.n = r.n /\ q.pc = r.pc /\ q.stack = r.stack
        /\ q.own_run = r.own_run /\ q.outcome = r.outcome
    <3> HIDE DEF q
    <3> QED  BY <1>0, <2>2, <2>3 DEF WorkerRec
  <2> QED  BY <2>1, <2>4, <1>1, <1>2 DEF a, b
<1> HIDE DEF q
<1>7. TraceOf[w] \in TracesOf(p) /\ TraceOf[w] \in Traces  BY TraceTypes
<1>8. m2 \in Mem /\ m2.depth = m.depth + 1 /\ m2.life = "on" /\ m.depth \in Nat
      /\ m2.calls = (IF m.depth = 0 THEN {} ELSE m.calls) /\ m2.trace = (IF m.depth = 0 THEN TraceOf[w] ELSE m.trace)
  <2>1. m.depth \in Nat /\ m.calls \in SUBSET CallRec /\ m.trace \in Traces \cup {NoOne}  BY <1>0 DEF Mem
  <2> DEFINE calls == IF m.depth = 0 THEN {} ELSE m.calls
  <2> DEFINE trace == IF m.depth = 0 THEN TraceOf[w] ELSE m.trace
  <2>2. calls \in SUBSET CallRec  BY <2>1
  <2>3. trace \in Traces \cup {NoOne}
    <3> HIDE DEF m
    <3> QED  BY <2>1, <1>7
  <2>4. PICK d \in Nat : d = m.depth + 1  BY <2>1
  <2>5. m2 = [m EXCEPT !.depth = d, !.calls = calls, !.trace = trace, !.life = "on"]  BY <2>4
  <2>6. m \in Mem  BY <1>0
  <2> HIDE DEF calls, trace, m2, m
  <2>7. m2 \in Mem /\ m2.depth = d /\ m2.life = "on" /\ m2.calls = calls /\ m2.trace = trace
    BY <2>2, <2>3, <2>5, <2>6 DEF Mem
  <2> QED  BY <2>1, <2>4, <2>7 DEF calls, trace
<1> HIDE DEF m2
<1>9. WorkerOK(q, w, ctx[w], m2, home)
  <2>1. q.shields <= q.opened  BY <1>2, <1>6, SdkAssumption
  <2> QED  BY <2>1, <1>6, IdleOK
<1>10. CountOK(p, worker', m2)
  <2>1. CountOK(p, worker, m)  BY <1>0 DEF IInv
  <2>2. worker'[w].shields = q.shields /\ q.shields - 1 = worker[w].shields
        /\ \A v \in Workers \ {w} : worker'[v].shields = worker[v].shields
    BY <1>2, <1>3, <1>6 DEF IInv, WellTyped
  <2>3. PICK k \in 1..MaxShields : k = q.shields  BY <1>6
  <2>4. Cardinality(Open(p, worker')) = Cardinality(Open(p, worker)) + 1
    <3>1. worker[w].shields = k - 1 /\ worker'[w].shields = k  BY <2>2, <2>3
    <3> HIDE DEF p
    <3>2. Process(w) = p  BY DEF p
    <3> QED  BY <2>2, <3>1, <3>2, OneMore
  <2>5. Cardinality(Open(p, worker)) \in Nat  BY OpenFinite
  <2>6. Wrap(p, m2) = Wrap(p, m) /\ Wrap(p, m) \in Nat  BY <1>1, <1>8 DEF Wrap
  <2> HIDE DEF m, p
  <2> QED  BY <2>1, <2>4, <2>5, <2>6, <1>8 DEF CountOK
<1>11. \A v \in Workers \ {w} : Spared(m, m2, v) /\ Locked(home, home, v)
  <2>1. m2.calls = {} \/ m2.calls = m.calls  BY <1>8
  <2>2. \A k, j : Libs({}, k) = {}  BY DEF Libs
  <2>3. m.depth > 0 => m2.calls = m.calls  BY <1>8
  <2> HIDE DEF m
  <2> QED  BY <1>1, <1>8, <2>1, <2>2, <2>3 DEF Spared, Locked
<1>12. Made(w, q.n, m2)
  BY <1>0, <1>1, <1>6, <1>8 DEF Listed, Ids, Made
<1>13. MemOK(p, m2, o)
  <2>1. CASE m.depth = 0  BY <2>1, <1>7, <1>8 DEF MemOK, Once, Ids
  <2>2. CASE m.depth # 0
    <3>1. m2.calls = m.calls /\ m2.trace = m.trace /\ o = owed[p] /\ m.depth > 0  BY <2>2, <1>8
    <3> QED  BY <3>1, <1>0 DEF MemOK
  <2> QED  BY <2>1, <2>2
<1>14. o \in SUBSET Calls  BY <1>0
<1>15. ctx' = [ctx EXCEPT ![w] = ctx[w]] /\ home' = home /\ q.n >= worker[w].n  BY <1>0, <1>1, <1>6
<1> HIDE DEF m, r, o
<1> QED  BY <1>0, <1>3, <1>4, <1>5, <1>6, <1>8, <1>9, <1>10, <1>11, <1>12, <1>13, <1>14, <1>15, Counted DEF m

LEMMA UnshieldKeeps ==
  ASSUME IInv, NEW w \in Workers, Unshield(w)
  PROVE  IInv'
<1> DEFINE p == Process(w)
<1> DEFINE r == worker[w]
<1> DEFINE m == sdk[p]
<1> DEFINE m2 == [m EXCEPT !.depth = @ - 1]
<1> DEFINE q == [r EXCEPT !.shields = @ - 1]
<1>0. /\ r \in WorkerRec /\ WorkerOK(r, w, ctx[w], m, home) /\ ctx[w] \in BOOLEAN /\ r.n \in Nat
      /\ m \in Mem /\ p \in Procs /\ owed[p] \in SUBSET Calls /\ MemOK(p, m, owed[p])
      /\ Listed(p, worker, m) /\ home \in Home /\ HomeOK(home) /\ ctx = [ctx EXCEPT ![w] = ctx[w]]
  BY Before
<1>1. r.pc = "idle" /\ r.shields > 0 /\ UNCHANGED <<ctx, owed>>  BY DEF Unshield, Idle
<1>2. r.stack = <<>> /\ r.own_run = FALSE /\ r.shields <= r.opened /\ r.shields \in 1..MaxShields
      /\ r.opened \in 0..MaxShields /\ r.outcome # "cancelled"
  BY <1>0, <1>1, SdkAssumption DEF WorkerOK, Placed, InCall, WorkerRec
<1>3. worker' = [worker EXCEPT ![w] = q]
  <2>1. worker \in [Workers -> WorkerRec]  BY DEF IInv, WellTyped
  <2> HIDE DEF WorkerRec
  <2> QED  BY <2>1 DEF Unshield
<1>4. sdk' = [sdk EXCEPT ![p] = m2]
  <2>1. sdk \in [Procs -> Mem]  BY DEF IInv, WellTyped
  <2>2. sdk' = [sdk EXCEPT ![p].depth = @ - 1]  BY DEF Unshield, uninstall
  <2> HIDE DEF Mem
  <2> QED  BY <2>1, <2>2
<1>5. q \in WorkerRec /\ q.n = r.n /\ q.pc = "idle" /\ q.stack = <<>> /\ q.own_run = FALSE
      /\ q.outcome # "cancelled"
      /\ q.shields = r.shields - 1 /\ q.opened = r.opened
  <2>1. PICK a \in 0 .. MaxShields : a = r.shields - 1  BY <1>2, SdkAssumption
  <2>2. q = [r EXCEPT !.shields = a]  BY <2>1
  <2>3. r \in WorkerRec  BY <1>0
  <2> HIDE DEF r, q
  <2>4. q \in WorkerRec  BY <2>2, <2>3 DEF WorkerRec
  <2>5. q.n = r.n /\ q.pc = r.pc /\ q.stack = r.stack /\ q.own_run = r.own_run
        /\ q.outcome = r.outcome /\ q.shields = a /\ q.opened = r.opened
    BY <2>2, <2>3 DEF WorkerRec
  <2> QED  BY <1>1, <1>2, <2>1, <2>4, <2>5
<1> HIDE DEF q
<1>6. m.depth > 0  BY <1>1, OpenInstalled
<1>7. m2 \in Mem /\ m2.depth = m.depth - 1 /\ m2.life = m.life /\ m.depth \in Nat
      /\ m2.calls = m.calls /\ m2.trace = m.trace
  BY <1>0, <1>6 DEF Mem
<1> HIDE DEF m2
<1>8. q.shields <= q.opened  BY <1>2, <1>5, SdkAssumption
<1>9. WorkerOK(q, w, ctx[w], m2, home')  BY <1>5, <1>8, IdleOK
<1>10. CountOK(p, worker', m2)
  <2>1. CountOK(p, worker, m)  BY <1>0 DEF IInv
  <2>2. worker'[w].shields = q.shields
        /\ \A v \in Workers \ {w} : worker[v].shields = worker'[v].shields
    BY <1>3 DEF IInv, WellTyped
  <2>3. PICK k \in 1..MaxShields : k = r.shields  BY <1>2
  <2>4. Cardinality(Open(p, worker)) = Cardinality(Open(p, worker')) + 1
    <3>1. worker'[w].shields = k - 1 /\ worker[w].shields = k  BY <2>2, <2>3, <1>5
    <3> HIDE DEF p
    <3>2. Process(w) = p  BY DEF p
    <3> QED  BY <2>2, <3>1, <3>2, OneMore
  <2>5. Cardinality(Open(p, worker)) \in Nat /\ Cardinality(Open(p, worker')) \in Nat
        /\ IsFiniteSet(Open(p, worker))
    BY OpenFinite
  <2>6. Wrap(p, m2) = Wrap(p, m) /\ Wrap(p, m) \in Nat  BY <1>7 DEF Wrap
  <2>7. ~(p \in Wrapped /\ m.life # "on")
    <3>1. Cardinality(Open(p, worker)) # 0  BY <2>4, <2>5
    <3>2. Open(p, worker) # {}  BY <3>1, FS_EmptySet
    <3> QED  BY <2>1, <3>2 DEF CountOK
  <2> HIDE DEF m, p
  <2> QED  BY <2>1, <2>4, <2>5, <2>6, <2>7, <1>7 DEF CountOK
<1>11. home' \in Home /\ HomeOK(home') /\ home'.lock = home.lock /\ home'.seen = home.seen
       /\ home'.flagged = home.flagged
  <2>1. PICK hm : hm = home'  OBVIOUS
  <2>2. hm = home \/ hm = write_run_log(p)  BY <2>1 DEF Unshield, uninstall
  <2>3. hm \in Home /\ HomeOK(hm) /\ hm.lock = home.lock /\ hm.seen = home.seen /\ hm.flagged = home.flagged
    <3> HIDE DEF p
    <3> QED  BY <2>2, <1>0, <1>6, RunLogFacts
  <2> QED  BY <2>1, <2>3
<1>12. \A v \in Workers \ {w} : Spared(m, m2, v) /\ Locked(home, home', v)
  BY <1>7, <1>11 DEF Spared, Locked
<1>13. Made(w, q.n, m2)
  BY <1>0, <1>5, <1>7 DEF Listed, Made
<1>14. MemOK(p, m2, owed[p])
  <2>1. m2.depth > 0 => m.depth > 0  BY <1>6
  <2> QED  BY <2>1, <1>0, <1>7 DEF MemOK
<1>15. ctx' = [ctx EXCEPT ![w] = ctx[w]] /\ owed' = [owed EXCEPT ![p] = owed[p]] /\ q.n >= worker[w].n
  BY <1>0, <1>1, <1>5 DEF IInv, WellTyped
<1>16. PICK hm \in Home : hm = home'  BY <1>11
<1>17. WorkerOK(q, w, ctx[w], m2, hm) /\ HomeOK(hm) /\ \A v \in Workers \ {w} : Locked(home, hm, v)
  BY <1>9, <1>11, <1>12, <1>16
<1> HIDE DEF m, r
<1> QED  BY <1>0, <1>3, <1>4, <1>5, <1>7, <1>10, <1>12, <1>13, <1>14, <1>15, <1>16, <1>17, Counted DEF m

LEMMA install_process_wrapKeeps ==
  ASSUME IInv, NEW p \in Procs, install_process_wrap(p)
  PROVE  IInv'
<1> DEFINE m == sdk[p]
<1> DEFINE m2 == [m EXCEPT !.depth = @ + 1, !.calls = {}, !.trace = TraceOf[p], !.life = "on"]
<1>1. p \in Wrapped /\ m.life = "new" /\ UNCHANGED <<worker, ctx, home>> /\ owed' = [owed EXCEPT ![p] = {}]
  BY DEF install_process_wrap
<1>2. WellTyped /\ m \in Mem /\ CountOK(p, worker, m)  BY DEF IInv, WellTyped
<1>3. Open(p, worker) = {} /\ m.depth = 0  BY <1>1, <1>2, FS_EmptySet DEF CountOK, Wrap
<1>4. sdk' = [sdk EXCEPT ![p] = m2]
  <2>1. sdk \in [Procs -> Mem]  BY <1>2 DEF WellTyped
  <2>2. sdk' = install(p, TraceOf[p])  BY DEF install_process_wrap
  <2> HIDE DEF Mem
  <2> QED  BY <2>1, <2>2, <1>3 DEF install
<1>5. TraceOf[p] \in TracesOf(p) /\ TraceOf[p] \in Traces  BY <1>1, TraceTypes
<1>6. m2 \in Mem /\ m2.depth = 1 /\ m2.life = "on" /\ m2.calls = {} /\ m2.trace = TraceOf[p]
  <2>1. PICK d \in Nat : d = 1  OBVIOUS
  <2>2. PICK trace \in Traces : trace = TraceOf[p]  BY <1>5
  <2>3. m2 = [m EXCEPT !.depth = d, !.calls = {}, !.trace = trace, !.life = "on"]  BY <1>3, <2>1, <2>2
  <2>4. m \in Mem  BY <1>2
  <2> HIDE DEF m, m2
  <2>5. m2 \in Mem /\ m2.depth = d /\ m2.life = "on" /\ m2.calls = {} /\ m2.trace = trace
    BY <2>3, <2>4 DEF Mem
  <2> QED  BY <2>1, <2>2, <2>5
<1> HIDE DEF m2
<1>7. WellTyped'
  BY <1>1, <1>2, <1>4, <1>6 DEF WellTyped
<1>8. ASSUME NEW v \in Workers PROVE WorkerOK(worker'[v], v, ctx'[v], sdk'[Process(v)], home')
  <2>1. Process(v) \in Procs  BY ProcessType
  <2>2. sdk'[Process(v)] \in Mem /\ home' \in Home  BY <2>1, <1>7 DEF WellTyped
  <2>3. Locked(home, home', v)  BY <1>1 DEF Locked
  <2>4. Spared(sdk[Process(v)], sdk'[Process(v)], v)
    <3>1. CASE Process(v) = p
      <4>1. sdk'[Process(v)] = m2  BY <3>1, <1>2, <1>4 DEF WellTyped
      <4>2. sdk[Process(v)].depth = 0 /\ sdk[Process(v)].life = "new"  BY <3>1, <1>1, <1>3
      <4>3. \A k : Libs(m2.calls, k) = {}  BY <1>6 DEF Libs
      <4> QED  BY <4>1, <4>2, <4>3, <1>6 DEF Spared
    <3>2. CASE Process(v) # p
      <4>1. sdk'[Process(v)] = sdk[Process(v)]  BY <3>2, <2>1, <1>2, <1>4 DEF WellTyped
      <4> QED  BY <4>1 DEF Spared
    <3> QED  BY <3>1, <3>2
  <2> QED  BY <1>1, <2>2, <2>3, <2>4, OthersKeep
<1>9. ASSUME NEW q \in Procs
      PROVE  CountOK(q, worker', sdk'[q]) /\ Listed(q, worker', sdk'[q]) /\ MemOK(q, sdk'[q], owed'[q])
  <2>1. CASE q = p
    <3>1. sdk'[q] = m2 /\ owed'[q] = {} /\ worker' = worker  BY <2>1, <1>1, <1>2, <1>4 DEF WellTyped
    <3>2. Cardinality(Open(q, worker')) = 0 /\ Open(q, worker') = {}  BY <3>1, <2>1, <1>3, FS_EmptySet
    <3>3. CountOK(q, worker', m2)  BY <3>2, <2>1, <1>1, <1>6 DEF CountOK, Wrap
    <3>4. Listed(q, worker', m2)  BY <1>6 DEF Listed, Ids
    <3>5. MemOK(q, m2, {})  BY <2>1, <1>5, <1>6 DEF MemOK, Once, Ids
    <3> QED  BY <3>1, <3>3, <3>4, <3>5
  <2>2. CASE q # p
    <3>1. sdk'[q] = sdk[q] /\ owed'[q] = owed[q] /\ worker' = worker  BY <2>2, <1>1, <1>2, <1>4 DEF WellTyped
    <3> QED  BY <3>1 DEF IInv
  <2> QED  BY <2>1, <2>2
<1>10. HomeOK(home')  BY <1>1 DEF IInv
<1> QED  BY <1>7, <1>8, <1>9, <1>10 DEF IInv

\* The end of a process, and of its workers.
LEMMA Ended ==
  ASSUME IInv, NEW p \in Procs, NEW hm \in Home, HomeOK(hm), home' = hm,
         hm.lock = home.lock, hm.seen = home.seen, hm.flagged = home.flagged,
         NEW m \in Mem, m.depth = 0, m.life = "gone", NEW o \in SUBSET Calls, MemOK(p, m, o),
         \A w \in Workers, k \in Nat, j \in Nat : <<w, k, j>> \in Ids(m.calls) => Process(w) = p,
         sdk' = [sdk EXCEPT ![p] = m], owed' = [owed EXCEPT ![p] = o],
         worker' = [w \in Workers |-> IF Process(w) = p THEN Unused("dead") ELSE worker[w]],
         ctx' \in [Workers -> BOOLEAN], \A v \in Workers : Process(v) # p => ctx'[v] = ctx[v]
  PROVE  IInv'
<1> DEFINE dead == Unused("dead")
<1>1. WellTyped  BY DEF IInv
<1>2. /\ dead \in WorkerRec /\ dead.pc = "dead" /\ dead.stack = <<>> /\ dead.own_run = FALSE
      /\ dead.shields = 0 /\ dead.opened = 0 /\ dead.outcome = "none"
  BY SdkAssumption DEF Unused, NoConn, WorkerRec, Conn, Pcs, Results
<1> HIDE DEF dead
<1>3. WellTyped'
  <2>1. worker' \in [Workers -> WorkerRec]  BY <1>1, <1>2 DEF WellTyped, dead
  <2>2. sdk' \in [Procs -> Mem]
    BY <1>1 DEF WellTyped
  <2>3. owed' \in [Procs -> SUBSET Calls]  BY <1>1 DEF WellTyped
  <2> QED  BY <2>1, <2>2, <2>3 DEF WellTyped
<1>5. \A q \in Procs : /\ q = p => sdk'[q] = m /\ owed'[q] = o
                       /\ q # p => sdk'[q] = sdk[q] /\ owed'[q] = owed[q]
  BY <1>1 DEF WellTyped
<1>6. \A v \in Workers : worker'[v] = IF Process(v) = p THEN dead ELSE worker[v]
  BY DEF dead
<1>7. ASSUME NEW v \in Workers PROVE WorkerOK(worker'[v], v, ctx'[v], sdk'[Process(v)], home')
  <2>1. CASE Process(v) = p
    <3>1. worker'[v] = dead  BY <2>1, <1>6
    <3>2. dead.shields <= dead.opened  BY <1>2
    <3>3. \A c, x, h : WorkerOK(dead, v, c, x, h)
      <4> TAKE c, x, h
      <4> QED  BY <1>2, <3>2, IdleOK
    <3> QED  BY <3>1, <3>3
  <2>2. CASE Process(v) # p
    <3>1. worker'[v] = worker[v] /\ ctx'[v] = ctx[v]  BY <2>2, <1>6
    <3>2. Process(v) \in Procs  BY ProcessType
    <3>3. sdk'[Process(v)] = sdk[Process(v)]  BY <2>2, <3>2, <1>5
    <3>4. sdk[Process(v)] \in Mem  BY <3>2, <1>1 DEF WellTyped
    <3>5. Spared(sdk[Process(v)], sdk[Process(v)], v) /\ Locked(home, hm, v)  BY DEF Spared, Locked
    <3>6. WorkerOK(worker[v], v, ctx[v], sdk[Process(v)], hm)  BY <3>4, <3>5, OthersKeep
    <3> QED  BY <3>1, <3>3, <3>6
  <2> QED  BY <2>1, <2>2
<1>8. ASSUME NEW q \in Procs
      PROVE  CountOK(q, worker', sdk'[q]) /\ Listed(q, worker', sdk'[q]) /\ MemOK(q, sdk'[q], owed'[q])
  <2>1. CASE q = p
    <3>1. sdk'[q] = m /\ owed'[q] = o  BY <2>1, <1>5
    <3>2. \A x \in Workers \X (1..MaxShields) : Process(x[1]) = q => ~(x[2] <= worker'[x[1]].shields)
      <4> TAKE x \in Workers \X (1..MaxShields)
      <4>1. x[1] \in Workers /\ x[2] \in 1..MaxShields  OBVIOUS
      <4>2. Process(x[1]) = q => worker'[x[1]].shields = 0  BY <4>1, <2>1, <1>2, <1>6
      <4>3. ~(x[2] <= 0)  BY <4>1, SdkAssumption
      <4> QED  BY <4>2, <4>3
    <3>3. Open(q, worker') = {}  BY <3>2 DEF Open
    <3>4. CountOK(q, worker', m)
      <4>1. Cardinality(Open(q, worker')) = 0  BY <3>3, FS_EmptySet
      <4>2. Wrap(q, m) = 0  BY DEF Wrap
      <4> QED  BY <3>3, <4>1, <4>2 DEF CountOK
    <3>5. Listed(q, worker', m) /\ MemOK(q, m, o)  BY <2>1 DEF Listed
    <3> QED  BY <3>1, <3>4, <3>5
  <2>2. CASE q # p
    <3>1. sdk'[q] = sdk[q] /\ owed'[q] = owed[q]  BY <2>2, <1>5
    <3>2. \A v \in Workers : Process(v) = q => worker'[v] = worker[v]  BY <2>2, <1>6
    <3>3. CountOK(q, worker, sdk[q]) /\ Listed(q, worker, sdk[q]) /\ MemOK(q, sdk[q], owed[q])  BY DEF IInv
    <3>4. Open(q, worker') = Open(q, worker)  BY <3>2 DEF Open
    <3>5. Listed(q, worker', sdk[q])  BY <3>2, <3>3 DEF Listed
    <3>6. CountOK(q, worker', sdk[q])  BY <3>3, <3>4 DEF CountOK
    <3> QED  BY <3>1, <3>3, <3>5, <3>6
  <2> QED  BY <2>1, <2>2
<1> QED  BY <1>3, <1>7, <1>8 DEF IInv

LEMMA KillKeeps ==
  ASSUME IInv, NEW p \in Procs, Kill(p)
  PROVE  IInv'
<1>1. home \in Home /\ HomeOK(home) /\ ctx \in [Workers -> BOOLEAN]  BY DEF IInv, WellTyped
<1>2. ctx' \in [Workers -> BOOLEAN] /\ \A v \in Workers : Process(v) # p => ctx'[v] = ctx[v]
  <2>1. ctx' = [w \in Workers |-> Process(w) # p /\ ctx[w]]  BY DEF Kill
  <2>2. \A v \in Workers : ctx'[v] = (Process(v) # p /\ ctx[v])  BY <2>1, Zenon
  <2>3. \A v \in Workers : Process(v) # p => ctx'[v] = ctx[v]
    <3> TAKE v \in Workers
    <3>1. PICK b \in BOOLEAN : b = (Process(v) # p /\ ctx[v])  OBVIOUS
    <3>2. ctx'[v] = b  BY <2>2, <3>1, Zenon
    <3>3. ctx[v] \in BOOLEAN  BY <1>1
    <3> QED  BY <3>1, <3>2, <3>3
  <2> QED  BY <2>1, <2>3
<1>3. PICK m : m = Memory("gone")  OBVIOUS
<1>4. home' = home /\ sdk' = [sdk EXCEPT ![p] = m] /\ owed' = [owed EXCEPT ![p] = {}]
      /\ worker' = [w \in Workers |-> IF Process(w) = p THEN Unused("dead") ELSE worker[w]]
  BY <1>3 DEF Kill
<1>5. m \in Mem /\ m.depth = 0 /\ m.life = "gone" /\ m.calls = {}  BY <1>3 DEF Memory, Mem
<1>6. MemOK(p, m, {}) /\ \A w \in Workers, k \in Nat, j \in Nat : <<w, k, j>> \notin Ids(m.calls)
  BY <1>5 DEF MemOK, Once, Ids
<1> QED  BY <1>1, <1>2, <1>4, <1>5, <1>6, Ended

LEMMA shutdownKeeps ==
  ASSUME IInv, NEW p \in Procs, shutdown(p)
  PROVE  IInv'
<1>1. ctx \in [Workers -> BOOLEAN] /\ ctx' = ctx  BY DEF IInv, WellTyped, shutdown
<1>2. PICK hm : hm = home'  OBVIOUS
<1>3. sdk[p].depth = 1
  <2>1. CountOK(p, worker, sdk[p])  BY DEF IInv
  <2>2. Wrap(p, sdk[p]) = 1  BY DEF shutdown, Wrap
  <2>3. \A x \in Workers \X (1..MaxShields) : Process(x[1]) = p => ~(x[2] <= worker[x[1]].shields)
    <3> TAKE x \in Workers \X (1..MaxShields)
    <3>1. x[1] \in Workers /\ x[2] \in 1..MaxShields  OBVIOUS
    <3>2. Process(x[1]) = p => worker[x[1]].shields = 0  BY <3>1 DEF shutdown
    <3>3. ~(x[2] <= 0)  BY <3>1, SdkAssumption
    <3> QED  BY <3>2, <3>3
  <2>4. Open(p, worker) = {}  BY <2>3 DEF Open
  <2> QED  BY <2>1, <2>2, <2>4, FS_EmptySet DEF CountOK
<1>4. hm = home \/ hm = write_run_log(p)  BY <1>2 DEF shutdown
<1>5. hm \in Home /\ HomeOK(hm) /\ hm.lock = home.lock /\ hm.seen = home.seen /\ hm.flagged = home.flagged
  BY <1>3, <1>4, RunLogFacts
<1>6. owed' = owed /\ worker' = [w \in Workers |-> IF Process(w) = p THEN Unused("dead") ELSE worker[w]]
  BY DEF shutdown
<1>7. sdk \in [Procs -> Mem] /\ owed \in [Procs -> SUBSET Calls]  BY DEF IInv, WellTyped
<1>8. PICK m : m = [sdk[p] EXCEPT !.depth = @ - 1, !.life = "gone"]  OBVIOUS
<1>9. sdk' = [sdk EXCEPT ![p] = m]
  <2>1. sdk' = [sdk EXCEPT ![p].depth = @ - 1, ![p].life = "gone"]  BY DEF shutdown
  <2> QED  BY <2>1, <1>7, <1>8
<1>10. m \in Mem /\ m.depth = 0 /\ m.life = "gone" /\ m.calls = sdk[p].calls /\ m.trace = sdk[p].trace
  <2>1. sdk[p] \in Mem  BY <1>7
  <2>2. PICK d \in Nat : d = sdk[p].depth - 1 /\ d = 0  BY <1>3
  <2>3. m = [sdk[p] EXCEPT !.depth = d, !.life = "gone"]  BY <1>8, <2>2
  <2> QED  BY <2>1, <2>2, <2>3 DEF Mem
<1>11. MemOK(p, sdk[p], owed[p]) /\ Listed(p, worker, sdk[p])  BY DEF IInv
<1>12. MemOK(p, m, owed[p])  BY <1>3, <1>10, <1>11 DEF MemOK
<1>13. \A w \in Workers, k \in Nat, j \in Nat : <<w, k, j>> \in Ids(m.calls) => Process(w) = p
  BY <1>10, <1>11 DEF Listed
<1>14. owed' = [owed EXCEPT ![p] = owed[p]] /\ owed[p] \in SUBSET Calls  BY <1>6, <1>7
<1> QED  BY <1>1, <1>2, <1>5, <1>6, <1>9, <1>10, <1>12, <1>13, <1>14, Ended

-----------------------------------------------------------------------------
LEMMA InitInv == Init => IInv
<1> SUFFICES ASSUME Init PROVE IInv  OBVIOUS
<1> DEFINE idle == Unused("idle")
<1> DEFINE new == Memory("new")
<1>1. /\ idle \in WorkerRec /\ idle.pc = "idle" /\ idle.stack = <<>> /\ idle.own_run = FALSE
      /\ idle.shields = 0 /\ idle.opened = 0 /\ idle.outcome = "none"
  BY SdkAssumption DEF Unused, NoConn, WorkerRec, Conn, Pcs, Results
<1>2. new \in Mem /\ new.depth = 0 /\ new.life = "new" /\ new.calls = {}
  BY DEF Memory, Mem
<1>3. home \in Home /\ HomeOK(home)
  BY DEF Init, Home, HomeOK
<1>4. (\A w \in Workers : worker[w] = idle /\ ctx[w] = FALSE) /\ \A p \in Procs : sdk[p] = new /\ owed[p] = {}
  BY DEF Init
<1> HIDE DEF idle, new
<1>5. WellTyped
  BY <1>1, <1>2, <1>3 DEF Init, WellTyped, idle, new
<1>6. ASSUME NEW w \in Workers PROVE WorkerOK(worker[w], w, ctx[w], sdk[Process(w)], home)
  <2>1. idle.shields <= idle.opened  BY <1>1
  <2>2. \A c, m, h : WorkerOK(idle, w, c, m, h)
    <3> TAKE c, m, h
    <3> QED  BY <1>1, <2>1, IdleOK
  <2> QED  BY <2>2, <1>4
<1>7. ASSUME NEW p \in Procs
      PROVE  CountOK(p, worker, sdk[p]) /\ Listed(p, worker, sdk[p]) /\ MemOK(p, sdk[p], owed[p])
  <2>1. \A x \in Workers \X (1..MaxShields) : ~(x[2] <= worker[x[1]].shields)
    <3> TAKE x \in Workers \X (1..MaxShields)
    <3>1. x[1] \in Workers /\ x[2] \in 1..MaxShields  OBVIOUS
    <3>2. worker[x[1]].shields = 0  BY <3>1, <1>1, <1>4
    <3>3. ~(x[2] <= 0)  BY <3>1, SdkAssumption
    <3> QED  BY <3>2, <3>3
  <2>2. Open(p, worker) = {}  BY <2>1 DEF Open
  <2>3. CountOK(p, worker, new)  BY <2>2, <1>2, FS_EmptySet DEF CountOK, Wrap
  <2>4. Listed(p, worker, new) /\ MemOK(p, new, {})  BY <1>2 DEF Listed, MemOK, Once, Ids
  <2> QED  BY <2>3, <2>4, <1>4
<1> QED  BY <1>3, <1>5, <1>6, <1>7 DEF IInv

LEMMA NextKeeps == IInv /\ [Next]_vars => IInv'
<1> SUFFICES ASSUME IInv, [Next]_vars PROVE IInv'  OBVIOUS
<1>1. ASSUME NEW w \in Workers,
             \/ Shield(w) \/ Unshield(w) \/ MakeConnection(w) \/ CloseConnection(w)
             \/ Invoke(w) \/ Redirect(w) \/ FollowRedirect(w) \/ Return(w) \/ Record(w)
             \/ Lock(w) \/ LockTimeout(w) \/ WriteSeen(w) \/ Journal(w)
      PROVE  IInv'
  BY <1>1, ShieldKeeps, UnshieldKeeps, MakeConnectionKeeps, CloseConnectionKeeps, InvokeKeeps, RedirectKeeps,
     FollowRedirectKeeps, ReturnKeeps,
     RecordKeeps, LockKeeps, LockTimeoutKeeps, WriteSeenKeeps, JournalKeeps
<1>2. ASSUME NEW w \in Workers, NEW lib \in Entries[w], NEW h \in Hosts, Begin(w, lib, h)
      PROVE  IInv'
  BY <1>2, BeginKeeps
<1>3. ASSUME NEW w \in Workers, NEW o \in Outcomes, Answer(w, o) \/ GetResponse(w, o)
      PROVE  IInv'
  BY <1>3, AnswerKeeps, GetResponseKeeps
<1>4. ASSUME NEW p \in Procs, install_process_wrap(p) \/ shutdown(p) \/ Kill(p)
      PROVE  IInv'
  BY <1>4, install_process_wrapKeeps, shutdownKeeps, KillKeeps
<1>5. CASE UNCHANGED vars
  BY <1>5 DEF vars, IInv, WellTyped
<1> QED  BY <1>1, <1>2, <1>3, <1>4, <1>5 DEF Next

\* At every point of every call, with any other calls, shields and processes in
\* between (_http_observe.py, shield.py).
THEOREM Invariance == Spec => []IInv
<1>1. Init => IInv  BY InitInv
<1>2. IInv /\ [Next]_vars => IInv'  BY NextKeeps
<1> QED  BY <1>1, <1>2, PTL DEF Spec

\* A request is recorded once, whatever hooked libraries it goes through, in the
\* list of the run and in every run log, but for the two nestings of Again: a
\* command that asyncio starts and a request made with putrequest
\* (_http_handled and _http_owns, _http_observe.py:139, 1264, 1914, 1935).
THEOREM CallRecordedOnce == Spec => []RecordedOnce
<1>1. IInv => RecordedOnce
  <2> SUFFICES ASSUME IInv PROVE RecordedOnce  OBVIOUS
  <2>1. \A p \in Procs : Once(sdk[p].calls)  BY DEF IInv, MemOK
  <2>2. \A t \in Traces : \A l \in home.runs[t] : Once(l.calls)  BY DEF IInv, HomeOK
  <2> QED  BY <2>1, <2>2 DEF RecordedOnce, Once
<1> QED  BY <1>1, Invariance, PTL

\* A destination is flagged once for a program, over all the processes that run
\* it, never when the allowlist has it, and what is in the journal is in the seen
\* file, wherever processes are killed (_note_live, _http_observe.py:399).
THEOREM DestinationFlaggedOnce == Spec => []FlaggedOnce
<1>1. IInv => FlaggedOnce  BY DEF IInv, HomeOK, FlaggedOnce
<1> QED  BY <1>1, Invariance, PTL

-----------------------------------------------------------------------------
(* The run log.                                                            *)

\* No two processes write the run log of one trace.
TracesApart == \A p, q \in Procs : p # q => TracesOf(p) \cap TracesOf(q) = {}

\* What a process that has no shield left owes is in its run log.
Written(p, m, o, hm) == m.depth = 0 /\ o # {} => \E l \in hm.runs[m.trace] : o \subseteq Ids(l.calls)
LogKept == \A p \in Procs : Written(p, sdk[p], owed[p], home)

\* The last shield of a process writes its own run log and no other.
LEMMA WritesOwn ==
  ASSUME IInv, TracesApart, NEW p \in Procs, sdk[p].depth > 0, NEW hm, hm = write_run_log(p)
  PROVE  /\ owed[p] # {} => \E l \in hm.runs[sdk[p].trace] : owed[p] \subseteq Ids(l.calls)
         /\ \A q \in Procs : q # p /\ owed[q] # {} => hm.runs[sdk[q].trace] = home.runs[sdk[q].trace]
<1> DEFINE m == sdk[p]
<1>1. home \in Home /\ m \in Mem /\ MemOK(p, m, owed[p]) /\ \A q \in Procs : MemOK(q, sdk[q], owed[q])
  BY DEF IInv, WellTyped
<1>2. CASE m.calls = {}
  <2>1. owed[p] = {}  BY <1>1, <1>2 DEF MemOK, Ids
  <2>2. hm = home  BY <1>2 DEF write_run_log
  <2> QED  BY <2>1, <2>2
<1>3. CASE m.calls # {}
  <2> DEFINE log == [calls |-> m.calls, status |-> rollup_status(m.calls)]
  <2>1. hm = [home EXCEPT !.runs[m.trace] = {log}]  BY <1>3, Zenon DEF write_run_log
  <2>2. log.calls = m.calls  OBVIOUS
  <2>3. m.trace \in Traces /\ m.trace \in TracesOf(p)  BY <1>1, TraceTypes DEF MemOK
  <2> HIDE DEF log
  <2>4. hm.runs = [home.runs EXCEPT ![m.trace] = {log}] /\ home.runs \in [Traces -> SUBSET LogRec]
    BY <2>1, <1>1 DEF Home
  <2>5. hm.runs[m.trace] = {log}  BY <2>3, <2>4
  <2>6. owed[p] \subseteq Ids(log.calls)  BY <2>2, <1>1 DEF MemOK
  <2>7. ASSUME NEW q \in Procs, q # p, owed[q] # {} PROVE hm.runs[sdk[q].trace] = home.runs[sdk[q].trace]
    <3>1. sdk[q].trace \in TracesOf(q)  BY <1>1, <2>7 DEF MemOK
    <3>2. sdk[q].trace # m.trace  BY <3>1, <2>3, <2>7 DEF TracesApart
    <3>3. sdk[q].trace \in Traces  BY <3>1, TraceTypes
    <3> QED  BY <2>4, <3>2, <3>3
  <2> QED  BY <2>5, <2>6, <2>7
<1> QED  BY <1>2, <1>3

\* Every other process keeps what it owes, and its log.
LEMMA KeptApart ==
  ASSUME LogKept, NEW p \in Procs, Written(p, sdk'[p], owed'[p], home'),
         \A q \in Procs : q # p => /\ sdk'[q].depth = sdk[q].depth /\ sdk'[q].trace = sdk[q].trace
                                   /\ owed'[q] = owed[q]
                                   /\ owed[q] # {} => home'.runs[sdk[q].trace] = home.runs[sdk[q].trace]
  PROVE  LogKept'
BY DEF LogKept, Written

LEMMA LogNext == TracesApart /\ IInv /\ LogKept /\ [Next]_vars => LogKept'
<1> SUFFICES ASSUME TracesApart, IInv, LogKept, [Next]_vars PROVE LogKept'
  OBVIOUS
<1>t. sdk \in [Procs -> Mem] /\ owed \in [Procs -> SUBSET Calls] /\ home \in Home
      /\ worker \in [Workers -> WorkerRec]
  BY DEF IInv, WellTyped
<1>0. ASSUME \A q \in Procs : sdk'[q].depth = sdk[q].depth /\ sdk'[q].trace = sdk[q].trace,
             owed' = owed, home'.runs = home.runs
      PROVE  LogKept'
  BY <1>0 DEF LogKept, Written
<1>1. ASSUME NEW w \in Workers, Shield(w) PROVE LogKept'
  <2> DEFINE p == Process(w)
  <2>1. p \in Procs  BY ProcessType
  <2>2. home' = home /\ sdk' = install(p, TraceOf[w])  BY <1>1 DEF Shield
  <2>3. sdk'[p].depth = sdk[p].depth + 1 /\ sdk[p].depth \in Nat
    <3> HIDE DEF p
    <3> QED  BY <2>1, <2>2, <1>t DEF install, Mem
  <2>4. \A q \in Procs : q # p => sdk'[q] = sdk[q]
    <3> HIDE DEF p
    <3> QED  BY <2>1, <2>2, <1>t DEF install
  <2>5. \A q \in Procs : q # p => owed'[q] = owed[q]  BY <1>1, <1>t DEF Shield
  <2>6. Written(p, sdk'[p], owed'[p], home')  BY <2>3 DEF Written
  <2> HIDE DEF p
  <2> QED  BY <2>1, <2>2, <2>4, <2>5, <2>6, KeptApart
<1>2. ASSUME NEW w \in Workers, Unshield(w) PROVE LogKept'
  <2> DEFINE p == Process(w)
  <2>1. p \in Procs  BY ProcessType
  <2>2. sdk[p].depth > 0  BY <1>2, OpenInstalled DEF Unshield
  <2>3. owed' = owed /\ sdk' = [sdk EXCEPT ![p].depth = @ - 1]
    BY <1>2 DEF Unshield, uninstall
  <2>4. home' = IF sdk[p].depth = 1 THEN write_run_log(p) ELSE home
    BY <1>2 DEF Unshield, uninstall
  <2> HIDE DEF p
  <2>5. sdk'[p].depth = sdk[p].depth - 1 /\ sdk'[p].trace = sdk[p].trace /\ sdk[p].depth \in Nat
        /\ \A q \in Procs : q # p => sdk'[q] = sdk[q]
    BY <2>1, <2>3, <1>t DEF Mem
  <2>6. PICK hm : hm = write_run_log(p)  OBVIOUS
  <2>7. /\ owed[p] # {} => \E l \in hm.runs[sdk[p].trace] : owed[p] \subseteq Ids(l.calls)
        /\ \A q \in Procs : q # p /\ owed[q] # {} => hm.runs[sdk[q].trace] = home.runs[sdk[q].trace]
    BY <2>1, <2>2, <2>6, WritesOwn
  <2>8. Written(p, sdk'[p], owed'[p], home')
    BY <2>2, <2>3, <2>4, <2>5, <2>6, <2>7 DEF Written
  <2>9. \A q \in Procs : q # p /\ owed[q] # {} => home'.runs[sdk[q].trace] = home.runs[sdk[q].trace]
    BY <2>4, <2>6, <2>7
  <2> QED  BY <2>1, <2>3, <2>5, <2>8, <2>9, KeptApart
<1>3. ASSUME NEW w \in Workers,
             \/ MakeConnection(w) \/ CloseConnection(w) \/ Invoke(w) \/ Redirect(w)
             \/ FollowRedirect(w) \/ LockTimeout(w)
             \/ (\E lib \in Entries[w], h \in Hosts : Begin(w, lib, h)) \/ (\E o \in Outcomes : Answer(w, o))
      PROVE  LogKept'
  <2>1. UNCHANGED <<sdk, owed, home>>
    BY <1>3 DEF MakeConnection, CloseConnection, Invoke, Redirect, FollowRedirect, LockTimeout, Begin, Answer
  <2> QED  BY <2>1, <1>0
<1>4. ASSUME NEW w \in Workers, Return(w) PROVE LogKept'
  <2> DEFINE p == Process(w)
  <2> DEFINE r == worker[w]
  <2>1. p \in Procs  BY ProcessType
  <2>2. sdk' = sdk /\ home' = home  BY <1>4 DEF Return
  <2>3. owed' = owed \/ (r.own_run /\ owed' = [owed EXCEPT ![p] = @ \cup {<<w, r.n, 0>>}])
    BY <1>4 DEF Return
  <2>4. CASE owed' = owed  BY <2>2, <2>4, <1>0
  <2>5. CASE r.own_run /\ owed' = [owed EXCEPT ![p] = @ \cup {<<w, r.n, 0>>}]
    <3>1. OwnRun(r, w, sdk[p])  BY Before DEF WorkerOK
    <3>2. r.shields > 0 \/ (p \in Wrapped /\ sdk[p].life = "on")  BY <2>5, <3>1 DEF OwnRun
    <3>3. sdk[p].depth > 0  BY <3>2, OpenInstalled
    <3>4. Written(p, sdk'[p], owed'[p], home')  BY <2>2, <3>3 DEF Written
    <3>5. \A q \in Procs : q # p => owed'[q] = owed[q]  BY <2>5, <1>t
    <3> HIDE DEF p, r
    <3> QED  BY <2>1, <2>2, <3>4, <3>5, KeptApart
  <2> QED  BY <2>3, <2>4, <2>5
<1>5. ASSUME NEW w \in Workers, Record(w) \/ (\E o \in Outcomes : GetResponse(w, o)) PROVE LogKept'
  <2>1. UNCHANGED <<owed, home>>  BY <1>5 DEF Record, GetResponse
  <2>2. PICK calls : sdk' = sdk \/ sdk' = [sdk EXCEPT ![Process(w)].calls = calls]
    BY <1>5, Zenon DEF Record, GetResponse
  <2>3. \A q \in Procs : sdk'[q].depth = sdk[q].depth /\ sdk'[q].trace = sdk[q].trace
    BY <2>2, <1>t DEF Mem
  <2> QED  BY <2>1, <2>3, <1>0
<1>6. ASSUME NEW w \in Workers, Lock(w) \/ WriteSeen(w) \/ Journal(w) PROVE LogKept'
  <2>1. UNCHANGED <<sdk, owed>> /\ home'.runs = home.runs
    BY <1>6, <1>t DEF Lock, WriteSeen, Journal, Home
  <2> QED  BY <2>1, <1>0
<1>7. ASSUME NEW p \in Procs, install_process_wrap(p) PROVE LogKept'
  <2>1. sdk' = install(p, TraceOf[p]) /\ home' = home /\ owed' = [owed EXCEPT ![p] = {}]
    BY <1>7 DEF install_process_wrap
  <2>2. owed'[p] = {} /\ \A q \in Procs : q # p => owed'[q] = owed[q]  BY <2>1, <1>t
  <2>3. \A q \in Procs : q # p => sdk'[q] = sdk[q]  BY <2>1, <1>t DEF install
  <2>4. Written(p, sdk'[p], owed'[p], home')  BY <2>2 DEF Written
  <2> QED  BY <2>1, <2>2, <2>3, <2>4, KeptApart
<1>8. ASSUME NEW p \in Procs, Kill(p) PROVE LogKept'
  <2>1. owed' = [owed EXCEPT ![p] = {}] /\ sdk' = [sdk EXCEPT ![p] = Memory("gone")] /\ home' = home
    BY <1>8 DEF Kill
  <2>2. owed'[p] = {} /\ \A q \in Procs : q # p => owed'[q] = owed[q] /\ sdk'[q] = sdk[q]  BY <2>1, <1>t
  <2>3. Written(p, sdk'[p], owed'[p], home')  BY <2>2 DEF Written
  <2> QED  BY <2>1, <2>2, <2>3, KeptApart
<1>10. ASSUME NEW p \in Procs, shutdown(p) PROVE LogKept'
  <2>1. owed' = owed /\ sdk' = [sdk EXCEPT ![p].depth = @ - 1, ![p].life = "gone"]
        /\ home' = IF sdk[p].depth = 1 THEN write_run_log(p) ELSE home
    BY <1>10 DEF shutdown
  <2>2. sdk[p].depth > 0
    <3>1. CountOK(p, worker, sdk[p])  BY DEF IInv
    <3>2. Wrap(p, sdk[p]) = 1  BY <1>10 DEF shutdown, Wrap
    <3> QED  BY <3>1, <3>2, OpenFinite DEF CountOK
  <2>3. sdk'[p].depth = sdk[p].depth - 1 /\ sdk'[p].trace = sdk[p].trace /\ sdk[p].depth \in Nat
        /\ \A q \in Procs : q # p => sdk'[q] = sdk[q]
    BY <2>1, <1>t DEF Mem
  <2>4. PICK hm : hm = write_run_log(p)  OBVIOUS
  <2>5. /\ owed[p] # {} => \E l \in hm.runs[sdk[p].trace] : owed[p] \subseteq Ids(l.calls)
        /\ \A q \in Procs : q # p /\ owed[q] # {} => hm.runs[sdk[q].trace] = home.runs[sdk[q].trace]
    BY <2>2, <2>4, WritesOwn
  <2>6. Written(p, sdk'[p], owed'[p], home')
    BY <2>1, <2>2, <2>3, <2>4, <2>5 DEF Written
  <2>7. \A q \in Procs : q # p /\ owed[q] # {} => home'.runs[sdk[q].trace] = home.runs[sdk[q].trace]
    BY <2>1, <2>4, <2>5
  <2> QED  BY <2>1, <2>3, <2>6, <2>7, KeptApart
<1>9. CASE UNCHANGED vars
  BY <1>9, <1>0 DEF vars
<1> QED
  <2>1. CASE Next
    BY <2>1, <1>1, <1>2, <1>3, <1>4, <1>5, <1>6, <1>7, <1>8, <1>10 DEF Next
  <2> QED  BY <2>1, <1>9

\* What a worker calls under its own shield, and what ends with an answer or an
\* error that is no cancellation, is in the list of the run and, once the last
\* shield of the process is closed, in its run log, if no two processes use the
\* same trace id (uninstall and write_run_log, _http_observe.py).
THEOREM LogIsWhole == ASSUME TracesApart PROVE Spec => []RunLogWhole
<1>1. Init => LogKept
  BY DEF Init, LogKept, Written
<1>2. IInv /\ IInv' /\ LogKept /\ [Next]_vars => LogKept'
  BY LogNext
<1>3. IInv /\ LogKept => RunLogWhole
  <2> SUFFICES ASSUME IInv, LogKept, NEW p \in Procs
               PROVE  /\ owed[p] \subseteq Ids(sdk[p].calls)
                      /\ ~installed(p) /\ owed[p] # {} =>
                           \E l \in home.runs[sdk[p].trace] : owed[p] \subseteq Ids(l.calls)
    BY DEF RunLogWhole
  <2>1. MemOK(p, sdk[p], owed[p]) /\ sdk[p].depth \in Nat  BY DEF IInv, WellTyped, Mem
  <2>2. ~installed(p) => sdk[p].depth = 0  BY <2>1 DEF installed
  <2> QED  BY <2>1, <2>2 DEF MemOK, LogKept, Written
<1> QED  BY <1>1, <1>2, <1>3, Invariance, PTL DEF Spec
=============================================================================
