------------------------------ MODULE AgentSdk ------------------------------
(***************************************************************************)
(* The Python agent SDK of Optics (packages/vantio-agent-sdk-py/vantio):   *)
(* shield() and the process wrap install hooks over ten client libraries,  *)
(* a reference count keeps them in place while any shield is open, every   *)
(* call to a host in scope is recorded when it ends, the last shield to    *)
(* close writes runs/<trace>.json, and each record is noted at once in the *)
(* files every process of the user shares (seen-destinations.json,         *)
(* live.jsonl, under the directory lock seen.lock).                        *)
(*                                                                         *)
(* A worker is an asyncio task or a thread of the application. Workers of  *)
(* one thread run one at a time and give the thread up only where an async *)
(* library waits for the network. A call is a stack of frames, one for     *)
(* each library it goes through; a frame is the hook or, outside a shield, *)
(* the original function. A redirect that requests follows is a request of *)
(* its own. A call may also end in a BaseException that no hook catches:   *)
(* its task is cancelled, or Ctrl-C.                                       *)
(***************************************************************************)
EXTENDS Naturals, Sequences, FiniteSets, FiniteSetsExt

CONSTANTS Procs, Threads, Workers,
          ProcOf,      \* the process of a thread
          ThreadOf,    \* the thread of a worker
          ProgramOf,   \* the program label of a process
          Hosts, LlmHosts, Allowlist,
          Entries,     \* the libraries each worker calls
          TraceOf,     \* the trace id of a worker's shields and of a process
          Wrapped,     \* the processes run under `vantio run python`
          Outcomes,    \* of "ok", "http_error", "network_error" and "cancelled"
          Killable,    \* the processes that may be killed
          MaxCalls, MaxShields, MaxHops, NoOne

VARIABLES sdk,      \* per process: depth, trace id and recorded calls
          worker,   \* per worker: its place in a call, shields and connection
          ctx,      \* the context variable vantio_http_owns_connect
          tls,      \* the thread-local depth of _http_handled
          busy,     \* the worker that has a thread
          home,     \* the shared files: runs, seen, lock, journal
          owed      \* ghost: the calls a run log has to hold

vars == <<sdk, worker, ctx, tls, busy, home, owed>>

\* The requests: the number of the call and of the redirect it follows.
Calls == Workers \X (1..MaxCalls) \X (0..MaxHops)
Traces == {TraceOf[x] : x \in DOMAIN TraceOf}
Process(w) == ProcOf[ThreadOf[w]]
Destinations == {ProgramOf[p] : p \in Procs} \X Hosts

(***************************************************************************)
(* The hooks. records: a hook that always records, or only when no outer   *)
(* hook owns the call. owns: whether its original runs inside              *)
(* _http_handled. below: the library the original calls into.              *)
(***************************************************************************)
Hook(records, owns, below) == [records |-> records, owns |-> owns, below |-> below]

urlopen == Hook("always", "always", "opener")
opener == Hook("unowned", "unowned", "http_client")
requests == Hook("always", "always", "urllib3")
urllib3 == Hook("unowned", "unowned", "http_client")
httpx == Hook("always", "always", "create_connection")
aiohttp == Hook("always", "always", "connect")
http_client == Hook("unowned", "unowned", "create_connection")
create_connection == Hook("unowned", "always", "connect")
connect == Hook("unowned", "never", NoOne)
pycurl == Hook("always", "never", NoOne)

\* These record before they go on, and go on outside _http_handled: the headers
\* that follow http.client's putrequest connect, and asyncio's subprocess
\* functions use Popen.
putrequest == Hook("unowned", "never", "create_connection")
asyncio_exec == Hook("always", "never", "Popen")
Popen == Hook("always", "never", NoOne)
os_system == Hook("always", "never", NoOne)

Hooks == [urlopen |-> urlopen, opener |-> opener, requests |-> requests, urllib3 |-> urllib3,
          httpx |-> httpx, aiohttp |-> aiohttp, http_client |-> http_client, putrequest |-> putrequest,
          create_connection |-> create_connection, connect |-> connect, pycurl |-> pycurl,
          asyncio_exec |-> asyncio_exec, Popen |-> Popen, os_system |-> os_system]

\* The threads of a process run some of its workers; a leaf hook calls nothing.
ASSUME SdkAssumption ==
  /\ ProcOf \in [Threads -> Procs] /\ ThreadOf \in [Workers -> Threads] /\ DOMAIN ProgramOf = Procs
  /\ IsFiniteSet(Workers) /\ NoOne \notin Workers \cup Hosts \cup DOMAIN Hooks
  /\ Entries \in [Workers -> SUBSET DOMAIN Hooks]
  /\ Workers \cup Wrapped \subseteq DOMAIN TraceOf /\ Wrapped \subseteq Procs
  /\ Outcomes \subseteq {"ok", "http_error", "network_error", "cancelled"}
  /\ MaxCalls \in Nat /\ MaxShields \in Nat /\ MaxHops \in Nat

Outer == {l \in DOMAIN Hooks : Hooks[l].records = "always"}
Handled == {l \in DOMAIN Hooks : Hooks[l].owns = "always"}
Guarded == {l \in DOMAIN Hooks : Hooks[l].owns = "unowned"}
Awaited == {"aiohttp", "asyncio_exec"}   \* and the async client of httpx, shaped like aiohttp
Early == {"putrequest", "asyncio_exec", "Popen", "os_system"}

in_scope(h) == h \in LlmHosts

application_status(o) == CASE o \in {"ok", "redirect"} -> "SUCCESS"
                           [] o = "http_error" -> "APPLICATION_ERROR"
                           [] OTHER -> "UNAVAILABLE"

rollup_status(calls) ==
  LET apps == {application_status(c.status) : c \in calls}
  IN IF Cardinality(apps) = 1 THEN CHOOSE a \in apps : TRUE ELSE "PARTIAL"

Ids(calls) == {c.id : c \in calls}

TypeOK ==
  /\ \A p \in Procs :
       /\ sdk[p].depth \in 0..(1 + MaxShields * Cardinality(Workers))
       /\ sdk[p].trace \in Traces \cup {NoOne}
       /\ Ids(sdk[p].calls) \subseteq Calls
       /\ sdk[p].life \in {"new", "on", "gone"}
       /\ owed[p] \subseteq Calls
  /\ \A w \in Workers :
       /\ worker[w].pc \in {"idle", "enter", "wire", "return", "append", "lock",
                            "write", "journal", "dead"}
       /\ worker[w].shields \in 0..MaxShields
       /\ worker[w].pc = "idle" => worker[w].stack = <<>>
       /\ \A i \in 1..Len(worker[w].stack) : worker[w].stack[i].lib \in DOMAIN Hooks
       /\ \A k \in 2..Len(worker[w].stack) : worker[w].stack[k].invoked
  /\ \A t \in Threads :
       tls[t] = Cardinality({x \in Workers \X (1..6) :
                  LET s == worker[x[1]].stack IN
                  ThreadOf[x[1]] = t /\ x[2] <= Len(s) /\ s[x[2]].own /\ s[x[2]].invoked})
  /\ home.lock \in Workers \cup {NoOne}
  /\ home.seen \subseteq Destinations

----------------------------------------------------------------------------
Memory(life) == [depth |-> 0, trace |-> NoOne, calls |-> {}, life |-> life]

NoConn == [made |-> FALSE, bound |-> FALSE, sent |-> FALSE, pending |-> NoOne]

Unused(pc) == [pc |-> pc, stack |-> <<>>, n |-> 0, hops |-> 0, host |-> NoOne, outcome |-> "none",
               shields |-> 0, opened |-> 0, known |-> {}, conn |-> NoConn, own_run |-> FALSE]

Init ==
  /\ sdk = [p \in Procs |-> Memory("new")]
  /\ worker = [w \in Workers |-> Unused("idle")]
  /\ ctx = [w \in Workers |-> FALSE]
  /\ tls = [t \in Threads |-> 0]
  /\ busy = [t \in Threads |-> NoOne]
  /\ home = [runs |-> [t \in Traces |-> {}], seen |-> {}, lock |-> NoOne,
             flagged |-> [d \in Destinations |-> 0], lines |-> {}]
  /\ owed = [p \in Procs |-> {}]

install_EveryTime(p, trace) ==
  [sdk EXCEPT ![p].depth = @ + 1, ![p].calls = {}, ![p].trace = trace,
              ![p].life = "on"]

\* install and uninstall: the first shield clears the list and takes the trace
\* id, the last one restores the originals and writes the run log.
install(p, trace) ==
  [sdk EXCEPT ![p].depth = @ + 1,
              ![p].calls = IF sdk[p].depth = 0 THEN {} ELSE @,
              ![p].trace = IF sdk[p].depth = 0 THEN trace ELSE @,
              ![p].life = "on"]

write_run_log(p) ==
  IF sdk[p].calls = {} THEN home
  ELSE [home EXCEPT !.runs[sdk[p].trace] =
          {[calls |-> sdk[p].calls, status |-> rollup_status(sdk[p].calls)]}]

uninstall(p) ==
  /\ sdk' = [sdk EXCEPT ![p].depth = @ - 1]
  /\ home' = IF sdk[p].depth = 1 THEN write_run_log(p) ELSE home

installed(p) == sdk[p].depth > 0

----------------------------------------------------------------------------
(* The application opens and closes shields and makes calls.               *)

Has(w) == /\ sdk[Process(w)].life # "gone"
          /\ busy[ThreadOf[w]] \in {w, NoOne}
Idle(w) == Has(w) /\ worker[w].pc = "idle"

\* Only the first shield of an idle process starts a new run for the ghost.
Shield(w) ==
  LET p == Process(w) IN
  /\ Idle(w)
  /\ p \notin Wrapped \/ sdk[p].life = "on"
  /\ worker[w].opened < MaxShields
  /\ sdk' = install(p, TraceOf[w])
  /\ owed' = [owed EXCEPT ![p] = IF sdk[p].depth = 0 THEN {} ELSE @]
  /\ worker' = [worker EXCEPT ![w].shields = @ + 1, ![w].opened = @ + 1]
  /\ UNCHANGED <<ctx, tls, busy, home>>

Unshield(w) ==
  /\ Idle(w)
  /\ worker[w].shields > 0
  /\ uninstall(Process(w))
  /\ worker' = [worker EXCEPT ![w].shields = @ - 1]
  /\ UNCHANGED <<ctx, tls, busy, owed>>

install_process_wrap(p) ==
  /\ p \in Wrapped /\ sdk[p].life = "new"
  /\ sdk' = install(p, TraceOf[p])
  /\ owed' = [owed EXCEPT ![p] = {}]
  /\ UNCHANGED <<worker, ctx, tls, busy, home>>

\* atexit runs once the threads of the program are done.
shutdown(p) ==
  /\ p \in Wrapped /\ sdk[p].life = "on"
  /\ \A w \in Workers : Process(w) = p => worker[w].pc = "idle" /\ worker[w].shields = 0
  /\ home' = IF sdk[p].depth = 1 THEN write_run_log(p) ELSE home
  /\ sdk' = [sdk EXCEPT ![p].depth = @ - 1, ![p].life = "gone"]
  /\ worker' = [w \in Workers |-> IF Process(w) = p THEN Unused("dead")
                                  ELSE worker[w]]
  /\ UNCHANGED <<ctx, tls, busy, owed>>

\* The two ways to send on a connection of http.client.
Connected == {"http_client", "putrequest"}

\* http.client keeps socket.create_connection as it is when the connection
\* object is made.
MakeConnection(w) ==
  /\ Idle(w) /\ ~worker[w].conn.made /\ Entries[w] \cap Connected # {}
  /\ Process(w) \in Wrapped => sdk[Process(w)].life = "on"
  /\ worker' = [worker EXCEPT ![w].conn = [NoConn EXCEPT !.made = TRUE,
                                             !.bound = installed(Process(w))]]
  /\ UNCHANGED <<sdk, ctx, tls, busy, home, owed>>

CloseConnection(w) ==
  /\ Idle(w) /\ worker[w].conn.sent
  /\ worker' = [worker EXCEPT ![w].conn.sent = FALSE]
  /\ UNCHANGED <<sdk, ctx, tls, busy, home, owed>>

----------------------------------------------------------------------------
(* One call.                                                               *)

http_owns(context, depth) == context \/ depth > 0

dispatch_gate_Twice(lib, host, owns) == in_scope(host)

\* The gate of a hook: does it record this call?
dispatch_gate(lib, host, owns) == in_scope(host) /\ (lib \in Outer \/ ~owns)

\* The application uses http.client itself, on a connection it keeps.
Direct(w) == Len(worker[w].stack) = 1 /\ worker[w].stack[1].lib \in Connected

\* The frame of a library: the hook while the attribute is patched, or, for
\* a connection made earlier, when it was patched then.
Frame(w, lib, host, hop, context, depth) ==
  LET owns == http_owns(context, depth)
      hook == IF lib = "create_connection" /\ Direct(w) THEN worker[w].conn.bound
              ELSE installed(Process(w))
  IN [lib |-> lib, hop |-> hop, hook |-> hook, invoked |-> FALSE, was |-> context,
      own |-> hook /\ (lib \in Handled \/ (lib \in Guarded /\ ~owns)),
      rec |-> hook /\ dispatch_gate(lib, host, owns)]

\* Where a frame starts: what records first is about to.
Start(lib) == IF lib \in Early THEN "append" ELSE "enter"

Begin(w, lib, host) ==
  /\ Idle(w)
  /\ worker[w].n < MaxCalls
  /\ Process(w) \in Wrapped => sdk[Process(w)].life = "on"
  /\ lib \in Connected => worker[w].conn.made /\ ~worker[w].conn.sent
  /\ worker' = [worker EXCEPT
       ![w].n = @ + 1, ![w].hops = 0, ![w].host = host, ![w].outcome = "none",
       ![w].own_run = worker[w].shields > 0 \/ Process(w) \in Wrapped,
       ![w].stack = <<Frame(w, lib, host, 0, ctx[w], tls[ThreadOf[w]])>>,
       ![w].pc = Start(lib)]
  /\ busy' = [busy EXCEPT ![ThreadOf[w]] = w]
  /\ UNCHANGED <<sdk, ctx, tls, home, owed>>

Top(w) == Head(worker[w].stack)

\* The originals uninstall sets to None; urlopen's is a module constant and
\* the subprocess class and a pycurl object keep theirs.
Original(w) == Top(w).hook /\ Top(w).lib \notin {"urlopen", "pycurl", "Popen"}
                 => installed(Process(w))

\* The hook calls the original function, which goes on to the next library or
\* to the network. An original that is None raises a TypeError.
Invoke(w) ==
  LET t == ThreadOf[w]
      f == Top(w)
      owning == Original(w) /\ f.own
      depth == IF owning THEN tls[t] + 1 ELSE tls[t]
      context == ctx[w] \/ owning
      g == [f EXCEPT !.invoked = TRUE, !.own = owning]
  IN
  /\ Has(w) /\ worker[w].pc = "enter"
  /\ tls' = [tls EXCEPT ![t] = depth]
  /\ ctx' = [ctx EXCEPT ![w] = context]
  /\ \/ /\ ~Original(w)
        /\ worker' = [worker EXCEPT ![w].outcome = "TypeError", ![w].pc = "return",
                                    ![w].stack = <<g>> \o Tail(@)]
     \/ /\ Original(w) /\ Hooks[f.lib].below # NoOne
        /\ worker' = [worker EXCEPT ![w].stack =
              <<Frame(w, Hooks[f.lib].below, worker[w].host, f.hop, context, depth), g>> \o Tail(@),
              ![w].pc = Start(Hooks[f.lib].below)]
     \/ /\ Original(w) /\ Hooks[f.lib].below = NoOne
        /\ worker' = [worker EXCEPT ![w].pc = "wire", ![w].stack = <<g>> \o Tail(@)]
  /\ busy' = [busy EXCEPT ![t] =
       IF worker'[w].pc = "wire" /\ worker'[w].stack[Len(worker'[w].stack)].lib \in Awaited THEN NoOne ELSE @]
  /\ UNCHANGED <<sdk, home, owed>>

Uncaught(s) == [i \in DOMAIN s |-> [s[i] EXCEPT !.rec = FALSE]]

\* The network answers: a response, an HTTP error or a transport failure. Or the
\* call ends in a BaseException: the hooks catch Exception and record nothing.
Answer(w, o) ==
  /\ Has(w) /\ worker[w].pc = "wire"
  /\ worker' = [worker EXCEPT ![w].outcome = o, ![w].pc = "return",
                              ![w].stack = IF o = "cancelled" THEN Uncaught(@) ELSE @]
  /\ busy' = [busy EXCEPT ![ThreadOf[w]] = w]
  /\ UNCHANGED <<sdk, ctx, tls, home, owed>>

Bottom(s) == s[Len(s)]

\* The answer sends a call through requests elsewhere on the host.
Redirect(w) ==
  /\ Has(w) /\ worker[w].pc = "wire"
  /\ Len(worker[w].stack) > 1 /\ Bottom(worker[w].stack).lib = "requests"
  /\ worker[w].hops < MaxHops
  /\ worker' = [worker EXCEPT ![w].outcome = "redirect", ![w].pc = "return"]
  /\ UNCHANGED <<sdk, ctx, tls, busy, home, owed>>

\* What the frames above the bottom one have to record is recorded; then
\* Session.send, which is still running, calls Session.send again.
FollowRedirect(w) ==
  LET t == ThreadOf[w]
      s == worker[w].stack
      owning == {i \in 1..(Len(s) - 1) : s[i].own}
      depth == tls[t] - Cardinality(owning)
      context == IF owning = {} THEN ctx[w] ELSE s[Max(owning)].was
      hop == worker[w].hops + 1
  IN
  /\ Has(w) /\ worker[w].pc = "return" /\ worker[w].outcome = "redirect" /\ worker[w].hops < MaxHops
  /\ \A i \in 1..(Len(s) - 1) : ~s[i].rec
  /\ tls' = [tls EXCEPT ![t] = depth]
  /\ ctx' = [ctx EXCEPT ![w] = context]
  /\ worker' = [worker EXCEPT
       ![w].stack = <<Frame(w, "requests", worker[w].host, hop, context, depth), Bottom(s)>>,
       ![w].hops = hop, ![w].outcome = "none", ![w].pc = "enter"]
  /\ UNCHANGED <<sdk, busy, home, owed>>

\* How far a call unwinds before a hook has something to record.
Leaving(s) == Min({i \in 1..Len(s) : s[i].rec} \cup {Len(s)})

\* Frames end, innermost first: each leaves _http_handled, then records, then
\* returns. The return of the outermost frame ends the call.
Return(w) ==
  LET t == ThreadOf[w]
      s == worker[w].stack
      n == Leaving(s)
      owning == {i \in 1..n : s[i].own}
      ends == n = Len(s) /\ ~s[n].rec
      sent == ends /\ s[n].lib \in Connected /\ worker[w].outcome = "ok"
  IN
  /\ Has(w) /\ worker[w].pc = "return"
  /\ worker[w].outcome = "redirect" => n < Len(s)
  /\ tls' = [tls EXCEPT ![t] = @ - Cardinality(owning)]
  /\ ctx' = [ctx EXCEPT ![w] = IF owning = {} THEN @ ELSE s[Max(owning)].was]
  /\ worker' = [worker EXCEPT
       ![w].stack = IF ends THEN <<>> ELSE <<[s[n] EXCEPT !.own = FALSE]>> \o SubSeq(s, n + 1, Len(s)),
       ![w].pc = IF ends THEN "idle" ELSE "append",
       ![w].conn.sent = @ \/ sent,
       ![w].host = IF ends THEN NoOne ELSE @, ![w].own_run = @ /\ ~ends,
       ![w].outcome = IF ends THEN "none" ELSE @]
  /\ busy' = [busy EXCEPT ![t] = IF ends THEN NoOne ELSE @]
  /\ owed' = IF /\ ends /\ worker[w].own_run /\ s[n].lib \in Outer /\ in_scope(worker[w].host)
                /\ worker[w].outcome # "cancelled"
             THEN [owed EXCEPT ![Process(w)] = @ \cup {<<w, worker[w].n, 0>>}] ELSE owed
  /\ UNCHANGED <<sdk, home>>

\* What recorded first goes on, what recorded last goes back.
After(w) == IF Top(w).lib \in Early /\ ~Top(w).invoked THEN "enter" ELSE "return"

\* _record and _append. A request through http.client is recorded as it is
\* sent, with no status, and only when no response is awaited; its record
\* waits on the connection for getresponse.
Record(w) ==
  LET p == Process(w)
      f == Top(w)
      id == <<w, worker[w].n, f.hop>>
      waits == f.lib = "putrequest" \/ (f.lib = "http_client" /\ worker[w].outcome = "ok")
      skip == ~f.rec \/ (waits /\ worker[w].conn.pending # NoOne)
      status == IF f.lib = "http_client" /\ worker[w].outcome = "ok"
                THEN "none" ELSE worker[w].outcome
  IN
  /\ Has(w) /\ worker[w].pc = "append"
  /\ sdk' = IF skip THEN sdk
            ELSE [sdk EXCEPT ![p].calls = @ \cup {[id |-> id, lib |-> f.lib, status |-> status]}]
  /\ worker' = [worker EXCEPT
       ![w].stack = <<[f EXCEPT !.rec = FALSE]>> \o Tail(@),
       ![w].conn.pending = IF waits /\ ~skip THEN id ELSE @,
       ![w].pc = IF skip THEN After(w) ELSE "lock"]
  /\ UNCHANGED <<ctx, tls, busy, home, owed>>

\* getresponse completes the record of the request that waits on the
\* connection, unless another call of the thread owns it.
GetResponse(w, o) ==
  LET p == Process(w)
      c == worker[w].conn
      hook == installed(p) /\ ~http_owns(ctx[w], tls[ThreadOf[w]])
  IN
  /\ Idle(w) /\ c.sent
  /\ worker' = [worker EXCEPT ![w].conn.sent = FALSE,
                              ![w].conn.pending = IF hook /\ o # "cancelled" THEN NoOne ELSE @]
  /\ sdk' = IF hook /\ o \in {"ok", "http_error"}
            THEN [sdk EXCEPT ![p].calls = {IF r.id = c.pending THEN [r EXCEPT !.status = o] ELSE r
                                            : r \in @}]
            ELSE sdk
  /\ UNCHANGED <<ctx, tls, busy, home, owed>>

----------------------------------------------------------------------------
(* _note_live: every record is noted at once in the user's shared files,   *)
(* under a directory used as a lock. The spin holds the thread.            *)

Lock_Broken(w) ==
  /\ Has(w) /\ worker[w].pc = "lock"
  /\ home' = [home EXCEPT !.lock = w]
  /\ worker' = [worker EXCEPT ![w].known = home.seen, ![w].pc = "write"]
  /\ UNCHANGED <<sdk, ctx, tls, busy, owed>>

\* mkdir takes the lock; the allowlist and the seen file are read under it.
Lock(w) ==
  /\ Has(w) /\ worker[w].pc = "lock" /\ home.lock = NoOne
  /\ home' = [home EXCEPT !.lock = w]
  /\ worker' = [worker EXCEPT ![w].known = home.seen, ![w].pc = "write"]
  /\ UNCHANGED <<sdk, ctx, tls, busy, owed>>

\* Two seconds of a lock that someone else has: the note is given up.
LockTimeout(w) ==
  /\ Has(w) /\ worker[w].pc = "lock" /\ home.lock # NoOne
  /\ worker' = [worker EXCEPT ![w].pc = After(w)]
  /\ UNCHANGED <<sdk, ctx, tls, busy, home, owed>>

\* A pair of the seen file: the program and the destination.
Dest(w) == <<ProgramOf[Process(w)], worker[w].host>>

\* The seen file is replaced in one rename.
WriteSeen(w) ==
  /\ Has(w) /\ worker[w].pc = "write"
  /\ home' = [home EXCEPT !.seen = IF Dest(w) \in worker[w].known THEN @
                                   ELSE worker[w].known \cup {Dest(w)}]
  /\ worker' = [worker EXCEPT ![w].pc = "journal"]
  /\ UNCHANGED <<sdk, ctx, tls, busy, owed>>

allowlist_suppresses(h) == h \in Allowlist

\* The journal line, the notice on stderr, and the finally that removes the lock.
Journal(w) ==
  LET fresh == Dest(w) \notin worker[w].known /\ ~allowlist_suppresses(worker[w].host)
  IN
  /\ Has(w) /\ worker[w].pc = "journal"
  /\ home' = [home EXCEPT !.flagged[Dest(w)] = IF fresh THEN @ + 1 ELSE @,
                          !.lines = @ \cup {Dest(w)}, !.lock = NoOne]
  /\ worker' = [worker EXCEPT ![w].pc = After(w), ![w].known = {}]
  /\ UNCHANGED <<sdk, ctx, tls, busy, owed>>

----------------------------------------------------------------------------
\* The process is killed: its memory is gone, a lock it has stays.
Kill(p) ==
  /\ p \in Killable /\ sdk[p].life # "gone"
  /\ sdk' = [sdk EXCEPT ![p] = Memory("gone")]
  /\ worker' = [w \in Workers |->
        IF Process(w) = p THEN Unused("dead")
        ELSE worker[w]]
  /\ tls' = [t \in Threads |-> IF ProcOf[t] = p THEN 0 ELSE tls[t]]
  /\ busy' = [t \in Threads |-> IF ProcOf[t] = p THEN NoOne ELSE busy[t]]
  /\ ctx' = [w \in Workers |-> Process(w) # p /\ ctx[w]]
  /\ owed' = [owed EXCEPT ![p] = {}]
  /\ UNCHANGED home

CallStep(w) ==
  \/ Invoke(w) \/ Redirect(w) \/ FollowRedirect(w) \/ Return(w) \/ Record(w)
  \/ \E o \in Outcomes : Answer(w, o)
  \/ Lock(w) \/ LockTimeout(w) \/ WriteSeen(w) \/ Journal(w)

Next ==
  \/ \E w \in Workers :
       \/ Shield(w) \/ Unshield(w) \/ MakeConnection(w) \/ CloseConnection(w)
       \/ Invoke(w) \/ Redirect(w) \/ FollowRedirect(w) \/ Return(w) \/ Record(w)
       \/ Lock(w) \/ LockTimeout(w) \/ WriteSeen(w) \/ Journal(w)
       \/ \E lib \in Entries[w], h \in Hosts : Begin(w, lib, h)
       \/ \E o \in Outcomes : Answer(w, o) \/ GetResponse(w, o)
  \/ \E p \in Procs : install_process_wrap(p) \/ shutdown(p) \/ Kill(p)

Spec == Init /\ [][Next]_vars

----------------------------------------------------------------------------
(* Properties.                                                             *)

\* The hooks that record what an outer hook has already recorded, because that
\* one records first and goes on outside _http_handled.
Again == {{"asyncio_exec", "Popen"}, {"putrequest", "create_connection"}, {"putrequest", "connect"}}
Once(calls) == \A r, q \in calls : r.id = q.id => r = q \/ {r.lib, q.lib} \in Again

\* No request is recorded twice, however many hooked libraries it goes through
\* and whatever redirects it follows (the purpose of _http_handled and
\* _http_owns, _http_observe.py:139), but for the pairs of Again: a command that
\* asyncio starts is recorded by its hook (1935) and by Popen's (1914), and a
\* request made with putrequest (1264) also as the connection it opens (1147).
RecordedOnce ==
  /\ \A p \in Procs : Once(sdk[p].calls)
  /\ \A t \in Traces : \A l \in home.runs[t] : Once(l.calls)

\* Every call to a host in scope that a task makes through one of the outer
\* libraries while its own shield is open, and that ends with an answer or an
\* error, is in the list of the run when it ends, stays there whatever shields
\* other tasks open and close meanwhile, and is in the run log that the last of
\* them writes. A call that a cancellation or Ctrl-C ends is not owed: the hooks
\* catch Exception only (_http_observe.py:931, 1003).
RunLogWhole ==
  \A p \in Procs :
    /\ owed[p] \subseteq Ids(sdk[p].calls)
    /\ ~installed(p) /\ owed[p] # {} =>
         \E l \in home.runs[sdk[p].trace] : owed[p] \subseteq Ids(l.calls)

\* The first connection of a program to a destination is flagged at most once,
\* over all the processes that run the program, never when the allowlist has the
\* destination, and what is in the journal is in the seen file, also when a
\* process of any program was killed in between (the key of a pair,
\* _http_observe.py:419).
FlaggedOnce ==
  /\ \A d \in Destinations : home.flagged[d] <= IF d[2] \in Allowlist THEN 0 ELSE 1
  /\ home.lines \subseteq home.seen

\* No application call fails because of the hooks: the run log's own note says
\* "Optics does not block, delay, or rewrite" (_http_observe.py:2143).
AppUnbroken == \A w \in Workers : worker[w].outcome # "TypeError"

=============================================================================
