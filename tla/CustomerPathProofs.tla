------------------------- MODULE CustomerPathProofs -------------------------
(***************************************************************************)
(* Proofs about the customer's way through vantio-install, for every set   *)
(* of trusted keys, every preflight fact that may be odd, and every bound  *)
(* on commands and faults.                                                 *)
(*                                                                         *)
(* One command runs at a time, but it may be killed between any two of its *)
(* writes, and the loader starts, reports and dies by itself.  So the      *)
(* invariant has one part per concern: what a fetch may count on while it  *)
(* moves files (Fetching), what an install and an enforcing apply keep of  *)
(* what they have read (Installing, Enforcing), what a removal has done so *)
(* far (Removing, Booting), and when the record's health is the one of its *)
(* snapshot (Deriving).  The action properties follow from NextTurns: only *)
(* the last step of a command turns the record to what is promised.        *)
(***************************************************************************)
EXTENDS CustomerPath, TLAPS

-----------------------------------------------------------------------------
(* Types.                                                                  *)

Words == {"dropin", "other"}
Enrollments == [requested : BOOLEAN, banner : BOOLEAN, listed : BOOLEAN]
Snapshots == [cont : {"none", "observe", "enforce"}, loader : BOOLEAN, pins : BOOLEAN, clsact : BOOLEAN,
              cli : BOOLEAN, lsm : BOOLEAN, enr : Enrollments, flag : BOOLEAN]
Healths == {"PASS", "PASS_WITH_LIMITATIONS", "DEGRADED", "FAIL"}
States == {"NONE", "PREFLIGHT_BLOCKED", "UNSUPPORTED", "PLANNED", "APPLYING", "FAILED_SAFE", "HEALTHY",
           "DEGRADED", "ROLLING_BACK", "ROLLED_BACK", "VERIFIED_REMOVED", "RESIDUAL_FOUND"}
Disks == [state : States, prot : {"none", "OBSERVE", "PROTECTED", "DEGRADED"}, limited : BOOLEAN,
          snap : Snapshots, health : Healths \cup {"NOT_TESTED"}]
Containers == {NoContainer} \cup [kind : {"observe", "enforce"},
                                  life : {"created", "attached", "active", "stopped"}, said : BOOLEAN]
Files == Bodies \cup {NoFile}
Cmds == {"none", "fetch", "prep", "install", "enforce", "enroll", "unenroll", "remove"}
Ats == {"idle", "store", "write", "request", "move", "grub", "fetch", "verify", "load", "run", "wait", "save",
        "rm", "logs", "programs", "health", "snapshot", "reload", "stop", "unpin", "regen", "units", "finish"}
Pcs == [cmd : Cmds, at : Ats, body : Files, production : BOOLEAN, left : SUBSET Parts,
        prior : SUBSET Words, enr : Enrollments]

WellTyped ==
  /\ host \in [odd : OddChecks, fact : probe_live, layout : {"plain", "mislabelled", "broken"}]
  /\ lsm \in BOOLEAN /\ grub \in [files : SUBSET Words, cfg : BOOLEAN]
  /\ lic \in [stored : {"none", "torn", "good"}, over : BOOLEAN]
  /\ bundle \in [Parts -> Files] /\ got \in {"none", "prod", "lab"}
  /\ pe \in Containers /\ pins \in {"none", "old", "own"} /\ dropin \in BOOLEAN
  /\ disk \in Disks /\ ev \in Disks /\ pc \in Pcs
  /\ lost \in BOOLEAN /\ whole \in BOOLEAN

-----------------------------------------------------------------------------
\* Nothing is moved before the tree has verified, and only into an empty directory.
Fetching(c, b, g) ==
  /\ g # "none" => /\ \A p, q \in Parts : b[p] = b[q]
                   /\ \A p \in Parts : b[p].key = g /\ b[p].intact
  /\ c.cmd = "fetch" /\ c.at = "move" =>
       /\ g = "none" /\ c.left # {} /\ c.body # NoFile
       /\ verify_unpacked(c.body, c.production) = "VERIFIED"
       /\ \A p \in Parts : b[p] = IF p \in c.left THEN NoFile ELSE c.body

\* grub.cfg has the word only if a file asks for it, but for the moment in which a
\* removal has taken the files away and not yet run update-grub.
Booting(c, g, l) ==
  /\ l \/ ~g.cfg \/ g.files # {} \/ (c.cmd = "remove" /\ c.at = "regen")
  /\ c.cmd = "remove" /\ c.at = "regen" => c.prior # {}

\* The facts that preflight requires.
GoodHost(x) == x.fact = "good" \/ x.odd \in {"mem", "enterprise", "motion", "npm"}
Sealed(b) == \A p \in Parts : b[p].rel = "sealed" /\ b[p].intact

\* An install that got past the plan has a good host and the sealed bundle; past the
\* wait, its own loader has reported.
Installing(c, d, e, pn, b, x) ==
  c.cmd = "install" /\ c.at \in {"load", "run", "wait", "save"} =>
    /\ d.state = "APPLYING" /\ ~d.snap.enr.requested /\ GoodHost(x) /\ Sealed(b)
    /\ c.at \in {"wait", "save"} => e.kind = "observe"
    /\ c.at = "save" => e.said /\ pn = "own"

\* While enforcement is turned on nobody reboots, and a banner that was read is of
\* the container that is there.
Enforcing(c, d, e, k) ==
  c.cmd = "enforce" =>
    /\ d.state \in {"HEALTHY", "DEGRADED"} /\ k
    /\ c.at \in {"programs", "health", "snapshot", "save"} /\ c.enr.banner => e.kind = "enforce" /\ e.said

Removing(c, d, e) ==
  /\ c.cmd = "remove" => d.state = "ROLLING_BACK"
  /\ c.cmd = "remove" /\ c.at \in {"unpin", "grub", "regen", "units", "finish"} => e = NoContainer
  /\ d.state = "ROLLED_BACK" => e = NoContainer

\* A record whose health is the one derived from its own snapshot.
Derived(d) == d.health = derive(d.snap, d.limited).overall
Enforced(d, n) == [d.snap EXCEPT !.cont = "enforce", !.enr = n, !.lsm = TRUE, !.flag = TRUE]

\* The record and its copy are derived while no command is in between; what the
\* commands that write in between rely on.
Deriving(c, d, v, w) ==
  /\ w => Derived(d) /\ Derived(v)
  /\ w => /\ c.cmd = "install" => c.at \in {"fetch", "verify"}
          /\ c.cmd = "enforce" => c.at \in {"rm", "run", "logs", "programs", "health"}
          /\ c.cmd = "remove" => c.at \in {"stop", "rm"}
  /\ c.cmd = "enforce" /\ c.at = "snapshot" => d.health = derive(Enforced(d, c.enr), d.limited).overall
  /\ c.cmd = "enforce" /\ c.at = "save" => Derived(d) /\ d.snap = Enforced(d, c.enr)

IInv ==
  /\ WellTyped
  /\ Fetching(pc, bundle, got)
  /\ Booting(pc, grub, lost)
  /\ Installing(pc, disk, pe, pins, bundle, host)
  /\ Enforcing(pc, disk, pe, lsm)
  /\ Removing(pc, disk, pe)
  /\ Deriving(pc, disk, ev, whole)

-----------------------------------------------------------------------------
(* Frames: what the commands that do not concern a part leave of it.       *)

LEMMA FetchingKept ==
  ASSUME NEW c, NEW c2, NEW b, NEW g, Fetching(c, b, g), c2.cmd # "fetch" \/ c2.at # "move"
  PROVE  Fetching(c2, b, g)
BY DEF Fetching

LEMMA BootingKept ==
  ASSUME NEW c, NEW c2, NEW g, NEW l, Booting(c, g, l), c.cmd # "remove" \/ c.at # "regen",
         c2.cmd # "remove" \/ c2.at # "regen"
  PROVE  Booting(c2, g, l)
BY DEF Booting

\* A command that does not touch the container or the record.
LEMMA OutsideKept ==
  ASSUME NEW c, NEW c2, NEW d, NEW v, NEW v2, NEW w, NEW w2, NEW e, NEW pn, NEW b, NEW x, NEW k,
         Removing(c, d, e), Deriving(c, d, v, w), v2 \in {v, d}, w2 => w,
         c2.cmd \notin {"install", "enforce", "remove"}
  PROVE  /\ Installing(c2, d, e, pn, b, x) /\ Enforcing(c2, d, e, k)
         /\ Removing(c2, d, e) /\ Deriving(c2, d, v2, w2)
BY DEF Installing, Enforcing, Removing, Deriving

LEMMA IdlePc == Idle \in Pcs /\ Idle.cmd = "none" /\ Idle.at = "idle"
BY DEF Idle, Pcs, Cmds, Ats, Files, Enrollments, NoEnrollment

\* A change of the pc alone.
LEMMA GotoPc ==
  ASSUME NEW c \in Pcs, NEW a \in Ats, NEW c2, c2 = [c EXCEPT !.at = a]
  PROVE  /\ c2 \in Pcs /\ c2.cmd = c.cmd /\ c2.at = a /\ c2.body = c.body /\ c2.production = c.production
         /\ c2.left = c.left /\ c2.prior = c.prior /\ c2.enr = c.enr
BY DEF Pcs

LEMMA BeginPc ==
  ASSUME NEW cmd \in Cmds, NEW at \in Ats, NEW production \in BOOLEAN, NEW body \in Files,
         Begin(cmd, at, production, body)
  PROVE  pc' \in Pcs /\ pc'.cmd = cmd /\ pc'.at = at /\ pc'.enr = NoEnrollment /\ pc.cmd = "none" /\ pc.at = "idle"
<1>1. Idle.enr = NoEnrollment  BY DEF Idle
<1>2. pc = Idle /\ pc' = [Idle EXCEPT !.cmd = cmd, !.at = at, !.production = production, !.body = body]
  BY DEF Begin
<1>3. pc' \in Pcs /\ pc'.cmd = cmd /\ pc'.at = at /\ pc'.enr = Idle.enr
  BY <1>2, IdlePc DEF Pcs
<1> QED  BY <1>1, <1>2, <1>3, IdlePc

-----------------------------------------------------------------------------
(* fetch.                                                                  *)

LEMMA FetchStartKeeps ==
  ASSUME IInv, NEW t \in Tokens, NEW production \in BOOLEAN, FetchStart(t, production)
  PROVE  IInv'
<1>1. /\ pc' \in Pcs /\ pc'.cmd = "fetch" /\ pc'.at = "store" /\ pc.cmd = "none"
      /\ UNCHANGED <<host, lsm, grub, lic, dropin, bundle, got, pe, pins, disk, ev, lost, whole>>
  <2>1. NoFile \in Files  BY DEF Files
  <2> QED  BY <2>1, BeginPc DEF FetchStart, Cmds, Ats, hostVars
<1>2. WellTyped'  BY <1>1 DEF IInv, WellTyped
<1>3. Fetching(pc', bundle', got')  BY <1>1, FetchingKept DEF IInv
<1>4. Booting(pc', grub', lost')  BY <1>1, BootingKept DEF IInv
<1>5. /\ Installing(pc', disk', pe', pins', bundle', host') /\ Enforcing(pc', disk', pe', lsm')
      /\ Removing(pc', disk', pe') /\ Deriving(pc', disk', ev', whole')
  BY <1>1, OutsideKept DEF IInv
<1> QED  BY <1>2, <1>3, <1>4, <1>5 DEF IInv

LEMMA StoreKeeps ==
  ASSUME IInv, StoreOpened \/ StoreWritten
  PROVE  IInv'
<1>1. /\ pc' \in Pcs /\ pc'.cmd = "fetch" /\ pc'.at \in {"write", "request"} /\ pc.cmd = "fetch"
      /\ UNCHANGED <<host, lsm, grub, dropin, bundle, got, pe, pins, disk, ev, lost, whole>>
  <2>1. pc \in Pcs  BY DEF IInv, WellTyped
  <2>2. pc.cmd = "fetch" /\ \E a \in {"write", "request"} : pc' = [pc EXCEPT !.at = a]
    BY DEF StoreOpened, StoreWritten, At, Goto
  <2>3. PICK a \in {"write", "request"} : pc' = [pc EXCEPT !.at = a]  BY <2>2
  <2>4. a \in Ats  BY DEF Ats
  <2> QED  BY <2>1, <2>2, <2>3, <2>4, GotoPc DEF StoreOpened, StoreWritten
<1>2. WellTyped'
  <2>1. lic' \in [stored : {"none", "torn", "good"}, over : BOOLEAN]
    BY DEF StoreOpened, StoreWritten, IInv, WellTyped
  <2> QED  BY <1>1, <2>1 DEF IInv, WellTyped
<1>3. Fetching(pc', bundle', got')  BY <1>1, FetchingKept DEF IInv
<1>4. Booting(pc', grub', lost')  BY <1>1, BootingKept DEF IInv
<1>5. /\ Installing(pc', disk', pe', pins', bundle', host') /\ Enforcing(pc', disk', pe', lsm')
      /\ Removing(pc', disk', pe') /\ Deriving(pc', disk', ev', whole')
  BY <1>1, OutsideKept DEF IInv
<1> QED  BY <1>2, <1>3, <1>4, <1>5 DEF IInv

LEMMA fetch_bundleKeeps ==
  ASSUME IInv, NEW hops, NEW target, NEW d \in Answers, fetch_bundle(hops, target, d)
  PROVE  IInv'
<1>1. /\ pc \in Pcs /\ pc.cmd = "fetch" /\ pc.at = "request"
      /\ UNCHANGED <<host, lsm, grub, lic, dropin, bundle, got, pe, pins, disk, lost, whole>>
      /\ ev' \in {ev, disk}
  BY DEF fetch_bundle, FetchRefused, record_license, At, hostVars, IInv, WellTyped
<1>2. CASE pc' = Idle
  <2>1. pc' \in Pcs /\ pc'.cmd = "none"  BY <1>2, IdlePc
  <2>2. WellTyped'  BY <1>1, <2>1 DEF IInv, WellTyped
  <2>3. Fetching(pc', bundle', got')  BY <1>1, <2>1, FetchingKept DEF IInv
  <2>4. Booting(pc', grub', lost')  BY <1>1, <2>1, BootingKept DEF IInv
  <2>5. /\ Installing(pc', disk', pe', pins', bundle', host') /\ Enforcing(pc', disk', pe', lsm')
        /\ Removing(pc', disk', pe') /\ Deriving(pc', disk', ev', whole')
    BY <1>1, <2>1, OutsideKept DEF IInv
  <2> QED  BY <2>2, <2>3, <2>4, <2>5 DEF IInv
<1>3. CASE pc' # Idle
  <2>1. /\ pc' = [pc EXCEPT !.at = "move", !.body = d, !.left = Parts] /\ d # NoFile /\ accepted(d)
    BY <1>3 DEF fetch_bundle, FetchRefused
  <2>2. /\ pc' \in Pcs /\ pc'.cmd = "fetch" /\ pc'.at = "move" /\ pc'.body = d /\ pc'.left = Parts
        /\ pc'.production = pc.production
    BY <1>1, <2>1 DEF Pcs, Ats, Files, Answers
  <2>3. WellTyped'  BY <1>1, <2>2 DEF IInv, WellTyped
  <2>4. Fetching(pc', bundle', got')
    <3>1. \A p \in Parts : bundle[p] = NoFile  BY <2>1 DEF accepted, nonempty
    <3>2. got = "none"
      <4>1. "sums" \in Parts /\ NoFile.key = "none"  BY DEF Parts, NoFile
      <4> QED  BY <3>1, <4>1 DEF IInv, Fetching
    <3>3. verify_unpacked(d, pc.production) = "VERIFIED"  BY <2>1 DEF accepted
    <3>4. Parts # {}  BY DEF Parts
    <3> QED  BY <1>1, <2>1, <2>2, <3>1, <3>2, <3>3, <3>4 DEF Fetching
  <2>5. Booting(pc', grub', lost')  BY <1>1, <2>2, BootingKept DEF IInv
  <2>6. /\ Installing(pc', disk', pe', pins', bundle', host') /\ Enforcing(pc', disk', pe', lsm')
        /\ Removing(pc', disk', pe') /\ Deriving(pc', disk', ev', whole')
    BY <1>1, <2>2, OutsideKept DEF IInv
  <2> QED  BY <2>3, <2>4, <2>5, <2>6 DEF IInv
<1> QED  BY <1>2, <1>3

\* What has verified is of a key of the class of its path.
LEMMA VerifiedKey ==
  ASSUME NEW d \in Bodies, NEW production \in BOOLEAN, verify_unpacked(d, production) = "VERIFIED"
  PROVE  d.intact /\ d.key = IF production THEN "prod" ELSE "lab"
<1>1. d.key \in {"prod", "lab", "stranger"}  BY DEF Bodies, File
<1> QED  BY <1>1 DEF verify_unpacked, signature_reason

LEMMA MoveChildKeeps ==
  ASSUME IInv, NEW p \in Parts, MoveChild(p)
  PROVE  IInv'
<1>1. /\ pc \in Pcs /\ pc.cmd = "fetch" /\ pc.at = "move" /\ p \in pc.left /\ bundle \in [Parts -> Files]
      /\ bundle' = [bundle EXCEPT ![p] = pc.body]
      /\ UNCHANGED <<host, lsm, grub, lic, dropin, pe, pins, disk, lost, whole>>
      /\ ev' \in {ev, disk}
  BY DEF MoveChild, record_license, At, hostVars, IInv, WellTyped
<1>2. /\ got = "none" /\ pc.body # NoFile /\ verify_unpacked(pc.body, pc.production) = "VERIFIED"
      /\ \A q \in Parts : bundle[q] = IF q \in pc.left THEN NoFile ELSE pc.body
  BY <1>1 DEF IInv, Fetching
<1>3. /\ pc.body \in Bodies /\ pc.production \in BOOLEAN /\ pc.left \in SUBSET Parts
  BY <1>1, <1>2 DEF Pcs, Files
<1>4. pc' \in Pcs /\ pc'.cmd \in {"none", "fetch"} /\ got' \in {"none", "prod", "lab"}
  <2>1. CASE pc.left = {p}  BY <2>1, IdlePc DEF MoveChild
  <2>2. CASE pc.left # {p}  BY <1>1, <1>2, <2>2 DEF MoveChild, Pcs
  <2> QED  BY <2>1, <2>2
<1>5. WellTyped'
  <2>1. bundle' \in [Parts -> Files]  BY <1>1, <1>3 DEF Files
  <2> QED  BY <1>1, <1>4, <2>1 DEF IInv, WellTyped
<1>6. Fetching(pc', bundle', got')
  <2>1. \A q \in Parts : bundle'[q] = IF q \in pc.left \ {p} THEN NoFile ELSE pc.body  BY <1>1, <1>2
  <2>2. CASE pc.left = {p}
    <3>1. pc' = Idle /\ got' = IF pc.production THEN "prod" ELSE "lab"  BY <2>2 DEF MoveChild
    <3>2. pc.body.intact /\ pc.body.key = got'  BY <1>2, <1>3, <3>1, VerifiedKey
    <3>3. \A q \in Parts : bundle'[q] = pc.body  BY <2>1, <2>2
    <3> QED  BY <3>1, <3>2, <3>3, IdlePc DEF Fetching
  <2>3. CASE pc.left # {p}
    <3>1. pc' = [pc EXCEPT !.left = @ \ {p}] /\ got' = got  BY <2>3 DEF MoveChild
    <3>2. /\ pc'.left = pc.left \ {p} /\ pc'.body = pc.body /\ pc'.production = pc.production
      BY <1>1, <3>1 DEF Pcs
    <3>3. pc.left \ {p} # {}  BY <1>1, <2>3
    <3> QED  BY <1>2, <2>1, <3>1, <3>2, <3>3 DEF Fetching
  <2> QED  BY <2>2, <2>3
<1>7. Booting(pc', grub', lost')  BY <1>1, <1>4, BootingKept DEF IInv
<1>8. /\ Installing(pc', disk', pe', pins', bundle', host') /\ Enforcing(pc', disk', pe', lsm')
      /\ Removing(pc', disk', pe') /\ Deriving(pc', disk', ev', whole')
  BY <1>1, <1>4, OutsideKept DEF IInv
<1> QED  BY <1>5, <1>6, <1>7, <1>8 DEF IInv

-----------------------------------------------------------------------------
(* host-prep, enroll and unenroll, and the world.                          *)

LEMMA PrepareStartKeeps ==
  ASSUME IInv, PrepareStart
  PROVE  IInv'
<1>1. /\ pc' \in Pcs /\ pc'.cmd = "prep" /\ pc.cmd = "none"
      /\ UNCHANGED <<host, lsm, lic, dropin, bundle, got, pe, pins, disk, ev, lost, whole>>
  <2>1. NoFile \in Files  BY DEF Files
  <2> QED  BY <2>1, BeginPc DEF PrepareStart, Cmds, Ats
<1>2. grub' \in [files : SUBSET Words, cfg : BOOLEAN] /\ grub'.files # {}
  BY DEF PrepareStart, IInv, WellTyped, Words
<1>3. WellTyped'  BY <1>1, <1>2 DEF IInv, WellTyped
<1>4. Fetching(pc', bundle', got')  BY <1>1, FetchingKept DEF IInv
<1>5. Booting(pc', grub', lost')  BY <1>1, <1>2 DEF Booting
<1>6. /\ Installing(pc', disk', pe', pins', bundle', host') /\ Enforcing(pc', disk', pe', lsm')
      /\ Removing(pc', disk', pe') /\ Deriving(pc', disk', ev', whole')
  BY <1>1, OutsideKept DEF IInv
<1> QED  BY <1>3, <1>4, <1>5, <1>6 DEF IInv

LEMMA prepareKeeps ==
  ASSUME IInv, NEW res \in Updates, prepare(res)
  PROVE  IInv'
<1>1. /\ pc' = Idle /\ pc' \in Pcs /\ pc'.cmd = "none"
      /\ UNCHANGED <<host, lsm, lic, dropin, bundle, got, pe, pins, disk, whole>>
      /\ ev' \in {ev, disk} /\ lost' = (lost \/ (grub'.cfg /\ grub'.files = {}))
  BY IdlePc DEF prepare, record_license
<1>2. grub' \in [files : SUBSET Words, cfg : BOOLEAN]
  <2>1. grub \in [files : SUBSET Words, cfg : BOOLEAN]  BY DEF IInv, WellTyped
  <2>2. CASE res = "fails"  BY <2>1, <2>2 DEF prepare
  <2>3. CASE res # "fails"
    <3>1. grub' = [grub EXCEPT !.cfg = IF res = "ok" THEN grub.files # {} ELSE @]
      BY <2>3 DEF prepare, update_grub
    <3> QED  BY <2>1, <3>1
  <2> QED  BY <2>2, <2>3
<1>3. WellTyped'  BY <1>1, <1>2 DEF IInv, WellTyped
<1>4. Fetching(pc', bundle', got')  BY <1>1, FetchingKept DEF IInv
<1>5. Booting(pc', grub', lost')  BY <1>1, <1>2 DEF Booting
<1>6. /\ Installing(pc', disk', pe', pins', bundle', host') /\ Enforcing(pc', disk', pe', lsm')
      /\ Removing(pc', disk', pe') /\ Deriving(pc', disk', ev', whole')
  BY <1>1, OutsideKept DEF IInv
<1> QED  BY <1>3, <1>4, <1>5, <1>6 DEF IInv

LEMMA EnrollKeeps ==
  ASSUME IInv, (\E remove \in BOOLEAN : EnrollWrite(remove)) \/ (\E ok \in BOOLEAN : EnrollReload(ok))
  PROVE  IInv'
<1>1. /\ pc' \in Pcs /\ pc'.cmd \in {"none", "enroll", "unenroll"} /\ pc.cmd \in {"none", "enroll", "unenroll"}
      /\ UNCHANGED <<host, lsm, grub, lic, bundle, got, pe, pins, disk, lost, whole>>
      /\ ev' \in {ev, disk} /\ dropin' \in BOOLEAN
  <2>1. CASE \E remove \in BOOLEAN : EnrollWrite(remove)
    <3>1. NoFile \in Files  BY DEF Files
    <3> QED  BY <2>1, <3>1, BeginPc DEF EnrollWrite, Cmds, Ats
  <2>2. CASE \E ok \in BOOLEAN : EnrollReload(ok)  BY <2>2, IdlePc DEF EnrollReload, IInv, WellTyped
  <2> QED  BY <2>1, <2>2
<1>2. WellTyped'  BY <1>1 DEF IInv, WellTyped
<1>3. Fetching(pc', bundle', got')  BY <1>1, FetchingKept DEF IInv
<1>4. Booting(pc', grub', lost')  BY <1>1, BootingKept DEF IInv
<1>5. /\ Installing(pc', disk', pe', pins', bundle', host') /\ Enforcing(pc', disk', pe', lsm')
      /\ Removing(pc', disk', pe') /\ Deriving(pc', disk', ev', whole')
  BY <1>1, OutsideKept DEF IInv
<1> QED  BY <1>2, <1>3, <1>4, <1>5 DEF IInv

\* The loader may start, report and die at any moment of any command: what the wait
\* and the logs have read of it stays true.
LEMMA LoaderKeeps ==
  ASSUME IInv, LoaderAttaches \/ LoaderReports \/ LoaderDies
  PROVE  IInv'
<1>1. /\ pe \in Containers /\ pe.life \in {"created", "attached", "active"}
      /\ UNCHANGED <<host, lsm, grub, lic, dropin, bundle, got, disk, ev, pc, lost, whole>>
      /\ pins' \in {pins, "own"}
  BY DEF LoaderAttaches, LoaderReports, LoaderDies, hostVars, IInv, WellTyped
<1>2. /\ pe # NoContainer
      /\ pe \in [kind : {"observe", "enforce"}, life : {"created", "attached", "active", "stopped"}, said : BOOLEAN]
  BY <1>1 DEF Containers, NoContainer
<1>3. /\ pe' \in [kind : {"observe", "enforce"}, life : {"created", "attached", "active", "stopped"}, said : BOOLEAN]
      /\ pe'.kind = pe.kind /\ (pe.said => pe'.said)
  <2>1. CASE LoaderAttaches  BY <1>2, <2>1 DEF LoaderAttaches
  <2>2. CASE LoaderReports  BY <1>2, <2>2 DEF LoaderReports
  <2>3. CASE LoaderDies  BY <1>2, <2>3 DEF LoaderDies
  <2> QED  BY <2>1, <2>2, <2>3
<1>4. WellTyped'  BY <1>1, <1>3 DEF IInv, WellTyped, Containers
<1>5. Fetching(pc', bundle', got') /\ Booting(pc', grub', lost') /\ Deriving(pc', disk', ev', whole')
  BY <1>1 DEF IInv
<1>6. Installing(pc', disk', pe', pins', bundle', host')  BY <1>1, <1>3 DEF IInv, Installing
<1>7. Enforcing(pc', disk', pe', lsm')  BY <1>1, <1>3 DEF IInv, Enforcing
<1>8. Removing(pc', disk', pe')  BY <1>1, <1>2 DEF IInv, Removing
<1> QED  BY <1>4, <1>5, <1>6, <1>7, <1>8 DEF IInv

LEMMA KillKeeps ==
  ASSUME IInv, Kill
  PROVE  IInv'
<1>1. /\ pc' \in Pcs /\ pc'.cmd = "none"
      /\ UNCHANGED <<host, lsm, grub, lic, dropin, bundle, got, pe, pins, disk, ev>>
      /\ lost' = (lost \/ (grub.cfg /\ grub.files = {}))
      /\ whole' = (whole /\ pc.cmd \notin {"install", "enforce", "remove"})
  BY IdlePc DEF Kill, hostVars
<1>2. WellTyped'  BY <1>1 DEF IInv, WellTyped
<1>3. Fetching(pc', bundle', got')  BY <1>1, FetchingKept DEF IInv
<1>4. Booting(pc', grub', lost')  BY <1>1 DEF Booting
<1>5. /\ Installing(pc', disk', pe', pins', bundle', host') /\ Enforcing(pc', disk', pe', lsm')
      /\ Removing(pc', disk', pe') /\ Deriving(pc', disk', ev', whole')
  BY <1>1, OutsideKept DEF IInv
<1> QED  BY <1>2, <1>3, <1>4, <1>5 DEF IInv

LEMMA RebootKeeps ==
  ASSUME IInv, Reboot
  PROVE  IInv'
<1>1. /\ pc = Idle /\ pc.cmd = "none"
      /\ UNCHANGED <<host, grub, lic, dropin, bundle, got, disk, ev, pc, lost, whole>>
      /\ lsm' = grub.cfg /\ pins' = "none"
      /\ pe' = IF pe = NoContainer THEN pe ELSE [pe EXCEPT !.life = "stopped"]
  BY IdlePc DEF Reboot
<1>2. WellTyped'
  <2>1. pe' \in Containers  BY <1>1 DEF IInv, WellTyped, Containers
  <2> QED  BY <1>1, <2>1 DEF IInv, WellTyped
<1>3. Fetching(pc', bundle', got') /\ Booting(pc', grub', lost') /\ Deriving(pc', disk', ev', whole')
  BY <1>1 DEF IInv
<1>4. Installing(pc', disk', pe', pins', bundle', host') /\ Enforcing(pc', disk', pe', lsm')
  BY <1>1 DEF Installing, Enforcing
<1>5. Removing(pc', disk', pe')  BY <1>1 DEF IInv, Removing
<1> QED  BY <1>2, <1>3, <1>4, <1>5 DEF IInv

LEMMA ExpireKeeps ==
  ASSUME IInv, Expire
  PROVE  IInv'
<1>1. UNCHANGED <<host, lsm, grub, dropin, bundle, got, pe, pins, disk, ev, pc, lost, whole>>
  BY DEF Expire
<1>2. lic' \in [stored : {"none", "torn", "good"}, over : BOOLEAN]
  BY DEF Expire, IInv, WellTyped
<1>3. WellTyped'  BY <1>1, <1>2 DEF IInv, WellTyped
<1> QED  BY <1>1, <1>3 DEF IInv

-----------------------------------------------------------------------------
(* The one command.                                                        *)

LEMMA FailSafeKept ==
  ASSUME IInv, FailSafe
  PROVE  /\ disk' \in Disks /\ ev' \in Disks /\ pc' \in Pcs /\ pc'.cmd = "none" /\ whole' \in BOOLEAN
         /\ Installing(pc', disk', pe', pins', bundle', host') /\ Enforcing(pc', disk', pe', lsm')
         /\ Removing(pc', disk', pe') /\ Deriving(pc', disk', ev', whole')
<1>1. pc' \in Pcs /\ pc'.cmd = "none" /\ whole' = FALSE /\ ev' = disk'
  BY IdlePc DEF FailSafe, sync
<1>2. disk' \in Disks /\ disk'.state = "FAILED_SAFE"  BY DEF FailSafe, IInv, WellTyped, Disks, States
<1> QED  BY <1>1, <1>2 DEF Installing, Enforcing, Removing, Deriving

LEMMA InstallStartKeeps ==
  ASSUME IInv, NEW p \in Policies, NEW sig \in Signatures, NEW url \in BOOLEAN, InstallStart(p, sig, url)
  PROVE  IInv'
<1>1. /\ pc' \in Pcs /\ pc'.cmd = "install" /\ pc'.at \in {"fetch", "verify"} /\ pc.cmd = "none"
      /\ UNCHANGED <<host, lsm, grub, lic, dropin, bundle, got, pe, pins, disk, ev, lost, whole>>
  <2>1. sig \in Files  BY DEF Files, Signatures
  <2>2. PICK a \in {"fetch", "verify"} : Begin("install", a, FALSE, sig)
    BY DEF InstallStart
  <2> QED  BY <2>1, <2>2, BeginPc DEF InstallStart, Cmds, Ats, hostVars
<1>2. WellTyped'  BY <1>1 DEF IInv, WellTyped
<1>3. Fetching(pc', bundle', got') /\ Booting(pc', grub', lost')  BY <1>1, FetchingKept, BootingKept DEF IInv
<1>4. Installing(pc', disk', pe', pins', bundle', host') /\ Enforcing(pc', disk', pe', lsm')
  BY <1>1 DEF Installing, Enforcing
<1>5. Removing(pc', disk', pe') /\ Deriving(pc', disk', ev', whole')
  BY <1>1 DEF IInv, Removing, Deriving
<1> QED  BY <1>2, <1>3, <1>4, <1>5 DEF IInv

LEMMA InstallFetchKeeps ==
  ASSUME IInv, NEW d \in Archives, NEW gates \in BOOLEAN, InstallFetch(d, gates)
  PROVE  IInv'
<1>1. /\ pc \in Pcs /\ pc.cmd = "install" /\ pc.at = "fetch" /\ bundle \in [Parts -> Files]
      /\ UNCHANGED <<host, lsm, grub, lic, dropin, got, pe, pins, disk, ev, lost, whole>>
      /\ bundle' \in {bundle, [bundle EXCEPT !["artifacts"] = IF @ = NoFile THEN d ELSE @]}
      /\ pc' = Idle \/ pc' = [pc EXCEPT !.at = "verify"]
  BY DEF InstallFetch, At, Goto, hostVars, IInv, WellTyped
<1>2. /\ pc' \in Pcs /\ pc'.cmd \in {"none", "install"} /\ (pc'.cmd = "install" => pc'.at = "verify")
  <2>1. "verify" \in Ats  BY DEF Ats
  <2> QED  BY <1>1, <2>1, IdlePc, GotoPc
<1>3. /\ bundle' \in [Parts -> Files]
      /\ \A p \in Parts : bundle[p] # NoFile => bundle'[p] = bundle[p]
  BY <1>1 DEF Files, Archives
<1>4. WellTyped'  BY <1>1, <1>2, <1>3 DEF IInv, WellTyped
<1>5. Fetching(pc', bundle', got')
  <2>1. NoFile.key = "none"  BY DEF NoFile
  <2>2. got # "none" => \A p \in Parts : bundle'[p] = bundle[p]
    BY <1>3, <2>1 DEF IInv, Fetching
  <2> QED  BY <1>1, <1>2, <2>2 DEF IInv, Fetching
<1>6. Booting(pc', grub', lost')  BY <1>1, <1>2, BootingKept DEF IInv
<1>7. Installing(pc', disk', pe', pins', bundle', host') /\ Enforcing(pc', disk', pe', lsm')
  BY <1>2 DEF Installing, Enforcing
<1>8. Removing(pc', disk', pe') /\ Deriving(pc', disk', ev', whole')
  BY <1>1, <1>2 DEF IInv, Removing, Deriving
<1> QED  BY <1>4, <1>5, <1>6, <1>7, <1>8 DEF IInv

LEMMA AggregateReady ==
  ASSUME NEW results, aggregate(results) \in {"READY", "READY_WITH_LIMITATIONS"}
  PROVE  "UNSUPPORTED" \notin results /\ "BLOCKED" \notin results /\ "UNKNOWN" \notin results
BY DEF aggregate

\* A plan says READY of the sealed bundle on a host whose required facts are good
\* only (run_preflight).
LEMMA ReadyIsGood ==
  ASSUME WellTyped, run_preflight(bundle) \in {"READY", "READY_WITH_LIMITATIONS"}
  PROVE  Sealed(bundle) /\ GoodHost(host)
<1> DEFINE results == {host_check(facts, id) : id \in CheckIds}
                      \cup {IF lsm THEN "PASS" ELSE "BLOCKED"}
                      \cup {artifact_check(bundle), sums_check(bundle), oci_load_check(host.layout)}
<1>1. aggregate(results) \in {"READY", "READY_WITH_LIMITATIONS"}  BY DEF run_preflight
<1>2. "UNSUPPORTED" \notin results /\ "BLOCKED" \notin results /\ "UNKNOWN" \notin results
  BY <1>1, AggregateReady
<1>3. Sealed(bundle)
  <2>1. artifact_check(bundle) \in results /\ sums_check(bundle) \in results  OBVIOUS
  <2>2. artifact_check(bundle) # "BLOCKED" /\ sums_check(bundle) # "BLOCKED"  BY <1>2, <2>1
  <2>3. /\ bundle["artifacts"].rel = "sealed"
        /\ \A p \in Parts : bundle[p].rel = bundle["sums"].rel /\ bundle[p].intact
    BY <2>2 DEF artifact_check, sums_check, verify_sha256sums
  <2>4. "artifacts" \in Parts  BY DEF Parts
  <2> QED  BY <2>3, <2>4 DEF Sealed
<1>4. GoodHost(host)
  <2> SUFFICES ASSUME host.fact # "good", host.odd \notin {"mem", "enterprise", "motion", "npm"}  PROVE FALSE
    BY DEF GoodHost
  <2>1. host.odd \in CheckIds /\ host.fact \in probe_live  BY CustomerAssumption DEF WellTyped
  <2>2. facts[host.odd] = host.fact  BY <2>1 DEF facts
  <2>3. host_check(facts, host.odd) \in {"UNSUPPORTED", "BLOCKED", "UNKNOWN"}
    BY <2>1, <2>2 DEF probe_live, host_check, kernel_check, lockdown_grade, apparmor_observation, required_check
  <2>4. host_check(facts, host.odd) \in results  BY <2>1
  <2> QED  BY <1>2, <2>3, <2>4
<1> QED  BY <1>3, <1>4

LEMMA InstallPlanKeeps ==
  ASSUME IInv, NEW gates \in BOOLEAN, InstallPlan(gates)
  PROVE  IInv'
<1>1. /\ pc \in Pcs /\ pc.cmd = "install" /\ pc.at = "verify"
      /\ UNCHANGED <<host, lsm, grub, lic, dropin, bundle, got, pe, pins, lost>>
  BY DEF InstallPlan, At, hostVars, IInv, WellTyped
<1>2. CASE verify_archive_file(bundle["artifacts"], pc.body) /\ bundle["manifest"] # NoFile
  <2> DEFINE overall == run_preflight(bundle)
  <2>1. /\ disk' = NewDisk(IF gate[overall] = "PLANNED" /\ gates THEN "APPLYING" ELSE gate[overall],
                           overall = "READY_WITH_LIMITATIONS")
        /\ pc' = IF disk'.state = "APPLYING" THEN [pc EXCEPT !.at = "load"] ELSE Idle
        /\ ev' = disk' /\ whole' = FALSE
    BY <1>2 DEF InstallPlan, sync
  <2>2. overall \in {"READY", "READY_WITH_LIMITATIONS", "BLOCKED", "UNSUPPORTED"}
    BY DEF run_preflight, aggregate
  <2> HIDE DEF overall
  <2>3. /\ gate[overall] \in {"PLANNED", "PREFLIGHT_BLOCKED", "UNSUPPORTED"}
        /\ gate[overall] = "PLANNED" => overall \in {"READY", "READY_WITH_LIMITATIONS"}
    BY <2>2 DEF gate
  <2>4. /\ disk' \in Disks /\ disk'.state # "ROLLED_BACK" /\ ~disk'.snap.enr.requested
        /\ disk'.state = "APPLYING" => gate[overall] = "PLANNED"
    <3>1. PICK st \in {"PLANNED", "PREFLIGHT_BLOCKED", "UNSUPPORTED", "APPLYING"}, lim \in BOOLEAN :
            /\ disk' = NewDisk(st, lim)
            /\ st = "APPLYING" => gate[overall] = "PLANNED"
      BY <2>1, <2>3
    <3>2. PICK s : /\ s = [empty_runtime_state EXCEPT !.lsm = lsm]
                   /\ disk' = [state |-> st, prot |-> "none", limited |-> lim, snap |-> s,
                                health |-> "NOT_TESTED"]
      BY <3>1 DEF NewDisk
    <3>3. s \in Snapshots /\ ~s.enr.requested
      BY <3>2 DEF IInv, WellTyped, empty_runtime_state, Snapshots, NoEnrollment, Enrollments
    <3>4. st \in States  BY DEF States
    <3>5. disk' \in Disks  BY <3>2, <3>3, <3>4 DEF Disks
    <3>6. disk'.state = st /\ disk'.snap = s  BY <3>2
    <3> QED  BY <3>1, <3>3, <3>5, <3>6
  <2>5. /\ pc' \in Pcs /\ pc'.cmd \in {"none", "install"}
        /\ pc'.cmd = "install" => pc'.at = "load" /\ disk'.state = "APPLYING"
    <3>1. "load" \in Ats  BY DEF Ats
    <3> QED  BY <1>1, <2>1, <3>1, IdlePc, GotoPc
  <2>6. WellTyped'  BY <1>1, <2>1, <2>4, <2>5 DEF IInv, WellTyped
  <2>7. Fetching(pc', bundle', got') /\ Booting(pc', grub', lost')
    BY <1>1, <2>5, FetchingKept, BootingKept DEF IInv
  <2>8. Installing(pc', disk', pe', pins', bundle', host')
    <3> SUFFICES ASSUME pc'.cmd = "install"  PROVE Installing(pc', disk', pe', pins', bundle', host')
      BY DEF Installing
    <3>1. overall \in {"READY", "READY_WITH_LIMITATIONS"}  BY <2>3, <2>4, <2>5
    <3>2. Sealed(bundle) /\ GoodHost(host)  BY <3>1, ReadyIsGood DEF IInv, overall
    <3> QED  BY <1>1, <2>4, <2>5, <3>2 DEF Installing
  <2>9. Enforcing(pc', disk', pe', lsm') /\ Removing(pc', disk', pe') /\ Deriving(pc', disk', ev', whole')
    BY <2>1, <2>4, <2>5 DEF Enforcing, Removing, Deriving
  <2> QED  BY <2>6, <2>7, <2>8, <2>9 DEF IInv
<1>3. CASE ~(verify_archive_file(bundle["artifacts"], pc.body) /\ bundle["manifest"] # NoFile)
  <2>1. pc' \in Pcs /\ pc'.cmd = "none" /\ UNCHANGED <<disk, ev, whole>>  BY <1>3, IdlePc DEF InstallPlan
  <2>2. WellTyped'  BY <1>1, <2>1 DEF IInv, WellTyped
  <2>3. Fetching(pc', bundle', got') /\ Booting(pc', grub', lost')
    BY <1>1, <2>1, FetchingKept, BootingKept DEF IInv
  <2>4. /\ Installing(pc', disk', pe', pins', bundle', host') /\ Enforcing(pc', disk', pe', lsm')
        /\ Removing(pc', disk', pe') /\ Deriving(pc', disk', ev', whole')
    BY <1>1, <2>1, OutsideKept DEF IInv
  <2> QED  BY <2>2, <2>3, <2>4 DEF IInv
<1> QED  BY <1>2, <1>3

Pins == {"none", "old", "own"}

\* A command that ends in FAILED_SAFE leaves nothing behind that a later one relies on.
LEMMA FailSafeKeeps ==
  ASSUME IInv, FailSafe, UNCHANGED <<host, lsm, bundle, got, lost>>, pe' \in Containers, pins' \in Pins,
         lic' \in [stored : {"none", "torn", "good"}, over : BOOLEAN], dropin' \in BOOLEAN,
         grub' \in [files : SUBSET Words, cfg : BOOLEAN], Booting(pc', grub', lost')
  PROVE  IInv'
<1>1. WellTyped'  BY FailSafeKept DEF IInv, WellTyped, Pins
<1>2. Fetching(pc', bundle', got')  BY FailSafeKept, FetchingKept DEF IInv
<1> QED  BY <1>1, <1>2, FailSafeKept DEF IInv

\* The same when the command had changed no file of the customer.
LEMMA FailSafeThere ==
  ASSUME IInv, FailSafe, UNCHANGED <<hostVars, bundle, got, lost>>, pe' \in Containers, pins' \in Pins,
         pc.cmd # "remove" \/ pc.at # "regen"
  PROVE  IInv'
<1>1. UNCHANGED <<host, lsm, grub, lic, dropin, bundle, got, lost>>  BY DEF hostVars
<1>2. Booting(pc', grub', lost')  BY <1>1, FailSafeKept, BootingKept DEF IInv
<1> QED  BY <1>1, <1>2, FailSafeKeeps DEF IInv, WellTyped

\* A step of an install that goes on: the plan's findings stay.
LEMMA InstallGoesOn ==
  ASSUME IInv, pc.cmd = "install", pc.at \in {"load", "run", "wait"},
         NEW a \in {"run", "wait", "save"}, pc' = [pc EXCEPT !.at = a],
         UNCHANGED <<hostVars, bundle, got, lost, disk, ev, whole>>, pe' \in Containers, pins' \in Pins,
         a \in {"wait", "save"} => pe'.kind = "observe", a = "save" => pe'.said /\ pins' = "own"
  PROVE  IInv'
<1>1. pc' \in Pcs /\ pc'.cmd = "install" /\ pc'.at = a
  <2>1. a \in Ats  BY DEF Ats
  <2> QED  BY <2>1, GotoPc DEF IInv, WellTyped
<1>2. UNCHANGED <<host, lsm, grub, lic, dropin>>  BY DEF hostVars
<1>3. WellTyped'  BY <1>1, <1>2 DEF IInv, WellTyped, Pins
<1>4. Fetching(pc', bundle', got') /\ Booting(pc', grub', lost')
  BY <1>1, <1>2, FetchingKept, BootingKept DEF IInv
<1>5. Installing(pc', disk', pe', pins', bundle', host')  BY <1>1, <1>2 DEF IInv, Installing
<1>6. Enforcing(pc', disk', pe', lsm')  BY <1>1 DEF Enforcing
<1>7. Removing(pc', disk', pe')
  <2>1. disk.state = "APPLYING"  BY DEF IInv, Installing
  <2> QED  BY <1>1, <2>1 DEF Removing
<1>8. Deriving(pc', disk', ev', whole')  BY <1>1 DEF IInv, Deriving
<1> QED  BY <1>3, <1>4, <1>5, <1>6, <1>7, <1>8 DEF IInv

LEMMA InstallLoadKeeps ==
  ASSUME IInv, NEW ok \in BOOLEAN, InstallLoad(ok)
  PROVE  IInv'
<1>1. /\ pc.cmd = "install" /\ pc.at = "load" /\ UNCHANGED <<hostVars, bundle, got, pe, pins, lost>>
      /\ pe' \in Containers /\ pins' \in Pins
  BY DEF InstallLoad, At, IInv, WellTyped, Pins
<1>2. CASE FailSafe  BY <1>1, <1>2, FailSafeThere
<1>3. CASE Goto("run") /\ UNCHANGED <<disk, ev, whole>>  BY <1>1, <1>3, InstallGoesOn DEF Goto
<1> QED  BY <1>2, <1>3 DEF InstallLoad

LEMMA InstallRunKeeps ==
  ASSUME IInv, NEW ok \in BOOLEAN, InstallRun(ok)
  PROVE  IInv'
<1>1. pc.cmd = "install" /\ pc.at = "run" /\ UNCHANGED <<hostVars, bundle, got, lost>>
  BY DEF InstallRun, At
<1>2. CASE ok
  <2>1. /\ pe' = Started("observe") /\ pins' = Left(pins) /\ Goto("wait") /\ UNCHANGED <<disk, ev, whole>>
    BY <1>2 DEF InstallRun
  <2>2. pe' \in Containers /\ pe'.kind = "observe" /\ pins' \in Pins
    BY <2>1 DEF Started, Containers, Left, IInv, WellTyped, Pins
  <2> QED  BY <1>1, <2>1, <2>2, InstallGoesOn DEF Goto
<1>3. CASE ~ok
  <2>1. FailSafe /\ pe' \in Containers /\ pins' \in Pins  BY <1>3 DEF InstallRun, IInv, WellTyped, Pins
  <2> QED  BY <1>1, <2>1, FailSafeThere
<1> QED  BY <1>2, <1>3

LEMMA wait_for_observe_hostKeeps ==
  ASSUME IInv, NEW late \in BOOLEAN, wait_for_observe_host(late)
  PROVE  IInv'
<1>1. /\ pc.cmd = "install" /\ pc.at = "wait" /\ UNCHANGED <<hostVars, bundle, got, pe, pins, lost>>
      /\ pe' \in Containers /\ pins' \in Pins
  BY DEF wait_for_observe_host, At, IInv, WellTyped, Pins
<1>2. CASE FailSafe  BY <1>1, <1>2, FailSafeThere
<1>3. CASE ~FailSafe
  <2>1. Goto("save") /\ UNCHANGED <<disk, ev, whole>> /\ observe_sample(pe, pins) = "VERIFIED"
    BY <1>3 DEF wait_for_observe_host
  <2>2. pe.said /\ pins = "own"
    BY <2>1 DEF observe_sample, readiness_gaps, pins_are_current
  <2>3. pe.kind = "observe"  BY <1>1 DEF IInv, Installing
  <2> QED  BY <1>1, <2>1, <2>2, <2>3, InstallGoesOn DEF Goto
<1> QED  BY <1>2, <1>3

\* The two verdicts of the parts that health.derive and the verifier both compute.
LEMMA VerdictParts ==
  ASSUME NEW s \in Snapshots
  PROVE  /\ enforcement_view(s).component \in {"NOT_ENABLED", "PASS", "DEGRADED"}
         /\ enforcement_view(s).prot \in {"OBSERVE", "PROTECTED", "DEGRADED"}
         /\ pe_container(s) \in {"NOT_INSTALLED", "FAIL", "PASS", "DEGRADED", "NOT_ENABLED"}
<1>1. /\ enforcement_view(s).component \in {"NOT_ENABLED", "PASS", "DEGRADED"}
      /\ enforcement_view(s).prot \in {"OBSERVE", "PROTECTED", "DEGRADED"}
  BY DEF enforcement_view
<1>2. pe_container(s) \in {"NOT_INSTALLED", "FAIL", "PASS", "DEGRADED", "NOT_ENABLED"}
  BY <1>1 DEF pe_container, container_after_enforce
<1> QED  BY <1>1, <1>2

LEMMA DeriveIs ==
  ASSUME NEW s \in Snapshots, NEW limited \in BOOLEAN
  PROVE  /\ derive(s, limited).overall \in Healths
         /\ derive(s, limited).prot = enforcement_view(s).prot
         /\ derive(s, limited).prot \in {"OBSERVE", "PROTECTED", "DEGRADED"}
BY VerdictParts DEF derive, apply_enforce_overall, Healths

\* The verifier's own computation (verifier._recompute_health) comes to the same
\* verdict as health.derive on every snapshot.
LEMMA SameVerdict ==
  ASSUME NEW s \in Snapshots, NEW limited \in BOOLEAN
  PROVE  recompute_health(s, limited) = derive(s, limited).overall
<1> DEFINE c == pe_container(s)
           m == enforcement_view(s).component
           bad == ~s.cli \/ ~s.loader \/ ~s.pins \/ ~s.clsact \/ ~s.lsm \/ c \in {"FAIL", "NOT_INSTALLED"}
           base == IF bad THEN "FAIL" ELSE IF limited THEN "PASS_WITH_LIMITATIONS" ELSE "PASS"
           verdict == IF base # "FAIL" /\ (c = "DEGRADED" \/ m = "DEGRADED") THEN "DEGRADED" ELSE base
<1>1. derive(s, limited).overall = verdict
  BY VerdictParts DEF derive, apply_enforce_overall, Snapshots
<1>2. recompute_health(s, limited) = verdict
  BY VerdictParts DEF recompute_health, apply_enforce_overall, Snapshots
<1> QED  BY <1>1, <1>2

LEMMA InstallSaveKeeps ==
  ASSUME IInv, InstallSave
  PROVE  IInv'
<1>1. /\ pc.cmd = "install" /\ pc.at = "save" /\ pc' = Idle /\ pc' \in Pcs /\ pc'.cmd = "none" /\ ev' = disk'
      /\ UNCHANGED <<host, lsm, grub, lic, dropin, bundle, got, pe, pins, lost>> /\ whole' = TRUE
      /\ disk \in Disks /\ disk.snap \in Snapshots /\ disk.limited \in BOOLEAN
  BY IdlePc DEF InstallSave, At, sync, hostVars, IInv, WellTyped, Disks
<1>2. PICK s : s = [disk.snap EXCEPT !.cont = "observe", !.loader = TRUE, !.clsact = TRUE,
                                     !.cli = TRUE, !.pins = pins_are_current(pins)]
  OBVIOUS
<1>3. s \in Snapshots  BY <1>1, <1>2 DEF Snapshots, pins_are_current
<1>4. PICK st \in {"HEALTHY", "DEGRADED", "FAILED_SAFE"} :
        disk' = [disk EXCEPT !.snap = s, !.health = derive(s, disk.limited).overall,
                             !.prot = derive(s, disk.limited).prot, !.state = st]
  <2> DEFINE h == derive(s, disk.limited)
             st == CASE h.overall = "PASS" -> "HEALTHY"
                     [] h.overall \in {"PASS_WITH_LIMITATIONS", "DEGRADED"} -> "DEGRADED"
                     [] OTHER -> "FAILED_SAFE"
  <2>1. disk' = [disk EXCEPT !.snap = s, !.health = h.overall, !.prot = h.prot, !.state = st]
    BY <1>2 DEF InstallSave
  <2>2. st \in {"HEALTHY", "DEGRADED", "FAILED_SAFE"}  OBVIOUS
  <2> QED  BY <2>1, <2>2
<1>5. /\ disk' \in Disks /\ disk'.state = st /\ disk'.snap = s /\ disk'.limited = disk.limited
      /\ disk'.health = derive(s, disk.limited).overall
  BY <1>1, <1>3, <1>4, DeriveIs DEF Disks, States
<1>6. WellTyped'  BY <1>1, <1>5 DEF IInv, WellTyped
<1>7. Fetching(pc', bundle', got') /\ Booting(pc', grub', lost')
  BY <1>1, FetchingKept, BootingKept DEF IInv
<1>8. Installing(pc', disk', pe', pins', bundle', host') /\ Enforcing(pc', disk', pe', lsm') /\ Removing(pc', disk', pe')
  BY <1>1, <1>5 DEF Installing, Enforcing, Removing
<1>9. Deriving(pc', disk', ev', whole')  BY <1>1, <1>5 DEF Deriving, Derived
<1> QED  BY <1>6, <1>7, <1>8, <1>9 DEF IInv

-----------------------------------------------------------------------------
(* apply --enforce-enrolled.                                               *)

LEMMA EnforceStartKeeps ==
  ASSUME IInv, NEW p \in Policies, NEW preset \in BOOLEAN, EnforceStart(p, preset)
  PROVE  IInv'
<1>1. /\ pc' \in Pcs /\ pc'.cmd = "enforce" /\ pc'.at = "rm" /\ pc.cmd = "none" /\ pc'.enr = NoEnrollment
      /\ UNCHANGED <<host, lsm, grub, lic, dropin, bundle, got, pe, pins, disk, ev, lost, whole>>
      /\ disk.state \in {"HEALTHY", "DEGRADED"} /\ lsm
  <2>1. NoFile \in Files  BY DEF Files
  <2> QED  BY <2>1, BeginPc DEF EnforceStart, Cmds, Ats, hostVars
<1>2. WellTyped'  BY <1>1 DEF IInv, WellTyped
<1>3. Fetching(pc', bundle', got') /\ Booting(pc', grub', lost')  BY <1>1, FetchingKept, BootingKept DEF IInv
<1>4. Installing(pc', disk', pe', pins', bundle', host') /\ Enforcing(pc', disk', pe', lsm')
  BY <1>1 DEF Installing, Enforcing
<1>5. Removing(pc', disk', pe') /\ Deriving(pc', disk', ev', whole')
  BY <1>1 DEF IInv, Removing, Deriving
<1> QED  BY <1>2, <1>3, <1>4, <1>5 DEF IInv

\* docker rm, docker run, docker logs, bpftool: nothing is written, and a banner or a
\* program that was read is of the container that is there from then on.
LEMMA EnforceProbeKeeps ==
  ASSUME IInv, NEW ok \in BOOLEAN, NEW elsewhere \in BOOLEAN,
         EnforceRemove(ok) \/ EnforceRun(ok) \/ EnforceLogs(ok) \/ EnforcePrograms(ok, elsewhere)
  PROVE  IInv'
<1>1. /\ pc \in Pcs /\ pc.cmd = "enforce" /\ pc.at \in {"rm", "run", "logs", "programs"}
      /\ UNCHANGED <<host, lsm, grub, lic, dropin, bundle, got, disk, ev, lost, whole>>
  BY DEF EnforceRemove, EnforceRun, EnforceLogs, EnforcePrograms, At, hostVars, IInv, WellTyped
<1>2. /\ pc' \in Pcs /\ pc'.cmd = "enforce" /\ pc'.at \in {"run", "logs", "programs", "health"}
      /\ pe' \in Containers /\ pins' \in Pins
      /\ pc'.at \in {"programs", "health"} /\ pc'.enr.banner => pe'.kind = "enforce" /\ pe'.said
  <2>1. pe \in Containers /\ pins \in Pins /\ pc.enr \in Enrollments  BY <1>1 DEF IInv, WellTyped, Pins, Pcs
  <2>2. CASE EnforceRemove(ok)
    <3>1. pc' = [pc EXCEPT !.at = "run"] /\ pe' \in {NoContainer, pe} /\ pins' \in {pins, Left(pins)}
      BY <2>2 DEF EnforceRemove, Goto
    <3> QED  BY <1>1, <2>1, <3>1 DEF Pcs, Ats, Containers, Left, Pins
  <2>3. CASE EnforceRun(ok)
    <3>1. pc' = [pc EXCEPT !.at = "logs"] /\ pe' \in {Started("enforce"), pe} /\ pins' = pins
      BY <2>3 DEF EnforceRun, Goto
    <3>2. Started("enforce") \in Containers  BY DEF Started, Containers
    <3> QED  BY <1>1, <2>1, <3>1, <3>2 DEF Pcs, Ats
  <2>4. CASE EnforceLogs(ok)
    <3>1. PICK b \in BOOLEAN : /\ pc' = [pc EXCEPT !.at = "programs", !.enr.requested = TRUE, !.enr.banner = b]
                               /\ b => pe.kind = "enforce" /\ pe.said
      <4>1. PICK b \in BOOLEAN : b = (ok /\ pe.kind = "enforce" /\ pe.said)  BY Zenon
      <4>2. pc' = [pc EXCEPT !.at = "programs", !.enr.requested = TRUE,
                             !.enr.banner = ok /\ pe.kind = "enforce" /\ pe.said]
        BY <2>4 DEF EnforceLogs
      <4>3. pc' = [pc EXCEPT !.at = "programs", !.enr.requested = TRUE, !.enr.banner = b]
        BY <4>1, <4>2, Zenon
      <4>4. b => pe.kind = "enforce" /\ pe.said  BY <4>1, Zenon
      <4> QED  BY <4>3, <4>4
    <3>2. pc' \in Pcs /\ pc'.cmd = pc.cmd /\ pc'.at = "programs" /\ pc'.enr.banner = b
      BY <1>1, <2>1, <3>1 DEF Pcs, Ats, Enrollments
    <3>3. pe' = pe /\ pins' = pins  BY <2>4 DEF EnforceLogs
    <3> QED  BY <1>1, <2>1, <3>1, <3>2, <3>3
  <2>5. CASE EnforcePrograms(ok, elsewhere)
    <3>1. PICK b \in BOOLEAN : pc' = [pc EXCEPT !.at = "health", !.enr.listed = b]
      <4>1. PICK b \in BOOLEAN : b = (ok /\ (elsewhere \/ pe.life \in {"attached", "active"}))  BY Zenon
      <4>2. pc' = [pc EXCEPT !.at = "health",
                             !.enr.listed = ok /\ (elsewhere \/ pe.life \in {"attached", "active"})]
        BY <2>5 DEF EnforcePrograms
      <4>3. pc' = [pc EXCEPT !.at = "health", !.enr.listed = b]  BY <4>1, <4>2, Zenon
      <4> QED  BY <4>3
    <3>2. pc' \in Pcs /\ pc'.cmd = pc.cmd /\ pc'.at = "health" /\ pc'.enr.banner = pc.enr.banner
      BY <1>1, <2>1, <3>1 DEF Pcs, Ats, Enrollments
    <3>3. pe' = pe /\ pins' = pins /\ pc.at = "programs"  BY <2>5 DEF EnforcePrograms, At
    <3> QED  BY <1>1, <2>1, <3>2, <3>3 DEF IInv, Enforcing
  <2> QED  BY <2>2, <2>3, <2>4, <2>5
<1>3. WellTyped'  BY <1>1, <1>2 DEF IInv, WellTyped, Pins
<1>4. Fetching(pc', bundle', got') /\ Booting(pc', grub', lost')
  BY <1>1, <1>2, FetchingKept, BootingKept DEF IInv
<1>5. Installing(pc', disk', pe', pins', bundle', host')  BY <1>2 DEF Installing
<1>6. Enforcing(pc', disk', pe', lsm')  BY <1>1, <1>2 DEF IInv, Enforcing
<1>7. Removing(pc', disk', pe')
  <2>1. disk.state \in {"HEALTHY", "DEGRADED"}  BY <1>1 DEF IInv, Enforcing
  <2> QED  BY <1>1, <1>2, <2>1 DEF Removing
<1>8. Deriving(pc', disk', ev', whole')  BY <1>1, <1>2 DEF IInv, Deriving
<1> QED  BY <1>3, <1>4, <1>5, <1>6, <1>7, <1>8 DEF IInv

LEMMA EnforcedIs ==
  ASSUME NEW d \in Disks, NEW n \in Enrollments
  PROVE  /\ Enforced(d, n) \in Snapshots /\ Enforced(d, n).enr = n
         /\ \A d2 \in Disks : d2.snap = Enforced(d, n) => Enforced(d2, n) = Enforced(d, n)
<1>1. d.snap \in Snapshots  BY DEF Disks
<1>2. PICK s : s = Enforced(d, n)  OBVIOUS
<1>3. s \in Snapshots /\ s.enr = n /\ s.cont = "enforce" /\ s.lsm = TRUE /\ s.flag = TRUE
  BY <1>1, <1>2 DEF Enforced, Snapshots
<1>4. ASSUME NEW d2 \in Disks, d2.snap = s  PROVE Enforced(d2, n) = s
  <2>1. [s EXCEPT !.cont = "enforce", !.enr = n, !.lsm = TRUE, !.flag = TRUE] = s
    BY <1>3 DEF Snapshots
  <2> QED  BY <1>4, <2>1 DEF Enforced
<1> QED  BY <1>2, <1>3, <1>4

LEMMA EnforceHealthKeeps ==
  ASSUME IInv, EnforceHealth
  PROVE  IInv'
<1>1. /\ pc \in Pcs /\ pc.cmd = "enforce" /\ pc.at = "health" /\ disk \in Disks /\ pc.enr \in Enrollments
      /\ UNCHANGED <<host, lsm, grub, lic, dropin, bundle, got, pe, pins, ev, lost>> /\ whole' = FALSE
      /\ pc' = [pc EXCEPT !.at = "snapshot"]
      /\ disk' = [disk EXCEPT !.health = derive(Enforced(disk, pc.enr), disk.limited).overall]
  BY DEF EnforceHealth, EnforcedSnapshot, Enforced, Goto, At, hostVars, IInv, WellTyped, Pcs
<1>2. pc' \in Pcs /\ pc'.cmd = "enforce" /\ pc'.at = "snapshot" /\ pc'.enr = pc.enr
  BY <1>1, GotoPc DEF Ats
<1>3. /\ disk' \in Disks /\ disk'.state = disk.state /\ disk'.snap = disk.snap /\ disk'.limited = disk.limited
      /\ disk'.health = derive(Enforced(disk, pc.enr), disk.limited).overall
  <2>1. derive(Enforced(disk, pc.enr), disk.limited).overall \in Healths
    BY <1>1, EnforcedIs, DeriveIs DEF Disks
  <2> QED  BY <1>1, <2>1 DEF Disks
<1>4. WellTyped'  BY <1>1, <1>2, <1>3 DEF IInv, WellTyped
<1>5. Fetching(pc', bundle', got') /\ Booting(pc', grub', lost')
  BY <1>1, <1>2, FetchingKept, BootingKept DEF IInv
<1>6. Installing(pc', disk', pe', pins', bundle', host')  BY <1>2 DEF Installing
<1>7. Enforcing(pc', disk', pe', lsm')  BY <1>1, <1>2, <1>3 DEF IInv, Enforcing
<1>8. Removing(pc', disk', pe')
  <2>1. disk.state \in {"HEALTHY", "DEGRADED"}  BY <1>1 DEF IInv, Enforcing
  <2> QED  BY <1>2, <1>3, <2>1 DEF Removing
<1>9. Deriving(pc', disk', ev', whole')
  <2>1. Enforced(disk', pc'.enr) = Enforced(disk, pc.enr)  BY <1>2, <1>3 DEF Enforced
  <2> QED  BY <1>1, <1>2, <1>3, <2>1 DEF Deriving
<1> QED  BY <1>4, <1>5, <1>6, <1>7, <1>8, <1>9 DEF IInv

LEMMA EnforceSnapshotKeeps ==
  ASSUME IInv, EnforceSnapshot
  PROVE  IInv'
<1>1. /\ pc \in Pcs /\ pc.cmd = "enforce" /\ pc.at = "snapshot" /\ disk \in Disks /\ pc.enr \in Enrollments
      /\ UNCHANGED <<host, lsm, grub, lic, dropin, bundle, got, pe, pins, ev, lost, whole>>
      /\ pc' = [pc EXCEPT !.at = "save"]
      /\ disk' = [disk EXCEPT !.snap = Enforced(disk, pc.enr)]
  BY DEF EnforceSnapshot, EnforcedSnapshot, Enforced, Goto, At, hostVars, IInv, WellTyped, Pcs
<1>2. pc' \in Pcs /\ pc'.cmd = "enforce" /\ pc'.at = "save" /\ pc'.enr = pc.enr
  BY <1>1, GotoPc DEF Ats
<1>3. /\ disk' \in Disks /\ disk'.state = disk.state /\ disk'.snap = Enforced(disk, pc.enr)
      /\ disk'.limited = disk.limited /\ disk'.health = disk.health
  BY <1>1, EnforcedIs DEF Disks
<1>4. WellTyped'  BY <1>1, <1>2, <1>3 DEF IInv, WellTyped
<1>5. Fetching(pc', bundle', got') /\ Booting(pc', grub', lost')
  BY <1>1, <1>2, FetchingKept, BootingKept DEF IInv
<1>6. Installing(pc', disk', pe', pins', bundle', host')  BY <1>2 DEF Installing
<1>7. Enforcing(pc', disk', pe', lsm')  BY <1>1, <1>2, <1>3 DEF IInv, Enforcing
<1>8. Removing(pc', disk', pe')
  <2>1. disk.state \in {"HEALTHY", "DEGRADED"}  BY <1>1 DEF IInv, Enforcing
  <2> QED  BY <1>2, <1>3, <2>1 DEF Removing
<1>9. Deriving(pc', disk', ev', whole')
  <2>1. Enforced(disk', pc'.enr) = disk'.snap
    <3>1. \A d2 \in Disks : d2.snap = Enforced(disk, pc.enr) => Enforced(d2, pc.enr) = Enforced(disk, pc.enr)
      BY <1>1, EnforcedIs
    <3>2. Enforced(disk', pc.enr) = Enforced(disk, pc.enr)  BY <1>3, <3>1
    <3> QED  BY <1>2, <1>3, <3>2
  <2>2. disk.health = derive(Enforced(disk, pc.enr), disk.limited).overall /\ ~whole
    BY <1>1 DEF IInv, Deriving
  <2> QED  BY <1>1, <1>2, <1>3, <2>1, <2>2 DEF Deriving, Derived
<1> QED  BY <1>4, <1>5, <1>6, <1>7, <1>8, <1>9 DEF IInv

\* What EnforceSave saves.
LEMMA EnforceSaved ==
  ASSUME IInv, EnforceSave
  PROVE  /\ pc.cmd = "enforce" /\ pc.at = "save" /\ disk.snap = Enforced(disk, pc.enr)
         /\ disk' \in Disks /\ disk'.state \in {"HEALTHY", "DEGRADED"} /\ disk'.snap = disk.snap
         /\ disk'.limited = disk.limited /\ disk'.health = disk.health
         /\ disk'.prot = enforcement_view(disk.snap).prot /\ disk.snap \in Snapshots /\ disk.snap.enr = pc.enr
<1>1. pc.cmd = "enforce" /\ pc.at = "save" /\ pc.enr \in Enrollments /\ disk \in Disks
  BY DEF EnforceSave, At, IInv, WellTyped, Pcs
<1>2. disk.snap = Enforced(disk, pc.enr) /\ disk.snap \in Snapshots /\ disk.snap.enr = pc.enr
  BY <1>1, EnforcedIs DEF IInv, Deriving
<1>3. PICK prot : prot = derive(disk.snap, disk.limited).prot  OBVIOUS
<1>4. PICK st \in {"HEALTHY", "DEGRADED"} : disk' = [disk EXCEPT !.prot = prot, !.state = st]
  <2>1. EnforcedSnapshot = disk.snap  BY <1>2 DEF EnforcedSnapshot, Enforced
  <2>2. disk' = [disk EXCEPT !.prot = prot,
                             !.state = IF prot = "PROTECTED" /\ disk.health = "PASS"
                                       THEN "HEALTHY" ELSE "DEGRADED"]
    BY <2>1, <1>3 DEF EnforceSave
  <2> QED  BY <2>2
<1>5. prot = enforcement_view(disk.snap).prot /\ prot \in {"OBSERVE", "PROTECTED", "DEGRADED"}
  BY <1>1, <1>2, <1>3, DeriveIs DEF Disks
<1> QED  BY <1>1, <1>2, <1>4, <1>5 DEF Disks, States

LEMMA EnforceSaveKeeps ==
  ASSUME IInv, EnforceSave
  PROVE  IInv'
<1>1. /\ pc' \in Pcs /\ pc'.cmd = "none" /\ ev' = disk' /\ whole' = TRUE
      /\ UNCHANGED <<host, lsm, grub, lic, dropin, bundle, got, pe, pins, lost>>
  BY IdlePc DEF EnforceSave, sync, hostVars
<1>2. WellTyped'  BY <1>1, EnforceSaved DEF IInv, WellTyped
<1>3. Fetching(pc', bundle', got') /\ Booting(pc', grub', lost')
  BY <1>1, EnforceSaved, FetchingKept, BootingKept DEF IInv
<1>4. Installing(pc', disk', pe', pins', bundle', host') /\ Enforcing(pc', disk', pe', lsm') /\ Removing(pc', disk', pe')
  BY <1>1, EnforceSaved DEF Installing, Enforcing, Removing
<1>5. Deriving(pc', disk', ev', whole')
  <2>1. Derived(disk)  BY EnforceSaved DEF IInv, Deriving
  <2> QED  BY <1>1, <2>1, EnforceSaved DEF Deriving, Derived
<1> QED  BY <1>2, <1>3, <1>4, <1>5 DEF IInv

-----------------------------------------------------------------------------
(* Removal.                                                                *)

LEMMA RemoveStartKeeps ==
  ASSUME IInv, RemoveStart
  PROVE  IInv'
<1>1. /\ pc' \in Pcs /\ pc'.cmd = "remove" /\ pc'.at = "stop" /\ pc.cmd = "none"
      /\ UNCHANGED <<host, lsm, grub, lic, dropin, bundle, got, pe, pins, ev, lost, whole>>
  <2>1. NoFile \in Files  BY DEF Files
  <2> QED  BY <2>1, BeginPc DEF RemoveStart, Cmds, Ats, hostVars
<1>2. /\ disk' \in Disks /\ disk'.state = "ROLLING_BACK" /\ disk'.snap = disk.snap
      /\ disk'.limited = disk.limited /\ disk'.health = disk.health
  BY DEF RemoveStart, IInv, WellTyped, Disks, States
<1>3. WellTyped'  BY <1>1, <1>2 DEF IInv, WellTyped
<1>4. Fetching(pc', bundle', got') /\ Booting(pc', grub', lost')  BY <1>1, FetchingKept, BootingKept DEF IInv
<1>5. Installing(pc', disk', pe', pins', bundle', host') /\ Enforcing(pc', disk', pe', lsm') /\ Removing(pc', disk', pe')
  BY <1>1, <1>2 DEF Installing, Enforcing, Removing
<1>6. Deriving(pc', disk', ev', whole')  BY <1>1, <1>2 DEF IInv, Deriving, Derived
<1> QED  BY <1>3, <1>4, <1>5, <1>6 DEF IInv

\* A step of a removal that goes on: from the removal of the container on, the
\* container is gone and the record's health is that of no snapshot.
LEMMA RemoveGoesOn ==
  ASSUME IInv, pc' \in Pcs, pc'.cmd = "remove", disk' \in Disks, disk'.state = "ROLLING_BACK",
         UNCHANGED <<host, lsm, bundle, got, ev, lost>>, pe' \in Containers, pins' \in Pins,
         lic' \in [stored : {"none", "torn", "good"}, over : BOOLEAN], dropin' \in BOOLEAN,
         grub' \in [files : SUBSET Words, cfg : BOOLEAN], Booting(pc', grub', lost'),
         IF pc'.at = "rm" THEN disk' = disk /\ whole' = whole ELSE pe' = NoContainer /\ whole' = FALSE
  PROVE  IInv'
<1>1. WellTyped'  BY DEF IInv, WellTyped, Pins
<1>2. Fetching(pc', bundle', got')  BY FetchingKept DEF IInv
<1>3. Installing(pc', disk', pe', pins', bundle', host') /\ Enforcing(pc', disk', pe', lsm') /\ Removing(pc', disk', pe')
  BY DEF Installing, Enforcing, Removing
<1>4. Deriving(pc', disk', ev', whole')  BY DEF IInv, Deriving
<1> QED  BY <1>1, <1>2, <1>3, <1>4 DEF IInv

\* What the steps of a removal start from.
LEMMA RemoveAt ==
  ASSUME IInv, pc.cmd = "remove"
  PROVE  /\ disk.state = "ROLLING_BACK" /\ disk \in Disks /\ pe \in Containers /\ pins \in Pins /\ pc \in Pcs
         /\ lic \in [stored : {"none", "torn", "good"}, over : BOOLEAN] /\ dropin \in BOOLEAN
         /\ grub \in [files : SUBSET Words, cfg : BOOLEAN]
         /\ pc.at \in {"unpin", "grub", "regen", "units", "finish"} => pe = NoContainer /\ whole = FALSE
BY DEF IInv, WellTyped, Removing, Deriving, Pins

LEMMA RemoveStopKeeps ==
  ASSUME IInv, NEW answer \in {"ok", "absent", "error"}, NEW done \in BOOLEAN, NEW blind \in BOOLEAN,
         RemoveStop(answer, done, blind)
  PROVE  IInv'
<1>1. /\ pc.cmd = "remove" /\ pc.at = "stop" /\ UNCHANGED <<hostVars, bundle, got, pins, lost>>
      /\ UNCHANGED <<host, lsm, grub, lic, dropin>>
  BY DEF RemoveStop, At, hostVars
<1>2. pe' \in Containers
  <2>1. CASE answer = "ok" /\ done
    <3>1. pe # NoContainer /\ pe' = [pe EXCEPT !.life = "stopped"]
      BY <2>1 DEF RemoveStop, DockerAnswers
    <3> QED  BY <1>1, <3>1, RemoveAt DEF Containers
  <2>2. CASE ~(answer = "ok" /\ done)  BY <1>1, <2>2, RemoveAt DEF RemoveStop
  <2> QED  BY <2>1, <2>2
<1>3. CASE FailSafe  BY <1>1, <1>2, <1>3, RemoveAt, FailSafeThere
<1>4. CASE ~FailSafe
  <2>1. pc' = [pc EXCEPT !.at = "rm"] /\ UNCHANGED <<disk, ev, whole>>  BY <1>4 DEF RemoveStop, Goto
  <2>2. pc' \in Pcs /\ pc'.cmd = "remove" /\ pc'.at = "rm"  BY <1>1, <2>1, RemoveAt, GotoPc DEF Ats
  <2>3. Booting(pc', grub', lost')  BY <1>1, <2>2, BootingKept DEF IInv
  <2> QED  BY <1>1, <1>2, <2>1, <2>2, <2>3, RemoveAt, RemoveGoesOn
<1> QED  BY <1>3, <1>4

LEMMA RemoveContainerKeeps ==
  ASSUME IInv, NEW answer \in {"ok", "absent", "error"}, NEW done \in BOOLEAN, NEW blind \in BOOLEAN,
         RemoveContainer(answer, done, blind)
  PROVE  IInv'
<1>1. /\ pc.cmd = "remove" /\ pc.at = "rm" /\ UNCHANGED <<hostVars, bundle, got, lost>>
      /\ UNCHANGED <<host, lsm, grub, lic, dropin>>
  BY DEF RemoveContainer, At, hostVars
<1>2. pe' = (IF answer = "ok" /\ done THEN NoContainer ELSE pe) /\ pins' \in {pins, Left(pins)}
  BY DEF RemoveContainer
<1>3. pe' \in Containers /\ pins' \in Pins
  BY <1>1, <1>2, RemoveAt DEF Containers, Left, Pins
<1>4. CASE FailSafe  BY <1>1, <1>3, <1>4, FailSafeThere
<1>5. CASE ~FailSafe
  <2>1. /\ docker_removal(answer, Inspected(pe', blind), pe' = NoContainer)
        /\ disk' = [disk EXCEPT !.snap.cont = "none", !.snap.loader = FALSE, !.snap.clsact = FALSE,
                                !.snap.cli = FALSE, !.snap.pins = pins # "none"]
        /\ pc' = [pc EXCEPT !.at = "unpin"] /\ whole' = FALSE /\ ev' = ev
    BY <1>5, <1>2 DEF RemoveContainer, Goto
  <2>2. pe' = NoContainer
    <3>1. pe' = NoContainer \/ Inspected(pe', blind) = "absent"
      <4>1. PICK gone \in BOOLEAN : gone = (pe' = NoContainer)  BY Zenon
      <4>2. docker_removal(answer, Inspected(pe', blind), gone)  BY <2>1, <4>1, Zenon
      <4>3. gone \/ Inspected(pe', blind) = "absent"
        BY <4>2 DEF docker_removal, classify_docker_object_operation
      <4> QED  BY <4>1, <4>3
    <3>2. Inspected(pe', blind) = "absent" => pe'.kind = "none"  BY DEF Inspected
    <3>3. pe'.kind = "none" => pe' = NoContainer  BY <1>3 DEF Containers
    <3> QED  BY <3>1, <3>2, <3>3
  <2>3. disk' \in Disks /\ disk'.state = "ROLLING_BACK"
    <3>1. PICK there \in BOOLEAN : there = (pins # "none")  BY Zenon
    <3>2. disk' = [disk EXCEPT !.snap.cont = "none", !.snap.loader = FALSE, !.snap.clsact = FALSE,
                               !.snap.cli = FALSE, !.snap.pins = there]
      BY <2>1, <3>1, Zenon
    <3> QED  BY <1>1, <3>2, RemoveAt DEF Disks, Snapshots
  <2>4. pc' \in Pcs /\ pc'.cmd = "remove" /\ pc'.at = "unpin"  BY <1>1, <2>1, RemoveAt, GotoPc DEF Ats
  <2>5. Booting(pc', grub', lost')  BY <1>1, <2>4, BootingKept DEF IInv
  <2> QED  BY <1>1, <1>3, <2>1, <2>2, <2>3, <2>4, <2>5, RemoveAt, RemoveGoesOn
<1> QED  BY <1>4, <1>5

LEMMA RemovePinsKeeps ==
  ASSUME IInv, NEW ok \in BOOLEAN, RemovePins(ok)
  PROVE  IInv'
<1>1. /\ pc.cmd = "remove" /\ pc.at = "unpin" /\ UNCHANGED <<hostVars, bundle, got, pe, lost>>
      /\ UNCHANGED <<host, lsm, grub, lic, dropin>>
  BY DEF RemovePins, At, hostVars
<1>2. CASE ok
  <2>1. /\ pins' = "none" /\ disk' = [disk EXCEPT !.snap.pins = FALSE] /\ pc' = [pc EXCEPT !.at = "grub"]
        /\ UNCHANGED <<ev, whole>>
    BY <1>2 DEF RemovePins, Goto
  <2>2. disk' \in Disks /\ disk'.state = "ROLLING_BACK"  BY <1>1, <2>1, RemoveAt DEF Disks, Snapshots
  <2>3. pc' \in Pcs /\ pc'.cmd = "remove" /\ pc'.at = "grub"  BY <1>1, <2>1, RemoveAt, GotoPc DEF Ats
  <2>4. Booting(pc', grub', lost')  BY <1>1, <2>3, BootingKept DEF IInv
  <2>5. pins' \in Pins  BY <2>1 DEF Pins
  <2> QED  BY <1>1, <2>1, <2>2, <2>3, <2>4, <2>5, RemoveAt, RemoveGoesOn
<1>3. CASE ~ok
  <2>1. FailSafe /\ pins' = pins  BY <1>3 DEF RemovePins
  <2> QED  BY <1>1, <2>1, RemoveAt, FailSafeThere
<1> QED  BY <1>2, <1>3

LEMMA RemoveWordKeeps ==
  ASSUME IInv, RemoveWord
  PROVE  IInv'
<1>1. /\ pc.cmd = "remove" /\ pc.at = "grub"
      /\ UNCHANGED <<host, lsm, lic, dropin, bundle, got, pe, pins, disk, ev, lost, whole>>
  BY DEF RemoveWord, At
<1>2. /\ pc' \in Pcs /\ pc'.cmd = "remove" /\ pc'.at \in {"regen", "units"}
      /\ grub' \in [files : SUBSET Words, cfg : BOOLEAN] /\ Booting(pc', grub', lost')
  <2>1. CASE "dropin" \in grub.files
    <3>1. grub' = [grub EXCEPT !.files = {}] /\ pc' = [pc EXCEPT !.at = "regen", !.prior = grub.files]
      BY <2>1 DEF RemoveWord
    <3>2. pc' \in Pcs /\ pc'.cmd = "remove" /\ pc'.at = "regen" /\ pc'.prior = grub.files
      BY <1>1, <3>1, RemoveAt DEF Pcs, Ats
    <3> QED  BY <1>1, <2>1, <3>1, <3>2, RemoveAt DEF Booting
  <2>2. CASE "dropin" \notin grub.files
    <3>1. grub' = grub /\ pc' = [pc EXCEPT !.at = "units"]  BY <2>2 DEF RemoveWord, Goto
    <3>2. pc' \in Pcs /\ pc'.cmd = "remove" /\ pc'.at = "units"  BY <1>1, <3>1, RemoveAt, GotoPc DEF Ats
    <3> QED  BY <1>1, <3>1, <3>2, RemoveAt, BootingKept DEF IInv
  <2> QED  BY <2>1, <2>2
<1> QED  BY <1>1, <1>2, RemoveAt, RemoveGoesOn

LEMMA remove_grub_dropinKeeps ==
  ASSUME IInv, NEW res \in Updates, remove_grub_dropin(res)
  PROVE  IInv'
<1>1. /\ pc.cmd = "remove" /\ pc.at = "regen" /\ pc.prior # {} /\ pc.prior \in SUBSET Words
      /\ UNCHANGED <<host, lsm, lic, dropin, bundle, got, pe, pins, lost>>
  BY DEF remove_grub_dropin, At, IInv, WellTyped, Booting, Pcs
<1>2. PICK g : g = update_grub(grub, res)  OBVIOUS
<1>3. g \in [files : SUBSET Words, cfg : BOOLEAN]
  <2>1. PICK word \in BOOLEAN : word = IF res = "ok" THEN grub.files # {} ELSE grub.cfg
    BY <1>1, RemoveAt
  <2>2. g = [grub EXCEPT !.cfg = word]  BY <1>2, <2>1 DEF update_grub
  <2> QED  BY <1>1, <2>2, RemoveAt
<1>4. CASE res = "fails" \/ g.cfg
  <2>1. grub' = [grub EXCEPT !.files = pc.prior] /\ FailSafe  BY <1>2, <1>4 DEF remove_grub_dropin
  <2>2. grub' \in [files : SUBSET Words, cfg : BOOLEAN] /\ grub'.files = pc.prior
    BY <1>1, <2>1, RemoveAt
  <2>3. Booting(pc', grub', lost')  BY <1>1, <2>1, <2>2, FailSafeKept DEF Booting
  <2> QED  BY <1>1, <2>1, <2>2, <2>3, RemoveAt, FailSafeKeeps
<1>5. CASE ~(res = "fails" \/ g.cfg)
  <2>1. grub' = g /\ pc' = [pc EXCEPT !.at = "units", !.prior = {}] /\ UNCHANGED <<disk, ev, whole>>
    BY <1>2, <1>5 DEF remove_grub_dropin
  <2>2. pc' \in Pcs /\ pc'.cmd = "remove" /\ pc'.at = "units"  BY <1>1, <2>1, RemoveAt DEF Pcs, Ats
  <2>3. Booting(pc', grub', lost')  BY <1>5, <2>1, <2>2 DEF Booting
  <2> QED  BY <1>1, <1>3, <2>1, <2>2, <2>3, RemoveAt, RemoveGoesOn
<1> QED  BY <1>4, <1>5

LEMMA RemoveUnitsKeeps ==
  ASSUME IInv, NEW ok \in BOOLEAN, RemoveUnits(ok)
  PROVE  IInv'
<1>1. /\ pc.cmd = "remove" /\ pc.at = "units" /\ UNCHANGED <<host, lsm, grub, bundle, got, pe, pins, lost>>
      /\ lic' = [lic EXCEPT !.stored = "none"] /\ dropin' = FALSE
  BY DEF RemoveUnits, At
<1>2. lic' \in [stored : {"none", "torn", "good"}, over : BOOLEAN] /\ dropin' \in BOOLEAN
  BY <1>1, RemoveAt
<1>3. CASE FailSafe
  <2>1. Booting(pc', grub', lost')  BY <1>1, <1>3, FailSafeKept, BootingKept DEF IInv
  <2> QED  BY <1>1, <1>2, <1>3, <2>1, RemoveAt, FailSafeKeeps
<1>4. CASE ~FailSafe
  <2>1. pc' = [pc EXCEPT !.at = "finish"] /\ UNCHANGED <<disk, ev, whole>>  BY <1>4 DEF RemoveUnits, Goto
  <2>2. pc' \in Pcs /\ pc'.cmd = "remove" /\ pc'.at = "finish"  BY <1>1, <2>1, RemoveAt, GotoPc DEF Ats
  <2>3. Booting(pc', grub', lost')  BY <1>1, <2>2, BootingKept DEF IInv
  <2> QED  BY <1>1, <1>2, <2>1, <2>2, <2>3, RemoveAt, RemoveGoesOn
<1> QED  BY <1>3, <1>4

LEMMA RemoveFinishKeeps ==
  ASSUME IInv, RemoveFinish
  PROVE  IInv'
<1>1. /\ pc.cmd = "remove" /\ pc.at = "finish" /\ pc' \in Pcs /\ pc'.cmd = "none" /\ ev' = disk' /\ whole' = TRUE
      /\ UNCHANGED <<host, lsm, grub, lic, dropin, bundle, got, pe, pins, lost>>
  BY IdlePc DEF RemoveFinish, At, sync, hostVars
<1>2. disk \in Disks /\ disk.snap \in Snapshots /\ disk.limited \in BOOLEAN /\ pe = NoContainer
  BY <1>1, RemoveAt DEF Disks
<1>3. PICK s : s = [disk.snap EXCEPT !.enr = NoEnrollment, !.flag = FALSE]  OBVIOUS
<1>4. s \in Snapshots  BY <1>2, <1>3 DEF Snapshots, NoEnrollment, Enrollments
<1>5. disk' = [disk EXCEPT !.snap = s, !.health = derive(s, disk.limited).overall, !.state = "ROLLED_BACK"]
  BY <1>3 DEF RemoveFinish
<1>6. /\ disk' \in Disks /\ disk'.state = "ROLLED_BACK" /\ disk'.snap = s /\ disk'.limited = disk.limited
      /\ disk'.health = derive(s, disk.limited).overall
  BY <1>2, <1>4, <1>5, DeriveIs DEF Disks, States
<1>7. WellTyped'  BY <1>1, <1>6 DEF IInv, WellTyped
<1>8. Fetching(pc', bundle', got') /\ Booting(pc', grub', lost')
  BY <1>1, FetchingKept, BootingKept DEF IInv
<1>9. Installing(pc', disk', pe', pins', bundle', host') /\ Enforcing(pc', disk', pe', lsm') /\ Removing(pc', disk', pe')
  BY <1>1, <1>2 DEF Installing, Enforcing, Removing
<1>10. Deriving(pc', disk', ev', whole')  BY <1>1, <1>6 DEF Deriving, Derived
<1> QED  BY <1>7, <1>8, <1>9, <1>10 DEF IInv

LEMMA verify_removalKeeps ==
  ASSUME IInv, verify_removal
  PROVE  IInv'
<1>1. /\ pc = Idle /\ pc.cmd = "none" /\ ev' = disk'
      /\ UNCHANGED <<host, lsm, grub, lic, dropin, bundle, got, pe, pins, pc, lost, whole>>
  BY IdlePc DEF verify_removal, sync, hostVars
<1>2. /\ disk' \in Disks /\ disk'.state \in {"VERIFIED_REMOVED", "RESIDUAL_FOUND"} /\ disk'.snap = disk.snap
      /\ disk'.limited = disk.limited /\ disk'.health = disk.health
  BY DEF verify_removal, IInv, WellTyped, Disks, States
<1>3. WellTyped'  BY <1>1, <1>2 DEF IInv, WellTyped
<1>4. Fetching(pc', bundle', got') /\ Booting(pc', grub', lost')  BY <1>1 DEF IInv
<1>5. Installing(pc', disk', pe', pins', bundle', host') /\ Enforcing(pc', disk', pe', lsm') /\ Removing(pc', disk', pe')
  BY <1>1, <1>2 DEF Installing, Enforcing, Removing
<1>6. Deriving(pc', disk', ev', whole')  BY <1>1, <1>2 DEF IInv, Deriving, Derived
<1> QED  BY <1>3, <1>4, <1>5, <1>6 DEF IInv

-----------------------------------------------------------------------------
(* The theorems.                                                           *)

LEMMA InitInv == Init => IInv
<1> SUFFICES ASSUME Init  PROVE IInv  OBVIOUS
<1>1. pc \in Pcs /\ pc.cmd = "none"  BY IdlePc DEF Init
<1>2. disk \in Disks /\ disk.state = "NONE" /\ ev = disk
  <2>1. empty_runtime_state \in Snapshots  BY DEF empty_runtime_state, Snapshots, NoEnrollment, Enrollments
  <2> QED  BY <2>1 DEF Init, NoDisk, Disks, States
<1>3. pe \in Containers  BY DEF Init, Containers
<1>4. bundle \in [Parts -> Files]  BY DEF Init, Files
<1>5. grub \in [files : SUBSET Words, cfg : BOOLEAN] /\ lsm \in BOOLEAN
  <2>1. PICK f \in SUBSET Words, word \in BOOLEAN : grub = [files |-> f, cfg |-> word] /\ lsm = grub.cfg
    <3>1. {} \in SUBSET Words /\ {"other"} \in SUBSET Words  BY DEF Words
    <3>2. grub = [files |-> {}, cfg |-> FALSE] \/ grub = [files |-> {"other"}, cfg |-> TRUE]  BY DEF Init
    <3> QED  BY <3>1, <3>2 DEF Init
  <2> QED  BY <2>1
<1>6. WellTyped  BY <1>1, <1>2, <1>3, <1>4, <1>5 DEF Init, WellTyped
<1>7. Fetching(pc, bundle, got) /\ Booting(pc, grub, lost)  BY <1>1 DEF Init, Fetching, Booting
<1>8. Installing(pc, disk, pe, pins, bundle, host) /\ Enforcing(pc, disk, pe, lsm) /\ Removing(pc, disk, pe)
  BY <1>1, <1>2 DEF Installing, Enforcing, Removing
<1>9. Deriving(pc, disk, ev, whole)  BY <1>1 DEF Init, Deriving
<1> QED  BY <1>6, <1>7, <1>8, <1>9 DEF IInv

LEMMA NextKeeps == IInv /\ [Next]_vars => IInv'
<1> SUFFICES ASSUME IInv, [Next]_vars  PROVE IInv'  OBVIOUS
<1>1. CASE Fetch
  <2>1. ASSUME NEW route, NEW d \in Answers, fetch_bundle(route[1], route[2], d)  PROVE IInv'
    BY <2>1, fetch_bundleKeeps
  <2>2. CASE \/ \E t \in Tokens, production \in BOOLEAN : FetchStart(t, production)
             \/ StoreOpened \/ StoreWritten \/ \E p \in Parts : MoveChild(p)
    BY <2>2, FetchStartKeeps, StoreKeeps, MoveChildKeeps
  <2> QED  BY <1>1, <2>1, <2>2 DEF Fetch
<1>2. CASE Install
  BY <1>2, InstallStartKeeps, InstallFetchKeeps, InstallPlanKeeps, InstallLoadKeeps, InstallRunKeeps,
     wait_for_observe_hostKeeps, InstallSaveKeeps DEF Install
<1>3. CASE Enforce
  BY <1>3, EnforceStartKeeps, EnforceProbeKeeps, EnforceHealthKeeps, EnforceSnapshotKeeps, EnforceSaveKeeps
     DEF Enforce
<1>4. CASE Remove
  BY <1>4, RemoveStartKeeps, RemoveStopKeeps, RemoveContainerKeeps, RemovePinsKeeps, RemoveWordKeeps,
     remove_grub_dropinKeeps, RemoveUnitsKeeps, RemoveFinishKeeps, verify_removalKeeps DEF Remove
<1>5. CASE \/ PrepareStart \/ (\E res \in Updates : prepare(res))
           \/ (\E remove \in BOOLEAN : EnrollWrite(remove)) \/ (\E ok \in BOOLEAN : EnrollReload(ok))
  BY <1>5, PrepareStartKeeps, prepareKeeps, EnrollKeeps
<1>6. CASE LoaderAttaches \/ LoaderReports \/ LoaderDies \/ Kill \/ Reboot \/ Expire
  BY <1>6, LoaderKeeps, KillKeeps, RebootKeeps, ExpireKeeps
<1>7. CASE UNCHANGED vars  BY <1>7 DEF vars, hostVars, IInv, WellTyped
<1> QED  BY <1>1, <1>2, <1>3, <1>4, <1>5, <1>6, <1>7 DEF Next

\* In every state, whatever the server answers, wherever a command is killed, and
\* whenever a loader starts or dies.
THEOREM Invariance == Spec => []IInv
BY InitInv, NextKeeps, PTL DEF Spec

\* A fetch that answered VERIFIED leaves the files of one download, signed for its
\* path (fetch_bundle and _signature_reason, bundle_fetch.py).
THEOREM OneRelease == Spec => []BundleIsOneRelease
<1>1. IInv => BundleIsOneRelease  BY DEF IInv, Fetching, BundleIsOneRelease
<1> QED  BY <1>1, Invariance, PTL

\* Whoever recomputes health from the evidence directory comes to the recorded
\* verdict, after every command that ended by deriving it (_recompute_health in the
\* verifier, health.derive).
THEOREM VerdictAgrees == Spec => []VerifierAgrees
<1>1. IInv => VerifierAgrees
  <2> SUFFICES ASSUME IInv, whole  PROVE recompute_health(ev.snap, ev.limited) = ev.health
    BY DEF VerifierAgrees
  <2>1. Derived(ev) /\ ev.snap \in Snapshots /\ ev.limited \in BOOLEAN
    BY DEF IInv, Deriving, WellTyped, Disks
  <2> QED  BY <2>1, SameVerdict DEF Derived
<1> QED  BY <1>1, Invariance, PTL

-----------------------------------------------------------------------------
(* What a step does to the record's state and protection.                  *)

Still == disk'.state = disk.state /\ disk'.prot = disk.prot
Backward == disk'.state \notin {"HEALTHY", "DEGRADED", "VERIFIED_REMOVED"} /\ disk'.prot \in {disk.prot, "none"}

LEMMA FailSafeTurns ==
  ASSUME IInv, FailSafe
  PROVE  Backward
BY DEF FailSafe, Backward, IInv, WellTyped, Disks

LEMMA InstallTurns ==
  ASSUME IInv, Install
  PROVE  Still \/ Backward \/ InstallSave
<1>1. CASE disk' = disk  BY <1>1 DEF Still
<1>2. CASE FailSafe  BY <1>2, FailSafeTurns
<1>3. CASE \E gates \in BOOLEAN : InstallPlan(gates) /\ disk' # disk
  <2>1. PICK gates \in BOOLEAN : InstallPlan(gates) /\ disk' # disk  BY <1>3
  <2>2. run_preflight(bundle) \in {"READY", "READY_WITH_LIMITATIONS", "BLOCKED", "UNSUPPORTED"}
    BY DEF run_preflight, aggregate
  <2>3. gate[run_preflight(bundle)] \in {"PLANNED", "PREFLIGHT_BLOCKED", "UNSUPPORTED"}  BY <2>2 DEF gate
  <2>4. PICK st \in {"APPLYING", "PLANNED", "PREFLIGHT_BLOCKED", "UNSUPPORTED"}, lim \in BOOLEAN : disk' = NewDisk(st, lim)
    BY <2>1, <2>3 DEF InstallPlan
  <2> QED  BY <2>4 DEF NewDisk, Backward
<1> QED
  BY <1>1, <1>2, <1>3 DEF Install, InstallStart, InstallFetch, InstallLoad, InstallRun, wait_for_observe_host

LEMMA EnforceTurns ==
  ASSUME IInv, Enforce
  PROVE  Still \/ EnforceSave
<1>1. disk \in Disks  BY DEF IInv, WellTyped
<1>2. CASE EnforceHealth  BY <1>1, <1>2 DEF EnforceHealth, Still, Disks
<1>3. CASE EnforceSnapshot  BY <1>1, <1>3 DEF EnforceSnapshot, Still, Disks
<1>4. CASE disk' = disk  BY <1>4 DEF Still
<1> QED
  BY <1>2, <1>3, <1>4 DEF Enforce, EnforceStart, EnforceRemove, EnforceRun, EnforceLogs, EnforcePrograms

LEMMA RemoveTurns ==
  ASSUME IInv, Remove
  PROVE  Still \/ Backward \/ verify_removal
<1>1. disk \in Disks  BY DEF IInv, WellTyped
<1>2. CASE RemoveStart  BY <1>1, <1>2 DEF RemoveStart, Backward, Disks
<1>3. CASE FailSafe  BY <1>3, FailSafeTurns
<1>4. CASE disk' = disk  BY <1>4 DEF Still
<1>5. CASE RemoveFinish
  <2>1. PICK s, v : disk' = [disk EXCEPT !.snap = s, !.health = v, !.state = "ROLLED_BACK"]
    BY <1>5 DEF RemoveFinish
  <2> QED  BY <1>1, <2>1 DEF Backward, Disks
<1>6. ASSUME NEW answer, NEW done \in BOOLEAN, NEW blind \in BOOLEAN, RemoveContainer(answer, done, blind), ~FailSafe
      PROVE  Still
  <2>1. disk' = [disk EXCEPT !.snap.cont = "none", !.snap.loader = FALSE, !.snap.clsact = FALSE,
                             !.snap.cli = FALSE, !.snap.pins = pins # "none"]
    BY <1>6 DEF RemoveContainer
  <2>2. PICK there \in BOOLEAN : there = (pins # "none")  BY Zenon
  <2>3. disk' = [disk EXCEPT !.snap.cont = "none", !.snap.loader = FALSE, !.snap.clsact = FALSE,
                             !.snap.cli = FALSE, !.snap.pins = there]
    BY <2>1, <2>2, Zenon
  <2> QED  BY <1>1, <2>3 DEF Still, Disks
<1>7. ASSUME NEW ok \in BOOLEAN, RemovePins(ok), ~FailSafe  PROVE Still
  <2>1. disk' = [disk EXCEPT !.snap.pins = FALSE]  BY <1>7 DEF RemovePins
  <2> QED  BY <1>1, <2>1 DEF Still, Disks
<1> QED
  BY <1>2, <1>3, <1>4, <1>5, <1>6, <1>7
     DEF Remove, RemoveStop, RemoveWord, RemoveUnits, remove_grub_dropin

\* The record turns HEALTHY, DEGRADED or VERIFIED_REMOVED, or its protection rises, only
\* by the last step of an install, of an enforcing apply or of verify-removal.
LEMMA NextTurns ==
  ASSUME IInv, [Next]_vars
  PROVE  Still \/ Backward \/ InstallSave \/ EnforceSave \/ verify_removal
<1>1. CASE disk' = disk  BY <1>1 DEF Still
<1>2. CASE ~(Install \/ Enforce \/ Remove) /\ disk' # disk
  BY <1>2 DEF Next, Fetch, FetchStart, StoreOpened, StoreWritten, fetch_bundle, FetchRefused, MoveChild,
     PrepareStart, prepare, EnrollWrite, EnrollReload, LoaderAttaches, LoaderReports, LoaderDies, Kill, Reboot,
     Expire, vars
<1>3. CASE Install \/ Enforce \/ Remove  BY <1>3, InstallTurns, EnforceTurns, RemoveTurns
<1> QED  BY <1>1, <1>2, <1>3

\* The prot of an install's snapshot: nothing was asked to be enforced.
LEMMA InstallProt ==
  ASSUME IInv, InstallSave
  PROVE  disk'.prot = "OBSERVE"
<1>1. /\ disk \in Disks /\ disk.snap \in Snapshots /\ disk.limited \in BOOLEAN /\ ~disk.snap.enr.requested
  BY DEF InstallSave, At, IInv, WellTyped, Installing, Disks
<1>2. PICK s : s = [disk.snap EXCEPT !.cont = "observe", !.loader = TRUE, !.clsact = TRUE,
                                     !.cli = TRUE, !.pins = pins_are_current(pins)]
  OBVIOUS
<1>3. s \in Snapshots /\ s.enr = disk.snap.enr  BY <1>1, <1>2 DEF Snapshots, pins_are_current
<1>4. PICK v, prot, st : /\ disk' = [disk EXCEPT !.snap = s, !.health = v, !.prot = prot, !.state = st]
                         /\ prot = derive(s, disk.limited).prot
  BY <1>2 DEF InstallSave
<1>5. prot = "OBSERVE"  BY <1>1, <1>3, <1>4, DeriveIs DEF enforcement_view
<1> QED  BY <1>1, <1>4, <1>5 DEF Disks

\* HEALTHY or DEGRADED after an install is earned: the loader of this install has
\* reported, the bundle is the sealed release, the required facts are good
\* (run_one_command, wait_for_observe_host).
THEOREM InstallEarned == Spec => InstallIsEarned
<1>1. ASSUME IInv, [Next]_vars, disk.state = "APPLYING", disk'.state \in {"HEALTHY", "DEGRADED"}
      PROVE  /\ pe.kind = "observe" /\ pe.said /\ pins = "own"
             /\ \A p \in Parts : bundle[p].rel = "sealed" /\ bundle[p].intact
             /\ \A id \in CheckIds \ {"mem", "enterprise", "motion", "npm"} : facts[id] = "good"
  <2>1. ~Still /\ ~Backward  BY <1>1 DEF Still, Backward
  <2>2. ~EnforceSave  BY <1>1 DEF EnforceSave, At, IInv, Enforcing
  <2>3. ~verify_removal  BY <1>1 DEF verify_removal
  <2>4. pc.cmd = "install" /\ pc.at = "save"
    BY <1>1, <2>1, <2>2, <2>3, NextTurns DEF InstallSave, At
  <2>5. pe.kind = "observe" /\ pe.said /\ pins = "own" /\ GoodHost(host) /\ Sealed(bundle)
    BY <1>1, <2>4 DEF IInv, Installing
  <2> QED  BY <2>5 DEF Sealed, GoodHost, facts
<1>2. IInv /\ [Next]_vars =>
        [(disk.state = "APPLYING" /\ disk'.state \in {"HEALTHY", "DEGRADED"}) =>
           /\ pe.kind = "observe" /\ pe.said /\ pins = "own"
           /\ \A p \in Parts : bundle[p].rel = "sealed" /\ bundle[p].intact
           /\ \A id \in CheckIds \ {"mem", "enterprise", "motion", "npm"} : facts[id] = "good"]_vars
  BY <1>1
<1> QED  BY <1>2, Invariance, PTL DEF Spec, InstallIsEarned

\* PROTECTED is earned: the kernel has the bpf LSM, and the transaction's container is
\* an enforcing one that has printed its banner (apply_enforce_enrolled).
THEOREM ProtectionEarned == Spec => ProtectedIsEarned
<1>1. ASSUME IInv, [Next]_vars, disk.prot # "PROTECTED", disk'.prot = "PROTECTED"
      PROVE  lsm /\ pe.kind = "enforce" /\ pe.said
  <2>1. ~Still /\ ~Backward  BY <1>1 DEF Still, Backward
  <2>2. ~InstallSave  BY <1>1, InstallProt
  <2>3. ~verify_removal  BY <1>1 DEF verify_removal, IInv, WellTyped, Disks
  <2>4. EnforceSave  BY <1>1, <2>1, <2>2, <2>3, NextTurns
  <2>5. enforcement_view(disk.snap).prot = "PROTECTED" /\ disk.snap.enr = pc.enr
    BY <1>1, <2>4, EnforceSaved
  <2>6. pc.enr.banner  BY <2>5 DEF enforcement_view, enforce_proof
  <2>7. pc.cmd = "enforce" /\ pc.at = "save"  BY <2>4 DEF EnforceSave, At
  <2> QED  BY <1>1, <2>6, <2>7 DEF IInv, Enforcing
<1>2. IInv /\ [Next]_vars =>
        [(disk.prot # "PROTECTED" /\ disk'.prot = "PROTECTED") => lsm /\ pe.kind = "enforce" /\ pe.said]_vars
  BY <1>1
<1> QED  BY <1>2, Invariance, PTL DEF Spec, ProtectedIsEarned

\* VERIFIED_REMOVED is true when it is said: neither container nor pins nor files of the
\* customer, and no boot entry with the word that no file asks for (inspect_residual,
\* remove_grub_dropin).
THEOREM RemovalTrue == Spec => RemovalIsTrue
<1>1. ASSUME IInv, [Next]_vars, disk.state # "VERIFIED_REMOVED", disk'.state = "VERIFIED_REMOVED"
      PROVE  /\ pe = NoContainer /\ pins = "none" /\ ~dropin /\ lic.stored = "none"
             /\ lost \/ (grub.cfg => grub.files = {"other"})
  <2>1. ~Still /\ ~Backward  BY <1>1 DEF Still, Backward
  <2>2. ~InstallSave /\ ~EnforceSave
    <3>1. CASE InstallSave
      <4>1. PICK s, v, prot, st : /\ disk' = [disk EXCEPT !.snap = s, !.health = v, !.prot = prot, !.state = st]
                                  /\ st \in {"HEALTHY", "DEGRADED", "FAILED_SAFE"}
        BY <3>1 DEF InstallSave
      <4> QED  BY <1>1, <4>1 DEF IInv, WellTyped, Disks
    <3>2. CASE EnforceSave  BY <1>1, <3>2, EnforceSaved
    <3> QED  BY <1>1, <3>1, <3>2
  <2>3. verify_removal  BY <1>1, <2>1, <2>2, NextTurns
  <2>4. pc = Idle /\ disk.state = "ROLLED_BACK" /\ residual_items = {}
    BY <1>1, <2>3 DEF verify_removal, IInv, WellTyped, Disks
  <2>5. /\ pins = "none" /\ "dropin" \notin grub.files /\ lic.stored = "none" /\ ~dropin
    <3>1. \A i \in {"container", "pins", "grub_dropin", "license", "enroll_dropin"} : i \notin residual_items
      BY <2>4
    <3> QED  BY <3>1 DEF residual_items
  <2>6. pe = NoContainer  BY <1>1, <2>4 DEF IInv, Removing
  <2>7. lost \/ ~grub.cfg \/ grub.files # {}  BY <1>1, <2>4, IdlePc DEF IInv, Booting
  <2>8. grub.files \subseteq {"other"}  BY <1>1, <2>5 DEF IInv, WellTyped, Words
  <2> QED  BY <2>5, <2>6, <2>7, <2>8
<1>2. IInv /\ [Next]_vars =>
        [(disk.state # "VERIFIED_REMOVED" /\ disk'.state = "VERIFIED_REMOVED") =>
           /\ pe = NoContainer /\ pins = "none" /\ ~dropin /\ lic.stored = "none"
           /\ lost \/ (grub.cfg => grub.files = {"other"})]_vars
  BY <1>1
<1> QED  BY <1>2, Invariance, PTL DEF Spec, RemovalIsTrue
=============================================================================
