---------------------------- MODULE StoreProofs ----------------------------
(***************************************************************************)
(* What the operational store promises for every number of processes, every *)
(* directory it may start on and every bound.                              *)
(*                                                                         *)
(* The argument is rely and guarantee.  HandleOK says what a process may   *)
(* count on at each point of an open, AskOK what it may count on inside a  *)
(* query, and Kept what no step of another process ever takes back from    *)
(* the shared file and directory.  Every action is shown to guarantee Kept *)
(* and to leave its own process in HandleOK and AskOK.                     *)
(***************************************************************************)
EXTENDS OperationalStore, TLAPS

Pcs == {"none", "locate", "create", "connect_new", "install", "check_id", "create_id", "fill_id", "touch",
        "open", "probe", "decide", "connect", "backup", "new_backup", "copy", "migrate", "envelope",
        "rename", "closed"}
Codes == {"none", "OK", "SQL_REJECTED", "SYMLINK_REFUSED", "INTEGRITY_FAILED", "STORE_ABSENT", "RAISED",
          "STORE_UNAVAILABLE", "MIGRATION_FAILED", "BYTES_CHANGED", "NEWER_SCHEMA_REFUSED",
          "WEAKER_WRITER_REFUSED"}
Handle == [pc : Pcs, create : BOOLEAN, gen : 0..GENERATION, before : Nat, got : Db, sidecar : Nat, id : Nat,
           conn : BOOLEAN, healthy : BOOLEAN, reason : Codes, recovery : Envelopes, next : Envelopes,
           preserved : BOOLEAN, diagnostic : BOOLEAN]
Used == [opens : Nat, puts : Nat, queries : Nat, kills : Nat, ids : Nat, raced : BOOLEAN, raised : BOOLEAN]

(* A file that this version must not write.                                *)
Refused(d) == d.kind \in {"corrupt", "foreign"} \/ d.version > VERSION \/ d.privacy > GENERATION

(* The database carries a schema of this version with an id.               *)
Installed(d) == d.kind = "ours" /\ d.version = VERSION /\ ~Refused(d)

DbOK(d) == /\ d.kind = "absent" => d.version = 0
           /\ d.version < VERSION => d.privacy = 0

Identified == {"check_id", "create_id", "fill_id", "touch", "open"}
Backing == {"backup", "new_backup", "copy"}

HandleOK(r, d, f, raced) ==
  /\ r.conn <=> r.pc \in Identified \cup {"install"}
  /\ r.healthy => r.pc = "open"
  /\ r.pc \in {"create", "connect_new"} => d.kind \in {"absent", "ours"} /\ ~Refused(d)
  /\ r.pc = "install" => d.kind = "ours" /\ ~Refused(d)
  /\ r.pc = "probe" => d.kind # "absent"
  /\ r.pc = "decide" =>
       /\ r.got.kind = d.kind /\ d.kind # "absent" /\ DbOK(r.got)
       /\ Refused(d) => Refused(r.got)
       /\ r.got.version = VERSION => d.version = VERSION
       /\ r.got.id # None /\ ~raced => r.got.id = d.id
  /\ (r.pc \in Backing /\ r.recovery = "none") \/ r.pc = "migrate" => d.kind = "ours" /\ ~Refused(d)
  /\ r.pc \in Identified \cup {"connect"} => Installed(d) /\ (~raced => r.id = d.id)
  /\ r.pc \in Identified \cup {"connect", "connect_new", "install"} => r.id # None
  /\ r.pc \in {"touch", "open"} => f.sidecar = r.id
  /\ r.recovery # "none" => r.pc \in Backing \cup {"envelope", "rename", "closed"}
  /\ r.pc \in {"envelope", "rename"} => r.next # "none"
  /\ r.pc = "closed" /\ r.recovery # "none" => f.envelope # "none" \/ f.tmp

(* Inside a query a flaw that was seen is still in the file.               *)
Flawed(rows) == \E k \in DOMAIN rows : Reasons(rows[k])
AskOK(a, rows) ==
  /\ DOMAIN a = DOMAIN NoAsk
  /\ a.pc \in {"none", "page", "drops", "scope"}
  /\ a.pc # "none" => a.result = "none" /\ (a.dirty => Flawed(rows))
  /\ a.pc \in {"drops", "scope"} => (Flawed(a.page) => Flawed(rows))
  /\ a.result = "COMPLETE" => ~a.dirty /\ ~Flawed(a.page)

(* Only the process that created the sidecar fills it.                     *)
FillOK ==
  \A p \in Procs : h[p].pc = "fill_id" =>
    files.sidecar = Torn /\ \A q \in Procs : h[q].pc = "fill_id" => q = p

IInv ==
  /\ db \in Db /\ DbOK(db) /\ SoundRows(db.rows)
  /\ files \in Files /\ used \in Used /\ h \in [Procs -> Handle]
  /\ DOMAIN ask = Procs
  /\ \A p \in Procs : HandleOK(h[p], db, files, used.raced) /\ AskOK(ask[p], db.rows)
  /\ FillOK

-----------------------------------------------------------------------------
(* What no step takes back.                                                *)

RowsKept(r1, r2) ==
  /\ Len(r2) >= Len(r1)
  /\ \A k \in DOMAIN r1 : r2[k] \in {r1[k], [r1[k] EXCEPT !.conflict = TRUE]}

DbKept(d1, d2, raced) ==
  /\ d2.kind = d1.kind \/ (d1.kind = "absent" /\ d2.kind = "ours")
  /\ d1.version = VERSION => d2.version = VERSION
  /\ ~Refused(d1) => ~Refused(d2)
  /\ ~raced /\ d1.id # None => d2.id = d1.id
  /\ RowsKept(d1.rows, d2.rows)
  /\ Refused(d1) => d2.bytes = d1.bytes

FilesKept(f1, f2) ==
  /\ f1.sidecar \notin {None, Torn} => f2.sidecar = f1.sidecar
  /\ f1.envelope # "none" \/ f1.tmp => f2.envelope # "none" \/ f2.tmp

Kept == DbKept(db, db', used'.raced) /\ FilesKept(files, files')

(* A later reader finds every row that was there, as flawed as it was.     *)
LEMMA RowsStay ==
  ASSUME NEW r1 \in Seq(Row), NEW r2 \in Seq(Row), RowsKept(r1, r2), Flawed(r1)
  PROVE  Flawed(r2)
<1>1. PICK k \in DOMAIN r1 : Reasons(r1[k]) BY DEF Flawed
<1>2. k \in DOMAIN r2 BY DEF RowsKept
<1>3. r1[k] \in Row OBVIOUS
<1>4. Reasons(r2[k])
  <2>1. CASE r2[k] = r1[k] BY <2>1, <1>1
  <2>2. CASE r2[k] = [r1[k] EXCEPT !.conflict = TRUE] BY <2>2, <1>3 DEF Reasons, Row
  <2> QED BY <2>1, <2>2 DEF RowsKept
<1> QED BY <1>2, <1>4 DEF Flawed

(* A database that is left alone is kept.                                  *)
LEMMA RowsSame ==
  ASSUME NEW r \in Seq(Row) PROVE RowsKept(r, r)
BY DEF RowsKept

(* What a process counts on survives the steps of the others.              *)
LEMMA HandleStays ==
  ASSUME NEW r \in Handle, NEW d1 \in Db, NEW d2 \in Db, NEW f1 \in Files, NEW f2 \in Files,
         NEW b1 \in BOOLEAN, NEW b2 \in BOOLEAN, b1 => b2,
         HandleOK(r, d1, f1, b1), DbKept(d1, d2, b2), FilesKept(f1, f2)
  PROVE  HandleOK(r, d2, f2, b2)
<1>1. r.pc \in Identified \cup {"connect"} => Installed(d2) /\ (~b2 => r.id = d2.id)
  BY DEF HandleOK, DbKept, Installed, Handle, Db
<1>2. r.pc = "decide" =>
        /\ r.got.kind = d2.kind /\ d2.kind # "absent" /\ DbOK(r.got)
        /\ Refused(d2) => Refused(r.got)
        /\ r.got.version = VERSION => d2.version = VERSION
        /\ r.got.id # None /\ ~b2 => r.got.id = d2.id
  BY DEF HandleOK, DbKept, Handle, Db
<1>3. /\ r.pc \in {"create", "connect_new"} => d2.kind \in {"absent", "ours"} /\ ~Refused(d2)
      /\ r.pc = "install" => d2.kind = "ours" /\ ~Refused(d2)
      /\ r.pc = "probe" => d2.kind # "absent"
      /\ (r.pc \in Backing /\ r.recovery = "none") \/ r.pc = "migrate" => d2.kind = "ours" /\ ~Refused(d2)
  BY DEF HandleOK, DbKept, Handle, Db
<1>4. r.pc \in {"touch", "open"} => f2.sidecar = r.id
  BY DEF HandleOK, FilesKept, Handle, Files, Identified, None, Torn
<1>5. r.pc = "closed" /\ r.recovery # "none" => f2.envelope # "none" \/ f2.tmp
  BY DEF HandleOK, FilesKept
<1> QED BY <1>1, <1>2, <1>3, <1>4, <1>5 DEF HandleOK

LEMMA AskStays ==
  ASSUME NEW a, NEW r1 \in Seq(Row), NEW r2 \in Seq(Row), RowsKept(r1, r2), AskOK(a, r1)
  PROVE  AskOK(a, r2)
<1>1. Flawed(r1) => Flawed(r2) BY RowsStay
<1> QED BY <1>1 DEF AskOK

(* One process's step, seen by all.                                        *)
LEMMA StepKeepsIInv ==
  ASSUME IInv, NEW p \in Procs,
         db' \in Db, DbOK(db'), SoundRows(db'.rows), files' \in Files, used' \in Used,
         DbKept(db, db', used'.raced), FilesKept(files, files'), used.raced => used'.raced,
         h' \in [Procs -> Handle], \A q \in Procs \ {p} : h'[q] = h[q],
         HandleOK(h'[p], db', files', used'.raced),
         DOMAIN ask' = Procs, \A q \in Procs \ {p} : ask'[q] = ask[q], AskOK(ask'[p], db'.rows),
         files'.sidecar = files.sidecar \/ h[p].pc = "fill_id" \/ files.sidecar # Torn,
         h'[p].pc = "fill_id" => files'.sidecar = Torn /\ (files.sidecar # Torn \/ h[p].pc = "fill_id")
  PROVE  IInv' /\ Kept
<1>3. \A q \in Procs : HandleOK(h'[q], db', files', used'.raced) /\ AskOK(ask'[q], db'.rows)
  <2> TAKE q \in Procs
  <2>1. CASE q = p BY <2>1
  <2>2. CASE q # p
    <3>1. h'[q] = h[q] /\ ask'[q] = ask[q] BY <2>2
    <3>2. h[q] \in Handle /\ HandleOK(h[q], db, files, used.raced) /\ AskOK(ask[q], db.rows) BY DEF IInv
    <3>3. used.raced \in BOOLEAN /\ used'.raced \in BOOLEAN BY DEF IInv, Used
    <3>4. db \in Db /\ files \in Files BY DEF IInv
    <3>5. HandleOK(h[q], db', files', used'.raced) BY <3>2, <3>3, <3>4, HandleStays
    <3>6. db.rows \in Seq(Row) /\ db'.rows \in Seq(Row) /\ RowsKept(db.rows, db'.rows) BY <3>4 DEF Db, DbKept
    <3>7. AskOK(ask[q], db'.rows) BY <3>2, <3>6, AskStays
    <3> QED BY <3>1, <3>5, <3>7
  <2> QED BY <2>1, <2>2
<1>4. FillOK'
  <2>1. \A q \in Procs : h[q].pc = "fill_id" => files.sidecar = Torn /\ \A s \in Procs : h[s].pc = "fill_id" => s = q
    BY DEF IInv, FillOK
  <2>2. \A q \in Procs : h'[q].pc = "fill_id" => files'.sidecar = Torn /\ \A s \in Procs : h'[s].pc = "fill_id" => s = q
    BY <2>1
  <2> QED BY <2>2 DEF FillOK
<1> QED BY <1>3, <1>4 DEF IInv, Kept

LEMMA DbSame ==
  ASSUME NEW d \in Db, NEW b \in BOOLEAN PROVE DbKept(d, d, b)
BY RowsSame DEF DbKept, Db

LEMMA FilesSame ==
  ASSUME NEW f \in Files PROVE FilesKept(f, f)
BY DEF FilesKept

(* A step of a handle alone.                                               *)
LEMMA HandleStep ==
  ASSUME IInv, NEW p \in Procs, UNCHANGED <<db, files, ask>>, used' \in Used, used'.raced = used.raced,
         NEW r \in Handle, Set(p, r), HandleOK(r, db, files, used.raced), r.pc # "fill_id"
  PROVE  IInv' /\ Kept
<1>1. db \in Db /\ files \in Files /\ used.raced \in BOOLEAN /\ h \in [Procs -> Handle] BY DEF IInv, Used
<1>2. DbKept(db, db', used'.raced) /\ FilesKept(files, files') BY <1>1, DbSame, FilesSame
<1>3. h' \in [Procs -> Handle] /\ h'[p] = r /\ \A q \in Procs \ {p} : h'[q] = h[q] BY <1>1 DEF Set
<1>4. DbOK(db') /\ SoundRows(db'.rows) /\ DOMAIN ask' = Procs /\ AskOK(ask'[p], db'.rows) BY DEF IInv
<1>5. HandleOK(h'[p], db', files', used'.raced) BY <1>3
<1> QED BY <1>1, <1>2, <1>3, <1>4, <1>5, StepKeepsIInv

(* A step of a handle and of the file, with the rows as they are.          *)
LEMMA DbStep ==
  ASSUME IInv, NEW p \in Procs, UNCHANGED <<files, ask>>, used' \in Used, used.raced => used'.raced,
         db' \in Db, DbOK(db'), db'.rows = db.rows, DbKept(db, db', used'.raced),
         NEW r \in Handle, Set(p, r), HandleOK(r, db', files, used'.raced), r.pc # "fill_id"
  PROVE  IInv' /\ Kept
<1>1. files \in Files /\ h \in [Procs -> Handle] BY DEF IInv
<1>2. FilesKept(files, files') BY <1>1, FilesSame
<1>3. h' \in [Procs -> Handle] /\ h'[p] = r /\ \A q \in Procs \ {p} : h'[q] = h[q] BY <1>1 DEF Set
<1>4. SoundRows(db'.rows) /\ DOMAIN ask' = Procs /\ AskOK(ask'[p], db'.rows) BY DEF IInv
<1>5. HandleOK(h'[p], db', files', used'.raced) BY <1>3
<1> QED BY <1>1, <1>2, <1>3, <1>4, <1>5, StepKeepsIInv

(* A step of a handle and of the directory.                                *)
LEMMA FilesStep ==
  ASSUME IInv, NEW p \in Procs, UNCHANGED <<db, ask, used>>,
         files' \in Files, FilesKept(files, files'),
         NEW r \in Handle, Set(p, r), HandleOK(r, db, files', used.raced),
         files'.sidecar = files.sidecar \/ h[p].pc = "fill_id" \/ files.sidecar # Torn,
         r.pc = "fill_id" => files'.sidecar = Torn /\ (files.sidecar # Torn \/ h[p].pc = "fill_id")
  PROVE  IInv' /\ Kept
<1>1. db \in Db /\ used \in Used /\ used.raced \in BOOLEAN /\ h \in [Procs -> Handle] BY DEF IInv, Used
<1>2. DbKept(db, db', used'.raced) BY <1>1, DbSame
<1>3. h' \in [Procs -> Handle] /\ h'[p] = r /\ \A q \in Procs \ {p} : h'[q] = h[q] BY <1>1 DEF Set
<1>4. DbOK(db') /\ SoundRows(db'.rows) /\ DOMAIN ask' = Procs /\ AskOK(ask'[p], db'.rows) BY DEF IInv
<1>5. HandleOK(h'[p], db', files', used'.raced) BY <1>3
<1> QED BY <1>1, <1>2, <1>3, <1>4, <1>5, StepKeepsIInv

(* A step of a query alone.                                                *)
LEMMA AskStep ==
  ASSUME IInv, NEW p \in Procs, UNCHANGED <<db, files, h>>, used' \in Used, used'.raced = used.raced,
         NEW a, Ask(p, a), AskOK(a, db.rows)
  PROVE  IInv' /\ Kept
<1>1. db \in Db /\ files \in Files /\ used.raced \in BOOLEAN /\ h \in [Procs -> Handle] BY DEF IInv, Used
<1>2. DbKept(db, db', used'.raced) /\ FilesKept(files, files') BY <1>1, DbSame, FilesSame
<1>3. DOMAIN ask' = Procs /\ ask'[p] = a /\ \A q \in Procs \ {p} : ask'[q] = ask[q] BY DEF IInv, Ask
<1>4. DbOK(db') /\ SoundRows(db'.rows) /\ HandleOK(h'[p], db', files', used'.raced) BY DEF IInv
<1>5. h'[p].pc = "fill_id" => files'.sidecar = Torn /\ h[p].pc = "fill_id" BY DEF IInv, FillOK
<1> QED BY <1>1, <1>2, <1>3, <1>4, <1>5, StepKeepsIInv

-----------------------------------------------------------------------------
(* The database under SQLite's own writes.                                 *)

LEMMA Rewritten ==
  ASSUME NEW d \in Db, DbOK(d), NEW e \in Db, NEW b \in BOOLEAN, ~Refused(d) \/ e.bytes = d.bytes,
         e.kind = d.kind, e.version = d.version, e.id = d.id, e.privacy = d.privacy, e.rows = d.rows
  PROVE  DbOK(e) /\ DbKept(d, e, b) /\ (Refused(d) <=> Refused(e))
<1>1. RowsKept(d.rows, e.rows) BY RowsSame DEF Db
<1>2. DbOK(e) /\ (Refused(d) <=> Refused(e)) BY DEF DbOK, Refused
<1> QED BY <1>1, <1>2 DEF DbKept

LEMMA WalKeeps ==
  ASSUME NEW d \in Db, DbOK(d), ~Refused(d), NEW b \in BOOLEAN, NEW e, e = journal_is_wal(d)
  PROVE  e \in Db /\ DbOK(e) /\ e.rows = d.rows /\ DbKept(d, e, b) /\ ~Refused(e)
         /\ e.kind = d.kind /\ e.version = d.version /\ e.id = d.id /\ e.privacy = d.privacy
<1>1. PICK n \in Nat : n = d.bytes + 1 BY DEF Db
<1>2. e = d \/ e = [d EXCEPT !.wal = TRUE, !.bytes = n] BY <1>1 DEF journal_is_wal
<1>3. /\ e \in Db /\ e.kind = d.kind /\ e.version = d.version /\ e.id = d.id /\ e.privacy = d.privacy
      /\ e.rows = d.rows
  BY <1>2 DEF Db
<1> QED BY <1>3, Rewritten

LEMMA CheckpointKeeps ==
  ASSUME NEW p, NEW d \in Db, DbOK(d), ~Refused(d), NEW b \in BOOLEAN, NEW e, e = Checkpoint(p, d)
  PROVE  e \in Db /\ DbOK(e) /\ e.rows = d.rows /\ DbKept(d, e, b) /\ ~Refused(e)
         /\ e.kind = d.kind /\ e.version = d.version /\ e.id = d.id /\ e.privacy = d.privacy
<1>1. PICK n \in Nat : n = d.bytes + 1 BY DEF Db
<1>2. e = d \/ e = [d EXCEPT !.frames = FALSE, !.bytes = n] BY <1>1 DEF Checkpoint
<1>3. /\ e \in Db /\ e.kind = d.kind /\ e.version = d.version /\ e.id = d.id /\ e.privacy = d.privacy
      /\ e.rows = d.rows
  BY <1>2 DEF Db
<1> QED BY <1>3, Rewritten

LEMMA InstallKeeps ==
  ASSUME NEW d \in Db, DbOK(d), ~Refused(d), d.kind = "ours", NEW id \in Nat, NEW b \in BOOLEAN,
         ~b => d.id = None, NEW e, e = install_schema(d, id)
  PROVE  e \in Db /\ DbOK(e) /\ e.rows = d.rows /\ DbKept(d, e, b) /\ Installed(e) /\ e.id = id
<1>1. e \in Db BY DEF install_schema, Db, VERSION, GENERATION, Kinds
<1>2. /\ e.kind = "ours" /\ e.version = VERSION /\ e.id = id /\ e.privacy = GENERATION
      /\ e.rows = d.rows /\ e.bytes = d.bytes
  BY DEF install_schema, Db
<1>3. RowsKept(d.rows, e.rows) BY <1>2, RowsSame DEF Db
<1>4. DbOK(e) /\ ~Refused(e) BY <1>2 DEF DbOK, Refused, VERSION, GENERATION
<1> QED BY <1>1, <1>2, <1>3, <1>4 DEF DbKept, Installed

-----------------------------------------------------------------------------
(* The ways an open ends.                                                  *)

LEMMA StoppedOK ==
  ASSUME NEW r0 \in Handle, r0.recovery = "none", ~r0.healthy, NEW c \in Codes,
         NEW d, NEW f, NEW b, NEW r, r = [r0 EXCEPT !.pc = "closed", !.reason = c, !.conn = FALSE]
  PROVE  r \in Handle /\ HandleOK(r, d, f, b) /\ r.pc # "fill_id"
<1>1. r \in Handle BY DEF Handle, Pcs
<1>2. r.pc = "closed" /\ r.conn = FALSE /\ r.recovery = "none" /\ r.healthy = r0.healthy BY DEF Handle
<1> QED BY <1>1, <1>2 DEF HandleOK, Identified, Backing

LEMMA DiscloseOK ==
  ASSUME NEW r0 \in Handle, ~r0.healthy, NEW state \in Envelopes, state # "none", NEW code \in Codes,
         NEW kept \in BOOLEAN, NEW d, NEW f, NEW b, NEW r,
         r = [r0 EXCEPT !.pc = "envelope", !.recovery = state, !.next = state, !.reason = code,
                        !.preserved = kept, !.conn = FALSE]
  PROVE  r \in Handle /\ HandleOK(r, d, f, b) /\ r.pc # "fill_id"
<1>1. r \in Handle BY DEF Handle, Pcs
<1>2. r.pc = "envelope" /\ r.conn = FALSE /\ r.next = state /\ r.healthy = r0.healthy BY DEF Handle
<1> QED BY <1>1, <1>2 DEF HandleOK, Identified, Backing

(* What every step may start from.                                         *)
LEMMA Start ==
  ASSUME IInv, NEW p \in Procs
  PROVE  /\ db \in Db /\ DbOK(db) /\ files \in Files /\ used \in Used /\ used.raced \in BOOLEAN
         /\ h \in [Procs -> Handle] /\ h[p] \in Handle /\ HandleOK(h[p], db, files, used.raced)
         /\ AskOK(ask[p], db.rows) /\ db.rows \in Seq(Row)
BY DEF IInv, Used, Db

LEMMA OpenStoreKeeps ==
  ASSUME IInv, NEW p \in Procs, NEW create \in BOOLEAN, NEW sql \in BOOLEAN, NEW gen \in Generations,
         open_store(p, create, gen, sql)
  PROVE  IInv' /\ Kept
<1>1. PICK n \in Nat : n = used.opens + 1 BY Start DEF Used
<1>2. used' = [used EXCEPT !.opens = n] BY <1>1 DEF open_store
<1>3. used' \in Used /\ used'.raced = used.raced BY <1>2, Start DEF Used
<1> DEFINE r == [NoHandle EXCEPT !.create = create, !.gen = gen, !.pc = IF sql THEN "closed" ELSE "locate",
                                 !.reason = IF sql THEN "SQL_REJECTED" ELSE "none"]
<1>4. Set(p, r) BY DEF open_store
<1>5. gen \in 0..GENERATION BY StoreAssumption
<1>6. r \in Handle
  <2>1. NoDb \in Db BY DEF NoDb, Db, Kinds, None
  <2> QED BY <1>5, <2>1 DEF NoHandle, Handle, Pcs, Codes, Envelopes, None
<1>7. r.pc \in {"closed", "locate"} /\ r.conn = FALSE /\ r.healthy = FALSE /\ r.recovery = "none" BY DEF NoHandle
<1>8. HandleOK(r, db, files, used.raced) BY <1>7 DEF HandleOK, Identified, Backing
<1>9. UNCHANGED <<db, files, ask>> BY DEF open_store
<1>10. r.pc # "fill_id" BY <1>7
<1> HIDE DEF r
<1> QED BY <1>3, <1>4, <1>6, <1>8, <1>9, <1>10, HandleStep

LEMMA LocateKeeps ==
  ASSUME IInv, NEW p \in Procs, open_located_store(p)
  PROVE  IInv' /\ Kept
<1>1. /\ UNCHANGED <<db, files, ask>> /\ used' \in Used /\ used'.raced = used.raced
      /\ h[p].pc = "locate" /\ h[p].recovery = "none" /\ ~h[p].healthy /\ h[p].conn = FALSE
      /\ h[p] \in Handle
  BY Start DEF open_located_store, Rest, HandleOK, Backing, Identified, Handle
<1>2. CASE files.mode = "symlink"
  <2>1. Stopped(p, "SYMLINK_REFUSED") BY <1>2 DEF open_located_store
  <2> QED BY <2>1, <1>1, StoppedOK, HandleStep DEF Stopped, Codes
<1>3. CASE files.mode \in {"denied", "unreadable"}
  <2>1. Disclose(p, "STOPPED_PRESERVED", "INTEGRITY_FAILED", FALSE) BY <1>3 DEF open_located_store
  <2> QED BY <2>1, <1>1, DiscloseOK, HandleStep DEF Disclose, Codes, Envelopes
<1>4. CASE files.mode = "clear" /\ db.kind = "absent"
  <2>1. CASE h[p].create
    <3> DEFINE r == [h[p] EXCEPT !.pc = "create"]
    <3>1. Set(p, r) BY <1>4, <2>1 DEF open_located_store, Go
    <3>2. r \in Handle /\ r.pc # "fill_id" BY <1>1 DEF Handle, Pcs
    <3>3. r.pc = "create" /\ r.conn = FALSE /\ r.recovery = "none" /\ ~r.healthy BY <1>1 DEF Handle
    <3>4. ~Refused(db) BY <1>4, Start DEF DbOK, Refused, VERSION, GENERATION
    <3>5. HandleOK(r, db, files, used.raced) BY <3>3, <3>4, <1>4 DEF HandleOK, Backing, Identified
    <3> QED BY <3>1, <3>2, <3>5, <1>1, HandleStep
  <2>2. CASE ~h[p].create
    <3>1. Stopped(p, "STORE_ABSENT") BY <1>4, <2>2 DEF open_located_store
    <3> QED BY <3>1, <1>1, StoppedOK, HandleStep DEF Stopped, Codes
  <2> QED BY <2>1, <2>2
<1>5. CASE files.mode = "clear" /\ db.kind # "absent"
  <2> DEFINE r == [h[p] EXCEPT !.pc = "probe", !.before = db.bytes]
  <2>1. Set(p, r) BY <1>5 DEF open_located_store
  <2>2. r \in Handle /\ r.pc # "fill_id" BY <1>1, Start DEF Handle, Pcs, Db
  <2>3. r.pc = "probe" /\ r.conn = FALSE /\ r.recovery = "none" /\ ~r.healthy BY <1>1 DEF Handle
  <2>5. HandleOK(r, db, files, used.raced) BY <2>3, <1>5 DEF HandleOK, Backing, Identified
  <2> QED BY <2>1, <2>2, <2>5, <1>1, HandleStep
<1> QED BY <1>2, <1>3, <1>4, <1>5, Start DEF Files

LEMMA CreateStoreKeeps ==
  ASSUME IInv, NEW p \in Procs, create_store(p)
  PROVE  IInv' /\ Kept
<1>1. /\ UNCHANGED <<db, files, ask>> /\ h[p].pc = "create" /\ h[p].recovery = "none" /\ ~h[p].healthy
      /\ h[p].conn = FALSE /\ h[p] \in Handle /\ used \in Used
  BY Start DEF create_store, HandleOK, Backing, Identified, Handle
<1>2. CASE db.kind # "absent"
  <2>1. Stopped(p, "STORE_UNAVAILABLE") /\ used' = used BY <1>2 DEF create_store
  <2> QED BY <2>1, <1>1, StoppedOK, HandleStep DEF Stopped, Codes
<1>3. CASE db.kind = "absent"
  <2>1. PICK n \in Nat : n = NewId BY Start DEF Used, NewId
  <2>2. n # None BY <2>1, Start DEF Used, NewId, None
  <2> DEFINE r == [h[p] EXCEPT !.pc = "connect_new", !.id = n]
  <2>3. Set(p, r) /\ used' = [used EXCEPT !.ids = n] BY <1>3, <2>1 DEF create_store
  <2>4. used' \in Used /\ used'.raced = used.raced BY <2>3, <1>1 DEF Used
  <2>5. r \in Handle /\ r.pc # "fill_id" BY <1>1 DEF Handle, Pcs
  <2>6. r.pc = "connect_new" /\ r.conn = FALSE /\ r.recovery = "none" /\ ~r.healthy /\ r.id = n BY <1>1 DEF Handle
  <2>7. ~Refused(db) BY <1>3, Start DEF DbOK, Refused, VERSION, GENERATION
  <2>8. HandleOK(r, db, files, used.raced) BY <2>2, <2>6, <2>7, <1>3 DEF HandleOK, Backing, Identified
  <2> QED BY <2>3, <2>4, <2>5, <2>8, <1>1, HandleStep
<1> QED BY <1>2, <1>3

LEMMA ConnectNewKeeps ==
  ASSUME IInv, NEW p \in Procs, connect_new(p)
  PROVE  IInv' /\ Kept
<1>1. /\ UNCHANGED <<files, ask, used>> /\ h[p].pc = "connect_new" /\ h[p].recovery = "none" /\ ~h[p].healthy
      /\ h[p] \in Handle /\ h[p].id # None /\ ~Refused(db) /\ db.kind \in {"absent", "ours"}
  BY Start DEF connect_new, Rest, HandleOK, Backing, Identified, Handle
<1>2. /\ db' \in Db /\ db'.rows = db.rows /\ db'.kind = "ours" /\ db'.version = db.version
      /\ db'.id = db.id /\ db'.privacy = db.privacy
  BY <1>1, Start DEF connect_new, Db, Kinds
<1>3. DbOK(db') /\ ~Refused(db') BY <1>1, <1>2, Start DEF DbOK, Refused
<1>4. DbKept(db, db', used'.raced)
  <2>1. RowsKept(db.rows, db'.rows) BY <1>2, Start, RowsSame
  <2> QED BY <1>1, <1>2, <1>3, <2>1 DEF DbKept
<1> DEFINE r == [h[p] EXCEPT !.pc = "install", !.conn = TRUE]
<1>5. Set(p, r) BY DEF connect_new
<1>6. r \in Handle /\ r.pc # "fill_id" BY <1>1 DEF Handle, Pcs
<1>7. r.pc = "install" /\ r.conn = TRUE /\ r.recovery = "none" /\ ~r.healthy /\ r.id = h[p].id BY <1>1 DEF Handle
<1>8. HandleOK(r, db', files, used'.raced) BY <1>1, <1>2, <1>3, <1>7 DEF HandleOK, Backing, Identified
<1>9. used' \in Used /\ (used.raced => used'.raced) BY <1>1, Start
<1> HIDE DEF r
<1> QED BY <1>1, <1>2, <1>3, <1>4, <1>5, <1>6, <1>8, <1>9, DbStep

(* A schema is installed by one transaction after the switch to WAL.       *)
LEMMA SchemaInstalled ==
  ASSUME NEW d \in Db, DbOK(d), ~Refused(d), d.kind = "ours", NEW id \in Nat, NEW b \in BOOLEAN,
         ~b => d.id = None, NEW e, e = install_schema(journal_is_wal(d), id)
  PROVE  e \in Db /\ DbOK(e) /\ e.rows = d.rows /\ DbKept(d, e, b) /\ Installed(e) /\ e.id = id
<1>1. PICK w : w = journal_is_wal(d) OBVIOUS
<1>2. /\ w \in Db /\ DbOK(w) /\ ~Refused(w) /\ w.kind = "ours" /\ w.rows = d.rows /\ w.id = d.id
  BY <1>1, WalKeeps
<1>3. e \in Db /\ DbOK(e) /\ e.rows = w.rows /\ Installed(e) /\ e.id = id BY <1>1, <1>2, InstallKeeps
<1>4. RowsKept(d.rows, e.rows) BY <1>2, <1>3, RowsSame DEF Db
<1>5. DbKept(d, e, b) BY <1>2, <1>3, <1>4 DEF DbKept, Installed
<1> QED BY <1>2, <1>3, <1>5

LEMMA InstallNewKeeps ==
  ASSUME IInv, NEW p \in Procs, install_new(p)
  PROVE  IInv' /\ Kept
<1>1. /\ UNCHANGED <<files, ask>> /\ h[p].pc = "install" /\ h[p].recovery = "none" /\ ~h[p].healthy
      /\ h[p] \in Handle /\ h[p].id # None /\ ~Refused(db) /\ db.kind = "ours" /\ h[p].conn /\ h[p].id \in Nat
  BY Start DEF install_new, HandleOK, Backing, Identified, Handle
<1>2. db \in Db /\ DbOK(db) /\ used \in Used BY Start
<1>3. CASE /\ db' = install_schema(journal_is_wal(db), h[p].id) /\ Go(p, "check_id")
           /\ used' = [used EXCEPT !.raced = @ \/ db.id # None]
  <2>1. used' \in Used /\ (used.raced => used'.raced) /\ (~used'.raced => db.id = None) /\ used'.raced \in BOOLEAN
    BY <1>2, <1>3 DEF Used
  <2>2. /\ db' \in Db /\ DbOK(db') /\ db'.rows = db.rows /\ DbKept(db, db', used'.raced) /\ Installed(db')
        /\ db'.id = h[p].id
    <3>1. PICK i \in Nat : i = h[p].id BY <1>1
    <3>2. db' = install_schema(journal_is_wal(db), i) BY <3>1, <1>3
    <3> QED BY <3>1, <3>2, <1>1, <1>2, <2>1, SchemaInstalled
  <2> DEFINE r == [h[p] EXCEPT !.pc = "check_id"]
  <2>3. Set(p, r) BY <1>3 DEF Go
  <2>4. r \in Handle /\ r.pc # "fill_id" BY <1>1 DEF Handle, Pcs
  <2>5. r.pc = "check_id" /\ r.conn /\ r.recovery = "none" /\ ~r.healthy /\ r.id = h[p].id BY <1>1 DEF Handle
  <2>6. HandleOK(r, db', files, used'.raced) BY <1>1, <2>2, <2>5 DEF HandleOK, Backing, Identified
  <2> HIDE DEF r
  <2> QED BY <1>1, <2>1, <2>2, <2>3, <2>4, <2>6, DbStep
<1>4. CASE Stopped(p, "STORE_UNAVAILABLE") /\ db' = Checkpoint(p, db) /\ UNCHANGED used
  <2>1. used' \in Used /\ used.raced = used'.raced /\ used'.raced \in BOOLEAN BY <1>2, <1>4 DEF Used
  <2>2. db' \in Db /\ DbOK(db') /\ db'.rows = db.rows /\ DbKept(db, db', used'.raced)
    BY <1>1, <1>2, <1>4, <2>1, CheckpointKeeps
  <2> DEFINE r == [h[p] EXCEPT !.pc = "closed", !.reason = "STORE_UNAVAILABLE", !.conn = FALSE]
  <2>3. Set(p, r) BY <1>4 DEF Stopped
  <2>4. r \in Handle /\ r.pc # "fill_id" /\ HandleOK(r, db', files, used'.raced) BY <1>1, StoppedOK DEF Codes
  <2> HIDE DEF r
  <2> QED BY <1>1, <2>1, <2>2, <2>3, <2>4, DbStep
<1> QED BY <1>3, <1>4 DEF install_new

-----------------------------------------------------------------------------
(* The sidecar.                                                            *)

(* The handle that has its id goes on, with nothing else changed.          *)
LEMMA AfterIdOK ==
  ASSUME NEW r0 \in Handle, r0.pc \in Identified, ~r0.healthy, NEW d, NEW f, NEW b, HandleOK(r0, d, f, b),
         f.sidecar = r0.id,
         NEW r, r = [r0 EXCEPT !.pc = "touch"] \/ r = [r0 EXCEPT !.pc = "open", !.healthy = TRUE, !.reason = "OK"]
  PROVE  r \in Handle /\ HandleOK(r, d, f, b) /\ r.pc # "fill_id"
<1>1. r \in Handle /\ r.pc \in {"touch", "open"} /\ r.conn = r0.conn /\ r.recovery = r0.recovery /\ r.id = r0.id
      /\ (r.healthy => r.pc = "open")
  <2>1. CASE r = [r0 EXCEPT !.pc = "open", !.healthy = TRUE, !.reason = "OK"] BY <2>1 DEF Handle, Pcs, Codes
  <2>2. CASE r = [r0 EXCEPT !.pc = "touch"] BY <2>2 DEF Handle, Pcs
  <2> QED BY <2>1, <2>2
<1> QED BY <1>1 DEF HandleOK, Backing, Identified

LEMMA WriteStoreIdKeeps ==
  ASSUME IInv, NEW p \in Procs, write_store_id(p)
  PROVE  IInv' /\ Kept
<1>1. /\ UNCHANGED <<files, ask, used>> /\ h[p].pc = "check_id" /\ h[p].recovery = "none" /\ ~h[p].healthy
      /\ h[p] \in Handle /\ h[p].id # None /\ ~Refused(db) /\ h[p].conn
      /\ HandleOK(h[p], db, files, used.raced)
  BY Start DEF write_store_id, Rest, HandleOK, Backing, Identified, Handle, Installed
<1>2. db \in Db /\ DbOK(db) /\ used \in Used /\ used.raced \in BOOLEAN BY Start
<1>3. used' \in Used /\ used'.raced = used.raced BY <1>1, <1>2
<1>4. CASE files.sidecar = None
  <2> DEFINE r == [h[p] EXCEPT !.pc = "create_id"]
  <2>1. Set(p, r) /\ db' = db BY <1>1, <1>4 DEF write_store_id, Go
  <2>2. r \in Handle /\ r.pc # "fill_id" BY <1>1 DEF Handle, Pcs
  <2>3. r.pc = "create_id" /\ r.conn = h[p].conn /\ r.recovery = "none" /\ ~r.healthy /\ r.id = h[p].id BY <1>1 DEF Handle
  <2>4. HandleOK(r, db, files, used.raced) BY <1>1, <2>3 DEF HandleOK, Backing, Identified
  <2> HIDE DEF r
  <2> QED BY <1>1, <1>3, <2>1, <2>2, <2>4, HandleStep
<1>5. CASE files.sidecar = h[p].id
  <2>1. AfterId(p) /\ db' = db BY <1>1, <1>5 DEF write_store_id
  <2>2. PICK r : Set(p, r) /\ (r = [h[p] EXCEPT !.pc = "touch"] \/ r = [h[p] EXCEPT !.pc = "open", !.healthy = TRUE, !.reason = "OK"])
    BY <2>1 DEF AfterId, Go, Opened
  <2>3. h[p].pc \in Identified BY <1>1 DEF Identified
  <2>4. r \in Handle /\ HandleOK(r, db, files, used.raced) /\ r.pc # "fill_id"
    BY <1>1, <1>5, <2>2, <2>3, AfterIdOK
  <2> QED BY <1>1, <1>3, <2>1, <2>2, <2>4, HandleStep
<1>6. CASE files.sidecar # None /\ files.sidecar # h[p].id
  <2>1. WriteFailed(p) /\ db' = Checkpoint(p, db) BY <1>6 DEF write_store_id
  <2>2. db' \in Db /\ DbOK(db') /\ db'.rows = db.rows /\ DbKept(db, db', used'.raced)
    BY <1>1, <1>2, <2>1, <1>3, CheckpointKeeps
  <2>3. CASE Stopped(p, "STORE_UNAVAILABLE")
    <3> DEFINE r == [h[p] EXCEPT !.pc = "closed", !.reason = "STORE_UNAVAILABLE", !.conn = FALSE]
    <3>1. Set(p, r) BY <2>3 DEF Stopped
    <3>2. r \in Handle /\ r.pc # "fill_id" /\ HandleOK(r, db', files, used'.raced) BY <1>1, StoppedOK DEF Codes
    <3> HIDE DEF r
    <3> QED BY <1>1, <1>3, <2>2, <3>1, <3>2, DbStep
  <2>4. CASE Disclose(p, "RECOVERY_REQUIRED", "MIGRATION_FAILED", Checkpoint(p, db).bytes = h[p].before)
    <3>1. PICK b \in BOOLEAN : b = (Checkpoint(p, db).bytes = h[p].before) OBVIOUS
    <3> DEFINE r == [h[p] EXCEPT !.pc = "envelope", !.recovery = "RECOVERY_REQUIRED", !.next = "RECOVERY_REQUIRED",
                                 !.reason = "MIGRATION_FAILED", !.preserved = b, !.conn = FALSE]
    <3>2. Set(p, r) BY <2>4, <3>1 DEF Disclose
    <3>3. "RECOVERY_REQUIRED" \in Envelopes /\ "MIGRATION_FAILED" \in Codes BY DEF Codes, Envelopes
    <3>4. r \in Handle /\ r.pc # "fill_id" /\ HandleOK(r, db', files, used'.raced)
      BY <1>1, <3>3, DiscloseOK
    <3> HIDE DEF r
    <3> QED BY <1>1, <1>3, <2>2, <3>2, <3>4, DbStep
  <2> QED BY <2>1, <2>3, <2>4 DEF WriteFailed
<1> QED BY <1>4, <1>5, <1>6

LEMMA CreateIdKeeps ==
  ASSUME IInv, NEW p \in Procs, create_id(p)
  PROVE  IInv' /\ Kept
<1>1. /\ ask' = ask /\ h[p].pc = "create_id" /\ h[p].recovery = "none" /\ ~h[p].healthy
      /\ h[p] \in Handle /\ h[p].id # None /\ ~Refused(db) /\ h[p].conn
      /\ HandleOK(h[p], db, files, used.raced)
  BY Start DEF create_id, HandleOK, Backing, Identified, Handle, Installed
<1>2. db \in Db /\ DbOK(db) /\ used \in Used /\ used.raced \in BOOLEAN /\ files \in Files BY Start
<1>3. CASE files.sidecar = None
  <2> DEFINE r == [h[p] EXCEPT !.pc = "fill_id"]
  <2>1. Set(p, r) /\ UNCHANGED <<db, used>> /\ files' = [files EXCEPT !.sidecar = Torn] BY <1>3 DEF create_id, Go
  <2>2. r \in Handle BY <1>1 DEF Handle, Pcs
  <2>3. r.pc = "fill_id" /\ r.conn = h[p].conn /\ r.recovery = "none" /\ ~r.healthy /\ r.id = h[p].id BY <1>1 DEF Handle
  <2>4. files' \in Files /\ files'.sidecar = Torn /\ FilesKept(files, files') BY <1>2, <1>3, <2>1 DEF Files, FilesKept
  <2>5. HandleOK(r, db, files', used.raced) BY <1>1, <2>3 DEF HandleOK, Backing, Identified
  <2>6. files.sidecar # Torn BY <1>3 DEF None, Torn
  <2> HIDE DEF r
  <2> QED BY <1>1, <2>1, <2>2, <2>4, <2>5, <2>6, FilesStep
<1>4. CASE files.sidecar # None
  <2>1. /\ Stopped(p, "RAISED") /\ db' = Checkpoint(p, db) /\ files' = files
        /\ used' = [used EXCEPT !.raised = TRUE]
    BY <1>4 DEF create_id
  <2>2. used' \in Used /\ used'.raced = used.raced BY <1>2, <2>1 DEF Used
  <2>3. db' \in Db /\ DbOK(db') /\ db'.rows = db.rows /\ DbKept(db, db', used'.raced)
    BY <1>1, <1>2, <2>1, <2>2, CheckpointKeeps
  <2> DEFINE r == [h[p] EXCEPT !.pc = "closed", !.reason = "RAISED", !.conn = FALSE]
  <2>4. Set(p, r) BY <2>1 DEF Stopped
  <2>5. r \in Handle /\ r.pc # "fill_id" /\ HandleOK(r, db', files, used'.raced) BY <1>1, StoppedOK DEF Codes
  <2> HIDE DEF r
  <2> QED BY <1>1, <2>1, <2>2, <2>3, <2>4, <2>5, DbStep
<1> QED BY <1>3, <1>4

LEMMA FillIdKeeps ==
  ASSUME IInv, NEW p \in Procs, fill_id(p)
  PROVE  IInv' /\ Kept
<1>1. /\ UNCHANGED <<db, ask, used>> /\ h[p].pc = "fill_id" /\ ~h[p].healthy
      /\ h[p] \in Handle /\ h[p].id # None /\ HandleOK(h[p], db, files, used.raced)
      /\ files' = [files EXCEPT !.sidecar = h[p].id]
  BY Start DEF fill_id, Rest, HandleOK, Backing, Identified, Handle
<1>2. files \in Files /\ files.sidecar = Torn BY <1>1 DEF IInv, FillOK
<1>3. PICK i \in Nat : i = h[p].id BY <1>1 DEF Handle
<1>4. files' \in Files /\ files'.sidecar = h[p].id /\ FilesKept(files, files')
  BY <1>1, <1>2, <1>3 DEF Files, FilesKept
<1>5. HandleOK(h[p], db, files', used.raced) BY <1>1 DEF HandleOK
<1>6. PICK r : Set(p, r) /\ (r = [h[p] EXCEPT !.pc = "touch"] \/ r = [h[p] EXCEPT !.pc = "open", !.healthy = TRUE, !.reason = "OK"])
  BY DEF fill_id, AfterId, Go, Opened
<1>7. h[p].pc \in Identified BY <1>1 DEF Identified
<1>8. r \in Handle /\ HandleOK(r, db, files', used.raced) /\ r.pc # "fill_id"
  BY <1>1, <1>4, <1>5, <1>6, <1>7, AfterIdOK
<1> QED BY <1>1, <1>4, <1>6, <1>8, FilesStep

-----------------------------------------------------------------------------
(* An existing store.                                                      *)

LEMMA ProbeKeeps ==
  ASSUME IInv, NEW p \in Procs, probe_store(p)
  PROVE  IInv' /\ Kept
<1>1. /\ UNCHANGED <<db, files, ask, used>> /\ h[p].pc = "probe" /\ h[p].recovery = "none" /\ ~h[p].healthy
      /\ h[p].conn = FALSE /\ h[p] \in Handle /\ db.kind # "absent" /\ db \in Db /\ DbOK(db) /\ used \in Used
  BY Start DEF probe_store, Rest, HandleOK, Backing, Identified, Handle
<1>2. PICK g : g = [db EXCEPT !.rows = <<>>] OBVIOUS
<1>3. g \in Db /\ g.kind = db.kind /\ g.version = db.version /\ g.id = db.id /\ g.privacy = db.privacy
  <2>1. <<>> \in Seq(Row) OBVIOUS
  <2>2. PICK e \in Seq(Row) : g = [db EXCEPT !.rows = e] BY <1>2, <2>1
  <2> QED BY <1>1, <2>2 DEF Db
<1>4. DbOK(g) /\ (Refused(db) => Refused(g)) BY <1>1, <1>3 DEF DbOK, Refused
<1> DEFINE r == [h[p] EXCEPT !.pc = "decide", !.got = g]
<1>5. Set(p, r) BY <1>2 DEF probe_store
<1>6. r \in Handle /\ r.pc # "fill_id" BY <1>1, <1>3 DEF Handle, Pcs
<1>7. r.pc = "decide" /\ r.conn = FALSE /\ r.recovery = "none" /\ ~r.healthy /\ r.got = g BY <1>1 DEF Handle
<1>8. HandleOK(r, db, files, used.raced) BY <1>1, <1>3, <1>4, <1>7 DEF HandleOK, Backing, Identified
<1> HIDE DEF r
<1> QED BY <1>1, <1>5, <1>6, <1>8, HandleStep

LEMMA ReadIdType ==
  ASSUME files \in Files PROVE ReadId \in Nat
BY DEF ReadId, Files, None, Torn

(* A refusal goes by the backup to the envelope.                           *)
LEMMA StopOK ==
  ASSUME NEW r0 \in Handle, r0.pc = "decide", ~r0.healthy, r0.conn = FALSE, NEW i \in Nat, NEW d, NEW f, NEW b,
         NEW r, r = [r0 EXCEPT !.pc = "backup", !.sidecar = i, !.recovery = "RECOVERY_REQUIRED", !.reason = "MIGRATION_FAILED"]
  PROVE  r \in Handle /\ HandleOK(r, d, f, b) /\ r.pc # "fill_id"
<1>1. r \in Handle BY DEF Handle, Pcs, Codes, Envelopes
<1>2. r.pc = "backup" /\ r.conn = FALSE /\ ~r.healthy /\ r.recovery = "RECOVERY_REQUIRED" BY DEF Handle
<1> QED BY <1>1, <1>2 DEF HandleOK, Backing, Identified

LEMMA OpenExistingKeeps ==
  ASSUME IInv, NEW p \in Procs, open_existing(p)
  PROVE  IInv' /\ Kept
<1>1. /\ UNCHANGED <<db, files, ask, used>> /\ h[p].pc = "decide" /\ h[p].recovery = "none" /\ ~h[p].healthy
      /\ h[p].conn = FALSE /\ h[p] \in Handle /\ used \in Used /\ used' \in Used /\ used'.raced = used.raced
  BY Start DEF open_existing, Rest, HandleOK, Backing, Identified, Handle
<1> DEFINE d == h[p].got
<1>2. /\ d.kind = db.kind /\ d.kind # "absent" /\ DbOK(d) /\ (Refused(db) => Refused(d))
      /\ (d.version = VERSION => db.version = VERSION) /\ (d.id # None /\ ~used.raced => d.id = db.id)
      /\ d \in Db /\ h[p].gen \in 0..GENERATION
  BY <1>1, Start DEF HandleOK, Handle
<1>3. PICK i \in Nat : i = ReadId BY Start, ReadIdType
<1>4. ASSUME NEW state \in Envelopes, state # "none", NEW code \in Codes, Disclose(p, state, code, TRUE) PROVE IInv' /\ Kept
  <2>1. PICK r : /\ r = [h[p] EXCEPT !.pc = "envelope", !.recovery = state, !.next = state, !.reason = code,
                                     !.preserved = TRUE, !.conn = FALSE]
                 /\ Set(p, r)
    BY <1>4 DEF Disclose
  <2>2. r \in Handle /\ HandleOK(r, db, files, used.raced) /\ r.pc # "fill_id" BY <1>1, <2>1, <1>4, DiscloseOK
  <2> QED BY <1>1, <2>1, <2>2, HandleStep
<1>5. ASSUME NEW r, Set(p, r), r = [h[p] EXCEPT !.pc = "backup", !.sidecar = i, !.recovery = "RECOVERY_REQUIRED",
                                                !.reason = "MIGRATION_FAILED"]
      PROVE IInv' /\ Kept
  <2>1. r \in Handle /\ HandleOK(r, db, files, used.raced) /\ r.pc # "fill_id" BY <1>1, <1>3, <1>5, StopOK
  <2> QED BY <1>1, <1>5, <2>1, HandleStep
<1>6. "STOPPED_PRESERVED" \in Envelopes /\ "RECOVERY_REQUIRED" \in Envelopes /\ "INTEGRITY_FAILED" \in Codes
      /\ "NEWER_SCHEMA_REFUSED" \in Codes /\ "WEAKER_WRITER_REFUSED" \in Codes /\ "BYTES_CHANGED" \in Codes
  BY DEF Envelopes, Codes
<1>7. CASE db.bytes # h[p].before
  <2>1. PICK r : r = [h[p] EXCEPT !.pc = "closed", !.reason = "BYTES_CHANGED", !.conn = FALSE] /\ Set(p, r)
    BY <1>7 DEF open_existing, Stopped
  <2>2. r \in Handle /\ HandleOK(r, db, files, used.raced) /\ r.pc # "fill_id" BY <1>1, <1>6, <2>1, StoppedOK
  <2> QED BY <1>1, <2>1, <2>2, HandleStep
<1>8. CASE db.bytes = h[p].before /\ d.kind = "corrupt"
  <2>1. Disclose(p, "STOPPED_PRESERVED", "INTEGRITY_FAILED", TRUE) BY <1>8 DEF open_existing, integrity_ok
  <2> QED BY <2>1, <1>4, <1>6
<1>9. CASE db.bytes = h[p].before /\ d.kind = "foreign"
  <2>1. Set(p, [h[p] EXCEPT !.pc = "backup", !.sidecar = i, !.recovery = "RECOVERY_REQUIRED", !.reason = "MIGRATION_FAILED"])
    BY <1>3, <1>9 DEF open_existing, integrity_ok, Foreign
  <2> QED BY <2>1, <1>5
<1>10. CASE db.bytes = h[p].before /\ d.kind = "ours" /\ d.version > VERSION
  <2>1. ~(d.version < VERSION) BY <1>2, <1>10 DEF Db, VERSION
  <2>2. Disclose(p, "RECOVERY_REQUIRED", "NEWER_SCHEMA_REFUSED", TRUE)
    BY <1>10, <2>1 DEF open_existing, integrity_ok, Foreign, NeedsMigration
  <2> QED BY <2>2, <1>4, <1>6
<1>11. CASE db.bytes = h[p].before /\ d.kind = "ours" /\ d.version < VERSION
  <2>1. ~(d.version > VERSION) BY <1>2, <1>11 DEF Db, VERSION
  <2>2. PICK r : r = [h[p] EXCEPT !.pc = "backup", !.sidecar = i, !.recovery = "none"] /\ Set(p, r)
    BY <2>1, <1>3, <1>11 DEF open_existing, integrity_ok, Foreign, NeedsMigration
  <2>3. r \in Handle BY <2>2, <1>1 DEF Handle, Pcs, Envelopes
  <2>4. r.pc = "backup" /\ r.conn = FALSE /\ ~r.healthy /\ r.recovery = "none" BY <2>2, <1>1 DEF Handle
  <2>5. ~Refused(d) BY <1>2, <1>11 DEF Refused, DbOK, VERSION, GENERATION, Db
  <2>6. HandleOK(r, db, files, used.raced) BY <2>4, <2>5, <1>2, <1>11 DEF HandleOK, Backing, Identified
  <2> QED BY <1>1, <2>2, <2>3, <2>4, <2>6, HandleStep
<1>12. CASE db.bytes = h[p].before /\ d.kind = "ours" /\ d.version = VERSION
  <2>1. ~(d.version > VERSION) /\ ~(d.version < VERSION) BY <1>2, <1>12 DEF Db, VERSION
  <2>2. CASE h[p].gen < d.privacy
    <3>1. Disclose(p, "RECOVERY_REQUIRED", "WEAKER_WRITER_REFUSED", TRUE)
      BY <1>12, <2>1, <2>2 DEF open_existing, integrity_ok, Foreign, NeedsMigration
    <3> QED BY <3>1, <1>4, <1>6
  <2>3. CASE ~(h[p].gen < d.privacy) /\ (d.id = None \/ ReadId \notin {None, d.id})
    <3>1. Set(p, [h[p] EXCEPT !.pc = "backup", !.sidecar = i, !.recovery = "RECOVERY_REQUIRED", !.reason = "MIGRATION_FAILED"])
      BY <1>3, <1>12, <2>1, <2>3 DEF open_existing, integrity_ok, Foreign, NeedsMigration
    <3> QED BY <3>1, <1>5
  <2>4. CASE ~(h[p].gen < d.privacy) /\ ~(d.id = None \/ ReadId \notin {None, d.id})
    <3>1. PICK r : r = [h[p] EXCEPT !.pc = "connect", !.id = d.id] /\ Set(p, r)
      BY <1>12, <2>1, <2>4 DEF open_existing, integrity_ok, Foreign, NeedsMigration
    <3>2. r \in Handle
      <4>1. PICK j \in Nat : j = d.id BY <1>2 DEF Db
      <4> QED BY <3>1, <4>1, <1>1 DEF Handle, Pcs
    <3>3. r.pc = "connect" /\ r.conn = FALSE /\ ~r.healthy /\ r.recovery = "none" /\ r.id = d.id BY <3>1, <1>1 DEF Handle
    <3>4. ~Refused(d) BY <1>2, <1>12, <2>4, <2>1 DEF Refused, GENERATION, Db
    <3>5. Installed(db) BY <3>4, <1>2, <1>12 DEF Installed
    <3>6. HandleOK(r, db, files, used.raced) BY <3>3, <3>5, <1>2, <2>4 DEF HandleOK, Backing, Identified
    <3> QED BY <1>1, <3>1, <3>2, <3>3, <3>6, HandleStep
  <2> QED BY <2>2, <2>3, <2>4
<1>13. d.kind \in {"corrupt", "foreign", "ours"} /\ (d.version > VERSION \/ d.version < VERSION \/ d.version = VERSION)
  BY <1>2 DEF Db, Kinds, VERSION
<1> QED BY <1>7, <1>8, <1>9, <1>10, <1>11, <1>12, <1>13

LEMMA ConnectExistingKeeps ==
  ASSUME IInv, NEW p \in Procs, connect_existing(p)
  PROVE  IInv' /\ Kept
<1>1. /\ UNCHANGED <<files, ask, used>> /\ h[p].pc = "connect" /\ h[p].recovery = "none" /\ ~h[p].healthy
      /\ h[p] \in Handle /\ h[p].id # None /\ Installed(db) /\ ~Refused(db) /\ (~used.raced => h[p].id = db.id)
  BY Start DEF connect_existing, Rest, HandleOK, Backing, Identified, Handle, Installed
<1>2. db \in Db /\ DbOK(db) /\ used' \in Used /\ used'.raced = used.raced /\ used'.raced \in BOOLEAN BY <1>1, Start
<1>3. CASE db' = journal_is_wal(db) /\ Set(p, [h[p] EXCEPT !.pc = "check_id", !.conn = TRUE])
  <2>1. /\ db' \in Db /\ DbOK(db') /\ db'.rows = db.rows /\ DbKept(db, db', used'.raced) /\ ~Refused(db')
        /\ db'.kind = db.kind /\ db'.version = db.version /\ db'.id = db.id
    BY <1>1, <1>2, <1>3, WalKeeps
  <2>2. PICK r : r = [h[p] EXCEPT !.pc = "check_id", !.conn = TRUE] /\ Set(p, r) BY <1>3
  <2>3. r \in Handle BY <2>2, <1>1 DEF Handle, Pcs
  <2>4. r.pc = "check_id" /\ r.conn = TRUE /\ ~r.healthy /\ r.recovery = "none" /\ r.id = h[p].id BY <2>2, <1>1 DEF Handle
  <2>5. Installed(db') BY <2>1, <1>1 DEF Installed
  <2>6. HandleOK(r, db', files, used'.raced) BY <1>1, <1>2, <2>1, <2>4, <2>5 DEF HandleOK, Backing, Identified
  <2>7. r.pc # "fill_id" /\ UNCHANGED <<files, ask>> BY <2>4, <1>1
  <2> QED BY <1>2, <2>1, <2>2, <2>3, <2>6, <2>7, DbStep
<1>4. CASE Stopped(p, "STORE_UNAVAILABLE") /\ UNCHANGED db
  <2>1. PICK r : r = [h[p] EXCEPT !.pc = "closed", !.reason = "STORE_UNAVAILABLE", !.conn = FALSE] /\ Set(p, r)
    BY <1>4 DEF Stopped
  <2>2. r \in Handle /\ HandleOK(r, db, files, used.raced) /\ r.pc # "fill_id" BY <1>1, <2>1, StoppedOK DEF Codes
  <2>3. UNCHANGED <<db, files, ask>> BY <1>1, <1>4
  <2> QED BY <1>2, <2>1, <2>2, <2>3, HandleStep
<1> QED BY <1>3, <1>4 DEF connect_existing

LEMMA TouchKeeps ==
  ASSUME IInv, NEW p \in Procs, touch_meta(p)
  PROVE  IInv' /\ Kept
<1>1. /\ UNCHANGED <<files, ask, used>> /\ h[p].pc = "touch" /\ h[p].recovery = "none" /\ ~h[p].healthy /\ h[p].conn
      /\ h[p] \in Handle /\ h[p].id # None /\ Installed(db) /\ ~Refused(db) /\ (~used.raced => h[p].id = db.id)
      /\ files.sidecar = h[p].id
  BY Start DEF touch_meta, Rest, HandleOK, Backing, Identified, Handle, Installed
<1>2. db \in Db /\ DbOK(db) /\ used' \in Used /\ used'.raced = used.raced /\ used'.raced \in BOOLEAN BY <1>1, Start
<1>3. UNCHANGED <<files, ask>> BY <1>1
<1>4. CASE db' = [db EXCEPT !.frames = TRUE] /\ Opened(p)
  <2>1. /\ db' \in Db /\ db'.rows = db.rows /\ db'.kind = db.kind /\ db'.version = db.version /\ db'.id = db.id
        /\ db'.privacy = db.privacy
    BY <1>2, <1>4 DEF Db
  <2>2. DbOK(db') /\ DbKept(db, db', used'.raced) /\ ~Refused(db') BY <1>1, <1>2, <2>1, Rewritten
  <2>3. PICK r : r = [h[p] EXCEPT !.pc = "open", !.healthy = TRUE, !.reason = "OK"] /\ Set(p, r) BY <1>4 DEF Opened
  <2>4. r \in Handle BY <2>3, <1>1 DEF Handle, Pcs, Codes
  <2>5. r.pc = "open" /\ r.conn = h[p].conn /\ r.recovery = "none" /\ r.id = h[p].id BY <2>3, <1>1 DEF Handle
  <2>6. Installed(db') BY <2>1, <2>2, <1>1 DEF Installed
  <2>7. HandleOK(r, db', files, used'.raced) BY <1>1, <1>2, <2>1, <2>5, <2>6 DEF HandleOK, Backing, Identified
  <2>8. r.pc # "fill_id" BY <2>5
  <2> QED BY <1>2, <1>3, <2>1, <2>2, <2>3, <2>4, <2>7, <2>8, DbStep
<1>5. CASE Stopped(p, "STORE_UNAVAILABLE") /\ db' = Checkpoint(p, db)
  <2>1. PICK r : r = [h[p] EXCEPT !.pc = "closed", !.reason = "STORE_UNAVAILABLE", !.conn = FALSE] /\ Set(p, r)
    BY <1>5 DEF Stopped
  <2>2. r \in Handle /\ HandleOK(r, db', files, used'.raced) /\ r.pc # "fill_id" BY <1>1, <2>1, StoppedOK DEF Codes
  <2>3. db' \in Db /\ DbOK(db') /\ db'.rows = db.rows /\ DbKept(db, db', used'.raced)
    BY <1>1, <1>2, <1>5, CheckpointKeeps
  <2> QED BY <1>2, <1>3, <2>1, <2>2, <2>3, DbStep
<1> QED BY <1>4, <1>5 DEF touch_meta

-----------------------------------------------------------------------------
(* The backup and the migration.                                           *)

LEMMA BackedUpOK ==
  ASSUME IInv, NEW p \in Procs, h[p].pc \in Backing, BackedUp(p), NEW f
  PROVE  \E r \in Handle : Set(p, r) /\ HandleOK(r, db, f, used.raced) /\ r.pc # "fill_id"
<1>1. h[p] \in Handle /\ ~h[p].healthy /\ h[p].conn = FALSE /\ h[p].recovery \in Envelopes /\ h[p].reason \in Codes
  BY Start DEF HandleOK, Backing, Identified, Handle
<1>2. CASE h[p].recovery = "none"
  <2>1. PICK r : r = [h[p] EXCEPT !.pc = "migrate"] /\ Set(p, r) BY <1>2 DEF BackedUp, Go
  <2>2. r \in Handle BY <2>1, <1>1 DEF Handle, Pcs
  <2>3. r.pc = "migrate" /\ r.conn = FALSE /\ ~r.healthy /\ r.recovery = "none" BY <2>1, <1>1, <1>2 DEF Handle
  <2>4. db.kind = "ours" /\ ~Refused(db) BY <1>2, Start DEF HandleOK
  <2>5. HandleOK(r, db, f, used.raced) BY <2>3, <2>4 DEF HandleOK, Backing, Identified
  <2> QED BY <2>1, <2>2, <2>3, <2>5
<1>3. CASE h[p].recovery # "none"
  <2>1. Disclose(p, h[p].recovery, h[p].reason, db.bytes = h[p].before) BY <1>3 DEF BackedUp
  <2>2. PICK s \in Envelopes, c \in Codes, b \in BOOLEAN :
          s = h[p].recovery /\ c = h[p].reason /\ b = (db.bytes = h[p].before)
    BY <1>1
  <2>3. PICK r : /\ r = [h[p] EXCEPT !.pc = "envelope", !.recovery = s, !.next = s, !.reason = c,
                                     !.preserved = b, !.conn = FALSE]
                 /\ Set(p, r)
    BY <2>1, <2>2 DEF Disclose
  <2>4. s # "none" BY <2>2, <1>3
  <2>5. r \in Handle /\ HandleOK(r, db, f, used.raced) /\ r.pc # "fill_id" BY <1>1, <2>3, <2>4, DiscloseOK
  <2> QED BY <2>3, <2>5
<1> QED BY <1>2, <1>3

LEMMA BackupKeeps ==
  ASSUME IInv, NEW p \in Procs, backup_database(p)
  PROVE  IInv' /\ Kept
<1>1. /\ UNCHANGED <<db, files, ask>> /\ used' = used /\ h[p].pc = "backup" /\ h[p] \in Handle /\ ~h[p].healthy
      /\ h[p].conn = FALSE /\ used \in Used /\ HandleOK(h[p], db, files, used.raced) /\ h[p].pc \in Backing
  BY Start DEF backup_database, Rest, HandleOK, Backing, Identified, Handle
<1>2. PICK r \in Handle : Set(p, r) /\ HandleOK(r, db, files, used.raced) /\ r.pc # "fill_id"
  <2>1. CASE files.backup # None BY <2>1, <1>1, BackedUpOK DEF backup_database
  <2>2. CASE files.backup = None
    <3>1. PICK r : r = [h[p] EXCEPT !.pc = "new_backup"] /\ Set(p, r) BY <2>2 DEF backup_database, Go
    <3>2. r \in Handle BY <3>1, <1>1 DEF Handle, Pcs
    <3>3. r.pc = "new_backup" /\ r.conn = FALSE /\ ~r.healthy /\ r.recovery = h[p].recovery BY <3>1, <1>1 DEF Handle
    <3>4. HandleOK(r, db, files, used.raced) BY <3>3, <1>1 DEF HandleOK, Backing, Identified
    <3> QED BY <3>1, <3>2, <3>3, <3>4
  <2> QED BY <2>1, <2>2
<1> QED BY <1>1, <1>2, HandleStep

LEMMA CreateBackupKeeps ==
  ASSUME IInv, NEW p \in Procs, create_backup(p)
  PROVE  IInv' /\ Kept
<1>1. /\ UNCHANGED <<db, ask, used>> /\ h[p].pc = "new_backup" /\ h[p] \in Handle /\ ~h[p].healthy
      /\ h[p].conn = FALSE /\ files \in Files /\ HandleOK(h[p], db, files, used.raced)
  BY Start DEF create_backup, Rest, HandleOK, Backing, Identified, Handle
<1>2. /\ files' \in Files /\ files'.sidecar = files.sidecar
      /\ files'.envelope = files.envelope /\ files'.tmp = files.tmp
  BY <1>1 DEF create_backup, Files, Torn
<1>3. FilesKept(files, files') BY <1>2 DEF FilesKept
<1>4. PICK r \in Handle : Set(p, r) /\ HandleOK(r, db, files', used.raced) /\ r.pc # "fill_id"
  <2>1. CASE files.backup = None
    <3>1. PICK r : r = [h[p] EXCEPT !.pc = "copy"] /\ Set(p, r) BY <2>1 DEF create_backup, Go
    <3>2. r \in Handle BY <3>1, <1>1 DEF Handle, Pcs
    <3>3. r.pc = "copy" /\ r.conn = FALSE /\ ~r.healthy /\ r.recovery = h[p].recovery BY <3>1, <1>1 DEF Handle
    <3>4. HandleOK(r, db, files', used.raced) BY <3>3, <1>1 DEF HandleOK, Backing, Identified
    <3> QED BY <3>1, <3>2, <3>3, <3>4
  <2>2. CASE files.backup # None
    <3>1. PICK b \in BOOLEAN : b = (db.bytes = h[p].before) OBVIOUS
    <3>2. PICK r : /\ r = [h[p] EXCEPT !.pc = "envelope", !.recovery = "RECOVERY_REQUIRED", !.next = "RECOVERY_REQUIRED",
                                       !.reason = "MIGRATION_FAILED", !.preserved = b, !.conn = FALSE]
                   /\ Set(p, r)
      BY <2>2, <3>1 DEF create_backup, Disclose
    <3>3. "RECOVERY_REQUIRED" \in Envelopes /\ "MIGRATION_FAILED" \in Codes BY DEF Codes, Envelopes
    <3>4. r \in Handle /\ HandleOK(r, db, files', used.raced) /\ r.pc # "fill_id" BY <1>1, <3>2, <3>3, DiscloseOK
    <3> QED BY <3>2, <3>4
  <2> QED BY <2>1, <2>2
<1> QED BY <1>1, <1>2, <1>3, <1>4, FilesStep

LEMMA CopyBackupKeeps ==
  ASSUME IInv, NEW p \in Procs, copy_backup(p)
  PROVE  IInv' /\ Kept
<1>1. UNCHANGED <<db, ask, used>> /\ h[p].pc \in Backing /\ files \in Files /\ BackedUp(p)
  BY Start DEF copy_backup, Rest, Backing
<1>2. /\ files' \in Files /\ files'.sidecar = files.sidecar
      /\ files'.envelope = files.envelope /\ files'.tmp = files.tmp
  <2>1. PICK n \in Nat : n = 1 + db.bytes BY Start DEF Db
  <2>2. files' = [files EXCEPT !.backup = n] BY <2>1 DEF copy_backup
  <2> QED BY <1>1, <2>2 DEF Files
<1>3. FilesKept(files, files') BY <1>2 DEF FilesKept
<1>4. PICK r \in Handle : Set(p, r) /\ HandleOK(r, db, files', used.raced) /\ r.pc # "fill_id" BY <1>1, BackedUpOK
<1> QED BY <1>1, <1>2, <1>3, <1>4, FilesStep

LEMMA MigrateKeeps ==
  ASSUME IInv, NEW p \in Procs, migrate(p)
  PROVE  IInv' /\ Kept
<1>1. /\ UNCHANGED <<files, ask>> /\ h[p].pc = "migrate" /\ h[p].recovery = "none" /\ ~h[p].healthy
      /\ h[p] \in Handle /\ h[p].sidecar \in Nat /\ ~Refused(db) /\ db.kind = "ours"
  BY Start DEF migrate, HandleOK, Backing, Identified, Handle
<1>2. db \in Db /\ DbOK(db) /\ used \in Used /\ used.ids \in Nat BY Start DEF Used
<1> DEFINE minted == IF h[p].sidecar # None THEN h[p].sidecar ELSE NewId
<1>3. PICK i \in Nat : i = minted BY <1>1, <1>2 DEF NewId
<1>4. i # None BY <1>2, <1>3 DEF NewId, None
<1>5. CASE /\ db' = install_schema(journal_is_wal(db), minted)
           /\ Set(p, [h[p] EXCEPT !.pc = "check_id", !.id = minted, !.conn = TRUE])
           /\ used' = [used EXCEPT !.ids = IF minted > @ THEN minted ELSE @, !.raced = @ \/ db.id # None]
  <2>1. PICK n \in Nat : n = IF i > used.ids THEN i ELSE used.ids BY <1>2
  <2>2. used' = [used EXCEPT !.ids = n, !.raced = @ \/ db.id # None] BY <1>3, <1>5, <2>1
  <2>3. used' \in Used /\ (used.raced => used'.raced) /\ (~used'.raced => db.id = None) /\ used'.raced \in BOOLEAN
    BY <1>2, <2>2 DEF Used
  <2>4. db' = install_schema(journal_is_wal(db), i) BY <1>3, <1>5
  <2>5. /\ db' \in Db /\ DbOK(db') /\ db'.rows = db.rows /\ DbKept(db, db', used'.raced) /\ Installed(db')
        /\ db'.id = i
    BY <1>1, <1>2, <2>3, <2>4, SchemaInstalled
  <2>6. PICK r : r = [h[p] EXCEPT !.pc = "check_id", !.id = i, !.conn = TRUE] /\ Set(p, r) BY <1>3, <1>5
  <2>7. r \in Handle BY <1>1, <2>6 DEF Handle, Pcs
  <2>8. r.pc = "check_id" /\ r.conn = TRUE /\ r.recovery = "none" /\ ~r.healthy /\ r.id = i BY <1>1, <2>6 DEF Handle
  <2>9. HandleOK(r, db', files, used'.raced) BY <1>4, <2>5, <2>8 DEF HandleOK, Backing, Identified
  <2>10. r.pc # "fill_id" BY <2>8
  <2> QED BY <1>1, <2>3, <2>5, <2>6, <2>7, <2>9, <2>10, DbStep
<1>6. CASE /\ UNCHANGED used
           /\ \E d \in {db, journal_is_wal(db)} :
                db' = d /\ Disclose(p, "RECOVERY_REQUIRED", "MIGRATION_FAILED", d.bytes = h[p].before)
  <2>1. PICK d : /\ d = db \/ d = journal_is_wal(db)
                 /\ db' = d /\ Disclose(p, "RECOVERY_REQUIRED", "MIGRATION_FAILED", d.bytes = h[p].before)
    BY <1>6
  <2>2. used' \in Used /\ used'.raced = used.raced /\ used'.raced \in BOOLEAN BY <1>2, <1>6 DEF Used
  <2>3. db' \in Db /\ DbOK(db') /\ db'.rows = db.rows /\ DbKept(db, db', used'.raced)
    BY <1>1, <1>2, <2>1, <2>2, WalKeeps, DbSame
  <2>4. PICK b \in BOOLEAN : b = (d.bytes = h[p].before) OBVIOUS
  <2>5. PICK r : /\ r = [h[p] EXCEPT !.pc = "envelope", !.recovery = "RECOVERY_REQUIRED", !.next = "RECOVERY_REQUIRED",
                                     !.reason = "MIGRATION_FAILED", !.preserved = b, !.conn = FALSE]
                 /\ Set(p, r)
    BY <2>1, <2>4 DEF Disclose
  <2>6. "RECOVERY_REQUIRED" \in Envelopes /\ "MIGRATION_FAILED" \in Codes BY DEF Codes, Envelopes
  <2>7. r \in Handle /\ HandleOK(r, db', files, used'.raced) /\ r.pc # "fill_id" BY <1>1, <2>5, <2>6, DiscloseOK
  <2> QED BY <1>1, <2>2, <2>3, <2>5, <2>7, DbStep
<1> QED BY <1>5, <1>6 DEF migrate

-----------------------------------------------------------------------------
(* The envelope, and the ways a handle goes away.                          *)

LEMMA WriteEnvelopeKeeps ==
  ASSUME IInv, NEW p \in Procs, write_envelope(p)
  PROVE  IInv' /\ Kept
<1>1. /\ UNCHANGED <<db, ask, used>> /\ h[p].pc = "envelope" /\ ~h[p].healthy /\ h[p].conn = FALSE
      /\ h[p] \in Handle /\ files \in Files /\ h[p].next # "none"
  BY Start DEF write_envelope, Rest, HandleOK, Identified, Handle
<1>2. CASE files.tmp
  <2>1. PICK r : r = [h[p] EXCEPT !.pc = "closed"] /\ Set(p, r) BY <1>2 DEF write_envelope, Go
  <2>2. files' = files BY <1>2 DEF write_envelope
  <2>3. r \in Handle BY <1>1, <2>1 DEF Handle, Pcs
  <2>4. r.pc = "closed" /\ r.conn = FALSE /\ ~r.healthy BY <1>1, <2>1 DEF Handle
  <2>5. HandleOK(r, db, files', used.raced) BY <1>2, <2>2, <2>4 DEF HandleOK, Backing, Identified
  <2>6. FilesKept(files, files') /\ r.pc # "fill_id" BY <2>2, <2>4, <1>1, FilesSame
  <2> QED BY <1>1, <2>1, <2>2, <2>3, <2>5, <2>6, FilesStep
<1>3. CASE ~files.tmp
  <2>1. PICK r : r = [h[p] EXCEPT !.pc = "rename"] /\ Set(p, r) BY <1>3 DEF write_envelope, Go
  <2>2. files' = [files EXCEPT !.tmp = TRUE] BY <1>3 DEF write_envelope
  <2>3. r \in Handle BY <1>1, <2>1 DEF Handle, Pcs
  <2>4. r.pc = "rename" /\ r.conn = FALSE /\ ~r.healthy /\ r.next # "none" BY <1>1, <2>1 DEF Handle
  <2>5. HandleOK(r, db, files', used.raced) BY <2>4 DEF HandleOK, Backing, Identified
  <2>6. files' \in Files /\ FilesKept(files, files') /\ r.pc # "fill_id" /\ files'.sidecar = files.sidecar
    BY <2>2, <2>4, <1>1 DEF FilesKept, Files
  <2> QED BY <1>1, <2>1, <2>3, <2>5, <2>6, FilesStep
<1> QED BY <1>2, <1>3

LEMMA ReplaceEnvelopeKeeps ==
  ASSUME IInv, NEW p \in Procs, replace_envelope(p)
  PROVE  IInv' /\ Kept
<1>1. /\ UNCHANGED <<db, ask, used>> /\ h[p].pc = "rename" /\ ~h[p].healthy /\ h[p].conn = FALSE
      /\ h[p] \in Handle /\ files \in Files /\ h[p].next # "none" /\ h[p].next \in Envelopes
  BY Start DEF replace_envelope, Rest, HandleOK, Identified, Handle
<1>2. PICK e \in Envelopes : e = h[p].next BY <1>1
<1>3. PICK r : r = [h[p] EXCEPT !.pc = "closed", !.recovery = e] /\ Set(p, r) BY <1>2 DEF replace_envelope
<1>4. r \in Handle BY <1>1, <1>3 DEF Handle, Pcs
<1>5. r.pc = "closed" /\ r.conn = FALSE /\ ~r.healthy BY <1>1, <1>3 DEF Handle
<1>6. files' = [files EXCEPT !.tmp = FALSE, !.envelope = e] BY <1>2 DEF replace_envelope
<1>7. files' \in Files /\ files'.envelope # "none" /\ files'.sidecar = files.sidecar BY <1>1, <1>2, <1>6 DEF Files
<1>8. HandleOK(r, db, files', used.raced) BY <1>5, <1>7 DEF HandleOK, Backing, Identified
<1>9. FilesKept(files, files') /\ r.pc # "fill_id" BY <1>5, <1>7 DEF FilesKept
<1> QED BY <1>1, <1>3, <1>4, <1>7, <1>8, <1>9, FilesStep

LEMMA SalvageKeeps ==
  ASSUME IInv, NEW p \in Procs, salvage(p)
  PROVE  IInv' /\ Kept
<1>1. /\ UNCHANGED <<db, files, ask>> /\ used' = used /\ used \in Used /\ h[p].pc = "closed" /\ ~h[p].healthy
      /\ h[p].conn = FALSE /\ h[p] \in Handle
  BY Start DEF salvage, Rest, HandleOK, Identified, Handle
<1>2. PICK r : r = [h[p] EXCEPT !.pc = "envelope", !.next = "READ_ONLY_SALVAGE"] /\ Set(p, r) BY DEF salvage
<1>3. r \in Handle BY <1>1, <1>2 DEF Handle, Pcs, Envelopes
<1>4. r.pc = "envelope" /\ r.conn = FALSE /\ ~r.healthy /\ r.next # "none" BY <1>1, <1>2 DEF Handle
<1>5. HandleOK(r, db, files, used.raced) /\ r.pc # "fill_id" BY <1>4 DEF HandleOK, Backing, Identified
<1> QED BY <1>1, <1>2, <1>3, <1>5, HandleStep

LEMMA NoHandleOK ==
  ASSUME NEW d, NEW f, NEW b
  PROVE  NoHandle \in Handle /\ HandleOK(NoHandle, d, f, b) /\ NoHandle.pc = "none"
<1>1. NoDb \in Db BY DEF NoDb, Db, Kinds, None
<1>2. 0 \in 0..GENERATION BY DEF GENERATION
<1>3. NoHandle \in Handle BY <1>1, <1>2 DEF NoHandle, Handle, Pcs, Codes, Envelopes, None
<1>4. NoHandle.pc = "none" /\ NoHandle.conn = FALSE /\ NoHandle.healthy = FALSE /\ NoHandle.recovery = "none"
  BY DEF NoHandle
<1> QED BY <1>3, <1>4 DEF HandleOK, Identified, Backing

LEMMA NoAskOK ==
  ASSUME NEW rows PROVE AskOK(NoAsk, rows)
<1>1. NoAsk.pc = "none" /\ NoAsk.result = "none" BY DEF NoAsk
<1> QED BY <1>1 DEF AskOK

(* A process that lets its handle go leaves the rest as it may be.         *)
LEMMA GoneStep ==
  ASSUME IInv, NEW p \in Procs, UNCHANGED files, used' \in Used, used'.raced = used.raced,
         db' \in Db, DbOK(db'), db'.rows = db.rows, DbKept(db, db', used'.raced),
         Set(p, NoHandle), ask' = [ask EXCEPT ![p] = NoAsk]
  PROVE  IInv' /\ Kept
<1>1. h \in [Procs -> Handle] /\ files \in Files /\ DOMAIN ask = Procs /\ SoundRows(db.rows) BY DEF IInv
<1>2. h' \in [Procs -> Handle] /\ h'[p] = NoHandle /\ \A q \in Procs \ {p} : h'[q] = h[q]
  BY <1>1, NoHandleOK DEF Set
<1>3. DOMAIN ask' = Procs /\ ask'[p] = NoAsk /\ \A q \in Procs \ {p} : ask'[q] = ask[q] BY <1>1
<1>4. HandleOK(h'[p], db', files', used'.raced) /\ AskOK(ask'[p], db'.rows) BY <1>2, <1>3, NoHandleOK, NoAskOK
<1>5. h'[p].pc # "fill_id" BY <1>2, NoHandleOK
<1>6. FilesKept(files, files') BY <1>1, FilesSame
<1>7. SoundRows(db'.rows) BY <1>1
<1> QED BY <1>2, <1>3, <1>4, <1>5, <1>6, <1>7, <1>1, StepKeepsIInv

LEMMA CloseKeeps ==
  ASSUME IInv, NEW p \in Procs, close(p)
  PROVE  IInv' /\ Kept
<1>1. UNCHANGED <<files, used>> /\ Set(p, NoHandle) /\ ask' = [ask EXCEPT ![p] = NoAsk] BY DEF close
<1>2. used' \in Used /\ used'.raced = used.raced /\ used'.raced \in BOOLEAN BY <1>1, Start
<1>3. db' \in Db /\ DbOK(db') /\ db'.rows = db.rows /\ DbKept(db, db', used'.raced)
  <2>1. CASE h[p].conn
    <3>1. ~Refused(db) BY <2>1, Start DEF HandleOK, Installed
    <3>2. db' = Checkpoint(p, db) BY <2>1 DEF close
    <3> QED BY <3>1, <3>2, <1>2, Start, CheckpointKeeps
  <2>2. CASE ~h[p].conn BY <2>2, <1>2, Start, DbSame DEF close
  <2> QED BY <2>1, <2>2
<1> QED BY <1>1, <1>2, <1>3, GoneStep

LEMMA KillKeeps ==
  ASSUME IInv, NEW p \in Procs, Kill(p)
  PROVE  IInv' /\ Kept
<1>1. UNCHANGED <<db, files>> /\ Set(p, NoHandle) /\ ask' = [ask EXCEPT ![p] = NoAsk] BY DEF Kill
<1>2. PICK n \in Nat : n = used.kills + 1 BY Start DEF Used
<1>3. used' = [used EXCEPT !.kills = n] BY <1>2 DEF Kill
<1>4. used' \in Used /\ used'.raced = used.raced /\ used'.raced \in BOOLEAN BY <1>3, Start DEF Used
<1>5. db' \in Db /\ DbOK(db') /\ db'.rows = db.rows /\ DbKept(db, db', used'.raced) BY <1>1, <1>4, Start, DbSame
<1> QED BY <1>1, <1>4, <1>5, GoneStep

-----------------------------------------------------------------------------
(* put.                                                                    *)

Record == [verdict : STRING, event : Nat, ident : Nat, prod : Nat, at : Nat, flaw : STRING]

(* What the insert does to the rows: the same identity and an unreadable   *)
(* row insert nothing, another identity marks both sides.                  *)
LEMMA StoredSound ==
  ASSUME NEW rows \in Seq(Row), SoundRows(rows), NEW r \in Record
  PROVE  Stored(rows, r) \in Seq(Row) /\ SoundRows(Stored(rows, r)) /\ RowsKept(rows, Stored(rows, r))
<1> DEFINE existing == Same(rows, r)
           same == {k \in existing : rows[k].ident = r.ident}
           marked == [k \in DOMAIN rows |-> IF k \in existing THEN [rows[k] EXCEPT !.conflict = TRUE] ELSE rows[k]]
           new == RowOf(r, existing # {})
<1>1. CASE Stored(rows, r) = rows BY <1>1, RowsSame
<1>2. CASE Stored(rows, r) = Append(marked, new) /\ same = {}
  <2>1. new \in Row BY DEF RowOf, Row, Record
  <2>2. /\ new.event = r.event /\ new.ident = r.ident /\ new.conflict = (existing # {}) BY DEF RowOf
  <2>3. DOMAIN rows = 1..Len(rows) /\ Len(rows) \in Nat OBVIOUS
  <2>4. \A k \in DOMAIN rows : /\ marked[k] \in Row /\ marked[k].event = rows[k].event /\ marked[k].ident = rows[k].ident
                               /\ (rows[k].conflict \/ k \in existing => marked[k].conflict)
                               /\ marked[k] \in {rows[k], [rows[k] EXCEPT !.conflict = TRUE]}
    <3> TAKE k \in DOMAIN rows
    <3>1. rows[k] \in Row OBVIOUS
    <3>2. CASE k \in existing BY <3>1, <3>2 DEF Row
    <3>3. CASE k \notin existing BY <3>1, <3>3 DEF Row
    <3> QED BY <3>2, <3>3
  <2>5. PICK m : m = marked OBVIOUS
  <2>6. m \in Seq(Row) /\ Len(m) = Len(rows)
    <3>1. m \in [1..Len(rows) -> Row] BY <2>3, <2>4, <2>5
    <3> QED BY <2>3, <3>1
  <2>7. PICK e : e = Append(m, new) OBVIOUS
  <2>8. /\ e \in Seq(Row) /\ Len(e) = Len(rows) + 1 /\ e[Len(rows) + 1] = new
        /\ \A k \in 1..Len(rows) : e[k] = m[k]
    BY <2>1, <2>6, <2>7
  <2> HIDE DEF marked, new
  <2>9. RowsKept(rows, e) BY <2>3, <2>4, <2>5, <2>8 DEF RowsKept
  <2>10. \A j \in DOMAIN rows : new.event # None /\ rows[j].event = new.event => rows[j].ident # new.ident /\ j \in existing
    BY <1>2, <2>2 DEF Same
  <2>11. ASSUME NEW j \in DOMAIN e, NEW k \in DOMAIN e, j # k, e[j].event # None, e[j].event = e[k].event
         PROVE  e[j].ident # e[k].ident /\ e[j].conflict /\ e[k].conflict
    <3>1. DOMAIN e = 1..(Len(rows) + 1) BY <2>8
    <3>2. CASE j \in DOMAIN rows /\ k \in DOMAIN rows
      <4>1. /\ e[j].event = rows[j].event /\ e[j].ident = rows[j].ident /\ (rows[j].conflict => e[j].conflict)
            /\ e[k].event = rows[k].event /\ e[k].ident = rows[k].ident /\ (rows[k].conflict => e[k].conflict)
        BY <3>2, <2>3, <2>4, <2>5, <2>8
      <4> QED BY <3>2, <4>1, <2>11 DEF SoundRows
    <3>3. CASE j \in DOMAIN rows /\ k = Len(rows) + 1
      <4>1. e[j].event = rows[j].event /\ e[j].ident = rows[j].ident /\ (j \in existing => e[j].conflict) /\ e[k] = new
        BY <3>3, <2>3, <2>4, <2>5, <2>8
      <4>2. j \in existing /\ rows[j].ident # new.ident BY <4>1, <3>3, <2>10, <2>11
      <4>3. new.conflict BY <4>2, <2>2
      <4> QED BY <4>1, <4>2, <4>3
    <3>4. CASE k \in DOMAIN rows /\ j = Len(rows) + 1
      <4>1. e[k].event = rows[k].event /\ e[k].ident = rows[k].ident /\ (k \in existing => e[k].conflict) /\ e[j] = new
        BY <3>4, <2>3, <2>4, <2>5, <2>8
      <4>2. k \in existing /\ rows[k].ident # new.ident BY <4>1, <3>4, <2>10, <2>11
      <4>3. new.conflict BY <4>2, <2>2
      <4> QED BY <4>1, <4>2, <4>3
    <3> QED BY <2>3, <2>11, <3>1, <3>2, <3>3, <3>4
  <2>12. SoundRows(e) BY <2>11 DEF SoundRows
  <2> QED BY <1>2, <2>5, <2>7, <2>8, <2>9, <2>12
<1> QED BY <1>1, <1>2 DEF Stored

LEMMA DiagnosedOK ==
  ASSUME IInv, NEW p \in Procs, h[p].pc = "open", Diagnosed(p) \/ UNCHANGED h, NEW d, NEW f, NEW b,
         HandleOK(h[p], d, f, b)
  PROVE  /\ h' \in [Procs -> Handle] /\ \A q \in Procs \ {p} : h'[q] = h[q]
         /\ HandleOK(h'[p], d, f, b) /\ h'[p].pc = "open"
<1>1. h \in [Procs -> Handle] /\ h[p] \in Handle BY Start
<1>2. CASE UNCHANGED h BY <1>1, <1>2
<1>3. CASE Diagnosed(p)
  <2>1. PICK r : r = [h[p] EXCEPT !.diagnostic = TRUE] /\ Set(p, r) BY <1>3 DEF Diagnosed
  <2>2. r \in Handle BY <1>1, <2>1 DEF Handle
  <2>3. /\ r.pc = h[p].pc /\ r.conn = h[p].conn /\ r.healthy = h[p].healthy /\ r.recovery = h[p].recovery
        /\ r.id = h[p].id /\ r.got = h[p].got /\ r.next = h[p].next
    BY <1>1, <2>1 DEF Handle
  <2>4. HandleOK(r, d, f, b) BY <2>3 DEF HandleOK
  <2> QED BY <1>1, <2>1, <2>2, <2>3, <2>4 DEF Set
<1> QED BY <1>2, <1>3

LEMMA PutKeeps ==
  ASSUME IInv, NEW p \in Procs, NEW r \in Records, put(p, r)
  PROVE  IInv' /\ Kept
<1>1. UNCHANGED <<files, ask>> /\ h[p].pc = "open" /\ ~Refused(db) /\ Installed(db)
  BY Start DEF put, HandleOK, Installed, Identified
<1>2. used' \in Used /\ used'.raced = used.raced /\ used'.raced \in BOOLEAN
  <2>1. PICK n \in Nat : n = used.puts + 1 BY Start DEF Used
  <2>2. used' = [used EXCEPT !.puts = n] BY <2>1 DEF put
  <2> QED BY <2>2, Start DEF Used
<1>3. r \in Record BY StoreAssumption DEF Record
<1>4. Diagnosed(p) \/ UNCHANGED h BY DEF put
<1>5. /\ db' \in Db /\ DbOK(db') /\ SoundRows(db'.rows) /\ RowsKept(db.rows, db'.rows)
      /\ db'.kind = db.kind /\ db'.version = db.version /\ db'.id = db.id /\ db'.privacy = db.privacy
  <2>1. CASE db' = db BY <2>1, <1>1, RowsSame, Start DEF IInv
  <2>2. CASE db' = NoteDrop(p, db)
    <3>1. PICK n \in Nat : n = db.drops + 1 BY Start DEF Db
    <3>2. db' = [db EXCEPT !.drops = n, !.frames = TRUE] BY <2>2, <3>1 DEF NoteDrop
    <3>3. /\ db' \in Db /\ db'.kind = db.kind /\ db'.version = db.version /\ db'.id = db.id /\ db'.privacy = db.privacy
          /\ db'.rows = db.rows
      BY <3>2, Start DEF Db
    <3>4. DbOK(db') BY <3>3, Start DEF DbOK
    <3> QED BY <3>3, <3>4, RowsSame, Start DEF IInv
  <2>3. CASE db' = [db EXCEPT !.rows = Stored(@, r), !.frames = TRUE]
    <3>1. PICK e : e = Stored(db.rows, r) OBVIOUS
    <3>2. e \in Seq(Row) /\ SoundRows(e) /\ RowsKept(db.rows, e) BY <3>1, <1>3, StoredSound, Start DEF IInv
    <3>3. db' = [db EXCEPT !.rows = e, !.frames = TRUE] BY <2>3, <3>1
    <3>4. /\ db' \in Db /\ db'.kind = db.kind /\ db'.version = db.version /\ db'.id = db.id /\ db'.privacy = db.privacy
          /\ db'.rows = e
      BY <3>2, <3>3, Start DEF Db
    <3>5. DbOK(db') BY <3>4, Start DEF DbOK
    <3> QED BY <3>2, <3>4, <3>5
  <2> QED BY <2>1, <2>2, <2>3 DEF put
<1>6. ~Refused(db') /\ DbKept(db, db', used'.raced) BY <1>1, <1>5 DEF Refused, DbKept
<1>7. FilesKept(files, files') BY <1>1, Start, FilesSame
<1>8. HandleOK(h[p], db', files', used'.raced) BY <1>1, <1>2, <1>5, <1>6, <1>7, Start, HandleStays
<1>9. /\ h' \in [Procs -> Handle] /\ \A q \in Procs \ {p} : h'[q] = h[q]
      /\ HandleOK(h'[p], db', files', used'.raced) /\ h'[p].pc = "open"
  BY <1>1, <1>4, <1>8, DiagnosedOK
<1>10. AskOK(ask'[p], db'.rows) /\ DOMAIN ask' = Procs /\ \A q \in Procs \ {p} : ask'[q] = ask[q]
  <2>1. AskOK(ask[p], db'.rows) BY <1>5, Start, AskStays DEF Db
  <2> QED BY <2>1, <1>1 DEF IInv
<1>11. files' \in Files /\ files'.sidecar = files.sidecar /\ h'[p].pc # "fill_id" BY <1>1, <1>9, Start
<1> QED BY <1>2, <1>5, <1>6, <1>7, <1>9, <1>10, <1>11, StepKeepsIInv

-----------------------------------------------------------------------------
(* query.                                                                  *)

LEMMA QueryKeeps ==
  ASSUME IInv, NEW p \in Procs, NEW q, query(p, q)
  PROVE  IInv' /\ Kept
<1>1. UNCHANGED <<db, files, h>> BY DEF query
<1>2. used' \in Used /\ used'.raced = used.raced
  <2>1. PICK n \in Nat : n = used.queries + 1 BY Start DEF Used
  <2>2. used' = [used EXCEPT !.queries = n] BY <2>1 DEF query
  <2> QED BY <2>2, Start DEF Used
<1>3. PICK a : Ask(p, a) /\ AskOK(a, db.rows)
  <2>1. CASE validate_request(q) # "none" \/ ~h[p].healthy
    <3>1. PICK a : a = [NoAsk EXCEPT !.q = q, !.result = "UNAVAILABLE"] /\ Ask(p, a) BY <2>1 DEF query
    <3>2. DOMAIN a = DOMAIN NoAsk /\ a.pc = "none" /\ a.result = "UNAVAILABLE" BY <3>1 DEF NoAsk
    <3> QED BY <3>1, <3>2 DEF AskOK
  <2>2. CASE ~(validate_request(q) # "none" \/ ~h[p].healthy)
    <3> DEFINE more == ask[p].more /\ ask[p].q = q
               a0 == IF more THEN [ask[p] EXCEPT !.result = "none"] ELSE [NoAsk EXCEPT !.q = q]
    <3>1. PICK a1 : a1 = a0 OBVIOUS
    <3>2. DOMAIN a1 = DOMAIN NoAsk /\ a1.result = "none"
      BY <3>1, Start DEF AskOK, NoAsk
    <3>3. PICK t, b, o, a : /\ a = [a1 EXCEPT !.pc = "page", !.total = t, !.dirty = b, !.owed = o]
                            /\ b = (\E k \in Scope(db.rows) : Reasons(db.rows[k]))
                            /\ Ask(p, a)
      BY <2>2, <3>1 DEF query
    <3>4. DOMAIN a = DOMAIN NoAsk /\ a.result = "none" /\ a.pc = "page" /\ a.dirty = b BY <3>2, <3>3 DEF NoAsk
    <3>5. b => Flawed(db.rows) BY <3>3 DEF Flawed, Scope
    <3>6. AskOK(a, db.rows) BY <3>4, <3>5 DEF AskOK
    <3> QED BY <3>3, <3>6
  <2> QED BY <2>1, <2>2
<1> QED BY <1>1, <1>2, <1>3, AskStep

LEMMA ReadKeeps ==
  ASSUME IInv, NEW p \in Procs, Read(p)
  PROVE  IInv' /\ Kept
<1>1. UNCHANGED <<db, files, h>> /\ used' = used /\ used' \in Used /\ AskOK(ask[p], db.rows)
  BY Start DEF Read, query_page, query_drops, query_scope
<1>2. CASE query_page(p)
  <2> DEFINE found == Found(db.rows, ask[p].q, ask[p].cursor)
             page == Page(db.rows, ask[p].q, found)
  <2>1. PICK f, more, cur, twice, seen, a :
          /\ f = [k \in page |-> db.rows[k]]
          /\ a = [ask[p] EXCEPT !.pc = "drops", !.page = f, !.more = more, !.cursor = cur, !.twice = twice, !.seen = seen]
          /\ Ask(p, a)
    BY <1>2 DEF query_page
  <2>2. page \subseteq DOMAIN db.rows BY DEF Page, Found, Scope
  <2>3. Flawed(f) => Flawed(db.rows) BY <2>1, <2>2 DEF Flawed
  <2>4. ask[p].pc = "page" BY <1>2 DEF query_page
  <2>5. DOMAIN a = DOMAIN NoAsk /\ a.pc = "drops" /\ a.page = f /\ a.dirty = ask[p].dirty /\ a.result = ask[p].result
    BY <1>1, <2>1 DEF AskOK, NoAsk
  <2>6. AskOK(a, db.rows) BY <1>1, <2>3, <2>4, <2>5 DEF AskOK
  <2> QED BY <1>1, <2>1, <2>6, AskStep
<1>3. CASE query_drops(p)
  <2>1. PICK a : a = [ask[p] EXCEPT !.pc = "scope", !.drops = db.drops] /\ Ask(p, a) BY <1>3 DEF query_drops
  <2>2. ask[p].pc = "drops" BY <1>3 DEF query_drops
  <2>3. DOMAIN a = DOMAIN NoAsk /\ a.pc = "scope" /\ a.page = ask[p].page /\ a.dirty = ask[p].dirty /\ a.result = ask[p].result
    BY <1>1, <2>1 DEF AskOK, NoAsk
  <2>4. AskOK(a, db.rows) BY <1>1, <2>2, <2>3 DEF AskOK
  <2> QED BY <1>1, <2>1, <2>4, AskStep
<1>4. CASE query_scope(p)
  <2>1. PICK res, a : /\ res = (IF ask[p].drops = 0 /\ scope_completeness(db.rows, ask[p].page) THEN "COMPLETE" ELSE "PARTIAL")
                      /\ a = [ask[p] EXCEPT !.pc = "none", !.result = res] /\ Ask(p, a)
    BY <1>4 DEF query_scope
  <2>2. ask[p].pc = "scope" BY <1>4 DEF query_scope
  <2>3. DOMAIN a = DOMAIN NoAsk /\ a.pc = "none" /\ a.page = ask[p].page /\ a.dirty = ask[p].dirty /\ a.result = res
    BY <1>1, <2>1 DEF AskOK, NoAsk
  <2>4. res = "COMPLETE" => ~Flawed(db.rows) BY <2>1 DEF scope_completeness, Scope, Flawed
  <2>5. AskOK(a, db.rows) BY <1>1, <2>2, <2>3, <2>4 DEF AskOK
  <2> QED BY <1>1, <2>1, <2>5, AskStep
<1> QED BY <1>2, <1>3, <1>4 DEF Read

-----------------------------------------------------------------------------
(* The whole specification.                                                *)

LEMMA InitIInv == Init => IInv
<1> SUFFICES ASSUME Init PROVE IInv OBVIOUS
<1>1. PICK d \in Directories : db = d.db /\ files = d.files BY DEF Init
<1>2. db \in Db /\ DbOK(db) /\ SoundRows(db.rows) /\ files \in Files BY <1>1, StoreAssumption DEF DbOK
<1>3. used \in Used BY DEF Init, Used
<1>4. h = [p \in Procs |-> NoHandle] /\ ask = [p \in Procs |-> NoAsk] BY DEF Init
<1>5. h \in [Procs -> Handle] /\ DOMAIN ask = Procs BY <1>4, NoHandleOK
<1>6. \A p \in Procs : HandleOK(h[p], db, files, used.raced) /\ AskOK(ask[p], db.rows) BY <1>4, NoHandleOK, NoAskOK
<1>7. FillOK BY <1>4, NoHandleOK DEF FillOK
<1> QED BY <1>2, <1>3, <1>5, <1>6, <1>7 DEF IInv

LEMMA NextKeeps ==
  ASSUME IInv, [Next]_vars
  PROVE  IInv' /\ Kept
<1>1. CASE UNCHANGED vars
  <2>1. IInv' BY <1>1 DEF vars, IInv, FillOK
  <2>2. db \in Db /\ files \in Files /\ used.raced \in BOOLEAN BY DEF IInv, Used
  <2>3. DbKept(db, db, used.raced) /\ FilesKept(files, files) BY <2>2, DbSame, FilesSame
  <2> QED BY <1>1, <2>1, <2>3 DEF vars, Kept
<1>2. CASE Next
  <2>1. PICK p \in Procs :
          \/ \E create, sql \in BOOLEAN, gen \in Generations : open_store(p, create, gen, sql)
          \/ Open(p) \/ salvage(p) \/ close(p) \/ Kill(p)
          \/ \E r \in Records : put(p, r)
          \/ \E q \in Queries : query(p, q)
          \/ Read(p)
    BY <1>2 DEF Next
  <2>2. CASE Open(p)
    BY <2>2, LocateKeeps, CreateStoreKeeps, ConnectNewKeeps, InstallNewKeeps, WriteStoreIdKeeps, CreateIdKeeps,
       FillIdKeeps, ProbeKeeps, OpenExistingKeeps, ConnectExistingKeeps, TouchKeeps, BackupKeeps, CreateBackupKeeps,
       CopyBackupKeeps, MigrateKeeps, WriteEnvelopeKeeps, ReplaceEnvelopeKeeps DEF Open
  <2>3. CASE \E create, sql \in BOOLEAN, gen \in Generations : open_store(p, create, gen, sql)
    BY <2>3, OpenStoreKeeps
  <2>4. CASE salvage(p) \/ close(p) \/ Kill(p) BY <2>4, SalvageKeeps, CloseKeeps, KillKeeps
  <2>5. CASE \E r \in Records : put(p, r) BY <2>5, PutKeeps
  <2>6. CASE (\E q \in Queries : query(p, q)) \/ Read(p) BY <2>6, QueryKeeps, ReadKeeps
  <2> QED BY <2>1, <2>2, <2>3, <2>4, <2>5, <2>6
<1> QED BY <1>1, <1>2

(* The inductive invariant: what each process may count on at each point   *)
(* of an open and of a query, whatever the other processes do meanwhile.   *)
THEOREM Invariance == Spec => []IInv
<1>1. IInv /\ [Next]_vars => IInv' BY NextKeeps
<1> QED BY <1>1, InitIInv, PTL DEF Spec

(* A healthy handle is connected to a database of this schema version:     *)
(* open_store hands out no handle for another file, and nothing another    *)
(* process does to the file takes that away.                               *)
THEOREM TypeCorrect == Spec => []TypeOK
<1>1. IInv => TypeOK
  <2> SUFFICES ASSUME IInv PROVE TypeOK OBVIOUS
  <2>1. db.kind \in Kinds /\ files.envelope \in Envelopes BY DEF IInv, Db, Files
  <2>2. \A p \in Procs : h[p].healthy => h[p].conn /\ Installed(db) BY DEF IInv, HandleOK, Identified
  <2> QED BY <2>1, <2>2 DEF TypeOK, Installed, Kinds, Envelopes
<1> QED BY <1>1, Invariance, PTL

(* put stores an identity once and marks both sides of a conflict, however *)
(* many writers there are.                                                 *)
THEOREM IdentityIsSound == Spec => []IdentitySound
<1>1. IInv => IdentitySound BY DEF IInv, IdentitySound
<1> QED BY <1>1, Invariance, PTL

(* Outside a race of two schema installations an open store has one id: in *)
(* its handle, in the database and in the sidecar.                         *)
THEOREM OneIdentity == Spec => []IdsAgree
<1>1. IInv => IdsAgree
  <2> SUFFICES ASSUME IInv, NEW p \in Procs, h[p].healthy, ~used.raced
               PROVE  h[p].id = db.id /\ files.sidecar = db.id
    BY DEF IdsAgree
  <2>1. h[p].pc = "open" BY DEF IInv, HandleOK
  <2>2. h[p].id = db.id BY <2>1 DEF IInv, HandleOK, Identified
  <2>3. files.sidecar = h[p].id BY <2>1 DEF IInv, HandleOK
  <2> QED BY <2>2, <2>3
<1> QED BY <1>1, Invariance, PTL

(* Whoever is refused with a recovery state leaves an envelope behind, or  *)
(* finds one begun.                                                        *)
THEOREM RefusalIsDisclosed == Spec => []Disclosed
<1>1. IInv => Disclosed BY DEF IInv, HandleOK, Disclosed
<1> QED BY <1>1, Invariance, PTL

(* COMPLETE is said of no page and no scope in which a flaw was seen, by   *)
(* any of the four reads of a query, whatever was written between them.    *)
THEOREM CompleteIsTrue == Spec => []CompleteIsClean
<1>1. IInv => CompleteIsClean BY DEF IInv, AskOK, CompleteIsClean, Flawed
<1> QED BY <1>1, Invariance, PTL

(* No step removes a stored row or rewrites one, except to mark a          *)
(* conflict: the evidence only grows.                                      *)
THEOREM EvidenceGrows == Spec => LogGrows
<1>1. IInv /\ [Next]_vars =>
        [/\ Len(db'.rows) >= Len(db.rows)
         /\ \A k \in DOMAIN db.rows :
              db'.rows[k] \in {db.rows[k], [db.rows[k] EXCEPT !.conflict = TRUE]}]_vars
  BY NextKeeps DEF Kept, DbKept, RowsKept
<1> QED BY <1>1, Invariance, PTL DEF Spec, LogGrows

(* A corrupt, foreign or newer file, or one of a stronger privacy          *)
(* generation, keeps its bytes through every step of every process.        *)
THEOREM RefusedKeepsItsBytes == Spec => RefusedUntouched
<1>1. IInv /\ [Next]_vars =>
        [db.kind \in {"corrupt", "foreign"} \/ db.version > VERSION \/ db.privacy > GENERATION
           => db'.bytes = db.bytes]_vars
  BY NextKeeps DEF Kept, DbKept, Refused
<1> QED BY <1>1, Invariance, PTL DEF Spec, RefusedUntouched
=============================================================================
