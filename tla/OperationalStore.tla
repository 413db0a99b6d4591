-------------------------- MODULE OperationalStore --------------------------
(***************************************************************************)
(* The operational store of Optics: one SQLite file in WAL mode, an id     *)
(* sidecar, a backup and a recovery envelope beside it, opened, written    *)
(* and queried by several processes that share nothing but the directory  *)
(* (optics_operational_store/store.py).                                    *)
(*                                                                         *)
(* A SQLite transaction is one step and may fail because another           *)
(* connection holds the lock (no connection waits); everything between two *)
(* transactions, file operations included, is interleaved, and a process   *)
(* may be killed anywhere.                                                 *)
(***************************************************************************)
EXTENDS Naturals, Integers, Sequences, FiniteSets

CONSTANTS
  Procs,        \* the processes that open the store
  Directories,  \* what may lie in the evidence root at the start
  Records,      \* the records a caller hands to put
  Queries,      \* the requests a caller hands to query
  Generations,  \* the privacy generations of the writers
  MaxOpens, MaxPuts, MaxQueries, MaxKills

VARIABLES
  db,       \* store.sqlite with its write-ahead log
  files,    \* the sidecar, the backup, the envelope, and the directory's mode
  h,        \* the handle of each process
  ask,      \* the query each process is answering, and what its pages held
  used      \* how much of each bound is used, and what the runs exempt

vars == <<db, files, h, ask, used>>

None == 0          \* SQL NULL, and an id that is not there
Torn == -1         \* a file whose bytes were never written
VERSION == 1       \* OPERATIONAL_SCHEMA_VERSION
GENERATION == 1    \* PRIVACY_GENERATION

NoDb == [kind |-> "absent", version |-> 0, id |-> None, privacy |-> 0, wal |-> FALSE,
         bytes |-> 0, frames |-> FALSE, rows |-> <<>>, drops |-> 0]
NoFiles == [sidecar |-> None, backup |-> None, envelope |-> "none", tmp |-> FALSE, mode |-> "clear"]

NoHandle == [pc |-> "none", create |-> FALSE, gen |-> 0, before |-> 0, got |-> NoDb, sidecar |-> None,
             id |-> None, conn |-> FALSE, healthy |-> FALSE, reason |-> "none", recovery |-> "none",
             next |-> "none", preserved |-> FALSE, diagnostic |-> FALSE]
NoAsk == [pc |-> "none", q |-> <<>>, total |-> 0, dirty |-> FALSE, page |-> <<>>, more |-> FALSE, drops |-> 0,
          cursor |-> <<>>, seen |-> {}, twice |-> FALSE, owed |-> {}, result |-> "none"]

Init ==
  /\ \E d \in Directories : db = d.db /\ files = d.files
  /\ h = [p \in Procs |-> NoHandle]
  /\ ask = [p \in Procs |-> NoAsk]
  /\ used = [opens |-> 0, puts |-> 0, queries |-> 0, kills |-> 0, ids |-> 0, raced |-> FALSE, raised |-> FALSE]

-----------------------------------------------------------------------------
(* What the constants may be.  A row keeps the columns that put compares,  *)
(* that query sorts by and that completeness asks about.                   *)

Kinds == {"absent", "ours", "foreign", "corrupt"}
Envelopes == {"none", "STOPPED_PRESERVED", "RECOVERY_REQUIRED", "READ_ONLY_SALVAGE"}
Row == [event : Nat, ident : Nat, prod : Nat, at : Nat, flaw : STRING, conflict : BOOLEAN, torn : BOOLEAN]
Db == [kind : Kinds, version : Nat, id : Nat, privacy : Nat, wal : BOOLEAN, bytes : Nat, frames : BOOLEAN,
       rows : Seq(Row), drops : Nat]
Files == [sidecar : Nat \cup {Torn}, backup : Nat \cup {Torn}, envelope : Envelopes, tmp : BOOLEAN,
          mode : {"clear", "symlink", "denied", "unreadable"}]

(* An identity is stored once, and both sides of a conflict are marked.    *)
SoundRows(rows) ==
  \A j, k \in DOMAIN rows :
    (j # k /\ rows[j].event # None /\ rows[j].event = rows[k].event) =>
      rows[j].ident # rows[k].ident /\ rows[j].conflict /\ rows[k].conflict

(* The directory was left by earlier runs of this code or is someone       *)
(* else's: its rows were put there, a file that is missing has no schema,  *)
(* and the meta table that holds the privacy generation came with the      *)
(* first schema version.  The writers are of this version or weaker.       *)
ASSUME StoreAssumption ==
  /\ MaxOpens \in Nat /\ MaxPuts \in Nat /\ MaxQueries \in Nat /\ MaxKills \in Nat
  /\ Generations \subseteq 0..GENERATION
  /\ \A r \in Records : r \in [verdict : STRING, event : Nat, ident : Nat, prod : Nat, at : Nat, flaw : STRING]
  /\ \A d \in Directories :
       /\ d.db \in Db /\ d.files \in Files /\ SoundRows(d.db.rows)
       /\ d.db.kind = "absent" => d.db.version = 0
       /\ d.db.version < VERSION => d.db.privacy = 0

-----------------------------------------------------------------------------
(* SQLite.                                                                 *)

Busy(p) == \E q \in Procs \ {p} : h[q].conn

(* PRAGMA journal_mode=WAL rewrites the header of a file not yet in WAL.   *)
journal_is_wal(d) == IF d.wal THEN d ELSE [d EXCEPT !.wal = TRUE, !.bytes = @ + 1]

(* The last connection that closes copies the log into the file.           *)
Checkpoint(p, d) ==
  IF d.frames /\ ~Busy(p) THEN [d EXCEPT !.frames = FALSE, !.bytes = @ + 1] ELSE d

install_schema(d, id) ==
  [d EXCEPT !.kind = "ours", !.version = VERSION, !.id = id, !.privacy = GENERATION, !.frames = TRUE]

integrity_ok(d) == d.kind # "corrupt"
Foreign(d) == d.kind = "foreign"

-----------------------------------------------------------------------------
(* Opening.                                                                *)

Set(p, r) == h' = [h EXCEPT ![p] = r]
Go(p, l) == Set(p, [h[p] EXCEPT !.pc = l])
Stopped(p, reason) == Set(p, [h[p] EXCEPT !.pc = "closed", !.reason = reason, !.conn = FALSE])
Rest == UNCHANGED <<ask, used>>

open_store(p, create, gen, sql) ==
  /\ h[p].pc = "none" /\ used.opens < MaxOpens
  /\ used' = [used EXCEPT !.opens = @ + 1]
  /\ Set(p, [NoHandle EXCEPT !.create = create, !.gen = gen, !.pc = IF sql THEN "closed" ELSE "locate",
                             !.reason = IF sql THEN "SQL_REJECTED" ELSE "none"])
  /\ UNCHANGED <<db, files, ask>>

(* What stops an open: the state and the code of the envelope, and whether *)
(* the bytes are known to be those read before.                            *)
Disclose(p, state, code, kept) ==
  Set(p, [h[p] EXCEPT !.pc = "envelope", !.recovery = state, !.next = state, !.reason = code,
                  !.preserved = kept, !.conn = FALSE])

open_located_store(p) ==
  /\ h[p].pc = "locate"
  /\ CASE files.mode = "symlink" -> Stopped(p, "SYMLINK_REFUSED")
       [] files.mode \in {"denied", "unreadable"} -> Disclose(p, "STOPPED_PRESERVED", "INTEGRITY_FAILED", FALSE)
       [] files.mode = "clear" /\ db.kind = "absent" ->
            IF h[p].create THEN Go(p, "create") ELSE Stopped(p, "STORE_ABSENT")
       [] OTHER -> Set(p, [h[p] EXCEPT !.pc = "probe", !.before = db.bytes])
  /\ UNCHANGED <<db, files>> /\ Rest

NewId == used.ids + 1    \* secrets.token_hex(16): never seen before

(* A new store: the file must still be missing when it is connected to.    *)
create_store(p) ==
  /\ h[p].pc = "create"
  /\ IF db.kind # "absent" THEN Stopped(p, "STORE_UNAVAILABLE") /\ UNCHANGED used
     ELSE /\ Set(p, [h[p] EXCEPT !.pc = "connect_new", !.id = NewId])
          /\ used' = [used EXCEPT !.ids = NewId]
  /\ UNCHANGED <<db, files, ask>>
connect_new(p) ==
  /\ h[p].pc = "connect_new"
  /\ db' = IF db.kind = "absent" THEN [db EXCEPT !.kind = "ours"] ELSE db
  /\ Set(p, [h[p] EXCEPT !.pc = "install", !.conn = TRUE])
  /\ UNCHANGED files /\ Rest
install_new(p) ==
  /\ h[p].pc = "install"
  /\ \/ /\ db' = install_schema(journal_is_wal(db), h[p].id) /\ Go(p, "check_id")
        /\ used' = [used EXCEPT !.raced = @ \/ db.id # None]
     \/ Busy(p) /\ Stopped(p, "STORE_UNAVAILABLE") /\ db' = Checkpoint(p, db) /\ UNCHANGED used
  /\ UNCHANGED <<files, ask>>

(* The sidecar: present and equal, or absent and written exclusively.      *)
WriteFailed(p) ==
  IF h[p].got.kind = "absent" \/ h[p].got.version = VERSION THEN Stopped(p, "STORE_UNAVAILABLE")
  ELSE Disclose(p, "RECOVERY_REQUIRED", "MIGRATION_FAILED", Checkpoint(p, db).bytes = h[p].before)
Opened(p) == Set(p, [h[p] EXCEPT !.pc = "open", !.healthy = TRUE, !.reason = "OK"])
AfterId(p) == IF h[p].got.kind # "absent" /\ h[p].got.version = VERSION THEN Go(p, "touch") ELSE Opened(p)

write_store_id_Blind(p) ==
  /\ h[p].pc = "check_id"
  /\ IF files.sidecar # None THEN AfterId(p) ELSE Go(p, "create_id")
  /\ UNCHANGED <<db, files>> /\ Rest

write_store_id(p) ==
  /\ h[p].pc = "check_id"
  /\ CASE files.sidecar = None -> Go(p, "create_id") /\ UNCHANGED db
       [] files.sidecar = h[p].id -> AfterId(p) /\ UNCHANGED db
       [] OTHER -> WriteFailed(p) /\ db' = Checkpoint(p, db)
  /\ UNCHANGED files /\ Rest
create_id(p) ==          \* O_EXCL: a sidecar that appeared meanwhile raises
  /\ h[p].pc = "create_id"
  /\ IF files.sidecar = None
     THEN files' = [files EXCEPT !.sidecar = Torn] /\ Go(p, "fill_id") /\ UNCHANGED <<db, used>>
     ELSE /\ Stopped(p, "RAISED") /\ db' = Checkpoint(p, db) /\ UNCHANGED files
          /\ used' = [used EXCEPT !.raised = TRUE]
  /\ UNCHANGED ask
fill_id(p) ==
  /\ h[p].pc = "fill_id"
  /\ files' = [files EXCEPT !.sidecar = h[p].id] /\ AfterId(p)
  /\ UNCHANGED db /\ Rest

(* An existing store: read it, see that reading changed nothing, decide.   *)
(* Version, metadata and tables are read at once: a schema installed in    *)
(* between changes all of them, and after an old version nothing that was  *)
(* read behind it is used.                                                 *)
probe_store(p) ==
  /\ h[p].pc = "probe"
  /\ Set(p, [h[p] EXCEPT !.pc = "decide", !.got = [db EXCEPT !.rows = <<>>]])
  /\ UNCHANGED <<db, files>> /\ Rest

ReadId == IF files.sidecar > 0 THEN files.sidecar ELSE None

NeedsMigration(d) == d.version < VERSION
open_existing(p) ==
  /\ h[p].pc = "decide"
  /\ LET d == h[p].got
         stop == Set(p, [h[p] EXCEPT !.pc = "backup", !.sidecar = ReadId, !.recovery = "RECOVERY_REQUIRED", !.reason = "MIGRATION_FAILED"])
     IN  CASE db.bytes # h[p].before -> Stopped(p, "BYTES_CHANGED")
           [] OTHER ->
              CASE ~integrity_ok(d) -> Disclose(p, "STOPPED_PRESERVED", "INTEGRITY_FAILED", TRUE)
                [] integrity_ok(d) /\ Foreign(d) -> stop
                [] integrity_ok(d) /\ ~Foreign(d) /\ d.version > VERSION -> Disclose(p, "RECOVERY_REQUIRED", "NEWER_SCHEMA_REFUSED", TRUE)
                [] integrity_ok(d) /\ ~Foreign(d) /\ NeedsMigration(d) ->
                     Set(p, [h[p] EXCEPT !.pc = "backup", !.sidecar = ReadId, !.recovery = "none"])
                [] OTHER ->
                   IF h[p].gen < d.privacy THEN Disclose(p, "RECOVERY_REQUIRED", "WEAKER_WRITER_REFUSED", TRUE)
                   ELSE IF d.id = None \/ ReadId \notin {None, d.id} THEN stop
                   ELSE Set(p, [h[p] EXCEPT !.pc = "connect", !.id = d.id])
  /\ UNCHANGED <<db, files>> /\ Rest

connect_existing(p) ==
  /\ h[p].pc = "connect"
  /\ \/ db' = journal_is_wal(db) /\ Set(p, [h[p] EXCEPT !.pc = "check_id", !.conn = TRUE])
     \/ Busy(p) /\ ~db.wal /\ Stopped(p, "STORE_UNAVAILABLE") /\ UNCHANGED db
  /\ UNCHANGED files /\ Rest
touch_meta(p) ==
  /\ h[p].pc = "touch"
  /\ \/ db' = [db EXCEPT !.frames = TRUE] /\ Opened(p)
     \/ Busy(p) /\ Stopped(p, "STORE_UNAVAILABLE") /\ db' = Checkpoint(p, db)
  /\ UNCHANGED files /\ Rest

(* The backup of a file that is migrated or refused: one that is there     *)
(* already counts, whatever is in it.                                      *)
BackedUp(p) ==
  IF h[p].recovery = "none" THEN Go(p, "migrate")
  ELSE Disclose(p, h[p].recovery, h[p].reason, db.bytes = h[p].before)
backup_database(p) ==
  /\ h[p].pc = "backup"
  /\ IF files.backup # None THEN BackedUp(p) ELSE Go(p, "new_backup")
  /\ UNCHANGED <<db, files>> /\ Rest
create_backup(p) ==      \* O_EXCL: a backup that appeared meanwhile is UNKNOWN
  /\ h[p].pc = "new_backup"
  /\ IF files.backup = None THEN files' = [files EXCEPT !.backup = Torn] /\ Go(p, "copy")
     ELSE UNCHANGED files /\ Disclose(p, "RECOVERY_REQUIRED", "MIGRATION_FAILED", db.bytes = h[p].before)
  /\ UNCHANGED db /\ Rest
copy_backup(p) ==
  /\ h[p].pc = "copy"
  /\ files' = [files EXCEPT !.backup = 1 + db.bytes] /\ BackedUp(p)
  /\ UNCHANGED db /\ Rest

(* A migration that fails on a lock may have switched the file to WAL.     *)
migrate(p) ==
  /\ h[p].pc = "migrate"
  /\ LET minted == IF h[p].sidecar # None THEN h[p].sidecar ELSE NewId
     IN  \/ /\ db' = install_schema(journal_is_wal(db), minted)
            /\ Set(p, [h[p] EXCEPT !.pc = "check_id", !.id = minted, !.conn = TRUE])
            /\ used' = [used EXCEPT !.ids = IF minted > @ THEN minted ELSE @,
                                    !.raced = @ \/ db.id # None]
         \/ /\ Busy(p) /\ UNCHANGED used
            /\ \E d \in {db, journal_is_wal(db)} :
                 db' = d /\ Disclose(p, "RECOVERY_REQUIRED", "MIGRATION_FAILED", d.bytes = h[p].before)
  /\ UNCHANGED <<files, ask>>

-----------------------------------------------------------------------------
(* The envelope is written aside and renamed; a directory that cannot be   *)
(* searched puts it beside.  A file left aside by a killed process refuses *)
(* every later envelope of the store; one file and one envelope stand for  *)
(* those of both directories and of every id the store had.                *)

write_envelope_Here(p) ==
  /\ h[p].pc = "envelope"
  /\ IF files.tmp \/ files.mode = "denied" THEN Go(p, "closed") /\ UNCHANGED files
     ELSE files' = [files EXCEPT !.tmp = TRUE] /\ Go(p, "rename")
  /\ UNCHANGED db /\ Rest

write_envelope(p) ==
  /\ h[p].pc = "envelope"
  /\ IF files.tmp THEN Go(p, "closed") /\ UNCHANGED files
     ELSE files' = [files EXCEPT !.tmp = TRUE] /\ Go(p, "rename")
  /\ UNCHANGED db /\ Rest
replace_envelope(p) ==
  /\ h[p].pc = "rename"
  /\ files' = [files EXCEPT !.tmp = FALSE, !.envelope = h[p].next]
  /\ Set(p, [h[p] EXCEPT !.pc = "closed", !.recovery = h[p].next]) /\ UNCHANGED db /\ Rest

salvage(p) ==
  /\ h[p].pc = "closed" /\ h[p].recovery = "STOPPED_PRESERVED"
  /\ Set(p, [h[p] EXCEPT !.pc = "envelope", !.next = "READ_ONLY_SALVAGE"])
  /\ UNCHANGED <<db, files>> /\ Rest

close(p) ==
  /\ h[p].pc \in {"open", "closed"} /\ ask[p].pc = "none"
  /\ Set(p, NoHandle) /\ db' = (IF h[p].conn THEN Checkpoint(p, db) ELSE db)
  /\ ask' = [ask EXCEPT ![p] = NoAsk] /\ UNCHANGED <<files, used>>

Kill(p) ==
  /\ h[p].pc \notin {"none", "closed"} /\ used.kills < MaxKills
  /\ used' = [used EXCEPT !.kills = @ + 1]
  /\ Set(p, NoHandle) /\ ask' = [ask EXCEPT ![p] = NoAsk] /\ UNCHANGED <<db, files>>

-----------------------------------------------------------------------------
(* put.  A record is [verdict, event, ident, prod, at, flaw]; the producer *)
(* and its sequence are one column.                                        *)

RowOf(r, conflict) == [event |-> r.event, ident |-> r.ident, prod |-> r.prod, at |-> r.at,
                       flaw |-> r.flaw, conflict |-> conflict, torn |-> FALSE]
Same(rows, r) == {k \in DOMAIN rows : r.event # None /\ rows[k].event = r.event}

NoteDrop(p, d) == [d EXCEPT !.drops = @ + 1, !.frames = TRUE]

Stored_Appended(rows, r) == Append(rows, RowOf(r, FALSE))
Stored(rows, r) ==
  LET existing == Same(rows, r)
      same == {k \in existing : rows[k].ident = r.ident}
  IN  CASE same # {} -> rows
        [] same = {} /\ \E k \in existing : rows[k].torn -> rows
        [] OTHER -> Append([k \in DOMAIN rows |-> IF k \in existing THEN [rows[k] EXCEPT !.conflict = TRUE] ELSE rows[k]],
                           RowOf(r, existing # {}))

Diagnosed(p) == Set(p, [h[p] EXCEPT !.diagnostic = TRUE])

put(p, r) ==
  /\ h[p].pc = "open" /\ ask[p].pc = "none" /\ used.puts < MaxPuts
  /\ used' = [used EXCEPT !.puts = @ + 1]
  /\ CASE r.verdict = "sql" -> UNCHANGED <<db, h>>
       [] r.verdict = "fault" -> Diagnosed(p) /\ UNCHANGED db
       [] r.verdict = "reject" ->
            \/ db' = NoteDrop(p, db) /\ UNCHANGED h
            \/ Busy(p) /\ Diagnosed(p) /\ UNCHANGED db
       [] OTHER ->
            \/ /\ db' = [db EXCEPT !.rows = Stored(@, r), !.frames = TRUE]
               /\ IF \E k \in Same(db.rows, r) : db.rows[k].torn THEN Diagnosed(p) ELSE UNCHANGED h
            \/ Busy(p) /\ Diagnosed(p) /\ UNCHANGED db
  /\ UNCHANGED <<files, ask>>

-----------------------------------------------------------------------------
(* query: four reads, each of the newest committed state.                  *)

validate_request(q) ==
  CASE "sql" \in q.keys -> "SQL_REJECTED"
    [] "sql" \notin q.keys /\ "regex" \in q.keys -> "REGEX_REJECTED"
    [] OTHER -> IF q.keys # {} THEN "REJECTED_FIELD"
                ELSE IF q.limit < 1 THEN "LIMIT_REJECTED"
                ELSE IF ~q.scoped THEN "TIME_RANGE_REQUIRED"
                ELSE "none"

Key(rows, k) == <<rows[k].at, rows[k].prod, rows[k].event, k>>

(* ORDER BY started_at, producer, event_id, row_id with NULLs first; only  *)
(* the first column follows the sort.                                      *)
Precedes(a, b, desc) ==
  LET c == CHOOSE n \in 1..4 : a[n] # b[n] /\ \A m \in 1..(n - 1) : a[m] = b[m]
  IN  IF c = 1 /\ desc THEN a[1] > b[1] ELSE a[c] < b[c]

(* The cursor clause: a NULL compares as neither equal nor greater.        *)
cursor_clause(a, cur, desc) ==
  LET eq(n) == a[n] = cur[n] /\ (n \in {2, 3} => cur[n] # None)
      gt(n) == a[n] > cur[n] /\ (n \in {2, 3} => cur[n] # None)
  IN  \/ IF desc THEN a[1] < cur[1] ELSE a[1] > cur[1]
      \/ \E n \in 2..4 : gt(n) /\ \A m \in 1..(n - 1) : eq(m)

(* The run may also be scoped by a time range, which drops are matched to. *)
Scope(rows) == DOMAIN rows
Found(rows, q, cur) ==
  {k \in Scope(rows) : cur = <<>> \/ cursor_clause(Key(rows, k), cur, q.desc)}

(* The first rows of what was found, at most as many as the limit.         *)
Page(rows, q, found) ==
  {k \in found : Cardinality({j \in found \ {k} : Precedes(Key(rows, j), Key(rows, k), q.desc)}) < q.limit}
LastOf(rows, q, page) ==
  CHOOSE k \in page : \A j \in page \ {k} : Precedes(Key(rows, j), Key(rows, k), q.desc)

Reasons(row) == row.flaw # "none" \/ row.conflict \/ row.torn
scope_completeness_First(rows, page) == \A k \in DOMAIN page : ~Reasons(page[k])

scope_completeness(rows, page) == \A k \in Scope(rows) : ~Reasons(rows[k])

Ask(p, r) == ask' = [ask EXCEPT ![p] = r]

query(p, q) ==
  /\ h[p].pc \in {"open", "closed"} /\ ask[p].pc = "none" /\ used.queries < MaxQueries
  /\ used' = [used EXCEPT !.queries = @ + 1]
  /\ LET more == ask[p].more /\ ask[p].q = q
         a == IF more THEN [ask[p] EXCEPT !.result = "none"] ELSE [NoAsk EXCEPT !.q = q]
     IN  IF validate_request(q) # "none" \/ ~h[p].healthy
         THEN Ask(p, [NoAsk EXCEPT !.q = q, !.result = "UNAVAILABLE"])
         ELSE Ask(p, [a EXCEPT !.pc = "page", !.total = Cardinality(Scope(db.rows)),
                               !.dirty = \E k \in Scope(db.rows) : Reasons(db.rows[k]),
                               !.owed = IF more THEN @ ELSE Scope(db.rows)])
  /\ UNCHANGED <<db, files, h>>
query_page(p) ==
  /\ ask[p].pc = "page"
  /\ LET a == ask[p]
         found == Found(db.rows, a.q, a.cursor)
         page == Page(db.rows, a.q, found)
         more == page # found
     IN  Ask(p, [a EXCEPT !.pc = "drops", !.page = [k \in page |-> db.rows[k]], !.more = more,
                          !.cursor = IF more THEN Key(db.rows, LastOf(db.rows, a.q, page)) ELSE <<>>,
                          !.twice = @ \/ page \cap a.seen # {}, !.seen = @ \cup page])
  /\ UNCHANGED <<db, files, h, used>>
query_drops(p) ==
  /\ ask[p].pc = "drops" /\ Ask(p, [ask[p] EXCEPT !.pc = "scope", !.drops = db.drops])
  /\ UNCHANGED <<db, files, h, used>>
query_scope(p) ==
  /\ ask[p].pc = "scope"
  /\ LET complete == ask[p].drops = 0 /\ scope_completeness(db.rows, ask[p].page)
     IN  Ask(p, [ask[p] EXCEPT !.pc = "none", !.result = IF complete THEN "COMPLETE" ELSE "PARTIAL"])
  /\ UNCHANGED <<db, files, h, used>>

-----------------------------------------------------------------------------
Open(p) ==
  \/ open_located_store(p) \/ create_store(p) \/ connect_new(p) \/ install_new(p)
  \/ write_store_id(p) \/ create_id(p) \/ fill_id(p)
  \/ probe_store(p) \/ open_existing(p) \/ connect_existing(p) \/ touch_meta(p)
  \/ backup_database(p) \/ create_backup(p) \/ copy_backup(p) \/ migrate(p)
  \/ write_envelope(p) \/ replace_envelope(p)

Read(p) == query_page(p) \/ query_drops(p) \/ query_scope(p)

Next ==
  \E p \in Procs :
    \/ \E create, sql \in BOOLEAN, gen \in Generations : open_store(p, create, gen, sql)
    \/ Open(p) \/ salvage(p) \/ close(p) \/ Kill(p)
    \/ \E r \in Records : put(p, r)
    \/ \E q \in Queries : query(p, q)
    \/ Read(p)

(* A call that was made returns: no step of it waits for anyone.           *)
Fairness == \A p \in Procs : WF_vars(Open(p)) /\ WF_vars(Read(p))

Spec == Init /\ [][Next]_vars /\ Fairness

-----------------------------------------------------------------------------
(* Type invariant.  A healthy handle has a connection to a database of     *)
(* this schema version.                                                    *)
TypeOK ==
  /\ db.kind \in {"absent", "ours", "foreign", "corrupt"}
  /\ files.envelope \in {"none", "STOPPED_PRESERVED", "RECOVERY_REQUIRED", "READ_ONLY_SALVAGE"}
  /\ \A p \in Procs : h[p].healthy => h[p].conn /\ db.kind = "ours" /\ db.version = VERSION

(* Whatever writers interleave, an identity is stored once, and two rows   *)
(* that share an event id with different identities both say so: put never *)
(* stores a duplicate and never leaves one side of a conflict unmarked.    *)
IdentitySound == SoundRows(db.rows)

(* Evidence is never rewritten: no open, migration, salvage, put or kill   *)
(* removes a stored row or changes it, except to mark a conflict.          *)
LogGrows ==
  [][/\ Len(db'.rows) >= Len(db.rows)
     /\ \A k \in DOMAIN db.rows :
          db'.rows[k] \in {db.rows[k], [db.rows[k] EXCEPT !.conflict = TRUE]}]_vars

(* A file this version must not write (corrupt, foreign, newer, or written *)
(* by a stronger privacy generation) keeps its bytes through every open,   *)
(* salvage and migration attempt.                                          *)
RefusedUntouched ==
  [][db.kind \in {"corrupt", "foreign"} \/ db.version > VERSION \/ db.privacy > GENERATION
       => db'.bytes = db.bytes]_vars

(* A store that is open for writing has one identity: its handle, the      *)
(* database and the sidecar name the same id.  The exception is a schema   *)
(* installed over another one: two processes that create or migrate the    *)
(* store at the same time (raced).                                         *)
IdsAgree ==
  \A p \in Procs : h[p].healthy /\ ~used.raced => h[p].id = db.id /\ files.sidecar = db.id

(* A store that stopped is disclosed: whoever was refused with a recovery  *)
(* state finds an envelope on disk, in the directory that can hold it, or  *)
(* one that another process has begun to write.                            *)
Disclosed ==
  \A p \in Procs : h[p].pc = "closed" /\ h[p].recovery # "none" => files.envelope # "none" \/ files.tmp

(* An answer that says COMPLETE has no sampled, unfinished, uncovered,     *)
(* conflicting or unreadable row on its page or in the scope it counted,   *)
(* later pages included, although the count, the page, the drops and the   *)
(* scope are read in separate statements among other writers.              *)
CompleteIsClean ==
  \A p \in Procs :
    ask[p].result = "COMPLETE" => ~ask[p].dirty /\ \A k \in DOMAIN ask[p].page : ~Reasons(ask[p].page[k])

(* hasMore false means no further page exists: a caller that follows the   *)
(* cursors to the end has seen every row of the scope that was there at    *)
(* its first page, and none of them twice, while others insert rows.       *)
HasMoreIsTrue ==
  \A p \in Procs :
    LET a == ask[p] IN
    a.pc = "none" /\ a.result \in {"COMPLETE", "PARTIAL"} /\ ~a.more =>
      a.owed \subseteq a.seen /\ ~a.twice
=============================================================================
