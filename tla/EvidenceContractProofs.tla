----------------------- MODULE EvidenceContractProofs -----------------------
(***************************************************************************)
(* Proofs about the evidence validator, for every number of unusual values *)
(* and every bound on the calls of a run log.                              *)
(*                                                                         *)
(* Most fields only add to the record under construction: a value that may *)
(* be stored, marks, a worse disposition (Grows).  The few that decide     *)
(* where a trace or an origin comes from are read before it is stored, in  *)
(* every script (OrderedTrace, OrderedOrigin), so that what was true when  *)
(* it was stored is still true when the record is finished (Earned).  The  *)
(* account of a run log is followed from call to call (LogAccount).        *)
(***************************************************************************)
EXTENDS EvidenceContract, FiniteSetTheorems, TLAPS

-----------------------------------------------------------------------------
(* Types.                                                                  *)

Kinds == DOMAIN Scripts \cup {"none", "log", "terminal"}
Healths == [events : Nat, redactions : Nat, contexts : Nat, sessions : Nat]
Traces == [seen : BOOLEAN, ids : SUBSET Ids,
           from : {"none", "trace_id", "vantio_trace_id", "traceparent"}, witness : BOOLEAN]
Destinations == [st : {"open", "empty", "unsafe", "conflict"}, first : Hosts \cup {"none"},
                 hosts : SUBSET Hosts, scheme : BOOLEAN, full : BOOLEAN]

\* A record under construction: these fields, whatever the values it stores.
IsState(x) ==
  x \in [kind : Kinds, at : Nat, disp : 0 .. 5, rec : {x.rec}, health : Healths,
         privacy : BOOLEAN, drop_record : BOOLEAN, context_rejected : BOOLEAN, inherited_trace : BOOLEAN,
         local_event : BOOLEAN, producer : {"none", "ok", "demo_command"}, version : BOOLEAN,
         trace : Traces, spans : BOOLEAN, session : {x.session}, dest : Destinations,
         reader_origin : {x.reader_origin}]

\* What is kept of a call of a run log.
IsCall(x) == x \in [emitted : BOOLEAN, rec : {x.rec}, disp : 0 .. 5, privacy : BOOLEAN]

WellTyped ==
  /\ pc \in {"enter", "build", "calls", "done"}
  /\ IsState(b) /\ IsState(env) /\ left \in Nat
  /\ \E S : kids \in Seq(S)
  /\ \A i \in DOMAIN kids : IsCall(kids[i])

-----------------------------------------------------------------------------
(* What holds of a record under construction.                              *)

\* What no record may carry.
Dirty == {"longsecret"} \cup Bound \cup (DOMAIN Encodings \ Unseen)
Clean(rec) == \A e \in rec : e[2] \notin Dirty

\* The worst disposition is that of a dropped record, which is counted once.
Account(x) ==
  /\ x.drop_record <=> x.disp = 5
  /\ x.health.events = IF x.drop_record THEN 1 ELSE 0

\* The grounds for a generated trace and for an origin of one's own.
TraceEarned(x) ==
  /\ <<"trace_id_basis", "OPTICS_GENERATED">> \in x.rec => x.trace.witness /\ recognized_producer(x)
  /\ Stores(x, "trace_id") <=> Stores(x, "trace_id_basis")

OriginEarned(x) ==
  /\ <<"evidence_origin", "LOCAL_OBSERVATION">> \in x.rec =>
       /\ recognized_producer(x) /\ x.producer # "demo_command"
       /\ <<"destination_host", "demo">> \notin x.rec
       /\ x.inherited_trace => x.local_event
  /\ \A e \in x.rec : e[1] = "evidence_origin" => e[2] = x.reader_origin

\* A step of its script that the record has behind it.
Passed(x, s) == \E i \in 1 .. x.at - 1 : i \in DOMAIN Scripts[x.kind] /\ Scripts[x.kind][i] = s

\* A trace and an origin are stored by their own step and by no other.
OrderedTrace(x) == Stores(x, "trace_id_basis") => Passed(x, "trace_id_basis")
OrderedOrigin(x) == Stores(x, "evidence_origin") => Passed(x, "evidence_origin")

Earned(x) == Clean(x.rec) /\ TraceEarned(x) /\ OriginEarned(x)
Building(x) == Account(x) /\ Earned(x) /\ OrderedTrace(x) /\ OrderedOrigin(x)

-----------------------------------------------------------------------------
(* A run log and its calls.                                                *)

Lost == {i \in DOMAIN kids : ~kids[i].emitted}

KidsOK ==
  \A i \in DOMAIN kids : Clean(kids[i].rec) /\ (kids[i].emitted <=> kids[i].disp # 5)

LogAccount ==
  /\ env.health.events = Cardinality(Lost) + (IF env.drop_record THEN 1 ELSE 0)
  /\ env.disp = 5 <=> env.health.events > 0
  /\ \A i \in DOMAIN kids : kids[i].disp <= env.disp /\ (kids[i].privacy => env.privacy)

Phases ==
  /\ pc = "enter" => env.kind = "none"
  /\ pc = "build" => /\ b.kind \in DOMAIN Scripts /\ b.at \in Nat \ {0}
                     /\ env.kind \in {"none", "log", "envelope"}
                     /\ env.kind = "log" => b.kind = "envelope"
                     /\ env.kind = "envelope" => b.kind = "observation"
  /\ pc = "calls" => env.kind = "envelope"
  /\ pc \in {"enter", "build", "calls"} /\ env.kind # "envelope" => kids = <<>>

Returned == pc = "done" => Clean(result.rec) /\ Accounted

IInv ==
  /\ WellTyped
  /\ Phases
  /\ pc = "build" => Building(b)
  /\ KidsOK
  /\ pc \in {"build", "calls"} /\ env.kind = "envelope" => LogAccount /\ Clean(env.rec)
  /\ Returned

-----------------------------------------------------------------------------
(* What most steps do to the record.                                       *)

\* The fields by which a record says where it comes from.
Guarded == {"trace_id", "trace_id_basis", "evidence_origin", "destination_host"}

Grows(x, y) ==
  /\ IsState(y)
  /\ Account(x) => Account(y)
  /\ y.kind = x.kind /\ y.at = x.at /\ y.producer = x.producer /\ y.trace.witness = x.trace.witness
  /\ y.inherited_trace = x.inherited_trace /\ y.reader_origin = x.reader_origin
  /\ x.version => y.version
  /\ x.local_event => y.local_event
  /\ \A e \in y.rec : e \in x.rec \/ (e[1] \notin Guarded /\ e[2] \notin Dirty)
  /\ \A e \in x.rec : e[1] \in Guarded => e \in y.rec

LEMMA GrowsSame ==
  ASSUME NEW x, IsState(x)
  PROVE  Grows(x, x)
BY DEF Grows

LEMMA GrowsOn ==
  ASSUME NEW x, NEW y, NEW z, Grows(x, y), Grows(y, z)
  PROVE  Grows(x, z)
<1>1. /\ IsState(z)
      /\ Account(x) => Account(z)
      /\ z.kind = x.kind /\ z.at = x.at /\ z.producer = x.producer /\ z.trace.witness = x.trace.witness
      /\ z.inherited_trace = x.inherited_trace /\ z.reader_origin = x.reader_origin
      /\ x.version => z.version
      /\ x.local_event => z.local_event
  BY DEF Grows
<1>2. \A e \in z.rec : e \in x.rec \/ (e[1] \notin Guarded /\ e[2] \notin Dirty)
  BY DEF Grows
<1>3. \A e \in x.rec : e[1] \in Guarded => e \in z.rec
  BY DEF Grows
<1> QED  BY <1>1, <1>2, <1>3 DEF Grows

\* A change of fields that no property is about.
LEMMA QuietGrows ==
  ASSUME NEW x, IsState(x), NEW y, IsState(y), Account(x) => Account(y),
         y.kind = x.kind, y.at = x.at, y.producer = x.producer, y.trace.witness = x.trace.witness,
         y.inherited_trace = x.inherited_trace, y.reader_origin = x.reader_origin,
         x.version => y.version, x.local_event => y.local_event, y.rec = x.rec
  PROVE  Grows(x, y)
BY DEF Grows

LEMMA StateType ==
  ASSUME NEW x, IsState(x)
  PROVE  /\ x.kind \in Kinds /\ x.at \in Nat /\ x.disp \in 0 .. 5
         /\ x.health \in Healths /\ x.privacy \in BOOLEAN /\ x.drop_record \in BOOLEAN
         /\ x.inherited_trace \in BOOLEAN /\ x.local_event \in BOOLEAN /\ x.version \in BOOLEAN
         /\ x.producer \in {"none", "ok", "demo_command"} /\ x.trace \in Traces
         /\ x.dest \in Destinations
BY DEF IsState

LEMMA RankIs ==
  /\ Rank["ACCEPT"] = 0 /\ Rank["NORMALIZE"] = 1 /\ Rank["STRIP"] = 2
  /\ Rank["REPLACE_WITH_SAFE_CATEGORY"] = 3 /\ Rank["REJECT_FIELD"] = 4 /\ Rank["REJECT_RECORD"] = 5
BY DEF Rank

LEMMA DispositionGrows ==
  ASSUME NEW x, IsState(x),
         NEW d \in {"ACCEPT", "NORMALIZE", "STRIP", "REPLACE_WITH_SAFE_CATEGORY", "REJECT_FIELD"}
  PROVE  Grows(x, add_disposition(x, d))
<1> DEFINE y == add_disposition(x, d)
<1>1. Rank[d] \in 0 .. 4  BY RankIs
<1>2. PICK n \in 0 .. 5 : n = (IF Rank[d] > x.disp THEN Rank[d] ELSE x.disp)  BY <1>1, StateType
<1>3. y = [x EXCEPT !.disp = n]  BY <1>2 DEF add_disposition
<1>4. IsState(y)  BY <1>2, <1>3 DEF IsState
<1>5. y.disp = n /\ y.drop_record = x.drop_record /\ y.health = x.health /\ y.kind = x.kind
      /\ y.at = x.at /\ y.producer = x.producer /\ y.trace = x.trace /\ y.version = x.version
      /\ y.inherited_trace = x.inherited_trace /\ y.reader_origin = x.reader_origin
      /\ y.local_event = x.local_event /\ y.rec = x.rec
  BY <1>3 DEF IsState
<1>6. Account(x) => Account(y)  BY <1>1, <1>2, <1>5, StateType DEF Account
<1> QED  BY <1>4, <1>5, <1>6, QuietGrows

LEMMA PrivacyGrows ==
  ASSUME NEW x, IsState(x)
  PROVE  Grows(x, mark_privacy(x))
<1> DEFINE y == mark_privacy(x)
<1>1. y = [x EXCEPT !.privacy = TRUE, !.health.redactions = 1]  BY DEF mark_privacy
<1>2. x.health \in Healths  BY StateType
<1>3. y.health \in Healths /\ y.health.events = x.health.events  BY <1>1, <1>2 DEF IsState, Healths
<1>4. IsState(y)  BY <1>1, <1>3 DEF IsState
<1>5. y.disp = x.disp /\ y.drop_record = x.drop_record /\ y.kind = x.kind
      /\ y.at = x.at /\ y.producer = x.producer /\ y.trace = x.trace /\ y.version = x.version
      /\ y.inherited_trace = x.inherited_trace /\ y.reader_origin = x.reader_origin
      /\ y.local_event = x.local_event /\ y.rec = x.rec
  BY <1>1 DEF IsState
<1>6. Account(x) => Account(y)  BY <1>3, <1>5 DEF Account
<1> QED  BY <1>4, <1>5, <1>6, QuietGrows

\* Fields of one component each, for the steps that build on them.
LEMMA ContextGrows ==
  ASSUME NEW x, IsState(x), NEW n \in Nat
  PROVE  Grows(x, [x EXCEPT !.context_rejected = TRUE, !.health.contexts = n])
<1> DEFINE y == [x EXCEPT !.context_rejected = TRUE, !.health.contexts = n]
<1>1. x.health \in Healths  BY StateType
<1>2. y.health \in Healths /\ y.health.events = x.health.events  BY <1>1 DEF IsState, Healths
<1>3. IsState(y)  BY <1>2 DEF IsState
<1>4. y.disp = x.disp /\ y.drop_record = x.drop_record /\ y.kind = x.kind
      /\ y.at = x.at /\ y.producer = x.producer /\ y.trace = x.trace /\ y.version = x.version
      /\ y.inherited_trace = x.inherited_trace /\ y.reader_origin = x.reader_origin
      /\ y.local_event = x.local_event /\ y.rec = x.rec
  BY DEF IsState
<1>5. Account(x) => Account(y)  BY <1>2, <1>4 DEF Account
<1> QED  BY <1>3, <1>4, <1>5, QuietGrows

LEMMA SessionsGrows ==
  ASSUME NEW x, IsState(x), NEW n \in Nat
  PROVE  Grows(x, [x EXCEPT !.health.sessions = n])
<1> DEFINE y == [x EXCEPT !.health.sessions = n]
<1>1. x.health \in Healths  BY StateType
<1>2. y.health \in Healths /\ y.health.events = x.health.events  BY <1>1 DEF IsState, Healths
<1>3. IsState(y)  BY <1>2 DEF IsState
<1>4. y.disp = x.disp /\ y.drop_record = x.drop_record /\ y.kind = x.kind
      /\ y.at = x.at /\ y.producer = x.producer /\ y.trace = x.trace /\ y.version = x.version
      /\ y.inherited_trace = x.inherited_trace /\ y.reader_origin = x.reader_origin
      /\ y.local_event = x.local_event /\ y.rec = x.rec
  BY DEF IsState
<1>5. Account(x) => Account(y)  BY <1>2, <1>4 DEF Account
<1> QED  BY <1>3, <1>4, <1>5, QuietGrows

\* One field that neither the account nor a property looks at.
LEMMA AsideGrows ==
  ASSUME NEW x, IsState(x), NEW d \in Destinations, NEW s, NEW sp \in BOOLEAN,
         NEW t \in Traces, t.witness = x.trace.witness,
         NEW y, \/ y = [x EXCEPT !.dest = d] \/ y = [x EXCEPT !.session = s]
                \/ y = [x EXCEPT !.spans = sp] \/ y = [x EXCEPT !.trace = t]
                \/ y = [x EXCEPT !.version = TRUE] \/ y = [x EXCEPT !.local_event = TRUE]
                \/ y = [x EXCEPT !.dest = d, !.local_event = TRUE]
  PROVE  Grows(x, y)
<1>1. IsState(y)
  <2>1. CASE y = [x EXCEPT !.dest = d]  BY <2>1 DEF IsState
  <2>2. CASE y = [x EXCEPT !.session = s]  BY <2>2 DEF IsState
  <2>3. CASE y = [x EXCEPT !.spans = sp]  BY <2>3 DEF IsState
  <2>4. CASE y = [x EXCEPT !.trace = t]  BY <2>4 DEF IsState
  <2>5. CASE y = [x EXCEPT !.version = TRUE]  BY <2>5 DEF IsState
  <2>6. CASE y = [x EXCEPT !.local_event = TRUE]  BY <2>6 DEF IsState
  <2>7. CASE y = [x EXCEPT !.dest = d, !.local_event = TRUE]  BY <2>7 DEF IsState
  <2> QED  BY <2>1, <2>2, <2>3, <2>4, <2>5, <2>6, <2>7
<1>2. y.disp = x.disp /\ y.drop_record = x.drop_record /\ y.health = x.health /\ y.kind = x.kind
      /\ y.at = x.at /\ y.producer = x.producer /\ y.trace.witness = x.trace.witness
      /\ y.inherited_trace = x.inherited_trace /\ y.reader_origin = x.reader_origin /\ y.rec = x.rec
      /\ (x.version => y.version) /\ (x.local_event => y.local_event)
  BY DEF IsState
<1>3. Account(x) => Account(y)  BY <1>2 DEF Account
<1> QED  BY <1>1, <1>2, <1>3, QuietGrows

LEMMA RejectGrows ==
  ASSUME NEW x, IsState(x)
  PROVE  Grows(x, reject_field(x))
BY DispositionGrows DEF reject_field

LEMMA StripGrows ==
  ASSUME NEW x, IsState(x)
  PROVE  Grows(x, strip_key(x))
BY DispositionGrows DEF strip_key

\* Marked or not.
LEMMA MarkedGrows ==
  ASSUME NEW x, NEW z, NEW y, Grows(x, z), y = z \/ y = mark_privacy(z)
  PROVE  Grows(x, y)
<1>1. IsState(z)  BY DEF Grows
<1>2. Grows(z, y)  BY <1>1, PrivacyGrows, GrowsSame
<1> QED  BY <1>2, GrowsOn

LEMMA DetectorGrows ==
  ASSUME NEW x, IsState(x)
  PROVE  Grows(x, mark_detector(x))
<1>1. IsState(mark_privacy(x)) /\ Grows(x, mark_privacy(x))  BY PrivacyGrows DEF Grows
<1>2. Grows(mark_privacy(x), mark_detector(x))  BY <1>1, DispositionGrows DEF mark_detector
<1> QED  BY <1>1, <1>2, GrowsOn

LEMMA MarkContextGrows ==
  ASSUME NEW x, IsState(x)
  PROVE  Grows(x, mark_context(x))
<1> DEFINE y == [x EXCEPT !.context_rejected = TRUE, !.health.contexts = 1]
<1>1. Grows(x, y) /\ IsState(y)  BY ContextGrows DEF Grows
<1>2. mark_context(x) = add_disposition(y, "REJECT_FIELD")  BY DEF mark_context
<1> HIDE DEF y
<1>3. Grows(y, mark_context(x))  BY <1>1, <1>2, DispositionGrows
<1> QED  BY <1>1, <1>3, GrowsOn

LEMMA MarkSessionGrows ==
  ASSUME NEW x, IsState(x)
  PROVE  Grows(x, mark_session(x))
<1> DEFINE y == [x EXCEPT !.health.sessions = 1]
<1>1. Grows(x, y) /\ IsState(y)  BY SessionsGrows DEF Grows
<1>2. mark_session(x) = add_disposition(y, "REJECT_FIELD")  BY DEF mark_session
<1> HIDE DEF y
<1>3. Grows(y, mark_session(x))  BY <1>1, <1>2, DispositionGrows
<1> QED  BY <1>1, <1>3, GrowsOn

LEMMA DropGrows ==
  ASSUME NEW x, IsState(x)
  PROVE  Grows(x, drop_record(x))
<1> DEFINE y == drop_record(x)
<1> DEFINE z == [x EXCEPT !.drop_record = TRUE, !.health.events = 1]
<1>1. x.health \in Healths  BY StateType
<1>2. z.health \in Healths /\ z.health.events = 1 /\ z.drop_record = TRUE /\ z.disp = x.disp
  BY <1>1 DEF IsState, Healths
<1>3. IsState(z)  BY <1>2 DEF IsState
<1>4. z.kind = x.kind /\ z.at = x.at /\ z.producer = x.producer /\ z.trace = x.trace
      /\ z.version = x.version /\ z.inherited_trace = x.inherited_trace
      /\ z.reader_origin = x.reader_origin /\ z.local_event = x.local_event /\ z.rec = x.rec
  BY DEF IsState
<1>5. y = add_disposition(z, "REJECT_RECORD")  BY DEF drop_record
<1> HIDE DEF z
<1>6. (IF Rank["REJECT_RECORD"] > z.disp THEN Rank["REJECT_RECORD"] ELSE z.disp) = 5
  BY <1>3, RankIs, StateType
<1>7. y = [z EXCEPT !.disp = 5]  BY <1>5, <1>6 DEF add_disposition
<1>8. IsState(y)  BY <1>3, <1>7 DEF IsState
<1>9. y.disp = 5 /\ y.drop_record = z.drop_record /\ y.health = z.health /\ y.kind = z.kind
      /\ y.at = z.at /\ y.producer = z.producer /\ y.trace = z.trace /\ y.version = z.version
      /\ y.inherited_trace = z.inherited_trace /\ y.reader_origin = z.reader_origin
      /\ y.local_event = z.local_event /\ y.rec = z.rec
  BY <1>3, <1>7 DEF IsState
<1>10. Account(y)  BY <1>2, <1>9 DEF Account
<1> QED  BY <1>4, <1>8, <1>9, <1>10, QuietGrows

-----------------------------------------------------------------------------
(* What may be stored.                                                     *)

\* The detector finds a secret under one encoding that it does not pass over, and
\* under most pairs.
LEMMA SecretSeen ==
  ASSUME NEW c \in DOMAIN Encodings \ Unseen
  PROVE  contains_prohibited(c)
<1> USE DEF scan_all, scan_direct, scan_direct_raw, percent_decoded, scan_base64, Under
<1>1. c \in {"secret", "format", "percent", "base64", "confusable", "percent_confusable",
             "base64_format", "base64_slash"}
  BY DEF Encodings, Unseen
<1>r. ASSUME NEW run \in {"base64", "base64_slash"}
      PROVE  run \in DOMAIN Runs /\ (scan_runs(Runs[run], FALSE) \/ scan_runs(Runs[run], TRUE))
  <2>1. Runs["base64"] = {"enough", "whole", "padded", "upper"}
        /\ Runs["base64_slash"] = {"enough", "whole", "padded", "upper", "slash"}
    BY DEF Runs
  <2>2. scan_runs(Runs["base64"], FALSE)  BY <2>1 DEF scan_runs
  <2>3. scan_runs(Runs["base64_slash"], TRUE)  BY <2>1 DEF scan_runs
  <2>4. "base64" \in DOMAIN Runs /\ "base64_slash" \in DOMAIN Runs  BY DEF Runs
  <2> QED  BY <2>2, <2>3, <2>4
<1>23. ASSUME NEW run \in {"base64", "base64_slash"}, NEW t, Head(t) = run, t # <<>>, scan_direct(Tail(t))
      PROVE  scan_all(t)
  <2> HIDE DEF scan_direct
  <2>1. scan_base64(t)  BY <1>r, <1>23
  <2> QED  BY <2>1
<1>2. CASE c = "secret"  BY <1>2 DEF contains_prohibited, Encodings
<1>3. CASE c = "format"  BY <1>3 DEF contains_prohibited, Encodings
<1>4. CASE c = "percent"
  <2>1. Encodings[c] = <<"percent">>  BY <1>4 DEF Encodings
  <2>2. scan_all(<<"percent">>)  OBVIOUS
  <2> QED  BY <2>1, <2>2 DEF contains_prohibited
<1>5. CASE c = "base64"
  <2>1. Encodings[c] = <<"base64">>  BY <1>5 DEF Encodings
  <2>2. Head(<<"base64">>) = "base64" /\ <<"base64">> # <<>> /\ scan_direct(Tail(<<"base64">>))  OBVIOUS
  <2>3. scan_all(<<"base64">>)
    <3> HIDE DEF scan_all
    <3> QED  BY <1>23, <2>2
  <2> QED  BY <2>1, <2>3 DEF contains_prohibited
<1>6. CASE c = "confusable"
  <2>1. Encodings[c] = <<"confusable">>  BY <1>6 DEF Encodings
  <2>2. scan_all(<<"confusable">>)  OBVIOUS
  <2> QED  BY <2>1, <2>2 DEF contains_prohibited
<1>7. CASE c = "percent_confusable"
  <2>1. Encodings[c] = <<"percent", "confusable">>  BY <1>7 DEF Encodings
  <2>2. scan_all(<<"percent", "confusable">>)  OBVIOUS
  <2> QED  BY <2>1, <2>2 DEF contains_prohibited
<1>8. CASE c = "base64_format"
  <2>1. Encodings[c] = <<"base64", "format">>  BY <1>8 DEF Encodings
  <2>2. Head(<<"base64", "format">>) = "base64" /\ <<"base64", "format">> # <<>> /\ scan_direct(Tail(<<"base64", "format">>))  OBVIOUS
  <2>3. scan_all(<<"base64", "format">>)
    <3> HIDE DEF scan_all
    <3> QED  BY <1>23, <2>2
  <2> QED  BY <2>1, <2>3 DEF contains_prohibited
<1>9. CASE c = "base64_slash"
  <2>1. Encodings[c] = <<"base64_slash">>  BY <1>9 DEF Encodings
  <2>2. Head(<<"base64_slash">>) = "base64_slash" /\ <<"base64_slash">> # <<>> /\ scan_direct(Tail(<<"base64_slash">>))  OBVIOUS
  <2>3. scan_all(<<"base64_slash">>)
    <3> HIDE DEF scan_all
    <3> QED  BY <1>23, <2>2
  <2> QED  BY <2>1, <2>3 DEF contains_prohibited
<1> QED  BY <1>1, <1>2, <1>3, <1>4, <1>5, <1>6, <1>7, <1>8, <1>9

LEMMA CleanValues ==
  /\ "ok" \notin Dirty /\ "alt" \notin Dirty /\ "PRODUCER_SEQUENCE" \notin Dirty /\ "PARENT" \notin Dirty
  /\ \A c \in DOMAIN Encodings : ~contains_prohibited(c) => c \notin Dirty
<1>1. DOMAIN Encodings = {"secret", "format", "percent", "base64", "confusable", "percent_confusable",
                          "base64_format", "base64_percent", "base64_slash", "base64_short",
                          "base64_bare", "base64_dull", "base64_path", "base64_url"}
  BY DEF Encodings
<1> QED  BY <1>1, SecretSeen DEF Dirty, Bound

\* A field takes no value with a secret that the detector finds.
LEMMA FitsClean ==
  ASSUME NEW r, NEW c, Fits(r, c)
  PROVE  c \notin Dirty
BY CleanValues DEF Fits

Dispositions == {"ACCEPT", "NORMALIZE", "STRIP", "REPLACE_WITH_SAFE_CATEGORY", "REJECT_FIELD"}

LEMMA PutFree ==
  ASSUME NEW x, IsState(x), NEW f, f \notin Guarded, NEW v, v \notin Dirty \/ v \in Bound,
         NEW how \in Dispositions
  PROVE  Grows(x, put(x, f, v, how))
<1>1. CASE v \in Bound
  <2>1. Grows(x, reject_field(x)) /\ IsState(reject_field(x))  BY RejectGrows DEF Grows
  <2>2. put(x, f, v, how) = reject_field(x) \/ put(x, f, v, how) = mark_privacy(reject_field(x))
    BY <1>1 DEF put, MarkIf
  <2> QED  BY <2>1, <2>2, MarkedGrows
<1>2. CASE v \notin Bound /\ (f \in Kept \/ v \notin {"ok", "alt"})
  <2> DEFINE y == [x EXCEPT !.rec = {e \in @ : e[1] # f} \cup {<<f, v>>}]
  <2>1. put(x, f, v, how) = add_disposition(y, how)  BY <1>2 DEF put
  <2>4. IsState(y)  BY DEF IsState
  <2>5. y.disp = x.disp /\ y.drop_record = x.drop_record /\ y.health = x.health /\ y.kind = x.kind
        /\ y.at = x.at /\ y.producer = x.producer /\ y.trace = x.trace /\ y.version = x.version
        /\ y.inherited_trace = x.inherited_trace /\ y.reader_origin = x.reader_origin
        /\ y.local_event = x.local_event
        /\ y.rec = {e \in x.rec : e[1] # f} \cup {<<f, v>>}
    BY DEF IsState
  <2>6. Account(x) => Account(y)  BY <2>5 DEF Account
  <2>7. \A e \in y.rec : e \in x.rec \/ (e[1] \notin Guarded /\ e[2] \notin Dirty)  BY <1>2, <2>5
  <2>8. \A e \in x.rec : e[1] \in Guarded => e \in y.rec  BY <2>5
  <2> HIDE DEF y
  <2>9. Grows(x, y)  BY <2>4, <2>5, <2>6, <2>7, <2>8 DEF Grows
  <2>10. Grows(y, put(x, f, v, how))  BY <2>1, <2>4, DispositionGrows DEF Dispositions
  <2> QED  BY <2>9, <2>10, GrowsOn
<1>3. CASE v \notin Bound /\ f \notin Kept /\ v \in {"ok", "alt"}
  BY <1>3, DispositionGrows DEF put, Dispositions
<1> QED  BY <1>1, <1>2, <1>3

\* A guarded field: its old value goes, nothing else does.
Sets(x, y, f, v) ==
  /\ IsState(y)
  /\ Account(x) => Account(y)
  /\ y.kind = x.kind /\ y.at = x.at /\ y.producer = x.producer /\ y.trace = x.trace
  /\ y.inherited_trace = x.inherited_trace /\ y.reader_origin = x.reader_origin
  /\ y.version = x.version /\ y.local_event = x.local_event
  /\ y.rec = {e \in x.rec : e[1] # f} \cup {<<f, v>>}

LEMMA PutGuarded ==
  ASSUME NEW x, IsState(x), NEW f \in Guarded, NEW v, v \notin Bound, NEW how \in Dispositions
  PROVE  Sets(x, put(x, f, v, how), f, v)
<1> DEFINE y == [x EXCEPT !.rec = {e \in @ : e[1] # f} \cup {<<f, v>>}]
<1> DEFINE z == put(x, f, v, how)
<1>1. f \in Kept  BY DEF Guarded, Kept
<1>2. put(x, f, v, how) = add_disposition(y, how)  BY <1>1 DEF put
<1>4. IsState(y)  BY DEF IsState
<1>5. y.disp = x.disp /\ y.drop_record = x.drop_record /\ y.health = x.health /\ y.kind = x.kind
      /\ y.at = x.at /\ y.producer = x.producer /\ y.trace = x.trace /\ y.version = x.version
      /\ y.inherited_trace = x.inherited_trace /\ y.reader_origin = x.reader_origin
      /\ y.local_event = x.local_event
      /\ y.rec = {e \in x.rec : e[1] # f} \cup {<<f, v>>}
  BY DEF IsState
<1>6. Account(x) => Account(y)  BY <1>5 DEF Account
<1> HIDE DEF y
<1>7. Rank[how] \in 0 .. 4  BY RankIs DEF Dispositions
<1>8. PICK n \in 0 .. 5 : n = (IF Rank[how] > y.disp THEN Rank[how] ELSE y.disp)  BY <1>4, <1>7, StateType
<1>9. z = [y EXCEPT !.disp = n]  BY <1>2, <1>8 DEF add_disposition
<1>10. IsState(z)  BY <1>4, <1>8, <1>9 DEF IsState
<1>11. z.disp = n /\ z.drop_record = y.drop_record /\ z.health = y.health /\ z.kind = y.kind
       /\ z.at = y.at /\ z.producer = y.producer /\ z.trace = y.trace /\ z.version = y.version
       /\ z.inherited_trace = y.inherited_trace /\ z.reader_origin = y.reader_origin
       /\ z.local_event = y.local_event /\ z.rec = y.rec
  BY <1>4, <1>9 DEF IsState
<1>12. Account(y) => Account(z)  BY <1>4, <1>7, <1>8, <1>11, StateType DEF Account
<1> HIDE DEF z
<1>13. Sets(x, z, f, v)  BY <1>5, <1>6, <1>10, <1>11, <1>12 DEF Sets
<1> QED  BY <1>13 DEF z

-----------------------------------------------------------------------------
(* One field at a time: the steps that only add to the record.             *)

LEMMA NotesGrow ==
  ASSUME NEW x, IsState(x)
  PROVE  /\ Grows(x, x) /\ Grows(x, strip_key(x)) /\ Grows(x, reject_field(x))
         /\ Grows(x, add_disposition(x, "NORMALIZE")) /\ Grows(x, mark_privacy(x))
         /\ Grows(x, mark_context(x)) /\ Grows(x, mark_session(x)) /\ Grows(x, mark_detector(x))
         /\ Grows(x, drop_record(x))
BY GrowsSame, StripGrows, RejectGrows, DispositionGrows, PrivacyGrows, MarkContextGrows,
   MarkSessionGrows, DetectorGrows, DropGrows

\* A step after a step.
LEMMA NotesThen ==
  ASSUME NEW x, NEW z, Grows(x, z)
  PROVE  /\ Grows(x, strip_key(z)) /\ Grows(x, reject_field(z)) /\ Grows(x, mark_privacy(z))
         /\ Grows(x, drop_record(z)) /\ Grows(x, mark_context(z)) /\ Grows(x, mark_session(z))
         /\ Grows(x, mark_detector(z)) /\ Grows(x, add_disposition(z, "NORMALIZE"))
<1>1. IsState(z)  BY DEF Grows
<1> QED  BY <1>1, NotesGrow, GrowsOn

LEMMA FieldGrows ==
  ASSUME NEW x, IsState(x), NEW f, f \notin Guarded, NEW c
  PROVE  Grows(x, Field(x, f, c))
<1> DEFINE r == Rules[f]
<1> DEFINE y == Field(x, f, c)
<1>1. CASE Fits(r, c)
  <2>1. c \notin Dirty  BY <1>1, FitsClean
  <2>2. PICK how \in Dispositions : how = (IF c = "alt" THEN "NORMALIZE" ELSE "ACCEPT")
    BY DEF Dispositions
  <2>3. Grows(x, put(x, f, c, how))  BY <2>1, PutFree
  <2>4. y = x \/ y = add_disposition(x, "NORMALIZE") \/ y = put(x, f, c, how)
    BY <1>1, <2>2 DEF Field
  <2> QED  BY <2>3, <2>4, NotesGrow
<1>2. CASE ~Fits(r, c)
  <2>1. PICK z \in {x, add_disposition(x, "NORMALIZE"), reject_field(x)} : y = z \/ y = mark_privacy(z)
    BY <1>2 DEF Field, MarkIf
  <2> QED  BY <2>1, NotesGrow, NotesThen
<1> QED  BY <1>1, <1>2

LEMMA VersionGrows ==
  ASSUME NEW x, IsState(x), NEW c
  PROVE  Grows(x, cli_or_sdk_version(x, c))
<1>1. Grows(x, [x EXCEPT !.version = TRUE])
  <2>1. x.trace \in Traces /\ x.dest \in Destinations  BY StateType
  <2> QED  BY <2>1, AsideGrows
<1> QED  BY <1>1, NotesGrow, NotesThen DEF cli_or_sdk_version, MarkIf

LEMMA IdentityGrows ==
  ASSUME NEW x, IsState(x), NEW c
  PROVE  /\ Grows(x, producer_id(x, c)) /\ Grows(x, event_id(x, c)) /\ Grows(x, sequence(x, c))
         /\ Grows(x, identity_conflict(x, c))
<1>1. "producer_id" \notin Guarded /\ "event_id" \notin Guarded /\ "identity_conflict" \notin Guarded
  BY DEF Guarded
<1>2. "ACCEPT" \in Dispositions /\ "NORMALIZE" \in Dispositions  BY DEF Dispositions
<1>3. Grows(x, producer_id(x, c))
  <2> DEFINE z == put(x, "producer_id", "ok", "ACCEPT")
  <2>1. Grows(x, z) /\ IsState(z)
    <3>1. Grows(x, z)  BY <1>1, <1>2, PutFree, CleanValues
    <3> QED  BY <3>1 DEF Grows
  <2> HIDE DEF z
  <2>2. Grows(z, put(z, "identity_conflict", "PRODUCER_SEQUENCE", "NORMALIZE"))
    BY <1>1, <1>2, <2>1, PutFree, CleanValues
  <2>3. Grows(x, put(z, "identity_conflict", "PRODUCER_SEQUENCE", "NORMALIZE"))  BY <2>1, <2>2, GrowsOn
  <2> QED  BY <1>1, <2>3, FieldGrows DEF producer_id, z
<1>4. Grows(x, event_id(x, c))  BY <1>1, FieldGrows, NotesGrow DEF event_id
<1>5. Grows(x, sequence(x, c))
  <2>1. Grows(x, put(x, "identity_conflict", "PRODUCER_SEQUENCE", "NORMALIZE"))
    BY <1>1, <1>2, PutFree, CleanValues
  <2> QED  BY <2>1, NotesGrow DEF sequence
<1>6. Grows(x, identity_conflict(x, c))  BY <1>1, FieldGrows, NotesGrow DEF identity_conflict
<1> QED  BY <1>3, <1>4, <1>5, <1>6

LEMMA SessionGrows ==
  ASSUME NEW x, IsState(x), NEW c
  PROVE  Grows(x, session_id(x, c)) /\ Grows(x, apply_session(x, c))
<1>1. x.trace \in Traces /\ x.dest \in Destinations  BY StateType
<1>2. Grows(x, session_id(x, c))  BY <1>1, AsideGrows DEF session_id
<1>3. Grows(x, apply_session(x, c))
  <2> DEFINE y == [x EXCEPT !.session = "absent"]
  <2> DEFINE sid == x.session
  <2>1. Grows(x, y)  BY <1>1, AsideGrows
  <2>2. \/ apply_session(x, c) = y
        \/ apply_session(x, c) \in {mark_session(y), mark_privacy(mark_session(y))}
        \/ apply_session(x, c) = check_session(y, sid, c)
    BY DEF apply_session, MarkIf
  <2> HIDE DEF y
  <2>3. check_session(y, sid, c) \in {y, reject_field(y), mark_privacy(reject_field(y)), mark_session(y),
                                      mark_privacy(mark_session(y))}
    BY DEF check_session, MarkIf
  <2> QED  BY <2>1, <2>2, <2>3, NotesThen
<1> QED  BY <1>2, <1>3

LEMMA SourceGrows ==
  ASSUME NEW x, IsState(x), NEW from \in {"trace_id", "vantio_trace_id", "traceparent"}, NEW c
  PROVE  Grows(x, TraceSource(x, from, c))
<1> DEFINE y == [x EXCEPT !.trace.seen = TRUE]
<1> DEFINE w == [y EXCEPT !.trace.ids = @ \cup {c},
                          !.trace.from = IF @ = "none" \/ @ = "trace_id" THEN from ELSE @]
<1>1. x.trace \in Traces /\ x.dest \in Destinations  BY StateType
<1>2. Grows(x, y)
  <2>1. PICK t \in Traces : t = [x.trace EXCEPT !.seen = TRUE] /\ t.witness = x.trace.witness
    BY <1>1 DEF Traces
  <2>2. y = [x EXCEPT !.trace = t]  BY <2>1 DEF IsState
  <2> QED  BY <1>1, <2>1, <2>2, AsideGrows
<1>3. IsState(y)  BY <1>2 DEF Grows
<1> HIDE DEF y
<1>4. c \in Ids => Grows(x, w)
  <2> SUFFICES ASSUME c \in Ids  PROVE Grows(x, w)  OBVIOUS
  <2>1. y.trace \in Traces /\ y.dest \in Destinations  BY <1>3, StateType
  <2>2. PICK f \in {"none", "trace_id", "vantio_trace_id", "traceparent"} :
          f = (IF y.trace.from = "none" \/ y.trace.from = "trace_id" THEN from ELSE y.trace.from)
    BY <2>1 DEF Traces
  <2>3. PICK t \in Traces : /\ t = [y.trace EXCEPT !.ids = y.trace.ids \cup {c}, !.from = f]
                            /\ t.witness = y.trace.witness
    <3> DEFINE t == [y.trace EXCEPT !.ids = y.trace.ids \cup {c}, !.from = f]
    <3>1. y.trace.ids \cup {c} \in SUBSET Ids  BY <2>1 DEF Traces
    <3>2. t \in Traces  BY <2>1, <2>2, <3>1 DEF Traces
    <3>3. t.witness = y.trace.witness  BY <2>1 DEF Traces
    <3> QED  BY <3>2, <3>3
  <2>4. w = [y EXCEPT !.trace = t]  BY <1>3, <2>1, <2>2, <2>3 DEF IsState, Traces
  <2>5. Grows(y, w)  BY <1>3, <2>1, <2>3, <2>4, AsideGrows
  <2> QED  BY <1>2, <2>5, GrowsOn
<1>5. \/ c \in Ids /\ TraceSource(x, from, c) = w
      \/ TraceSource(x, from, c) \in {y, reject_field(y), mark_context(y), mark_privacy(mark_context(y))}
  BY DEF TraceSource, MarkIf, y
<1> QED  BY <1>2, <1>4, <1>5, NotesThen

LEMMA SpanGrows ==
  ASSUME NEW x, IsState(x), NEW c
  PROVE  Grows(x, span(x, c))
BY NotesGrow, NotesThen DEF span, MarkIf

\* The destination.
LEMMA DestGrows ==
  ASSUME NEW x, NEW z, Grows(x, z), NEW d \in Destinations
  PROVE  Grows(x, [z EXCEPT !.dest = d])
<1>1. IsState(z) /\ z.trace \in Traces  BY StateType DEF Grows
<1>2. Grows(z, [z EXCEPT !.dest = d])  BY <1>1, AsideGrows
<1> QED  BY <1>2, GrowsOn

LEMMA DestStateGrows ==
  ASSUME NEW x, NEW z, Grows(x, z), NEW st \in {"open", "empty", "unsafe", "conflict"}
  PROVE  Grows(x, [z EXCEPT !.dest.st = st])
<1>1. IsState(z) /\ z.dest \in Destinations  BY StateType DEF Grows
<1>2. PICK d \in Destinations : d = [z.dest EXCEPT !.st = st]  BY <1>1 DEF Destinations
<1>3. [z EXCEPT !.dest.st = st] = [z EXCEPT !.dest = d]  BY <1>1, <1>2 DEF IsState
<1> QED  BY <1>3, DestGrows

LEMMA ParsedGrows ==
  ASSUME NEW x, NEW z, Grows(x, z), NEW h \in Hosts, NEW s \in BOOLEAN, NEW f \in BOOLEAN
  PROVE  Grows(x, Parsed(z, h, s, f))
<1>1. IsState(z) /\ z.dest \in Destinations  BY StateType DEF Grows
<1>2. PICK g \in Hosts : g = (IF z.dest.first = "none" THEN h ELSE z.dest.first)  BY <1>1 DEF Destinations
<1>3. PICK s2 \in BOOLEAN : s2 = (z.dest.scheme \/ s)  BY Zenon
<1>4. PICK f2 \in BOOLEAN : f2 = (z.dest.full \/ f)  BY Zenon
<1>5. PICK d \in Destinations :
        d = [z.dest EXCEPT !.first = g, !.hosts = @ \cup {h}, !.scheme = s2, !.full = f2]
  BY <1>1 DEF Destinations
<1>6. Parsed(z, h, s, f) = [z EXCEPT !.dest.first = g, !.dest.hosts = @ \cup {h},
                                     !.dest.scheme = s2, !.dest.full = f2]
  <2>1. Parsed(z, h, s, f) = [z EXCEPT !.dest.first = IF @ = "none" THEN h ELSE @, !.dest.hosts = @ \cup {h},
                                       !.dest.scheme = @ \/ s, !.dest.full = @ \/ f]
    BY DEF Parsed
  <2> QED  BY <1>1, <1>2, <1>3, <1>4, <2>1 DEF IsState, Destinations
<1>7. Parsed(z, h, s, f) = [z EXCEPT !.dest = d]  BY <1>1, <1>5, <1>6 DEF IsState, Destinations
<1> QED  BY <1>7, DestGrows

LEMMA UnsafeGrows ==
  ASSUME NEW x, NEW z, Grows(x, z), NEW c
  PROVE  Grows(x, Unsafe(z, c)) /\ Grows(x, Conflict(z))
<1>1. Grows(x, [z EXCEPT !.dest.st = "unsafe"]) /\ Grows(x, [z EXCEPT !.dest.st = "conflict"])
  BY DestStateGrows
<1>2. /\ Grows(x, reject_field([z EXCEPT !.dest.st = "unsafe"]))
      /\ Grows(x, reject_field([z EXCEPT !.dest.st = "conflict"]))
  BY <1>1, NotesThen
<1>3. Grows(x, mark_privacy(reject_field([z EXCEPT !.dest.st = "unsafe"])))  BY <1>2, NotesThen
<1> QED  BY <1>2, <1>3 DEF Unsafe, Conflict, MarkIf

LEMMA AskedGrows ==
  ASSUME NEW x, IsState(x), NEW c
  PROVE  Grows(x, aside(x, c)) /\ Grows(x, connected(x, c)) /\ Grows(x, requested(x, c))
<1> DEFINE z == strip_key(x)
<1>1. Grows(x, z)  BY NotesGrow
<1>2. Grows(x, aside(x, c))  BY NotesGrow, NotesThen DEF aside, MarkIf
<1>3. "A" \in Hosts  BY DEF Hosts
<1>4. TRUE \in BOOLEAN /\ FALSE \in BOOLEAN  OBVIOUS
<1> HIDE DEF z
<1>5. Grows(x, connected(x, c))
  <2>1. c \in Hosts => Grows(x, Parsed(z, c, FALSE, FALSE))  BY <1>1, <1>4, ParsedGrows
  <2>2. Grows(x, Unsafe(z, c))  BY <1>1, UnsafeGrows
  <2> QED  BY <2>1, <2>2, NotesGrow DEF connected, z
<1>6. Grows(x, parse_destination(z, c))
  <2>1. c \in Hosts => Grows(x, Parsed(z, c, TRUE, FALSE))  BY <1>1, <1>4, ParsedGrows
  <2>2. Grows(x, Parsed(z, "A", TRUE, TRUE)) /\ Grows(x, Parsed(z, "A", TRUE, FALSE))
    BY <1>1, <1>3, <1>4, ParsedGrows
  <2>3. Grows(x, mark_privacy(Parsed(z, "A", TRUE, FALSE)))  BY <2>2, NotesThen
  <2>4. Grows(x, Unsafe(z, c))  BY <1>1, UnsafeGrows
  <2> QED  BY <2>1, <2>2, <2>3, <2>4 DEF parse_destination
<1>7. Grows(x, requested(x, c))  BY <1>1, <1>6, NotesGrow DEF requested, z
<1> QED  BY <1>2, <1>5, <1>7

LEMMA HostGrows ==
  ASSUME NEW x, IsState(x), NEW c
  PROVE  Grows(x, destination_host(x, c))
<1>1. Grows(x, x)  BY NotesGrow
<1>2. Grows(x, Unsafe(x, c)) /\ Grows(x, Conflict(x))  BY <1>1, UnsafeGrows
<1>3. Grows(x, [x EXCEPT !.dest.st = "empty"])  BY <1>1, DestStateGrows
<1>4. PICK h \in Hosts \cup {"none"} : h = (IF c \in Hosts THEN c ELSE x.dest.first)
  BY StateType DEF Destinations
<1>5. Grows(x, [x EXCEPT !.dest.first = h])
  <2>1. x.dest \in Destinations  BY StateType
  <2>2. PICK d \in Destinations : d = [x.dest EXCEPT !.first = h]  BY <2>1 DEF Destinations
  <2>3. [x EXCEPT !.dest.first = h] = [x EXCEPT !.dest = d]  BY <2>1, <2>2 DEF IsState
  <2> QED  BY <1>1, <2>3, DestGrows
<1>6. \/ destination_host(x, c) = x \/ destination_host(x, c) = Unsafe(x, c)
      \/ destination_host(x, c) = [x EXCEPT !.dest.st = "empty"]
      \/ destination_host(x, c) = [x EXCEPT !.dest.first = h]
      \/ destination_host(x, c) = Conflict(x)
  BY <1>4 DEF destination_host
<1> QED  BY <1>1, <1>2, <1>3, <1>5, <1>6

LEMMA PartsGrow ==
  ASSUME NEW x, IsState(x), NEW c
  PROVE  /\ Grows(x, destination_port(x, c)) /\ Grows(x, scheme(x, c)) /\ Grows(x, path(x, c))
<1>1. Grows(x, x) /\ Grows(x, reject_field(x)) /\ Grows(x, mark_privacy(reject_field(x)))
  BY NotesGrow, NotesThen
<1>2. Grows(x, Conflict(x))  BY <1>1, UnsafeGrows
<1>3. destination_port(x, c) \in {x, Conflict(x), reject_field(x), mark_privacy(reject_field(x))}
  BY DEF destination_port, MarkIf
<1>4. scheme(x, c) \in {x, Conflict(x), reject_field(x), mark_privacy(reject_field(x))}
  BY DEF scheme, MarkIf
<1>5. path(x, c) \in {x, Conflict(x), reject_field(x), mark_privacy(reject_field(x))}
  BY DEF path, MarkIf
<1> QED  BY <1>1, <1>2, <1>3, <1>4, <1>5

\* The fields that decide whether there is a record at all.
LEMMA OutcomeGrows ==
  ASSUME NEW x, IsState(x), NEW c
  PROVE  /\ Grows(x, http_status(x, c)) /\ Grows(x, action(x, c)) /\ Grows(x, optics_status(x, c))
         /\ Grows(x, optics_internal_failure(x, c)) /\ Grows(x, sampling(x, c))
         /\ Grows(x, parent_conflict(x, c))
<1>1. Grows(x, http_status(x, c))
  <2>1. Grows(x, [x EXCEPT !.local_event = TRUE])
    <3>1. x.trace \in Traces /\ x.dest \in Destinations  BY StateType
    <3> QED  BY <3>1, AsideGrows
  <2> QED  BY <2>1, NotesGrow, NotesThen DEF http_status, MarkIf
<1>2. Grows(x, action(x, c))  BY NotesGrow, NotesThen DEF action, MarkIf
<1>3. Grows(x, optics_status(x, c))  BY NotesGrow DEF optics_status
<1>4. Grows(x, optics_internal_failure(x, c))  BY NotesGrow, NotesThen DEF optics_internal_failure
<1>5. Grows(x, sampling(x, c))  BY NotesGrow, NotesThen DEF sampling, MarkIf
<1>6. Grows(x, parent_conflict(x, c))
  <2> DEFINE z == strip_key(x)
  <2>1. Grows(x, z)  BY NotesGrow
  <2>2. IsState(z)  BY <2>1 DEF Grows
  <2>3. "identity_conflict" \notin Guarded /\ "NORMALIZE" \in Dispositions  BY DEF Guarded, Dispositions
  <2> HIDE DEF z
  <2>4. Grows(z, put(z, "identity_conflict", "PARENT", "NORMALIZE"))  BY <2>2, <2>3, PutFree, CleanValues
  <2>5. Grows(x, put(z, "identity_conflict", "PARENT", "NORMALIZE"))  BY <2>1, <2>4, GrowsOn
  <2> QED  BY <2>1, <2>5, NotesGrow DEF parent_conflict, z
<1> QED  BY <1>1, <1>2, <1>3, <1>4, <1>5, <1>6

LEMMA RestGrows ==
  ASSUME NEW x, IsState(x), NEW c
  PROVE  /\ Grows(x, issue_label(x, c)) /\ Grows(x, name(x, c)) /\ Grows(x, value(x, c))
         /\ Grows(x, calls(x, c)) /\ Grows(x, sweep_leftovers(x, c))
<1>1. Grows(x, issue_label(x, c))  BY NotesGrow DEF issue_label
<1>2. Grows(x, name(x, c))
  <2>1. "name" \notin Guarded /\ "ACCEPT" \in Dispositions  BY DEF Guarded, Dispositions
  <2>2. Grows(x, put(x, "name", "ok", "ACCEPT"))  BY <2>1, PutFree, CleanValues
  <2> QED  BY <2>2, NotesGrow, NotesThen DEF name
<1>3. Grows(x, value(x, c))
  <2>1. "value" \notin Guarded  BY DEF Guarded
  <2> QED  BY <2>1, FieldGrows, NotesGrow DEF value
<1>4. Grows(x, calls(x, c))
  <2>1. Grows(x, put_counts(x))  BY NotesGrow DEF put_counts
  <2> QED  BY <2>1, NotesGrow DEF calls
<1>5. Grows(x, sweep_leftovers(x, c))
  <2> DEFINE z == strip_key(x)
  <2>1. Grows(x, z) /\ Grows(x, mark_privacy(z)) /\ Grows(x, mark_detector(z))  BY NotesGrow, NotesThen
  <2>2. Grows(x, drop_record(mark_privacy(z)))  BY <2>1, NotesThen
  <2>3. sweep_leftovers(x, c) \in {x, drop_record(mark_privacy(z)), mark_detector(z), z, mark_privacy(z)}
    BY DEF sweep_leftovers, MarkIf
  <2> HIDE DEF z
  <2> QED  BY <2>1, <2>2, <2>3, NotesGrow
<1> QED  BY <1>1, <1>2, <1>3, <1>4, <1>5

-----------------------------------------------------------------------------
(* The order of the scripts.                                               *)

\* The names of the steps.
Steps ==
  {"cli_or_sdk_version", "producer", "run_id", "parent_run_id", "producer_id", "producer_sequence",
   "sequence", "event_id", "session_id", "session_id_basis", "trace_id", "vantio_trace_id",
   "traceparent", "witness", "trace_id_basis", "span_id", "parent_span_id", "started_at", "ended_at",
   "duration_ms", "clock_quality", "lifecycle", "identity_conflict", "runtime", "runtime_version",
   "platform", "arch", "process_id", "parent_process_id", "proxy", "redirect", "connected",
   "requested", "destination_host", "destination_port", "scheme", "path", "store", "http_status",
   "failure_kind", "error_class", "action", "method", "request_bytes", "response_bytes",
   "content_type", "mediation", "sampling", "duplicate_of", "provider_id", "provider_confidence",
   "optics_status", "optics_internal_failure", "parent_conflict", "evidence_origin", "issue_label",
   "leftover", "coverage_note", "call_count", "dropped_count", "calls", "subject_event_id",
   "subject_run_id", "application_outcome_label", "provider_response_phrase",
   "next_action_category", "issue_location", "annotation_role", "annotation_id",
   "annotation_subject", "created_at", "text", "name", "value", "observed_at", "detail_code",
   "original_evidence_origin", "source_label", "content_sha256", "schema_status_seen",
   "imported_at", "accepted", "reason_code"}

\* Once s has been taken, nothing of bad comes.
After(q, s, bad) == \A i, j \in 1 .. Len(q) : i < j /\ q[i] = s => q[j] \notin bad

LEMMA AfterNone ==
  ASSUME NEW S, NEW q \in Seq(S), NEW s, s \notin S, NEW bad
  PROVE  After(q, s, bad)
BY DEF After

LEMMA AfterPrefix ==
  ASSUME NEW S, NEW p \in Seq(S), NEW s, s \notin S, NEW T, NEW q \in Seq(T), NEW bad, After(q, s, bad)
  PROVE  After(p \o q, s, bad)
<1> SUFFICES ASSUME NEW i \in 1 .. Len(p \o q), NEW j \in 1 .. Len(p \o q), i < j, (p \o q)[i] = s
             PROVE  (p \o q)[j] \notin bad
  BY DEF After
<1>1. Len(p) \in Nat /\ Len(q) \in Nat /\ Len(p \o q) = Len(p) + Len(q)  OBVIOUS
<1>2. \A m \in 1 .. Len(p) : (p \o q)[m] = p[m] /\ p[m] \in S  OBVIOUS
<1>3. \A m \in Len(p) + 1 .. Len(p) + Len(q) : (p \o q)[m] = q[m - Len(p)]  OBVIOUS
<1>4. i > Len(p)  BY <1>1, <1>2
<1>5. i - Len(p) \in 1 .. Len(q) /\ j - Len(p) \in 1 .. Len(q) /\ i - Len(p) < j - Len(p)  BY <1>1, <1>4
<1>6. (p \o q)[i] = q[i - Len(p)] /\ (p \o q)[j] = q[j - Len(p)]  BY <1>1, <1>3, <1>4
<1> QED  BY <1>5, <1>6 DEF After

LEMMA AfterSuffix ==
  ASSUME NEW T, NEW p \in Seq(T), NEW s, NEW S, NEW q \in Seq(S), NEW bad, S \cap bad = {}, After(p, s, bad)
  PROVE  After(p \o q, s, bad)
<1> SUFFICES ASSUME NEW i \in 1 .. Len(p \o q), NEW j \in 1 .. Len(p \o q), i < j, (p \o q)[i] = s
             PROVE  (p \o q)[j] \notin bad
  BY DEF After
<1>1. Len(p) \in Nat /\ Len(q) \in Nat /\ Len(p \o q) = Len(p) + Len(q)  OBVIOUS
<1>2. \A m \in 1 .. Len(p) : (p \o q)[m] = p[m]  OBVIOUS
<1>3. \A m \in Len(p) + 1 .. Len(p) + Len(q) : (p \o q)[m] \in S  OBVIOUS
<1>4. CASE j > Len(p)  BY <1>1, <1>3, <1>4
<1>5. CASE j <= Len(p)
  <2>1. i \in 1 .. Len(p) /\ j \in 1 .. Len(p)  BY <1>1, <1>5
  <2> QED  BY <2>1, <1>2 DEF After
<1> QED  BY <1>1, <1>4, <1>5

\* What an origin and a trace rest on.
OriginBad == {"evidence_origin", "producer", "vantio_trace_id", "traceparent", "store"}
NoOrigin == Steps \ {"evidence_origin"}
NoTraceStep == Steps \ {"trace_id_basis", "witness"}

LEMMA PieceTypes ==
  /\ IdentitySteps \in Seq(NoOrigin) /\ IdentitySteps \in Seq(NoTraceStep)
  /\ SessionSteps \in Seq(NoOrigin) /\ SessionSteps \in Seq(NoTraceStep)
  /\ TraceSteps \in Seq(NoOrigin) /\ TraceSteps \in Seq(Steps)
  /\ RuntimeSteps \in Seq(NoOrigin) /\ RuntimeSteps \in Seq(NoTraceStep)
  /\ DestinationSteps \in Seq(NoOrigin) /\ DestinationSteps \in Seq(NoTraceStep)
BY DEF IdentitySteps, SessionSteps, TraceSteps, RuntimeSteps, DestinationSteps, NoOrigin, NoTraceStep, Steps

LEMMA TraceOrder == After(TraceSteps, "trace_id_basis", {"witness"})
BY DEF After, TraceSteps

\* What follows the trace and precedes the origin of an observation.
ObservationMiddle == <<"started_at">> \o RuntimeSteps \o DestinationSteps
ObservationLast ==
  <<"http_status", "failure_kind", "error_class", "action", "method", "request_bytes",
    "response_bytes", "content_type", "mediation", "sampling", "duplicate_of",
    "provider_id", "provider_confidence", "optics_status", "optics_internal_failure",
    "parent_conflict", "evidence_origin", "issue_label", "leftover">>
EnvelopeLast ==
  <<"coverage_note", "call_count", "dropped_count", "calls", "evidence_origin", "leftover">>
QuarantineLast ==
  <<"evidence_origin", "original_evidence_origin", "source_label", "content_sha256",
    "schema_status_seen", "imported_at", "accepted", "reason_code", "leftover">>

LEMMA Joined ==
  ASSUME NEW S, NEW p \in Seq(S), NEW q \in Seq(S)
  PROVE  p \o q \in Seq(S)
OBVIOUS

LEMMA LastTypes ==
  /\ ObservationLast \in Seq(Steps) /\ ObservationLast \in Seq(NoTraceStep)
  /\ EnvelopeLast \in Seq(Steps) /\ EnvelopeLast \in Seq(NoTraceStep)
  /\ QuarantineLast \in Seq(Steps) /\ QuarantineLast \in Seq(NoTraceStep)
  /\ <<"sequence", "event_id">> \in Seq(NoOrigin) /\ <<"sequence", "event_id">> \in Seq(NoTraceStep)
  /\ <<"started_at">> \in Seq(NoOrigin) /\ <<"started_at">> \in Seq(NoTraceStep)
  /\ <<"started_at", "ended_at">> \in Seq(NoOrigin) /\ <<"started_at", "ended_at">> \in Seq(NoTraceStep)
BY DEF ObservationLast, EnvelopeLast, QuarantineLast, NoOrigin, NoTraceStep, Steps

LEMMA LastOrder ==
  /\ After(ObservationLast, "evidence_origin", OriginBad)
  /\ After(EnvelopeLast, "evidence_origin", OriginBad)
  /\ After(QuarantineLast, "evidence_origin", OriginBad)
  /\ After(build_derived, "evidence_origin", OriginBad)
  /\ After(build_annotation, "evidence_origin", OriginBad)
  /\ After(build_health, "evidence_origin", OriginBad)
<1>1. After(ObservationLast, "evidence_origin", OriginBad)  BY DEF After, ObservationLast, OriginBad
<1>2. After(EnvelopeLast, "evidence_origin", OriginBad)  BY DEF After, EnvelopeLast, OriginBad
<1>3. After(QuarantineLast, "evidence_origin", OriginBad)  BY DEF After, QuarantineLast, OriginBad
<1>4. After(build_derived, "evidence_origin", OriginBad)  BY DEF After, build_derived, OriginBad
<1>5. After(build_annotation, "evidence_origin", OriginBad)  BY DEF After, build_annotation, OriginBad
<1>6. After(build_health, "evidence_origin", OriginBad)  BY DEF After, build_health, OriginBad
<1> QED  BY <1>1, <1>2, <1>3, <1>4, <1>5, <1>6

LEMMA ScriptOf ==
  /\ DOMAIN Scripts = {"observation", "envelope", "derived", "annotation", "health", "quarantine", "untyped"}
  /\ Scripts["observation"] = build_observation /\ Scripts["envelope"] = build_envelope
  /\ Scripts["derived"] = build_derived /\ Scripts["annotation"] = build_annotation
  /\ Scripts["health"] = build_health /\ Scripts["quarantine"] = build_quarantine
  /\ Scripts["untyped"] = <<"leftover">>
BY DEF Scripts

LEMMA OriginOrder ==
  ASSUME NEW kind \in DOMAIN Scripts
  PROVE  After(Scripts[kind], "evidence_origin", OriginBad)
<1> USE PieceTypes, LastTypes
<1>0. "evidence_origin" \notin NoOrigin  BY DEF NoOrigin
<1>1. After(build_observation, "evidence_origin", OriginBad)
  <2> DEFINE p == IdentitySteps \o <<"sequence", "event_id">> \o SessionSteps \o TraceSteps
                    \o <<"started_at">> \o RuntimeSteps \o DestinationSteps
  <2>1. p \in Seq(NoOrigin)  BY Joined
  <2>2. build_observation = p \o ObservationLast  BY DEF build_observation, ObservationLast
  <2> HIDE DEF p
  <2> QED  BY <1>0, <2>1, <2>2, LastOrder, AfterPrefix
<1>2. After(build_envelope, "evidence_origin", OriginBad)
  <2> DEFINE p == IdentitySteps \o SessionSteps \o TraceSteps \o <<"started_at", "ended_at">> \o RuntimeSteps
  <2>1. p \in Seq(NoOrigin)  BY Joined
  <2>2. build_envelope = p \o EnvelopeLast  BY DEF build_envelope, EnvelopeLast
  <2> HIDE DEF p
  <2> QED  BY <1>0, <2>1, <2>2, LastOrder, AfterPrefix
<1>3. After(build_quarantine, "evidence_origin", OriginBad)
  <2>1. build_quarantine = TraceSteps \o QuarantineLast  BY DEF build_quarantine, QuarantineLast
  <2> QED  BY <1>0, <2>1, LastOrder, AfterPrefix
<1>4. After(<<"leftover">>, "evidence_origin", OriginBad)  BY DEF After
<1> QED  BY <1>1, <1>2, <1>3, <1>4, LastOrder, ScriptOf

LEMMA WitnessOrder ==
  ASSUME NEW kind \in DOMAIN Scripts
  PROVE  After(Scripts[kind], "trace_id_basis", {"witness"})
<1> USE PieceTypes, LastTypes
<1>0. "trace_id_basis" \notin NoTraceStep /\ NoTraceStep \cap {"witness"} = {}  BY DEF NoTraceStep
<1>6. /\ RuntimeSteps \in Seq(Steps) /\ DestinationSteps \in Seq(Steps)
      /\ <<"started_at">> \in Seq(Steps) /\ <<"started_at", "ended_at">> \in Seq(Steps)
  BY DEF NoTraceStep
<1>1. After(build_observation, "trace_id_basis", {"witness"})
  <2> DEFINE p0 == IdentitySteps \o <<"sequence", "event_id">> \o SessionSteps
  <2> DEFINE p1 == p0 \o TraceSteps
  <2> DEFINE p2 == p1 \o <<"started_at">>
  <2> DEFINE p3 == p2 \o RuntimeSteps
  <2> DEFINE p4 == p3 \o DestinationSteps
  <2>1. build_observation = p4 \o ObservationLast  BY DEF build_observation, ObservationLast
  <2>2. p0 \in Seq(NoTraceStep)  BY Joined
  <2> HIDE DEF p0
  <2>3. p0 \in Seq(Steps)  BY <2>2 DEF NoTraceStep
  <2>4. p1 \in Seq(Steps) /\ After(p1, "trace_id_basis", {"witness"})
    BY <1>0, <2>2, <2>3, TraceOrder, AfterPrefix, Joined
  <2> HIDE DEF p1
  <2>5. p2 \in Seq(Steps) /\ After(p2, "trace_id_basis", {"witness"})  BY <1>0, <1>6, <2>4, AfterSuffix, Joined
  <2> HIDE DEF p2
  <2>6. p3 \in Seq(Steps) /\ After(p3, "trace_id_basis", {"witness"})  BY <1>0, <1>6, <2>5, AfterSuffix, Joined
  <2> HIDE DEF p3
  <2>7. p4 \in Seq(Steps) /\ After(p4, "trace_id_basis", {"witness"})  BY <1>0, <1>6, <2>6, AfterSuffix, Joined
  <2> HIDE DEF p4
  <2> QED  BY <1>0, <2>1, <2>7, AfterSuffix
<1>2. After(build_envelope, "trace_id_basis", {"witness"})
  <2> DEFINE p0 == IdentitySteps \o SessionSteps
  <2> DEFINE p1 == p0 \o TraceSteps
  <2> DEFINE p2 == p1 \o <<"started_at", "ended_at">>
  <2> DEFINE p3 == p2 \o RuntimeSteps
  <2>1. build_envelope = p3 \o EnvelopeLast  BY DEF build_envelope, EnvelopeLast
  <2>2. p0 \in Seq(NoTraceStep)  BY Joined
  <2> HIDE DEF p0
  <2>3. p0 \in Seq(Steps)  BY <2>2 DEF NoTraceStep
  <2>4. p1 \in Seq(Steps) /\ After(p1, "trace_id_basis", {"witness"})
    BY <1>0, <2>2, <2>3, TraceOrder, AfterPrefix, Joined
  <2> HIDE DEF p1
  <2>5. p2 \in Seq(Steps) /\ After(p2, "trace_id_basis", {"witness"})  BY <1>0, <1>6, <2>4, AfterSuffix, Joined
  <2> HIDE DEF p2
  <2>6. p3 \in Seq(Steps) /\ After(p3, "trace_id_basis", {"witness"})  BY <1>0, <1>6, <2>5, AfterSuffix, Joined
  <2> HIDE DEF p3
  <2> QED  BY <1>0, <2>1, <2>6, AfterSuffix
<1>3. After(build_quarantine, "trace_id_basis", {"witness"})
  <2>1. build_quarantine = TraceSteps \o QuarantineLast  BY DEF build_quarantine, QuarantineLast
  <2> QED  BY <1>0, <2>1, TraceOrder, AfterSuffix
<1>4. /\ build_derived \in Seq(NoTraceStep) /\ build_annotation \in Seq(NoTraceStep)
      /\ build_health \in Seq(NoTraceStep) /\ <<"leftover">> \in Seq(NoTraceStep)
  BY DEF build_derived, build_annotation, build_health, NoTraceStep, Steps
<1>5. /\ After(build_derived, "trace_id_basis", {"witness"})
      /\ After(build_annotation, "trace_id_basis", {"witness"})
      /\ After(build_health, "trace_id_basis", {"witness"})
      /\ After(<<"leftover">>, "trace_id_basis", {"witness"})
  BY <1>0, <1>4, AfterNone
<1> QED  BY <1>1, <1>2, <1>3, <1>5, ScriptOf

LEMMA ScriptTypes ==
  ASSUME NEW kind \in DOMAIN Scripts
  PROVE  Scripts[kind] \in Seq(Steps)
<1> USE PieceTypes, LastTypes
<1>1. /\ IdentitySteps \in Seq(Steps) /\ SessionSteps \in Seq(Steps) /\ TraceSteps \in Seq(Steps)
      /\ RuntimeSteps \in Seq(Steps) /\ DestinationSteps \in Seq(Steps)
      /\ <<"sequence", "event_id">> \in Seq(Steps) /\ <<"started_at">> \in Seq(Steps)
      /\ <<"started_at", "ended_at">> \in Seq(Steps)
  BY DEF NoOrigin
<1>2. build_observation \in Seq(Steps)
  <2>1. ObservationLast \in Seq(Steps)  OBVIOUS
  <2>2. build_observation = IdentitySteps \o <<"sequence", "event_id">> \o SessionSteps \o TraceSteps
                              \o <<"started_at">> \o RuntimeSteps \o DestinationSteps \o ObservationLast
    BY DEF build_observation, ObservationLast
  <2> QED  BY <1>1, <2>1, <2>2, Joined
<1>3. build_envelope \in Seq(Steps)
  <2>1. EnvelopeLast \in Seq(Steps)  OBVIOUS
  <2>2. build_envelope = IdentitySteps \o SessionSteps \o TraceSteps \o <<"started_at", "ended_at">>
                           \o RuntimeSteps \o EnvelopeLast
    BY DEF build_envelope, EnvelopeLast
  <2> QED  BY <1>1, <2>1, <2>2, Joined
<1>4. build_quarantine \in Seq(Steps)
  <2>1. build_quarantine = TraceSteps \o QuarantineLast  BY DEF build_quarantine, QuarantineLast
  <2> QED  BY <1>1, <2>1, Joined
<1>5. /\ build_derived \in Seq(Steps) /\ build_annotation \in Seq(Steps)
      /\ build_health \in Seq(Steps) /\ <<"leftover">> \in Seq(Steps)
  BY DEF build_derived, build_annotation, build_health, Steps
<1> QED  BY <1>2, <1>3, <1>4, <1>5, ScriptOf

\* The step that a record is at.
Taken(x, s) == /\ x.kind \in DOMAIN Scripts /\ x.at \in 1 .. Len(Scripts[x.kind])
               /\ s = Scripts[x.kind][x.at]

\* While the grounds for an origin are read, none is stored; nor a trace before its
\* witness.
LEMMA Early ==
  ASSUME NEW x, NEW s, Taken(x, s), OrderedTrace(x), OrderedOrigin(x)
  PROVE  /\ s \in OriginBad => ~Stores(x, "evidence_origin")
         /\ s = "witness" => ~Stores(x, "trace_id_basis")
<1> DEFINE q == Scripts[x.kind]
<1>1. q \in Seq(Steps)  BY ScriptTypes DEF Taken
<1>2. Len(q) \in Nat /\ DOMAIN q = 1 .. Len(q)  BY <1>1
<1>3. x.at \in 1 .. Len(q) /\ s = q[x.at] /\ x.kind \in DOMAIN Scripts  BY DEF Taken
<1>4. After(q, "evidence_origin", OriginBad)  BY <1>3, OriginOrder
<1>5. After(q, "trace_id_basis", {"witness"})  BY <1>3, WitnessOrder
<1>6. \A t : Passed(x, t) => \E i \in 1 .. Len(q) : i < x.at /\ q[i] = t  BY <1>2, <1>3 DEF Passed
<1> HIDE DEF q
<1>7. s \in OriginBad => ~Passed(x, "evidence_origin")  BY <1>3, <1>4, <1>6 DEF After
<1>8. s = "witness" => ~Passed(x, "trace_id_basis")  BY <1>3, <1>5, <1>6 DEF After
<1> QED  BY <1>7, <1>8 DEF OrderedTrace, OrderedOrigin

-----------------------------------------------------------------------------
(* The steps that decide where a trace or an origin comes from.            *)

\* What a step leaves.
Holds(x, z, s) ==
  /\ IsState(z) /\ z.kind = x.kind /\ z.at = x.at
  /\ Account(z) /\ Earned(z)
  /\ Stores(z, "trace_id_basis") => Stores(x, "trace_id_basis") \/ s = "trace_id_basis"
  /\ Stores(z, "evidence_origin") => Stores(x, "evidence_origin") \/ s = "evidence_origin"

LEMMA GrowsStores ==
  ASSUME NEW x, NEW z, Grows(x, z), NEW f \in Guarded
  PROVE  Stores(z, f) <=> Stores(x, f)
BY DEF Grows, Stores

LEMMA GrowsHolds ==
  ASSUME NEW x, NEW z, Grows(x, z), Account(x), Earned(x), NEW s
  PROVE  Holds(x, z, s)
<1>1. /\ "trace_id" \in Guarded /\ "trace_id_basis" \in Guarded /\ "evidence_origin" \in Guarded
      /\ "destination_host" \in Guarded
  BY DEF Guarded
<1>2. /\ Stores(z, "trace_id") <=> Stores(x, "trace_id")
      /\ Stores(z, "trace_id_basis") <=> Stores(x, "trace_id_basis")
      /\ Stores(z, "evidence_origin") <=> Stores(x, "evidence_origin")
  BY <1>1, GrowsStores
<1>3. Clean(z.rec)  BY DEF Grows, Earned, Clean
<1>4. \A f \in Guarded : \A v : <<f, v>> \in z.rec <=> <<f, v>> \in x.rec
  <2> TAKE f \in Guarded
  <2> TAKE v
  <2>1. <<f, v>>[1] = f  OBVIOUS
  <2> QED  BY <2>1 DEF Grows
<1>5. TraceEarned(z)
  <2>1. x.producer # "none" /\ x.version => z.producer # "none" /\ z.version  BY DEF Grows
  <2>2. z.trace.witness = x.trace.witness  BY DEF Grows
  <2> QED  BY <1>1, <1>2, <1>4, <2>1, <2>2 DEF Earned, TraceEarned, recognized_producer
<1>6. OriginEarned(z)
  <2>1. z.producer = x.producer /\ (x.version => z.version) /\ z.inherited_trace = x.inherited_trace
        /\ (x.local_event => z.local_event) /\ z.reader_origin = x.reader_origin
    BY DEF Grows
  <2>2. \A e \in z.rec : e[1] = "evidence_origin" => e \in x.rec  BY <1>1 DEF Grows
  <2> QED  BY <1>1, <1>4, <2>1, <2>2 DEF Earned, OriginEarned, recognized_producer
<1> QED  BY <1>2, <1>3, <1>5, <1>6 DEF Holds, Earned, Grows

\* Something that holds, and then what only adds to it.
LEMMA HoldsThen ==
  ASSUME NEW x, NEW w, NEW z, NEW s, Holds(x, w, s), Grows(w, z)
  PROVE  Holds(x, z, s)
<1>1. Holds(w, z, s)  BY GrowsHolds DEF Holds
<1> QED  BY <1>1 DEF Holds

LEMMA ProducerHolds ==
  ASSUME NEW x, IsState(x), Account(x), Earned(x), NEW s, ~Stores(x, "evidence_origin"), NEW c
  PROVE  Holds(x, producer(x, c), s)
<1>1. CASE c \in {"ok", "demo_command"}
  <2> DEFINE z == [x EXCEPT !.producer = c]
  <2>1. producer(x, c) = z  BY <1>1 DEF producer
  <2>2. IsState(z)  BY <1>1 DEF IsState
  <2>3. z.producer = c /\ z.disp = x.disp /\ z.drop_record = x.drop_record /\ z.health = x.health
        /\ z.kind = x.kind /\ z.at = x.at /\ z.trace = x.trace /\ z.version = x.version
        /\ z.inherited_trace = x.inherited_trace /\ z.reader_origin = x.reader_origin
        /\ z.local_event = x.local_event /\ z.rec = x.rec
    BY <1>1 DEF IsState
  <2> HIDE DEF z
  <2>4. Account(z)  BY <2>3 DEF Account
  <2>5. Clean(z.rec) /\ TraceEarned(z)
    BY <1>1, <2>3 DEF Earned, TraceEarned, recognized_producer, Stores
  <2>6. OriginEarned(z)
    <3>1. \A e \in z.rec : e[1] # "evidence_origin"  BY <2>3 DEF Stores
    <3>2. <<"evidence_origin", "LOCAL_OBSERVATION">>[1] = "evidence_origin"  OBVIOUS
    <3> QED  BY <3>1, <3>2 DEF OriginEarned
  <2> QED  BY <2>1, <2>2, <2>3, <2>4, <2>5, <2>6 DEF Holds, Earned, Stores
<1>2. CASE c \notin {"ok", "demo_command"}
  <2>1. producer(x, c) \in {x, reject_field(x), mark_privacy(reject_field(x))}
    BY <1>2 DEF producer, MarkIf
  <2>2. Grows(x, producer(x, c))  BY <2>1, NotesGrow, NotesThen
  <2> QED  BY <2>2, GrowsHolds
<1> QED  BY <1>1, <1>2

LEMMA InheritedHolds ==
  ASSUME NEW x, IsState(x), Account(x), Earned(x), NEW s, ~Stores(x, "evidence_origin"), NEW c,
         NEW from \in {"vantio_trace_id", "traceparent"}
  PROVE  Holds(x, inherited(x, from, c), s)
<1>1. CASE c = "absent"  BY <1>1, NotesGrow, GrowsHolds DEF inherited
<1>2. CASE c # "absent"
  <2> DEFINE w == [x EXCEPT !.inherited_trace = TRUE]
  <2>1. inherited(x, from, c) = strip_key(TraceSource(w, from, c))  BY <1>2 DEF inherited
  <2>2. IsState(w)  BY DEF IsState
  <2>3. w.producer = x.producer /\ w.disp = x.disp /\ w.drop_record = x.drop_record /\ w.health = x.health
        /\ w.kind = x.kind /\ w.at = x.at /\ w.trace = x.trace /\ w.version = x.version
        /\ w.rec = x.rec
    BY DEF IsState
  <2> HIDE DEF w
  <2>4. Account(w)  BY <2>3 DEF Account
  <2>5. Clean(w.rec) /\ TraceEarned(w)
    BY <2>3 DEF Earned, TraceEarned, recognized_producer, Stores
  <2>6. OriginEarned(w)
    <3>1. \A e \in w.rec : e[1] # "evidence_origin"  BY <2>3 DEF Stores
    <3>2. <<"evidence_origin", "LOCAL_OBSERVATION">>[1] = "evidence_origin"  OBVIOUS
    <3> QED  BY <3>1, <3>2 DEF OriginEarned
  <2>7. Holds(x, w, s)  BY <2>2, <2>3, <2>4, <2>5, <2>6 DEF Holds, Earned, Stores
  <2>8. Grows(w, strip_key(TraceSource(w, from, c)))  BY <2>2, SourceGrows, NotesThen
  <2> QED  BY <2>1, <2>7, <2>8, HoldsThen
<1> QED  BY <1>1, <1>2

LEMMA WitnessHolds ==
  ASSUME NEW x, IsState(x), Account(x), Earned(x), NEW s, ~Stores(x, "trace_id_basis"), NEW c
  PROVE  Holds(x, witness(x, c), s)
<1>1. PICK v \in BOOLEAN : v = (c = "ok")  BY Zenon
<1> DEFINE w == [x EXCEPT !.trace.witness = (c = "ok")]
<1> DEFINE y == [x EXCEPT !.trace.witness = v]
<1>2. w = y  BY <1>1, Zenon
<1>3. x.trace \in Traces  BY StateType
<1>4. PICK t \in Traces : t = [x.trace EXCEPT !.witness = v]  BY <1>3 DEF Traces
<1>5. y = [x EXCEPT !.trace = t]  BY <1>3, <1>4 DEF IsState
<1>6. IsState(y)  BY <1>5 DEF IsState
<1>7. y.producer = x.producer /\ y.disp = x.disp /\ y.drop_record = x.drop_record /\ y.health = x.health
      /\ y.kind = x.kind /\ y.at = x.at /\ y.version = x.version
      /\ y.inherited_trace = x.inherited_trace /\ y.reader_origin = x.reader_origin
      /\ y.local_event = x.local_event /\ y.rec = x.rec
  BY <1>5 DEF IsState
<1>8. witness(x, c) = w \/ witness(x, c) = mark_detector(w)  BY DEF witness
<1> HIDE DEF y, w
<1>9. Account(y)  BY <1>7 DEF Account
<1>10. Clean(y.rec) /\ OriginEarned(y)
  BY <1>7 DEF Earned, OriginEarned, recognized_producer
<1>11. TraceEarned(y)
  <2>1. \A e \in y.rec : e[1] # "trace_id_basis"  BY <1>7 DEF Stores
  <2>2. <<"trace_id_basis", "OPTICS_GENERATED">>[1] = "trace_id_basis"  OBVIOUS
  <2> QED  BY <1>7, <2>1, <2>2 DEF Earned, TraceEarned, Stores
<1>12. Holds(x, y, s)  BY <1>6, <1>7, <1>9, <1>10, <1>11 DEF Holds, Earned, Stores
<1>13. Grows(y, y) /\ Grows(y, mark_detector(y))  BY <1>6, NotesGrow
<1> QED  BY <1>2, <1>8, <1>12, <1>13, HoldsThen

LEMMA BasisEarned ==
  ASSUME NEW x, NEW basis, x.trace.from = "trace_id" => basis \in Bases
  PROVE  /\ trace_basis(x, basis) \in Bases \cup {"IMPORTED_UNVERIFIED"}
         /\ trace_basis(x, basis) = "OPTICS_GENERATED" => trusted_trace_generation(x)
<1>1. inherited_basis(x) \in {"IMPORTED_UNVERIFIED", "ASSERTED_CONTEXT"}  BY DEF inherited_basis
<1>2. CASE basis = "OPTICS_GENERATED" /\ trusted_trace_generation(x)  BY <1>2 DEF trace_basis, Bases
<1>3. CASE ~(basis = "OPTICS_GENERATED" /\ trusted_trace_generation(x)) /\ x.trace.from # "trace_id"
  BY <1>1, <1>3 DEF trace_basis, Bases
<1>4. CASE ~(basis = "OPTICS_GENERATED" /\ trusted_trace_generation(x)) /\ x.trace.from = "trace_id"
  BY <1>4 DEF trace_basis, Bases
<1> QED  BY <1>2, <1>3, <1>4

\* The id and its basis are stored together.
LEMMA TraceStored ==
  ASSUME NEW x, IsState(x), Account(x), Earned(x), NEW t \in Ids, NEW bv \in Bases \cup {"IMPORTED_UNVERIFIED"},
         bv = "OPTICS_GENERATED" => x.trace.witness /\ recognized_producer(x), NEW how \in Dispositions
  PROVE  Holds(x, put(put(x, "trace_id", t, how), "trace_id_basis", bv, how), "trace_id_basis")
<1> DEFINE w == put(x, "trace_id", t, how)
<1> DEFINE z == put(w, "trace_id_basis", bv, how)
<1>1. "trace_id" \in Guarded /\ "trace_id_basis" \in Guarded  BY DEF Guarded
<1>2. t \notin Bound /\ t \notin Dirty /\ bv \notin Bound /\ bv \notin Dirty
  <2>1. DOMAIN Encodings = {"secret", "format", "percent", "base64", "confusable", "percent_confusable",
                            "base64_format", "base64_percent", "base64_slash", "base64_short",
                            "base64_bare", "base64_dull", "base64_path", "base64_url"}
    BY DEF Encodings
  <2>2. t \in {"T1", "T2"}  BY DEF Ids
  <2>3. bv \in {"OPTICS_GENERATED", "ASSERTED_CONTEXT", "APPLICATION_SUPPLIED", "IMPORTED_UNVERIFIED"}
    BY DEF Bases
  <2> QED  BY <2>1, <2>2, <2>3 DEF Dirty, Bound
<1>3. Sets(x, w, "trace_id", t)  BY <1>1, <1>2, PutGuarded
<1>4. IsState(w)  BY <1>3 DEF Sets
<1> HIDE DEF w
<1>5. Sets(w, z, "trace_id_basis", bv)  BY <1>1, <1>2, <1>4, PutGuarded
<1> HIDE DEF z
<1>6. z.kind = x.kind /\ z.at = x.at /\ z.producer = x.producer /\ z.trace = x.trace
      /\ z.inherited_trace = x.inherited_trace /\ z.reader_origin = x.reader_origin
      /\ z.version = x.version /\ z.local_event = x.local_event /\ IsState(z) /\ Account(z)
  BY <1>3, <1>5 DEF Sets
<1>7. w.rec = {e \in x.rec : e[1] # "trace_id"} \cup {<<"trace_id", t>>}  BY <1>3 DEF Sets
<1>8. z.rec = {e \in w.rec : e[1] # "trace_id_basis"} \cup {<<"trace_id_basis", bv>>}  BY <1>5 DEF Sets
<1>9. /\ <<"trace_id", t>>[1] = "trace_id" /\ <<"trace_id", t>>[2] = t
      /\ <<"trace_id_basis", bv>>[1] = "trace_id_basis" /\ <<"trace_id_basis", bv>>[2] = bv
  OBVIOUS
<1>10. \A e \in z.rec : e \in x.rec \/ e = <<"trace_id", t>> \/ e = <<"trace_id_basis", bv>>
  BY <1>7, <1>8
<1>11. \A e \in z.rec : e[1] = "trace_id_basis" => e = <<"trace_id_basis", bv>>  BY <1>8
<1>12. \A e : e[1] \notin {"trace_id", "trace_id_basis"} => (e \in z.rec <=> e \in x.rec)
  BY <1>7, <1>8, <1>9
<1>13. Clean(z.rec)  BY <1>2, <1>9, <1>10 DEF Earned, Clean
<1>14. Stores(z, "trace_id") /\ Stores(z, "trace_id_basis")
  <2>1. <<"trace_id", t>> \in z.rec /\ <<"trace_id_basis", bv>> \in z.rec  BY <1>7, <1>8, <1>9
  <2> QED  BY <1>9, <2>1 DEF Stores
<1>15. TraceEarned(z)
  <2>1. <<"trace_id_basis", "OPTICS_GENERATED">> \in z.rec => bv = "OPTICS_GENERATED"
    <3>1. <<"trace_id_basis", "OPTICS_GENERATED">>[1] = "trace_id_basis"
          /\ <<"trace_id_basis", "OPTICS_GENERATED">>[2] = "OPTICS_GENERATED"
      OBVIOUS
    <3> QED  BY <1>9, <1>11, <3>1
  <2> QED  BY <1>6, <1>14, <2>1 DEF TraceEarned, recognized_producer
<1>16. OriginEarned(z) /\ (Stores(z, "evidence_origin") => Stores(x, "evidence_origin"))
  <2>1. <<"evidence_origin", "LOCAL_OBSERVATION">> \in z.rec <=> <<"evidence_origin", "LOCAL_OBSERVATION">> \in x.rec
    <3>1. <<"evidence_origin", "LOCAL_OBSERVATION">>[1] = "evidence_origin"  OBVIOUS
    <3> QED  BY <1>12, <3>1
  <2>2. <<"destination_host", "demo">> \in z.rec <=> <<"destination_host", "demo">> \in x.rec
    <3>1. <<"destination_host", "demo">>[1] = "destination_host"  OBVIOUS
    <3> QED  BY <1>12, <3>1
  <2>3. \A e : e[1] = "evidence_origin" => (e \in z.rec <=> e \in x.rec)  BY <1>12
  <2> QED  BY <1>6, <2>1, <2>2, <2>3 DEF Earned, OriginEarned, recognized_producer, Stores
<1>17. Holds(x, z, "trace_id_basis")  BY <1>6, <1>13, <1>15, <1>16 DEF Holds, Earned
<1> QED  BY <1>17 DEF z, w

LEMMA TraceHolds ==
  ASSUME NEW x, IsState(x), Account(x), Earned(x), NEW basis
  PROVE  Holds(x, apply_trace(x, basis), "trace_id_basis")
<1> DEFINE n == Cardinality(x.trace.ids)
<1> DEFINE own == x.trace.from = "trace_id"
<1> DEFINE bv == trace_basis(x, basis)
<1>1. PICK sp \in BOOLEAN : sp = (n = 1 \/ (n = 0 /\ ~x.context_rejected))  BY Zenon
<1> DEFINE y == [x EXCEPT !.spans = n = 1 \/ (n = 0 /\ ~x.context_rejected)]
<1>2. y = [x EXCEPT !.spans = sp]  BY <1>1, Zenon
<1>3. x.trace \in Traces /\ x.dest \in Destinations  BY StateType
<1>4. Grows(x, y)  BY <1>2, <1>3, AsideGrows
<1>5. IsState(y)  BY <1>4 DEF Grows
<1>6. y.trace = x.trace /\ y.producer = x.producer /\ y.version = x.version  BY <1>2 DEF IsState
<1>7. Holds(x, y, "trace_id_basis")  BY <1>4, GrowsHolds
<1>8. Grows(y, [y EXCEPT !.spans = FALSE])
  <2>1. y.trace \in Traces /\ y.dest \in Destinations  BY <1>5, StateType
  <2> HIDE DEF y
  <2> QED  BY <1>5, <2>1, AsideGrows
<1>9. PICK how \in Dispositions : how = (IF basis = bv THEN "ACCEPT" ELSE "NORMALIZE")  BY DEF Dispositions
<1>10. CASE n = 1 /\ (own => basis \in Bases)
  <2> DEFINE t == CHOOSE t \in x.trace.ids : TRUE
  <2>1. apply_trace(x, basis) = put(put(y, "trace_id", t, how), "trace_id_basis", bv, how)
    BY <1>9, <1>10 DEF apply_trace
  <2>2. x.trace.ids # {}  BY <1>10, FS_EmptySet
  <2>3. t \in Ids  BY <1>3, <2>2 DEF Traces
  <2>4. bv \in Bases \cup {"IMPORTED_UNVERIFIED"} /\ (bv = "OPTICS_GENERATED" => trusted_trace_generation(x))
    BY <1>10, BasisEarned
  <2>5. bv = "OPTICS_GENERATED" => y.trace.witness /\ recognized_producer(y)
    BY <1>6, <2>4 DEF trusted_trace_generation, recognized_producer
  <2>6. Account(y) /\ Earned(y)  BY <1>7 DEF Holds
  <2> HIDE DEF y, bv, t
  <2>7. Holds(y, put(put(y, "trace_id", t, how), "trace_id_basis", bv, how), "trace_id_basis")
    BY <1>5, <2>3, <2>4, <2>5, <2>6, TraceStored
  <2> QED  BY <1>7, <2>1, <2>7 DEF Holds
<1>11. CASE ~(n = 1 /\ (own => basis \in Bases))
  <2>1. apply_trace(x, basis) \in {mark_context(add_disposition(y, "NORMALIZE")), mark_context([y EXCEPT !.spans = FALSE]),
                                   add_disposition(y, "NORMALIZE"), y}
    BY <1>11 DEF apply_trace
  <2> HIDE DEF y
  <2>2. Grows(y, y) /\ Grows(y, add_disposition(y, "NORMALIZE"))  BY <1>5, NotesGrow
  <2>3. Grows(y, mark_context(add_disposition(y, "NORMALIZE")))  BY <2>2, NotesThen
  <2>4. Grows(y, mark_context([y EXCEPT !.spans = FALSE]))  BY <1>8, NotesThen
  <2>5. Grows(y, apply_trace(x, basis))  BY <2>1, <2>2, <2>3, <2>4
  <2> QED  BY <1>7, <2>5, HoldsThen
<1> QED  BY <1>10, <1>11

LEMMA StoreHolds ==
  ASSUME NEW x, IsState(x), Account(x), Earned(x), NEW s, ~Stores(x, "evidence_origin")
  PROVE  Holds(x, store_destination(x), s)
<1> DEFINE y == [x EXCEPT !.dest = NoDestination]
<1> DEFINE w == [y EXCEPT !.local_event = TRUE]
<1> DEFINE h == x.dest.first
<1>1. NoDestination \in Destinations  BY DEF NoDestination, Destinations
<1>2. x.trace \in Traces /\ x.dest \in Destinations  BY StateType
<1>3. Grows(x, y)  BY <1>1, <1>2, AsideGrows
<1>4. IsState(y)  BY <1>3 DEF Grows
<1>5. store_destination(x) = y \/ store_destination(x) = put(w, "destination_host", h, "ACCEPT")
  BY DEF store_destination
<1> HIDE DEF y
<1>6. Grows(y, w)
  <2>1. y.trace \in Traces /\ y.dest \in Destinations  BY <1>4, StateType
  <2> QED  BY <1>4, <2>1, AsideGrows
<1>7. Holds(x, y, s)  BY <1>3, GrowsHolds
<1>8. Holds(x, w, s)  BY <1>6, <1>7, HoldsThen
<1> HIDE DEF w
<1>9. Holds(x, put(w, "destination_host", h, "ACCEPT"), s)
  <2> DEFINE z == put(w, "destination_host", h, "ACCEPT")
  <2>1. h \in {"A", "B", "demo", "none"}  BY <1>2 DEF Destinations, Hosts
  <2>2. h \notin Bound /\ h \notin Dirty
    <3>1. DOMAIN Encodings = {"secret", "format", "percent", "base64", "confusable", "percent_confusable",
                              "base64_format", "base64_percent", "base64_slash", "base64_short",
                              "base64_bare", "base64_dull", "base64_path", "base64_url"}
      BY DEF Encodings
    <3> QED  BY <2>1, <3>1 DEF Dirty, Bound
  <2>3. "destination_host" \in Guarded /\ "ACCEPT" \in Dispositions  BY DEF Guarded, Dispositions
  <2>5. IsState(w) /\ Account(w) /\ Earned(w)  BY <1>8 DEF Holds
  <2>6. Sets(w, z, "destination_host", h)  BY <2>2, <2>3, <2>5, PutGuarded
  <2> HIDE DEF z
  <2>7. <<"destination_host", h>>[1] = "destination_host" /\ <<"destination_host", h>>[2] = h  OBVIOUS
  <2>8. z.rec = {e \in w.rec : e[1] # "destination_host"} \cup {<<"destination_host", h>>}  BY <2>6 DEF Sets
  <2>9. \A e : e[1] # "destination_host" => (e \in z.rec <=> e \in w.rec)  BY <2>7, <2>8
  <2>10. Clean(z.rec)  BY <2>2, <2>5, <2>7, <2>8 DEF Earned, Clean
  <2>11. z.producer = w.producer /\ z.version = w.version /\ z.trace = w.trace /\ z.kind = w.kind /\ z.at = w.at
    BY <2>6 DEF Sets
  <2>12. TraceEarned(z)
    <3>1. <<"trace_id_basis", "OPTICS_GENERATED">>[1] = "trace_id_basis"  OBVIOUS
    <3>2. <<"trace_id_basis", "OPTICS_GENERATED">> \in z.rec => <<"trace_id_basis", "OPTICS_GENERATED">> \in w.rec
      BY <2>9, <3>1
    <3> QED  BY <2>5, <2>9, <2>11, <3>2 DEF Earned, TraceEarned, recognized_producer, Stores
  <2>13. \A e \in w.rec : e[1] # "evidence_origin"
    <3>1. ~Stores(y, "evidence_origin")
      <4>1. "evidence_origin" \in Guarded  BY DEF Guarded
      <4> QED  BY <1>3, <4>1, GrowsStores
    <3>2. ~Stores(w, "evidence_origin")
      <4>1. "evidence_origin" \in Guarded  BY DEF Guarded
      <4> QED  BY <1>6, <3>1, <4>1, GrowsStores
    <3> QED  BY <3>2 DEF Stores
  <2>14. \A e \in z.rec : e[1] # "evidence_origin"  BY <2>7, <2>8, <2>13
  <2>15. OriginEarned(z)
    <3>1. <<"evidence_origin", "LOCAL_OBSERVATION">>[1] = "evidence_origin"  OBVIOUS
    <3> QED  BY <2>14, <3>1 DEF OriginEarned
  <2>16. Stores(z, "trace_id_basis") => Stores(w, "trace_id_basis")  BY <2>9 DEF Stores
  <2>17. IsState(z) /\ Account(z)  BY <2>5, <2>6 DEF Sets
  <2>18. ~Stores(z, "evidence_origin")  BY <2>14 DEF Stores
  <2>19. /\ w.kind = x.kind /\ w.at = x.at
         /\ Stores(w, "trace_id_basis") => Stores(x, "trace_id_basis") \/ s = "trace_id_basis"
    BY <1>8 DEF Holds
  <2>20. Holds(x, z, s)
    BY <2>10, <2>11, <2>12, <2>15, <2>16, <2>17, <2>18, <2>19 DEF Holds, Earned
  <2> QED  BY <2>20 DEF z
<1> QED  BY <1>5, <1>7, <1>9

\* A label shown to the reader, while no origin is stored.
LEMMA ReaderHolds ==
  ASSUME NEW x, IsState(x), Account(x), Earned(x), NEW s, ~Stores(x, "evidence_origin"), NEW v
  PROVE  Holds(x, [x EXCEPT !.reader_origin = v], s)
<1> DEFINE w == [x EXCEPT !.reader_origin = v]
<1>1. IsState(w)  BY DEF IsState
<1>2. w.producer = x.producer /\ w.disp = x.disp /\ w.drop_record = x.drop_record /\ w.health = x.health
      /\ w.kind = x.kind /\ w.at = x.at /\ w.trace = x.trace /\ w.version = x.version
      /\ w.rec = x.rec
  BY DEF IsState
<1> HIDE DEF w
<1>3. Account(w)  BY <1>2 DEF Account
<1>4. Clean(w.rec) /\ TraceEarned(w)  BY <1>2 DEF Earned, TraceEarned, recognized_producer, Stores
<1>5. OriginEarned(w)
  <2>1. \A e \in w.rec : e[1] # "evidence_origin"  BY <1>2 DEF Stores
  <2>2. <<"evidence_origin", "LOCAL_OBSERVATION">>[1] = "evidence_origin"  OBVIOUS
  <2> QED  BY <2>1, <2>2 DEF OriginEarned
<1>6. Holds(x, w, s)  BY <1>1, <1>2, <1>3, <1>4, <1>5 DEF Holds, Earned, Stores
<1> QED  BY <1>6 DEF w

\* An origin and its label, stored together on the grounds that it needs.
LEMMA OriginStored ==
  ASSUME NEW x, IsState(x), Account(x), Earned(x), ~Stores(x, "evidence_origin"),
         NEW v, v \notin Dirty, NEW how \in Dispositions,
         v = "LOCAL_OBSERVATION" =>
           /\ recognized_producer(x) /\ x.producer # "demo_command"
           /\ <<"destination_host", "demo">> \notin x.rec
           /\ x.inherited_trace => x.local_event
  PROVE  Holds(x, put([x EXCEPT !.reader_origin = v], "evidence_origin", v, how), "evidence_origin")
<1> DEFINE w == [x EXCEPT !.reader_origin = v]
<1> DEFINE z == put(w, "evidence_origin", v, how)
<1>1. Holds(x, w, "evidence_origin")  BY ReaderHolds
<1>2. w.reader_origin = v /\ w.producer = x.producer /\ w.version = x.version /\ w.rec = x.rec
      /\ w.inherited_trace = x.inherited_trace /\ w.local_event = x.local_event
  BY DEF IsState
<1> HIDE DEF w
<1>3. "evidence_origin" \in Guarded /\ v \notin Bound  BY DEF Guarded, Dirty
<1>4. IsState(w) /\ Account(w) /\ Earned(w)  BY <1>1 DEF Holds
<1>5. Sets(w, z, "evidence_origin", v)  BY <1>3, <1>4, PutGuarded
<1> HIDE DEF z
<1>6. <<"evidence_origin", v>>[1] = "evidence_origin" /\ <<"evidence_origin", v>>[2] = v  OBVIOUS
<1>7. z.rec = {e \in w.rec : e[1] # "evidence_origin"} \cup {<<"evidence_origin", v>>}  BY <1>5 DEF Sets
<1>8. \A e : e[1] # "evidence_origin" => (e \in z.rec <=> e \in w.rec)  BY <1>6, <1>7
<1>9. z.producer = w.producer /\ z.version = w.version /\ z.trace = w.trace /\ z.kind = w.kind /\ z.at = w.at
      /\ z.inherited_trace = w.inherited_trace /\ z.local_event = w.local_event
      /\ z.reader_origin = w.reader_origin
  BY <1>5 DEF Sets
<1>10. Clean(z.rec)  BY <1>4, <1>6, <1>7 DEF Earned, Clean
<1>11. TraceEarned(z)
  <2>1. <<"trace_id_basis", "OPTICS_GENERATED">>[1] = "trace_id_basis"  OBVIOUS
  <2>2. <<"trace_id_basis", "OPTICS_GENERATED">> \in z.rec => <<"trace_id_basis", "OPTICS_GENERATED">> \in w.rec
    BY <1>8, <2>1
  <2> QED  BY <1>4, <1>8, <1>9, <2>2 DEF Earned, TraceEarned, recognized_producer, Stores
<1>12. \A e \in z.rec : e[1] = "evidence_origin" => e[2] = v  BY <1>6, <1>7
<1>13. OriginEarned(z)
  <2>1. <<"evidence_origin", "LOCAL_OBSERVATION">>[1] = "evidence_origin"
        /\ <<"evidence_origin", "LOCAL_OBSERVATION">>[2] = "LOCAL_OBSERVATION"
        /\ <<"destination_host", "demo">>[1] = "destination_host"
    OBVIOUS
  <2>2. <<"evidence_origin", "LOCAL_OBSERVATION">> \in z.rec => v = "LOCAL_OBSERVATION"  BY <1>12, <2>1
  <2>3. <<"destination_host", "demo">> \in z.rec <=> <<"destination_host", "demo">> \in w.rec  BY <1>8, <2>1
  <2> QED  BY <1>2, <1>9, <1>12, <2>2, <2>3 DEF OriginEarned, recognized_producer
<1>14. Stores(z, "trace_id_basis") => Stores(w, "trace_id_basis")  BY <1>8 DEF Stores
<1>15. Holds(x, z, "evidence_origin")
  BY <1>1, <1>5, <1>9, <1>10, <1>11, <1>13, <1>14 DEF Holds, Earned, Sets
<1> QED  BY <1>15 DEF z, w

LEMMA OriginHolds ==
  ASSUME NEW x, IsState(x), Account(x), Earned(x), ~Stores(x, "evidence_origin"),
         x.kind \in {"observation", "envelope", "derived", "annotation", "health", "quarantine"}, NEW c
  PROVE  Holds(x, origin(x, c), "evidence_origin")
<1>1. Holds(x, x, "evidence_origin")  BY NotesGrow, GrowsHolds
<1>2. Holds(x, Unproven(x), "evidence_origin")
  <2> DEFINE w == [x EXCEPT !.reader_origin = "LEGACY_UNMARKED"]
  <2>1. Holds(x, w, "evidence_origin")  BY ReaderHolds
  <2>2. IsState(w)  BY <2>1 DEF Holds
  <2>3. Unproven(x) = add_disposition(w, "REPLACE_WITH_SAFE_CATEGORY")  BY DEF Unproven
  <2> HIDE DEF w
  <2>4. Grows(w, Unproven(x))  BY <2>2, <2>3, DispositionGrows
  <2> QED  BY <2>1, <2>4, HoldsThen
<1>3. \A v \in {"LOCAL_OBSERVATION", "SIMULATED_DEMO", "TEST_FIXTURE", "DERIVED_DIAGNOSTIC",
                "PRODUCT_HEALTH", "IMPORTED"} : v \notin Dirty
  <2>1. DOMAIN Encodings = {"secret", "format", "percent", "base64", "confusable", "percent_confusable",
                            "base64_format", "base64_percent", "base64_slash", "base64_short",
                            "base64_bare", "base64_dull", "base64_path", "base64_url"}
    BY DEF Encodings
  <2> QED  BY <2>1 DEF Dirty, Bound
<1>4. /\ "ACCEPT" \in Dispositions /\ "NORMALIZE" \in Dispositions
      /\ "REPLACE_WITH_SAFE_CATEGORY" \in Dispositions
  BY DEF Dispositions
<1>5. CASE x.kind \in {"observation", "envelope"}
  <2>1. origin(x, c) = apply_origin(x, c)  BY <1>5 DEF origin
  <2>2. CASE <<"destination_host", "demo">> \in x.rec
    <3>1. apply_origin(x, c) = put([x EXCEPT !.reader_origin = "SIMULATED_DEMO"], "evidence_origin",
                                   "SIMULATED_DEMO", "REPLACE_WITH_SAFE_CATEGORY")
      BY <2>2 DEF apply_origin
    <3> QED  BY <1>3, <1>4, <2>1, <3>1, OriginStored
  <2>3. CASE apply_origin(x, c) = Unproven(x)  BY <1>2, <2>1, <2>3
  <2>4. CASE /\ <<"destination_host", "demo">> \notin x.rec
             /\ ~(c = "LOCAL_OBSERVATION" /\ x.inherited_trace /\ ~x.local_event)
             /\ ~(c = "LOCAL_OBSERVATION" /\ x.producer = "demo_command")
             /\ c \in Writer /\ recognized_producer(x)
    <3>1. apply_origin(x, c) = put([x EXCEPT !.reader_origin = c], "evidence_origin", c, "ACCEPT")
      BY <2>4 DEF apply_origin
    <3>2. c \notin Dirty  BY <1>3, <2>4 DEF Writer
    <3>3. c = "LOCAL_OBSERVATION" => /\ recognized_producer(x) /\ x.producer # "demo_command"
                                     /\ <<"destination_host", "demo">> \notin x.rec
                                     /\ x.inherited_trace => x.local_event
      BY <2>4
    <3> QED  BY <1>4, <2>1, <3>1, <3>2, <3>3, OriginStored
  <2> QED  BY <2>2, <2>3, <2>4 DEF apply_origin
<1>6. CASE x.kind = "annotation"
  <2>1. origin(x, c) = fixed_origin(x, c)  BY <1>6 DEF origin
  <2> DEFINE u == Unproven(x)
  <2> DEFINE v == IF c = "LOCAL_OBSERVATION" THEN u.reader_origin ELSE "none"
  <2>2. fixed_origin(x, c) = x \/ fixed_origin(x, c) = [u EXCEPT !.reader_origin = v]
    BY <1>6 DEF fixed_origin
  <2>3. ~Stores(u, "evidence_origin")
    <3>1. u.rec = x.rec
      <4> DEFINE w == [x EXCEPT !.reader_origin = "LEGACY_UNMARKED"]
      <4>1. IsState(w) /\ w.rec = x.rec  BY DEF IsState
      <4>2. u = [w EXCEPT !.disp = IF Rank["REPLACE_WITH_SAFE_CATEGORY"] > @ THEN Rank["REPLACE_WITH_SAFE_CATEGORY"] ELSE @]
        BY DEF Unproven, add_disposition
      <4> HIDE DEF w
      <4> QED  BY <4>1, <4>2 DEF IsState
    <3> QED  BY <3>1 DEF Stores
  <2>4. IsState(u) /\ Account(u) /\ Earned(u)  BY <1>2 DEF Holds
  <2> HIDE DEF u, v
  <2>5. Holds(u, [u EXCEPT !.reader_origin = v], "evidence_origin")  BY <2>3, <2>4, ReaderHolds
  <2>6. Holds(x, [u EXCEPT !.reader_origin = v], "evidence_origin")  BY <1>2, <2>5 DEF Holds, u
  <2> QED  BY <1>1, <2>1, <2>2, <2>6
<1>7. CASE x.kind \in {"derived", "health", "quarantine"}
  <2>1. origin(x, c) = fixed_origin(x, c)  BY <1>7 DEF origin
  <2>2. PICK o \in {"DERIVED_DIAGNOSTIC", "PRODUCT_HEALTH", "IMPORTED"} :
          fixed_origin(x, c) = put([x EXCEPT !.reader_origin = o], "evidence_origin", o, "NORMALIZE")
    BY <1>7 DEF fixed_origin
  <2>3. o \notin Dirty /\ o # "LOCAL_OBSERVATION"  BY <1>3
  <2> QED  BY <1>4, <2>1, <2>2, <2>3, OriginStored
<1> QED  BY <1>5, <1>6, <1>7

-----------------------------------------------------------------------------
(* A step of a build.                                                      *)

LEMMA ApplyHolds ==
  ASSUME NEW x, IsState(x), Building(x), NEW s, Taken(x, s), NEW c
  PROVE  Holds(x, Apply(x, s, c), s)
<1>1. Account(x) /\ Earned(x) /\ OrderedTrace(x) /\ OrderedOrigin(x)  BY DEF Building
<1>2. /\ s \in OriginBad => ~Stores(x, "evidence_origin")
      /\ s = "witness" => ~Stores(x, "trace_id_basis")
  BY <1>1, Early
<1>3. CASE s = "producer"
  <2>1. ~Stores(x, "evidence_origin")  BY <1>2, <1>3 DEF OriginBad
  <2>2. Apply(x, s, c) = producer(x, c)  BY <1>3 DEF Apply
  <2> QED  BY <1>1, <2>1, <2>2, ProducerHolds
<1>4. CASE s \in {"vantio_trace_id", "traceparent"}
  <2>1. ~Stores(x, "evidence_origin")  BY <1>2, <1>4 DEF OriginBad
  <2>2. Apply(x, s, c) = inherited(x, s, c)  BY <1>4 DEF Apply
  <2> QED  BY <1>1, <1>4, <2>1, <2>2, InheritedHolds
<1>5. CASE s = "witness"
  <2>1. Apply(x, s, c) = witness(x, c)  BY <1>5 DEF Apply
  <2> QED  BY <1>1, <1>2, <1>5, <2>1, WitnessHolds
<1>6. CASE s = "trace_id_basis"
  <2>1. Apply(x, s, c) = apply_trace(x, c)  BY <1>6 DEF Apply
  <2> QED  BY <1>1, <1>6, <2>1, TraceHolds
<1>7. CASE s = "store"
  <2>1. ~Stores(x, "evidence_origin")  BY <1>2, <1>7 DEF OriginBad
  <2>2. Apply(x, s, c) = store_destination(x)  BY <1>7 DEF Apply
  <2> QED  BY <1>1, <2>1, <2>2, StoreHolds
<1>8. CASE s = "evidence_origin"
  <2>1. ~Stores(x, "evidence_origin")  BY <1>2, <1>8 DEF OriginBad
  <2>2. x.kind \in {"observation", "envelope", "derived", "annotation", "health", "quarantine"}
    <3>1. x.kind \in DOMAIN Scripts /\ x.at \in 1 .. Len(Scripts[x.kind]) /\ Scripts[x.kind][x.at] = s
      BY DEF Taken
    <3>2. x.kind # "untyped"
      <4> SUFFICES ASSUME x.kind = "untyped"  PROVE FALSE  OBVIOUS
      <4>1. x.at \in 1 .. Len(<<"leftover">>) /\ <<"leftover">>[x.at] = "evidence_origin"
        BY <1>8, <3>1, ScriptOf
      <4>2. x.at = 1  BY <4>1
      <4> QED  BY <4>1, <4>2
    <3> QED  BY <3>1, <3>2, ScriptOf
  <2>3. Apply(x, s, c) = origin(x, c)  BY <1>8 DEF Apply
  <2> QED  BY <1>1, <1>8, <2>1, <2>2, <2>3, OriginHolds
<1>9. CASE s \in {"cli_or_sdk_version", "producer_id", "event_id", "sequence", "identity_conflict",
                  "session_id", "session_id_basis"}
  <2>1. Apply(x, s, c) \in {cli_or_sdk_version(x, c), producer_id(x, c), event_id(x, c), sequence(x, c),
                            identity_conflict(x, c), session_id(x, c), apply_session(x, c)}
    BY <1>9 DEF Apply
  <2>2. Grows(x, Apply(x, s, c))  BY <2>1, VersionGrows, IdentityGrows, SessionGrows
  <2> QED  BY <1>1, <2>2, GrowsHolds
<1>10. CASE s \in {"trace_id", "span_id", "parent_span_id"}
  <2>1. Apply(x, s, c) = trace_id(x, c) \/ Apply(x, s, c) = span(x, c)  BY <1>10 DEF Apply
  <2>2. Grows(x, trace_id(x, c))  BY NotesGrow, SourceGrows DEF trace_id
  <2>3. Grows(x, Apply(x, s, c))  BY <2>1, <2>2, SpanGrows
  <2> QED  BY <1>1, <2>3, GrowsHolds
<1>11. CASE s \in {"proxy", "redirect", "connected", "requested", "destination_host", "destination_port",
                   "scheme", "path"}
  <2>1. Apply(x, s, c) \in {aside(x, c), connected(x, c), requested(x, c), destination_host(x, c),
                            destination_port(x, c), scheme(x, c), path(x, c)}
    BY <1>11 DEF Apply
  <2>2. Grows(x, Apply(x, s, c))  BY <2>1, AskedGrows, HostGrows, PartsGrow
  <2> QED  BY <1>1, <2>2, GrowsHolds
<1>12. CASE s \in {"http_status", "action", "optics_status", "optics_internal_failure", "sampling",
                   "parent_conflict"}
  <2>1. Apply(x, s, c) \in {http_status(x, c), action(x, c), optics_status(x, c),
                            optics_internal_failure(x, c), sampling(x, c), parent_conflict(x, c)}
    BY <1>12 DEF Apply
  <2>2. Grows(x, Apply(x, s, c))  BY <2>1, OutcomeGrows
  <2> QED  BY <1>1, <2>2, GrowsHolds
<1>13. CASE s \in {"issue_label", "name", "value", "calls", "leftover"}
  <2>1. Apply(x, s, c) \in {issue_label(x, c), name(x, c), value(x, c), calls(x, c), sweep_leftovers(x, c)}
    BY <1>13 DEF Apply
  <2>2. Grows(x, Apply(x, s, c))  BY <2>1, RestGrows
  <2> QED  BY <1>1, <2>2, GrowsHolds
<1> DEFINE Own == {"producer", "vantio_trace_id", "traceparent", "witness", "trace_id_basis", "store",
                   "evidence_origin", "cli_or_sdk_version", "producer_id", "event_id", "sequence",
                   "identity_conflict", "session_id", "session_id_basis", "trace_id", "span_id",
                   "parent_span_id", "proxy", "redirect", "connected", "requested", "destination_host",
                   "destination_port", "scheme", "path", "http_status", "action", "optics_status",
                   "optics_internal_failure", "sampling", "parent_conflict", "issue_label", "name",
                   "value", "calls", "leftover"}
<1>14. CASE s \notin Own
  <2>1. Apply(x, s, c) = Field(x, s, c)  BY <1>14 DEF Apply
  <2>2. s \notin Guarded  BY <1>14 DEF Guarded
  <2>3. Grows(x, Apply(x, s, c))  BY <2>1, <2>2, FieldGrows
  <2> QED  BY <1>1, <2>3, GrowsHolds
<1> QED
  BY <1>3, <1>4, <1>5, <1>6, <1>7, <1>8, <1>9, <1>10, <1>11, <1>12, <1>13, <1>14

Stepped(x, s, c) == [Apply(x, s, c) EXCEPT !.at = @ + 1]

LEMMA StepBuilds ==
  ASSUME NEW x, IsState(x), Building(x), NEW s, Taken(x, s), NEW c,
         NEW y, y = Stepped(x, s, c)
  PROVE  IsState(y) /\ Building(y) /\ y.kind = x.kind /\ y.at = x.at + 1
<1> DEFINE z == Apply(x, s, c)
<1>1. Holds(x, z, s)  BY ApplyHolds
<1>2. IsState(z) /\ z.kind = x.kind /\ z.at = x.at /\ Account(z) /\ Earned(z)  BY <1>1 DEF Holds
<1> HIDE DEF z
<1>3. y = [z EXCEPT !.at = z.at + 1]  BY DEF z, Stepped
<1>4. IsState(y)
  <2>1. z.at + 1 \in Nat  BY <1>2, StateType
  <2> QED  BY <1>2, <1>3, <2>1 DEF IsState
<1>5. y.at = z.at + 1 /\ y.kind = z.kind /\ y.disp = z.disp /\ y.drop_record = z.drop_record
      /\ y.health = z.health /\ y.trace = z.trace /\ y.version = z.version /\ y.producer = z.producer
      /\ y.inherited_trace = z.inherited_trace /\ y.reader_origin = z.reader_origin
      /\ y.local_event = z.local_event /\ y.rec = z.rec
  BY <1>2, <1>3 DEF IsState
<1>6. Account(y)  BY <1>2, <1>5 DEF Account
<1>7. Earned(y)
  <2>1. Clean(y.rec)  BY <1>2, <1>5 DEF Earned
  <2>2. TraceEarned(y)  BY <1>2, <1>5 DEF Earned, TraceEarned, recognized_producer, Stores
  <2>3. OriginEarned(y)  BY <1>2, <1>5 DEF Earned, OriginEarned, recognized_producer
  <2> QED  BY <2>1, <2>2, <2>3 DEF Earned
<1>8. \A f : Stores(y, f) <=> Stores(z, f)  BY <1>5 DEF Stores
<1>9. \A t : Passed(x, t) \/ t = s => Passed(y, t)
  <2> DEFINE q == Scripts[x.kind]
  <2>1. x.at \in 1 .. Len(q) /\ s = q[x.at] /\ x.kind \in DOMAIN Scripts  BY DEF Taken
  <2>2. q \in Seq(Steps)  BY <2>1, ScriptTypes
  <2>3. DOMAIN q = 1 .. Len(q) /\ Len(q) \in Nat  BY <2>2
  <2>4. y.at = x.at + 1 /\ y.kind = x.kind /\ x.at \in Nat  BY <1>2, <1>5, StateType
  <2> HIDE DEF q
  <2>5. \A t : Passed(x, t) <=> \E i \in 1 .. x.at - 1 : i \in DOMAIN q /\ q[i] = t  BY DEF Passed, q
  <2>6. \A t : Passed(y, t) <=> \E i \in 1 .. x.at : i \in DOMAIN q /\ q[i] = t
    <3>1. y.at - 1 = x.at  BY <2>4
    <3> QED  BY <2>4, <3>1 DEF Passed, q
  <2>7. \A t : Passed(x, t) => Passed(y, t)
    <3>1. \A i \in 1 .. x.at - 1 : i \in 1 .. x.at  BY <2>4
    <3> QED  BY <2>5, <2>6, <3>1
  <2>8. Passed(y, s)  BY <2>1, <2>3, <2>6
  <2> QED  BY <2>7, <2>8
<1>10. OrderedTrace(y) /\ OrderedOrigin(y)
  BY <1>1, <1>8, <1>9 DEF Building, OrderedTrace, OrderedOrigin, Holds
<1> QED  BY <1>2, <1>4, <1>5, <1>6, <1>7, <1>10 DEF Building

-----------------------------------------------------------------------------
(* The call: what it begins with, and what it returns.                     *)

LEMMA StateFields ==
  ASSUME NEW kind \in Kinds, NEW x, x = State(kind)
  PROVE  /\ IsState(x) /\ Account(x) /\ x.rec = {} /\ x.kind = kind /\ x.at = 1
         /\ x.disp = 0 /\ x.health.events = 0 /\ ~x.drop_record /\ ~x.privacy
<1>1. NoHealth \in Healths  BY DEF NoHealth, Healths
<1>2. NoTrace \in Traces  BY DEF NoTrace, Traces
<1>3. NoDestination \in Destinations  BY DEF NoDestination, Destinations
<1>4. IsState(x)  BY <1>1, <1>2, <1>3 DEF State, IsState
<1>5. x.rec = {} /\ x.kind = kind /\ x.at = 1 /\ x.disp = 0 /\ x.health = NoHealth
      /\ x.drop_record = FALSE /\ x.privacy = FALSE
  BY DEF State
<1>6. x.health.events = 0  BY <1>5 DEF NoHealth
<1> QED  BY <1>4, <1>5, <1>6 DEF Account

\* A record that stores nothing owes nothing.
LEMMA EmptyEarned ==
  ASSUME NEW x, x.rec = {}
  PROVE  Earned(x) /\ OrderedTrace(x) /\ OrderedOrigin(x)
BY DEF Earned, Clean, TraceEarned, OriginEarned, OrderedTrace, OrderedOrigin, Stores

LEMMA StateBuilds ==
  ASSUME NEW kind \in DOMAIN Scripts, NEW x, x = State(kind) \/ x = drop_record(State(kind))
  PROVE  IsState(x) /\ Building(x) /\ x.kind = kind /\ x.at = 1
<1> DEFINE w == State(kind)
<1>1. IsState(w) /\ Account(w) /\ w.rec = {} /\ w.kind = kind /\ w.at = 1  BY StateFields DEF Kinds
<1>2. Earned(w) /\ OrderedTrace(w) /\ OrderedOrigin(w)  BY <1>1, EmptyEarned
<1> HIDE DEF w
<1>3. x = w \/ x = drop_record(w)  BY DEF w
<1>4. Grows(w, x)  BY <1>1, <1>3, NotesGrow
<1>5. Holds(w, x, "none")  BY <1>1, <1>2, <1>4, GrowsHolds
<1>6. ~Stores(w, "trace_id_basis") /\ ~Stores(w, "evidence_origin")  BY <1>1 DEF Stores
<1> QED  BY <1>1, <1>5, <1>6 DEF Holds, Building, OrderedTrace, OrderedOrigin

LEMMA FinishReturns ==
  ASSUME NEW x, IsState(x), Clean(x.rec), NEW drops, finish_result(x, drops)
  PROVE  /\ pc' = "done" /\ Clean(result'.rec)
         /\ result'.kind = x.kind /\ result'.health = x.health /\ result'.dropped_count = drops
         /\ result'.privacy = x.privacy /\ result'.emitted = ~x.drop_record
         /\ result'.disp \in Nat /\ result'.disp >= x.disp /\ (result'.disp = 5 <=> x.disp = 5)
<1>1. PICK detached \in BOOLEAN :
        result' = [kind |-> x.kind, emitted |-> Emitted(x), rec |-> IF Emitted(x) THEN x.rec ELSE {},
                   disp |-> IF detached THEN x.disp ELSE reject_field(x).disp,
                   health |-> x.health, privacy |-> x.privacy, dropped_count |-> drops,
                   reader_origin |-> x.reader_origin]
  BY DEF finish_result
<1>2. reject_field(x).disp = IF 4 > x.disp THEN 4 ELSE x.disp
  <2>1. reject_field(x) = [x EXCEPT !.disp = IF 4 > @ THEN 4 ELSE @]
    BY RankIs DEF reject_field, add_disposition
  <2> QED  BY <2>1 DEF IsState
<1>3. x.disp \in 0 .. 5  BY StateType
<1>4. result'.disp \in Nat /\ result'.disp >= x.disp /\ (result'.disp = 5 <=> x.disp = 5)
  BY <1>1, <1>2, <1>3
<1>5. Clean(result'.rec)
  <2>1. result'.rec = x.rec \/ result'.rec = {}  BY <1>1
  <2> QED  BY <2>1 DEF Clean
<1>6. result'.emitted = ~x.drop_record  BY <1>1, Zenon DEF Emitted
<1> QED  BY <1>1, <1>4, <1>5, <1>6 DEF finish_result

\* A call that is refused reports nothing of its input.
LEMMA TerminalReturns ==
  ASSUME NEW d \in {"REJECT_FIELD", "REJECT_RECORD"}, NEW counted \in BOOLEAN, NEW secret \in BOOLEAN,
         Terminal(d, counted, secret)
  PROVE  pc' = "done" /\ Clean(result'.rec) /\ result'.kind = "terminal"
<1> DEFINE s0 == State("terminal")
<1> DEFINE u == add_disposition(s0, d)
<1> DEFINE x == [u EXCEPT !.drop_record = TRUE, !.health.events = IF counted THEN 1 ELSE 0]
<1>1. IsState(s0) /\ s0.rec = {} /\ s0.kind = "terminal"  BY StateFields DEF Kinds
<1> HIDE DEF s0
<1>2. PICK n \in 0 .. 5 : u = [s0 EXCEPT !.disp = n]
  <2>1. Rank[d] \in 0 .. 5  BY RankIs
  <2>2. s0.disp \in 0 .. 5  BY <1>1, StateType
  <2>3. PICK n \in 0 .. 5 : n = (IF Rank[d] > s0.disp THEN Rank[d] ELSE s0.disp)  BY <2>1, <2>2
  <2> QED  BY <2>3 DEF add_disposition
<1>3. IsState(u)  BY <1>1, <1>2 DEF IsState
<1>4. u.rec = {} /\ u.kind = "terminal"  BY <1>1, <1>2 DEF IsState
<1> HIDE DEF u
<1>5. PICK m \in Nat : m = (IF counted THEN 1 ELSE 0)  OBVIOUS
<1>6. x = [u EXCEPT !.drop_record = TRUE, !.health.events = m]  BY <1>5
<1>7. IsState(x) /\ x.rec = {} /\ x.kind = "terminal"
  <2>1. u.health \in Healths  BY <1>3, StateType
  <2>2. x.health \in Healths  BY <1>3, <1>6, <2>1 DEF IsState, Healths
  <2>3. IsState(x)  BY <1>3, <1>6, <2>2 DEF IsState
  <2> QED  BY <1>3, <1>4, <1>6, <2>3 DEF IsState
<1>8. PICK y : finish_result(y, 0) /\ (y = x \/ y = mark_privacy(x))
  BY DEF Terminal, MarkIf, u, s0
<1> HIDE DEF x
<1>9. Grows(x, y)  BY <1>7, <1>8, NotesGrow
<1>10. IsState(y) /\ y.kind = "terminal"  BY <1>7, <1>9 DEF Grows
<1>11. Clean(y.rec)  BY <1>7, <1>9 DEF Grows, Clean
<1> QED  BY <1>8, <1>10, <1>11, FinishReturns

-----------------------------------------------------------------------------
(* The actions.                                                            *)

LEMMA NoKids ==
  ASSUME kids = <<>>
  PROVE  Lost = {} /\ Cardinality(Lost) = 0 /\ DOMAIN kids = {}
<1>1. DOMAIN kids = {}  OBVIOUS
<1>2. Lost = {}  BY <1>1 DEF Lost
<1> QED  BY <1>1, <1>2, FS_EmptySet

\* What a finished envelope says of the calls of its log.
LEMMA AccountReturned ==
  ASSUME NEW dropped \in BOOLEAN, kids' = kids, Cardinality(Lost) \in Nat,
         result'.health.events = Cardinality(Lost) + (IF dropped THEN 1 ELSE 0),
         result'.dropped_count = Cardinality(Lost), result'.emitted = ~dropped,
         result'.disp = 5 <=> result'.health.events > 0,
         \A i \in DOMAIN kids : kids[i].disp <= result'.disp /\ (kids[i].privacy => result'.privacy)
  PROVE  Accounted'
<1>1. {i \in DOMAIN kids' : ~kids'[i].emitted} = Lost  BY DEF Lost
<1>2. (IF result'.emitted THEN 0 ELSE 1) = (IF dropped THEN 1 ELSE 0)
  <2>1. CASE dropped
    <3>1. ~result'.emitted  BY <2>1, Zenon
    <3> QED  BY <2>1, <3>1
  <2>2. CASE ~dropped
    <3>1. result'.emitted  BY <2>2, Zenon
    <3> QED  BY <2>2, <3>1
  <2> QED  BY <2>1, <2>2
<1>3. Rank["REJECT_RECORD"] = 5  BY RankIs
<1> QED  BY <1>1, <1>2, <1>3 DEF Accounted

LEMMA InitInv == Init => IInv
<1> SUFFICES ASSUME Init  PROVE IInv  OBVIOUS
<1>1. /\ pc = "enter" /\ b = State("none") /\ env = State("none") /\ left = 0 /\ kids = <<>>
  BY DEF Init
<1>2. IsState(b) /\ IsState(env) /\ env.kind = "none"  BY <1>1, StateFields DEF Kinds
<1>3. DOMAIN kids = {} /\ kids \in Seq({})  BY <1>1
<1>4. WellTyped  BY <1>1, <1>2, <1>3 DEF WellTyped
<1>5. Phases  BY <1>1, <1>2 DEF Phases
<1>6. KidsOK  BY <1>3 DEF KidsOK
<1> QED  BY <1>1, <1>4, <1>5, <1>6 DEF IInv, Returned

LEMMA RefuseKeeps ==
  ASSUME IInv, Refuse
  PROVE  IInv'
<1>1. pc' = "done" /\ Clean(result'.rec) /\ result'.kind = "terminal"  BY TerminalReturns DEF Refuse
<1>2. UNCHANGED <<b, env, left, kids>>  BY DEF Refuse
<1>3. WellTyped'  BY <1>1, <1>2 DEF IInv, WellTyped, IsState, IsCall
<1>4. Phases'  BY <1>1 DEF Phases
<1>5. KidsOK'  BY <1>2 DEF IInv, KidsOK
<1>6. Returned'  BY <1>1 DEF Returned, Accounted
<1> QED  BY <1>1, <1>3, <1>4, <1>5, <1>6 DEF IInv

LEMMA BeginKeeps ==
  ASSUME IInv, NEW kind \in DOMAIN Scripts, Begin(kind)
  PROVE  IInv'
<1>1. /\ pc = "enter" /\ pc' = "build" /\ UNCHANGED <<env, left, kids>>
      /\ b' = State(kind) \/ b' = drop_record(State(kind))
  BY DEF Begin
<1>2. IsState(b') /\ Building(b') /\ b'.kind = kind /\ b'.at = 1  BY <1>1, StateBuilds
<1>3. WellTyped'  BY <1>1, <1>2 DEF IInv, WellTyped, IsState, IsCall
<1>4. env.kind = "none" /\ kids = <<>>  BY <1>1 DEF IInv, Phases
<1>5. Phases'  BY <1>1, <1>2, <1>4 DEF Phases
<1>6. KidsOK'  BY <1>1 DEF IInv, KidsOK
<1>7. Returned'  BY <1>1 DEF Returned
<1> QED  BY <1>1, <1>2, <1>3, <1>4, <1>5, <1>6, <1>7 DEF IInv

LEMMA BeginLogKeeps ==
  ASSUME IInv, NEW n \in 0 .. calls_max + 1, BeginLog(n)
  PROVE  IInv'
<1>1. /\ pc = "enter" /\ pc' = "build" /\ kids' = kids
      /\ b' = State("envelope") /\ env' = State("log") /\ left' = n
  BY DEF BeginLog
<1>2. "envelope" \in DOMAIN Scripts  BY ScriptOf
<1>3. IsState(b') /\ Building(b') /\ b'.kind = "envelope" /\ b'.at = 1  BY <1>1, <1>2, StateBuilds
<1>4. IsState(env') /\ env'.kind = "log"  BY <1>1, StateFields DEF Kinds
<1>5. WellTyped'  BY <1>1, <1>3, <1>4 DEF IInv, WellTyped, IsCall
<1>6. kids = <<>>  BY <1>1 DEF IInv, Phases
<1>7. Phases'  BY <1>1, <1>2, <1>3, <1>4, <1>6 DEF Phases
<1>8. KidsOK'  BY <1>1 DEF IInv, KidsOK
<1>9. Returned'  BY <1>1 DEF Returned
<1> QED  BY <1>1, <1>3, <1>4, <1>5, <1>7, <1>8, <1>9 DEF IInv

LEMMA BuildFieldKeeps ==
  ASSUME IInv, BuildField
  PROVE  IInv'
<1>1. pc = "build" /\ b.at <= Len(Scripts[b.kind]) /\ UNCHANGED <<pc, env, left, kids, result>>
  BY DEF BuildField
<1> DEFINE s == Scripts[b.kind][b.at]
<1>2. PICK c \in Choices(s) : b' = Stepped(b, s, c)  BY DEF BuildField, Stepped
<1>3. IsState(b) /\ Building(b) /\ b.kind \in DOMAIN Scripts /\ b.at \in Nat \ {0}
  BY <1>1 DEF IInv, WellTyped, Phases
<1>4. Taken(b, s)
  <2>1. Scripts[b.kind] \in Seq(Steps)  BY <1>3, ScriptTypes
  <2>2. Len(Scripts[b.kind]) \in Nat  BY <2>1
  <2> QED  BY <1>1, <1>3, <2>2 DEF Taken
<1> HIDE DEF s
<1>5. IsState(b') /\ Building(b') /\ b'.kind = b.kind /\ b'.at = b.at + 1  BY <1>2, <1>3, <1>4, StepBuilds
<1>6. WellTyped'  BY <1>1, <1>5 DEF IInv, WellTyped, IsState, IsCall
<1>7. Phases'  BY <1>1, <1>3, <1>5 DEF IInv, Phases
<1>8. KidsOK' /\ Returned'  BY <1>1 DEF IInv, KidsOK, Returned
<1>9. pc' = "build" /\ env'.kind = "envelope" => LogAccount' /\ Clean(env'.rec)
  BY <1>1 DEF IInv, LogAccount, Lost, Clean
<1> QED  BY <1>1, <1>5, <1>6, <1>7, <1>8, <1>9 DEF IInv

LEMMA FaultKeeps ==
  ASSUME IInv, ValidatorFault
  PROVE  IInv'
<1>1. Terminal("REJECT_RECORD", TRUE, FALSE) /\ kids' = <<>> /\ left' = 0 /\ UNCHANGED <<b, env>>
  BY DEF ValidatorFault
<1>2. pc' = "done" /\ Clean(result'.rec) /\ result'.kind = "terminal"  BY <1>1, TerminalReturns
<1>3. kids' \in Seq({}) /\ DOMAIN kids' = {}  BY <1>1
<1>4. WellTyped'  BY <1>1, <1>2, <1>3 DEF IInv, WellTyped, IsState
<1>5. Phases'  BY <1>2 DEF Phases
<1>6. KidsOK'  BY <1>3 DEF KidsOK
<1>7. Returned'  BY <1>2 DEF Returned, Accounted
<1> QED  BY <1>2, <1>4, <1>5, <1>6, <1>7 DEF IInv

LEMMA FinishRecordKeeps ==
  ASSUME IInv, FinishRecord
  PROVE  IInv'
<1>1. pc = "build" /\ env.kind = "none" /\ finish_result(b, 0) /\ UNCHANGED <<b, env, left, kids>>
  BY DEF FinishRecord, Built, InLog
<1>2. IsState(b) /\ Account(b) /\ Clean(b.rec) /\ kids = <<>>
  BY <1>1 DEF IInv, WellTyped, Phases, Building, Earned
<1>3. /\ pc' = "done" /\ Clean(result'.rec) /\ result'.health = b.health /\ result'.dropped_count = 0
      /\ result'.emitted = ~b.drop_record /\ (result'.disp = 5 <=> b.disp = 5)
  BY <1>1, <1>2, FinishReturns
<1>4. WellTyped'  BY <1>1, <1>3 DEF IInv, WellTyped, IsState, IsCall
<1>5. Phases'  BY <1>3 DEF Phases
<1>6. KidsOK'  BY <1>1 DEF IInv, KidsOK
<1>7. Accounted'
  <2>1. Lost = {} /\ Cardinality(Lost) = 0 /\ DOMAIN kids = {}  BY <1>2, NoKids
  <2>2. kids' = kids  BY <1>1
  <2>3. b.drop_record \in BOOLEAN  BY <1>2, StateType
  <2>4. b.health.events = (IF b.drop_record THEN 1 ELSE 0) /\ (b.drop_record <=> b.disp = 5)
    BY <1>2 DEF Account
  <2>5. result'.health.events = Cardinality(Lost) + (IF b.drop_record THEN 1 ELSE 0)
    BY <1>3, <2>1, <2>4
  <2>6. result'.disp = 5 <=> result'.health.events > 0  BY <1>3, <2>3, <2>4
  <2> HIDE DEF Lost
  <2> QED  BY <1>3, <2>1, <2>2, <2>3, <2>5, <2>6, AccountReturned
<1> QED  BY <1>3, <1>4, <1>5, <1>6, <1>7 DEF IInv, Returned

LEMMA NothingLost ==
  ASSUME kids = <<>>, kids' = kids, Account(env)'
  PROVE  LogAccount'
<1>1. Lost = {} /\ Cardinality(Lost) = 0 /\ DOMAIN kids = {}  BY NoKids
<1>2. Lost' = Lost  BY DEF Lost
<1>3. Cardinality(Lost') = 0 /\ DOMAIN kids' = {}  BY <1>1, <1>2
<1> HIDE DEF Lost
<1>4. /\ env'.drop_record <=> env'.disp = 5
      /\ env'.health.events = IF env'.drop_record THEN 1 ELSE 0
  BY DEF Account
<1>5. env'.health.events = Cardinality(Lost') + (IF env'.drop_record THEN 1 ELSE 0)  BY <1>3, <1>4
<1>6. env'.disp = 5 <=> env'.health.events > 0  BY <1>4
<1> QED  BY <1>3, <1>5, <1>6 DEF LogAccount

LEMMA StartCallsKeeps ==
  ASSUME IInv, StartCalls
  PROVE  IInv'
<1>1. /\ pc = "build" /\ env.kind = "log" /\ pc' = "calls" /\ b' = State("none") /\ kids' = kids
      /\ env' = drop_record(b) \/ env' = b
      /\ left' = 0 \/ left' = left
  BY DEF StartCalls, Built
<1>2. /\ IsState(b) /\ Account(b) /\ Clean(b.rec) /\ b.kind = "envelope" /\ kids = <<>> /\ left \in Nat
  BY <1>1 DEF IInv, WellTyped, Phases, Building, Earned
<1>3. Grows(b, env')  BY <1>1, <1>2, NotesGrow
<1>4. IsState(env') /\ Account(env') /\ env'.kind = "envelope" /\ Clean(env'.rec)
  BY <1>2, <1>3 DEF Grows, Clean
<1>5. IsState(b')  BY <1>1, StateFields DEF Kinds
<1>6. WellTyped'  BY <1>1, <1>2, <1>4, <1>5 DEF IInv, WellTyped, IsCall
<1>7. Phases'  BY <1>1, <1>4 DEF Phases
<1>8. KidsOK'  BY <1>1 DEF IInv, KidsOK
<1>9. LogAccount'  BY <1>1, <1>2, <1>4, NothingLost
<1>10. Returned'  BY <1>1 DEF Returned
<1> QED  BY <1>1, <1>4, <1>6, <1>7, <1>8, <1>9, <1>10 DEF IInv

LEMMA NextCallKeeps ==
  ASSUME IInv, NextCall
  PROVE  IInv'
<1>1. /\ pc = "calls" /\ left > 0 /\ left' = left - 1 /\ pc' = "build" /\ b' = State("observation")
      /\ env' = env /\ kids' = kids
  BY DEF NextCall
<1>2. "observation" \in DOMAIN Scripts  BY ScriptOf
<1>3. IsState(b') /\ Building(b') /\ b'.kind = "observation" /\ b'.at = 1  BY <1>1, <1>2, StateBuilds
<1>4. env.kind = "envelope" /\ LogAccount /\ Clean(env.rec) /\ left \in Nat
  BY <1>1 DEF IInv, WellTyped, Phases
<1>5. left' \in Nat  BY <1>1, <1>4
<1>6. WellTyped'  BY <1>1, <1>3, <1>5 DEF IInv, WellTyped, IsState, IsCall
<1>7. Phases'  BY <1>1, <1>2, <1>3, <1>4 DEF Phases
<1>8. KidsOK'  BY <1>1 DEF IInv, KidsOK
<1>9. LogAccount' /\ Clean(env'.rec)  BY <1>1, <1>4 DEF LogAccount, Lost
<1>10. Returned'  BY <1>1 DEF Returned
<1> QED  BY <1>1, <1>3, <1>6, <1>7, <1>8, <1>9, <1>10 DEF IInv

\* The envelope takes over the account of a call.
LEMMA MergeFields ==
  ASSUME NEW p, IsState(p), NEW x, IsState(x), NEW y, y = merge_state(p, x)
  PROVE  /\ IsState(y) /\ y.kind = p.kind /\ y.rec = p.rec /\ y.drop_record = p.drop_record
         /\ y.health.events = p.health.events + x.health.events
         /\ y.disp = IF x.disp > p.disp THEN x.disp ELSE p.disp
         /\ y.privacy <=> p.privacy \/ x.privacy
<1>1. p.health \in Healths /\ x.health \in Healths  BY StateType
<1>2. Plus(p.health, x.health) \in Healths
      /\ Plus(p.health, x.health).events = p.health.events + x.health.events
  BY <1>1 DEF Plus, Healths
<1>3. PICK d \in 0 .. 5 : d = IF x.disp > p.disp THEN x.disp ELSE p.disp  BY StateType
<1>4. PICK v \in BOOLEAN : v = (p.privacy \/ x.privacy)  BY Zenon
<1>5. v <=> p.privacy \/ x.privacy  BY <1>4, Zenon
<1> DEFINE h == Plus(p.health, x.health)
<1> DEFINE o == IF p.reader_origin = "none" THEN x.reader_origin ELSE p.reader_origin
<1>6. y = [p EXCEPT !.disp = d, !.health = h, !.privacy = v, !.reader_origin = o]
  BY <1>3, <1>4, Zenon DEF merge_state
<1>7. h \in Healths /\ h.events = p.health.events + x.health.events  BY <1>2
<1> HIDE DEF h, o
<1>8. IsState(y)  BY <1>6, <1>7 DEF IsState
<1>9. y.kind = p.kind /\ y.rec = p.rec /\ y.drop_record = p.drop_record /\ y.health = h
      /\ y.disp = d /\ y.privacy = v
  BY <1>6 DEF IsState
<1> QED  BY <1>3, <1>5, <1>7, <1>8, <1>9

LEMMA LostFinite ==
  ASSUME NEW S, kids \in Seq(S)
  PROVE  IsFiniteSet(Lost) /\ Cardinality(Lost) \in Nat /\ Len(kids) + 1 \notin Lost
<1>1. DOMAIN kids = 1 .. Len(kids) /\ Len(kids) \in Nat  OBVIOUS
<1>2. IsFiniteSet(1 .. Len(kids))  BY <1>1, FS_Interval
<1>3. Lost \subseteq 1 .. Len(kids)  BY <1>1 DEF Lost
<1>4. IsFiniteSet(Lost)  BY <1>2, <1>3, FS_Subset
<1>5. Len(kids) + 1 \notin Lost  BY <1>1, <1>3
<1> QED  BY <1>4, <1>5, FS_CardinalityType

\* A call joins the account, emitted or lost.
LEMMA LostGrows ==
  ASSUME NEW S, kids \in Seq(S), NEW k, kids' = Append(kids, k), NEW em \in BOOLEAN, k.emitted = em
  PROVE  Cardinality(Lost') = Cardinality(Lost) + (IF em THEN 0 ELSE 1)
<1> DEFINE n == Len(kids) + 1
<1>1. IsFiniteSet(Lost) /\ Cardinality(Lost) \in Nat /\ n \notin Lost  BY LostFinite
<1>2. DOMAIN kids = 1 .. Len(kids) /\ Len(kids) \in Nat  OBVIOUS
<1>3. kids \in Seq(S \cup {k})  BY <1>2
<1>4. DOMAIN kids' = DOMAIN kids \cup {n} /\ kids'[n] = k
  <2>1. Len(kids') = n /\ kids'[n] = k  BY <1>3
  <2>2. kids' \in Seq(S \cup {k})  BY <1>3
  <2>3. DOMAIN kids' = 1 .. n  BY <2>1, <2>2
  <2> QED  BY <1>2, <2>1, <2>3
<1>5. \A i \in DOMAIN kids : kids'[i] = kids[i]  BY <1>2, <1>3
<1>6. CASE em
  <2>1. k.emitted  BY <1>6, Zenon
  <2>2. Lost' = Lost
    <3>1. \A i \in DOMAIN kids' : ~kids'[i].emitted <=> i \in Lost
      BY <1>2, <1>4, <1>5, <2>1 DEF Lost
    <3> QED  BY <1>4, <3>1 DEF Lost
  <2> QED  BY <1>1, <1>6, <2>2
<1>7. CASE ~em
  <2>1. ~k.emitted  BY <1>7, Zenon
  <2>2. Lost' = Lost \cup {n}
    <3>1. \A i \in DOMAIN kids' : ~kids'[i].emitted <=> i \in Lost \cup {n}
      BY <1>2, <1>4, <1>5, <2>1 DEF Lost
    <3> QED  BY <1>4, <3>1 DEF Lost
  <2>3. Cardinality(Lost \cup {n}) = Cardinality(Lost) + 1  BY <1>1, FS_AddElement
  <2> QED  BY <1>7, <2>2, <2>3
<1> QED  BY <1>6, <1>7

LEMMA EndCallKeeps ==
  ASSUME IInv, EndCall
  PROVE  IInv'
<1>1. /\ pc = "build" /\ env.kind = "envelope" /\ pc' = "calls" /\ b' = State("none") /\ left' = left
      /\ env' = merge_state(env, b)
      /\ kids' = Append(kids, [emitted |-> Emitted(b), rec |-> IF Emitted(b) THEN b.rec ELSE {},
                               disp |-> b.disp, privacy |-> b.privacy])
  BY DEF EndCall, Built
<1>2. /\ IsState(b) /\ Account(b) /\ Clean(b.rec) /\ IsState(env) /\ LogAccount /\ Clean(env.rec)
      /\ KidsOK /\ left \in Nat
  BY <1>1 DEF IInv, WellTyped, Building, Earned
<1>3. PICK S : kids \in Seq(S)  BY DEF IInv, WellTyped
<1>4. PICK em \in BOOLEAN : em = Emitted(b)  BY Zenon DEF Emitted
<1>5. em <=> ~b.drop_record  BY <1>4, Zenon DEF Emitted
<1> DEFINE r == IF em THEN b.rec ELSE {}
<1> DEFINE k == [emitted |-> em, rec |-> r, disp |-> b.disp, privacy |-> b.privacy]
<1>6. kids' = Append(kids, k)  BY <1>1, <1>4, Zenon
<1>7. Clean(r)  BY <1>2 DEF Clean
<1> HIDE DEF r
<1>8. IsCall(k) /\ k.emitted = em /\ k.rec = r /\ k.disp = b.disp /\ k.privacy = b.privacy
  BY <1>2, StateType DEF IsCall
<1> HIDE DEF k
<1>9. k.emitted <=> k.disp # 5
  <2>1. k.emitted <=> em  BY <1>8, Zenon
  <2> QED  BY <1>2, <1>5, <1>8, <2>1 DEF Account
<1> DEFINE n == Len(kids) + 1
<1>10. DOMAIN kids = 1 .. Len(kids) /\ Len(kids) \in Nat  BY <1>3
<1>11. kids' \in Seq(S \cup {k}) /\ DOMAIN kids' = DOMAIN kids \cup {n} /\ kids'[n] = k
       /\ \A i \in DOMAIN kids : kids'[i] = kids[i]
  <2>1. kids \in Seq(S \cup {k})  BY <1>3, <1>10
  <2>2. Len(kids') = n /\ kids'[n] = k /\ kids' \in Seq(S \cup {k})  BY <1>6, <2>1
  <2>3. DOMAIN kids' = 1 .. n  BY <2>2
  <2>4. \A i \in DOMAIN kids : kids'[i] = kids[i]  BY <1>6, <1>10, <2>1
  <2> QED  BY <1>10, <2>2, <2>3, <2>4
<1> HIDE DEF n
<1>12. /\ IsState(env') /\ env'.kind = "envelope" /\ env'.rec = env.rec
       /\ env'.drop_record = env.drop_record
       /\ env'.health.events = env.health.events + b.health.events
       /\ env'.disp = IF b.disp > env.disp THEN b.disp ELSE env.disp
       /\ env'.privacy <=> env.privacy \/ b.privacy
  BY <1>1, <1>2, MergeFields
<1>13. IsState(b')  BY <1>1, StateFields DEF Kinds
<1>14. WellTyped'
  <2>1. \A i \in DOMAIN kids' : IsCall(kids'[i])
    <3>1. \A i \in DOMAIN kids : IsCall(kids[i])  BY DEF IInv, WellTyped
    <3> QED  BY <1>8, <1>11, <3>1
  <2>2. \E T : kids' \in Seq(T)  BY <1>11
  <2> QED  BY <1>1, <1>2, <1>12, <1>13, <2>1, <2>2 DEF WellTyped
<1>15. Phases'  BY <1>1, <1>12 DEF Phases
<1>16. KidsOK'
  <2>1. \A i \in DOMAIN kids' : Clean(kids'[i].rec) /\ (kids'[i].emitted <=> kids'[i].disp # 5)
    BY <1>2, <1>7, <1>8, <1>9, <1>11 DEF KidsOK
  <2> QED  BY <2>1 DEF KidsOK
<1>17. LogAccount'
  <2>1. env'.health.events = Cardinality(Lost') + (IF env'.drop_record THEN 1 ELSE 0)
    <3>1. Cardinality(Lost') = Cardinality(Lost) + (IF em THEN 0 ELSE 1)  BY <1>3, <1>6, <1>8, LostGrows
    <3>2. Cardinality(Lost) \in Nat  BY <1>3, LostFinite
    <3>3. env.health.events = Cardinality(Lost) + (IF env.drop_record THEN 1 ELSE 0)
      BY <1>2 DEF LogAccount
    <3>4. b.health.events = (IF em THEN 0 ELSE 1)  BY <1>2, <1>5 DEF Account
    <3> QED  BY <1>12, <3>1, <3>2, <3>3, <3>4
  <2>2. env'.disp = 5 <=> env'.health.events > 0
    <3>1. env.disp = 5 <=> env.health.events > 0  BY <1>2 DEF LogAccount
    <3>2. b.disp = 5 <=> b.health.events > 0  BY <1>2 DEF Account
    <3>3. env.disp \in 0 .. 5 /\ b.disp \in 0 .. 5  BY <1>2, StateType
    <3>4. env.health.events \in Nat /\ b.health.events \in Nat
      <4>1. env.health \in Healths /\ b.health \in Healths  BY <1>2, StateType
      <4> QED  BY <4>1 DEF Healths
    <3> QED  BY <1>12, <3>1, <3>2, <3>3, <3>4
  <2>3. \A i \in DOMAIN kids' : kids'[i].disp <= env'.disp /\ (kids'[i].privacy => env'.privacy)
    <3>1. \A i \in DOMAIN kids : kids[i].disp <= env.disp /\ (kids[i].privacy => env.privacy)
      BY <1>2 DEF LogAccount
    <3>2. env.disp \in 0 .. 5 /\ b.disp \in 0 .. 5  BY <1>2, StateType
    <3>3. \A i \in DOMAIN kids : kids[i].disp \in 0 .. 5  BY DEF IInv, WellTyped, IsCall
    <3>4. k.disp <= env'.disp /\ (k.privacy => env'.privacy)  BY <1>8, <1>12, <3>2
    <3>5. \A i \in DOMAIN kids : kids[i].disp <= env'.disp /\ (kids[i].privacy => env'.privacy)
      BY <1>12, <3>1, <3>2, <3>3
    <3> QED  BY <1>11, <3>4, <3>5
  <2> QED  BY <2>1, <2>2, <2>3 DEF LogAccount
<1>18. Returned' /\ Clean(env'.rec)  BY <1>1, <1>2, <1>12 DEF Returned
<1> QED  BY <1>1, <1>14, <1>15, <1>16, <1>17, <1>18 DEF IInv

\* The counts move the disposition alone, and never to a refusal.
LEMMA CountsSame ==
  ASSUME NEW x, IsState(x), NEW y, y = put_counts(x)
  PROVE  /\ IsState(y) /\ y.rec = x.rec /\ y.health = x.health /\ y.privacy = x.privacy
         /\ y.drop_record = x.drop_record /\ y.disp >= x.disp /\ (y.disp = 5 <=> x.disp = 5)
<1>1. x.disp \in 0 .. 5  BY StateType
<1>2. CASE y = x  BY <1>1, <1>2
<1>3. CASE y # x
  <2>1. PICK n \in 0 .. 5 : n = IF 1 > x.disp THEN 1 ELSE x.disp  BY <1>1
  <2>2. y = [x EXCEPT !.disp = n]  BY <1>3, <2>1, RankIs DEF put_counts, add_disposition
  <2>3. IsState(y)  BY <2>1, <2>2 DEF IsState
  <2>4. y.rec = x.rec /\ y.health = x.health /\ y.privacy = x.privacy
        /\ y.drop_record = x.drop_record /\ y.disp = n
    BY <2>2 DEF IsState
  <2> QED  BY <1>1, <2>1, <2>3, <2>4
<1> QED  BY <1>2, <1>3

LEMMA FinishLogKeeps ==
  ASSUME IInv, FinishLog
  PROVE  IInv'
<1>1. /\ pc = "calls" /\ finish_result(put_counts(env), Cardinality(Lost))
      /\ UNCHANGED <<b, env, left, kids>>
  BY DEF FinishLog, Lost
<1>2. IsState(env) /\ LogAccount /\ Clean(env.rec) /\ KidsOK
  BY <1>1 DEF IInv, WellTyped, Phases
<1>20. PICK y : y = put_counts(env)  OBVIOUS
<1>21. /\ IsState(y) /\ y.rec = env.rec /\ y.health = env.health /\ y.privacy = env.privacy
      /\ y.drop_record = env.drop_record /\ y.disp >= env.disp /\ (y.disp = 5 <=> env.disp = 5)
  BY <1>2, <1>20, CountsSame
<1>22. finish_result(y, Cardinality(Lost)) /\ Clean(y.rec)  BY <1>1, <1>2, <1>20, <1>21
<1>23. /\ pc' = "done" /\ Clean(result'.rec) /\ result'.health = y.health
      /\ result'.dropped_count = Cardinality(Lost) /\ result'.privacy = y.privacy
      /\ result'.emitted = ~y.drop_record /\ result'.disp >= y.disp /\ result'.disp \in Nat
      /\ (result'.disp = 5 <=> y.disp = 5)
  BY <1>21, <1>22, FinishReturns
<1>24. env.disp \in 0 .. 5 /\ y.disp \in 0 .. 5  BY <1>2, <1>21, StateType
<1>3. /\ pc' = "done" /\ Clean(result'.rec) /\ result'.health = env.health
      /\ result'.dropped_count = Cardinality(Lost) /\ result'.privacy = env.privacy
      /\ result'.emitted = ~env.drop_record /\ result'.disp >= env.disp
      /\ (result'.disp = 5 <=> env.disp = 5)
  BY <1>21, <1>23, <1>24
<1>4. WellTyped'  BY <1>1, <1>3 DEF IInv, WellTyped, IsState, IsCall
<1>5. Phases'  BY <1>3 DEF Phases
<1>6. KidsOK'  BY <1>1, <1>2 DEF KidsOK
<1>7. Accounted'
  <2>1. Cardinality(Lost) \in Nat
    <3>1. PICK S : kids \in Seq(S)  BY DEF IInv, WellTyped
    <3> QED  BY <3>1, LostFinite
  <2>2. env.drop_record \in BOOLEAN /\ env.disp \in 0 .. 5  BY <1>2, StateType
  <2>3. /\ env.health.events = Cardinality(Lost) + (IF env.drop_record THEN 1 ELSE 0)
        /\ env.disp = 5 <=> env.health.events > 0
        /\ \A i \in DOMAIN kids : kids[i].disp <= env.disp /\ (kids[i].privacy => env.privacy)
    BY <1>2 DEF LogAccount
  <2> HIDE DEF Lost
  <2>4. \A i \in DOMAIN kids : kids[i].disp <= result'.disp /\ (kids[i].privacy => result'.privacy)
    <3>1. \A i \in DOMAIN kids : kids[i].disp \in 0 .. 5  BY DEF IInv, WellTyped, IsCall
    <3>2. result'.disp \in Nat  BY <1>23
    <3> QED  BY <1>3, <2>2, <2>3, <3>1, <3>2
  <2>5. kids' = kids /\ (result'.disp = 5 <=> result'.health.events > 0)
        /\ result'.health.events = Cardinality(Lost) + (IF env.drop_record THEN 1 ELSE 0)
    BY <1>1, <1>3, <2>3
  <2> QED  BY <1>3, <2>1, <2>2, <2>4, <2>5, AccountReturned
<1> QED  BY <1>3, <1>4, <1>5, <1>6, <1>7 DEF IInv, Returned

LEMMA StutterKeeps ==
  ASSUME IInv, UNCHANGED vars
  PROVE  IInv'
<1> USE DEF vars
<1>1. WellTyped'  BY DEF IInv, WellTyped, IsState, IsCall
<1>2. Phases'  BY DEF IInv, Phases
<1>3. pc' = "build" => Building(b)'
  BY DEF IInv, Building, Account, Earned, Clean, TraceEarned, OriginEarned, OrderedTrace, OrderedOrigin,
         Passed, Stores, recognized_producer
<1>4. KidsOK'  BY DEF IInv, KidsOK, Clean
<1>5. pc' \in {"build", "calls"} /\ env'.kind = "envelope" => LogAccount' /\ Clean(env.rec)'
  BY DEF IInv, LogAccount, Lost, Clean
<1>6. Returned'  BY DEF IInv, Returned, Accounted, Clean
<1> QED  BY <1>1, <1>2, <1>3, <1>4, <1>5, <1>6 DEF IInv

LEMMA NextKeeps ==
  ASSUME IInv, [Next]_vars
  PROVE  IInv'
<1>1. CASE Refuse  BY <1>1, RefuseKeeps
<1>2. ASSUME NEW kind \in DOMAIN Scripts, Begin(kind)  PROVE IInv'  BY <1>2, BeginKeeps
<1>3. ASSUME NEW n \in 0 .. calls_max + 1, BeginLog(n)  PROVE IInv'  BY <1>3, BeginLogKeeps
<1>4. CASE BuildField  BY <1>4, BuildFieldKeeps
<1>5. CASE ValidatorFault  BY <1>5, FaultKeeps
<1>6. CASE FinishRecord  BY <1>6, FinishRecordKeeps
<1>7. CASE StartCalls  BY <1>7, StartCallsKeeps
<1>8. CASE NextCall  BY <1>8, NextCallKeeps
<1>9. CASE EndCall  BY <1>9, EndCallKeeps
<1>10. CASE FinishLog  BY <1>10, FinishLogKeeps
<1>11. CASE UNCHANGED vars  BY <1>11, StutterKeeps
<1> QED
  BY <1>1, <1>2, <1>3, <1>4, <1>5, <1>6, <1>7, <1>8, <1>9, <1>10, <1>11 DEF Next

-----------------------------------------------------------------------------
(* What the validator promises.                                            *)

\* The inductive invariant: the types, what each phase of a call has built, the
\* grounds of a record under construction and the account of a run log.
THEOREM Invariance == Spec => []IInv
<1>1. Init => IInv  BY InitInv
<1>2. IInv /\ [Next]_vars => IInv'  BY NextKeeps
<1> QED  BY <1>1, <1>2, PTL DEF Spec

\* validate_evidence hands back no value in which a secret stands in plain sight
\* or under one encoding, but for the runs of base64 that the scanner passes over
\* (Unseen, privacy.py:727): whatever the field, the store of _put takes nothing
\* that contains_prohibited sees and no marker of the walk.
THEOREM NothingSecret == Spec => []NoSecretStored
<1>1. ASSUME IInv  PROVE NoSecretStored
  <2>1. CASE pc = "done"
    <3>1. Clean(result.rec) /\ \A i \in DOMAIN kids : Clean(kids[i].rec)
      BY <1>1, <2>1 DEF IInv, Returned, KidsOK
    <3>2. \A rec \in Handed : Clean(rec)  BY <2>1, <3>1 DEF Handed
    <3> QED  BY <3>2 DEF NoSecretStored, Clean, Dirty
  <2>2. CASE pc # "done"  BY <2>2 DEF NoSecretStored, Handed
  <2> QED  BY <2>1, <2>2
<1> QED  BY <1>1, Invariance, PTL

\* _apply_trace marks a trace OPTICS_GENERATED only with the witness of a
\* recognised producer, and nothing that is built after it takes either away.
THEOREM TraceEarnedAlways == Spec => []TraceIsEarned
<1>1. ASSUME IInv  PROVE TraceIsEarned
  <2>1. ASSUME Built  PROVE TraceEarned(b)  BY <1>1, <2>1 DEF Built, IInv, Building, Earned
  <2> QED  BY <2>1 DEF TraceIsEarned, TraceEarned
<1> QED  BY <1>1, Invariance, PTL

\* _apply_origin lets a record say LOCAL_OBSERVATION only for a recognised
\* producer, away from the demonstration host and with an event of its own when
\* the trace was inherited; the label a reader is shown is the one stored.
THEOREM OriginEarnedAlways == Spec => []OriginIsEarned
<1>1. ASSUME IInv  PROVE OriginIsEarned
  <2>1. ASSUME Built  PROVE OriginEarned(b)  BY <1>1, <2>1 DEF Built, IInv, Building, Earned
  <2>2. ASSUME Built, Stores(b, "evidence_origin")
        PROVE  Value(b, "evidence_origin") = b.reader_origin
    <3> DEFINE e == CHOOSE f \in b.rec : f[1] = "evidence_origin"
    <3>1. e \in b.rec /\ e[1] = "evidence_origin"  BY <2>2 DEF Stores
    <3>2. Value(b, "evidence_origin") = e[2]  BY DEF Value
    <3> HIDE DEF e
    <3>3. e[2] = b.reader_origin  BY <2>1, <2>2, <3>1 DEF OriginEarned
    <3> QED  BY <3>2, <3>3
  <2> QED  BY <2>1, <2>2 DEF OriginIsEarned, OriginEarned
<1> QED  BY <1>1, Invariance, PTL

\* The state merged from every call of a run log keeps the books: what was built
\* and not emitted is counted, nothing is worse than what is reported, and a
\* redaction of a call is one of the log.
THEOREM LogAccounted == Spec => []Accounted
<1>1. ASSUME IInv  PROVE Accounted
  <2>1. CASE pc = "done"  BY <1>1, <2>1 DEF IInv, Returned
  <2>2. CASE pc # "done"  BY <2>2 DEF Accounted
  <2> QED  BY <2>1, <2>2
<1> QED  BY <1>1, Invariance, PTL
=============================================================================
