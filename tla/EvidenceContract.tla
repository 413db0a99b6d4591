-------------------------- MODULE EvidenceContract --------------------------
(***************************************************************************)
(* The evidence validator (packages/optics-evidence-contract): one call of *)
(* validate_evidence or validate_bytes.  It copies what it was given,      *)
(* builds a record of one of six kinds field by field, keeping what the    *)
(* contract allows and noting what it changed, refused or redacted, and    *)
(* reports one disposition.  A run log builds its envelope first and then  *)
(* one observation for every call, merged into the envelope's account.     *)
(*                                                                         *)
(* A value is a class, chosen when the code reads the field.  The scan     *)
(* state, the reason codes and the field lists are only reported: they are *)
(* left out.                                                               *)
(***************************************************************************)
EXTENDS Naturals, Sequences, FiniteSets, TLC

CONSTANTS
    MaxOdd,      \* bound: values of one input that are not the ordinary ones
    calls_max    \* normalization.json: calls_max

ASSUME EvidenceAssumption == MaxOdd \in Nat /\ calls_max \in Nat \ {0}

VARIABLES
    pc,      \* "enter", "build", "calls", "done"
    b,       \* the record being built, and its State
    env,     \* the envelope of a run log while its calls are built
    left,    \* calls still to build
    kids,    \* what was reported for each call
    odd,     \* unusual values so far
    result   \* what the call returned

vars == <<pc, b, env, left, kids, odd, result>>

-----------------------------------------------------------------------------
(* Values.  "ok" belongs in the field; "alt" does after a change (case,    *)
(* format, an older name); "odd" is harmless and does not; "long" is over  *)
(* the field's own limit; "object" is a list or a mapping.  A text over    *)
(* the walk's limit has become a marker: "cut" (nothing found), "edge" (a  *)
(* candidate at the cut) or "match"; "torn" is malformed text.             *)

Bound == {"cut", "edge", "match", "torn"}
Unhashable == Bound \cup {"object"}

\* A secret in plain sight, or as the detector meets it under encodings, the
\* outermost first.
Encodings ==
    [secret |-> <<>>, format |-> <<"format">>, percent |-> <<"percent">>,
     base64 |-> <<"base64">>, confusable |-> <<"confusable">>,
     percent_confusable |-> <<"percent", "confusable">>,
     base64_format |-> <<"base64", "format">>,
     base64_percent |-> <<"base64", "percent">>,
     base64_slash |-> <<"base64_slash">>, base64_short |-> <<"base64_short">>,
     base64_bare |-> <<"base64_bare">>, base64_dull |-> <<"base64_dull">>,
     base64_path |-> <<"base64_path">>, base64_url |-> <<"base64_url">>]

\* What the scanner looks at in a run of base64: that it has 16 characters, that
\* their number is a multiple of four, padding, an uppercase letter, slashes,
\* and the characters of the url-safe alphabet, which end a run for it.
Runs ==
    [base64 |-> {"enough", "whole", "padded", "upper"},
     base64_slash |-> {"enough", "whole", "padded", "upper", "slash"},
     base64_short |-> {"whole", "padded", "upper"},
     base64_bare |-> {"enough", "upper"},
     base64_dull |-> {"enough", "whole"},
     base64_path |-> {"enough", "whole", "upper", "slash"},
     base64_url |-> {"enough", "whole", "padded", "upper", "url"}]

\* The detectors see it as it stands ...
scan_direct_raw(t) == t = <<>>

\* ... and without format controls.
scan_direct(t) == scan_direct_raw(t) \/ t = <<"format">>

Under(t, e) == t # <<>> /\ Head(t) = e

percent_decoded(t) == Under(t, "percent")

\* Whether a pass decodes a run; the pass without slashes takes it to pieces.
scan_runs(run, allow_slash) ==
    /\ {"enough", "whole"} \subseteq run /\ "url" \notin run
    /\ "padded" \in run \/ "upper" \in run
    /\ IF allow_slash THEN "padded" \in run ELSE "slash" \notin run

\* A run that one of the two passes decodes is decoded once and scanned directly.
scan_base64(t) ==
    /\ t # <<>> /\ Head(t) \in DOMAIN Runs
    /\ scan_runs(Runs[Head(t)], FALSE) \/ scan_runs(Runs[Head(t)], TRUE)
    /\ scan_direct(Tail(t))

\* The detector looks no further than the plain text.
scan_all_Direct(t) == scan_direct(t)

scan_all(t) ==
    \/ scan_direct(t)
    \/ percent_decoded(t) /\ scan_direct(Tail(t))
    \/ scan_base64(t)
    \/ Under(t, "confusable") /\ scan_direct(Tail(t))
    \/ percent_decoded(t) /\ Under(Tail(t), "confusable") /\ scan_direct(Tail(Tail(t)))

contains_prohibited(c) ==
    c = "longsecret" \/ (c \in DOMAIN Encodings /\ scan_all(Encodings[c]))

\* _string_secret: a marker counts when its prefix matched or was unreadable.
string_secret(c) == contains_prohibited(c) \/ c \in {"match", "torn"}

Secrets == {c \in DOMAIN Encodings : string_secret(c)}
StringSecrets == Secrets \cup {"longsecret", "match", "torn"}
TextSecrets == Secrets \cup {"longsecret"}

Common == {"absent", "null", "ok", "odd", "secret", "longsecret", "long", "object"} \cup Bound

-----------------------------------------------------------------------------
(* The fields that are read on their own: what null does, whether a class  *)
(* "alt" is kept, whether any text will do, which classes are reported as  *)
(* redactions, whether the value is looked up in a Python set, and whether *)
(* a misfit is replaced by a safe category and not refused.                *)

Rule(null, marks) ==
    [null |-> null, marks |-> marks, alt |-> FALSE, text |-> FALSE, set |-> FALSE, soft |-> FALSE]
Altered(r) == [r EXCEPT !.alt = TRUE]
Text(r) == [r EXCEPT !.text = TRUE]
InSet(r) == [r EXCEPT !.set = TRUE]
Soft(r) == [r EXCEPT !.soft = TRUE]

Token == Rule("skip", {"secret"})
Number == Rule("skip", {})
Stamp(null, marks) == Altered(Rule(null, marks))
Enum(null, marks) == InSet(Rule(null, marks))

IdentityRules ==
    [run_id |-> Token, parent_run_id |-> Rule("keep", {"secret"}),
     producer_id |-> Token, producer_sequence |-> Number,
     event_id |-> Rule("refuse", StringSecrets)]

ClockRules ==
    [started_at |-> Stamp("skip", StringSecrets), ended_at |-> Stamp("skip", StringSecrets),
     duration_ms |-> Number, clock_quality |-> Enum("skip", {}),
     lifecycle |-> Enum("skip", {}), identity_conflict |-> Enum("skip", {}),
     runtime |-> Enum("skip", {}), runtime_version |-> Rule("refuse", {"secret"}),
     platform |-> Enum("skip", StringSecrets), arch |-> Enum("skip", {}),
     process_id |-> Rule("keep", {}), parent_process_id |-> Rule("keep", {})]

ObservationRules ==
    [failure_kind |-> Enum("skip", StringSecrets),
     error_class |-> Rule("skip", TextSecrets),
     method |-> Soft(Altered(Rule("skip", StringSecrets))),
     request_bytes |-> Number, response_bytes |-> Altered(Rule("keep", {})),
     content_type |-> Altered(Rule("skip", StringSecrets \cup {"object"})),
     mediation |-> Soft(Rule("skip", StringSecrets)),
     duplicate_of |-> Text(Rule("keep", StringSecrets)),
     provider_id |-> Altered(Rule("unknown", StringSecrets)),
     provider_confidence |-> Soft(Enum("skip", {}))]

EnvelopeRules ==
    [coverage_note |-> Enum("skip", StringSecrets), call_count |-> Number, dropped_count |-> Number]

DerivedRules ==
    [subject_event_id |-> Token, subject_run_id |-> Token,
     application_outcome_label |-> Enum("refuse", StringSecrets),
     provider_response_phrase |-> Enum("refuse", StringSecrets),
     next_action_category |-> Enum("refuse", {}),
     issue_location |-> Rule("refuse", StringSecrets)]

AnnotationRules ==
    [annotation_role |-> Soft(Rule("soft", {})), annotation_id |-> Rule("refuse", {"secret"}),
     annotation_subject |-> Rule("refuse", {"secret"}), created_at |-> Stamp("refuse", {}),
     text |-> Text(Rule("refuse", StringSecrets \cup {"null", "odd", "object"}))]

HealthRules ==
    [value |-> Altered(Rule("refuse", StringSecrets)), observed_at |-> Stamp("refuse", {}),
     detail_code |-> Rule("skip", TextSecrets)]

QuarantineRules ==
    [original_evidence_origin |-> Soft(Enum("soft", {})),
     source_label |-> Text(Rule("refuse", TextSecrets)),
     content_sha256 |-> Altered(Rule("skip", StringSecrets)),
     schema_status_seen |-> Rule("refuse", TextSecrets),
     imported_at |-> Stamp("refuse", {}), accepted |-> Soft(Rule("soft", {})),
     reason_code |-> Rule("skip", TextSecrets)]

Rules ==
    IdentityRules @@ ClockRules @@ ObservationRules @@ EnvelopeRules @@ DerivedRules
        @@ AnnotationRules @@ HealthRules @@ QuarantineRules

-----------------------------------------------------------------------------
(* The State of a build.                                                   *)

\* disposition_rank
Rank == [ACCEPT |-> 0, NORMALIZE |-> 1, STRIP |-> 2, REPLACE_WITH_SAFE_CATEGORY |-> 3,
         REJECT_FIELD |-> 4, REJECT_RECORD |-> 5]

NoHealth == [events |-> 0, redactions |-> 0, contexts |-> 0, sessions |-> 0]
NoTrace == [seen |-> FALSE, ids |-> {}, from |-> "none", witness |-> FALSE]
NoDestination == [st |-> "open", first |-> "none", hosts |-> {}, scheme |-> FALSE, full |-> FALSE]

\* rec keeps the values the properties look at and any value that is not an
\* ordinary one.
State(kind) ==
    [kind |-> kind, at |-> 1, disp |-> 0, rec |-> {}, health |-> NoHealth,
     privacy |-> FALSE, drop_record |-> FALSE, context_rejected |-> FALSE,
     inherited_trace |-> FALSE, local_event |-> FALSE, producer |-> "none",
     version |-> FALSE, trace |-> NoTrace, spans |-> FALSE, session |-> "absent",
     dest |-> NoDestination, reader_origin |-> "none"]

Kept == {"run_id", "producer_id", "producer_sequence", "identity_conflict", "trace_id",
         "trace_id_basis", "destination_host", "evidence_origin", "name"}

Stores(x, f) == \E e \in x.rec : e[1] = f
Value(x, f) == (CHOOSE e \in x.rec : e[1] = f)[2]

add_disposition(x, d) == [x EXCEPT !.disp = IF Rank[d] > @ THEN Rank[d] ELSE @]
mark_privacy(x) == [x EXCEPT !.privacy = TRUE, !.health.redactions = 1]
mark_detector(x) == add_disposition(mark_privacy(x), "REJECT_FIELD")
mark_context(x) ==
    add_disposition([x EXCEPT !.context_rejected = TRUE, !.health.contexts = 1], "REJECT_FIELD")
mark_session(x) == add_disposition([x EXCEPT !.health.sessions = 1], "REJECT_FIELD")
reject_field(x) == add_disposition(x, "REJECT_FIELD")
strip_key(x) == add_disposition(x, "STRIP")
MarkIf(x, cond) == IF cond THEN mark_privacy(x) ELSE x

drop_record(x) ==
    add_disposition([x EXCEPT !.drop_record = TRUE, !.health.events = 1], "REJECT_RECORD")

\* A marker is never stored.
put(x, f, v, how) ==
    IF v \in Bound THEN MarkIf(reject_field(x), v \in {"match", "torn"})
    ELSE LET y == IF f \in Kept \/ v \notin {"ok", "alt"}
                  THEN [x EXCEPT !.rec = {e \in @ : e[1] # f} \cup {<<f, v>>}] ELSE x
         IN add_disposition(y, how)

-----------------------------------------------------------------------------
(* One field at a time.                                                    *)

\* Whether the field takes the value as it is.
Fits(r, c) ==
    \/ c = "ok" \/ (c = "alt" /\ r.alt)
    \/ r.text /\ c \in DOMAIN Encodings /\ ~contains_prohibited(c)

Field(x, f, c) ==
    LET r == Rules[f]
        How == IF c = "alt" THEN "NORMALIZE" ELSE "ACCEPT"
    IN CASE c = "absent" -> x
         [] c = "null" /\ r.null \in {"skip", "keep"} -> x
         [] c = "null" /\ r.null = "unknown" -> add_disposition(x, "NORMALIZE")
         [] Fits(r, c) -> put(x, f, c, How)
         [] OTHER -> LET y == IF r.soft /\ c \notin r.marks THEN add_disposition(x, "NORMALIZE")
                              ELSE reject_field(x)
                     IN MarkIf(y, c \in r.marks)

cli_or_sdk_version(x, c) ==
    CASE c = "ok" -> [x EXCEPT !.version = TRUE]
      [] c = "alt" -> strip_key([x EXCEPT !.version = TRUE])
      [] c \in {"absent", "null"} -> x
      [] OTHER -> MarkIf(reject_field(x), c = "secret")

producer(x, c) ==
    CASE c \in {"ok", "demo_command"} -> [x EXCEPT !.producer = c]
      [] c = "absent" -> x
      [] OTHER -> MarkIf(reject_field(x), string_secret(c))

\* A producer id that is the run id is a conflict the record carries.
producer_id(x, c) ==
    IF c = "same" THEN put(put(x, "producer_id", "ok", "ACCEPT"), "identity_conflict",
                           "PRODUCER_SEQUENCE", "NORMALIZE")
    ELSE Field(x, "producer_id", c)

\* With a producer id and a sequence the event id is computed, not taken.
event_id(x, c) ==
    IF Stores(x, "producer_id") /\ Stores(x, "producer_sequence")
    THEN add_disposition(x, "NORMALIZE") ELSE Field(x, "event_id", c)

\* An observation's own sequence must repeat the producer's.
sequence(x, c) ==
    CASE Stores(x, "producer_sequence") /\ c = "ok" -> x
      [] Stores(x, "producer_sequence") /\ c = "absent" -> add_disposition(x, "NORMALIZE")
      [] Stores(x, "producer_sequence") ->
           put(x, "identity_conflict", "PRODUCER_SEQUENCE", "NORMALIZE")
      [] OTHER -> IF c = "absent" THEN x ELSE reject_field(x)

identity_conflict(x, c) ==
    CASE Stores(x, "identity_conflict") -> x
      [] c \in {"absent", "null"} -> add_disposition(x, "NORMALIZE")
      [] OTHER -> Field(x, "identity_conflict", c)

-----------------------------------------------------------------------------
(* The session: read, then judged with its basis.                          *)

session_id(x, c) == [x EXCEPT !.session = c]

check_session(x, sid, basis) ==
    CASE sid \in {"cut", "edge"} -> reject_field(x)
      [] sid = "match" -> mark_privacy(reject_field(x))
      [] \/ sid \in {"torn", "object"} \/ basis \notin {"ok", "OPTICS_GENERATED"}
         \/ basis = "OPTICS_GENERATED" /\ ~(x.producer # "none" /\ x.version) -> mark_session(x)
      [] sid \in {"ok"} -> x
      [] OTHER -> MarkIf(mark_session(x), contains_prohibited(sid))

apply_session(x, basis) ==
    LET sid == x.session
        y == [x EXCEPT !.session = "absent"]
        missing == {sid, basis} \cap {"absent", "null"} # {}
    IN CASE sid = "absent" /\ basis = "absent" -> y
         [] missing -> MarkIf(mark_session(y), string_secret(sid) \/ string_secret(basis))
         [] OTHER -> check_session(y, sid, basis)

-----------------------------------------------------------------------------
(* The trace context: three sources, a basis and a witness.                *)

Ids == {"T1", "T2"}

\* _trace_normalize: the length is looked at before the content.
TraceSource(x, from, c) ==
    LET y == [x EXCEPT !.trace.seen = TRUE]
    IN CASE c \in Ids -> [y EXCEPT !.trace.ids = @ \cup {c},
                                   !.trace.from = IF @ = "none" \/ @ = "trace_id" THEN from ELSE @]
         [] c = "null" -> y
         [] c \in {"long", "longsecret"} /\ from # "traceparent" -> reject_field(y)
         [] OTHER -> MarkIf(mark_context(y), c = "secret" \/ (from = "traceparent" /\ string_secret(c)))

trace_id(x, c) == IF c = "absent" THEN x ELSE TraceSource(x, "trace_id", c)

inherited(x, from, c) ==
    IF c = "absent" THEN x
    ELSE strip_key(TraceSource([x EXCEPT !.inherited_trace = TRUE], from, c))

trusted_trace_generation(x) == x.trace.witness /\ x.producer # "none" /\ x.version

witness(x, c) ==
    LET y == [x EXCEPT !.trace.witness = (c = "ok")]
    IN IF string_secret(c) /\ ~trusted_trace_generation(y) THEN mark_detector(y) ELSE y

inherited_basis(x) ==
    IF x.trace.from = "traceparent" /\ x.kind = "quarantine"
    THEN "IMPORTED_UNVERIFIED" ELSE "ASSERTED_CONTEXT"

\* The witness counts, whoever wrote it.
trace_basis_Witness(x, basis) ==
    IF basis = "OPTICS_GENERATED" /\ x.trace.witness THEN basis
    ELSE IF x.trace.from # "trace_id" THEN inherited_basis(x)
    ELSE IF basis = "OPTICS_GENERATED" THEN "ASSERTED_CONTEXT" ELSE basis

trace_basis(x, basis) ==
    IF basis = "OPTICS_GENERATED" /\ trusted_trace_generation(x) THEN basis
    ELSE IF x.trace.from # "trace_id" THEN inherited_basis(x)
    ELSE IF basis = "OPTICS_GENERATED" THEN "ASSERTED_CONTEXT" ELSE basis

Bases == {"OPTICS_GENERATED", "ASSERTED_CONTEXT", "APPLICATION_SUPPLIED"}

\* Two sources that disagree, or an own id without a basis, leave no trace.
apply_trace(x, basis) ==
    LET n == Cardinality(x.trace.ids)
        own == x.trace.from = "trace_id"
        bv == trace_basis(x, basis)
        how == IF basis = bv THEN "ACCEPT" ELSE "NORMALIZE"
        y == [x EXCEPT !.spans = n = 1 \/ (n = 0 /\ ~x.context_rejected)]
    IN CASE n > 1 -> mark_context(add_disposition(y, "NORMALIZE"))
         [] n = 1 /\ own /\ basis \notin Bases ->
              mark_context([y EXCEPT !.spans = FALSE])
         [] n = 1 /\ (own => basis \in Bases) ->
              put(put(y, "trace_id", CHOOSE t \in x.trace.ids : TRUE, how), "trace_id_basis", bv, how)
         [] OTHER -> IF x.trace.seen THEN add_disposition(y, "NORMALIZE") ELSE y

\* A refused span is a refused context, unless it was only too long.
span(x, c) ==
    CASE ~x.spans \/ c \in {"absent", "null", "ok"} -> x
      [] c = "alt" -> add_disposition(x, "NORMALIZE")
      [] c \in {"long", "longsecret"} -> reject_field(x)
      [] OTHER -> MarkIf(mark_context(x), c = "secret")

-----------------------------------------------------------------------------
(* The destination: what the call was connected to, what was asked for and *)
(* what is said outright, which must name one host.                        *)

Hosts == {"A", "B", "demo"}
HostSecrets == StringSecrets

\* proxy and redirect keys are stripped and only looked at.
aside(x, c) == IF c = "absent" THEN x ELSE MarkIf(strip_key(x), string_secret(c))

\* _store_destination of an unsafe destination: no field of it is kept.
Unsafe(x, c) ==
    MarkIf(reject_field([x EXCEPT !.dest.st = "unsafe"]), c \in HostSecrets)

Parsed(x, h, scheme, full) ==
    [x EXCEPT !.dest.first = IF @ = "none" THEN h ELSE @, !.dest.hosts = @ \cup {h},
              !.dest.scheme = @ \/ scheme, !.dest.full = @ \/ full]

connected(x, c) ==
    CASE c = "absent" -> x
      [] c \in Hosts -> Parsed(strip_key(x), c, FALSE, FALSE)
      [] OTHER -> Unsafe(strip_key(x), c)

\* _parse_destination: fragment, query and userinfo are cut off; what was
\* secret in them is reported.
parse_destination(x, c) ==
    CASE c \in Hosts -> Parsed(x, c, TRUE, FALSE)
      [] c = "full" -> Parsed(x, "A", TRUE, TRUE)
      [] c \in {"userinfo", "query"} -> mark_privacy(Parsed(x, "A", TRUE, FALSE))
      [] OTHER -> Unsafe(x, c)

requested(x, c) ==
    IF c = "absent" THEN x
    ELSE IF x.dest.st # "open" THEN strip_key(x)
    ELSE parse_destination(strip_key(x), c)

Conflict(x) == reject_field([x EXCEPT !.dest.st = "conflict"])

destination_host(x, c) ==
    CASE x.dest.st # "open" -> x
      [] c \notin Hosts \cup {"absent"} -> Unsafe(x, c)
      [] OTHER -> LET h == IF c \in Hosts THEN c ELSE x.dest.first
                  IN CASE h = "none" -> [x EXCEPT !.dest.st = "empty"]
                       [] x.dest.hosts \subseteq {h} -> [x EXCEPT !.dest.first = h]
                       [] OTHER -> Conflict(x)

\* "other" is a valid value that differs from the URL's.
destination_port(x, c) ==
    CASE x.dest.st # "open" \/ c \in {"absent", "null", "ok", "alt"} -> x
      [] c = "other" -> IF x.dest.full THEN Conflict(x) ELSE x
      [] OTHER -> MarkIf(reject_field(x), string_secret(c))

scheme(x, c) ==
    CASE x.dest.st # "open" \/ c \in {"absent", "ok", "alt"} -> x
      [] c = "other" -> IF x.dest.scheme THEN Conflict(x) ELSE x
      [] OTHER -> MarkIf(reject_field(x), string_secret(c))

\* _normalize_path; a path without a destination is checked all the same.
path(x, c) ==
    CASE x.dest.st \notin {"open", "empty"} \/ c \in {"absent", "ok", "alt"} -> x
      [] c = "other" -> IF x.dest.st = "open" /\ x.dest.full THEN Conflict(x) ELSE x
      [] OTHER -> MarkIf(reject_field(x), string_secret(c) \/ c = "odd")

store_destination(x) ==
    LET y == [x EXCEPT !.dest = NoDestination]
    IN IF x.dest.st # "open" THEN y
       ELSE put([y EXCEPT !.local_event = TRUE], "destination_host", x.dest.first, "ACCEPT")

-----------------------------------------------------------------------------
(* The other observation fields that decide something.                     *)

http_status(x, c) ==
    CASE c = "ok" -> [x EXCEPT !.local_event = TRUE]
      [] c = "alt" -> strip_key([x EXCEPT !.local_event = TRUE])
      [] c \in {"absent", "null"} -> x
      [] OTHER -> MarkIf(reject_field(x), string_secret(c))

\* Only an observation is evidence: any other action drops the record.
action(x, c) ==
    CASE c = "ok" -> x
      [] c \in {"absent", "null"} -> add_disposition(x, "NORMALIZE")
      [] OTHER -> MarkIf(drop_record(x), string_secret(c))

optics_status(x, c) ==
    IF x.drop_record \/ c = "ok" THEN x
    ELSE IF contains_prohibited(c) THEN mark_detector(x) ELSE add_disposition(x, "NORMALIZE")

optics_internal_failure(x, c) ==
    CASE c = "absent" -> x
      [] c = "TRUE" /\ ~x.drop_record -> drop_record(strip_key(x))
      [] OTHER -> strip_key(x)

\* Every record says it was not sampled, whatever its source says.
sampling(x, c) ==
    IF c = "ok" THEN x ELSE MarkIf(add_disposition(x, "NORMALIZE"), string_secret(c))

parent_conflict(x, c) ==
    CASE c = "absent" -> x
      [] c = "TRUE" /\ ~x.drop_record /\ <<"identity_conflict", "PRODUCER_SEQUENCE">> \notin x.rec ->
           put(strip_key(x), "identity_conflict", "PARENT", "NORMALIZE")
      [] OTHER -> strip_key(x)

recognized_producer(x) == x.producer # "none" /\ x.version

Writer == {"LOCAL_OBSERVATION", "SIMULATED_DEMO", "TEST_FIXTURE"}

Unproven(x) ==
    add_disposition([x EXCEPT !.reader_origin = "LEGACY_UNMARKED"], "REPLACE_WITH_SAFE_CATEGORY")

\* The producer's word is enough.
apply_origin_Word(x, c) ==
    IF c \in Writer /\ recognized_producer(x)
    THEN put([x EXCEPT !.reader_origin = c], "evidence_origin", c, "ACCEPT")
    ELSE Unproven(x)

\* The demonstration host makes any record a demonstration; an inherited trace
\* is no proof of an own observation.
apply_origin(x, c) ==
    IF <<"destination_host", "demo">> \in x.rec
    THEN put([x EXCEPT !.reader_origin = "SIMULATED_DEMO"], "evidence_origin", "SIMULATED_DEMO",
             "REPLACE_WITH_SAFE_CATEGORY")
    ELSE IF c = "LOCAL_OBSERVATION" /\ x.inherited_trace /\ ~x.local_event THEN Unproven(x)
    ELSE IF c = "LOCAL_OBSERVATION" /\ x.producer = "demo_command" THEN Unproven(x)
    ELSE IF c \in Writer /\ recognized_producer(x)
    THEN put([x EXCEPT !.reader_origin = c], "evidence_origin", c, "ACCEPT")
    ELSE Unproven(x)

\* Kinds that carry their own origin whatever the source says.
fixed_origin(x, c) ==
    CASE x.kind = "annotation" /\ c = "absent" -> x
      [] x.kind = "annotation" ->
           [Unproven(x) EXCEPT !.reader_origin = IF c = "LOCAL_OBSERVATION" THEN @ ELSE "none"]
      [] OTHER -> LET o == [derived |-> "DERIVED_DIAGNOSTIC", health |-> "PRODUCT_HEALTH",
                            quarantine |-> "IMPORTED"][x.kind]
                  IN put([x EXCEPT !.reader_origin = o], "evidence_origin", o, "NORMALIZE")

origin(x, c) == IF x.kind \in {"observation", "envelope"} THEN apply_origin(x, c) ELSE fixed_origin(x, c)

issue_label(x, c) == IF c = "Provider fault" THEN mark_privacy(x) ELSE x

name(x, c) == IF c = "ok" THEN put(x, "name", c, "ACCEPT") ELSE drop_record(reject_field(x))

value(x, c) == IF Stores(x, "name") THEN Field(x, "value", c) ELSE x

\* The counts of an envelope that stays are its validator's own.
put_counts(x) == IF x.drop_record THEN x ELSE add_disposition(x, "NORMALIZE")

\* More calls than the bound drop the envelope.
calls(x, c) ==
    CASE c = "ok" -> put_counts(x)
      [] c = "too many" -> drop_record(x)
      [] OTHER -> x

\* A leftover is an unknown name with its value: the name alone decides its class,
classify_field_name(c) ==
    CASE c \in {"payload", "detector", "prohibited"} -> c
      [] c \in {"baggage", "baggage secret"} -> "baggage"
      [] OTHER -> "plain"

\* ... and the value is searched to its depth; a marker counts as found.
tree_has_secret(c) == c \in {"secret", "baggage secret", "structural secret"} \cup Bound

\* _sweep_leftovers: every one is stripped, by what its name and its value give
\* away; a name for a prompt or an answer drops the record.
sweep_leftovers(x, c) ==
    LET info == classify_field_name(c)
        y == strip_key(x)
    IN CASE c = "absent" -> x
         [] info = "payload" -> drop_record(mark_privacy(y))
         [] info = "detector" -> mark_detector(y)
         [] OTHER -> MarkIf(y, info = "prohibited" \/ tree_has_secret(c))

-----------------------------------------------------------------------------
(* The order in which each kind of record is built.                        *)

IdentitySteps == <<"cli_or_sdk_version", "producer", "run_id", "parent_run_id", "producer_id",
                   "producer_sequence">>
SessionSteps == <<"session_id", "session_id_basis">>
TraceSteps == <<"trace_id", "vantio_trace_id", "traceparent", "witness", "trace_id_basis",
                "span_id", "parent_span_id">>
RuntimeSteps == <<"duration_ms", "clock_quality", "lifecycle", "identity_conflict", "runtime",
                  "runtime_version", "platform", "arch", "process_id", "parent_process_id">>
DestinationSteps == <<"proxy", "redirect", "connected", "requested", "destination_host",
                      "destination_port", "scheme", "path", "store">>

build_observation ==
    IdentitySteps \o <<"sequence", "event_id">> \o SessionSteps \o TraceSteps
      \o <<"started_at">> \o RuntimeSteps \o DestinationSteps
      \o <<"http_status", "failure_kind", "error_class", "action", "method", "request_bytes",
           "response_bytes", "content_type", "mediation", "sampling", "duplicate_of",
           "provider_id", "provider_confidence", "optics_status", "optics_internal_failure",
           "parent_conflict", "evidence_origin", "issue_label", "leftover">>

build_envelope ==
    IdentitySteps \o SessionSteps \o TraceSteps \o <<"started_at", "ended_at">> \o RuntimeSteps
      \o <<"coverage_note", "call_count", "dropped_count", "calls", "evidence_origin", "leftover">>

build_derived ==
    <<"evidence_origin", "subject_event_id", "subject_run_id", "application_outcome_label",
      "provider_response_phrase", "next_action_category", "issue_location", "leftover">>

build_annotation ==
    <<"evidence_origin", "annotation_role", "annotation_id", "annotation_subject", "created_at",
      "text", "leftover">>

build_health == <<"evidence_origin", "name", "value", "observed_at", "detail_code", "leftover">>

build_quarantine ==
    TraceSteps \o <<"evidence_origin", "original_evidence_origin", "source_label",
      "content_sha256", "schema_status_seen", "imported_at", "accepted", "reason_code", "leftover">>

\* An input of no known type is dropped, and swept all the same.
Scripts ==
    [observation |-> build_observation, envelope |-> build_envelope, derived |-> build_derived,
     annotation |-> build_annotation, health |-> build_health, quarantine |-> build_quarantine,
     untyped |-> <<"leftover">>]

InLog == env.kind # "none"

\* What an ordinary producer writes: a single record with a trace of its own or
\* none, a run log without one (bound: a trace in a log counts as unusual).
Usual(s) ==
    CASE s \in {"cli_or_sdk_version", "producer", "run_id", "action", "optics_status", "name"} -> {"ok"}
      [] s = "destination_host" -> {"A"}
      [] s = "evidence_origin" -> {"LOCAL_OBSERVATION"}
      [] s = "trace_id" /\ ~InLog -> {"absent", "T1"}
      [] s = "witness" /\ ~InLog -> {"absent", "ok"}
      [] s = "trace_id_basis" /\ ~InLog -> {"absent", "OPTICS_GENERATED"}
      [] OTHER -> {"absent"}

Choices(s) ==
    CASE s = "store" -> {"absent"}
      [] s = "producer" -> Common \cup {"demo_command"}
      [] s = "producer_id" -> Common \cup {"same"}
      [] s = "sequence" -> {"absent", "null", "ok", "odd", "object", "match"}
      [] s = "sampling" -> Common
      [] s = "session_id_basis" -> Common \cup {"OPTICS_GENERATED"}
      [] s \in {"trace_id", "vantio_trace_id", "traceparent"} -> (Common \ {"ok"}) \cup Ids
      [] s = "trace_id_basis" -> {"absent", "null", "odd", "object"} \cup Bases
      [] s = "witness" -> {"absent", "ok", "odd", "secret"}
      [] s \in {"proxy", "redirect"} -> {"absent", "odd", "secret", "match", "cut"}
      [] s \in {"connected", "destination_host"} -> (Common \ {"ok"}) \cup Hosts
      [] s = "requested" -> (Common \ {"ok"}) \cup Hosts \cup {"full", "userinfo", "query"}
      [] s \in {"destination_port", "scheme", "path"} -> Common \cup {"alt", "other"}
      [] s \in {"optics_internal_failure", "parent_conflict"} -> {"absent", "odd", "TRUE"}
      [] s = "evidence_origin" -> Writer \cup {"absent", "odd", "object"}
      [] s = "issue_label" -> {"absent", "Provider fault"}
      [] s = "calls" -> IF InLog THEN {"absent"} ELSE {"absent", "ok", "too many"}
      [] s = "leftover" -> {"absent", "plain", "secret", "prohibited", "payload", "baggage",
                            "baggage secret", "structural", "structural secret", "detector"} \cup Bound
      [] s \in DOMAIN Rules -> Common \cup (IF Rules[s].alt THEN {"alt"} ELSE {})
                                 \cup (IF Rules[s].text THEN DOMAIN Encodings ELSE {})
      [] OTHER -> Common \cup {"alt"}

Apply(x, s, c) ==
    CASE s = "cli_or_sdk_version" -> cli_or_sdk_version(x, c)
      [] s = "producer" -> producer(x, c)
      [] s = "producer_id" -> producer_id(x, c)
      [] s = "event_id" -> event_id(x, c)
      [] s = "sequence" -> sequence(x, c)
      [] s = "identity_conflict" -> identity_conflict(x, c)
      [] s = "session_id" -> session_id(x, c)
      [] s = "session_id_basis" -> apply_session(x, c)
      [] s = "trace_id" -> trace_id(x, c)
      [] s \in {"vantio_trace_id", "traceparent"} -> inherited(x, s, c)
      [] s = "witness" -> witness(x, c)
      [] s = "trace_id_basis" -> apply_trace(x, c)
      [] s \in {"span_id", "parent_span_id"} -> span(x, c)
      [] s \in {"proxy", "redirect"} -> aside(x, c)
      [] s = "connected" -> connected(x, c)
      [] s = "requested" -> requested(x, c)
      [] s = "destination_host" -> destination_host(x, c)
      [] s = "destination_port" -> destination_port(x, c)
      [] s = "scheme" -> scheme(x, c)
      [] s = "path" -> path(x, c)
      [] s = "store" -> store_destination(x)
      [] s = "http_status" -> http_status(x, c)
      [] s = "action" -> action(x, c)
      [] s = "optics_status" -> optics_status(x, c)
      [] s = "optics_internal_failure" -> optics_internal_failure(x, c)
      [] s = "sampling" -> sampling(x, c)
      [] s = "parent_conflict" -> parent_conflict(x, c)
      [] s = "evidence_origin" -> origin(x, c)
      [] s = "issue_label" -> issue_label(x, c)
      [] s = "name" -> name(x, c)
      [] s = "value" -> value(x, c)
      [] s = "calls" -> calls(x, c)
      [] s = "leftover" -> sweep_leftovers(x, c)
      [] OTHER -> Field(x, s, c)

\* A list, a mapping or a marker looked up in a Python set raises TypeError.
Raises(x, s, c) ==
    /\ c \in Unhashable
    /\ \/ s \in {"producer", "name"}
       \/ s \in DOMAIN Rules /\ Rules[s].set /\ ~(s = "identity_conflict" /\ Stores(x, s))
       \/ s = "optics_status" /\ ~x.drop_record
       \/ /\ s = "trace_id_basis" /\ x.trace.from = "trace_id"
          /\ Cardinality(x.trace.ids) = 1
       \/ /\ s = "evidence_origin" /\ x.kind \in {"observation", "envelope"}
          /\ <<"destination_host", "demo">> \notin x.rec

-----------------------------------------------------------------------------
(* One call of the validator.                                              *)

None == [kind |-> "none"]

Init ==
    /\ pc = "enter" /\ b = State("none") /\ env = State("none")
    /\ left = 0 /\ kids = <<>> /\ odd = 0 /\ result = None

Emitted(x) == ~x.drop_record

\* _finalize and _finish_result: an application result that cannot be copied
\* raises the disposition, and never the record.
finish_result(x, drops) ==
    \E detached \in BOOLEAN :
       /\ pc' = "done"
       /\ result' = [kind |-> x.kind, emitted |-> Emitted(x), rec |-> IF Emitted(x) THEN x.rec ELSE {},
                     disp |-> IF detached THEN x.disp ELSE reject_field(x).disp,
                     health |-> x.health, privacy |-> x.privacy, dropped_count |-> drops,
                     reader_origin |-> x.reader_origin]

\* _terminal and _reject_field_terminal: nothing of the input is reported.
Terminal(d, counted, secret) ==
    LET x == [add_disposition(State("terminal"), d) EXCEPT !.drop_record = TRUE,
                !.health.events = IF counted THEN 1 ELSE 0]
    IN finish_result(MarkIf(x, secret), 0)

\* validate_bytes, the plain copy and the checks before a record is looked at:
\* what is not a plain bounded record ends here, as does a missing profile.
Refuse ==
    /\ pc = "enter" /\ UNCHANGED <<b, env, left, kids, odd>>
    /\ \/ Terminal("REJECT_RECORD", TRUE, FALSE)   \* bounds, cycles, JSON, UTF-8, type, profile
       \/ Terminal("REJECT_RECORD", TRUE, TRUE)    \* a list, a secret text
       \/ Terminal("REJECT_FIELD", FALSE, FALSE)   \* bytes, a callable

Begin(kind) ==
    /\ pc = "enter" /\ pc' = "build"
    /\ b' = IF kind = "untyped" THEN drop_record(State(kind)) ELSE State(kind)
    /\ UNCHANGED <<env, left, kids, odd, result>>

\* A run log of n calls: the envelope is built from it first.
BeginLog(n) ==
    /\ pc = "enter" /\ pc' = "build"
    /\ b' = State("envelope") /\ env' = State("log") /\ left' = n
    /\ UNCHANGED <<kids, odd, result>>

\* The next field, with any value.
BuildField ==
    /\ pc = "build" /\ b.at <= Len(Scripts[b.kind])
    /\ LET s == Scripts[b.kind][b.at]
       IN \E c \in Choices(s) :
            /\ c \in Usual(s) \/ odd < MaxOdd
            /\ ~Raises(b, s, c)
            /\ odd' = IF c \in Usual(s) THEN odd ELSE odd + 1
            /\ b' = [Apply(b, s, c) EXCEPT !.at = @ + 1]
    /\ UNCHANGED <<pc, env, left, kids, result>>

\* An exception anywhere ends the whole call, a run log with all its calls.
ValidatorFault ==
    /\ pc = "build" /\ b.at <= Len(Scripts[b.kind])
    /\ odd < MaxOdd /\ odd' = odd + 1
    /\ \E c \in Unhashable \cap Choices(Scripts[b.kind][b.at]) : Raises(b, Scripts[b.kind][b.at], c)
    /\ Terminal("REJECT_RECORD", TRUE, FALSE)
    /\ kids' = <<>> /\ left' = 0
    /\ UNCHANGED <<b, env>>

Built == pc = "build" /\ b.at > Len(Scripts[b.kind])

FinishRecord ==
    /\ Built /\ ~InLog
    /\ finish_result(b, 0)
    /\ UNCHANGED <<b, env, left, kids, odd>>

\* The envelope of a log is built; a log over the bound builds no call.
StartCalls ==
    /\ Built /\ env.kind = "log"
    /\ env' = IF left > calls_max THEN drop_record(b) ELSE b
    /\ left' = IF left > calls_max THEN 0 ELSE left
    /\ pc' = "calls" /\ b' = State("none")
    /\ UNCHANGED <<kids, odd, result>>

NextCall ==
    /\ pc = "calls" /\ left > 0
    /\ left' = left - 1 /\ pc' = "build" /\ b' = State("observation")
    /\ UNCHANGED <<env, kids, odd, result>>

Plus(h, g) == [f \in DOMAIN h |-> h[f] + g[f]]

\* Only what the envelope did not yet know is taken over.
merge_state_First(parent, child) ==
    [parent EXCEPT !.disp = IF child.disp > @ THEN child.disp ELSE @,
                   !.health = IF @.events = 0 THEN child.health ELSE @,
                   !.privacy = @ \/ child.privacy,
                   !.reader_origin = IF @ = "none" THEN child.reader_origin ELSE @]

merge_state(parent, child) ==
    [parent EXCEPT !.disp = IF child.disp > @ THEN child.disp ELSE @,
                   !.health = Plus(@, child.health),
                   !.privacy = @ \/ child.privacy,
                   !.reader_origin = IF @ = "none" THEN child.reader_origin ELSE @]

EndCall ==
    /\ Built /\ env.kind = "envelope"
    /\ kids' = Append(kids, [emitted |-> Emitted(b), rec |-> IF Emitted(b) THEN b.rec ELSE {},
                             disp |-> b.disp, privacy |-> b.privacy])
    /\ env' = merge_state(env, b)
    /\ pc' = "calls" /\ b' = State("none")
    /\ UNCHANGED <<left, odd, result>>

FinishLog ==
    /\ pc = "calls" /\ left = 0
    /\ finish_result(put_counts(env), Cardinality({i \in DOMAIN kids : ~kids[i].emitted}))
    /\ UNCHANGED <<b, env, left, kids, odd>>

Next ==
    \/ Refuse
    \/ \E kind \in DOMAIN Scripts : Begin(kind)
    \/ \E n \in 0 .. calls_max + 1 : BeginLog(n)
    \/ BuildField \/ ValidatorFault \/ FinishRecord
    \/ StartCalls \/ NextCall \/ EndCall \/ FinishLog

Spec == Init /\ [][Next]_vars

-----------------------------------------------------------------------------
(* Properties.                                                             *)

TypeOK ==
    /\ pc \in {"enter", "build", "calls", "done"}
    /\ b.disp \in 0 .. 5 /\ env.disp \in 0 .. 5
    /\ left \in 0 .. calls_max + 1 /\ Len(kids) <= calls_max /\ odd \in 0 .. MaxOdd
    /\ pc = "done" <=> result # None

\* Everything the call hands back that was kept: the record and the records of
\* the calls.
Handed == IF pc = "done" THEN {result.rec} \cup {kids[i].rec : i \in DOMAIN kids} ELSE {}

\* What the detector lets through: base64 under which there is another encoding,
\* and base64 in a run of fewer than 16 characters, without its padding, with
\* neither padding nor uppercase, with a slash and no padding, or url-safe.
Unseen == {"base64_percent", "base64_short", "base64_bare", "base64_dull", "base64_path", "base64_url"}

\* normalization.json, "Scan every persisted string": no emitted record, of the
\* call or of one of its run log's calls, carries a value in which a secret
\* stands in plain sight or under one encoding, but for those of Unseen
\* (privacy.py:727), whichever path took the field.
NoSecretStored ==
    \A rec \in Handed : \A e \in rec :
        e[2] \notin {"longsecret"} \cup Bound \cup (DOMAIN Encodings \ Unseen)

\* "Inherited trace context cannot be stored as OPTICS_GENERATED without the
\* private trace-generation witness": at the moment a record is finished, a
\* generated basis has the witness of a recognised producer with a version, and
\* a basis never stands without its id.
TraceIsEarned ==
    Built => /\ <<"trace_id_basis", "OPTICS_GENERATED">> \in b.rec
                  => b.trace.witness /\ recognized_producer(b)
             /\ Stores(b, "trace_id") <=> Stores(b, "trace_id_basis")

\* A record that says LOCAL_OBSERVATION was written by a recognised producer
\* that is not the demonstration, about a host that is not the demonstration's,
\* and with an event of its own when its trace was inherited; and the label a
\* reader is shown never promises more than the record.
OriginIsEarned ==
    Built /\ Emitted(b) =>
        /\ <<"evidence_origin", "LOCAL_OBSERVATION">> \in b.rec =>
             /\ recognized_producer(b) /\ b.producer # "demo_command"
             /\ <<"destination_host", "demo">> \notin b.rec
             /\ b.inherited_trace => b.local_event
        /\ Stores(b, "evidence_origin") => Value(b, "evidence_origin") = b.reader_origin

\* The account of a run log is the account of all its parts: every call that was
\* built and not emitted is counted, in the health counters and in the
\* envelope's dropped_count, no part is worse than the disposition reported, and
\* a redaction in any call is a redaction of the log.
Accounted ==
    pc = "done" /\ result.kind = "envelope" =>
        LET lost == Cardinality({i \in DOMAIN kids : ~kids[i].emitted})
        IN /\ result.health.events = lost + (IF result.emitted THEN 0 ELSE 1)
           /\ result.dropped_count = lost
           /\ (result.disp = Rank["REJECT_RECORD"]) <=> (result.health.events > 0)
           /\ \A i \in DOMAIN kids : /\ kids[i].disp <= result.disp
                                     /\ kids[i].privacy => result.privacy

=============================================================================
