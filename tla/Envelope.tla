------------------------------ MODULE Envelope ------------------------------
(***************************************************************************)
(* Celery's wire format as this broker writes and reads it: tasks and      *)
(* signatures (schemas/task.py, schemas/signature.py), the envelope of a   *)
(* task, the commands that carry it (response.py, the producer's payload), *)
(* the parser of both protocols (parser.py), result envelopes              *)
(* (schemas/result.py) and what a finished task publishes next (canvas.py).*)
(*                                                                         *)
(* A datetime is an instant that knows its zone or not; its ISO text keeps *)
(* what it knew; a relative time is [seconds |-> n].  Keyword arguments,   *)
(* reprs and content types are left out.                                   *)
(***************************************************************************)
EXTENDS Naturals, SequencesExt

CONSTANTS
    None,           \* Python's None
    CanvasSteps     \* the signatures of the steps that workflows are written with

(* Shape of data: Python's isinstance() and `in` on a mapping. *)
Has(r, key) == r # None /\ key \in DOMAIN r
Get(r, key) == IF Has(r, key) THEN r[key] ELSE None
Or(value, default) == IF value = None THEN default ELSE value
Override(f, g) == [k \in DOMAIN f \cup DOMAIN g |-> IF k \in DOMAIN g THEN g[k] ELSE f[k]]
NoHeaders == [k \in {} |-> None]

-----------------------------------------------------------------------------
(* Datetimes *)

IsDatetime(t) == Has(t, "aware")
Utc(at) == [at |-> at, aware |-> TRUE]
ensure_aware(t) == [t EXCEPT !.aware = TRUE]
isoformat(t) == IF t = None THEN None ELSE [text |-> t]

\* A naive text is UTC, as Celery has it; a text that is no timestamp is no time.
parse_iso8601(value) ==
    IF IsDatetime(value) THEN ensure_aware(value)
    ELSE IF Has(value, "text") /\ IsDatetime(value.text) THEN ensure_aware(value.text)
    ELSE None

-----------------------------------------------------------------------------
(* Tasks and signatures *)

\* CeleryTask(name): its fields and their defaults.
CeleryTask(name) ==
    [task |-> name, args |-> <<>>, countdown |-> None, eta |-> None, expires |-> None,
     retries |-> 0, link |-> <<>>, link_error |-> <<>>, chain |-> <<>>,
     root_id |-> None, parent_id |-> None, group |-> None, group_index |-> None,
     chord |-> None]
IsTask(step) == Has(step, "countdown")

\* __post_init__ raises for the rest.
ValidTask(task) == task.countdown = None \/ task.eta = None

resolve_eta(task, now) ==
    IF task.eta # None THEN ensure_aware(task.eta)
    ELSE IF task.countdown # None THEN Utc(now + task.countdown) ELSE None

resolve_expires(task, now) ==
    IF IsDatetime(task.expires) THEN ensure_aware(task.expires)
    ELSE IF task.expires # None THEN Utc(now + task.expires.seconds) ELSE None

signature(name, args, options, immutable) ==
    [task |-> name, args |-> args, options |-> options, subtask_type |-> None,
     immutable |-> immutable]

\* A continuation is a signature on the wire, whichever way it was written; an option
\* that is not set is not sent, and neither is an empty list of steps.  The steps of a
\* step are serialized with it; here each is where it is read, by as_signatures.
Steps(steps) == IF steps = <<>> THEN None ELSE steps
as_signature(step) ==
    IF ~IsTask(step) THEN step
    ELSE LET options ==
               [countdown |-> step.countdown,
                eta |-> isoformat(step.eta),
                expires |-> IF IsDatetime(step.expires) THEN isoformat(step.expires)
                            ELSE step.expires,
                retries |-> step.retries, link |-> Steps(step.link),
                link_error |-> Steps(step.link_error), chain |-> Steps(step.chain),
                root_id |-> step.root_id, parent_id |-> step.parent_id,
                group_id |-> step.group, group_index |-> step.group_index,
                chord |-> step.chord]
         IN signature(step.task, step.args,
                [k \in {k \in DOMAIN options : options[k] # None} |-> options[k]], FALSE)

Option(sig, name) == Get(sig.options, name)
PrependAlways(sig, result) == <<result>> \o sig.args
call_args(sig, result) == IF sig.immutable THEN sig.args ELSE <<result>> \o sig.args
queue_of(sig, default) == Or(Option(sig, "queue"), default)

\* A link that is one signature is normalized to the sequence of it, and written so here.
as_signatures(values) == [i \in DOMAIN Or(values, <<>>) |-> as_signature(values[i])]

-----------------------------------------------------------------------------
(* Protocol v2 *)

build_task_envelope(task, id, now) ==
    [headers |-> [task |-> task.task, id |-> id,
                  eta |-> isoformat(resolve_eta(task, now)),
                  expires |-> isoformat(resolve_expires(task, now)),
                  group |-> task.group, group_index |-> task.group_index,
                  retries |-> task.retries, root_id |-> Or(task.root_id, id),
                  parent_id |-> task.parent_id, ignore_result |-> FALSE],
     body |-> [args |-> task.args,
               embed |-> [callbacks |-> Steps(task.link), errbacks |-> Steps(task.link_error),
                          chain |-> Steps(task.chain), chord |-> task.chord]]]

-----------------------------------------------------------------------------
(* Commands and what becomes of them on the wire *)

\* CeleryPublishCommand; no queue is a SetupError.
Command(body, type, queue, options) ==
    Override([body |-> body, type |-> type, queue |-> queue, exchange |-> None,
              routing_key |-> None, declare |-> TRUE, headers |-> NoHeaders,
              correlation_id |-> None, reply_to |-> None], options)

\* _destination_of: "" is an exchange, the default one; None is the queue's own.
Destination(cmd) ==
    [exchange |-> Or(cmd.exchange, cmd.queue), routing_key |-> Or(cmd.routing_key, cmd.queue)]

\* _build_payload, for a task and for anything else.
TaskPayload(cmd, id, now) ==
    LET envelope == build_task_envelope(cmd.body, id, now)
    IN [body |-> envelope.body, headers |-> Override(envelope.headers, cmd.headers),
        correlation_id |-> id]
RawPayload(cmd) ==
    [body |-> cmd.body, headers |-> cmd.headers, correlation_id |-> cmd.correlation_id]
Payload(cmd, id, now) == IF IsTask(cmd.body) THEN TaskPayload(cmd, id, now) ELSE RawPayload(cmd)

\* publish_sync: what kombu delivers of it.
Sent(cmd, id, now) ==
    Override(Override(Payload(cmd, id, now), Destination(cmd)), [reply_to |-> cmd.reply_to])

-----------------------------------------------------------------------------
(* The parser *)

\* _split_v2_body raises unless the body is the triple.  (It would read a pair, too: no
\* producer here sends one.)
IsTriple(body) == Has(body, "embed")

\* v1 has no headers: its flat body becomes those of v2.
v1_headers(body) ==
    [task |-> body.task, id |-> Get(body, "id"), eta |-> Get(body, "eta"),
     expires |-> Get(body, "expires"), group |-> Get(body, "taskset"),
     group_index |-> None, retries |-> Or(Get(body, "retries"), 0), root_id |-> None,
     parent_id |-> None, ignore_result |-> FALSE]

\* Everything but the two protocols passes through as it is.
Readable(raw) == Has(raw.headers, "task") => IsTriple(raw.body)
parse_envelope(raw) ==
    IF Has(raw.headers, "task") THEN [headers |-> raw.headers, body |-> raw.body.args]
    ELSE IF Has(raw.body, "task")
    THEN [headers |-> v1_headers(raw.body), body |-> Or(Get(raw.body, "args"), <<>>)]
    ELSE [headers |-> raw.headers, body |-> raw.body]

NoEmbed == [callbacks |-> None, errbacks |-> None, chain |-> None, chord |-> None]
read_embed(raw) ==
    IF Has(raw.headers, "task") /\ IsTriple(raw.body) THEN raw.body.embed ELSE NoEmbed

extract_schedule(headers) ==
    [eta |-> parse_iso8601(Get(headers, "eta")), expires |-> parse_iso8601(Get(headers, "expires"))]

-----------------------------------------------------------------------------
(* Results *)

READY_STATES == {"SUCCESS", "FAILURE", "REVOKED"}
ASSUME NoneAssumption == None \notin Nat /\ None \notin READY_STATES
build_success(id, result) == [task_id |-> id, status |-> "SUCCESS", result |-> result]
build_failure(id) == [task_id |-> id, status |-> "FAILURE", result |-> None]

\* Generated ids are numbers, and an id that somebody chooses is none of them; what a
\* step leads to is made of such steps.
Chosen(fields) == "id" \in DOMAIN fields => fields.id \notin Nat
Listed(steps) == as_signatures(steps) \in Seq(CanvasSteps)
ASSUME CanvasAssumption ==
    \A sig \in CanvasSteps :
        /\ ~IsTask(sig)
        /\ Option(sig, "task_id") \notin Nat /\ Chosen(Or(Option(sig, "headers"), NoHeaders))
        /\ \A steps \in {"link", "link_error", "chain"} : Listed(Option(sig, steps))

\* failed_chain_results: a frozen step has its id already, and gets the failure.
Frozen(step) == Option(step, "task_id") # None

\* CeleryFakePublisher.patch_command, and _publish_reply of the middleware.
Reply(queue, result) ==
    Command(result, "REPLY", queue, [exchange |-> "", declare |-> FALSE,
                                     correlation_id |-> result.task_id])

-----------------------------------------------------------------------------
(* Continuations *)

CONTINUATION_OPTIONS ==
    {"task_id", "reply_to", "queue", "exchange", "routing_key", "declare", "headers",
     "serializer", "countdown", "eta", "expires", "retries", "link", "link_error", "chain",
     "root_id", "parent_id", "group_id", "group_index", "chord"}

\* validate_signature raises SetupError for the rest.
Supported(step) ==
    /\ \A k \in DOMAIN step.options : step.options[k] # None => k \in CONTINUATION_OPTIONS
    /\ Option(step, "serializer") \in {None, "json"}
    /\ step.subtask_type = None

\* CanvasDispatcher._publish: the command for a step that follows the task `headers`;
\* a chain step has the rest of the outer chain, any other step its own.
FromText(value) == IF Has(value, "text") THEN value.text ELSE value
Continuation(headers, step, args, chain, queue) ==
    Command([CeleryTask(step.task) EXCEPT
                !.args = args,
                !.countdown = Option(step, "countdown"),
                !.eta = FromText(Option(step, "eta")),
                !.expires = FromText(Option(step, "expires")),
                !.retries = Or(Option(step, "retries"), 0),
                !.link = as_signatures(Option(step, "link")),
                !.link_error = as_signatures(Option(step, "link_error")),
                !.chain = IF chain # None THEN chain ELSE as_signatures(Option(step, "chain")),
                !.root_id = Or(headers.root_id, headers.id),
                !.parent_id = headers.id,
                !.group = Option(step, "group_id"),
                !.group_index = Option(step, "group_index"),
                !.chord = Option(step, "chord")],
            "PUBLISH", queue_of(step, queue),
            [exchange |-> Option(step, "exchange"),
             routing_key |-> Option(step, "routing_key"),
             declare |-> Or(Option(step, "declare"), TRUE),
             headers |-> Or(Option(step, "headers"), NoHeaders),
             correlation_id |-> Option(step, "task_id"),
             reply_to |-> Option(step, "reply_to")])

\* A publication that the dispatcher refuses to make raises instead.
Publication(headers, step, args, chain, queue) ==
    [cmd |-> Continuation(headers, step, args, chain, queue), valid |-> Supported(step)]

\* on_success: the callbacks in their order, then the last step of the reversed chain.
Followers(headers, embed, result, queue) ==
    LET callbacks == as_signatures(embed.callbacks)
        chain == as_signatures(embed.chain)
        Call(step) == Publication(headers, step, call_args(step, result), None, queue)
        Step(step, rest) == Publication(headers, step, call_args(step, result), rest, queue)
    IN [i \in 1..Len(callbacks) |-> Call(callbacks[i])]
       \o IF chain = <<>> THEN <<>> ELSE <<Step(Last(chain), Front(chain))>>

\* on_failure: the errbacks, called with the id of the task that failed.
Errbacks(headers, embed, queue) ==
    LET errbacks == as_signatures(embed.errbacks)
    IN [i \in 1..Len(errbacks) |->
            Publication(headers, errbacks[i], call_args(errbacks[i], headers.id), None, queue)]
=============================================================================
