------------------------------ MODULE McpServer ------------------------------
(***************************************************************************)
(* The MCP server (sdk/mcp/src/server.ts): one process that offers the SDK *)
(* API to MCP clients as tools. A tool call passes the guardrails, a token *)
(* bucket per tool first among them, and the circuit breaker all calls     *)
(* share, and then sends its request, again after a pause when it fails in *)
(* a way that may be gone by then. JavaScript runs each stretch between    *)
(* two awaits undisturbed, which makes it one action here; other calls run *)
(* while a call waits for its answer or sleeps.                            *)
(*                                                                         *)
(* What a request asks for is left out, except how often it was carried    *)
(* out. Time is kept as ages, in ticks, as far as they are compared with   *)
(* anything; how long an answer or a pause takes is left open.             *)
(***************************************************************************)
EXTENDS Integers, FiniteSets

CONSTANTS
    Calls,          \* the calls clients may have in progress at once
    Offered,        \* the tools the clients call
    RateLimit,      \* RATE_LIMIT_RPM
    TicksPerToken,  \* ticks in which a bucket earns a token
    MaxRetries,     \* MAX_RETRIES
    Threshold,      \* CIRCUIT_BREAKER_THRESHOLD
    HalfOpenMax,    \* CIRCUIT_BREAKER_HALF_OPEN_MAX
    RecoveryTime    \* CIRCUIT_BREAKER_TIMEOUT, in ticks

-----------------------------------------------------------------------------
(* The tools, each with the start of its name isWriteTool looks at and the *)
(* method of the request its handler sends.                                *)

Tool(name, verb, method) == [name |-> name, verb |-> verb, method |-> method]

ProjectTools ==
    {Tool("create_project", "create", "POST"), Tool("update_project", "update", "PUT"),
     Tool("delete_project", "delete", "DELETE"), Tool("create_workspace", "create", "POST")}

SchemaTools ==
    {Tool("list_schema", "list", "GET"), Tool("get_schema", "get", "GET"),
     Tool("create_schema_field", "create", "POST"),
     Tool("delete_schema_field", "delete", "DELETE")}

CollectionTools ==
    {Tool("list_collections", "list", "GET"), Tool("create_collection", "create", "POST"),
     Tool("delete_collection", "delete", "DELETE")}

DocumentTools ==
    {Tool("list_documents", "list", "GET"), Tool("get_document", "get", "GET"),
     Tool("create_document", "create", "POST"), Tool("update_document", "update", "PUT"),
     Tool("update_document_status", "update", "PATCH"),
     Tool("delete_document", "delete", "DELETE")}

RtdbTools ==
    {Tool("rtdb_get", "rtdb_get", "GET"), Tool("rtdb_set", "rtdb_set", "PUT"),
     Tool("rtdb_update", "rtdb_update", "PATCH"), Tool("rtdb_delete", "rtdb_delete", "DELETE")}

Tools == ProjectTools \cup SchemaTools \cup CollectionTools \cup DocumentTools \cup RtdbTools

ASSUME ToolsAssumption ==
    /\ \A name \in Offered : \E tool \in Tools : tool.name = name
    /\ Offered # {}
ASSUME LimitsAssumption ==
    /\ {RateLimit, TicksPerToken, Threshold, HalfOpenMax, RecoveryTime} \subseteq Nat \ {0}
    /\ MaxRetries \in Nat

\* Mutant: deletes are not writes.
WriteVerbsButDelete == {"create", "update", "set", "rtdb_set", "rtdb_update"}

WriteVerbs == {"create", "update", "delete", "set", "rtdb_set", "rtdb_update", "rtdb_delete"}

IsWriteTool(t) == \E tool \in Tools : tool.name = t /\ tool.verb \in WriteVerbs

Writes(t) == \E tool \in Tools : tool.name = t /\ tool.method # "GET"

\* Requests the backend refuses when they come a second time, as what they
\* ask for is there or gone; and those that leave one more thing behind: what
\* they create, under an id the backend makes, or a version of the document. A
\* field is refused if it has a display name, which the first one has taken.
RefusedAgain == {"create_workspace", "delete_project", "delete_collection", "delete_document"}
RefusedIfNamed == {"create_schema_field"}
CreatedAgain == {"create_project", "create_schema_field", "create_collection", "create_document",
                 "update_document"}

-----------------------------------------------------------------------------
VARIABLES
    readOnly,   \* MCP_READ_ONLY
    buckets,    \* rateLimitBuckets by tool: the tokens in ticks, age of lastRefill
    breaker,    \* circuitBreaker, with the age of lastFailureTime
    calls,      \* the tool calls
    healthy,    \* whether the backend carries out what it is asked and answers
    streak      \* history: the calls in a row that ended alike, last

vars == <<readOnly, buckets, breaker, calls, healthy, streak>>

Capacity == RateLimit * TicksPerToken

AtMost(bound, n) == IF n < bound THEN n ELSE bound

TypeOK ==
    /\ readOnly \in BOOLEAN
    /\ buckets \in [Offered -> [tokens : 0 .. Capacity, age : 0 .. Capacity]]
    /\ breaker \in [state : {"closed", "open", "half-open"}, failures : 0 .. Threshold,
                    successes : 0 .. HalfOpenMax - 1, age : 0 .. RecoveryTime]
    /\ calls \in [Calls -> [phase : {"idle", "asked", "asleep"}, tool : Offered,
                            attempt : 0 .. MaxRetries, effects : 0 .. MaxRetries + 1]]
    /\ healthy \in BOOLEAN
    /\ streak \in [failed : BOOLEAN, length : 0 .. Threshold + HalfOpenMax]

\* A bucket nobody has used yet is full.
Init ==
    /\ readOnly \in BOOLEAN
    /\ buckets = [t \in Offered |-> [tokens |-> Capacity, age |-> 0]]
    /\ breaker = [state |-> "closed", failures |-> 0, successes |-> 0, age |-> 0]
    /\ calls = [c \in Calls |-> [phase |-> "idle", tool |-> CHOOSE t \in Offered : TRUE,
                                 attempt |-> 0, effects |-> 0]]
    /\ healthy \in BOOLEAN
    /\ streak = [failed |-> FALSE, length |-> 0]

-----------------------------------------------------------------------------
(* The circuit breaker.                                                    *)

\* Mutant: the failures are forgotten only when the circuit closes again.
RecordSuccessKeepingFailures(b) ==
    IF b.state = "half-open"
    THEN IF b.successes + 1 >= HalfOpenMax
         THEN [b EXCEPT !.state = "closed", !.failures = 0, !.successes = 0]
         ELSE [b EXCEPT !.successes = @ + 1]
    ELSE b

\* recordSuccess
RecordSuccess(b) ==
    LET cleared == [b EXCEPT !.failures = 0]
    IN  IF b.state # "half-open" THEN cleared
        ELSE IF b.successes + 1 >= HalfOpenMax
             THEN [cleared EXCEPT !.state = "closed", !.successes = 0]
             ELSE [cleared EXCEPT !.successes = @ + 1]

\* recordFailure; failures beyond the threshold make no difference.
RecordFailure(b) ==
    LET failed == [b EXCEPT !.failures = AtMost(Threshold, @ + 1), !.age = 0]
    IN  IF b.state = "half-open" THEN [failed EXCEPT !.state = "open", !.successes = 0]
        ELSE IF failed.failures >= Threshold THEN [failed EXCEPT !.state = "open"] ELSE failed

\* canExecute, and what it makes of the breaker.
CanExecute(b) == b.state = "open" => b.age >= RecoveryTime

\* Mutant: calls get through again, but the circuit is not tried.
ExecutingUntried(b) == b

Executing(b) ==
    IF b.state = "open" THEN [b EXCEPT !.state = "half-open", !.successes = 0] ELSE b

-----------------------------------------------------------------------------
(* withGuardrails and executeWithRetry, up to the first request.           *)

Refilled(b) == AtMost(Capacity, b.tokens + b.age)

HasToken(t) == Refilled(buckets[t]) >= TicksPerToken

\* checkRateLimit refuses: the bucket keeps what it has been refilled with,
\* and its lastRefill.
RateLimited(c, t) ==
    /\ calls[c].phase = "idle"
    /\ ~HasToken(t)
    /\ buckets' = [buckets EXCEPT ![t].tokens = Refilled(buckets[t])]
    /\ UNCHANGED <<readOnly, breaker, calls, healthy, streak>>

Taken(t) ==
    /\ HasToken(t)
    /\ buckets' = [buckets EXCEPT ![t] = [tokens |-> Refilled(@) - TicksPerToken, age |-> 0]]

\* validateBodySize, sanitizeInput, the tool's own checks, or the read-only
\* mode end the call.
Rejected(c, t) ==
    /\ calls[c].phase = "idle"
    /\ Taken(t)
    /\ UNCHANGED <<readOnly, breaker, calls, healthy, streak>>

\* checkCircuitBreaker throws.
FailFast(c, t) ==
    /\ calls[c].phase = "idle"
    /\ Taken(t)
    /\ ~(readOnly /\ IsWriteTool(t))
    /\ ~CanExecute(breaker)
    /\ UNCHANGED <<readOnly, breaker, calls, healthy, streak>>

Send(c, t) ==
    /\ calls[c].phase = "idle"
    /\ Taken(t)
    /\ ~(readOnly /\ IsWriteTool(t))
    /\ CanExecute(breaker)
    /\ breaker' = Executing(breaker)
    /\ calls' = [calls EXCEPT ![c] = [phase |-> "asked", tool |-> t, attempt |-> 0, effects |-> 0]]
    /\ UNCHANGED <<readOnly, healthy, streak>>

Call(c, t) == RateLimited(c, t) \/ Rejected(c, t) \/ FailFast(c, t) \/ Send(c, t)

-----------------------------------------------------------------------------
(* retryAsync: the answers.                                                *)

Ends(c, effects, failed) ==
    /\ calls' = [calls EXCEPT ![c].phase = "idle", ![c].effects = effects]
    /\ breaker' = IF failed THEN RecordFailure(breaker) ELSE RecordSuccess(breaker)
    /\ streak' = [failed |-> failed,
                  length |-> IF streak.failed = failed
                             THEN AtMost(Threshold + HalfOpenMax, streak.length + 1) ELSE 1]

\* What a request leaves behind when it is carried out after "effects" others
\* of the same call: one thing more, or what the first of them left.
CarriedOut(t, effects) ==
    IF ~Writes(t) THEN 0 ELSE IF t \in CreatedAgain THEN effects + 1 ELSE 1

Refusable(c) == calls[c].effects = 1 /\ calls[c].tool \in RefusedAgain
MayBeRefused(c) == Refusable(c) \/ (calls[c].effects > 0 /\ calls[c].tool \in RefusedIfNamed)

Succeeds(c) ==
    /\ calls[c].phase = "asked"
    /\ ~Refusable(c)
    /\ Ends(c, CarriedOut(calls[c].tool, calls[c].effects), FALSE)
    /\ UNCHANGED <<readOnly, buckets, healthy>>

\* The effects of c once a request of it has gone wrong: it may have been
\* carried out before its answer was lost or spoilt.
Effects(c) ==
    {calls[c].effects} \cup
        (IF Refusable(c) THEN {} ELSE {CarriedOut(calls[c].tool, calls[c].effects)})

\* A status that is not worth a retry, or a body that is no JSON.
Refuses(c) ==
    /\ calls[c].phase = "asked"
    /\ MayBeRefused(c) \/ ~healthy
    /\ \E effects \in Effects(c) : Ends(c, effects, TRUE)
    /\ UNCHANGED <<readOnly, buckets, healthy>>

\* Mutant: the attempts are not counted.
PausedUncounted(call) == [call EXCEPT !.phase = "asleep"]

\* The loop goes round.
Paused(call) == [call EXCEPT !.phase = "asleep", !.attempt = @ + 1]

LastAttempt(call) == call.attempt = MaxRetries

\* 429, 500, 502, 503, 504 or no answer at all.
Fails(c) ==
    /\ calls[c].phase = "asked"
    /\ ~healthy
    /\ \E effects \in Effects(c) :
       IF LastAttempt(calls[c])
       THEN Ends(c, effects, TRUE)
       ELSE /\ calls' = [calls EXCEPT ![c] = [Paused(@) EXCEPT !.effects = effects]]
            /\ UNCHANGED <<breaker, streak>>
    /\ UNCHANGED <<readOnly, buckets, healthy>>

\* The pause is over and the request goes out again, whatever has become of
\* the breaker.
Wake(c) ==
    /\ calls[c].phase = "asleep"
    /\ calls' = [calls EXCEPT ![c].phase = "asked"]
    /\ UNCHANGED <<readOnly, buckets, breaker, healthy, streak>>

Answer(c) == Succeeds(c) \/ Refuses(c) \/ Fails(c)

-----------------------------------------------------------------------------
(* The clock and the backend.                                              *)

Tick ==
    /\ buckets' = [t \in Offered |-> [buckets[t] EXCEPT !.age = AtMost(Capacity, @ + 1)]]
    /\ breaker' = [breaker EXCEPT !.age = AtMost(RecoveryTime, @ + 1)]
    /\ UNCHANGED <<readOnly, calls, healthy, streak>>

\* The backend, or the way to it, fails or is repaired. As long as it is
\* sound, the clients ask for nothing it refuses the first time.
Turn ==
    /\ healthy' = ~healthy
    /\ UNCHANGED <<readOnly, buckets, breaker, calls, streak>>

Next ==
    \/ \E c \in Calls, t \in Offered : Call(c, t)
    \/ \E c \in Calls : Answer(c) \/ Wake(c)
    \/ Tick
    \/ Turn

\* Requests are answered or fail, timers fire, and clients go on calling.
Fairness ==
    /\ \A c \in Calls : WF_vars(Answer(c)) /\ WF_vars(Wake(c))
    /\ \A c \in Calls : SF_vars(\E t \in Offered : Send(c, t))
    /\ WF_vars(Tick)

Spec == Init /\ [][Next]_vars /\ Fairness

-----------------------------------------------------------------------------
(* Properties.                                                             *)

\* The circuit opens after Threshold failed calls in a row, whichever calls
\* those were, and closes after HalfOpenMax good ones in a row.
CircuitFollowsTheCalls ==
    [][/\ breaker.state = "closed" /\ breaker'.state = "open"
            => streak'.failed /\ streak'.length >= Threshold
       /\ breaker.state # "closed" /\ breaker'.state = "closed"
            => ~streak'.failed /\ streak'.length >= HalfOpenMax]_vars

\* In read-only mode no tool changes anything: what isWriteTool makes of the
\* names of the tools agrees with the requests their handlers send.
ReadOnlyWritesNothing == readOnly => \A c \in Calls : calls[c].effects = 0

\* However the calls fail, each of them ends: the retries of executeWithRetry
\* do not go on for ever.
CallsAreAnswered == \A c \in Calls : calls[c].phase # "idle" ~> calls[c].phase = "idle"

\* Once the backend is sound for good, the circuit closes for good, whatever
\* failures are still to be recorded when it becomes sound.
CircuitClosesAgain == <>[]healthy => <>[](breaker.state = "closed")

\* What a caller expects of a tool call and of its retries: it is carried out
\* at most once. A create whose answer is lost is carried out again.
WritesHappenOnce == \A c \in Calls : calls[c].effects <= 1
=============================================================================
