--------------------------- MODULE McpServerProofs ---------------------------
(***************************************************************************)
(* Proofs about McpServer, for every number of calls and set of tools,     *)
(* every rate limit, number of retries, threshold and recovery time.       *)
(***************************************************************************)
EXTENDS McpServer, TLAPS

-----------------------------------------------------------------------------
(* The tools.                                                              *)

\* A tool whose handler sends anything but a GET has a name that isWriteTool
\* recognizes.
LEMMA WritersAreNamed ==
  ASSUME NEW t, Writes(t)
  PROVE  IsWriteTool(t)
<1>1. ASSUME NEW tool \in Tools, tool.method # "GET"
      PROVE  tool.verb \in WriteVerbs
  <2>1. CASE tool \in ProjectTools
    BY <1>1, <2>1 DEF ProjectTools, Tool, WriteVerbs
  <2>2. CASE tool \in SchemaTools
    BY <1>1, <2>2 DEF SchemaTools, Tool, WriteVerbs
  <2>3. CASE tool \in CollectionTools
    BY <1>1, <2>3 DEF CollectionTools, Tool, WriteVerbs
  <2>4. CASE tool \in DocumentTools
    BY <1>1, <2>4 DEF DocumentTools, Tool, WriteVerbs
  <2>5. CASE tool \in RtdbTools
    BY <1>1, <2>5 DEF RtdbTools, Tool, WriteVerbs
  <2> QED
    BY <1>1, <2>1, <2>2, <2>3, <2>4, <2>5 DEF Tools
<1> QED
  BY <1>1 DEF Writes, IsWriteTool

-----------------------------------------------------------------------------
(* The inductive invariant.                                                *)

\* The parts of the type invariant, one for a variable.
BucketsOK == buckets \in [Offered -> [tokens : 0 .. Capacity, age : 0 .. Capacity]]
Breakers ==
    [state : {"closed", "open", "half-open"}, failures : 0 .. Threshold,
     successes : 0 .. HalfOpenMax - 1, age : 0 .. RecoveryTime]
BreakerOK == breaker \in Breakers
CallsOK ==
    calls \in [Calls -> [phase : {"idle", "asked", "asleep"}, tool : Offered,
                         attempt : 0 .. MaxRetries, effects : 0 .. MaxRetries + 1]]
StreakOK == streak \in [failed : BOOLEAN, length : 0 .. Threshold + HalfOpenMax]
ModesOK  == readOnly \in BOOLEAN /\ healthy \in BOOLEAN

LEMMA TypeSplit == TypeOK <=> BucketsOK /\ BreakerOK /\ CallsOK /\ StreakOK /\ ModesOK
BY DEF TypeOK, BucketsOK, BreakerOK, Breakers, CallsOK, StreakOK, ModesOK

\* A call in flight has left behind no more than it has sent requests.
EffectsBounded == \A c \in Calls : calls[c].phase # "idle" => calls[c].effects <= calls[c].attempt

\* In read-only mode the calls in flight are of tools that only read.
ReadersInFlight ==
    readOnly => \A c \in Calls : calls[c].phase # "idle" => ~IsWriteTool(calls[c].tool)

\* The breaker counts no more than the calls in a row that ended alike, and
\* counts successes only while it tries the circuit.
BreakerFollowsStreak ==
    /\ breaker.failures <= IF streak.failed THEN streak.length ELSE 0
    /\ breaker.successes <= IF streak.failed THEN 0 ELSE streak.length
    /\ breaker.state # "half-open" => breaker.successes = 0

CallsInv == CallsOK /\ ModesOK /\ EffectsBounded /\ ReadersInFlight /\ ReadOnlyWritesNothing
BreakerInv == BreakerOK /\ StreakOK /\ BreakerFollowsStreak

IInv == BucketsOK /\ CallsInv /\ BreakerInv

LEMMA Limits ==
  /\ RateLimit \in Nat /\ TicksPerToken \in Nat /\ RateLimit > 0 /\ TicksPerToken > 0
  /\ Threshold \in Nat /\ HalfOpenMax \in Nat /\ Threshold > 0 /\ HalfOpenMax > 0
  /\ RecoveryTime \in Nat /\ RecoveryTime > 0 /\ MaxRetries \in Nat
  /\ Capacity \in Nat
BY LimitsAssumption DEF Capacity

LEMMA InitIInv == Init => IInv
<1> SUFFICES ASSUME Init PROVE IInv
  OBVIOUS
<1>1. (CHOOSE t \in Offered : TRUE) \in Offered
  BY ToolsAssumption
<1>2. BucketsOK
  BY Limits DEF Init, BucketsOK
<1>3. CallsInv
  BY <1>1, Limits DEF Init, CallsInv, CallsOK, ModesOK, EffectsBounded, ReadersInFlight,
                      ReadOnlyWritesNothing
<1>4. BreakerInv
  BY Limits DEF Init, BreakerInv, BreakerOK, Breakers, StreakOK, BreakerFollowsStreak
<1> QED
  BY <1>2, <1>3, <1>4 DEF IInv

-----------------------------------------------------------------------------
(* The buckets.                                                            *)

LEMMA RefilledFacts ==
  ASSUME BucketsOK, NEW t \in Offered
  PROVE  Refilled(buckets[t]) \in 0 .. Capacity
BY Limits DEF BucketsOK, Refilled, AtMost

LEMMA TakenBuckets ==
  ASSUME BucketsOK, NEW t \in Offered, Taken(t)
  PROVE  BucketsOK'
<1>1. Refilled(buckets[t]) - TicksPerToken \in 0 .. Capacity
  BY RefilledFacts, Limits DEF Taken, HasToken
<1> QED
  BY <1>1, Limits DEF BucketsOK, Taken

LEMMA NextBuckets ==
  ASSUME BucketsOK, [Next]_vars
  PROVE  BucketsOK'
<1>1. ASSUME NEW c \in Calls, NEW t \in Offered, Call(c, t)
      PROVE  BucketsOK'
  <2>1. CASE RateLimited(c, t)
    BY <2>1, RefilledFacts DEF RateLimited, BucketsOK
  <2>2. CASE Taken(t)
    BY <2>2, TakenBuckets
  <2> QED
    BY <1>1, <2>1, <2>2 DEF Call, Rejected, FailFast, Send
<1>2. ASSUME NEW c \in Calls, Answer(c) \/ Wake(c)
      PROVE  BucketsOK'
  BY <1>2 DEF Answer, Succeeds, Refuses, Fails, Wake, BucketsOK
<1>3. CASE Tick
  BY <1>3, Limits DEF Tick, BucketsOK, AtMost
<1>4. CASE Turn
  BY <1>4 DEF Turn, BucketsOK
<1>5. CASE UNCHANGED vars
  BY <1>5 DEF vars, BucketsOK
<1> QED
  BY <1>1, <1>2, <1>3, <1>4, <1>5 DEF Next

-----------------------------------------------------------------------------
(* The calls.                                                              *)

\* Whatever becomes of a request, its call has left behind at most one more.
LEMMA EffectsFacts ==
  ASSUME CallsOK, NEW c \in Calls, NEW effects,
         \/ effects \in Effects(c)
         \/ effects = CarriedOut(calls[c].tool, calls[c].effects)
  PROVE  /\ effects \in Nat /\ effects <= calls[c].effects + 1
         /\ ~Writes(calls[c].tool) => effects \in {0, calls[c].effects}
BY Limits DEF CallsOK, Effects, CarriedOut

\* The state of one call may be replaced by one that is as sound.
LEMMA PutCall ==
  ASSUME CallsInv, NEW c \in Calls, UNCHANGED <<readOnly, healthy>>, NEW call,
         calls' = [calls EXCEPT ![c] = call],
         call \in [phase : {"idle", "asked", "asleep"}, tool : Offered,
                   attempt : 0 .. MaxRetries, effects : 0 .. MaxRetries + 1],
         call.phase # "idle" => call.effects <= call.attempt,
         readOnly => call.effects = 0,
         readOnly /\ call.phase # "idle" => ~IsWriteTool(call.tool)
  PROVE  CallsInv'
BY DEF CallsInv, CallsOK, ModesOK, EffectsBounded, ReadersInFlight, ReadOnlyWritesNothing

LEMMA EndedCall ==
  ASSUME CallsInv, NEW c \in Calls, UNCHANGED <<readOnly, healthy>>, NEW effects, NEW failed,
         calls[c].phase = "asked",
         \/ effects \in Effects(c)
         \/ effects = CarriedOut(calls[c].tool, calls[c].effects),
         Ends(c, effects, failed)
  PROVE  CallsInv'
<1> DEFINE call == [calls[c] EXCEPT !.phase = "idle", !.effects = effects]
<1>1. /\ effects \in Nat /\ effects <= calls[c].effects + 1
      /\ ~Writes(calls[c].tool) => effects \in {0, calls[c].effects}
  BY EffectsFacts DEF CallsInv
<1>2. /\ calls[c].effects \in Nat /\ calls[c].attempt \in 0 .. MaxRetries
      /\ calls[c].effects <= calls[c].attempt
  BY Limits DEF CallsInv, CallsOK, EffectsBounded
<1>3. effects \in 0 .. MaxRetries + 1
  BY <1>1, <1>2, Limits
<1>4. readOnly => effects = 0
  BY <1>1, WritersAreNamed DEF CallsInv, ReadersInFlight, ReadOnlyWritesNothing
<1>5. calls' = [calls EXCEPT ![c] = call]
  BY DEF Ends
<1>6. /\ call \in [phase : {"idle", "asked", "asleep"}, tool : Offered,
                   attempt : 0 .. MaxRetries, effects : 0 .. MaxRetries + 1]
      /\ call.phase = "idle" /\ call.effects = effects
  BY <1>3 DEF CallsInv, CallsOK
<1> HIDE DEF call
<1> QED
  BY <1>4, <1>5, <1>6, PutCall

LEMMA SentCall ==
  ASSUME CallsInv, NEW c \in Calls, NEW t \in Offered, Send(c, t)
  PROVE  CallsInv'
<1> DEFINE call == [phase |-> "asked", tool |-> t, attempt |-> 0, effects |-> 0]
<1>1. call \in [phase : {"idle", "asked", "asleep"}, tool : Offered,
                attempt : 0 .. MaxRetries, effects : 0 .. MaxRetries + 1]
  BY Limits
<1>2. call.effects = 0 /\ call.attempt = 0 /\ call.tool = t
  OBVIOUS
<1>3. UNCHANGED <<readOnly, healthy>> /\ calls' = [calls EXCEPT ![c] = call]
  BY DEF Send
<1>4. readOnly => ~IsWriteTool(call.tool)
  BY <1>2 DEF Send
<1> HIDE DEF call
<1>5. call.effects <= call.attempt
  BY <1>2
<1> QED
  BY <1>1, <1>2, <1>3, <1>4, <1>5, PutCall

LEMMA PausedCall ==
  ASSUME CallsInv, NEW c \in Calls, UNCHANGED <<readOnly, healthy>>, NEW effects \in Effects(c),
         calls[c].phase = "asked", ~LastAttempt(calls[c]),
         calls' = [calls EXCEPT ![c] = [Paused(@) EXCEPT !.effects = effects]]
  PROVE  CallsInv'
<1> DEFINE call == [Paused(calls[c]) EXCEPT !.effects = effects]
<1>1. /\ effects \in Nat /\ effects <= calls[c].effects + 1
      /\ ~Writes(calls[c].tool) => effects \in {0, calls[c].effects}
  BY EffectsFacts DEF CallsInv
<1>2. /\ calls[c].effects \in Nat /\ calls[c].attempt \in 0 .. MaxRetries
      /\ calls[c].effects <= calls[c].attempt
      /\ calls[c].attempt # MaxRetries
  BY Limits DEF CallsInv, CallsOK, EffectsBounded, LastAttempt
<1>3. effects \in 0 .. MaxRetries + 1 /\ calls[c].attempt + 1 \in 0 .. MaxRetries
      /\ effects <= calls[c].attempt + 1
  BY <1>1, <1>2, Limits
<1>4. readOnly => effects = 0 /\ ~IsWriteTool(calls[c].tool)
  BY <1>1, WritersAreNamed DEF CallsInv, ReadersInFlight, ReadOnlyWritesNothing
<1>5. /\ call \in [phase : {"idle", "asked", "asleep"}, tool : Offered,
                   attempt : 0 .. MaxRetries, effects : 0 .. MaxRetries + 1]
      /\ call.effects = effects /\ call.attempt = calls[c].attempt + 1
      /\ call.tool = calls[c].tool
  BY <1>3 DEF CallsInv, CallsOK, Paused
<1>6. calls' = [calls EXCEPT ![c] = call]
  OBVIOUS
<1> HIDE DEF call
<1> QED
  BY <1>3, <1>4, <1>5, <1>6, PutCall

LEMMA NextCalls ==
  ASSUME CallsInv, [Next]_vars
  PROVE  CallsInv'
<1>1. ASSUME NEW c \in Calls, NEW t \in Offered, Call(c, t)
      PROVE  CallsInv'
  <2>1. CASE Send(c, t)
    BY <2>1, SentCall
  <2>2. CASE UNCHANGED <<readOnly, calls, healthy>>
    BY <2>2 DEF CallsInv, CallsOK, ModesOK, EffectsBounded, ReadersInFlight,
                ReadOnlyWritesNothing
  <2> QED
    BY <1>1, <2>1, <2>2 DEF Call, RateLimited, Rejected, FailFast
<1>2. ASSUME NEW c \in Calls, Answer(c)
      PROVE  CallsInv'
  <2>1. UNCHANGED <<readOnly, healthy>> /\ calls[c].phase = "asked"
    BY <1>2 DEF Answer, Succeeds, Refuses, Fails
  <2>2. CASE Succeeds(c)
    BY <2>1, <2>2, EndedCall DEF Succeeds
  <2>3. CASE Refuses(c)
    BY <2>1, <2>3, EndedCall DEF Refuses
  <2>4. CASE Fails(c)
    <3>1. PICK effects \in Effects(c) :
             IF LastAttempt(calls[c])
             THEN Ends(c, effects, TRUE)
             ELSE calls' = [calls EXCEPT ![c] = [Paused(@) EXCEPT !.effects = effects]]
      BY <2>4 DEF Fails
    <3>2. CASE LastAttempt(calls[c])
      BY <2>1, <3>1, <3>2, EndedCall
    <3>3. CASE ~LastAttempt(calls[c])
      BY <2>1, <3>1, <3>3, PausedCall
    <3> QED
      BY <3>2, <3>3
  <2> QED
    BY <1>2, <2>2, <2>3, <2>4 DEF Answer
<1>3. ASSUME NEW c \in Calls, Wake(c)
      PROVE  CallsInv'
  <2>1. calls[c].phase = "asleep" /\ calls' = [calls EXCEPT ![c].phase = "asked"]
        /\ UNCHANGED <<readOnly, healthy>>
    BY <1>3 DEF Wake
  <2> QED
    BY <2>1 DEF CallsInv, CallsOK, ModesOK, EffectsBounded, ReadersInFlight,
                ReadOnlyWritesNothing
<1>4. CASE Turn
  BY <1>4 DEF Turn, CallsInv, CallsOK, ModesOK, EffectsBounded, ReadersInFlight,
              ReadOnlyWritesNothing
<1>5. CASE UNCHANGED <<readOnly, calls, healthy>>
  BY <1>5 DEF CallsInv, CallsOK, ModesOK, EffectsBounded, ReadersInFlight,
              ReadOnlyWritesNothing
<1> QED
  BY <1>1, <1>2, <1>3, <1>4, <1>5 DEF Next, Tick, vars

-----------------------------------------------------------------------------
(* The circuit breaker.                                                    *)

\* The counts after recordFailure and recordSuccess, and what they make of the
\* state.
LEMMA FailureFacts ==
  ASSUME BreakerOK
  PROVE  LET b == RecordFailure(breaker)
         IN  /\ b \in Breakers
             /\ b.failures = AtMost(Threshold, breaker.failures + 1)
             /\ b.successes = IF breaker.state = "half-open" THEN 0 ELSE breaker.successes
             /\ b.state # "half-open"
             /\ b.state = "closed" => breaker.state = "closed"
             /\ b.state = "open" /\ breaker.state = "closed" => b.failures >= Threshold
<1> DEFINE n == AtMost(Threshold, breaker.failures + 1)
           failed == [breaker EXCEPT !.failures = n, !.age = 0]
<1>1. n \in 0 .. Threshold
  BY Limits DEF BreakerOK, Breakers, AtMost
<1>2. RecordFailure(breaker) =
         IF breaker.state = "half-open" THEN [failed EXCEPT !.state = "open", !.successes = 0]
         ELSE IF failed.failures >= Threshold THEN [failed EXCEPT !.state = "open"] ELSE failed
  BY DEF RecordFailure
<1> HIDE DEF n
<1>3. /\ failed \in Breakers /\ failed.failures = n
      /\ failed.successes = breaker.successes /\ failed.state = breaker.state
  <2>1. [breaker EXCEPT !.failures = n] \in Breakers
    BY <1>1 DEF BreakerOK, Breakers
  <2>2. \A b \in Breakers : [b EXCEPT !.age = 0] \in Breakers
    BY Limits DEF Breakers
  <2>3. failed = [[breaker EXCEPT !.failures = n] EXCEPT !.age = 0]
    OBVIOUS
  <2>4. failed \in Breakers
    BY <2>1, <2>2, <2>3
  <2> QED
    BY <2>4 DEF BreakerOK, Breakers
<1> HIDE DEF failed
<1>4. CASE breaker.state = "half-open"
  <2>1. RecordFailure(breaker) = [failed EXCEPT !.state = "open", !.successes = 0]
    BY <1>2, <1>4
  <2>2. RecordFailure(breaker) = [state |-> "open", failures |-> failed.failures,
                                  successes |-> 0, age |-> failed.age]
    BY <1>3, <2>1 DEF Breakers
  <2>3. 0 \in 0 .. HalfOpenMax - 1
    BY Limits
  <2>4. RecordFailure(breaker) \in Breakers
    BY <1>3, <2>2, <2>3 DEF Breakers
  <2> QED
    BY <1>3, <1>4, <2>2, <2>4 DEF n
<1>5. CASE breaker.state # "half-open" /\ failed.failures >= Threshold
  <2>1. RecordFailure(breaker) = [failed EXCEPT !.state = "open"]
    BY <1>2, <1>5
  <2> QED
    BY <1>3, <1>5, <2>1, Limits DEF Breakers, n
<1>6. CASE breaker.state # "half-open" /\ ~(failed.failures >= Threshold)
  <2>1. RecordFailure(breaker) = failed
    BY <1>2, <1>6
  <2> QED
    BY <1>3, <1>6, <2>1, Limits DEF BreakerOK, Breakers, n
<1> QED
  BY <1>4, <1>5, <1>6

LEMMA SuccessFacts ==
  ASSUME BreakerOK
  PROVE  LET b == RecordSuccess(breaker)
             closes == breaker.state = "half-open" /\ breaker.successes + 1 >= HalfOpenMax
         IN  /\ b \in Breakers /\ b.failures = 0
             /\ b.state = IF closes THEN "closed" ELSE breaker.state
             /\ b.successes = IF closes THEN 0 ELSE IF breaker.state = "half-open"
                              THEN breaker.successes + 1 ELSE breaker.successes
<1> DEFINE cleared == [breaker EXCEPT !.failures = 0]
<1>1. /\ cleared \in Breakers /\ cleared.failures = 0
      /\ cleared.successes = breaker.successes /\ cleared.state = breaker.state
  BY Limits DEF BreakerOK, Breakers
<1>2. RecordSuccess(breaker) =
         IF breaker.state # "half-open" THEN cleared
         ELSE IF breaker.successes + 1 >= HalfOpenMax
              THEN [cleared EXCEPT !.state = "closed", !.successes = 0]
              ELSE [cleared EXCEPT !.successes = cleared.successes + 1]
  BY DEF RecordSuccess
<1> HIDE DEF cleared
<1>3. CASE breaker.state # "half-open"
  BY <1>1, <1>2, <1>3
<1>4. CASE breaker.state = "half-open" /\ breaker.successes + 1 >= HalfOpenMax
  <2>1. RecordSuccess(breaker) = [cleared EXCEPT !.state = "closed", !.successes = 0]
    BY <1>2, <1>4
  <2>2. RecordSuccess(breaker) = [state |-> "closed", failures |-> cleared.failures,
                                  successes |-> 0, age |-> cleared.age]
    BY <1>1, <2>1 DEF Breakers
  <2>3. 0 \in 0 .. HalfOpenMax - 1
    BY Limits
  <2>4. RecordSuccess(breaker) \in Breakers
    BY <1>1, <2>2, <2>3 DEF Breakers
  <2> QED
    BY <1>1, <1>4, <2>2, <2>4
<1>5. CASE breaker.state = "half-open" /\ ~(breaker.successes + 1 >= HalfOpenMax)
  <2>1. RecordSuccess(breaker) = [cleared EXCEPT !.successes = cleared.successes + 1]
    BY <1>2, <1>5
  <2> QED
    BY <1>1, <1>5, <2>1, Limits DEF Breakers
<1> QED
  BY <1>3, <1>4, <1>5

\* The streak after a call has ended.
LEMMA StreakFacts ==
  ASSUME StreakOK, NEW c \in Calls, NEW effects, NEW failed \in BOOLEAN, Ends(c, effects, failed)
  PROVE  /\ StreakOK' /\ streak'.failed = failed
         /\ streak'.length = IF streak.failed = failed
                             THEN AtMost(Threshold + HalfOpenMax, streak.length + 1) ELSE 1
BY Limits DEF StreakOK, Ends, AtMost

\* An opening or closing of the circuit that follows the calls.
Follows ==
    /\ breaker.state = "closed" /\ breaker'.state = "open"
         => streak'.failed /\ streak'.length >= Threshold
    /\ breaker.state # "closed" /\ breaker'.state = "closed"
         => ~streak'.failed /\ streak'.length >= HalfOpenMax

LEMMA EndedBreaker ==
  ASSUME BreakerInv, NEW c \in Calls, NEW effects, NEW failed \in BOOLEAN,
         Ends(c, effects, failed)
  PROVE  BreakerInv' /\ Follows
<1>1. /\ StreakOK' /\ streak'.failed = failed
      /\ streak'.length = IF streak.failed = failed
                          THEN AtMost(Threshold + HalfOpenMax, streak.length + 1) ELSE 1
  BY StreakFacts DEF BreakerInv
<1>2. /\ breaker.failures \in 0 .. Threshold /\ breaker.successes \in 0 .. HalfOpenMax - 1
      /\ streak.length \in Nat /\ streak.failed \in BOOLEAN
      /\ breaker.state \in {"closed", "open", "half-open"}
  BY Limits DEF BreakerInv, BreakerOK, Breakers, StreakOK
<1>3. CASE failed
  <2>1. breaker' = RecordFailure(breaker)
    BY <1>3 DEF Ends
  <2>2. BreakerOK'
    BY <2>1, FailureFacts DEF BreakerInv, BreakerOK
  <2>3. /\ breaker'.failures = AtMost(Threshold, breaker.failures + 1)
        /\ breaker'.successes = IF breaker.state = "half-open" THEN 0 ELSE breaker.successes
        /\ breaker'.state # "half-open"
        /\ breaker'.state = "closed" => breaker.state = "closed"
        /\ breaker'.state = "open" /\ breaker.state = "closed" => breaker'.failures >= Threshold
    BY <2>1, FailureFacts DEF BreakerInv
  <2>4. streak'.failed = TRUE /\ streak'.length \in Nat /\ breaker'.failures \in Nat
    <3>1. streak'.length \in Nat /\ breaker'.failures \in Nat
      BY <1>1, <2>2, Limits DEF StreakOK, BreakerOK, Breakers
    <3>2. failed = TRUE
      BY <1>3
    <3> QED
      BY <1>1, <3>1, <3>2
  <2>5. breaker'.failures <= streak'.length
    <3>1. CASE streak.failed = TRUE
      <4>1. breaker.failures <= streak.length
        BY <3>1 DEF BreakerInv, BreakerFollowsStreak
      <4>2. streak'.length = AtMost(Threshold + HalfOpenMax, streak.length + 1)
        BY <1>1, <2>4, <3>1
      <4> QED
        BY <1>2, <2>3, <4>1, <4>2, Limits DEF AtMost
    <3>2. CASE streak.failed = FALSE
      <4>1. breaker.failures = 0
        BY <1>2, <3>2 DEF BreakerInv, BreakerFollowsStreak
      <4>2. streak'.length = 1
        BY <1>1, <2>4, <3>2
      <4> QED
        BY <2>3, <4>1, <4>2, Limits DEF AtMost
    <3> QED
      BY <1>2, <3>1, <3>2
  <2>6. BreakerFollowsStreak'
    <3>1. breaker'.successes = 0
      BY <2>3 DEF BreakerInv, BreakerFollowsStreak
    <3> QED
      BY <2>4, <2>5, <3>1 DEF BreakerFollowsStreak
  <2>7. Follows
    BY <2>3, <2>4, <2>5, Limits DEF Follows
  <2> QED
    BY <1>1, <2>2, <2>6, <2>7 DEF BreakerInv
<1>4. CASE ~failed
  <2> DEFINE closes == breaker.state = "half-open" /\ breaker.successes + 1 >= HalfOpenMax
  <2>1. breaker' = RecordSuccess(breaker)
    BY <1>4 DEF Ends
  <2>2. BreakerOK'
    BY <2>1, SuccessFacts DEF BreakerInv, BreakerOK
  <2>3. /\ breaker'.failures = 0
        /\ breaker'.state = IF closes THEN "closed" ELSE breaker.state
        /\ breaker'.successes = IF closes THEN 0 ELSE IF breaker.state = "half-open"
                                THEN breaker.successes + 1 ELSE breaker.successes
    BY <2>1, SuccessFacts DEF BreakerInv
  <2>4. /\ streak'.length >= 1
        /\ breaker.state = "half-open" => breaker.successes + 1 <= streak'.length
    BY <1>1, <1>2, <1>4, Limits DEF BreakerInv, BreakerFollowsStreak, AtMost
  <2>5. BreakerFollowsStreak'
    BY <1>1, <1>2, <1>4, <2>3, <2>4, Limits
       DEF BreakerInv, BreakerFollowsStreak, StreakOK
  <2>6. Follows
    BY <1>1, <1>2, <1>4, <2>3, <2>4, Limits DEF Follows, StreakOK
  <2> QED
    BY <1>1, <2>2, <2>5, <2>6 DEF BreakerInv
<1> QED
  BY <1>3, <1>4

LEMMA NextBreaker ==
  ASSUME BreakerInv, [Next]_vars
  PROVE  BreakerInv' /\ [Follows]_vars
<1>1. ASSUME NEW c \in Calls, NEW t \in Offered, Call(c, t)
      PROVE  BreakerInv' /\ Follows
  <2>1. CASE Send(c, t)
    BY <2>1, Limits DEF Send, Executing, BreakerInv, BreakerOK, Breakers, StreakOK, BreakerFollowsStreak,
                        Follows
  <2>2. CASE UNCHANGED <<breaker, streak>>
    BY <2>2 DEF BreakerInv, BreakerOK, StreakOK, BreakerFollowsStreak, Follows
  <2> QED
    BY <1>1, <2>1, <2>2 DEF Call, RateLimited, Rejected, FailFast
<1>2. CASE UNCHANGED <<breaker, streak>>
  BY <1>2 DEF BreakerInv, BreakerOK, StreakOK, BreakerFollowsStreak, Follows
<1>3. ASSUME NEW c \in Calls, Answer(c) \/ Wake(c)
      PROVE  BreakerInv' /\ [Follows]_vars
  <2>1. \/ \E effects : \E failed \in BOOLEAN : Ends(c, effects, failed)
        \/ UNCHANGED <<breaker, streak>>
    BY <1>3 DEF Answer, Succeeds, Refuses, Fails, Wake
  <2>2. ASSUME NEW effects, NEW failed \in BOOLEAN, Ends(c, effects, failed)
        PROVE  BreakerInv' /\ Follows
    BY <2>2, EndedBreaker
  <2> QED
    BY <1>2, <2>1, <2>2
<1>4. CASE Tick
  BY <1>4, Limits DEF Tick, AtMost, BreakerInv, BreakerOK, Breakers, StreakOK, BreakerFollowsStreak,
                      Follows
<1> QED
  BY <1>1, <1>2, <1>3, <1>4 DEF Next, Turn, vars

-----------------------------------------------------------------------------
(* The theorems.                                                           *)

LEMMA NextIInv == IInv /\ [Next]_vars => IInv'
BY NextBuckets, NextCalls, NextBreaker DEF IInv

LEMMA Invariant == Spec => []IInv
BY InitIInv, NextIInv, PTL DEF Spec

\* The tokens and ages of the buckets, the breaker's counts and the attempts
\* stay within their limits: checkRateLimit never takes a token that is not
\* there, and executeWithRetry never sends more than MAX_RETRIES + 1 requests.
THEOREM TypeCorrect == Spec => []TypeOK
<1>1. IInv => TypeOK
  BY TypeSplit DEF IInv, CallsInv, BreakerInv
<1> QED
  BY <1>1, Invariant, PTL

\* In read-only mode no tool call leaves anything behind, with any number of
\* calls in flight and any of them retried: isWriteTool knows every tool whose
\* handler sends anything but a GET.
THEOREM ReadOnlyIsKept == Spec => []ReadOnlyWritesNothing
<1>1. IInv => ReadOnlyWritesNothing
  BY DEF IInv, CallsInv
<1> QED
  BY <1>1, Invariant, PTL

\* The circuit opens only after Threshold failed calls in a row and closes only
\* after HalfOpenMax good ones in a row, in whatever order the calls end.
THEOREM CircuitIsRight == Spec => CircuitFollowsTheCalls
<1>1. IInv /\ [Next]_vars => [Follows]_vars
  BY NextBreaker DEF IInv
<1>2. Spec => [][Follows]_vars
  BY <1>1, Invariant, PTL DEF Spec
<1> QED
  BY <1>2 DEF Follows, CircuitFollowsTheCalls
=============================================================================
