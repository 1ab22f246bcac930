------------------------------- MODULE Rtdb -------------------------------
(***************************************************************************)
(* The realtime database of one project: the server's tree, the broadcast  *)
(* of every write to the open sockets, and the dashboards that keep a      *)
(* replica of the tree (useRealtimeDb, realtimeDbSlice).                   *)
(*                                                                         *)
(* A dashboard writes by requests; the server answers each one, and sends  *)
(* it to every socket, the writer's own included.  Requests, answers,      *)
(* fetches and each socket travel on connections of their own, so that     *)
(* only the messages of one socket keep their order.                       *)
(***************************************************************************)
EXTENDS RtdbTree, FiniteSets

CONSTANTS
    Dashboards,
    Keys, Values,            \* what the users type as keys, each as the segments
                             \* its slashes make of it, and choose as values
    AppWrites,               \* the writes of other applications, through the SDK
    MaxDepth,                \* bound: segments of a path
    MaxWrites,               \* bound: writes begun, each user's at most one
    MaxFaults,               \* bound: outages, lost sockets and requests, expired tokens
    MaxEvents,               \* bound: writes and faults together
    WithListDeletes          \* whether users delete list elements

ASSUME RtdbAssumption ==
    {MaxDepth, MaxWrites, MaxFaults, MaxEvents} \subseteq Nat

VARIABLES
    up,         \* whether the server is reachable
    server,     \* the stored tree
    version,    \* number of writes applied to it
    registered, \* the sockets the ConnectionManager holds
    chan,       \* per client, messages on their way on its socket
    socket,     \* per dashboard, the state of useRealtimeDb's effect; resync
                \* says whether the socket's opening has read the tree again
    expired,    \* the dashboards whose id token has run out
    late,       \* those where it did so after the refresh for a connection, as history
    replica,    \* per dashboard, the tree it shows
    seen,       \* per dashboard, the last write its replica has, without a gap
    misled,     \* the dashboards that were sent a push which made a dict of an
                \* empty list, since they last read the tree, as history
    fetches,    \* per dashboard, the reads of the whole tree in flight
    writes,     \* the write requests in flight
    renames,    \* the renames begun, as history
    wrote,      \* the dashboards whose user has written, as history
    issued, faults \* the bounded counters

serverVars == <<up, server, version, registered, chan>>
replicaVars == <<replica, seen, misled, fetches>>
requestVars == <<writes, renames, wrote, issued>>
vars == <<serverVars, replicaVars, requestVars, faults, socket, expired, late>>

MayWrite == issued < MaxWrites /\ issued + faults < MaxEvents
MayFail == faults < MaxFaults /\ issued + faults < MaxEvents

Asked == [version |-> -1, tree |-> Absent]

Init ==
    /\ up = TRUE
    /\ server = Dict("a" :> Leaf("x"))
    /\ version = 0 /\ registered = {}
    /\ chan = [c \in Dashboards |-> <<>>]
    /\ socket = [d \in Dashboards |-> 
              [phase |-> "connecting", first |-> TRUE, refreshed |-> FALSE, resync |-> FALSE]]
    /\ expired = {} /\ late = {}
    /\ replica = [d \in Dashboards |-> EmptyDict]
    /\ seen = [d \in Dashboards |-> -1] /\ misled = {}
    /\ fetches = [d \in Dashboards |-> <<Asked>>]
    /\ writes = {} /\ renames = {} /\ wrote = {}
    /\ issued = 0 /\ faults = 0

---------------------------------------------------------------------------
(* What the tree view offers its user.                                     *)

RECURSIVE NodeAt(_, _)
NodeAt(node, path) ==
    IF path = <<>> THEN node ELSE NodeAt(GetChild(node, Head(path)), Tail(path))

ChildPaths(tree, path) ==
    LET node == NodeAt(tree, path)
    IN CASE IsDict(node) -> {Append(path, k) : k \in DOMAIN node.dict}
         [] IsList(node) -> {Append(path, i) : i \in {j \in DOMAIN Index : Index[j] < Len(node.list)}}
         [] OTHER -> {}

RECURSIVE PathsBelow(_, _)
PathsBelow(tree, path) ==
    ChildPaths(tree, path) \cup UNION {PathsBelow(tree, p) : p \in ChildPaths(tree, path)}

Put(path, v) == [type |-> "put", path |-> path, value |-> v]
Patch(path, v) == [type |-> "patch", path |-> path, value |-> v]
Delete(path) == [type |-> "delete", path |-> path, value |-> Null]
Push(path, key, v) == [type |-> "push", path |-> path, key |-> key, value |-> v]

\* A write as the server sends it to the sockets: a push as the put of its child.
Sent(m) == IF m.type = "push" THEN Put(Append(m.path, m.key), m.value) ELSE m

\* Whether a push makes a dict of an empty list on its way through a tree.
ThroughEmptyList(tree, m) ==
    m.type = "push" /\ \E i \in DOMAIN m.path : NodeAt(tree, SubSeq(m.path, 1, i)) = EmptyList

\* commitEditValue: a leaf gets a value of the chosen type.
EditValue(tree) ==
    {Put(p, v) : p \in {q \in PathsBelow(tree, <<>>) : ~IsContainer(NodeAt(tree, q))}, v \in Values}

\* addChild and RtdbAddKeyForm: a dict gets a key it does not show, a list
\* its next element.
AddChild(tree) ==
    LET under(p) == LET node == NodeAt(tree, p)
                    IN IF IsDict(node) THEN Keys \ {<<k>> : k \in DOMAIN node.dict}
                       ELSE {<<i>> : i \in {j \in DOMAIN Index : Index[j] = Len(node.list)}}
        containers == {p \in PathsBelow(tree, <<>>) \cup {<<>>} :
                          IsContainer(NodeAt(tree, p)) /\ Len(p) < MaxDepth}
    IN UNION {{Put(p \o k, v) : k \in under(p), v \in Values} : p \in containers}

DeletePath(tree) ==
    {Delete(p) : p \in {q \in PathsBelow(tree, <<>>) :
        WithListDeletes \/ IsDict(NodeAt(tree, Front(q)))}}

\* commitEditKey: only the keys of dicts can be edited, and only to one the
\* siblings shown do not have.  A slash in the new key is one of the path's.
Renames(tree) ==
    {[old |-> p, new |-> Front(p) \o k] :
        p \in {q \in PathsBelow(tree, <<>>) : IsDict(NodeAt(tree, Front(q)))},
        k \in Keys}
FreeRenames(tree) == {r \in Renames(tree) : r.new \notin ChildPaths(tree, Front(r.old))}

---------------------------------------------------------------------------
(* Requests of the dashboards.                                             *)

\* A request carries one write; rest is what its thunk chain sends after it.
Request(d, ms) ==
    [id |-> issued, by |-> d, m |-> Head(ms), rest |-> Tail(ms), answered |-> FALSE]

\* setPath, updatePath, removePath: the thunks putRtdbPath, patchRtdbPath and
\* deleteRtdbPath.
Write(d) ==
    /\ socket[d].phase \notin {"login", "left"} /\ MayWrite /\ d \notin wrote
    /\ \E m \in EditValue(replica[d]) \cup AddChild(replica[d]) \cup DeletePath(replica[d]) :
          writes' = writes \cup {Request(d, <<m>>)}
    /\ issued' = issued + 1 /\ wrote' = wrote \cup {d}
    /\ UNCHANGED <<serverVars, replicaVars, faults, renames, socket, expired, late>>


\* renamePath writes the value shown under the new key, and then removes the old one.
RenameSteps(r, v) == <<Put(r.new, v), Delete(r.old)>>

RenamePath(d) ==
    /\ socket[d].phase \notin {"login", "left"} /\ MayWrite /\ d \notin wrote
    /\ \E r \in FreeRenames(replica[d]) :
          LET v == NodeAt(replica[d], r.old)
          IN /\ writes' = writes \cup {Request(d, RenameSteps(r, v))}
             /\ renames' = renames \cup
                    {[id |-> issued, path |-> r, value |-> v,
                      disturbed |-> NodeAt(server, r.old) # v]}
    /\ issued' = issued + 1 /\ wrote' = wrote \cup {d}
    /\ UNCHANGED <<serverVars, replicaVars, faults, socket, expired, late>>

\* Whether one of two paths leads to the other.
Touches(p, q) == IsPrefix(p, q) \/ IsPrefix(q, p)

\* The renames another write interferes with.
Disturbed(m, id) ==
    {IF r.id # id /\ (Touches(m.path, r.path.old) \/ Touches(m.path, r.path.new))
     THEN [r EXCEPT !.disturbed = TRUE] ELSE r : r \in renames}

Message(m) == [n |-> version + 1, m |-> Sent(m), coerced |-> ThroughEmptyList(server, m)]

\* Under the project's lock the write is applied to the stored tree; the task
\* that broadcasts it is the next thing to run, and sends it to every socket.
Commit(m) ==
    /\ server' = ServerApply(server, m)
    /\ version' = version + 1
    /\ chan' = [c \in Dashboards |-> IF c \in registered THEN Append(chan[c], Message(m)) ELSE chan[c]]

\* put_rtdb, patch_rtdb, delete_rtdb.  authFetch renews the id token on a 401.
ServeWrite(w) ==
    /\ up /\ ~w.answered
    /\ expired' = expired \ {w.by}
    /\ IF ServerApply(server, w.m) = Conflict
       THEN /\ writes' = writes \ {w}
            /\ UNCHANGED <<server, version, chan, renames>>
       ELSE /\ Commit(w.m)
            /\ writes' = (writes \ {w}) \cup {[w EXCEPT !.answered = TRUE]}
            /\ renames' = Disturbed(w.m, w.id)
    /\ UNCHANGED <<up, registered, replicaVars, wrote, issued, faults, socket, late>>

\* The thunk's fulfilled case, and renamePath's then.
ReceiveAnswer(w) ==
    /\ w.answered
    /\ replica' = [replica EXCEPT ![w.by] = ReplicaApply(@, w.m)]
    /\ writes' = (writes \ {w}) \cup
          IF w.rest = <<>> THEN {}
          ELSE {[w EXCEPT !.m = Head(w.rest), !.rest = Tail(w.rest), !.answered = FALSE]}
    /\ UNCHANGED <<serverVars, seen, misled, fetches, renames, wrote, issued, faults, socket, expired, late>>

\* The request or its answer is lost: the thunk is rejected.
LoseWrite(w) ==
    /\ MayFail
    /\ faults' = faults + 1
    /\ writes' = writes \ {w}
    /\ UNCHANGED <<serverVars, replicaVars, renames, wrote, issued, socket, expired, late>>

\* The key of a push is a new one.
Generated(m) == m.type = "push" => NodeAt(server, Append(m.path, m.key)) = Absent

\* A write of another application: set, update, remove and push.
AppWrite ==
    /\ up /\ MayWrite
    /\ \E m \in AppWrites :
          /\ ServerApply(server, m) # Conflict /\ Generated(m)
          /\ Commit(m)
          /\ renames' = Disturbed(Sent(m), -1)
    /\ issued' = issued + 1
    /\ UNCHANGED <<up, registered, replicaVars, writes, wrote, faults, socket, expired, late>>

---------------------------------------------------------------------------
(* Sockets.                                                                *)

\* What the replica has without a gap after the message n.
Seen(have, n) == IF n = have + 1 THEN n ELSE have

\* socket.onmessage, rtdbRemoteUpdate.
Receive(d) ==
    /\ socket[d].phase = "open" /\ chan[d] # <<>>
    /\ replica' = [replica EXCEPT ![d] = ReplicaApply(@, Head(chan[d]).m)]
    /\ misled' = IF Head(chan[d]).coerced THEN misled \cup {d} ELSE misled
    /\ seen' = [seen EXCEPT ![d] = Seen(@, Head(chan[d]).n)]
    /\ chan' = [chan EXCEPT ![d] = Tail(@)]
    /\ UNCHANGED <<up, server, version, registered, fetches, requestVars, faults,
                   socket, expired, late>>

\* A bug: the tokens are never refreshed.
AfterRejectionStuck(s) == [s EXCEPT !.phase = "waiting", !.refreshed = TRUE]

\* A socket that closes without having opened leads to one refresh of the
\* tokens, and to a timer after that.
AfterRejection(s) == IF s.refreshed THEN [s EXCEPT !.phase = "waiting"]
                     ELSE [s EXCEPT !.phase = "refreshing", !.refreshed = TRUE]

\* connect: the server rejects a handshake with an expired token and accepts
\* any other.  socket.onopen: every connection but the first reads the tree
\* again; socket.onclose, when the socket never opened.
Connect(d) ==
    /\ socket[d].phase = "connecting"
    /\ IF up /\ d \notin expired
       THEN /\ registered' = registered \cup {d}
            /\ socket' = [socket EXCEPT ![d] = 
                  [phase |-> "open", first |-> FALSE, refreshed |-> FALSE, resync |-> ~@.first]]
            /\ fetches' = [fetches EXCEPT ![d] = IF socket[d].first THEN @ ELSE Append(@, Asked)]
            /\ late' = late \ {d}
       ELSE /\ socket' = [socket EXCEPT ![d] = AfterRejection(@)]
            /\ UNCHANGED <<registered, fetches, late>>
    /\ UNCHANGED <<up, server, version, chan, replica, seen, misled, requestVars, faults, expired>>

\* socket.onclose of a socket that was open.
OnClose(d) ==
    /\ socket[d].phase = "broken"
    /\ socket' = [socket EXCEPT ![d].phase = "waiting"]
    /\ UNCHANGED <<serverVars, replicaVars, requestVars, faults, expired, late>>

\* refreshTokens: where it fails, the page goes to /login/.
Refresh(d) ==
    /\ socket[d].phase = "refreshing"
    /\ socket' = [socket EXCEPT ![d].phase = IF up THEN "waiting" ELSE "login"]
    /\ expired' = IF up THEN expired \ {d} ELSE expired
    /\ UNCHANGED <<serverVars, replicaVars, requestVars, faults, late>>

\* The timer's connect.
Retry(d) ==
    /\ socket[d].phase = "waiting"
    /\ socket' = [socket EXCEPT ![d].phase = "connecting"]
    /\ UNCHANGED <<serverVars, replicaVars, requestVars, faults, expired, late>>

\* The effect's cleanup: the user leaves the page.
Leave(d) ==
    /\ socket[d].phase \notin {"login", "left"}
    /\ socket' = [socket EXCEPT ![d].phase = "left"]
    /\ registered' = registered \ {d}
    /\ chan' = [chan EXCEPT ![d] = <<>>]
    /\ UNCHANGED <<up, server, version, replicaVars, requestVars, faults, expired, late>>

\* get_rtdb reads the stored tree.
ServeFetch(d) ==
    /\ up
    /\ \E i \in DOMAIN fetches[d] :
          /\ fetches[d][i] = Asked
          /\ fetches' = [fetches EXCEPT ![d][i] = [version |-> version, tree |-> server]]
    /\ expired' = expired \ {d}
    /\ UNCHANGED <<serverVars, replica, seen, misled, requestVars, faults, socket, late>>

\* fetchRtdb.fulfilled replaces the replica, whatever came in meanwhile.
ReceiveFetch(d) ==
    /\ \E i \in DOMAIN fetches[d] :
          /\ fetches[d][i] # Asked
          /\ replica' = [replica EXCEPT ![d] = fetches[d][i].tree]
          /\ seen' = [seen EXCEPT ![d] = fetches[d][i].version]
          /\ misled' = misled \ {d}
          /\ fetches' = [fetches EXCEPT ![d] = RemoveAt(@, i)]
    /\ UNCHANGED <<serverVars, requestVars, faults, socket, expired, late>>

\* fetchRtdb.rejected keeps the replica.
FetchFails(d) ==
    /\ ~up
    /\ \E i \in DOMAIN fetches[d] :
          /\ fetches[d][i] = Asked
          /\ fetches' = [fetches EXCEPT ![d] = RemoveAt(@, i)]
    /\ UNCHANGED <<serverVars, replica, seen, misled, requestVars, faults, socket, expired, late>>

---------------------------------------------------------------------------
(* Faults.                                                                 *)

BrokenPhase(phase) == IF phase = "open" THEN "broken" ELSE phase

\* The server stops: it forgets its sockets and keeps the tree.
Outage ==
    /\ up /\ MayFail
    /\ up' = FALSE /\ faults' = faults + 1
    /\ registered' = {}
    /\ socket' = [d \in Dashboards |-> [socket[d] EXCEPT !.phase = BrokenPhase(@)]]
    /\ chan' = [c \in Dashboards |-> <<>>]
    /\ UNCHANGED <<server, version, replicaVars, requestVars, expired, late>>

Restart ==
    /\ ~up /\ up' = TRUE
    /\ UNCHANGED <<server, version, registered, chan, replicaVars, requestVars, faults,
                   socket, expired, late>>

\* One socket is lost, and what travels on it.
Drop(c) ==
    /\ c \in registered /\ MayFail
    /\ faults' = faults + 1
    /\ registered' = registered \ {c}
    /\ chan' = [chan EXCEPT ![c] = <<>>]
    /\ socket' = [socket EXCEPT ![c].phase = BrokenPhase(@)]
    /\ UNCHANGED <<up, server, version, replicaVars, requestVars, expired, late>>

\* The id token lives for an hour: it runs out under an open socket or in an
\* outage, not in the moments between a refresh and a handshake.
Expire(d) ==
    /\ d \notin expired /\ MayFail
    /\ socket[d].phase = "open" \/ ~up
    /\ expired' = expired \cup {d}
    /\ late' = IF socket[d].refreshed THEN late \cup {d} ELSE late
    /\ faults' = faults + 1
    /\ UNCHANGED <<serverVars, replicaVars, requestVars, socket>>

---------------------------------------------------------------------------

RequestStep ==
    \/ \E d \in Dashboards : Write(d) \/ RenamePath(d)
    \/ \E w \in writes : ServeWrite(w) \/ ReceiveAnswer(w) \/ LoseWrite(w)
    \/ AppWrite

\* What the browser, the network and the server do by themselves.
DashboardStep(d) ==
    \/ Connect(d) \/ OnClose(d) \/ Refresh(d) \/ Retry(d)
    \/ Receive(d) \/ ServeFetch(d) \/ ReceiveFetch(d) \/ FetchFails(d)

Fault == Outage \/ (\E c \in Dashboards : Drop(c)) \/ (\E d \in Dashboards : Expire(d))

Next ==
    \/ RequestStep
    \/ \E d \in Dashboards : DashboardStep(d) \/ Leave(d)
    \/ Fault
    \/ Restart

\* Timers fire, sockets and requests get an answer, and an outage ends.  Users
\* and applications need not write, leave or unsubscribe.
Fairness ==
    /\ WF_vars(Restart)
    /\ \A d \in Dashboards :
          /\ WF_vars(Connect(d)) /\ WF_vars(OnClose(d))
          /\ WF_vars(Refresh(d)) /\ WF_vars(Retry(d)) /\ WF_vars(Receive(d))
          /\ WF_vars(ServeFetch(d) \/ ReceiveFetch(d) \/ FetchFails(d))

Spec == Init /\ [][Next]_vars /\ Fairness

---------------------------------------------------------------------------

Phases == {"connecting", "open", "broken", "refreshing", "waiting", "login", "left"}

TypeOK ==
    /\ IsDict(server)
    /\ version \in Nat /\ issued \in 0..MaxWrites
    /\ registered \subseteq Dashboards
    /\ \A d \in Dashboards :
          /\ socket[d] \in [phase : Phases, first : BOOLEAN, refreshed : BOOLEAN, resync : BOOLEAN]
          /\ IsDict(replica[d]) /\ seen[d] \in -1..version /\ Len(fetches[d]) <= 3
    /\ \A c \in Dashboards : \A i \in DOMAIN chan[c] : chan[c][i].n \in 1..version

\* Every write that an application or a user could send now.
Sendable ==
    EditValue(server) \cup AddChild(server) \cup DeletePath(server) \cup AppWrites
        \cup {Delete(<<"b", i>>) : i \in {"0", "b"}}
        \cup {Put(<<"b", i>>, Leaf("x")) : i \in {"0", "1", "b"}}

\* "These mirror the backend's array-aware path navigation"
\* (realtimeDbSlice.ts:53): on any tree the server reaches, either the server
\* refuses a write or a replica of that tree is changed as the tree itself.
\* No run checks it: the code does otherwise.  A push makes a dict of an empty
\* list, which its broadcast, the put of a child, does not do to a replica.
WritesMirrorTheServer ==
    \A m \in Sendable :
        ServerApply(server, m) \in {Conflict, ReplicaApply(server, Sent(m))}


\* Nothing the dashboard d waits for could still change its replica.
Quiet(d) ==
    /\ socket[d].phase = "open" /\ chan[d] = <<>> /\ fetches[d] = <<>>
    /\ \A w \in writes : w.by # d

\* A dashboard that only watches, and that has missed no message since it read
\* the tree, shows the server's tree once everything has arrived: messages
\* older than the tree it read are applied to it again, and do no harm as long
\* as nobody deletes list elements and no push makes a dict of an empty list.
WatchersConverge ==
    \A d \in Dashboards \ (wrote \cup misled) :
        Quiet(d) /\ seen[d] = version => replica[d] = server

\* "if the rename is interrupted, the value survives (under the new key)
\* instead of being lost" (useRealtimeDb.ts:107): unless another write comes
\* between, the server has the renamed value under one of the two keys.  No
\* run checks it: the code does otherwise.  The new name of "a" may be "a/b",
\* which is written below "a" and removed with it.
RenamesLoseNothing ==
    \A r \in renames :
        \/ r.disturbed
        \/ NodeAt(server, r.path.old) = r.value
        \/ NodeAt(server, r.path.new) = r.value


\* "refresh the token once and retry immediately, rather than repeatedly
\* retrying against a cookie that's never going to work" (useRealtimeDb.ts:33):
\* every dashboard gets its live updates back, or its user ends at the login
\* page or leaves.  No run checks it: the code does otherwise.  A token that
\* runs out after the refresh and before the next connection is not renewed.
DashboardsReconnect ==
    \A d \in Dashboards : []<>(socket[d].phase \in {"open", "login", "left"})

\* The same, unless the dashboard's token runs out, for good, after it was
\* renewed for a connection that never opened.  Outages, lost sockets and tokens
\* that run out under an open socket all end well, however they follow on each
\* other.
DashboardsReconnectOrExpireAgain ==
    \A d \in Dashboards :
        \/ []<>(socket[d].phase \in {"open", "login", "left"})
        \/ <>[](d \in expired \cap late)

\* "re-fetch the full tree to resync instead of silently carrying on with
\* stale local state" (useRealtimeDb.ts:57): a dashboard that has reconnected
\* and has nothing left to receive shows the server's tree.  No run checks it:
\* the code does otherwise.  An earlier read may be answered after the one that
\* follows the reconnection, and replaces what that one brought.
ReconnectedAgree ==
    \A d \in Dashboards \ (wrote \cup misled) :
        Quiet(d) /\ socket[d].resync => replica[d] = server
=============================================================================
