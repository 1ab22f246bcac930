---------------------------- MODULE RtdbTree ----------------------------
(***************************************************************************)
(* The JSON trees of the realtime database, and the two implementations   *)
(* of writing at a path: the server's (api/utils/rtdb_tree.py) and the     *)
(* dashboard's (redux/realtimeDbSlice.ts), which must mirror it for a      *)
(* replica fed with the server's broadcasts to stay a replica.             *)
(*                                                                         *)
(* A node is a leaf, a dict (a function on its keys) or a list.  A path is *)
(* a sequence of segments; a segment is a string, and only the strings in  *)
(* Index read as list indices.                                             *)
(***************************************************************************)
EXTENDS Integers, SequencesExt

Leaf(v) == [leaf |-> v]
Dict(f) == [dict |-> f]
List(s) == [list |-> s]

EmptyDict == Dict(<<>>)
EmptyList == List(<<>>)
Null == Leaf("null")

IsDict(n) == DOMAIN n = {"dict"}
IsList(n) == DOMAIN n = {"list"}
IsContainer(n) == DOMAIN n # {"leaf"}

\* The digit strings, which the code turns into numbers.
Index == ("0" :> 0) @@ ("1" :> 1) @@ ("2" :> 2)
IsIndex(seg) == seg \in DOMAIN Index

\* What reading an absent child gives: None in Python, undefined in TypeScript.
Absent == Leaf("absent")

\* What the server answers a write it refuses with.
Conflict == Leaf("conflict")

WithKey(f, k, v) == (k :> v) @@ f
WithoutKey(f, k) == [j \in DOMAIN f \ {k} |-> f[j]]
Merged(f, g) == g @@ f

---------------------------------------------------------------------------
(* The server.                                                             *)

ServerChild(node, seg) ==
    IF IsDict(node) /\ seg \in DOMAIN node.dict THEN node.dict[seg]
    ELSE IF IsList(node) /\ IsIndex(seg) /\ Index[seg] < Len(node.list)
         THEN node.list[Index[seg] + 1]
         ELSE Absent

\* Writing past the end of a list fills the gap with nulls; a key that is no
\* index is refused on a list.
ServerWithChild(node, seg, child) ==
    IF IsDict(node) THEN Dict(WithKey(node.dict, seg, child))
    ELSE IF ~IsIndex(seg) THEN Conflict
    ELSE IF Index[seg] < Len(node.list)
         THEN List([node.list EXCEPT ![Index[seg] + 1] = child])
         ELSE List(node.list \o [i \in 1..(Index[seg] - Len(node.list)) |-> Null] \o <<child>>)

\* The walk to the parent: missing nodes and leaves on the way become dicts.
ServerInto(node, seg) ==
    LET next == ServerChild(node, seg)
    IN IF IsContainer(next) THEN next ELSE EmptyDict

RECURSIVE ServerSetIn(_, _, _)
ServerSetIn(node, path, v) ==
    LET child == IF Len(path) = 1 THEN v
                 ELSE ServerSetIn(ServerInto(node, Head(path)), Tail(path), v)
    IN IF Len(path) > 1 /\ child = Conflict THEN Conflict
       ELSE ServerWithChild(node, Head(path), child)

RtdbApplySet(tree, path, v) ==
    IF path # <<>> THEN ServerSetIn(tree, path, v)
    ELSE IF IsDict(v) THEN v ELSE Conflict

RECURSIVE RtdbApplyUpdate(_, _, _)
RtdbApplyUpdate(node, path, v) ==
    IF path = <<>>
    THEN IF IsDict(node) THEN Dict(Merged(node.dict, v.dict)) ELSE Conflict
    ELSE LET child == RtdbApplyUpdate(ServerInto(node, Head(path)), Tail(path), v)
         IN IF child = Conflict THEN Conflict ELSE ServerWithChild(node, Head(path), child)

\* A delete creates nothing on its way: where the path does not lead, the
\* tree stays as it is.
RECURSIVE RtdbApplyDelete(_, _)
RtdbApplyDelete(node, path) ==
    IF path = <<>> THEN EmptyDict
    ELSE LET seg == Head(path)
             child == ServerChild(node, seg)
         IN IF child = Absent THEN node
            ELSE IF Len(path) > 1
                 THEN ServerWithChild(node, seg, RtdbApplyDelete(child, Tail(path)))
            ELSE IF IsDict(node) THEN Dict(WithoutKey(node.dict, seg))
            ELSE List(RemoveAt(node.list, Index[seg] + 1))

\* A push adds a child under a generated key.  On its way missing nodes, nulls
\* and empty lists become dicts; any other leaf or list refuses it.
RECURSIVE RtdbApplyPush(_, _, _, _)
RtdbApplyPush(node, path, key, v) ==
    IF path = <<>> THEN Dict(WithKey(node.dict, key, v))
    ELSE LET next == ServerChild(node, Head(path))
             into == IF next \in {Absent, Null, EmptyList} THEN EmptyDict ELSE next
             child == RtdbApplyPush(into, Tail(path), key, v)
         IN IF ~IsDict(into) \/ child = Conflict THEN Conflict
            ELSE ServerWithChild(node, Head(path), child)

\* The server's tree after the write m, or Conflict.
ServerApply(tree, m) ==
    CASE m.type = "put" -> RtdbApplySet(tree, m.path, m.value)
      [] m.type = "patch" -> RtdbApplyUpdate(tree, m.path, m.value)
      [] m.type = "push" -> RtdbApplyPush(tree, m.path, m.key, m.value)
      [] m.type = "delete" -> RtdbApplyDelete(tree, m.path)

---------------------------------------------------------------------------
(* The dashboard.                                                          *)

GetChild(node, seg) ==
    CASE IsList(node) -> IF IsIndex(seg) /\ Index[seg] < Len(node.list)
                         THEN node.list[Index[seg] + 1] ELSE Absent
      [] IsDict(node) -> IF seg \in DOMAIN node.dict THEN node.dict[seg] ELSE Absent
      [] OTHER -> Absent


\* setChild ignores a key that is no index of a list, where the server refuses it.
SetChild(node, seg, child) ==
    IF IsDict(node) THEN Dict(WithKey(node.dict, seg, child))
    ELSE IF ~IsIndex(seg) THEN node
    ELSE IF Index[seg] < Len(node.list)
         THEN List([node.list EXCEPT ![Index[seg] + 1] = child])
         ELSE List(node.list \o [i \in 1..(Index[seg] - Len(node.list)) |-> Null] \o <<child>>)

DeleteChild(node, seg) ==
    IF IsDict(node) THEN Dict(WithoutKey(node.dict, seg))
    ELSE IF IsIndex(seg) /\ Index[seg] < Len(node.list)
         THEN List(RemoveAt(node.list, Index[seg] + 1))
         ELSE node

Cloned(existing) == IF IsContainer(existing) THEN existing ELSE EmptyDict

RECURSIVE SetFrom(_, _, _)
SetFrom(node, path, v) ==
    SetChild(node, Head(path),
             IF Len(path) = 1 THEN v
             ELSE SetFrom(Cloned(GetChild(node, Head(path))), Tail(path), v))

SetAtPath(tree, path, v) ==
    IF path # <<>> THEN SetFrom(tree, path, v) ELSE IF IsContainer(v) THEN v ELSE EmptyDict

RECURSIVE PatchAtPath(_, _, _)
PatchAtPath(node, path, v) ==
    IF path = <<>>
    THEN IF IsList(node) THEN node ELSE Dict(Merged(node.dict, v.dict))
    ELSE SetChild(node, Head(path),
                  PatchAtPath(Cloned(GetChild(node, Head(path))), Tail(path), v))

RECURSIVE DeleteAtPath(_, _)
DeleteAtPath(node, path) ==
    IF path = <<>> THEN EmptyDict
    ELSE IF Len(path) = 1 THEN DeleteChild(node, Head(path))
    ELSE LET existing == GetChild(node, Head(path))
         IN IF IsContainer(existing)
            THEN SetChild(node, Head(path), DeleteAtPath(existing, Tail(path)))
            ELSE node

\* A bug: the members that a patch does not name are dropped.
ReplicaApplyReplacing(tree, m) ==
    IF m.type = "delete" THEN DeleteAtPath(tree, m.path) ELSE SetAtPath(tree, m.path, m.value)

\* The replica after the write m (rtdbRemoteUpdate, and the thunks' fulfilled cases).
ReplicaApply(tree, m) ==
    CASE m.type = "put" -> SetAtPath(tree, m.path, m.value)
      [] m.type = "patch" -> PatchAtPath(tree, m.path, m.value)
      [] m.type = "delete" -> DeleteAtPath(tree, m.path)

=============================================================================
