------------------------------- MODULE Radix -------------------------------
(***************************************************************************)
(* The radix trie of router/ioh_radix.c, with the walks over it of         *)
(* router/ioh_route_inspect.c, as operators on trees.                      *)
(*                                                                         *)
(* A pattern or a path is the sequence of what stands between its slashes: *)
(* "/ab/" is ab and the empty segment. The text of a segment stays a       *)
(* sequence of letters, because nodes share and split prefixes. A node     *)
(* holds its children as a set: no two static children begin with the same *)
(* letter and there is one child at most of each other type, so that the   *)
(* order the code keeps them in decides nothing but the order of the types.*)
(* Allocation does not fail here.                                          *)
(***************************************************************************)
EXTENDS Integers, SequencesExt, FiniteSetsExt

CONSTANTS
  NoHandler,   \* a node without a route
  NoMeta,      \* a route without metadata
  MaxParams    \* IOH_MAX_PATH_PARAMS

Seg(type, text) == [type |-> type, text |-> text]
EmptySeg        == Seg("STATIC", <<>>)

(* ioh_radix_node_create.                                                  *)
NewNode(type, text) ==
  [type |-> type, text |-> text, handler |-> NoHandler, meta |-> NoMeta, children |-> {}]

EmptyTree == NewNode("STATIC", <<>>)

ChildrenOf(node, type) == {c \in node.children : c.type = type}
Common(a, b)           == Len(LongestCommonPrefix({a, b}))
Suffix(text, n)        == SubSeq(text, n + 1, Len(text))

(* A result of an insertion below a node: "old" is the set of children the *)
(* new child takes the place of.                                           *)
Result(rc, node) == [rc |-> rc, node |-> node]
Swap(node, old, res) ==
  Result(res.rc, [node EXCEPT !.children = (@ \ old) \cup {res.node}])
-----------------------------------------------------------------------------
(* The pattern ends at this node.                                          *)
SetRoute(node, h) ==
  IF node.handler # NoHandler THEN Result("EEXIST", node)
  ELSE Result("OK", [node EXCEPT !.handler = h])

(* split_static_node: the first n letters become a node above the child.   *)
SplitStaticNode_fault(child, n) ==
  [NewNode("STATIC", SubSeq(child.text, 1, n)) EXCEPT
     !.children = {[child EXCEPT !.text = Suffix(@, n), !.children = {}]}]

SplitStaticNode(child, n) ==
  [NewNode("STATIC", SubSeq(child.text, 1, n)) EXCEPT
     !.children = {[child EXCEPT !.text = Suffix(@, n)]}]

RECURSIVE InsertRecursive(_, _, _)
RECURSIVE InsertStaticSegment(_, _, _, _)

(* insert_static_segment: into the child that begins with the same letter, *)
(* which is split where the texts part, or into a new child. What is left  *)
(* of the text goes below it.                                              *)
InsertStaticSegment(node, text, rest, h) ==
  LET near == {c \in ChildrenOf(node, "STATIC") : Common(text, c.text) > 0}
  IN  IF near = {} THEN Swap(node, {}, InsertRecursive(NewNode("STATIC", text), rest, h))
      ELSE LET c    == CHOOSE x \in near : TRUE
               n    == Common(text, c.text)
               into == IF n < Len(c.text) THEN SplitStaticNode(c, n) ELSE c
           IN  Swap(node, {c}, IF n = Len(text) THEN InsertRecursive(into, rest, h)
                               ELSE InsertStaticSegment(into, Suffix(text, n), rest, h))

(* A wildcard is the last segment, and has a name.                         *)
InsertWildcard(node, pattern, h) ==
  LET name == Head(pattern).text
      old  == ChildrenOf(node, "WILDCARD")
  IN  CASE Len(pattern) > 1 \/ name = <<>>       -> Result("EINVAL", node)
        [] Len(pattern) = 1 /\ name # <<>> /\ old = {} ->
             Swap(node, {}, SetRoute(NewNode("WILDCARD", name), h))
        [] OTHER -> LET c == CHOOSE x \in old : TRUE
                    IN  IF c.text # name THEN Result("EEXIST", node)
                        ELSE Swap(node, {c}, SetRoute(c, h))

(* A node has one parameter, whose name all routes below it agree on. A    *)
(* node made for it stays although the rest of the pattern is refused.     *)
InsertParam(node, pattern, h) ==
  LET name == Head(pattern).text
      old  == ChildrenOf(node, "PARAM")
  IN  CASE name = <<>> -> Result("EINVAL", node)
        [] name # <<>> /\ old = {} ->
             Swap(node, {}, InsertRecursive(NewNode("PARAM", name), Tail(pattern), h))
        [] OTHER -> LET c == CHOOSE x \in old : TRUE
                    IN  IF c.text # name THEN Result("EEXIST", node)
                        ELSE Swap(node, {c}, InsertRecursive(c, Tail(pattern), h))

(* insert_recursive: an empty segment ends the pattern.                    *)
InsertRecursive(node, pattern, h) ==
  CASE pattern = <<>> \/ (pattern # <<>> /\ Head(pattern) = EmptySeg) -> SetRoute(node, h)
    [] pattern # <<>> /\ Head(pattern).type = "WILDCARD" -> InsertWildcard(node, pattern, h)
    [] pattern # <<>> /\ Head(pattern).type = "PARAM"    -> InsertParam(node, pattern, h)
    [] OTHER -> InsertStaticSegment(node, Head(pattern).text, Tail(pattern), h)

RadixInsert(tree, pattern, h) == InsertRecursive(tree, pattern, h)
-----------------------------------------------------------------------------
Miss            == [found |-> FALSE]
Hit(node, caps) == [found |-> TRUE, handler |-> node.handler, meta |-> node.meta, params |-> caps]

RECURSIVE LookupRecursive(_, _, _)
RECURSIVE LookupStatic(_, _, _, _)

(* lookup_static: the child whose text the segment begins with, and below  *)
(* it with what is left of the segment.                                    *)
LookupStatic(node, text, rest, caps) ==
  LET near == {c \in ChildrenOf(node, "STATIC") : IsPrefix(c.text, text)}
  IN  IF near = {} THEN Miss
      ELSE LET c == CHOOSE x \in near : TRUE
           IN  IF c.text = text THEN LookupRecursive(c, rest, caps)
               ELSE LookupStatic(c, Suffix(text, Len(c.text)), rest, caps)

(* lookup_recursive: static, then parameter, then wildcard. A parameter    *)
(* captures the segment, a wildcard all that is left of the path.          *)
LookupRecursive(node, path, caps) ==
  LET params == ChildrenOf(node, "PARAM")
      wild   == {c \in ChildrenOf(node, "WILDCARD") : c.handler # NoHandler}
      room   == Len(caps) < MaxParams
      take(c, value) == Append(caps, [name |-> c.text, value |-> value])
      static == LookupStatic(node, Head(path), Tail(path), caps)
      param  == LET c == CHOOSE x \in params : TRUE
                IN  IF params # {} /\ room
                      THEN LookupRecursive(c, Tail(path), take(c, <<Head(path)>>)) ELSE Miss
  IN  CASE path = <<>> -> IF node.handler # NoHandler THEN Hit(node, caps) ELSE Miss
        [] path # <<>> /\ static.found -> static
        [] path # <<>> /\ ~static.found /\ param.found -> param
        [] OTHER -> LET c == CHOOSE x \in wild : TRUE
                    IN  IF wild # {} /\ room THEN Hit(c, take(c, path)) ELSE Miss

RadixLookup(tree, path) == LookupRecursive(tree, path, <<>>)
-----------------------------------------------------------------------------
RECURSIVE WalkNode(_, _)
RECURSIVE CountNode(_)
RECURSIVE FindAndSetMeta(_, _, _)

(* walk_node: what the callback is told, with the pattern put together     *)
(* again from one segment per node.                                        *)
WalkNode_fault(node, pattern) ==
  UNION {WalkNode(c, Append(pattern, Seg(c.type, c.text))) : c \in node.children}
  \cup IF node.handler = NoHandler \/ node.children # {} THEN {}
       ELSE {[pattern |-> pattern, handler |-> node.handler, meta |-> node.meta]}

WalkNode(node, pattern) ==
  UNION {WalkNode(c, Append(pattern, Seg(c.type, c.text))) : c \in node.children}
  \cup IF node.handler = NoHandler THEN {}
       ELSE {[pattern |-> pattern, handler |-> node.handler, meta |-> node.meta]}

(* count_node.                                                             *)
CountNode(node) ==
  (IF node.handler = NoHandler THEN 0 ELSE 1) + MapThenSumSet(CountNode, node.children)

(* find_and_set_meta: a child has the type and the whole text of the       *)
(* segment; prefixes that were split are not put together.                 *)
FindAndSetMeta(node, pattern, meta) ==
  LET last == pattern = <<>> \/ (pattern # <<>> /\ Head(pattern) = EmptySeg)
      hit  == {c \in node.children : Seg(c.type, c.text) = Head(pattern)}
  IN  CASE last -> IF node.handler = NoHandler THEN Result("ENOENT", node)
                   ELSE Result("OK", [node EXCEPT !.meta = meta])
        [] ~last /\ hit = {} -> Result("ENOENT", node)
        [] OTHER -> LET c == CHOOSE x \in hit : TRUE
                    IN  Swap(node, {c}, FindAndSetMeta(c, IF c.type = "WILDCARD" THEN <<>>
                                                          ELSE Tail(pattern), meta))
=============================================================================
