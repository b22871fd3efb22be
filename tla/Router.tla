------------------------------- MODULE Router -------------------------------
(***************************************************************************)
(* The router (router/ioh_router.c), the route groups                      *)
(* (router/ioh_route_group.c) and the introspection of routes              *)
(* (router/ioh_route_inspect.c) over one radix trie per method.            *)
(*                                                                         *)
(* The actions are what an application does while it sets its routes up;   *)
(* dispatch changes nothing and is an operator. The handler of a route is  *)
(* the method and the pattern it was registered with.                      *)
(***************************************************************************)
EXTENDS Radix

CONSTANTS
  Methods,        \* of ioh_method_t, with "GET"
  Patterns,       \* the patterns registered, on the router or on a group
  GroupPrefixes,  \* the prefixes of groups
  RawPaths,       \* the paths requested, before normalisation
  Metas,          \* metadata attached to routes
  MaxSegments,    \* 256, the segments a normalised path has at most
  ParamStorage,   \* IOH_MAX_PARAM_STORAGE
  MaxSetup        \* bound: routes registered or refused, and groups made

VARIABLES
  trees,     \* r->trees
  groups,    \* the groups: full prefix and parent, 0 for the router
  routes,    \* history: the routes whose registration returned 0
  refused,   \* history: those whose registration did not
  rstate     \* "none", "up" or "gone"

routerVars == <<trees, groups, routes, refused, rstate>>

RouterInit ==
  /\ trees = [m \in Methods |-> EmptyTree]
  /\ groups = <<>> /\ routes = {} /\ refused = {} /\ rstate = "none"

(* ioh_router_create.                                                      *)
RouterCreate ==
  /\ rstate = "none" /\ rstate' \in {"up", "gone"}
  /\ UNCHANGED <<trees, groups, routes, refused>>

MoreSetup == rstate = "up" /\ Cardinality(routes) + Cardinality(refused) + Len(groups) < MaxSetup
-----------------------------------------------------------------------------
(* router_add_route, by way of every registration function. What a refused *)
(* insertion has put into the trie stays there.                            *)
AddRoute(m, pattern) ==
  LET route == [method |-> m, pattern |-> pattern]
      res   == RadixInsert(trees[m], pattern, route)
  IN  /\ MoreSetup
      /\ trees' = [trees EXCEPT ![m] = res.node]
      /\ IF res.rc = "OK"
           THEN routes' = routes \cup {route} /\ UNCHANGED refused
           ELSE refused' = refused \cup {route} /\ UNCHANGED routes
      /\ UNCHANGED <<groups, rstate>>

(* ioh_router_group and ioh_group_subgroup: the prefix of a group is its   *)
(* parent's and its own.                                                   *)
MakeGroup(parent, prefix) ==
  /\ MoreSetup
  /\ groups' = Append(groups, [parent |-> parent,
                 prefix |-> IF parent = 0 THEN prefix ELSE groups[parent].prefix \o prefix])
  /\ UNCHANGED <<trees, routes, refused, rstate>>

(* build_full_path and ioh_group_get, _post, ...                           *)
GroupRoute(g, m, pattern) ==
  AddRoute(m, groups[g].prefix \o pattern)

(* ioh_router_set_meta.                                                    *)
SetMeta(m, pattern, meta) ==
  LET res == FindAndSetMeta(trees[m], pattern, meta)
  IN  /\ rstate = "up" /\ res.rc = "OK"
      /\ trees' = [trees EXCEPT ![m] = res.node]
      /\ UNCHANGED <<groups, routes, refused, rstate>>

(* ioh_router_destroy: the router destroys its groups, and each of them    *)
(* its subgroups, and the tries.                                           *)
RouterDestroy ==
  /\ rstate = "up"
  /\ rstate' = "gone"
  /\ groups' = <<>> /\ trees' = [m \in Methods |-> EmptyTree] /\ routes' = {}
  /\ UNCHANGED refused

RouterNext ==
  \/ \E m \in Methods, p \in Patterns :
       \/ AddRoute(m, p)
       \/ \E g \in DOMAIN groups : GroupRoute(g, m, p)
       \/ \E meta \in Metas : SetMeta(m, p, meta)
  \/ \E parent \in 0 .. Len(groups), p \in GroupPrefixes : MakeGroup(parent, p)
  \/ RouterCreate \/ RouterDestroy
-----------------------------------------------------------------------------
Dot    == <<".">>
DotDot == <<".", ".">>

(* ioh_path_normalize: empty segments and "." are left out, ".." takes the *)
(* segment before it away, and there is none above the root.               *)
NormalizeStep_fault(acc, seg) ==
  CASE ~acc.ok \/ seg \in {<<>>, Dot}                       -> acc
    [] acc.ok /\ seg = DotDot /\ acc.out # <<>>             -> [acc EXCEPT !.out = Front(@)]
    [] acc.ok /\ seg = DotDot /\ acc.out = <<>>             -> acc
    [] acc.ok /\ seg \notin {<<>>, Dot, DotDot}
              /\ Len(acc.out) < MaxSegments                 -> [acc EXCEPT !.out = Append(@, seg)]
    [] OTHER                                                -> [acc EXCEPT !.ok = FALSE]

NormalizeStep(acc, seg) ==
  CASE ~acc.ok \/ seg \in {<<>>, Dot}                       -> acc
    [] acc.ok /\ seg = DotDot /\ acc.out # <<>>             -> [acc EXCEPT !.out = Front(@)]
    [] acc.ok /\ seg \notin {<<>>, Dot, DotDot}
              /\ Len(acc.out) < MaxSegments                 -> [acc EXCEPT !.out = Append(@, seg)]
    [] OTHER                                                -> [acc EXCEPT !.ok = FALSE]

PathNormalize(raw) == FoldLeft(NormalizeStep, [ok |-> TRUE, out |-> <<>>], raw)

(* stabilize_param_values: every value is copied, with a NUL after it.     *)
ValueSize(value) == FoldLeft(LAMBDA n, text : n + Len(text) + 1, 0, value)
Stable(params)   == FoldLeft(LAMBDA n, p : n + ValueSize(p.value), 0, params) <= ParamStorage

NotFound == [status |-> "NOT_FOUND"]
Found(match) ==
  IF Stable(match.params)
    THEN [status |-> "FOUND", handler |-> match.handler, params |-> match.params]
    ELSE NotFound

(* ioh_router_dispatch. "nul" tells that the path has a NUL byte, plain or *)
(* encoded.                                                                *)
Dispatch(m, raw, nul) ==
  LET norm    == PathNormalize(raw)
      look    == [x \in Methods |-> RadixLookup(trees[x], norm.out)]
      others  == {x \in Methods \ {m} : look[x].found}
      slash   == Len(raw) > 1 /\ Last(raw) = <<>>
  IN  CASE nul \/ ~norm.ok                       -> NotFound
        [] ~nul /\ norm.ok /\ slash /\ (look[m].found \/ others # {}) ->
             [status |-> "REDIRECT", target |-> norm.out]
        [] ~nul /\ norm.ok /\ ~slash /\ look[m].found -> Found(look[m])
        [] ~nul /\ norm.ok /\ ~slash /\ ~look[m].found /\ m = "HEAD" /\ "GET" \in others ->
             Found(look["GET"])
        [] OTHER -> IF others = {} THEN NotFound
                    ELSE [status |-> "METHOD_NOT_ALLOWED", allowed |-> others]
-----------------------------------------------------------------------------
(* The reference: what routes mean, whatever the trie.                     *)

(* The pattern up to its first empty segment is what was registered.       *)
Effective(pattern) ==
  LET ends == {i \in DOMAIN pattern : pattern[i] = EmptySeg}
  IN  IF ends = {} THEN pattern ELSE SubSeq(pattern, 1, Min(ends) - 1)

Matches(pattern, path) ==
  LET n == Len(pattern)
  IN  /\ Len(path) = n \/ (Len(path) > n /\ n > 0 /\ pattern[n].type = "WILDCARD")
      /\ \A i \in 1 .. n : pattern[i].type = "STATIC" => pattern[i].text = path[i]

Captured(pattern) == SelectSeq(pattern, LAMBDA s : s.type # "STATIC")
Candidates(m, path) ==
  {r \in routes : r.method = m /\ LET p == Effective(r.pattern)
                                  IN  Matches(p, path) /\ Len(Captured(p)) <= MaxParams}

(* At the first segment where two patterns differ, static comes before     *)
(* parameter and parameter before wildcard.                                *)
Order == [STATIC |-> 1, PARAM |-> 2, WILDCARD |-> 3]
Before(p, q) ==
  \E i \in DOMAIN p \cap DOMAIN q :
    /\ \A j \in 1 .. i - 1 : p[j].type = q[j].type
    /\ Order[p[i].type] < Order[q[i].type]

Best(m, path) ==
  LET all == Candidates(m, path)
  IN  {r \in all : \A q \in all \ {r} : Before(Effective(r.pattern), Effective(q.pattern))}

(* The values a match must capture, in the order of the pattern.           *)
Values(pattern, path) ==
  LET at == SelectSeq([i \in 1 .. Len(pattern) |-> i], LAMBDA i : pattern[i].type # "STATIC")
  IN  [k \in 1 .. Len(at) |->
         [name  |-> pattern[at[k]].text,
          value |-> IF pattern[at[k]].type = "PARAM" THEN <<path[at[k]]>>
                    ELSE SubSeq(path, at[k], Len(path))]]

(* No segment of the path is the beginning or a continuation of a          *)
(* segment some route has.                                                 *)
Clear(path) ==
  \A r \in routes, i \in DOMAIN path :
    \A j \in DOMAIN r.pattern :
      r.pattern[j].type = "STATIC" /\ r.pattern[j].text # <<>> /\ r.pattern[j].text # path[i] =>
        ~IsPrefix(r.pattern[j].text, path[i]) /\ ~IsPrefix(path[i], r.pattern[j].text)

(* No segment of the pattern was split: where the pattern parts from one   *)
(* that was registered, or refused, the two begin with different letters.  *)
Unsplit(m, pattern) ==
  LET p == Effective(pattern)
  IN  \A r \in {x \in routes \cup refused : x.method = m} :
        LET q == Effective(r.pattern)
        IN  \A i \in DOMAIN p \cap DOMAIN q :
              /\ SubSeq(p, 1, i - 1) = SubSeq(q, 1, i - 1)
              /\ p[i].type = "STATIC" /\ q[i].type = "STATIC" /\ p[i] # q[i]
              => Common(p[i].text, q[i].text) = 0

Normalized == {PathNormalize(raw).out : raw \in {x \in RawPaths : PathNormalize(x).ok}}
-----------------------------------------------------------------------------
(* ioh_radix_lookup finds the route that the priorities of the node types  *)
(* name (router/ioh_radix.h:17), with what its parameters stand for, and   *)
(* no route when none matches: however routes were registered and refused, *)
(* and however nodes were split since, for paths whose segments do not     *)
(* overlap with those of routes.                                           *)
LookupIsBestMatch ==
  rstate = "up" => \A path \in Normalized :
    Clear(path) => \A m \in Methods :
      LET match == RadixLookup(trees[m], path)
          best  == Best(m, path)
      IN  /\ match.found <=> best # {}
          /\ match.found <=> Candidates(m, path) # {}
          /\ match.found =>
               \E r \in best :
                 /\ match.handler = r
                 /\ match.params = Values(Effective(r.pattern), path)

(* A route is found only for a path its pattern matches: ioh_radix_lookup  *)
(* returns "0 if found (match populated), -ENOENT if no match"             *)
(* (router/ioh_radix.h:85).                                                *)
LookupSound ==
  rstate = "up" => \A m \in Methods, path \in Normalized :
    LET match == RadixLookup(trees[m], path)
    IN  match.found => Matches(Effective(match.handler.pattern), path)

(* The paths that do not go above the root nor below the limit.            *)
Resolving ==
  {raw \in RawPaths : \A i \in DOMAIN raw :
     Cardinality({j \in 1 .. i : raw[j] \notin {<<>>, Dot, DotDot}})
       - Cardinality({j \in 1 .. i : raw[j] = DotDot}) \in 0 .. MaxSegments}

(* The answer the routes call for.                                         *)
Answers(m, raw, path) ==
  LET answer  == Dispatch(m, raw, FALSE)
      by      == [x \in Methods |-> Candidates(x, path) # {}]
      serving == IF by[m] THEN m ELSE "GET"
      allowed == {x \in Methods \ {m} : by[x]}
      slash   == Len(raw) > 1 /\ Last(raw) = <<>>
  IN  CASE raw \notin Resolving -> answer.status = "NOT_FOUND"
        [] raw \in Resolving /\ slash ->
             answer.status = (IF \E x \in Methods : by[x] THEN "REDIRECT" ELSE "NOT_FOUND")
        [] raw \in Resolving /\ ~slash /\ (by[m] \/ (m = "HEAD" /\ by["GET"])) ->
             \E r \in Best(serving, path) :
               IF Stable(Values(Effective(r.pattern), path))
                 THEN answer.status = "FOUND" /\ answer.handler = r
                 ELSE answer.status = "NOT_FOUND"
        [] OTHER -> answer = IF allowed = {} THEN NotFound
                             ELSE [status |-> "METHOD_NOT_ALLOWED", allowed |-> allowed]

(* ioh_router_dispatch answers what the routes say, however they were      *)
(* registered: "automatic 405 Method Not Allowed, auto-HEAD from GET,      *)
(* trailing-slash redirects" (router/ioh_router.h:5), and of a path that   *)
(* goes above the root, that it is not found. As above, for paths whose    *)
(* segments do not overlap with those of routes.                           *)
DispatchAnswers ==
  rstate = "up" => \A raw \in RawPaths :
    LET path == PathNormalize(raw).out
    IN  Clear(path) => \A m \in Methods : Answers(m, raw, path)

(* ioh_router_walk tells the callback of every route once, and             *)
(* ioh_router_route_count counts them. For an "original route pattern" the *)
(* walk tells that pattern, and ioh_router_set_meta changes the metadata   *)
(* of this route and no other, or answers -ENOENT if there is none. The    *)
(* exception are patterns with a segment that another registration split:  *)
(* after /ab and /ac the walk tells /a/b, and the metadata of /ab can only *)
(* be set under that name.                                                 *)
InspectionAgrees ==
  rstate = "up" => \A m \in Methods :
    LET mine == {r \in routes : r.method = m}
        told == WalkNode(trees[m], <<>>)
    IN  /\ {i.handler : i \in told} = mine
        /\ CountNode(trees[m]) = Cardinality(mine) /\ Cardinality(told) = Cardinality(mine)
        /\ \A p \in Patterns \cup {r.pattern : r \in mine}, meta \in Metas :
             LET named == {i \in told : Effective(i.handler.pattern) = Effective(p)}
                 res   == FindAndSetMeta(trees[m], p, meta)
             IN  Unsplit(m, p) =>
                   /\ \A i \in named : i.pattern = Effective(p)
                   /\ res.rc = IF named = {} THEN "ENOENT" ELSE "OK"
                   /\ WalkNode(res.node, <<>>) =
                        (told \ named) \cup {[i EXCEPT !.meta = meta] : i \in named}
=============================================================================
