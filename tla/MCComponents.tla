---------------------------- MODULE MCComponents -----------------------------
(***************************************************************************)
(* The components beside the server, for TLC. They share no state, so that *)
(* a behaviour is one of a single component, "unit", and the others stay   *)
(* as they start.                                                          *)
(***************************************************************************)
EXTENDS ConnPool, ProxyProto, Multipart, Static, Sse, Router, Chain, RateLimit, Ctx, Tls, Http2, Http3, Bufpool

CONSTANTS
  MaxNow,     \* how long the rate limiter is followed
  host1, host2, longHost  \* its keys: "longHost" is cut to "host2"

VARIABLE unit

mcVars == <<unit, pool, routerVars, chainVars, rateVars, ctxVars, tlsVars, h2Vars, h3Vars,
            bufVars, proxyVars, multipartVars, staticVars, sseVars>>

(* Routing: segments that share letters, empty ones, parameters of one     *)
(* name in two places, wildcards with a name and without.                  *)
AB == <<"a", "b">>
AC == <<"a", "c">>
S(x) == Seg("STATIC", x)
P(x) == Seg("PARAM", x)
W(x) == Seg("WILDCARD", x)

mcPatterns ==
  {<<EmptySeg>>, <<S(AB)>>, <<S(AC), EmptySeg>>, <<S(AB), S(<<"d">>)>>,
   <<P(<<"p">>)>>, <<P(<<"p">>), P(<<"p">>)>>, <<W(<<"p">>)>>,
   <<S(AB), W(<<"q">>)>>, <<P(<<"q">>), W(<<>>)>>}

mcPrefixes == {<<S(AB)>>, <<S(<<"d">>), EmptySeg>>}

mcRaw ==
  {<<s>> : s \in {<<>>, AB, AC, <<"x">>, <<"a">>}}
  \cup {<<s, t>> : s \in {AB, <<"x">>}, t \in {<<"d">>, AB, <<>>}}
  \cup {<<<<"a">>, <<"b">>>>, <<AB, <<"d">>, <<"d">>>>,
        <<Dot, AB, DotDot, AC>>, <<AC, DotDot, DotDot, <<"d">>>>}

(* Middleware: every order of up to three of the kinds, and a fourth that  *)
(* there is no room for.                                                   *)
mcStacks ==
  {s \in UNION {[1 .. n -> {"security", "cors", "auth", "ratelimit", "app"}] : n \in 0 .. 4} :
     Cardinality(ToSet(s)) = Len(s) /\ (Len(s) = 4 => s[4] = "auth")}
mcNested == <<"auth">>

(* Rate limiting: two keys that hash to one slot, and one that is cut.     *)
mcCut  == [k \in Keys |-> IF k = longHost THEN host2 ELSE k]
mcHash == [k \in Keys |-> IF k = longHost THEN 1 ELSE 0]

(* PROXY headers: both forms, at their shortest and longest, with a line   *)
(* that never ends, addresses that are too short, a port beyond 2^32.      *)
Port(n)  == [wraps |-> 0, low |-> n]
Text(crlf, says, ports, sent) ==
  [sig |-> "v1", crlf |-> crlf, says |-> says, ports |-> ports, sent |-> sent]
Binary(version, command, family, len, sent) ==
  [sig |-> "v2", version |-> version, command |-> command, family |-> family,
   addr_len |-> len, ports |-> <<Port(1), Port(2)>>, sent |-> sent]

mcOpenings ==
  {Text(13, "unknown", <<>>, 20), Text(106, "tcp", <<Port(80), Port(65535)>>, 120),
   Text(107, "tcp", <<Port(80), Port(80)>>, 120), Text(40, "bad", <<>>, 42),
   Text(40, "tcp", <<Port(65536), Port(80)>>, 50),
   Text(40, "tcp", <<[wraps |-> 1, low |-> 80], Port(80)>>, 50)}
  \cup {Binary(2, c, f, n, 16 + n + 3) : c \in 0 .. 2, f \in {"unspec", "inet", "inet6"},
                                        n \in {0, 11, 12, 36, 40}}
  \cup {Binary(1, 1, "inet", 12, 28), [sig |-> "other", sent |-> 8]}

(* Forms: data with line ends and dashes of its own; parts that name the   *)
(* file first, that quote nothing, that say their type, that say no name.  *)
Disposition(keys, quoted) ==
  Line("content-disposition", [i \in DOMAIN keys |-> [key |-> keys[i], of |-> keys[i]]], quoted)
TypeLine == Line("content-type", <<[key |-> "", of |-> "plain"]>>, FALSE)

mcLines ==
  {<<Disposition(<<"name">>, TRUE)>>, <<Disposition(<<"name", "filename">>, TRUE), TypeLine>>,
   <<TypeLine, Disposition(<<"filename", "name">>, TRUE)>>, <<Disposition(<<"name">>, FALSE)>>,
   <<Disposition(<<"name", "filename">>, FALSE)>>, <<TypeLine>>}
mcData == {<<>>, <<Octet, Crlf>>, <<Crlf, Crlf, Dashes>>, <<Octet, Octet, Octet, Octet, Octet>>}
mcBoundaries == {-1, 1, 257}
mcForms ==
  UNION {[1 .. n -> [lines : mcLines, data : mcData]] : n \in 0 .. 1}
  \cup [1 .. 2 -> [lines : {<<Disposition(<<"name", "filename">>, TRUE), TypeLine>>, <<TypeLine>>},
                  data : mcData]]

(* A request varies in what some middleware of the stack looks at; every   *)
(* stack looks at the credentials, in the nested chain.                    *)
Telling(stack, q) ==
  /\ "cors" \notin ToSet(stack) => q.origin = "none" /\ ~q.options
  /\ "ratelimit" \notin ToSet(stack) => q.tokens

(* Static files: a page, an asset with a hash in its name that is not      *)
(* there, a path of the API and one that leaves the directory.             *)
Path(f, safe, api, asset) ==
  [file |-> f, safe |-> safe, api |-> api, ext |-> asset, hashed |-> asset]
mcPaths ==
  [page |-> Path("page", TRUE, FALSE, FALSE), asset |-> Path("asset", TRUE, FALSE, TRUE),
   api |-> Path("page", TRUE, TRUE, FALSE), up |-> Path("page", FALSE, FALSE, FALSE)]
mcRanges == {[kind |-> "suffix", from |-> 1, to |-> 0], [kind |-> "closed", from |-> 0, to |-> 2]}

(* Events: with and without a name and an identifier, data of no line, of  *)
(* one, of several, of empty ones.                                         *)
SseEvent(event, id, retry, data) == [event |-> event, id |-> id, retry |-> retry, data |-> data]
mcEvents ==
  {SseEvent(Nothing, Nothing, FALSE, <<>>), SseEvent("x", "1", FALSE, <<"x">>),
   SseEvent(Nothing, "2", TRUE, <<"x", NL>>), SseEvent("y", Nothing, FALSE, <<"x", NL, NL, "y">>),
   SseEvent(Nothing, Nothing, FALSE, <<NL>>)}
-----------------------------------------------------------------------------
Init ==
  /\ unit \in {"pool", "router", "chain", "rate", "ctx", "tls", "h2", "h3", "bufpool", "proxy",
               "multipart", "static", "sse"}
  /\ PoolInit /\ RouterInit /\ ChainInit /\ RateInit /\ CtxStart /\ TlsInit
  /\ H2Init /\ H3Init /\ BufInit /\ ProxyInit /\ MultipartInit /\ StaticInit /\ SseStart
  /\ IF unit = "chain" THEN Telling(given.todo, creq)
     ELSE given.todo = <<>> /\ creq = CHOOSE q \in Requests : TRUE

(* Everything of the other components stays.                               *)
Stays(u, vs) == IF unit = u THEN TRUE ELSE UNCHANGED vs

OthersStay ==
  /\ UNCHANGED unit
  /\ Stays("pool", pool) /\ Stays("router", routerVars) /\ Stays("chain", chainVars)
  /\ Stays("rate", rateVars) /\ Stays("ctx", ctxVars) /\ Stays("tls", tlsVars)
  /\ Stays("h2", h2Vars) /\ Stays("h3", h3Vars) /\ Stays("bufpool", bufVars)
  /\ Stays("proxy", proxyVars) /\ Stays("multipart", multipartVars)
  /\ Stays("static", staticVars) /\ Stays("sse", sseVars)

Next ==
  \/ unit = "pool"      /\ PoolNext      /\ OthersStay
  \/ unit = "router"    /\ RouterNext    /\ OthersStay
  \/ unit = "chain"     /\ ChainNextStep /\ OthersStay
  \/ unit = "rate"      /\ RateNext      /\ OthersStay /\ now' <= MaxNow
  \/ unit = "ctx"       /\ CtxNext       /\ OthersStay
  \/ unit = "tls"       /\ TlsNext       /\ OthersStay
  \/ unit = "h2"        /\ H2Next        /\ OthersStay
  \/ unit = "h3"        /\ H3Next        /\ OthersStay
  \/ unit = "bufpool"   /\ BufNext       /\ OthersStay
  \/ unit = "proxy"     /\ ProxyNext     /\ OthersStay
  \/ unit = "multipart" /\ MultipartNext /\ OthersStay
  \/ unit = "static"    /\ StaticNext    /\ OthersStay
  \/ unit = "sse"       /\ SseNext       /\ OthersStay

Spec == Init /\ [][Next]_mcVars
=============================================================================
