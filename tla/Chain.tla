-------------------------------- MODULE Chain --------------------------------
(***************************************************************************)
(* The middleware chain (middleware/ioh_middleware.c) and the middleware   *)
(* of the library: security headers, CORS, authentication, rate limit.     *)
(*                                                                         *)
(* One request. The C stack is modelled as it is: an activation for every  *)
(* ioh_chain_execute, middleware and handler under way, and the ioh_chain_t*)
(* that each ioh_chain_execute keeps in its frame. "next" is one function, *)
(* and finds its chain through the thread-local tl_chain.                  *)
(***************************************************************************)
EXTENDS Integers, SequencesExt, FiniteSetsExt

CONSTANTS
  Stacks,       \* what may be given to ioh_router_use, in order
  Nested,       \* the middleware of a chain run within the request
  MaxGlobalMw   \* IOH_MAX_GLOBAL_MIDDLEWARE

VARIABLES
  given,    \* the functions passed to ioh_router_use so far, and the plan
  globals,  \* r->global_mw
  creq,     \* of the request: Origin, method, credentials, tokens left
  chains,   \* every ioh_chain_t so far, those of returned activations included
  tl,       \* tl_chain: an index in chains, 0 for nullptr
  calls,    \* the C stack
  ret,      \* what the activation above the last has just returned
  resp,     \* the response: status and headers
  entered   \* every middleware that was called

chainVars == <<given, globals, creq, chains, tl, calls, ret, resp, entered>>

SecurityHeaders  == <<"Strict-Transport-Security", "X-Frame-Options", "Referrer-Policy",
                      "X-Content-Type-Options">>
PreflightHeaders == <<"Allow-Origin", "Allow-Methods", "Allow-Headers", "Max-Age">>

Requests == [origin : {"none", "allowed", "other"}, options : BOOLEAN,
             authentic : BOOLEAN, tokens : BOOLEAN]
Running == "running"  \* nothing has returned: the last activation runs

ChainInit ==
  /\ given \in {[todo |-> s, done |-> FALSE] : s \in Stacks}
  /\ globals = <<>>
  /\ creq \in Requests
  /\ chains = <<>> /\ tl = 0 /\ calls = <<>> /\ ret = Running
  /\ resp = [status |-> 200, headers |-> {}]
  /\ entered = {}
-----------------------------------------------------------------------------
(* ioh_router_use.                                                         *)
RouterUse ==
  /\ given.todo # <<>> /\ ~given.done
  /\ globals' = IF Len(globals) >= MaxGlobalMw THEN globals
                ELSE Append(globals, Head(given.todo))
  /\ given' = [given EXCEPT !.todo = Tail(@)]
  /\ UNCHANGED <<creq, chains, tl, calls, ret, resp, entered>>

Frame(fn, at, prev, chain) == [fn |-> fn, at |-> at, prev |-> prev, chain |-> chain]
Runs(fn, at)  == calls # <<>> /\ ret = Running /\ Last(calls).fn = fn /\ Last(calls).at = at
Back(fn, at)  == calls # <<>> /\ ret # Running /\ Last(calls).fn = fn /\ Last(calls).at = at
Resume(at)    == Append(Front(calls), [Last(calls) EXCEPT !.at = at])
Return(rc)    == calls' = Front(calls) /\ ret' = rc
KeepChain     == UNCHANGED <<given, globals, creq, chains, tl, entered>>

(* ioh_chain_execute, up to its call of chain_next. "under" is the stack   *)
(* of the caller.                                                          *)
Execute(under, mws) ==
  LET k == Len(chains) + 1
  IN  /\ chains' = Append(chains, [mws |-> mws, current |-> 0])
      /\ calls' = Append(under, Frame("execute", "next", tl, k))
      /\ tl' = k
      /\ ret' = Running

(* The router found a handler: dispatch_request runs the global chain.     *)
DispatchRequest ==
  /\ given.todo = <<>> /\ ~given.done
  /\ given' = [given EXCEPT !.done = TRUE]
  /\ Execute(<<>>, globals)
  /\ UNCHANGED <<globals, creq, resp, entered>>

(* chain_next, called by the last activation.                              *)
ChainNext ==
  /\ calls # <<>> /\ ret = Running /\ Last(calls).at = "next"
  /\ LET ch == chains[tl]
         fn == IF ch.current >= Len(ch.mws) THEN "handler" ELSE ch.mws[ch.current + 1]
     IN  /\ chains' = IF fn = "handler" THEN chains
                      ELSE [chains EXCEPT ![tl].current = @ + 1]
         /\ calls' = Append(Resume("after"), Frame(fn, "enter", 0, tl))
         /\ entered' = entered \cup {fn}
  /\ UNCHANGED <<given, globals, creq, tl, ret, resp>>

(* The rest of ioh_chain_execute.                                          *)
ExecuteReturns_fault ==
  /\ Back("execute", "after")
  /\ calls' = Front(calls)
  /\ UNCHANGED <<given, globals, creq, chains, tl, ret, resp, entered>>
ExecuteReturns ==
  /\ Back("execute", "after")
  /\ tl' = Last(calls).prev
  /\ calls' = Front(calls)
  /\ UNCHANGED <<given, globals, creq, chains, ret, resp, entered>>
-----------------------------------------------------------------------------
(* A middleware calls next, and goes on at "after" when it has returned.   *)
CallNext == calls' = Resume("next") /\ ret' = Running /\ UNCHANGED resp

(* ioh_response_set_header for a list of headers, each result checked: the *)
(* first that fails for want of memory ends the function with its error.   *)
SetHeaders(status, hs) ==
  \E n \in 0..Len(hs) :
    /\ resp' = [status |-> status, headers |-> resp.headers \cup ToSet(SubSeq(hs, 1, n))]
    /\ Return(IF n = Len(hs) THEN "OK" ELSE "ENOMEM")

(* A refusal: the status, a header whose failure is ignored, no call of    *)
(* next, and no error.                                                     *)
Refuse(status, h) ==
  /\ \E hs \in {{}, {h}} :
       resp' = [status |-> status, headers |-> resp.headers \cup hs]
  /\ Return("OK")

(* security_middleware.                                                    *)
SecurityMiddleware_fault ==
  /\ \/ Runs("security", "enter") /\ CallNext
     \/ /\ Back("security", "after")
        /\ IF ret # "OK" \/ resp.status >= 400 THEN Return(ret) /\ UNCHANGED resp
           ELSE SetHeaders(resp.status, SecurityHeaders)
  /\ KeepChain
SecurityMiddleware ==
  /\ \/ Runs("security", "enter") /\ CallNext
     \/ /\ Back("security", "after")
        /\ IF ret # "OK" THEN Return(ret) /\ UNCHANGED resp
           ELSE SetHeaders(resp.status, SecurityHeaders)
  /\ KeepChain

(* cors_middleware: a preflight is answered here; other requests go on and *)
(* get the origin header on the way back.                                  *)
CorsMiddleware ==
  /\ \/ /\ Runs("cors", "enter")
        /\ \/ creq.origin = "none" /\ CallNext
           \/ creq.origin = "other" /\ ~creq.options /\ CallNext
           \/ /\ creq.origin = "other" /\ creq.options
              /\ resp' = [resp EXCEPT !.status = 204] /\ Return("OK")
           \/ creq.origin = "allowed" /\ creq.options /\ SetHeaders(204, PreflightHeaders)
           \/ creq.origin = "allowed" /\ ~creq.options /\ CallNext
     \/ /\ Back("cors", "after")
        /\ IF ret # "OK" \/ creq.origin # "allowed" THEN Return(ret) /\ UNCHANGED resp
           ELSE SetHeaders(resp.status, <<"Allow-Origin">>)
  /\ KeepChain

(* What next returned is returned as it is.                                *)
PassOn(fn) == Back(fn, "after") /\ Return(ret) /\ UNCHANGED resp

(* basic_middleware, bearer_middleware.                                    *)
AuthMiddleware ==
  /\ \/ Runs("auth", "enter") /\ creq.authentic /\ CallNext
     \/ Runs("auth", "enter") /\ ~creq.authentic /\ Refuse(401, "WWW-Authenticate")
     \/ PassOn("auth")
  /\ KeepChain

(* ratelimit_middleware; module RateLimit has ioh_ratelimit_check.         *)
RatelimitMiddleware ==
  /\ \/ Runs("ratelimit", "enter") /\ creq.tokens /\ CallNext
     \/ Runs("ratelimit", "enter") /\ ~creq.tokens /\ Refuse(429, "Retry-After")
     \/ PassOn("ratelimit")
  /\ KeepChain

(* A middleware of the application (external): may run a chain of its own  *)
(* before it calls next, and may answer without calling it.                *)
AppMiddleware ==
  \/ /\ Runs("app", "enter") /\ Len(chains) = 1
     /\ Execute(Resume("nested"), Nested)
     /\ UNCHANGED <<given, globals, creq, resp, entered>>
  \/ /\ \/ Runs("app", "enter") /\ CallNext
        \/ Back("app", "nested") /\ CallNext
        \/ Runs("app", "enter") /\ Return("OK") /\ UNCHANGED resp
        \/ PassOn("app")
     /\ KeepChain

(* A handler (external): answers, fails, or hands over to another chain.   *)
Handler ==
  \/ /\ Runs("handler", "enter") /\ Len(chains) = 1
     /\ Execute(Resume("after"), Nested)
     /\ UNCHANGED <<given, globals, creq, resp, entered>>
  \/ /\ \/ /\ Runs("handler", "enter")
           /\ \E st \in {200, 404}, rc \in {"OK", "EIO"} :
                resp' = [resp EXCEPT !.status = st] /\ Return(rc)
        \/ PassOn("handler")
     /\ KeepChain

ChainNextStep ==
  \/ RouterUse \/ DispatchRequest \/ ChainNext \/ ExecuteReturns
  \/ SecurityMiddleware \/ CorsMiddleware \/ AuthMiddleware \/ RatelimitMiddleware
  \/ AppMiddleware \/ Handler
-----------------------------------------------------------------------------
(* "Execution order: global_mw[0..N] -> group_mw[0..M] -> handler": while  *)
(* a handler runs, every middleware of its chain is active below it, in    *)
(* order and once, whatever chains ran in between. A request that one of   *)
(* them refused never reaches the handler.                                 *)
HandlerGuarded ==
  \A i \in DOMAIN calls : calls[i].fn = "handler" =>
    LET e == Max({j \in 1..i : calls[j].fn = "execute"})
        between == SubSeq(calls, e + 1, i - 1)
    IN  [j \in DOMAIN between |-> between[j].fn] = chains[calls[e].chain].mws

(* A request that ends without an error carries the security headers if    *)
(* security_middleware was called at all, a refusal by a later middleware  *)
(* included, and an allowed origin gets its header from cors_middleware    *)
(* and from nobody else.                                                   *)
AnsweredAsConfigured ==
  given.done /\ calls = <<>> /\ ret = "OK" =>
    /\ "security" \in entered => ToSet(SecurityHeaders) \subseteq resp.headers
    /\ "Allow-Origin" \in resp.headers <=> "cors" \in entered /\ creq.origin = "allowed"
=============================================================================
