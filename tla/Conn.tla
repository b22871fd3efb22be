-------------------------------- MODULE Conn --------------------------------
(***************************************************************************)
(* The connection pool of iohttp (core/ioh_conn.c, core/ioh_conn.h): a     *)
(* fixed array of connection slots, the count of slots in use, the counter *)
(* that names connections, and the table of legal state transitions.       *)
(*                                                                         *)
(* The operations are operators from pool value to pool value, so that     *)
(* the server module can compose them the way ioh_server.c calls them.     *)
(* Module ConnPool puts them under an arbitrary client of the API.         *)
(***************************************************************************)
EXTENDS Integers, FiniteSets

CONSTANTS
  MaxConns,   \* max_conns: the number of slots
  IdSpace     \* the number of values of next_id (2^32 in the code)

ASSUME MaxConnsAssumption == MaxConns \in Nat \ {0}
ASSUME IdSpaceAssumption  == IdSpace \in Nat \ {0, 1}

Slots == 1..MaxConns
NoFd  == -1

States == {"FREE", "ACCEPTING", "PROXY_HEADER", "TLS_HANDSHAKE", "HTTP_ACTIVE",
           "WEBSOCKET", "SSE", "QUIC", "DRAINING", "CLOSING"}

Phases == {"none", "header", "body", "keepalive"}

(* The row of QUIC is the one the initializer of the table leaves zero.    *)
valid_transitions ==
  [ FREE          |-> {"ACCEPTING"},
    ACCEPTING     |-> {"PROXY_HEADER", "TLS_HANDSHAKE", "HTTP_ACTIVE", "CLOSING"},
    PROXY_HEADER  |-> {"TLS_HANDSHAKE", "HTTP_ACTIVE", "CLOSING"},
    TLS_HANDSHAKE |-> {"HTTP_ACTIVE", "CLOSING"},
    HTTP_ACTIVE   |-> {"WEBSOCKET", "SSE", "DRAINING", "CLOSING"},
    WEBSOCKET     |-> {"DRAINING", "CLOSING"},
    SSE           |-> {"DRAINING", "CLOSING"},
    QUIC          |-> {},
    DRAINING      |-> {"CLOSING"},
    CLOSING       |-> {} ]

(***************************************************************************)
(* A connection. The receive buffer and the send buffer are abstracted:    *)
(* "unsent" is the number of pieces of send_buf the kernel has not taken   *)
(* (send_len - send_offset); "tls" joins tls_ctx and tls_done. Auxiliary:  *)
(* "peer", the socket the connection was accepted for, and "answered",     *)
(* that a response has been queued on it.                                  *)
(***************************************************************************)
ClosedConn ==
  [ state |-> "FREE", id |-> 0, fd |-> NoFd, phase |-> "none",
    send_active |-> FALSE, keep_alive |-> FALSE, tls |-> "none",
    unsent |-> 0, peer |-> 0, answered |-> FALSE ]

Conn ==
  [ state : States, id : 0..(IdSpace - 1), fd : Int, phase : Phases,
    send_active : BOOLEAN, keep_alive : BOOLEAN,
    tls : {"none", "handshake", "done"}, unsent : Int,
    peer : Nat, answered : BOOLEAN ]

(* "wrapped" is auxiliary: next_id has been through all its values.        *)
Pool ==
  [ conns : [Slots -> Conn], active_count : Int,
    next_id : 0..(IdSpace - 1), wrapped : BOOLEAN ]

EmptyPool ==
  [ conns        |-> [s \in Slots |-> ClosedConn],
    active_count |-> 0,
    next_id      |-> 1,
    wrapped      |-> FALSE ]

InUse(p)     == {s \in Slots : p.conns[s].state # "FREE"}
FreeSlots(p) == Slots \ InUse(p)

(* The slot at which the loop of ioh_conn_alloc stops, if there is one.    *)
FirstFree(p) == {s \in FreeSlots(p) : \A t \in FreeSlots(p) : s <= t}

(* Operators named X_fault are faulty variants of X: each stands for a     *)
(* mistake in the code behind X, and some property fails with it.          *)
NextId_wide(p) == p.next_id + 1

NextId(p) == (p.next_id + 1) % IdSpace

Wraps(p) == p.wrapped \/ NextId(p) = 0

ConnAlloc_same_id(p, s) ==
  [ p EXCEPT !.conns[s] = [ClosedConn EXCEPT !.state = "ACCEPTING", !.id = p.next_id],
             !.active_count = @ + 1 ]

(* ioh_conn_alloc, s being the first FREE slot.                            *)
ConnAlloc(p, s) ==
  [ p EXCEPT !.conns[s] =
                 [ClosedConn EXCEPT !.state = "ACCEPTING", !.id = p.next_id],
             !.active_count = @ + 1,
             !.next_id      = NextId(p),
             !.wrapped      = Wraps(p) ]

ConnAllocNoMem_counted(p, s) ==
  [ p EXCEPT !.conns[s]     = [ClosedConn EXCEPT !.id = p.next_id],
             !.active_count = @ + 1,
             !.next_id      = NextId(p),
             !.wrapped      = Wraps(p) ]

(* ioh_conn_alloc when malloc of the receive buffer fails: the slot goes   *)
(* back to FREE, the identifier stays consumed.                            *)
ConnAllocNoMem(p, s) ==
  [ p EXCEPT !.conns[s] = [ClosedConn EXCEPT !.id = p.next_id],
             !.next_id = NextId(p),
             !.wrapped = Wraps(p) ]

(* ioh_conn_free: nothing in it asks whether the slot is already FREE.     *)
ConnFree(p, s) ==
  [ p EXCEPT !.conns[s] = ClosedConn, !.active_count = @ - 1 ]

(* ioh_conn_transition: an edge that is not in the table changes nothing.  *)
ConnTransition(p, s, new_state) ==
  IF new_state \in valid_transitions[p.conns[s].state]
    THEN [p EXCEPT !.conns[s].state = new_state]
    ELSE p

Accounted(p) == p.active_count = Cardinality(InUse(p))

DistinctIds(p) ==
  /\ \A s \in InUse(p) : p.conns[s].id < p.next_id
  /\ \A s, t \in InUse(p) : p.conns[s].id = p.conns[t].id => s = t
=============================================================================
