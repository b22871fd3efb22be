---------------------------------- MODULE Sse ----------------------------------
(***************************************************************************)
(* Server-sent events (ws/ioh_sse.c): events and comments are formatted    *)
(* into a buffer that grows, and the buffer is flushed to the client.      *)
(*                                                                         *)
(* Text is a sequence of symbols: the names of fields with their colon, NL *)
(* and what is between them. An event is formatted by one append after the *)
(* other; one that needs more memory may fail, and those before it stay in *)
(* the buffer.                                                             *)
(***************************************************************************)
EXTENDS Integers, SequencesExt, FiniteSetsExt

CONSTANTS
  Events,     \* events an application sends: [event, id, retry, data]
  SseBuf,     \* IOH_SSE_INITIAL_BUF, in symbols
  MaxFormats  \* calls that format, in a behaviour

VARIABLES
  opened,         \* the stream is initialised
  sbuf,           \* buf[0 .. buf_len - 1]
  capacity,       \* buf_capacity
  last_event_id,
  wire,           \* everything flushed to the client
  formatted,      \* the events formatted before the first failure
  failed,         \* whether a call has failed
  formats         \* calls so far

sseVars == <<opened, sbuf, capacity, last_event_id, wire, formatted, failed, formats>>

NL      == "NL"
Nothing == "none"   \* a null pointer
-----------------------------------------------------------------------------
(* sse_ensure_capacity: doubled until it is enough.                        *)
RECURSIVE EnsureCapacity(_, _)
EnsureCapacity(cap, needed) ==
  IF needed <= cap THEN cap ELSE EnsureCapacity(IF cap = 0 THEN SseBuf ELSE 2 * cap, needed)

(* sse_append, one piece after the other, from a stream [buf, cap]: what   *)
(* may come of it, with how many pieces were appended.                     *)
RECURSIVE Appends(_, _)
Appends(st, pieces) ==
  IF pieces = <<>> THEN {st}
  ELSE LET needed == Len(st.buf) + Len(Head(pieces))
           next   == [buf |-> st.buf \o Head(pieces), cap |-> EnsureCapacity(st.cap, needed), n |-> st.n + 1]
       IN  (IF needed > st.cap THEN {st} ELSE {}) \cup Appends(next, Tail(pieces))

(* The lines of a field that is there, of data, and of a whole event.      *)
Field(name, value) == IF value = Nothing THEN <<>> ELSE <<<<name>>, <<value>>, <<NL>>>>

Newlines(data) == {i \in DOMAIN data : data[i] = NL}

RECURSIVE DataLines(_)
DataLines(data) ==
  IF data = <<>> THEN <<>>
  ELSE LET nl  == Newlines(data)
           len == IF nl = {} THEN Len(data) ELSE Min(nl) - 1
       IN  <<<<"data:">>, SubSeq(data, 1, len), <<NL>>>>
           \o DataLines(SubSeq(data, len + 2, Len(data)))

DataPieces_fault(data) == DataLines(data)

DataPieces(data) == IF data = <<>> THEN <<<<"data:", NL>>>> ELSE DataLines(data)

UpToId(e)   == Field("event:", e.event) \o Field("id:", e.id)
BehindId(e) == (IF e.retry THEN <<<<"retry:", "ms", NL>>>> ELSE <<>>)
               \o DataPieces(e.data) \o <<<<NL>>>>
-----------------------------------------------------------------------------
SseStart ==
  /\ opened = FALSE /\ sbuf = <<>> /\ capacity = 0 /\ last_event_id = Nothing
  /\ wire = <<>> /\ formatted = <<>> /\ failed = FALSE /\ formats = 0

(* ioh_sse_stream_init.                                                    *)
SseStreamInit ==
  /\ ~opened
  /\ opened' = TRUE /\ capacity' = SseBuf
  /\ sbuf' = <<>> /\ last_event_id' = Nothing
  /\ wire' = <<>> /\ formatted' = <<>> /\ failed' = FALSE
  /\ UNCHANGED formats

(* ioh_sse_stream_destroy.                                                 *)
SseStreamDestroy ==
  /\ opened
  /\ opened' = FALSE /\ sbuf' = <<>> /\ capacity' = 0 /\ last_event_id' = Nothing
  /\ UNCHANGED <<wire, formatted, failed, formats>>

Formatting == opened /\ formats < MaxFormats /\ formats' = formats + 1

Stream            == [buf |-> sbuf, cap |-> capacity, n |-> 0]
StreamBecomes(st) == sbuf' = st.buf /\ capacity' = st.cap

(* ioh_sse_format_event: to the line of the identifier; then the copy of   *)
(* the identifier, which may fail; then the rest.                          *)
FormatEvent(e) ==
  /\ Formatting
  /\ \E a \in Appends(Stream, UpToId(e)) :
       IF a.n < Len(UpToId(e))
         THEN StreamBecomes(a) /\ failed' = TRUE /\ UNCHANGED <<last_event_id, formatted>>
         ELSE \/ /\ e.id # Nothing
                 /\ StreamBecomes(a) /\ last_event_id' = Nothing /\ failed' = TRUE
                 /\ UNCHANGED formatted
              \/ \E b \in Appends([a EXCEPT !.n = 0], BehindId(e)) :
                   LET done == b.n = Len(BehindId(e))
                   IN  /\ StreamBecomes(b)
                       /\ last_event_id' = IF e.id = Nothing THEN last_event_id ELSE e.id
                       /\ failed' = (failed \/ ~done)
                       /\ formatted' = IF done /\ ~failed THEN Append(formatted, e) ELSE formatted
  /\ UNCHANGED <<opened, wire>>

(* ioh_sse_format_comment.                                                 *)
FormatComment ==
  /\ Formatting
  /\ LET pieces == <<<<":">>, <<"text">>, <<NL, NL>>>>
     IN  \E a \in Appends(Stream, pieces) :
           StreamBecomes(a) /\ failed' = (failed \/ a.n < Len(pieces))
  /\ UNCHANGED <<opened, last_event_id, wire, formatted>>

(* ioh_sse_stream_flush, and the client receives what it returned.         *)
SseFlush ==
  /\ opened /\ sbuf # <<>>
  /\ wire' = wire \o sbuf
  /\ sbuf' = <<>>
  /\ UNCHANGED <<opened, capacity, last_event_id, formatted, failed, formats>>

SseNext ==
  \/ SseStreamInit \/ SseStreamDestroy \/ FormatComment \/ SseFlush
  \/ \E e \in Events : FormatEvent(e)
-----------------------------------------------------------------------------
(* How a client reads a stream (external), after the HTML standard: a line *)
(* is a field and its value, and a blank line dispatches what has data.    *)
NothingRead == [name |-> <<>>, data |-> <<>>, id |-> <<>>, events |-> <<>>]

ReadLine(d, line) ==
  IF line = <<>>
    THEN [d EXCEPT !.events = IF d.data = <<>> THEN @
                              ELSE Append(@, [name |-> d.name, data |-> Front(d.data)]),
                   !.name = <<>>, !.data = <<>>]
    ELSE CASE Head(line) = "data:"  -> [d EXCEPT !.data = @ \o Tail(line) \o <<NL>>]
           [] Head(line) = "event:" -> [d EXCEPT !.name = Tail(line)]
           [] Head(line) = "id:"    -> [d EXCEPT !.id = Tail(line)]
           [] OTHER -> d

Decoded(text) ==
  LET ends == Newlines(text) \cup {0}
      before(e) == Max({i \in ends : i < e})
      read[e \in ends] ==
        IF e = 0 THEN NothingRead ELSE ReadLine(read[before(e)], SubSeq(text, before(e) + 1, e - 1))
  IN  read[Max(ends)]

AsText(v) == IF v = Nothing THEN <<>> ELSE <<v>>

AsSent(e) == [name |-> AsText(e.event),
              data |-> IF e.data # <<>> /\ Last(e.data) = NL THEN Front(e.data) ELSE e.data]

(* What a client decodes from everything flushed and still buffered is the *)
(* events that were formatted, in their order, comments between them and   *)
(* data of several lines, of empty ones and of none included; a newline    *)
(* at the end of data is lost. A call that fails may leave a part of its   *)
(* event in the buffer, but takes none of the earlier ones back. Until     *)
(* then the identifier a client would resume from is last_event_id.        *)
StreamDecodes ==
  opened =>
    LET got  == Decoded(wire \o sbuf)
        want == [i \in DOMAIN formatted |-> AsSent(formatted[i])]
    IN  /\ IsPrefix(want, got.events)
        /\ ~failed => got.events = want /\ got.id = AsText(last_event_id)
=============================================================================
