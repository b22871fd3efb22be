------------------------------- MODULE Multipart -------------------------------
(***************************************************************************)
(* The multipart/form-data parser (http/ioh_multipart.c), on forms as a    *)
(* client renders them and on bodies that end early.                       *)
(*                                                                         *)
(* A body is a sequence of tokens: the delimiter (two dashes and the       *)
(* boundary), CR LF, two dashes, a header line and any other octet. What   *)
(* the parser searches for are tokens, and a token that is cut in two is   *)
(* an octet it does not know. A header line is its name and parameters; a  *)
(* value is longer than one character and says whether it is read whole.   *)
(***************************************************************************)
EXTENDS Integers, SequencesExt, FiniteSetsExt

CONSTANTS
  Forms,       \* the parts clients send, each a sequence of [lines, data]
  Rooms,       \* sizes of the callers' arrays of parts
  Boundaries,  \* lengths of the boundary; -1: no such parameter
  MaxParts,    \* cfg->max_parts
  MaxPart,     \* cfg->max_part_size
  MaxTotal     \* cfg->max_total_size

VARIABLES form, body, boundary, room, parsed

multipartVars == <<form, body, boundary, room, parsed>>

Tok(t)  == [t |-> t]
Delim   == Tok("delimiter")
Crlf    == Tok("CRLF")
Dashes  == Tok("--")
Octet   == Tok("octet")
Line(kind, params, quoted) ==
  [t |-> "line", kind |-> kind, params |-> params, quoted |-> quoted]
LineLen == 2

Whole(v) == [of |-> v, whole |-> TRUE]
Absent   == [of |-> "", whole |-> TRUE]

ParseFails(rc)  == [rc |-> rc, parts |-> <<>>]
Parsed(got)  == [rc |-> "OK", parts |-> got]
NotYet       == ParseFails("none")

Count(s, kinds) == Cardinality({i \in DOMAIN s : s[i].t \in kinds})

Octets(s) == (boundary + 2) * Count(s, {"delimiter"}) + LineLen * Count(s, {"line"})
             + 2 * Count(s, {"CRLF", "--"}) + Count(s, {"octet"})

(* find_bytes, from a position on; 0 when there is none.                   *)
FindBytes(s, from, what) ==
  LET hits == {i \in from .. Len(s) - Len(what) + 1 : SubSeq(s, i, i + Len(what) - 1) = what}
  IN  IF hits = {} THEN 0 ELSE Min(hits)
-----------------------------------------------------------------------------
(* extract_param, on line i of the headers: the first place where the key  *)
(* stands, and "name=" also stands at the end of "filename=".              *)
Holding(line, key) ==
  {j \in DOMAIN line.params :
     line.params[j].key \in IF key = "name" THEN {"name", "filename"} ELSE {key}}

(* parse_part_headers leaves the line loop one character before the end of *)
(* the block: the last line is a character short, which an unquoted value  *)
(* at its end loses.                                                       *)
Value(lines, i, j) ==
  [of    |-> lines[i].params[j].of,
   whole |-> i < Len(lines) \/ j < Len(lines[i].params) \/ lines[i].quoted]

Lines(kind, lines) == {i \in DOMAIN lines : lines[i].kind = kind}

ExtractParam(lines, key) ==
  LET at == {i \in Lines("content-disposition", lines) : Holding(lines[i], key) # {}}
  IN  IF at = {} THEN Absent
      ELSE Value(lines, Max(at), Min(Holding(lines[Max(at)], key)))

PartOf(lines, data) ==
  LET types == Lines("content-type", lines)
  IN  [name         |-> ExtractParam(lines, "name"),
       filename     |-> ExtractParam(lines, "filename"),
       content_type |-> IF types = {} THEN Absent ELSE Value(lines, Max(types), 1),
       data         |-> data]
-----------------------------------------------------------------------------
TokenAt(s, i) == IF i <= Len(s) THEN s[i] ELSE Octet

(* The CR LF before a delimiter belongs to it.                             *)
Stripped_fault(raw) == IF Len(raw) >= 2 /\ Last(raw) = Crlf THEN Front(raw) ELSE raw

Stripped(raw) == IF raw # <<>> /\ Last(raw) = Crlf THEN Front(raw) ELSE raw

(* The loop of ioh_multipart_parse, at a position behind a delimiter line. *)
RECURSIVE PartsFrom(_, _, _)
PartsFrom(s, pos, got) ==
  LET hdr   == FindBytes(s, pos, <<Crlf, Crlf>>)
      next  == FindBytes(s, hdr + 2, <<Delim>>)
      lines == SelectSeq(SubSeq(s, pos, hdr - 1), LAMBDA x : x.t = "line")
      data  == Stripped(SubSeq(s, hdr + 2, next - 1))
      more  == Append(got, PartOf(lines, data))
      total == MapThenSumSet(LAMBDA i : Octets(more[i].data), DOMAIN more)
  IN  CASE pos > Len(s) -> Parsed(got)
        [] pos <= Len(s) /\ (hdr = 0 \/ next = 0) -> ParseFails("EINVAL")
        [] OTHER ->
             CASE Octets(data) > MaxPart \/ total > MaxTotal    -> ParseFails("E2BIG")
               [] Len(got) >= room \/ Len(got) >= MaxParts     -> ParseFails("E2BIG")
               [] Lines("content-disposition", lines) = {}     -> ParseFails("EINVAL")
               [] TokenAt(s, next + 1) = Dashes                     -> Parsed(more)
               [] TokenAt(s, next + 1) = Crlf                       -> PartsFrom(s, next + 2, more)
               [] OTHER                                        -> ParseFails("EINVAL")

(* ioh_multipart_boundary, and with what it found ioh_multipart_parse.     *)
BoundaryOk == boundary > 0

Parse(s) ==
  LET d == FindBytes(s, 1, <<Delim>>)
  IN  IF ~BoundaryOk THEN ParseFails("EINVAL")
      ELSE IF Octets(s) > MaxTotal THEN ParseFails("E2BIG")
      ELSE IF s = <<>> THEN Parsed(<<>>)
      ELSE IF boundary > 256 \/ d = 0 THEN ParseFails("EINVAL")
      ELSE CASE TokenAt(s, d + 1) = Dashes -> Parsed(<<>>)
             [] TokenAt(s, d + 1) = Crlf   -> PartsFrom(s, d + 2, <<>>)
             [] OTHER                 -> ParseFails("EINVAL")
-----------------------------------------------------------------------------
(* How a client renders a form (external), after RFC 7578.                 *)
PartText(part) ==
  <<Delim, Crlf>> \o FlattenSeq([i \in DOMAIN part.lines |-> <<part.lines[i], Crlf>>])
  \o <<Crlf>> \o part.data \o <<Crlf>>

Rendered(f) == FlattenSeq([i \in DOMAIN f |-> PartText(f[i])]) \o <<Delim, Dashes, Crlf>>

MultipartInit ==
  form = <<>> /\ body = <<>> /\ boundary = 0 /\ room = 0 /\ parsed = NotYet

(* A request with a form arrives, whole or cut at any octet.               *)
MultipartArrive ==
  /\ room = 0
  /\ \E f \in Forms : LET text == Rendered(f) IN
       /\ form' = f
       /\ \/ \E k \in 0 .. Len(text) : body' = SubSeq(text, 1, k)
          \/ \E k \in 1 .. Len(text) : body' = [SubSeq(text, 1, k) EXCEPT ![k] = Octet]
  /\ boundary' \in Boundaries /\ room' \in Rooms
  /\ UNCHANGED parsed

MultipartParse ==
  /\ room # 0 /\ parsed = NotYet
  /\ parsed' = Parse(body)
  /\ UNCHANGED <<form, body, boundary, room>>

MultipartNext == MultipartArrive \/ MultipartParse
-----------------------------------------------------------------------------
Sent(part, key) ==
  LET ps == {p \in UNION {ToSet(part.lines[i].params) :
                          i \in Lines("content-disposition", part.lines)} : p.key = key}
  IN  IF ps = {} THEN Absent ELSE Whole((CHOOSE p \in ps : TRUE).of)

(* The value ends the headers of its part without a quote.                 *)
AtEnd(part, key) ==
  LET line == Last(part.lines)
  IN  line.kind = "content-disposition" /\ ~line.quoted /\ Last(line.params).key = key

(* The file of a part is named before its field, or without one.           *)
FileFirst(part) ==
  \E i \in Lines("content-disposition", part.lines) :
    part.lines[i].params[1].key = "filename"

Recovered(part, got) ==
  /\ got.data = part.data
  /\ AtEnd(part, "filename") \/ got.filename = Sent(part, "filename")
  /\ AtEnd(part, "name") \/ FileFirst(part) \/ got.name = Sent(part, "name")

Acceptable(f) ==
  /\ boundary \in 1 .. 256 /\ Octets(body) <= MaxTotal
  /\ Len(f) <= Min({room, MaxParts})
  /\ \A i \in DOMAIN f : Octets(f[i].data) <= MaxPart
                         /\ Lines("content-disposition", f[i].lines) # {}

(* ioh_multipart_parse accepts a complete form exactly if it is within the *)
(* limits and every part has a disposition, and tells every part as it was *)
(* sent, data with line ends and dashes of its own included. Of a form     *)
(* that ends early, at whatever octet, it accepts nothing. There are three *)
(* exceptions, each of them against the header or a test. A body that ends *)
(* behind a delimiter line is accepted with the parts before the line,     *)
(* although it is not closed. A value without quotes that ends the headers *)
(* of its part is a character short. The name of a part whose file is      *)
(* named first is the name of the file, since "filename=" has "name=" in   *)
(* it.                                                                     *)
PartsRecovered ==
  parsed # NotYet =>
    LET complete == IsPrefix(Front(Rendered(form)), body)
        told     == Len(parsed.parts)
    IN  /\ complete => (parsed.rc = "OK" <=> Acceptable(form))
        /\ parsed.rc = "OK" =>
             /\ \/ complete /\ told = Len(form)
                \/ body = <<>> /\ told = 0
                \/ IsSuffix(<<Delim, Crlf>>, body) /\ told = Count(body, {"delimiter"}) - 1
             /\ \A i \in 1 .. told : Recovered(form[i], parsed.parts[i])

(* The content type of a part is the one its header gives                  *)
(* (http/ioh_multipart.h:19, "part content-type").                         *)
ContentTypeWhole ==
  \A i \in DOMAIN parsed.parts : parsed.parts[i].content_type.whole
=============================================================================
