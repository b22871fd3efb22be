-------------------------------- MODULE Static --------------------------------
(***************************************************************************)
(* Static files (static/ioh_static.c) and the single-page-application      *)
(* fallback (static/ioh_spa.c), with a client that keeps a copy and asks   *)
(* whether it is still good, and a deployment that writes and removes      *)
(* files meanwhile.                                                        *)
(*                                                                         *)
(* A request makes three calls on the file system that others may come     *)
(* between: the stat of ioh_spa_serve, the stat of ioh_static_serve and    *)
(* the read. A file is its version, its size and its modification time in  *)
(* seconds; it is replaced at once (external), never seen half written.    *)
(***************************************************************************)
EXTENDS Integers

CONSTANTS
  Paths,      \* request paths: [file, safe, api, ext, hashed]
  FileNames,      \* names of files; "index" is cfg->index_file
  FileSizes,  \* their sizes
  Ranges,     \* Range headers: [kind, from, to]
  MaxWrites,  \* writes in a behaviour
  MaxTime     \* modification times, in seconds

VARIABLES
  fs,      \* the files that exist
  writes,  \* writes so far: the version of the next is one more
  newest,  \* the latest modification time of any of them
  ordered, \* whether each was later than all before it
  copy,    \* what the client keeps: a path, the version it got, its ETag and Last-Modified
  sreq,    \* the request being served
  answer   \* the last response

staticVars == <<fs, writes, newest, ordered, copy, sreq, answer>>

NoRange   == [kind |-> "none", from |-> 0, to |-> 0]
NoTag     == [mtime |-> 0, size |-> 0]
NoCopy    == [path |-> "", of |-> "", version |-> 0, etag |-> NoTag, modified |-> 0]
Idling    == [at |-> "idle"]
NoAnswer  == [status |-> 0]
Exists(f) == f \in DOMAIN fs

(* ioh_etag_generate.                                                      *)
EtagGenerate_fault(st) == [mtime |-> 1, size |-> st.size]

EtagGenerate(st) == [mtime |-> st.mtime, size |-> st.size]

(* parse_range: the octets asked for, none if the header is not one it     *)
(* takes or does not lie in the file.                                      *)
ParseRange(r, size) ==
  LET start == IF r.kind = "suffix" THEN size - r.from ELSE r.from
      end   == IF r.kind = "closed" THEN r.to ELSE size - 1
  IN  IF \/ r.kind \notin {"suffix", "open", "closed"}
         \/ r.kind = "suffix" /\ (r.from = 0 \/ r.from > size)
         \/ start > end \/ end >= size
        THEN {} ELSE start .. end
-----------------------------------------------------------------------------
StaticInit ==
  /\ fs = [f \in {} |-> 0] /\ writes = 0 /\ newest = 0 /\ ordered = TRUE
  /\ copy = NoCopy /\ sreq = Idling /\ answer = NoAnswer

(* A deployment writes a file, with the time of the writing or with one it *)
(* brings along (external).                                                *)
WriteFile(f, size, mtime) ==
  /\ writes < MaxWrites
  /\ writes' = writes + 1
  /\ fs' = [g \in DOMAIN fs \cup {f} |->
              IF g = f THEN [version |-> writes + 1, size |-> size, mtime |-> mtime] ELSE fs[g]]
  /\ ordered' = (ordered /\ mtime > newest)
  /\ newest' = IF mtime > newest THEN mtime ELSE newest
  /\ UNCHANGED <<copy, sreq, answer>>

RemoveFile(f) ==
  /\ Exists(f)
  /\ fs' = [g \in DOMAIN fs \ {f} |-> fs[g]]
  /\ UNCHANGED <<writes, newest, ordered, copy, sreq, answer>>

(* A client asks for a path, of a mount of static files or of a single-    *)
(* page application. If it has a copy it may send the tag, the time of     *)
(* modification, or both.                                                  *)
ClientAsks(p, spa, inm, ims, range) ==
  /\ sreq = Idling
  /\ inm \/ ims => copy.path = p
  /\ sreq' = [at |-> IF spa THEN "spa" ELSE "static", path |-> p, file |-> Paths[p].file,
              inm |-> inm, ims |-> ims, range |-> range, cache |-> "max-age"]
  /\ answer' = NoAnswer
  /\ UNCHANGED <<fs, writes, newest, ordered, copy>>

ENOENT == -2
EIO    == -5
EACCES == -13

Fail(rc) == sreq' = Idling /\ answer' = [status |-> rc] /\ UNCHANGED copy

(* ioh_spa_serve up to its call of ioh_static_serve: with the request, or  *)
(* with one of its own for the index, which has no headers.                *)
SpaServe ==
  /\ sreq.at = "spa"
  /\ LET p == Paths[sreq.path]
         cache == IF p.hashed THEN "immutable" ELSE "max-age"
     IN  IF p.api THEN Fail(ENOENT)
         ELSE IF Exists(p.file)
                THEN sreq' = [sreq EXCEPT !.at = "static", !.cache = cache] /\ UNCHANGED <<copy, answer>>
         ELSE IF p.ext THEN Fail(ENOENT)
         ELSE /\ sreq' = [sreq EXCEPT !.at = "static", !.file = "index", !.inm = FALSE,
                                      !.ims = FALSE, !.range = NoRange, !.cache = "no-cache"]
              /\ UNCHANGED <<copy, answer>>
  /\ UNCHANGED <<fs, writes, newest, ordered>>

(* If-None-Match, and if that does not match If-Modified-Since.            *)
EtagMatches(st)    == sreq.inm /\ copy.etag = EtagGenerate(st)
Unmodified(st)  == sreq.ims /\ copy.modified >= st.mtime

(* ioh_static_serve up to fopen: the path, the stat, the conditions.       *)
StaticServe ==
  /\ sreq.at = "static"
  /\ IF sreq.file # "index" /\ ~Paths[sreq.path].safe THEN Fail(EACCES)
     ELSE IF ~Exists(sreq.file) THEN Fail(ENOENT)
     ELSE LET st == fs[sreq.file]
          IN  /\ IF EtagMatches(st) \/ Unmodified(st)
                   THEN /\ answer' = [status |-> 304, version |-> st.version, cache |-> sreq.cache,
                                      by |-> IF EtagMatches(st) THEN "etag" ELSE "date"]
                        /\ sreq' = Idling
                   ELSE /\ sreq' = [at |-> "read", path |-> sreq.path, file |-> sreq.file, st |-> st,
                                    range |-> ParseRange(sreq.range, st.size), cache |-> sreq.cache]
                        /\ UNCHANGED answer
              /\ UNCHANGED copy
  /\ UNCHANGED <<fs, writes, newest, ordered>>

(* fopen to the end: as many octets as the stat or the range said, or an   *)
(* error. The client keeps a complete answer.                              *)
StaticRead ==
  /\ sreq.at = "read"
  /\ LET st   == sreq.st
         part == sreq.range # {}
         last == IF part THEN CHOOSE i \in sreq.range : i + 1 \notin sreq.range ELSE st.size - 1
     IN  IF ~Exists(sreq.file) THEN Fail(ENOENT)
         ELSE IF last >= fs[sreq.file].size THEN Fail(EIO)
         ELSE /\ answer' = [status |-> IF part THEN 206 ELSE 200,
                            version |-> fs[sreq.file].version, cache |-> sreq.cache]
              /\ copy' = IF part THEN copy
                         ELSE [path |-> sreq.path, of |-> sreq.file, version |-> fs[sreq.file].version,
                               etag |-> EtagGenerate(st), modified |-> st.mtime]
              /\ sreq' = Idling
  /\ UNCHANGED <<fs, writes, newest, ordered>>

StaticNext ==
  \/ \E f \in FileNames, size \in FileSizes, mtime \in 1 .. MaxTime : WriteFile(f, size, mtime)
  \/ \E f \in FileNames : RemoveFile(f)
  \/ \E p \in DOMAIN Paths, spa, inm, ims \in BOOLEAN, range \in Ranges \cup {NoRange} :
       ClientAsks(p, spa, inm, ims, range)
  \/ SpaServe \/ StaticServe \/ StaticRead
-----------------------------------------------------------------------------
(* "Not modified" is true: as long as each write gave its file a later     *)
(* time than any before, a 304 tells the client that its copy has the      *)
(* octets the file had when ioh_static_serve looked, though the file was   *)
(* replaced between an earlier stat and its read (so that the client has   *)
(* new octets under an old tag), was removed and written again, or was     *)
(* answered by the index in the meantime. A copy of the index under the    *)
(* path of another file is excepted where its date decides: that file may  *)
(* be the older of the two.                                                *)
RevalidationSound ==
  ordered /\ answer.status = 304 /\ (copy.of = Paths[copy.path].file \/ answer.by = "etag")
    => copy.version = answer.version
=============================================================================
