----------------------------- MODULE HttpCodec ------------------------------
(***************************************************************************)
(* HttpResponseParser: the incremental parser of HTTP/1.1 responses.       *)
(*                                                                         *)
(* Bytes are grouped into the pieces the parser tells apart: a whole head, *)
(* a unit of body, a chunk-size line, the line break that ends a chunk, a  *)
(* blank trailer line.  A head is what its headers come to: the status     *)
(* class, whether the connection stays open, and how the body is framed.   *)
(* feed() keeps all it knows between two calls in its members, so where    *)
(* the reads split the bytes makes no difference beyond the piece at which *)
(* they split.                                                             *)
(***************************************************************************)
EXTENDS Integers, Sequences

\* 2xx, 429, and every other status.
StatusClasses == {"ok", "limit", "error"}

\* How parseHead finds the end of the body: no body (204, 304, 1xx), chunks,
\* a length, or the close of the connection.  "bad" is a head it cannot parse.
Framings == {"none", "chunked", "length", "close", "bad"}

Heads == [status : StatusClasses, keep : BOOLEAN, framing : Framings, length : Nat]

NoHead == [status |-> "ok", keep |-> TRUE, framing |-> "bad", length |-> 0]

Phases == {"Head", "FixedBody", "ChunkSize", "ChunkData", "ChunkDataCrlf", "Trailer",
           "UntilClose", "Done", "Error"}

\* reset(): a parser that waits for a head.  "none" is status 0.
Reset == [phase |-> "Head", remaining |-> 0, status |-> "none", keep |-> TRUE, body |-> <<>>]

\* What the head decides.  A body without length or chunks runs to the close,
\* whatever the connection header says.
ParseHead(p, head) ==
  LET q == [p EXCEPT !.status = head.status, !.keep = head.keep]
  IN CASE head.framing = "bad"     -> [p EXCEPT !.phase = "Error"]
       [] head.framing = "none"    -> [q EXCEPT !.phase = "Done"]
       [] head.framing = "chunked" -> [q EXCEPT !.phase = "ChunkSize"]
       [] head.framing = "length"  ->
            [q EXCEPT !.remaining = head.length,
                      !.phase = IF head.length = 0 THEN "Done" ELSE "FixedBody"]
       [] head.framing = "close"   -> [q EXCEPT !.keep = FALSE, !.phase = "UntilClose"]

\* One unit of a body of known size; `next` is the phase after the last unit.
Take(p, unit, next) ==
  [p EXCEPT !.body = Append(@, unit),
            !.remaining = @ - 1,
            !.phase = IF p.remaining = 1 THEN next ELSE @]

\* A chunk-size line: the chunk follows, or the trailer after the last one.
Chunk(p, size) ==
  [p EXCEPT !.remaining = size, !.phase = IF size = 0 THEN "Trailer" ELSE "ChunkData"]

\* feed() of one piece: t is its kind, head / size / unit its content.
Feed(p, piece) ==
  CASE p.phase = "Head" /\ piece.t = "head"         -> ParseHead(p, piece.head)
    [] p.phase = "FixedBody" /\ piece.t = "data"    -> Take(p, piece.unit, "Done")
    [] p.phase = "ChunkSize" /\ piece.t = "size"    -> Chunk(p, piece.size)
    [] p.phase = "ChunkData" /\ piece.t = "data"    -> Take(p, piece.unit, "ChunkDataCrlf")
    [] p.phase = "ChunkDataCrlf" /\ piece.t = "crlf" -> [p EXCEPT !.phase = "ChunkSize"]
    [] p.phase = "Trailer"                          ->
         IF piece.t = "crlf" THEN [p EXCEPT !.phase = "Done"] ELSE p
    [] p.phase = "UntilClose" /\ piece.t = "data"   -> [p EXCEPT !.body = Append(@, piece.unit)]
    [] OTHER                                        -> [p EXCEPT !.phase = "Error"]

\* finishOnClose(): the end of the connection ends only a body framed by it.
FinishOnClose(p) == [p EXCEPT !.phase = IF @ \in {"UntilClose", "Done"} THEN "Done" ELSE "Error"]

-----------------------------------------------------------------------------
(* The other end: how a server puts a response on the wire. *)

Piece(t, head, size, unit) == [t |-> t, head |-> head, size |-> size, unit |-> unit]

\* The pieces of a response with head `head` and the units `body`; "fin" is the
\* server closing after a body that the close has to end.
Wire(head, body) ==
  LET Data(i)  == Piece("data", NoHead, 0, body[i])
      Size(n)  == Piece("size", NoHead, n, 0)
      Crlf     == Piece("crlf", NoHead, 0, 0)
      Start    == <<Piece("head", head, 0, 0)>>
      Units    == [i \in 1 .. Len(body) |-> Data(i)]
  IN CASE head.framing \in {"none", "bad"} -> Start
       [] head.framing = "length"          -> Start \o Units
       [] head.framing = "chunked"         ->
            Start \o <<Size(Len(body))>> \o Units \o <<Crlf, Size(0), Crlf>>
       [] head.framing = "close"           -> Start \o Units \o <<Piece("fin", NoHead, 0, 0)>>
=============================================================================
