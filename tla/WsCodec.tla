------------------------------ MODULE WsCodec -------------------------------
(***************************************************************************)
(* WsFrameDecoder: frames out of a stream of bytes that arrives in pieces. *)
(*                                                                         *)
(* The units of the stream are what the decoder tells apart: the first     *)
(* byte of a frame (final or not, and its opcode), the length after it,    *)
(* and units of payload.  The sink's callbacks run in the middle of feed() *)
(* and may reset the decoder, so feed() is a function on the record c of   *)
(* the process that holds the decoder, and the callbacks are parameters.   *)
(* Masking is left out, and so is the staging of bytes fed from inside a   *)
(* callback: TlsStream::doRead never re-enters itself.                     *)
(***************************************************************************)
EXTENDS Integers, Sequences

CONSTANTS
  MaxMessage,          \* maxMessage_
  MaxControl,          \* the 125 bytes a control frame may carry
  OnWsMessage(_, _, _),  \* the sink: process, opcode, payload
  OnWsControl(_, _)    \* the sink: process, opcode

ControlOps == {"Close", "Ping", "Pong"}
DataOps    == {"Text", "Binary"}

\* The units of one frame.
Frame(fin, op, body) == <<[fin |-> fin, op |-> op], [len |-> Len(body)]>> \o body

NewDecoder ==
  [buffer |-> <<>>, fragments |-> <<>>, inFragmentedMessage |-> FALSE, fragmentOpcode |-> "Text",
   epoch |-> 0]

HasHeader(d) == Len(d.buffer) >= 2
Length(d)    == d.buffer[2].len

Complete(d) == Len(d.buffer) >= 2 + Length(d)

Body(d)    == SubSeq(d.buffer, 3, 2 + Length(d))
Consume(d) == [d EXCEPT !.buffer = SubSeq(@, 3 + Length(d), Len(@))]

Returns(c, status) == [c |-> c, status |-> status]

RECURSIVE Decode(_, _)

\* After a callback: the frames that are left, unless it reset the decoder.
Resume(c, epoch) == IF c.decoder.epoch # epoch THEN Returns(c, "Ok") ELSE Decode(c, epoch)

\* Mutant: a control frame ends the fragments before it.
ForgetFragments(c, epoch, h, body) ==
  IF ~h.fin \/ Len(body) > MaxControl THEN Returns(c, "ProtocolError")
  ELSE Resume(OnWsControl([c EXCEPT !.decoder.fragments = <<>>], h.op), epoch)

OnControlFrame(c, epoch, h, body) ==
  IF ~h.fin \/ Len(body) > MaxControl THEN Returns(c, "ProtocolError")
  ELSE Resume(OnWsControl(c, h.op), epoch)

OnContinuation(c, epoch, h, body) ==
  LET d     == c.decoder
      whole == d.fragments \o body
      more  == [d EXCEPT !.fragments = whole]
      done  == [d EXCEPT !.fragments = <<>>, !.inFragmentedMessage = FALSE]
  IN  IF ~d.inFragmentedMessage THEN Returns(c, "ProtocolError")
      ELSE IF Len(whole) > MaxMessage THEN Returns(c, "MessageTooBig")
      ELSE IF ~h.fin THEN Decode([c EXCEPT !.decoder = more], epoch)
      ELSE Resume(OnWsMessage([c EXCEPT !.decoder = done], d.fragmentOpcode, whole), epoch)

OnDataFrame(c, epoch, h, body) ==
  LET first == [c.decoder EXCEPT !.fragments = body, !.inFragmentedMessage = TRUE,
                                 !.fragmentOpcode = h.op]
  IN  IF c.decoder.inFragmentedMessage THEN Returns(c, "ProtocolError")
      ELSE IF ~h.fin THEN Decode([c EXCEPT !.decoder = first], epoch)
      ELSE Resume(OnWsMessage(c, h.op, body), epoch)

OnFrame(c, epoch, h, body) ==
  CASE h.op \in ControlOps    -> OnControlFrame(c, epoch, h, body)
    [] h.op = "Continuation"  -> OnContinuation(c, epoch, h, body)
    [] h.op \in DataOps       -> OnDataFrame(c, epoch, h, body)
    [] OTHER                  -> Returns(c, "ProtocolError")

\* The loop of feed().
Decode(c, epoch) ==
  LET d == c.decoder
  IN  IF ~HasHeader(d) THEN Returns(c, "Ok")
      ELSE IF Length(d) > MaxMessage THEN Returns(c, "MessageTooBig")
      ELSE IF ~Complete(d) THEN Returns(c, "Ok")
      ELSE OnFrame([c EXCEPT !.decoder = Consume(d)], epoch, d.buffer[1], Body(d))

\* feed(): what it returns, and the process after it.
Feed(c, units) ==
  Decode([c EXCEPT !.decoder.buffer = @ \o units], c.decoder.epoch)
=============================================================================
