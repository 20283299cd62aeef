----------------------------- MODULE HttpClient -----------------------------
(***************************************************************************)
(* HttpClient: one keep-alive connection to one origin, requests sent one  *)
(* at a time in the order they were queued.                                *)
(*                                                                         *)
(* The client and its callbacks run on one thread and call each other      *)
(* synchronously: completing a request runs the caller's callback, which   *)
(* may queue another request, which may fail on the spot and run the next  *)
(* callback.  A handler is therefore a function from the client before to  *)
(* the client after the whole chain of calls.  The owner of the client is  *)
(* a parameter: Callback(o, what, answer) is what the owner o becomes when *)
(* its request `what` is answered, and what it posts while it is at it.    *)
(*                                                                         *)
(* A client is a record:                                                   *)
(*   queue       queue_, of [id, what, written, attempts]                  *)
(*   stream      stream_: "closed", "connecting" or "open"                 *)
(*   connecting  connecting_                                               *)
(*   paused      why pausedUntilMs_ lies in the future: "no", "limit"      *)
(*               (a 429) or "backoff" (a failed connect)                   *)
(*   pauseTimer, idleTimer    the timer is armed                           *)
(*   requestTimer             the request whose deadline requestTimer_     *)
(*               holds, 0 for none                                         *)
(*   deadlines   requests whose deadline is in the event loop              *)
(*   parser      parser_                                                   *)
(*   owner       the state of the caller                                   *)
(* and, of the other end and of the network,                               *)
(*   srv         requests the server holds on this connection              *)
(*   down        pieces under way to the client, each with the request it  *)
(*               answers                                                   *)
(*   dead        the peer has reset the connection, and the client has not *)
(*               been told yet                                             *)
(*   host        "up", "down" (connects fail) or "unknown" (its name does  *)
(*               not resolve)                                              *)
(* and, for the properties,                                                *)
(*   nextId      the identity of the next request                          *)
(*   lastSent, inOrder    the last request written, and whether each came  *)
(*               after the one before it                                   *)
(*   ownAnswers  whether each response given to a request was its own      *)
(***************************************************************************)
EXTENDS HttpCodec

CONSTANTS
  RetryLimit,        \* connection attempts a request survives (3 in the code)
  Callback(_, _, _)  \* the owner's callbacks

NewClient(owner) ==
  [queue |-> <<>>, stream |-> "closed", connecting |-> FALSE, paused |-> "no",
   pauseTimer |-> FALSE, idleTimer |-> FALSE, requestTimer |-> 0, deadlines |-> {},
   parser |-> Reset, owner |-> owner, srv |-> <<>>, down |-> <<>>, dead |-> FALSE,
   host |-> "up", nextId |-> 1, lastSent |-> 0, inOrder |-> TRUE, ownAnswers |-> TRUE]

\* The head request is on the wire and waits for its response.
Awaiting(h) == h.queue # <<>> /\ Head(h.queue).written

Answer(outcome, parser) ==
  [outcome |-> outcome, status |-> parser.status, keep |-> parser.keep, body |-> parser.body]

\* TlsStream::close(): no callback, and nothing more of this connection arrives.
CloseStream(h) == [h EXCEPT !.stream = "closed", !.srv = <<>>, !.down = <<>>, !.dead = FALSE]

CancelRequestTimer(h) == [h EXCEPT !.deadlines = @ \ {h.requestTimer}, !.requestTimer = 0]

DisarmTimers(h) == [CancelRequestTimer(h) EXCEPT !.pauseTimer = FALSE, !.idleTimer = FALSE]

ArmIdleTimer(h) == IF h.stream = "open" THEN [h EXCEPT !.idleTimer = TRUE] ELSE h

\* The units of a response are all of the answer to request `id`, and end where it
\* does (a body that only the close ends cannot be told from a truncated one).
IsAnswerTo(id, answer) ==
  LET body == answer.body
  IN answer.outcome = "ok" =>
       /\ \A k \in DOMAIN body : body[k].of = id /\ (body[k].last => k = Len(body))
       /\ answer.keep /\ body # <<>> => body[Len(body)].last

\* Op(v), for a v that is evaluated once.
With(v, Op(_)) == CHOOSE r \in {Op(x) : x \in {v}} : TRUE

RECURSIVE Pump(_), PostAll(_, _), CompleteHead(_, _), OnTlsClosed(_), CancelEach(_, _)

\* postJson: the request joins the queue.
PostJson(h, what) ==
  Pump([h EXCEPT !.queue = Append(@, [id |-> h.nextId, what |-> what, written |-> FALSE,
                                      attempts |-> 0]),
                 !.nextId = @ + 1])

\* The posts a callback makes, one after the other.
PostAll(h, whats) ==
  IF whats = <<>> THEN h
  ELSE With(PostJson(h, Head(whats)), LAMBDA h1 : PostAll(h1, Tail(whats)))

\* completeHead: pop first, then call back, then send the next one.
CompleteHead(h, answer) ==
  With(CancelRequestTimer(h), LAMBDA h1 :
    IF h1.queue = <<>> THEN h1
    ELSE LET req == Head(h1.queue)
         IN With(Callback(h1.owner, req.what, answer), LAMBDA cb :
              With(PostAll([h1 EXCEPT !.queue = Tail(@), !.owner = cb.owner,
                                      !.ownAnswers = @ /\ IsAnswerTo(req.id, answer)],
                           cb.posts),
                   Pump)))

\* stream_.connect: a name that does not resolve fails on the spot.
Connect(h) ==
  IF h.host # "unknown"
  THEN [h EXCEPT !.connecting = TRUE, !.parser = Reset, !.stream = "connecting"]
  ELSE CompleteHead([h EXCEPT !.connecting = FALSE, !.parser = Reset], Answer("Transport", Reset))

\* The end of pump(): the head request goes out and its deadline starts.  A write
\* on a connection the peer has reset fails inside stream_.send.
Write(h) ==
  LET id == Head(h.queue).id
      h1 == [h EXCEPT !.idleTimer = FALSE, !.queue[1].written = TRUE, !.parser = Reset]
      h2 == IF h1.dead
            THEN OnTlsClosed(CloseStream(h1))
            ELSE [h1 EXCEPT !.srv = Append(@, [id |-> id, what |-> Head(h1.queue).what]),
                            !.lastSent = id, !.inOrder = @ /\ h1.lastSent < id]
  IN [h2 EXCEPT !.requestTimer = id, !.deadlines = @ \cup {id}]

Pump(h) ==
  IF h.queue = <<>> THEN ArmIdleTimer(h)
  ELSE IF h.stream # "open" THEN IF h.connecting THEN h ELSE Connect(h)
  ELSE IF Awaiting(h) THEN h
  ELSE IF h.paused # "no" THEN [h EXCEPT !.pauseTimer = TRUE]
  ELSE Write(h)

\* Mutant: a request that was on the wire goes out again on the next connection.
ReplayOnClose(h) ==
  With(DisarmTimers([h EXCEPT !.connecting = FALSE]), LAMBDA h1 :
    IF h1.queue = <<>> THEN h1
    ELSE IF Head(h1.queue).attempts >= RetryLimit
    THEN CompleteHead(h1, Answer("Transport", Reset))
    ELSE Pump([h1 EXCEPT !.queue[1].attempts = @ + 1, !.queue[1].written = FALSE]))

\* Mutant: the attempt that failed still counts as under way.
StillConnecting(h) ==
  With(DisarmTimers(h), LAMBDA h1 :
    IF h1.queue = <<>> THEN h1
    ELSE IF Awaiting(h1) \/ Head(h1.queue).attempts >= RetryLimit
    THEN CompleteHead(h1, Answer("Transport", Reset))
    ELSE Pump([h1 EXCEPT !.queue[1].attempts = @ + 1, !.paused = "backoff"]))

\* onTlsClosed: the connection ended, or could not be made.  What was written is
\* answered, from a body that the close completes or with an error; what was not is
\* tried again on a new connection.
OnTlsClosed(h) ==
  With(DisarmTimers([h EXCEPT !.connecting = FALSE]), LAMBDA h1 :
    LET end == FinishOnClose(h1.parser)
    IN IF h1.queue = <<>> THEN h1
       ELSE IF Awaiting(h1) /\ end.phase = "Done" /\ end.status # "none"
       THEN CompleteHead(h1, Answer("ok", end))
       ELSE IF Awaiting(h1) \/ Head(h1.queue).attempts >= RetryLimit
       THEN CompleteHead(h1, Answer("Transport", Reset))
       ELSE Pump([h1 EXCEPT !.queue[1].attempts = @ + 1, !.paused = "backoff"]))

-----------------------------------------------------------------------------
(* What the event loop dispatches. *)

OnTlsConnected(h) == Pump([h EXCEPT !.stream = "open", !.connecting = FALSE])

\* A response that is complete: the stream follows the connection header, a 429
\* holds the queue, and the request is answered.
CompleteResponse(h, p) ==
  LET h1 == [(IF p.keep THEN h ELSE CloseStream(h)) EXCEPT !.parser = Reset]
      h2 == IF p.status = "limit" THEN [h1 EXCEPT !.paused = "limit"] ELSE h1
  IN CompleteHead(h2, Answer(IF p.status = "ok" THEN "ok" ELSE "Http", p))

\* onTlsData / processBytes of the next piece.  Bytes nobody asked for end the
\* connection.
OnTlsData(h) ==
  LET piece == Head(h.down)
      h1    == [h EXCEPT !.down = Tail(@)]
      p     == Feed(h1.parser, piece)
  IN IF piece.t = "fin" THEN OnTlsClosed(CloseStream(h1))
     ELSE IF ~Awaiting(h1) THEN Pump(CloseStream(h1))
     ELSE CASE p.phase = "Error" -> CompleteHead(CloseStream(h1), Answer("Parse", Reset))
            [] p.phase = "Done"  -> CompleteResponse(h1, p)
            [] OTHER             -> [h1 EXCEPT !.parser = p]

\* The peer closes or resets the connection, or the attempt to connect fails.
OnStreamLost(h) == OnTlsClosed(CloseStream(h))


\* The deadline of a request: the connection goes, so that a late response cannot
\* be taken for the answer to the next request.
OnRequestTimeout(h, id) ==
  CompleteHead(CloseStream([h EXCEPT !.deadlines = @ \ {id}, !.requestTimer = 0]),
               Answer("Timeout", Reset))

OnPauseTimer(h) == Pump([h EXCEPT !.pauseTimer = FALSE, !.paused = "no"])

OnIdleTimer(h) ==
  LET h1 == [h EXCEPT !.idleTimer = FALSE]
  IN IF h1.queue = <<>> THEN CloseStream(h1) ELSE h1

\* cancelAll: the queue is taken away first, then its requests fail one by one; what
\* their callbacks post starts a queue and a connection of its own.
CancelEach(h, requests) ==
  IF requests = <<>> THEN h
  ELSE With(Callback(h.owner, Head(requests).what, Answer("Transport", Reset)), LAMBDA cb :
         With(PostAll([h EXCEPT !.owner = cb.owner], cb.posts), LAMBDA h1 :
           CancelEach(h1, Tail(requests))))

CancelAll(h) ==
  CancelEach(CloseStream(DisarmTimers([h EXCEPT !.connecting = FALSE, !.queue = <<>>])), h.queue)
=============================================================================
