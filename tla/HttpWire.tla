------------------------------ MODULE HttpWire ------------------------------
(***************************************************************************)
(* One connection on the wire: Request::parse of src/src/http/request.rs   *)
(* reads a byte stream that arrives in any pieces, and the keep-alive loop *)
(* of src/src/http/connection.rs answers what it read. The parser starts   *)
(* every request with an empty count of the read buffer: what a read       *)
(* brought beyond the request goes into its body and is not parsed again.  *)
(*                                                                         *)
(* A byte stands for a piece of the stream: it belongs to a request, and   *)
(* to its head, to the blank line that ends the head, or to its body.      *)
(***************************************************************************)
EXTENDS Integers, Sequences, FiniteSets

CONSTANT MaxBuffer   (* MAX_REQUEST_SIZE, in pieces.                        *)

(* head: pieces before the blank line. body: pieces after it. close and     *)
(* expect: it has a Connection: close, an Expect: 100-continue.             *)
Shape == [head : Nat \ {0}, body : Nat, close : BOOLEAN, expect : BOOLEAN]

VARIABLE wire
(* script, polite: what the client sends, and that it waits for the answer  *)
(* to one request before it sends the next. next: the piece it sends next.  *)
(* eof: it has closed its side. inbound: pieces not yet read. buf: those of *)
(* buffer[..total_read]. pc: "read", "handle" or "closed". request: what    *)
(* parse returned. out: what was written to the client. handled: history,   *)
(* what was parsed so far.                                                  *)

Size(r) == wire.script[r].head + 1 + wire.script[r].body
Piece(r, k) ==
  [req |-> r, at |-> k, part |-> IF k <= wire.script[r].head THEN "head"
                                 ELSE IF k = wire.script[r].head + 1 THEN "blank" ELSE "body"]

NoRequest == [start |-> 0, owner |-> 0, body |-> << >>, close |-> FALSE, eof |-> FALSE]

WireInit(script, polite) ==
  wire = [script |-> script, polite |-> polite, next |-> [req |-> 1, at |-> 1], eof |-> FALSE, inbound |-> << >>,
          buf |-> << >>, pc |-> "read", request |-> NoRequest, out |-> << >>, handled |-> << >>]

(* The final answers, 100 Continue aside, by their places in out.           *)
Finals == {k \in DOMAIN wire.out : wire.out[k].status # 100}

(* The client sends the next piece. One that waits has the answer to every  *)
(* request before.                                                          *)
Send ==
  LET r == wire.next.req
      k == wire.next.at
  IN
  /\ ~ wire.eof
  /\ r <= Len(wire.script)
  /\ wire.polite => r <= Cardinality(Finals) + 1
  /\ wire' = [wire EXCEPT !.inbound = Append(@, Piece(r, k)),
                          !.next = IF k = Size(r) THEN [req |-> r + 1, at |-> 1] ELSE [req |-> r, at |-> k + 1]]

CloseSide == ~ wire.eof /\ wire' = [wire EXCEPT !.eof = TRUE]

(* The connection is reset, or broken when the server writes to it.         *)
Broken == wire.pc # "closed" /\ wire' = [wire EXCEPT !.pc = "closed"]

Blanks(buf) == {k \in DOMAIN buf : buf[k].part = "blank"}
HeaderEnd(buf) == CHOOSE k \in Blanks(buf) : \A j \in Blanks(buf) : k <= j
Owner(buf) == buf[HeaderEnd(buf)].req

(* A head from its first byte. Without its beginning it may not pass for    *)
(* one, and its fields may have been lost.                                  *)
Intact(buf) == buf[1].at = 1 /\ \A k \in 1..HeaderEnd(buf) : buf[k].req = buf[1].req
Fields(buf) ==
  LET shape == wire.script[Owner(buf)] IN
  {[length |-> shape.body, close |-> shape.close, expect |-> shape.expect]}
    \cup IF Intact(buf) THEN {} ELSE {[length |-> 0, close |-> FALSE, expect |-> FALSE]}

(* Mutation of Complete: the blank line counts as body.                     *)
CompleteEarly(buf, fields) == Len(buf) >= HeaderEnd(buf) + fields.length - 1

Complete(buf, fields) == Len(buf) >= HeaderEnd(buf) + fields.length

(* 400 for whatever parse refuses, and the connection is closed.            *)
BadRequest(before) == [before EXCEPT !.pc = "closed", !.out = Append(@, [status |-> 400, to |-> 0])]

(* parse returns: everything that was read after the head is the body.      *)
Parsed(before, fields) ==
  LET buf == before.buf
      request == [start |-> buf[1].at, owner |-> Owner(buf), close |-> fields.close,
                  body |-> SubSeq(buf, HeaderEnd(buf) + 1, Len(buf)), eof |-> wire.eof]
  IN [before EXCEPT !.pc = "handle", !.request = request, !.handled = Append(@, request)]

(* A read brings what fits; from the blank line on, each one looks again    *)
(* for the length, and asks for the rest.                                   *)
Read(n) ==
  LET buf == wire.buf \o SubSeq(wire.inbound, 1, n)
      before == [wire EXCEPT !.buf = buf, !.inbound = SubSeq(@, n + 1, Len(@))]
  IN
  /\ wire.pc = "read"
  /\ Len(buf) <= MaxBuffer
  /\ IF Blanks(buf) = {} THEN wire' = before
     ELSE \E fields \in Fields(buf) :
       LET asked == IF fields.expect
                    THEN [before EXCEPT !.out = Append(@, [status |-> 100, to |-> Owner(buf)])]
                    ELSE before
       IN IF Complete(buf, fields)
          THEN \/ wire' = Parsed(asked, fields)
               \/ ~ Intact(buf) /\ wire' = BadRequest(asked)
          ELSE wire' = asked

TooLarge == wire.pc = "read" /\ Len(wire.buf) = MaxBuffer /\ wire' = BadRequest(wire)

(* A read of no bytes: what came of the body is taken for all of it.        *)
EndOfFile ==
  /\ wire.pc = "read"
  /\ wire.eof /\ wire.inbound = << >>
  /\ Len(wire.buf) < MaxBuffer
  /\ IF Blanks(wire.buf) = {} THEN wire' = BadRequest(wire)
     ELSE \E fields \in Fields(wire.buf) :
       \/ wire' = Parsed(wire, fields)
       \/ ~ Intact(wire.buf) /\ wire' = BadRequest(wire)

(* Ten seconds without a byte, also between two requests.                   *)
ReadTimeout ==
  /\ wire.pc = "read"
  /\ wire.inbound = << >> /\ ~ wire.eof
  /\ Len(wire.buf) < MaxBuffer
  /\ wire' = BadRequest(wire)

(* Mutation of SendResponse: the count of the buffer is not reset.               *)
SendResponseKeeping ==
  /\ wire.pc = "handle"
  /\ wire' = [wire EXCEPT !.out = Append(@, [status |-> 200, to |-> wire.request.owner]),
                          !.pc = IF wire.request.close THEN "closed" ELSE "read",
                          !.request = NoRequest]

(* The answer is written; unless it is the last, the next request is read.  *)
SendResponse ==
  /\ wire.pc = "handle"
  /\ wire' = [wire EXCEPT !.out = Append(@, [status |-> 200, to |-> wire.request.owner]),
                          !.pc = IF wire.request.close THEN "closed" ELSE "read",
                          !.request = NoRequest, !.buf = << >>]

WireNext ==
  \/ Send
  \/ \E n \in 1..Len(wire.inbound) : Read(n)
  \/ CloseSide
  \/ Broken
  \/ TooLarge
  \/ EndOfFile
  \/ ReadTimeout
  \/ SendResponse
WireSpec(script, polite) == WireInit(script, polite) /\ [][WireNext]_wire
-----------------------------------------------------------------------------
Replies == {k \in Finals : wire.out[k].status = 200}

(* However the bytes of a client that waits for its answers are cut into    *)
(* reads, each request is handled as it was sent: from the start of its     *)
(* head to the end of its body. Only a client that closes its side before   *)
(* the end has a part of its body handled.                                  *)
WholeRequests ==
  wire.polite => \A h \in 1..Len(wire.handled) :
    LET request == wire.handled[h]
        shape == wire.script[request.owner]
    IN /\ request.owner = h /\ request.start = 1
       /\ \A k \in DOMAIN request.body :
            request.body[k] = [req |-> h, at |-> shape.head + 1 + k, part |-> "body"]
       /\ Len(request.body) = shape.body \/ request.eof

(* Bytes behind a request are lost with it, so that a client that does not  *)
(* wait may miss answers: but no request is answered twice, none before an  *)
(* earlier one, and none after the connection was refused with a 400.       *)
AnswersInOrder ==
  /\ \A a, b \in Replies : a < b => wire.out[a].to < wire.out[b].to
  /\ \A a \in DOMAIN wire.out : wire.out[a].status = 400 => a = Len(wire.out)
  /\ wire.polite => {wire.out[a].to : a \in Replies} = 1..Cardinality(Replies)

(* A client that waits has its requests read whole and answered one by one; *)
(* any other has them answered in order, each once at most.                 *)
WireIsSound == WholeRequests /\ AnswersInOrder
=============================================================================
