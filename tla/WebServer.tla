----------------------------- MODULE WebServer -----------------------------
(***************************************************************************)
(* WebServer: server_base.h and http_server.h over Boost.Asio.  Every      *)
(* connection is a chain of asynchronous operations, each started by the   *)
(* handler of the one before: accept, async_read_until the blank line,     *)
(* async_read of the rest of the body, async_write, and so on again.  The  *)
(* threads of start() run the handlers, of several connections at once.    *)
(*                                                                         *)
(* Bytes are taken in units: the request line of request n, its fields,    *)
(* the end of the head with the blank line, and each byte of the body.  A  *)
(* read may end behind any of them.  Lines end in CRLF, and a line that    *)
(* begins with bytes of a body is no request line.  A client may send its  *)
(* next request before it has the answer to the last; one in Patient does  *)
(* not.                                                                    *)
(*                                                                         *)
(* Nothing catches what a handler throws: the process ends with it.        *)
(***************************************************************************)
EXTENDS Naturals, Integers, Sequences, FiniteSets

CONSTANTS
  Clients,
  Patient,      \* the clients that wait for an answer before they ask again
  Requests,     \* [length, rest, resource, version]: see below
  NoLength,     \* a request without Content-Length
  BadLength,    \* one whose Content-Length stoull does not take
  MaxRequests,  \* bound on the requests of a client
  SizeMod       \* 2^64, the modulus of size_t

BodyLength(r) == IF r.length \in {NoLength, BadLength} THEN 0 ELSE r.length

\* length: what Content-Length says.  rest: the end of the head is left behind the
\* first line that is no header.  resource: which one matches path and method,
\* "string" reads the content.  version: over 1.05, not over it, or no number.
\* No client ever sends as many bytes as a size_t can count.
ASSUME WebAssumption ==
  /\ Patient \subseteq Clients
  /\ \A r \in Requests :
       /\ r.length \in Nat \union {NoLength, BadLength} /\ r.rest \in 0 .. 1
       /\ r.resource \in {"string", "other", "none"} /\ r.version \in {"keep", "close", "bad"}
  /\ MaxRequests \in Nat /\ SizeMod \in Nat \ {0}
  /\ \E most \in 0 .. SizeMod :
       /\ \A r \in Requests : BodyLength(r) <= most
       /\ MaxRequests * (most + 3) < SizeMod

VARIABLES
  sent,       \* the requests of each client
  wire,       \* units sent and not yet read
  left,       \* clients that have closed their end
  accepting,  \* an async_accept is outstanding
  op,         \* what each connection is waiting for
  buffer,     \* its read_buffer
  need,       \* what is left of transfer_exactly
  request,    \* the number of the request being served, 0 if it was not understood
  replies,    \* what each client got: <<request, bytes of content>>
  crashed     \* the process has ended

server == <<accepting, op, buffer, need, request, replies, crashed>>
vars   == <<sent, wire, left, server>>

Init ==
  /\ sent = [c \in Clients |-> <<>>] /\ wire = [c \in Clients |-> <<>>] /\ left = {}
  /\ accepting = TRUE
  /\ op = [c \in Clients |-> "unborn"]
  /\ buffer = [c \in Clients |-> <<>>] /\ need = [c \in Clients |-> 0]
  /\ request = [c \in Clients |-> 0]
  /\ replies = [c \in Clients |-> <<>>]
  /\ crashed = FALSE
-----------------------------------------------------------------------------
(* The clients *)

Units(n, r) ==
  <<<<n, "line">>, <<n, "fields">>, <<n, "end">>>> \o [i \in 1..BodyLength(r) |-> <<n, "body">>]

Connect(c) ==
  /\ op[c] = "unborn"
  /\ op' = [op EXCEPT ![c] = "backlog"]
  /\ UNCHANGED <<sent, wire, left, accepting, buffer, need, request, replies, crashed>>

\* The answer to every request so far has come, and the connection is kept.
MayAsk(c) ==
  c \in Patient =>
    Len(replies[c]) = Len(sent[c]) /\ \A i \in DOMAIN sent[c] : sent[c][i].version = "keep"

Ask(c) ==
  /\ op[c] \notin {"unborn", "closed"} /\ c \notin left
  /\ Len(sent[c]) < MaxRequests /\ MayAsk(c)
  /\ \E r \in Requests :
       /\ sent' = [sent EXCEPT ![c] = Append(@, r)]
       /\ wire' = [wire EXCEPT ![c] = @ \o Units(Len(sent[c]) + 1, r)]
  /\ UNCHANGED <<left, server>>

Leave(c) ==
  /\ op[c] # "unborn" /\ c \notin left
  /\ left' = left \union {c}
  /\ UNCHANGED <<sent, wire, server>>
-----------------------------------------------------------------------------
(* accept and its handler *)

\* A client that has gone again may be an error or a socket at its end.
AcceptDone(c) ==
  /\ accepting /\ op[c] = "backlog"
  /\ accepting' = FALSE
  /\ \E o \in {"accepted"} \union (IF c \in left THEN {"failed"} ELSE {}) :
       op' = [op EXCEPT ![c] = o]
  /\ UNCHANGED <<sent, wire, left, buffer, need, request, replies, crashed>>

\* process_request_and_respond: a new read_buffer.
ReadHead(c) ==
  /\ op' = [op EXCEPT ![c] = "head"]
  /\ buffer' = [buffer EXCEPT ![c] = <<>>]

\* The next connection is accepted only if this one was.
AcceptHandler_StopsOnError(c) ==
  /\ \/ op[c] = "accepted" /\ accepting' = TRUE /\ ReadHead(c)
     \/ op[c] = "failed" /\ op' = [op EXCEPT ![c] = "closed"] /\ UNCHANGED <<accepting, buffer>>
  /\ UNCHANGED <<sent, wire, left, need, request, replies, crashed>>

AcceptHandler(c) ==
  /\ accepting' = TRUE
  /\ \/ op[c] = "accepted" /\ ReadHead(c)
     \/ op[c] = "failed" /\ op' = [op EXCEPT ![c] = "closed"] /\ UNCHANGED buffer
  /\ UNCHANGED <<sent, wire, left, need, request, replies, crashed>>
-----------------------------------------------------------------------------
(* Reading.  The operation itself takes what has arrived, in any portions. *)

\* Where the blank line ends in the buffer, 0 if it is not there yet.
HeadEnd(b) ==
  LET ends == {i \in DOMAIN b : b[i][2] = "end"}
  IN  IF ends = {} THEN 0 ELSE CHOOSE i \in ends : \A j \in ends : i <= j

Read(c) ==
  /\ \E k \in 1..Len(wire[c]) :
       /\ \/ op[c] = "head" /\ HeadEnd(buffer[c]) = 0 /\ UNCHANGED need
          \/ op[c] = "body" /\ k <= need[c] /\ need' = [need EXCEPT ![c] = @ - k]
       /\ buffer' = [buffer EXCEPT ![c] = @ \o SubSeq(wire[c], 1, k)]
       /\ wire' = [wire EXCEPT ![c] = SubSeq(@, k + 1, Len(@))]
  /\ UNCHANGED <<sent, left, accepting, op, request, replies, crashed>>

\* respond: the first resource that matches makes the reply.  Nothing matches a
\* request that was not understood; nobody then holds the socket any more.  The
\* resource for /string reads request.content, which is null without a length.
Matched(c, n) == n # 0 /\ sent[c][n].resource # "none"
NullContent(c, n) == sent[c][n].resource = "string" /\ sent[c][n].length = NoLength

Respond(c, n) ==
  /\ crashed' = (Matched(c, n) /\ NullContent(c, n))
  /\ op' = [op EXCEPT ![c] = IF Matched(c, n) /\ ~NullContent(c, n) THEN "write" ELSE "closed"]

\* The bytes behind the blank line are not taken off what is still to be read.
HeadHandler_AllOfBody(c) ==
  LET end    == HeadEnd(buffer[c])
      n      == IF buffer[c][1][2] = "line" THEN buffer[c][1][1] ELSE 0
      length == IF n = 0 THEN NoLength ELSE sent[c][n].length
      rest   == IF n = 0 THEN 0 ELSE sent[c][n].rest
  IN  /\ op[c] = "head" /\ end # 0
      /\ request' = [request EXCEPT ![c] = n]
      /\ buffer' = [buffer EXCEPT ![c] = SubSeq(@, end + 1 - rest, Len(@))]
      /\ \/ length = NoLength /\ Respond(c, n) /\ UNCHANGED need
         \/ /\ length = BadLength /\ crashed' = TRUE
            /\ op' = [op EXCEPT ![c] = "closed"] /\ UNCHANGED need
         \/ /\ length \notin {NoLength, BadLength} /\ UNCHANGED crashed
            /\ op' = [op EXCEPT ![c] = "body"]
            /\ need' = [need EXCEPT ![c] = length]
      /\ UNCHANGED <<sent, wire, left, accepting, replies>>

\* parse_request takes the head out of the buffer, up to the first line that is no
\* header.  The additional bytes behind the blank line are the beginning of the
\* body, or more than the body.
HeadHandler(c) ==
  LET end    == HeadEnd(buffer[c])
      n      == IF buffer[c][1][2] = "line" THEN buffer[c][1][1] ELSE 0
      length == IF n = 0 THEN NoLength ELSE sent[c][n].length
      rest   == IF n = 0 THEN 0 ELSE sent[c][n].rest
      additional == Len(buffer[c]) - end
  IN  /\ op[c] = "head" /\ end # 0
      /\ request' = [request EXCEPT ![c] = n]
      /\ buffer' = [buffer EXCEPT ![c] = SubSeq(@, end + 1 - rest, Len(@))]
      /\ \/ length = NoLength /\ Respond(c, n) /\ UNCHANGED need
         \/ /\ length = BadLength /\ crashed' = TRUE
            /\ op' = [op EXCEPT ![c] = "closed"] /\ UNCHANGED need
         \/ /\ length \notin {NoLength, BadLength} /\ UNCHANGED crashed
            /\ op' = [op EXCEPT ![c] = "body"]
            /\ need' = [need EXCEPT ![c] = (length - additional) % SizeMod]
      /\ UNCHANGED <<sent, wire, left, accepting, replies>>

BodyHandler(c) ==
  /\ op[c] = "body" /\ need[c] = 0
  /\ Respond(c, request[c])
  /\ UNCHANGED <<sent, wire, left, accepting, buffer, need, request, replies>>
-----------------------------------------------------------------------------
\* The content is all that is in the buffer, and only /string sends it back.
Content(c) == IF sent[c][request[c]].resource = "string" THEN Len(buffer[c]) ELSE 0

\* Whatever is left in the old buffer goes with it.  stof takes the version, or
\* throws.
WriteHandler(c) ==
  /\ op[c] = "write"
  /\ replies' = [replies EXCEPT ![c] = Append(@, <<request[c], Content(c)>>)]
  /\ crashed' = (sent[c][request[c]].version = "bad")
  /\ IF sent[c][request[c]].version = "keep" THEN ReadHead(c)
     ELSE op' = [op EXCEPT ![c] = "closed"] /\ UNCHANGED buffer
  /\ UNCHANGED <<sent, wire, left, accepting, need, request>>

\* An operation on a connection whose client has gone ends with an error, and
\* its handler starts no other.
OperationFails(c) ==
  /\ op[c] \in {"head", "body", "write"} /\ c \in left
  /\ op' = [op EXCEPT ![c] = "closed"]
  /\ UNCHANGED <<sent, wire, left, accepting, buffer, need, request, replies, crashed>>
-----------------------------------------------------------------------------
Serve(c) ==
  /\ ~crashed
  /\ \/ AcceptHandler(c) \/ Read(c) \/ HeadHandler(c) \/ BodyHandler(c)
     \/ WriteHandler(c) \/ OperationFails(c)

\* What is sent to a process that has ended is of no matter.
Call(c) == ~crashed /\ (Connect(c) \/ Ask(c) \/ Leave(c))
Accept(c) == ~crashed /\ AcceptDone(c)

Next == \E c \in Clients : Call(c) \/ Accept(c) \/ Serve(c)

Spec == Init /\ [][Next]_vars

\* Some thread runs every handler that is ready; operations end when the network
\* lets them.  Nothing is asked of the clients.
Fairness ==
  /\ WF_vars(\E c \in Clients : Accept(c))
  /\ \A c \in Clients : WF_vars(Serve(c))

FairSpec == Spec /\ Fairness
-----------------------------------------------------------------------------
\* What /string sends back: the lines of the head it never parsed, and the body.
Wanted(r) == IF r.resource = "string" THEN r.rest + BodyLength(r) ELSE 0

Exchange == INSTANCE RequestReply WITH
  Bodies   <- {Wanted(r) : r \in Requests},
  asked    <- [c \in Clients |-> [i \in DOMAIN sent[c] |-> Wanted(sent[c][i])]],
  answered <- replies

\* However a client's bytes are split into reads, and whether or not it waits for
\* answers: it is answered in order and from whole contents.  In particular no
\* arithmetic on additional bytes (server_base.h 138-152) mixes two requests.
ImplementsExchange == Exchange!Spec

\* Requests that end the whole process: a Content-Length or a version that is no
\* number, or no Content-Length where the content is read.
Fatal(r) ==
  \/ r.length = BadLength
  \/ r.resource = "string" /\ r.length = NoLength
  \/ r.resource # "none" /\ r.version = "bad"

EndedByRequest == crashed /\ \E c \in Clients : \E i \in DOMAIN sent[c] : Fatal(sent[c][i])

\* A client that waits for its answers gets one for every request some resource
\* matches, unless a request, of its own or of another client, ends the process.
EveryRequestAnswered ==
  \A c \in Patient, n \in 1..MaxRequests :
    []<>(n <= Len(sent[c]) /\ sent[c][n].resource # "none"
           => Len(replies[c]) >= n \/ c \in left \/ EndedByRequest)

\* The server goes on accepting, whatever becomes of the connections before, for as
\* long as no request ends the process.
EveryClientAccepted == \A c \in Clients : []<>(op[c] = "backlog" => EndedByRequest)
=============================================================================
