----------------------------- MODULE HttpParser -----------------------------
(***************************************************************************)
(* How an http_conn of HttpServer/http_conn.cpp takes a request in: read() *)
(* whenever the socket has data, and after it process_read(), which goes   *)
(* through the buffer line by line and keeps its place for the next time.  *)
(* One turn of the loop of process_read is one step.                       *)
(*                                                                         *)
(* A text without an end of line in it, whose bytes parse_line passes over *)
(* alike, is one unit: a request line, a header or a byte of the content.  *)
(***************************************************************************)
EXTENDS Naturals, Sequences, FiniteSets

CONSTANTS
  Streams,           \* what a client may send, all of it
  READ_BUFFER_SIZE,
  ContentLength      \* the number in the "Content-Length" header

\* A header is one unit: no other text is beside it.
ParserAssumption ==
  /\ {READ_BUFFER_SIZE, ContentLength} \subseteq Nat
  /\ \A s \in Streams :
       /\ s \in Seq(STRING)
       /\ \A n \in DOMAIN s : s[n] = "length" =>
            \A m \in {n - 1, n + 1} \intersect DOMAIN s : s[m] \in {"CR", "LF"}

Results == {"NO_RESOURCE", "FORBIDDEN_REQUEST", "FILE_REQUEST", "BAD_REQUEST"}

VARIABLES
  stream,          \* what this client sends
  arrived,         \* how much of it has arrived
  read_idx, checked_idx, start_line,
  check_state, content_length,
  line_status,     \* of process_read, "none" outside
  answer,          \* its result, NO_REQUEST until there is another one
  stops            \* where in the stream a read has ended

indices == <<read_idx, checked_idx, start_line>>
machine == <<check_state, content_length, line_status, answer>>
vars    == <<stream, arrived, indices, machine, stops>>

\* init(), for a new connection.
Init ==
  /\ stream \in Streams /\ arrived = 0 /\ stops = {}
  /\ read_idx = 0 /\ checked_idx = 0 /\ start_line = 0
  /\ check_state = "REQUESTLINE" /\ content_length = 0
  /\ line_status = "none" /\ answer = "NO_REQUEST"

\* m_read_buf[n].  What a line leaves behind as '\0' is never looked at again.
At(n) == stream[n + 1]
-----------------------------------------------------------------------------
Send ==
  /\ \E n \in arrived + 1 .. Len(stream) : arrived' = n
  /\ UNCHANGED <<stream, indices, machine, stops>>

\* EPOLLIN: recv until there is no more.  A buffer that is full makes the last
\* recv return 0, which counts as the end of the connection.
Read ==
  /\ line_status = "none" /\ answer = "NO_REQUEST" /\ read_idx < arrived
  /\ IF arrived < READ_BUFFER_SIZE
     THEN /\ read_idx' = arrived /\ stops' = stops \union {arrived}
          /\ line_status' = "LINE_OK"
          /\ UNCHANGED answer
     ELSE answer' = "CLOSED_CONNECTION" /\ UNCHANGED <<read_idx, stops, line_status>>
  /\ UNCHANGED <<stream, arrived, checked_idx, start_line, check_state, content_length>>
-----------------------------------------------------------------------------
\* parse_line: where it stops, and with what.
Ends == {n \in checked_idx .. read_idx - 1 : At(n) \in {"CR", "LF"}}
End  == CHOOSE n \in Ends : \A m \in Ends : n <= m

\* A CR that is the last byte there is leaves the line open.  An LF is never met
\* behind a CR: the CR would have been met first.
parse_line ==
  IF Ends = {} THEN [status |-> "LINE_OPEN", checked |-> read_idx, line |-> <<>>]
  ELSE IF At(End) = "CR" /\ End + 1 = read_idx
    THEN [status |-> "LINE_OPEN", checked |-> End, line |-> <<>>]
  ELSE IF At(End) = "CR" /\ At(End + 1) = "LF"
    THEN [status |-> "LINE_OK", checked |-> End + 2, line |-> SubSeq(stream, start_line + 1, End)]
  ELSE [status |-> "LINE_BAD", checked |-> End, line |-> <<>>]

\* The loop of process_read looks for a line, unless it has just come to the content.
AtContent == check_state = "CONTENT" /\ line_status = "LINE_OK"
Parsing   == line_status # "none" /\ ~AtContent
GetLine   == Parsing /\ parse_line.status = "LINE_OK" /\ checked_idx' = parse_line.checked
Here      == start_line' = checked_idx'

\* process_read returns: do_request looks at the file, and any result may be its.
Return(r) == answer' = r /\ line_status' = "none"
do_request == \E r \in Results : Return(r)
Continue == line_status' = "LINE_OK" /\ UNCHANGED answer

\* No line to be had: NO_REQUEST, and modfd waits for more.
NoLine ==
  /\ Parsing /\ parse_line.status # "LINE_OK"
  /\ checked_idx' = parse_line.checked
  /\ Return("NO_REQUEST")
  /\ UNCHANGED <<stream, arrived, read_idx, start_line, check_state, content_length, stops>>

RequestLine ==
  /\ GetLine /\ check_state = "REQUESTLINE" /\ Here
  /\ IF parse_line.line = <<"get">>
     THEN check_state' = "HEADER" /\ Continue
     ELSE Return("BAD_REQUEST") /\ UNCHANGED check_state
  /\ UNCHANGED <<stream, arrived, read_idx, content_length, stops>>

Header ==
  /\ GetLine /\ check_state = "HEADER" /\ Here
  /\ parse_line.line # <<>>
  /\ content_length' = IF parse_line.line = <<"length">> THEN ContentLength ELSE content_length
  /\ Continue
  /\ UNCHANGED <<stream, arrived, read_idx, check_state, stops>>

BlankLine ==
  /\ GetLine /\ check_state = "HEADER" /\ Here
  /\ parse_line.line = <<>>
  /\ IF content_length # 0
     THEN check_state' = "CONTENT" /\ Continue
     ELSE do_request /\ UNCHANGED check_state
  /\ UNCHANGED <<stream, arrived, read_idx, content_length, stops>>

\* The bytes before the content count as content.
IsComplete_WithHead(n) == read_idx >= content_length

\* All of the content has been read, if it begins at n.
IsComplete(n) == read_idx >= content_length + n

\* parse_content, at once or after a line that was found in the content.
Content ==
  /\ \/ AtContent /\ UNCHANGED checked_idx
     \/ GetLine /\ check_state = "CONTENT"
  /\ Here
  /\ IF IsComplete(checked_idx')
     THEN do_request
     ELSE line_status' = "LINE_OPEN" /\ UNCHANGED answer
  /\ UNCHANGED <<stream, arrived, read_idx, check_state, content_length, stops>>
-----------------------------------------------------------------------------
process_read == NoLine \/ RequestLine \/ Header \/ BlankLine \/ Content

Next == Send \/ Read \/ process_read

Spec == Init /\ [][Next]_vars
-----------------------------------------------------------------------------
(* What a request is, whatever the pieces it comes in.                     *)

LineEnds == {n \in 1..Len(stream) : stream[n] = "CR" /\ n < Len(stream) /\ stream[n + 1] = "LF"}
Stray == {n \in 1..Len(stream) : \/ stream[n] = "CR" /\ n \notin LineEnds
                                 \/ stream[n] = "LF" /\ n - 1 \notin LineEnds}

\* The end of the blank line, and what of the stream belongs to the request.
Blank == {n \in LineEnds : n = 1 \/ n - 2 \in LineEnds}
HeadEnd == 1 + CHOOSE n \in Blank : \A m \in Blank : n <= m
HasContent == \E n \in 1..HeadEnd : stream[n] = "length"
Length == HeadEnd + (IF HasContent THEN ContentLength ELSE 0)

Good == /\ Blank # {} /\ \A n \in Stray : n > HeadEnd
        /\ stream[1] = "get" /\ 2 \in LineEnds

\* Some read ended inside the content: the search for a line then goes on through
\* the content and what it has passed is asked for again (lines 196, 209, 240).
ContentSplit == \E n \in stops : HeadEnd < n /\ n < Length

\* A request is answered when all of it has been read, and not before, however
\* it was cut into pieces, between CR and LF too; if its content comes in one.
AnyChunking ==
  line_status = "none" /\ Good /\ ~ContentSplit /\ answer # "CLOSED_CONNECTION" =>
    (answer # "NO_REQUEST" <=> read_idx >= Length)
=============================================================================
