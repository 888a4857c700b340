-------------------------- MODULE MCEventServers --------------------------
(* What serves its connections without locks or processes of its own:          *)
(* WebServer, the chat server that polls, for two users, and the reading of a  *)
(* request in HttpServer.  Which of them it is is settled at the start.        *)
EXTENDS WebServer

CONSTANTS MaxInAll, USER_LIMIT, MaxFd, MaxConns, MaxTexts, Streams, READ_BUFFER_SIZE, ContentLength

VARIABLES
  program,
  fds, write_buf, buf, i, listening, due, backlog, conns, texts, unread, peer, error,
  stream, arrived, stops, read_idx, checked_idx, start_line,
  check_state, content_length, line_status, answer

\* What a client of HttpServer may send: requests with and without content, two
\* at once, and what is no request.
CRLF == <<"CR", "LF">>
MCStreams ==
  { <<"get">> \o CRLF \o CRLF,
    <<"get">> \o CRLF \o <<"field">> \o CRLF \o CRLF,
    <<"get">> \o CRLF \o <<"length">> \o CRLF \o CRLF \o <<"byte", "byte", "byte">>,
    <<"get">> \o CRLF \o <<"length">> \o CRLF \o CRLF \o CRLF \o <<"byte">>,
    <<"get">> \o CRLF \o <<"field">> \o CRLF \o CRLF \o <<"get">> \o CRLF \o CRLF,
    <<"get">> \o CRLF \o <<"field", "LF">> \o CRLF,
    <<"other">> \o CRLF \o CRLF,
    <<"field", "CR", "field">>,
    CRLF \o <<"get">> \o CRLF \o CRLF }

Chat == INSTANCE ChatTable
Parser == INSTANCE HttpParser

ASSUME ChatAssumption == Chat!ChatAssumption
ASSUME ParserAssumption == Parser!ParserAssumption

chatVars == <<fds, write_buf, buf, i, listening, due, backlog, conns, texts, unread, peer, error>>
httpVars == <<stream, arrived, stops, read_idx, checked_idx, start_line,
              check_state, content_length, line_status, answer>>
everything == <<vars, chatVars, httpVars, program>>

\* Requests of each kind the server tells apart.
MCRequests ==
  { [length |-> NoLength,  rest |-> 0, resource |-> "other",  version |-> "keep"],
    [length |-> 2,         rest |-> 1, resource |-> "string", version |-> "keep"],
    [length |-> 0,         rest |-> 0, resource |-> "string", version |-> "close"],
    [length |-> NoLength,  rest |-> 0, resource |-> "none",   version |-> "keep"],
    [length |-> BadLength, rest |-> 0, resource |-> "other",  version |-> "keep"],
    [length |-> NoLength,  rest |-> 0, resource |-> "string", version |-> "keep"],
    [length |-> NoLength,  rest |-> 0, resource |-> "other",  version |-> "bad"] }

MCInit ==
  /\ Init /\ Chat!Init /\ Parser!Init
  /\ program \in {"WebServer", "ChatRoom", "HttpServer"}
  \* A stream is chosen for the program that reads it.
  /\ program # "HttpServer" => stream = <<"get", "CR", "LF", "CR", "LF">>

WebStep  == program = "WebServer" /\ UNCHANGED <<chatVars, httpVars, program>>
ChatStep == program = "ChatRoom" /\ UNCHANGED <<vars, httpVars, program>>
HttpStep == program = "HttpServer" /\ UNCHANGED <<vars, chatVars, program>>

\* No two clients of WebServer ask more than MaxInAll times between them.
FewRequests == \A c, d \in Clients : c # d => Len(sent'[c]) + Len(sent'[d]) <= MaxInAll

MCNext == (WebStep /\ Next /\ FewRequests) \/ (ChatStep /\ Chat!Next) \/ (HttpStep /\ Parser!Next)

\* The fairness of both: a server nobody has called yet has nothing to do.
MCSpec == MCInit /\ [][MCNext]_everything /\ Fairness /\ WF_chatVars(Chat!Server)

\* The chat server's table is that of its connections, whatever comes and goes,
\* and a turn of its loop leaves out none that poll reported (server.c 78-171).
EntriesInv == Chat!EntriesInv

\* HttpServer takes a request for complete when all of it has been read, however
\* it was cut, unless its content was (http_conn.cpp 83-126, 169-250).
AnyChunking == Parser!AnyChunking

\* The chat server reads what it is sent and sends what it has to send, unless
\* the client leaves (server.c 105-170).
NobodyForgotten == Chat!NobodyForgotten
=============================================================================
