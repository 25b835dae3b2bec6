----------------------------- MODULE Http2Server -----------------------------
(***************************************************************************)
(* The HTTP/2 server (src/http_server.cpp): one thread that serves one     *)
(* connection after the other.  read() fills a buffer, nghttp2 calls back  *)
(* for the pieces and frames in it, a request whose body has ended gets a  *)
(* response, from inside the callback, and nghttp2_session_send writes     *)
(* what flow control admits.                                               *)
(*                                                                         *)
(* nghttp2 is modelled by its callbacks.  What a client sends is a         *)
(* sequence of pieces: "headers" opens a stream; "chunk" is a piece of the *)
(* payload of a DATA frame, as large as one read() happens to cut it;      *)
(* "data" is the end of a DATA frame; "trailers", "window" (credit for one *)
(* part of the response), "rst" and "bad" (what is not HTTP/2 at all) are  *)
(* whole frames.  A response is its headers and Parts parts of data.       *)
(***************************************************************************)
EXTENDS Integers, Sequences

CONSTANTS Clients,    \* the clients, each with one connection
          Streams,    \* the stream ids a client uses
          MaxChunks,  \* bound on the chunks of a request
          Parts,      \* the parts of the response's body
          Window,     \* the credit a stream begins with
          NetCap,     \* pieces that fit into a connection, in each direction
          MayLeave,   \* may clients close, reset, or not speak HTTP/2?
          None        \* "no client", "no frame", "not handled"

ASSUME Http2Assumption == /\ MaxChunks \in Nat /\ Window \in Nat
                          /\ Parts \in Nat \ {0} /\ NetCap \in Nat \ {0}
                          /\ MayLeave \in BOOLEAN
                          /\ None \notin Clients

VARIABLES
  conn,       \* conn[c]: "none", "open", "closed", "reset"
  backlog,    \* the connections accept() has not returned yet
  net,        \* net[c]: pieces on their way to the server
  request,    \* request[c][s]: how far c has come with its request
  chunks,     \* chunks[c][s]: the chunks c has sent
  credit,     \* credit[c][s]: the credit c has given, the initial one included
  toClient,   \* toClient[c]: frames on their way to the client
  got,        \* got[c][s]: frames of the response c has read
  main,       \* where the server's thread stands: see below
  current,    \* the client it serves
  input,      \* the rest of buf
  streamData, \* stream_data of the session
  stream,     \* stream[s]: what nghttp2 has still to send on s
  left,       \* left[s]: parts left in response_data
  window,     \* window[s]: credit left
  buffer,     \* buffer[s]: the string behind the data provider
  packed,     \* the frame that nghttp2 has packed and not written
  handled     \* handled[c][s]: the body handle_post_data was given

clientVars == <<conn, backlog, net, request, chunks, credit, toClient, got>>
streamVars == <<stream, left, window, buffer>>
sessionVars == <<streamData, streamVars, packed>>
server == <<main, current, input, sessionVars, handled>>
vars == <<clientVars, server>>

Piece(kind, c, s) == [kind |-> kind, stream |-> s, chunk |-> <<c, s, chunks[c][s] + 1>>]
Reply(s, part) == [stream |-> s, part |-> part]         \* part 0: the headers
Settings == [stream |-> 0, part |-> 0]
EachStream(v) == [s \in Streams |-> v]
EachClient(v) == [c \in Clients |-> v]

NewSession == /\ streamData' = [s \in {} |-> << >>]
              /\ stream' = EachStream("none") /\ left' = EachStream(0)
              /\ window' = EachStream(Window) /\ buffer' = EachStream("none")

Init == /\ conn = EachClient("none") /\ backlog = << >> /\ net = EachClient(<< >>)
        /\ request = EachClient(EachStream("none"))
        /\ chunks = EachClient(EachStream(0))
        /\ credit = EachClient(EachStream(Window))
        /\ toClient = EachClient(<< >>) /\ got = EachClient(EachStream(0))
        /\ main = "accept" /\ current = None /\ input = << >>
        /\ streamData = [s \in {} |-> << >>]
        /\ stream = EachStream("none") /\ left = EachStream(0)
        /\ window = EachStream(Window) /\ buffer = EachStream("none")
        /\ packed = None
        /\ handled = EachClient(EachStream(None))

-------------------------------------------------------------------------------
(* The clients.                                                            *)

Alive == main # "killed"

Connect(c) == /\ Alive /\ conn[c] = "none"
              /\ conn' = [conn EXCEPT ![c] = "open"]
              /\ backlog' = Append(backlog, c)
              /\ UNCHANGED <<net, request, chunks, credit, toClient, got, server>>

SendPiece(kind, c, s) == /\ conn[c] = "open" /\ Len(net[c]) < NetCap
                         /\ net' = [net EXCEPT ![c] = Append(@, Piece(kind, c, s))]
                         /\ UNCHANGED <<conn, backlog, toClient, got, server>>

RequestGoto(c, s, from, to) ==
    request[c][s] = from /\ request' = [request EXCEPT ![c][s] = to]

\* A request: headers, data frames of any number of chunks, and an end, that
\* stands in a DATA frame, in trailers or in the headers themselves.
SendHeaders(c, s) == /\ \/ RequestGoto(c, s, "none", "open")
                        \/ RequestGoto(c, s, "none", "endedElsewhere")
                     /\ SendPiece("headers", c, s)
                     /\ UNCHANGED <<chunks, credit>>

SendChunk(c, s) == /\ RequestGoto(c, s, "open", "open") /\ chunks[c][s] < MaxChunks
                   /\ SendPiece("chunk", c, s)
                   /\ chunks' = [chunks EXCEPT ![c][s] = @ + 1]
                   /\ UNCHANGED credit

EndRequest(c, s) == /\ \/ /\ RequestGoto(c, s, "open", "endedByData")
                          /\ SendPiece("data", c, s)
                       \/ /\ RequestGoto(c, s, "open", "endedElsewhere")
                          /\ SendPiece("trailers", c, s)
                    /\ UNCHANGED <<chunks, credit>>

SendWindow(c, s) == /\ request[c][s] = "endedByData" /\ credit[c][s] < Parts
                    /\ SendPiece("window", c, s)
                    /\ credit' = [credit EXCEPT ![c][s] = @ + 1]
                    /\ UNCHANGED <<request, chunks>>

SendReset(c, s) == /\ request[c][s] \notin {"none", "reset"}
                   /\ request' = [request EXCEPT ![c][s] = "reset"]
                   /\ SendPiece("rst", c, s)
                   /\ UNCHANGED <<chunks, credit>>

SendBad(c, s) == /\ MayLeave /\ request[c] = EachStream("none") /\ net[c] = << >>
                 /\ SendPiece("bad", c, s)
                 /\ UNCHANGED <<request, chunks, credit>>

ReadReply(c) == /\ conn[c] = "open" /\ toClient[c] # << >>
                /\ toClient' = [toClient EXCEPT ![c] = Tail(@)]
                /\ LET s == Head(toClient[c]).stream IN
                   got' = IF s \in Streams THEN [got EXCEPT ![c][s] = @ + 1] ELSE got
                /\ UNCHANGED <<conn, backlog, net, request, chunks, credit, server>>

\* Close with everything read, or reset: what is under way is lost.
Leave(c) == /\ MayLeave /\ conn[c] = "open"
            /\ \/ conn' = [conn EXCEPT ![c] = "closed"] /\ UNCHANGED net
               \/ /\ conn' = [conn EXCEPT ![c] = "reset"]
                  /\ net' = [net EXCEPT ![c] = << >>]
            /\ UNCHANGED <<backlog, request, chunks, credit, toClient, got, server>>

ClientStep(c) == \/ Connect(c) \/ ReadReply(c) \/ Leave(c)
                 \/ \E s \in Streams : \/ SendHeaders(c, s) \/ SendChunk(c, s)
                                       \/ EndRequest(c, s) \/ SendWindow(c, s)
                                       \/ SendReset(c, s) \/ SendBad(c, s)

-------------------------------------------------------------------------------
(* The loop of main().  The thread is in accept() or read(), works on what *)
(* read() has returned ("process"), cleans up after a connection, or is in *)
(* nghttp2_session_send: for the settings ("greet"), inside a callback of  *)
(* "process" ("answer"), or after it ("flush").                            *)

MainGoto(from, to) == main = from /\ main' = to

Accept == /\ MainGoto("accept", "greet") /\ backlog # << >>
          /\ backlog' = Tail(backlog) /\ current' = Head(backlog)
          /\ NewSession /\ packed' = Settings
          /\ UNCHANGED <<conn, net, request, chunks, credit, toClient, got, input, handled>>

\* read() returns what has arrived, or a part of it.
Read == /\ MainGoto("read", "process")
        /\ \E n \in 1 .. Len(net[current]) :
             /\ input' = SubSeq(net[current], 1, n)
             /\ net' = [net EXCEPT ![current] = SubSeq(@, n + 1, Len(@))]
        /\ UNCHANGED <<conn, backlog, request, chunks, credit, toClient, got, current,
                       sessionVars, handled>>

\* Seeded fault: the end of the input does not end the loop.
ReadAgain == "read"

AfterEnd == "cleanup"

\* read() returns 0, or an error.
ReadEnd == /\ MainGoto("read", AfterEnd)
           /\ net[current] = << >> /\ conn[current] # "open"
           /\ UNCHANGED <<clientVars, current, input, sessionVars, handled>>

Cleanup == /\ MainGoto("cleanup", "accept")
           /\ conn' = [conn EXCEPT ![current] = "closed"]
           /\ current' = None /\ input' = << >> /\ packed' = None
           /\ NewSession
           /\ UNCHANGED <<backlog, net, request, chunks, credit, toClient, got, handled>>

-------------------------------------------------------------------------------
(* nghttp2_session_mem_recv: the next piece of the input.                  *)

Got(kind) == main = "process" /\ input # << >> /\ Head(input).kind = kind
At == Head(input).stream        \* the stream of the piece
Eat == input' = Tail(input) /\ UNCHANGED <<clientVars, current, packed>>

\* Seeded fault: the chunks of all streams are collected in one place.
OnePlace(s) == CHOOSE t \in Streams : TRUE

Key(s) == s

\* on_data_chunk_recv_callback: stream_data[stream_id] is made when missing.
OnChunk == /\ Got("chunk")
           /\ LET old == IF Key(At) \in DOMAIN streamData THEN streamData[Key(At)] ELSE << >>
              IN streamData' = [s \in DOMAIN streamData \cup {Key(At)} |->
                                  IF s = Key(At) THEN Append(old, Head(input).chunk)
                                  ELSE streamData[s]]
           /\ Eat /\ UNCHANGED <<main, streamVars, handled>>

\* on_frame_recv_callback for a DATA frame with END_STREAM: handle_post_data
\* submits the response and sends, and the body is erased.
OnDataEnd ==
    /\ Got("data") /\ Key(At) \in DOMAIN streamData
    /\ handled' = [handled EXCEPT ![current][At] = streamData[Key(At)]]
    /\ streamData' = [s \in DOMAIN streamData \ {Key(At)} |-> streamData[s]]
    /\ stream' = [stream EXCEPT ![At] = "headers"]
    /\ left' = [left EXCEPT ![At] = Parts] /\ buffer' = [buffer EXCEPT ![At] = "live"]
    /\ main' = "answer"
    /\ Eat /\ UNCHANGED window

\* The frames for which the callbacks do nothing: no chunk has come for this
\* stream, or END_STREAM does not stand in a DATA frame.
OnOther == /\ \/ Got("data") /\ Key(At) \notin DOMAIN streamData
              \/ Got("headers") \/ Got("trailers")
           /\ Eat /\ UNCHANGED <<main, streamData, streamVars, handled>>

OnWindow == /\ Got("window")
            /\ window' = [window EXCEPT ![At] = @ + 1]
            /\ Eat /\ UNCHANGED <<main, streamData, stream, left, buffer, handled>>

\* nghttp2 drops the response of a stream that is reset; no callback is
\* registered for that, so the body and the buffer stay.
OnReset == /\ Got("rst")
           /\ stream' = [stream EXCEPT ![At] = "dropped"]
           /\ Eat /\ UNCHANGED <<main, streamData, left, window, buffer, handled>>

\* nghttp2_session_mem_recv fails.
OnBad == /\ Got("bad") /\ main' = "cleanup"
         /\ Eat /\ UNCHANGED <<streamData, streamVars, handled>>

\* Seeded fault: nothing is sent after the input, but in the callbacks.
NoFlush == "read"

AfterInput == "flush"

Processed == /\ input = << >> /\ MainGoto("process", AfterInput)
             /\ UNCHANGED <<clientVars, current, input, sessionVars, handled>>

Process == OnChunk \/ OnDataEnd \/ OnOther \/ OnWindow \/ OnReset \/ OnBad \/ Processed

-------------------------------------------------------------------------------
(* nghttp2_session_send: pack a frame, hand it to send_callback, go on     *)
(* until nothing can be sent.                                              *)

Sending == main \in {"greet", "answer", "flush"}
Sendable(s) == stream[s] = "headers" \/ (stream[s] = "data" /\ window[s] > 0)

PackHeaders(s) == /\ Sending /\ packed = None /\ stream[s] = "headers"
                  /\ packed' = Reply(s, 0) /\ stream' = [stream EXCEPT ![s] = "data"]
                  /\ UNCHANGED <<clientVars, main, current, input, streamData, left,
                                 window, buffer, handled>>

\* Seeded fault: the string is deleted and EOF not reported.
NoEof(n) == "data"

AfterPart(n) == IF n = 0 THEN "done" ELSE "data"

\* The read_callback of the data provider copies what fits and, with the last
\* of it, reports EOF and deletes the string.
PackData(s) ==
    /\ Sending /\ packed = None /\ stream[s] = "data" /\ window[s] > 0
    /\ packed' = Reply(s, Parts - left[s] + 1)
    /\ window' = [window EXCEPT ![s] = @ - 1]
    /\ left' = [left EXCEPT ![s] = @ - 1]
    /\ stream' = [stream EXCEPT ![s] = AfterPart(left[s] - 1)]
    /\ buffer' = [buffer EXCEPT ![s] = IF left[s] = 1 THEN "deleted" ELSE @]
    /\ UNCHANGED <<clientVars, main, current, input, streamData, handled>>

Room(c) == Len(toClient[c]) < NetCap

\* send_callback; write() blocks while the client does not read. When it takes less
\* than length, nghttp2 calls again for the rest: the item is packed until its last
\* byte is out, and the writes before that change nothing here.
Write == /\ Sending /\ packed # None
         /\ \/ /\ conn[current] = "open" /\ Room(current)
               /\ toClient' = [toClient EXCEPT ![current] = Append(@, packed)]
            \/ conn[current] # "open" /\ UNCHANGED toClient
         /\ packed' = None
         /\ UNCHANGED <<conn, backlog, net, request, chunks, credit, got, main, current,
                        input, streamData, streamVars, handled>>

\* write() to a client that has gone fails, or raises SIGPIPE, which ends the
\* process. What handle_post_data returns is ignored.
WriteFails == /\ Sending /\ packed # None /\ conn[current] # "open"
              /\ main' \in {"killed", IF main = "answer" THEN "process" ELSE "cleanup"}
              /\ UNCHANGED <<clientVars, current, input, sessionVars, handled>>

Sent == /\ \/ MainGoto("greet", "read") \/ MainGoto("answer", "process")
           \/ MainGoto("flush", "read")
        /\ packed = None /\ \A s \in Streams : ~Sendable(s)
        /\ UNCHANGED <<clientVars, current, input, sessionVars, handled>>

SessionSend == \/ \E s \in Streams : PackHeaders(s) \/ PackData(s)
               \/ Write \/ WriteFails \/ Sent

ServerStep == Accept \/ Read \/ ReadEnd \/ Cleanup \/ Process \/ SessionSend

-------------------------------------------------------------------------------
Next == ServerStep \/ \E c \in Clients : ClientStep(c)

Spec == Init /\ [][Next]_vars

(***************************************************************************)
(* The server's thread keeps running, and a client that stays reads what   *)
(* it is sent.  Nothing obliges clients to connect, to send or to leave.   *)
(***************************************************************************)
Fairness == WF_vars(ServerStep) /\ \A c \in Clients : WF_vars(ReadReply(c))

FairSpec == Spec /\ Fairness

-------------------------------------------------------------------------------
\* A request is handled with its own body: all the chunks its client sent on its
\* stream, in order, and nothing of another stream, whatever the interleaving of the
\* streams and the cuts of read().
BodyIntact ==
    \A c \in Clients, s \in Streams :
        handled[c][s] # None => handled[c][s] = [i \in 1 .. chunks[c][s] |-> <<c, s, i>>]

\* The string behind a response lives exactly as long as nghttp2 may read it:
\* it is there while parts are left, and deleted, once, with the last of them.
BufferOutlivesReads ==
    \A s \in Streams : /\ stream[s] \in {"headers", "data"} => buffer[s] = "live" /\ left[s] > 0
                       /\ stream[s] = "done" => buffer[s] = "deleted"
                       /\ buffer[s] = "deleted" => stream[s] \in {"done", "dropped"}

\* A request with a body gets its whole response, when its client stays and
\* grants the credit for it: also when the credit comes in several pieces, or
\* the answer to another stream comes in between.
AnsweredWhole ==
    \A c \in Clients, s \in Streams :
        (/\ current = c /\ request[c][s] = "endedByData"
         /\ chunks[c][s] > 0 /\ credit[c][s] >= Parts)
            ~> \/ got[c][s] = Parts + 1
               \/ conn[c] # "open" \/ request[c][s] = "reset" \/ ~Alive

\* A client that leaves gives the server back: wherever its thread is, it comes
\* to the next connection, unless SIGPIPE ends it.
ServerMovesOn ==
    \A c \in Clients : (current = c /\ conn[c] # "open") ~> (current # c \/ ~Alive)
===============================================================================
