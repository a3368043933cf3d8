----------------------------- MODULE HttpServer -----------------------------
(***************************************************************************)
(* gg_lib::net::HttpServer on one connection: HttpContext parses requests  *)
(* from the connection's input buffer, which is filled by reads that end   *)
(* anywhere, and HttpServer answers them, several in one message if the    *)
(* peer sends them without waiting.                                        *)
(*                                                                         *)
(* Input is a sequence of symbols: the text of a line is one symbol, its   *)
(* "\r" and its "\n" are two more, so that a read may end between them.    *)
(* Of a text the model keeps what the parser looks at: the words of a      *)
(* request line, and key and value of a header.  A text without a colon    *)
(* has key "none"; a header has a value (the code calls substr with npos   *)
(* on a header without one).  Query, receive time and the body of          *)
(* responses are left out.                                                 *)
(***************************************************************************)
EXTENDS Naturals, Sequences

CONSTANTS
  Texts,           \* lines the peer may send
  Pages,           \* paths for which setGetCallback was called
  Silent,          \* those of them whose callback leaves the response as it is
  MaxLines         \* bound: lines the peer sends

Blank == [method |-> "none", path |-> "none", version |-> "none", key |-> "none",
          value |-> "none"]

ASSUME HttpAssumption ==
  /\ \A text \in Texts : DOMAIN text = DOMAIN Blank
  /\ Silent \subseteq Pages
  /\ "none" \notin Pages
  /\ MaxLines \in Nat

VARIABLES
  lines,           \* the lines the peer has sent
  socket,          \* symbols of them that were not read yet
  inputBuffer_,    \* the connection's input buffer
  state_, request_,                 \* the HttpContext
  response, outBuf, needClose,      \* the locals of onMessage
  pc,              \* where the loop thread is
  sent             \* responses sent

httpVars == <<lines, socket, inputBuffer_, state_, request_, response, outBuf, needClose, pc, sent>>
context == <<state_, request_>>
locals == <<response, outBuf, needClose>>
input == <<lines, socket>>

\* A new HttpRequest; of its headers the server asks for Connection only.
NoRequest == [method |-> "kInvalid", version |-> "kUnknown", path |-> "", connection |-> ""]

\* A new HttpResponse, and one that was reset.
NoResponse == [status |-> "kUnknown", close |-> FALSE]

BadRequest == [status |-> "400", close |-> TRUE]

\* onConnection has just given the connection its context.
HttpInit ==
  /\ lines = <<>>
  /\ socket = <<>>
  /\ inputBuffer_ = <<>>
  /\ state_ = "kExpectRequestLine"
  /\ request_ = NoRequest
  /\ response = NoResponse
  /\ outBuf = <<>>
  /\ needClose = FALSE
  /\ pc = "poll"
  /\ sent = <<>>

-----------------------------------------------------------------------------
(* The peer.                                                               *)

Symbols(k, text) ==
  (IF text = Blank THEN <<>> ELSE << <<k, "text">> >>) \o << <<k, "\r">>, <<k, "\n">> >>

\* The peer sends a line.
Send(text) ==
  /\ Len(lines) < MaxLines
  /\ lines' = Append(lines, text)
  /\ socket' = socket \o Symbols(Len(lines'), text)
  /\ UNCHANGED <<inputBuffer_, context, locals, pc, sent>>

\* A read takes n symbols and calls onMessage, which begins with a new HttpResponse
\* and an empty outBuf and enters parseRequest.
handleRead(n) ==
  /\ pc = "poll"
  /\ inputBuffer_' = inputBuffer_ \o SubSeq(socket, 1, n)
  /\ socket' = SubSeq(socket, n + 1, Len(socket))
  /\ response' = NoResponse
  /\ outBuf' = <<>>
  /\ needClose' = FALSE
  /\ pc' = "parse"
  /\ UNCHANGED <<lines, context, sent>>

-----------------------------------------------------------------------------
(* HttpContext::parseRequest.  A step is one round of its while loop, in   *)
(* which pc stays "parse" as long as hasMore is true.                      *)

\* Buffer::findCRLF.
CRLFs == {i \in 1 .. Len(inputBuffer_) - 1 :
            inputBuffer_[i][2] = "\r" /\ inputBuffer_[i + 1][2] = "\n"}
First(S) == CHOOSE i \in S : \A j \in S : i <= j
findCRLF == First(CRLFs)

\* The line before it.
Line == IF findCRLF = 1 THEN Blank ELSE lines[inputBuffer_[1][1]]

retrieveUntil == inputBuffer_' = SubSeq(inputBuffer_, findCRLF + 2, Len(inputBuffer_))

Methods == {"GET", "POST", "HEAD", "PUT"}

\* setMethod leaves method_ alone when it does not know the word.
setMethod(text) == IF text.method \in Methods THEN text.method ELSE request_.method

\* processRequestLine fills in the request as far as it gets...
Processed(text) ==
  LET method == setMethod(text)
      hasPath == method # "kInvalid" /\ text.path # "none"
      hasVersion == hasPath /\ text.version \in {"kHttp10", "kHttp11"}
  IN [request_ EXCEPT !.method = method,
                      !.path = IF hasPath THEN text.path ELSE @,
                      !.version = IF hasVersion THEN text.version ELSE @]

\* ... and says whether it got to the end.
processRequestLine(text) ==
  /\ setMethod(text) # "kInvalid"
  /\ text.path # "none"
  /\ text.version \in {"kHttp10", "kHttp11"}

\* Was a callback set for the path?
checkGetCallback(path) == path \in Pages

\* checkHeaderCallback_, as onConnection sets it.
checkHeaderCallback(request) == request.method = "GET" /\ checkGetCallback(request.path)

\* kExpectRequestLine, with a good line or a bad one.
ParseRequestLine ==
  /\ pc = "parse"
  /\ state_ = "kExpectRequestLine"
  /\ CRLFs # {}
  /\ request_' = Processed(Line)
  /\ IF processRequestLine(Line) /\ checkHeaderCallback(Processed(Line))
       THEN retrieveUntil /\ state_' = "kExpectHeaders" /\ UNCHANGED pc
       ELSE pc' = "bad" /\ UNCHANGED <<inputBuffer_, state_>>
  /\ UNCHANGED <<input, locals, sent>>

\* HttpRequest::addHeader: a header that is there already gets the new value.
addHeader(text) ==
  request_' = IF text.key = "Connection" THEN [request_ EXCEPT !.connection = text.value]
                                         ELSE request_

\* kExpectHeaders, with a header.
ParseHeader ==
  /\ pc = "parse"
  /\ state_ = "kExpectHeaders"
  /\ CRLFs # {}
  /\ Line.key # "none"
  /\ addHeader(Line)
  /\ retrieveUntil
  /\ UNCHANGED <<input, state_, locals, pc, sent>>

\* kExpectHeaders, with a line that has no colon, which ends the headers.
EndHeaders ==
  /\ pc = "parse"
  /\ state_ = "kExpectHeaders"
  /\ CRLFs # {}
  /\ Line.key = "none"
  /\ state_' = "kGotAll"
  /\ retrieveUntil
  /\ pc' = "parsed"
  /\ UNCHANGED <<input, request_, locals, sent>>

\* No complete line.  In state kGotAll there is no step: the loop would go round
\* for ever.
NeedMore ==
  /\ pc = "parse"
  /\ state_ \in {"kExpectRequestLine", "kExpectHeaders"}
  /\ CRLFs = {}
  /\ pc' = "parsed"
  /\ UNCHANGED <<input, inputBuffer_, context, locals, sent>>

-----------------------------------------------------------------------------
(* The while loop of onMessage.                                            *)

\* A faulty reset that keeps the request.
contextReset_KeepRequest ==
  /\ state_' = "kExpectRequestLine"
  /\ UNCHANGED request_

\* A faulty reset that keeps the state.
contextReset_KeepState ==
  /\ request_' = NoRequest
  /\ UNCHANGED state_

\* HttpContext::reset.
contextReset ==
  /\ state_' = "kExpectRequestLine"
  /\ request_' = NoRequest

\* HttpResponse::appendToBuffer, and the literal that stands for BadRequest.
appendToBuffer(resp) == outBuf' = Append(outBuf, resp)

\* parseRequest returned false.
onBadRequest ==
  /\ pc = "bad"
  /\ appendToBuffer(BadRequest)
  /\ contextReset
  /\ needClose' = TRUE
  /\ pc' = "send"
  /\ UNCHANGED <<input, inputBuffer_, response, sent>>

\* onRequest decides whether the connection is to be closed and calls the callback
\* of the path, if there is one.
onRequest(req, resp) ==
  [status |-> IF req.method = "GET" /\ checkGetCallback(req.path) /\ req.path \notin Silent
               THEN req.path ELSE resp.status,
   close |-> \/ req.connection = "close"
             \/ req.version = "kHttp10" /\ req.connection # "Keep-Alive"]

\* parseRequest returned true and the request is complete.
onMessageGotAll ==
  /\ pc = "parsed"
  /\ state_ = "kGotAll"
  /\ appendToBuffer(onRequest(request_, response))
  /\ contextReset
  /\ needClose' = onRequest(request_, response).close
  /\ response' = NoResponse
  /\ pc' = IF needClose' THEN "send" ELSE "parse"
  /\ UNCHANGED <<input, inputBuffer_, sent>>

\* parseRequest returned true and needs more input.
onMessageBreak ==
  /\ pc = "parsed"
  /\ state_ # "kGotAll"
  /\ pc' = "send"
  /\ UNCHANGED <<input, inputBuffer_, context, locals, sent>>

\* The end of onMessage: send, and forceClose if need be.  The functor of forceClose
\* runs in the same iteration of the loop, before anything else is read.
onMessageEnd ==
  /\ pc = "send"
  /\ sent' = sent \o outBuf
  /\ pc' = IF needClose THEN "closed" ELSE "poll"
  /\ UNCHANGED <<input, inputBuffer_, context, locals>>

-----------------------------------------------------------------------------

onMessage ==
  \/ ParseRequestLine
  \/ ParseHeader
  \/ EndHeaders
  \/ NeedMore
  \/ onBadRequest
  \/ onMessageGotAll
  \/ onMessageBreak
  \/ onMessageEnd

HttpNext ==
  \/ \E text \in Texts : Send(text)
  \/ \E n \in 1..Len(socket) : handleRead(n)
  \/ onMessage

HttpSpec == HttpInit /\ [][HttpNext]_httpVars

\* The loop thread goes on inside onMessage.
FairHttpSpec == HttpSpec /\ WF_httpVars(onMessage)

-----------------------------------------------------------------------------
(* Correctness.                                                            *)

\* The lines that have arrived as a whole.
Arrived ==
  IF socket = <<>> THEN lines ELSE SubSeq(lines, 1, socket[1][1] - 1)

\* A request line the server is made for.
Acceptable(text) ==
  text.method = "GET" /\ text.path \in Pages /\ text.version \in {"kHttp10", "kHttp11"}

\* The response to a request line and the value of its last Connection header.
Response(text, connection) ==
  [status |-> IF text.path \in Silent THEN "kUnknown" ELSE text.path,
   close |-> IF text.version = "kHttp10" THEN connection # "Keep-Alive" ELSE connection = "close"]

\* A request is its first line, the headers up to a line without a colon, and that line.
Ends(ls, i) == {j \in i + 1 .. Len(ls) : ls[j].key = "none"}

Connection(ls, i) ==
  LET set == {j \in i + 1 .. First(Ends(ls, i)) : ls[j].key = "Connection"}
  IN IF set = {} THEN "" ELSE ls[CHOOSE j \in set : \A k \in set : k <= j].value

\* The responses to the lines from i on, given those to the lines after the request at i.
ResponsesAt(ls, i, later) ==
  IF i > Len(ls) THEN <<>>
  ELSE IF ~Acceptable(ls[i]) THEN <<BadRequest>>
  ELSE IF Ends(ls, i) = {} THEN <<>>
  ELSE LET answer == Response(ls[i], Connection(ls, i))
       IN <<answer>> \o (IF answer.close THEN <<>> ELSE later[First(Ends(ls, i)) + 1])

ResponsesFrom(ls) ==
  LET from[i \in 1 .. Len(ls) + 1] == ResponsesAt(ls, i, from) IN from

\* The responses to a sequence of lines that comes in one piece.
Responses(ls) == ResponsesFrom(ls)[1]

\* However the input is cut into reads, the responses are those to its complete
\* lines as a whole, with nothing left of one request in the next, and the
\* connection is closed if and only if the last response refuses a request or
\* announces it (HttpContext.cc:10-89, HttpServer.cc:49-89).
AnswersAsAWhole ==
  pc \in {"poll", "closed"} =>
    /\ sent = Responses(Arrived)
    /\ pc = "closed" <=> sent # <<>> /\ sent[Len(sent)].close

\* onMessage returns: parseRequest is never entered with a finished request, on
\* which it would loop for ever (HttpContext.cc:13-56, HttpServer.cc:54-71).
MessageHandled == pc = "parse" ~> pc \in {"poll", "closed"}
=============================================================================
