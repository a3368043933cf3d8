--------------------------- MODULE TcpConnection ----------------------------
(***************************************************************************)
(* One gg_lib::net::TcpConnection with its Channel and its registration in *)
(* EPollPoller, as its io loop, the server that owns it (in another loop)  *)
(* and user threads work on it.  The io loop's functor queue behaves as    *)
(* module FunctorQueue says; a batch of functors is released when the last *)
(* of them has run.                                                        *)
(*                                                                         *)
(* User code in the loop thread (callbacks) makes calls as one step.  In a *)
(* user thread the test of state_, its assignment and the queueing of the  *)
(* functor are steps of their own.  assert() is compiled out of a release  *)
(* build, so a failing assertion is recorded and the code goes on.         *)
(***************************************************************************)
EXTENDS Naturals, Sequences

CONSTANTS
  Users,             \* user threads that hold a TcpConnectionPtr
  Applications,      \* what the program around the connection may do
  MaxMessages,       \* bound: messages sent
  MessageLength,     \* bytes of a message
  HighWaterMark,     \* highWaterMark_
  MaxQueue,          \* bound: user code does not queue beyond this length
  MaxCloses          \* bound: user code makes no call after so many closings

Calls == {"send", "shutdown", "shutdownAndForceCloseAfter", "forceClose",
          "forceCloseWithDelay", "startRead", "stopRead"}

ASSUME ConnectionAssumption ==
  /\ Applications \subseteq
       [loopCalls : SUBSET Calls,     \* what callbacks in the loop thread call
        userCalls : SUBSET Calls,     \* what user threads call
        userReleases : BOOLEAN,       \* do they drop their TcpConnectionPtr?
        sameLoop : BOOLEAN,           \* is the io loop the server's own loop?
        destroysServer : BOOLEAN]     \* may it destroy the TcpServer?
  /\ \A a \in Applications : a.destroysServer => ~a.sameLoop
  /\ MessageLength \in Nat \ {0}
  /\ HighWaterMark \in Nat \ {0}

VARIABLES
  app,               \* the application, which does not change
  state_, reading_, outputBuffer_,
  events_,           \* the Channel's interest set
  index_,            \* its state in EPollPoller
  revents_,          \* events of this iteration that are still to be handled
  pc,                \* where the io loop is in its iteration
  callback,          \* what follows the user callback that runs, if one does
  queue,             \* functors pending in the io loop
  batch, next,       \* the functors doPendingFunctors took, and the next of them
  delayed,           \* timers that run forceClose or forceCloseInLoop
  removals,          \* removeConnectionInLoop functors pending in the server's loop
  inMap,             \* TcpServer::connections_ holds the connection
  serverAlive,
  user,              \* per user thread: the call it is in and how far
  holds,             \* per user thread: does it hold a TcpConnectionPtr?
  peer, wrShut,      \* the socket: the other side, and our shutdown(SHUT_WR)
  wire,              \* bytes handed to the socket
  taken,             \* bytes sendInLoop wrote or buffered
  numSent,           \* messages sent so far
  known,             \* user code knows the connection: it is up and not yet down
  closes,            \* how often handleClose ran
  failed             \* assertions that failed, uses of what is gone

conn == <<state_, reading_, outputBuffer_, events_, index_>>
sock == <<peer, wrShut, wire, taken>>
loopc == <<revents_, pc, callback, batch, next>>
server == <<removals, inMap, serverAlive>>
users == <<user, holds, numSent>>
moving == <<conn, sock, loopc, queue, delayed, server, users, known, closes, failed>>
vars == <<app, moving>>

Idle == [call |-> "none", at |-> "idle", m |-> 0]

Functor(f) == [f |-> f, m |-> 0]

\* Functors bound to a TcpConnectionPtr; the others are bound to a raw this.
Strong == {"connectEstablished", "connectDestroyed", "forceCloseInLoop",
           "writeCompleteCallback", "highWaterMarkCallback"}

\* The connection exists: something holds a TcpConnectionPtr to it.  Once it
\* does not exist no step can create a pointer to it again.
alive ==
  \/ inMap
  \/ \E i \in DOMAIN queue : queue[i].f \in Strong
  \/ \E i \in DOMAIN batch : batch[i].f \in Strong
  \/ removals > 0
  \/ \E u \in Users : holds[u]
  \/ callback # "none"

\* newConnection has just queued connectEstablished.
Init ==
  /\ app \in Applications
  /\ state_ = "kConnecting"
  /\ reading_ = TRUE
  /\ outputBuffer_ = <<>>
  /\ events_ = {}
  /\ index_ = "kNew"
  /\ revents_ = {}
  /\ pc = "poll"
  /\ callback = "none"
  /\ queue = <<Functor("connectEstablished")>>
  /\ batch = <<>>
  /\ next = 1
  /\ delayed = {}
  /\ removals = 0
  /\ inMap = TRUE
  /\ serverAlive = TRUE
  /\ user = [u \in Users |-> Idle]
  /\ holds = [u \in Users |-> FALSE]
  /\ peer = "open"
  /\ wrShut = FALSE
  /\ wire = <<>>
  /\ taken = <<>>
  /\ numSent = 0
  /\ known = FALSE
  /\ closes = 0
  /\ failed = {}

-----------------------------------------------------------------------------
(* Channel and EPollPoller.                                                *)

\* Channel::update through EPollPoller::updateChannel: a channel that is not in
\* epoll is added whatever its interest; one that is in is removed or modified.
update(events) ==
  /\ events_' = events
  /\ index_' = IF index_ = "kAdded" /\ events = {} THEN "kDeleted" ELSE "kAdded"

disableAll == update({})

\* Channel::remove and EPollPoller::removeChannel, with their assertions.
removeFails == (IF events_ # {} THEN {"Channel.cc:44"} ELSE {})
                 \cup (IF index_ = "kNew" THEN {"EPollPoller.cc:110"} ELSE {})

remove == index_' = "kNew" /\ UNCHANGED events_

-----------------------------------------------------------------------------
(* What runs in the loop thread.  Each operator says what becomes of conn, *)
(* of sock and of the queue, and leaves the rest to its caller.            *)

Push(f) == queue' = Append(queue, Functor(f))

\* Queue a user callback, if it is set.
PushCallback(f) == Push(f) \/ UNCHANGED queue

Bytes(m) == [i \in 1..MessageLength |-> <<m, i>>]

\* A faulty end of sendInLoop that forgets to ask for writability.
BufferRest_NoEnable(rest) ==
  /\ outputBuffer_' = outputBuffer_ \o rest
  /\ UNCHANGED <<queue, events_, index_>>

\* The part of sendInLoop after the write: buffer what is left.
BufferRest(rest) ==
  LET old == Len(outputBuffer_) IN
  /\ outputBuffer_' = outputBuffer_ \o rest
  /\ IF old + Len(rest) >= HighWaterMark /\ old < HighWaterMark
       THEN PushCallback("highWaterMarkCallback")
       ELSE UNCHANGED queue
  /\ IF "W" \in events_ THEN UNCHANGED <<events_, index_>> ELSE update(events_ \cup {"W"})

\* A faulty sendInLoop that writes although earlier bytes are still buffered.
NothingBuffered_Ignored == TRUE

NothingBuffered == "W" \notin events_ /\ outputBuffer_ = <<>>

\* sendInLoop: gives up once disconnected; writes at once if nothing is
\* buffered, where a broken pipe drops the message and any other error is like
\* a write of no byte; otherwise appends to the buffer.
sendInLoop(m) ==
  \/ /\ \/ state_ = "kDisconnected"
        \/ NothingBuffered /\ (wrShut \/ peer = "reset")
     /\ UNCHANGED <<conn, sock, queue>>
  \/ /\ state_ # "kDisconnected"
     /\ NothingBuffered /\ ~wrShut /\ peer # "reset"
     /\ \E n \in 0..MessageLength :
          /\ wire' = wire \o SubSeq(Bytes(m), 1, n)
          /\ taken' = taken \o Bytes(m)
          /\ IF n = MessageLength
               THEN /\ PushCallback("writeCompleteCallback")
                    /\ UNCHANGED <<outputBuffer_, events_, index_>>
               ELSE BufferRest(SubSeq(Bytes(m), n + 1, MessageLength))
     /\ UNCHANGED <<state_, reading_, peer, wrShut>>
  \/ /\ state_ # "kDisconnected"
     /\ ~NothingBuffered
     /\ BufferRest(Bytes(m))
     /\ taken' = taken \o Bytes(m)
     /\ UNCHANGED <<state_, reading_, peer, wrShut, wire>>

\* A faulty shutdownInLoop that does not wait for the output buffer.
shutdownInLoop_NoWait == wrShut' = TRUE

\* shutdownInLoop: unless output is pending, in which case handleWrite does it.
shutdownInLoop == wrShut' = (wrShut \/ "W" \notin events_)

startReadInLoop ==
  /\ IF ~reading_ \/ "R" \notin events_
       THEN update(events_ \cup {"R"}) /\ reading_' = TRUE
       ELSE UNCHANGED <<events_, index_, reading_>>
  /\ UNCHANGED <<state_, outputBuffer_, sock, queue>>

stopReadInLoop ==
  /\ IF reading_ \/ "R" \in events_
       THEN update(events_ \ {"R"}) /\ reading_' = FALSE
       ELSE UNCHANGED <<events_, index_, reading_>>
  /\ UNCHANGED <<state_, outputBuffer_, sock, queue>>

\* handleClose up to the connection callback.
handleClose ==
  /\ state_' = "kDisconnected"
  /\ disableAll
  /\ callback' = "close"
  /\ closes' = closes + 1
  /\ failed' = failed \cup
       (IF state_ \in {"kConnected", "kDisconnecting"} THEN {} ELSE {"TcpConnection.cc:260"})
  /\ UNCHANGED <<reading_, outputBuffer_, sock, queue>>

\* A faulty forceCloseInLoop that does not look at state_ again.
forceCloseInLoop_NoTest == handleClose

forceCloseInLoop ==
  IF state_ \in {"kConnected", "kDisconnecting"}
    THEN handleClose
    ELSE UNCHANGED <<conn, sock, queue, callback, closes, failed>>

\* A faulty removeConnectionInLoop that leaves the connection in the map.
removeConnectionInLoop_Keep ==
  /\ Push("connectDestroyed")
  /\ UNCHANGED <<inMap, failed>>

\* removeConnectionInLoop of the server.
removeConnectionInLoop ==
  /\ inMap' = FALSE
  /\ failed' = IF inMap THEN failed ELSE failed \cup {"TcpServer.cc:88"}
  /\ Push("connectDestroyed")

-----------------------------------------------------------------------------
(* User code in the loop thread: in a callback of this connection, or of   *)
(* another channel while it knows of the connection.                       *)

LoopMayCall(c) ==
  /\ c \in app.loopCalls
  /\ pc # "poll"
  /\ alive
  /\ known \/ callback # "none"
  /\ pc = "handling" => callback # "none"
  /\ Len(queue) < MaxQueue /\ closes < MaxCloses

Unmoved == UNCHANGED <<loopc, server, user, holds, known, closes, failed>>

send ==
  /\ LoopMayCall("send")
  /\ state_ = "kConnected"
  /\ numSent < MaxMessages
  /\ numSent' = numSent + 1
  /\ sendInLoop(numSent + 1)
  /\ Unmoved /\ UNCHANGED delayed

shutdown ==
  /\ LoopMayCall("shutdown")
  /\ state_ = "kConnected"
  /\ state_' = "kDisconnecting"
  /\ shutdownInLoop
  /\ UNCHANGED <<reading_, outputBuffer_, events_, index_, peer, wire, taken, queue, delayed,
                 numSent>>
  /\ Unmoved

shutdownAndForceCloseAfter ==
  /\ LoopMayCall("shutdownAndForceCloseAfter")
  /\ state_ = "kConnected"
  /\ state_' = "kDisconnecting"
  /\ shutdownInLoop
  /\ delayed' = delayed \cup {"forceCloseInLoop"}
  /\ UNCHANGED <<reading_, outputBuffer_, events_, index_, peer, wire, taken, queue, numSent>>
  /\ Unmoved

forceClose ==
  /\ LoopMayCall("forceClose")
  /\ state_ \in {"kConnected", "kDisconnecting"}
  /\ state_' = "kDisconnecting"
  /\ Push("forceCloseInLoop")
  /\ UNCHANGED <<reading_, outputBuffer_, events_, index_, sock, delayed, numSent>>
  /\ Unmoved

forceCloseWithDelay ==
  /\ LoopMayCall("forceCloseWithDelay")
  /\ state_ \in {"kConnected", "kDisconnecting"}
  /\ state_' = "kDisconnecting"
  /\ delayed' = delayed \cup {"forceClose"}
  /\ UNCHANGED <<reading_, outputBuffer_, events_, index_, sock, queue, numSent>>
  /\ Unmoved

startRead == LoopMayCall("startRead") /\ startReadInLoop /\ Unmoved /\ UNCHANGED <<delayed, numSent>>

stopRead == LoopMayCall("stopRead") /\ stopReadInLoop /\ Unmoved /\ UNCHANGED <<delayed, numSent>>

-----------------------------------------------------------------------------
(* User threads: test state_, set it, queue the functor.                   *)

TestsFor(c) ==
  CASE c \in {"send", "shutdown", "shutdownAndForceCloseAfter"} -> {"kConnected"}
    [] c \in {"forceClose", "forceCloseWithDelay"} -> {"kConnected", "kDisconnecting"}
    [] OTHER -> {"kConnecting", "kConnected", "kDisconnecting", "kDisconnected"}

Sets(c) == c \notin {"send", "startRead", "stopRead"}

FunctorOf(call) ==
  CASE call.call = "send" -> [f |-> "sendInLoop", m |-> call.m]
    [] call.call = "shutdown" -> Functor("shutdownInLoop")
    [] call.call = "shutdownAndForceCloseAfter" -> Functor("shutdownAndForceCloseInLoop")
    [] call.call = "forceClose" -> Functor("forceCloseInLoop")
    [] call.call = "startRead" -> Functor("startReadInLoop")
    [] OTHER -> Functor("stopReadInLoop")

UserTests(u, c) ==
  /\ holds[u]
  /\ user[u] = Idle
  /\ Len(queue) < MaxQueue /\ closes < MaxCloses
  /\ state_ \in TestsFor(c)
  /\ c = "send" => numSent < MaxMessages
  /\ numSent' = IF c = "send" THEN numSent + 1 ELSE numSent
  /\ user' = [user EXCEPT ![u] = [call |-> c, at |-> IF Sets(c) THEN "tested" ELSE "set",
                                  m |-> IF c = "send" THEN numSent + 1 ELSE 0]]
  /\ UNCHANGED <<conn, sock, loopc, queue, delayed, server, holds, known, closes, failed>>

\* setState(kDisconnecting).
UserSets(u) ==
  /\ user[u].at = "tested"
  /\ state_' = "kDisconnecting"
  /\ user' = [user EXCEPT ![u].at = "set"]
  /\ UNCHANGED <<reading_, outputBuffer_, events_, index_, sock, loopc, queue, delayed, server,
                 holds, numSent, known, closes, failed>>

UserQueues(u) ==
  /\ user[u].at = "set"
  /\ IF user[u].call = "forceCloseWithDelay"
       THEN delayed' = delayed \cup {"forceClose"} /\ UNCHANGED queue
       ELSE queue' = Append(queue, FunctorOf(user[u])) /\ UNCHANGED delayed
  /\ user' = [user EXCEPT ![u] = Idle]
  /\ UNCHANGED <<conn, sock, loopc, server, holds, numSent, known, closes, failed>>

UserReleases(u) ==
  /\ app.userReleases
  /\ holds[u]
  /\ user[u] = Idle
  /\ holds' = [holds EXCEPT ![u] = FALSE]
  /\ UNCHANGED <<conn, sock, loopc, queue, delayed, server, user, numSent, known, closes, failed>>

-----------------------------------------------------------------------------
(* The iteration of the io loop: poll and Channel::handleEvent.            *)

\* What epoll may report.  POLLIN stands for data that can be read ("IN") or for
\* the end of the stream ("END", once the peer has gone and its data is read).
Readable == {"IN", "END"}

Reports(ready) ==
  /\ ready \cap Readable \in {{}, {"IN"}, {"END"}}
  /\ ready \cap Readable # {} => "R" \in events_
  /\ "END" \in ready => peer # "open"
  /\ "R" \in events_ /\ peer # "open" => ready \cap Readable # {}
  /\ "OUT" \in ready => "W" \in events_
  /\ "HUP" \in ready <=> (peer = "reset" \/ (peer = "closed" /\ wrShut))

\* poll.  The socket of a connection that is gone is closed, so epoll has
\* forgotten it.
Poll(ready) ==
  /\ pc = "poll"
  /\ IF index_ = "kAdded" /\ alive THEN Reports(ready) ELSE ready = {}
  /\ pc' = "events"
  /\ revents_' = ready
  /\ UNCHANGED <<conn, sock, callback, batch, next, queue, delayed, server, users, known, closes,
                 failed>>

\* The loop comes to the connection among the active channels.  The part of
\* handleEventWithGuard up to the read: POLLHUP without POLLIN closes.
handleEvent ==
  /\ alive /\ pc = "events" /\ callback = "none"
  /\ revents_ # {}
  /\ revents_' = revents_ \ {"HUP"}
  /\ IF "HUP" \in revents_ /\ revents_ \cap Readable = {}
       THEN handleClose
       ELSE UNCHANGED <<conn, sock, queue, callback, closes, failed>>
  /\ pc' = "handling"
  /\ UNCHANGED <<batch, next, delayed, server, users, known>>

\* handleRead: a message, the end of the stream, or an error that is logged.
handleRead ==
  /\ alive /\ pc = "handling" /\ callback = "none"
  /\ revents_ \cap Readable # {}
  /\ revents_' = revents_ \ Readable
  /\ \/ "IN" \in revents_ /\ callback' = "user" /\ UNCHANGED <<conn, sock, queue, closes, failed>>
     \/ "END" \in revents_ /\ handleClose
     \/ UNCHANGED <<conn, sock, queue, callback, closes, failed>>
  /\ UNCHANGED <<pc, batch, next, delayed, server, users, known>>

\* The write of n bytes and their retrieve().
WriteOut(n) ==
  /\ wire' = wire \o SubSeq(outputBuffer_, 1, n)
  /\ outputBuffer_' = SubSeq(outputBuffer_, n + 1, Len(outputBuffer_))

\* A faulty handleWrite that leaves the shutdown to whoever asked for it.
OutputDone_NoShutdown ==
  /\ update(events_ \ {"W"})
  /\ PushCallback("writeCompleteCallback")
  /\ UNCHANGED wrShut

\* The buffer is empty: a shutdown that was waiting is done now.
OutputDone ==
  /\ update(events_ \ {"W"})
  /\ PushCallback("writeCompleteCallback")
  /\ wrShut' = (wrShut \/ state_ = "kDisconnecting")

\* handleWrite: some bytes go out, or none because of an error.
handleWrite ==
  /\ alive /\ pc = "handling" /\ callback = "none"
  /\ revents_ = {"OUT"}
  /\ revents_' = {}
  /\ \/ /\ "W" \in events_ /\ peer # "reset"
        /\ \E n \in 1..Len(outputBuffer_) : WriteOut(n)
        /\ IF outputBuffer_' = <<>> THEN OutputDone
                                    ELSE UNCHANGED <<events_, index_, queue, wrShut>>
        /\ UNCHANGED <<state_, reading_, peer, taken>>
     \/ UNCHANGED <<conn, sock, queue>>
  /\ UNCHANGED <<pc, callback, batch, next, delayed, server, users, known, closes, failed>>

\* A timer of forceCloseWithDelay or shutdownAndForceCloseAfter fires; its
\* WeakCallback does nothing once the connection is gone.
TimerFires(t) ==
  /\ pc = "events" /\ callback = "none"
  /\ t \in delayed
  /\ delayed' = delayed \ {t}
  /\ \/ /\ t = "forceClose"
        /\ IF alive /\ state_ \in {"kConnected", "kDisconnecting"}
             THEN state_' = "kDisconnecting" /\ Push("forceCloseInLoop")
             ELSE UNCHANGED <<state_, queue>>
        /\ UNCHANGED <<reading_, outputBuffer_, events_, index_, sock, callback, closes, failed>>
     \/ /\ t = "forceCloseInLoop"
        /\ IF alive THEN forceCloseInLoop
                    ELSE UNCHANGED <<conn, sock, queue, callback, closes, failed>>
  /\ UNCHANGED <<revents_, pc, batch, next, server, users, known>>

\* A user callback returns.  handleClose then calls closeCallback_, whose raw
\* pointer to the server may dangle; connectDestroyed removes the channel.
CallbackReturns ==
  /\ callback # "none"
  /\ callback' = "none"
  /\ \/ /\ callback = "user"
        /\ UNCHANGED <<conn, queue, server, known, failed>>
     \/ /\ callback = "close"
        /\ known' = FALSE
        /\ \/ ~serverAlive /\ failed' = failed \cup {"TcpServer.cc:73"}
                           /\ UNCHANGED <<queue, removals, inMap>>
           \/ serverAlive /\ app.sameLoop /\ removeConnectionInLoop /\ UNCHANGED removals
           \/ serverAlive /\ ~app.sameLoop /\ removals' = removals + 1
                          /\ UNCHANGED <<queue, inMap, failed>>
        /\ UNCHANGED <<conn, serverAlive>>
     \/ /\ callback = "destroy"
        /\ known' = FALSE
        /\ remove
        /\ failed' = failed \cup removeFails
        /\ UNCHANGED <<state_, reading_, outputBuffer_, queue, server>>
  /\ UNCHANGED <<sock, revents_, pc, batch, next, delayed, users, closes>>

-----------------------------------------------------------------------------
(* doPendingFunctors.                                                      *)

connectEstablished ==
  /\ state_' = "kConnected"
  /\ update(events_ \cup {"R"})
  /\ callback' = "user"
  /\ known' = TRUE
  /\ holds' = [u \in Users |-> app.userCalls # {}]
  /\ failed' = IF state_ = "kConnecting" THEN failed ELSE failed \cup {"TcpConnection.cc:199"}
  /\ UNCHANGED <<reading_, outputBuffer_, sock, queue, delayed, closes>>

\* A faulty connectDestroyed that leaves the channel of a connection that is
\* down already in the poller.
connectDestroyed_NoRemove ==
  /\ IF state_ = "kConnected"
       THEN state_' = "kDisconnected" /\ disableAll /\ callback' = "destroy"
       ELSE UNCHANGED <<state_, events_, index_, callback>>
  /\ UNCHANGED <<reading_, outputBuffer_, sock, queue, delayed, known, holds, closes, failed>>

\* connectDestroyed: a connection that is up is taken down first.
connectDestroyed ==
  /\ \/ /\ state_ = "kConnected"
        /\ state_' = "kDisconnected"
        /\ disableAll
        /\ callback' = "destroy"
        /\ UNCHANGED failed
     \/ /\ state_ # "kConnected"
        /\ remove
        /\ failed' = failed \cup removeFails
        /\ UNCHANGED <<state_, callback>>
  /\ UNCHANGED <<reading_, outputBuffer_, sock, queue, delayed, known, holds, closes>>

Loopless == UNCHANGED <<callback, known, holds, closes, failed>>

\* What functor g does; a functor with a raw this must not find the connection gone.
Execute(g) ==
  \/ g.f \notin Strong /\ ~alive /\ failed' = failed \cup {"functor on a dead connection"}
       /\ UNCHANGED <<conn, sock, queue, delayed, callback, known, holds, closes>>
  \/ g.f = "connectEstablished" /\ connectEstablished
  \/ g.f = "connectDestroyed" /\ connectDestroyed
  \/ g.f = "forceCloseInLoop" /\ forceCloseInLoop /\ UNCHANGED <<delayed, known, holds>>
  \/ g.f \in {"writeCompleteCallback", "highWaterMarkCallback"} /\ callback' = "user"
       /\ UNCHANGED <<conn, sock, queue, delayed, known, holds, closes, failed>>
  \/ g.f = "sendInLoop" /\ alive /\ sendInLoop(g.m) /\ Loopless /\ UNCHANGED delayed
  \/ g.f = "shutdownInLoop" /\ alive /\ shutdownInLoop
       /\ Loopless /\ UNCHANGED <<conn, peer, wire, taken, queue, delayed>>
  \/ g.f = "shutdownAndForceCloseInLoop" /\ alive /\ shutdownInLoop
       /\ delayed' = delayed \cup {"forceCloseInLoop"}
       /\ Loopless /\ UNCHANGED <<conn, peer, wire, taken, queue>>
  \/ g.f = "startReadInLoop" /\ alive /\ startReadInLoop /\ Loopless /\ UNCHANGED delayed
  \/ g.f = "stopReadInLoop" /\ alive /\ stopReadInLoop /\ Loopless /\ UNCHANGED delayed

\* handleEventWithGuard returns.
EventHandled ==
  /\ pc = "handling" /\ callback = "none"
  /\ revents_ = {}
  /\ pc' = "events"
  /\ UNCHANGED <<conn, sock, revents_, callback, batch, next, queue, delayed, server, users, known,
                 closes, failed>>

\* All events are handled; a connection that went away before its turn is an
\* event on freed memory.
StartFunctors ==
  /\ pc \in {"events", "handling"} /\ callback = "none"
  /\ alive => pc = "events" /\ revents_ = {}
  /\ pc' = "functors"
  /\ revents_' = {}
  /\ batch' = queue
  /\ queue' = <<>>
  /\ next' = 1
  /\ failed' = IF revents_ = {} THEN failed ELSE failed \cup {"event on a dead channel"}
  /\ UNCHANGED <<conn, sock, callback, delayed, server, users, known, closes>>

RunFunctor ==
  /\ pc = "functors" /\ callback = "none"
  /\ next <= Len(batch)
  /\ next' = next + 1
  /\ Execute(batch[next])
  /\ UNCHANGED <<pc, revents_, batch, server, user, numSent>>

\* The batch is released, and with it the pointers its functors hold.
EndBatch ==
  /\ pc = "functors" /\ callback = "none"
  /\ next > Len(batch)
  /\ pc' = "poll"
  /\ batch' = <<>>
  /\ next' = 1
  /\ UNCHANGED <<conn, sock, revents_, callback, queue, delayed, server, users, known, closes,
                 failed>>

-----------------------------------------------------------------------------
(* The server's loop and the peer.                                         *)

\* A removeConnectionInLoop functor runs in the server's loop; it is bound to a
\* raw pointer to the server.
ServerRemoves ==
  /\ removals > 0
  /\ removals' = removals - 1
  /\ IF serverAlive
       THEN removeConnectionInLoop
       ELSE failed' = failed \cup {"TcpServer.cc:81"} /\ UNCHANGED <<inMap, queue>>
  /\ UNCHANGED <<conn, sock, loopc, delayed, serverAlive, users, known, closes>>

\* ~TcpServer, which hands the connections it still has to their loops.
ServerDestroyed ==
  /\ app.destroysServer /\ serverAlive
  /\ serverAlive' = FALSE
  /\ inMap' = FALSE
  /\ IF inMap THEN Push("connectDestroyed") ELSE UNCHANGED queue
  /\ UNCHANGED <<conn, sock, loopc, delayed, removals, users, known, closes, failed>>

PeerCloses ==
  /\ peer = "open"
  /\ peer' = "closed"
  /\ UNCHANGED <<conn, wrShut, wire, taken, loopc, queue, delayed, server, users, known, closes,
                 failed>>

PeerReset ==
  /\ peer # "reset"
  /\ peer' = "reset"
  /\ UNCHANGED <<conn, wrShut, wire, taken, loopc, queue, delayed, server, users, known, closes,
                 failed>>

-----------------------------------------------------------------------------

LoopThread ==
  \/ \E ready \in SUBSET {"IN", "END", "OUT", "HUP"} : Poll(ready)
  \/ handleEvent
  \/ handleRead
  \/ handleWrite
  \/ EventHandled
  \/ \E t \in delayed : TimerFires(t)
  \/ StartFunctors
  \/ RunFunctor
  \/ EndBatch
  \/ CallbackReturns

LoopUserCode ==
  send \/ shutdown \/ shutdownAndForceCloseAfter \/ forceClose \/ forceCloseWithDelay
    \/ startRead \/ stopRead

UserThread(u) ==
  \/ \E c \in app.userCalls : UserTests(u, c)
  \/ UserSets(u)
  \/ UserQueues(u)
  \/ UserReleases(u)

ServerLoop == ServerRemoves \/ ServerDestroyed

Peer == PeerCloses \/ PeerReset

Next ==
  /\ LoopThread \/ LoopUserCode \/ (\E u \in Users : UserThread(u)) \/ ServerLoop \/ Peer
  /\ UNCHANGED app

Spec == Init /\ [][Next]_vars

\* The loop threads run, timers fire, user threads finish a call they are in and drop their
\* pointers; a peer that closes or resets is seen by some read, and a socket
\* that is written to now and then accepts bytes.
Fairness ==
  /\ WF_moving(LoopThread)
  /\ WF_moving(ServerRemoves)
  /\ \A t \in {"forceClose", "forceCloseInLoop"} : SF_moving(TimerFires(t))
  /\ \A u \in Users : WF_moving(UserSets(u) \/ UserQueues(u)) /\ WF_moving(UserReleases(u))
  /\ SF_moving(handleRead /\ closes' # closes)
  /\ SF_moving(\E ready \in {{"END"}, {"END", "OUT"}, {"END", "HUP"}, {"END", "OUT", "HUP"}} : Poll(ready))
  /\ SF_moving(\E ready \in {{"OUT"}, {"IN", "OUT"}} : Poll(ready))
  /\ SF_moving(handleWrite /\ wire' # wire)

FairSpec == Spec /\ Fairness

-----------------------------------------------------------------------------
(* Correctness.                                                            *)

\* User threads only send.
OnlySends == app.userCalls \subseteq {"send"}

\* How a program has to use a connection: calls that close it, start or stop
\* reading come from the loop thread, no close is left to the timer of
\* shutdownAndForceCloseAfter, reading is not stopped, user threads keep their
\* pointer while they send, and the server outlives the connection.
Careful ==
  /\ app.loopCalls \subseteq {"send", "shutdown", "forceClose", "forceCloseWithDelay"}
  /\ OnlySends
  /\ ~app.userReleases
  /\ ~app.destroysServer

\* In a careful program no assertion of TcpConnection, Channel, EPollPoller or
\* TcpServer fails, handleClose runs once, and no functor, event or callback
\* reaches an object that no longer exists (TcpConnection.cc:70-216, 257-272).
NothingFails == Careful => failed = {} /\ closes <= 1

\* In a careful program a connection is freed only when it is down and out of the
\* poller (what ~TcpConnection, TcpConnection.cc:66-70, and ~Channel assert).
DestroyedClean == Careful /\ ~alive => state_ = "kDisconnected" /\ index_ = "kNew"

\* Whatever the program does, the bytes handed to the socket followed by those in
\* outputBuffer_ are the messages in the order sendInLoop took them: none lost,
\* repeated or reordered (TcpConnection.cc:232-255, 274-320).
BytesInOrder == wire \o outputBuffer_ = taken

\* If user threads only send, our side of the socket is shut only when every byte
\* sendInLoop took has been written (TcpConnection.cc:140-145, 245-247).
ShutdownAfterFlush == OnlySends /\ wrShut => wire = taken

\* If user threads only send, then while the connection is up the poller is asked
\* for writability exactly when outputBuffer_ has something to write: no busy loop
\* and no stuck output (TcpConnection.cc:232-255, 315-318).
WritingIffPending ==
  OnlySends /\ state_ \in {"kConnected", "kDisconnecting"}
    => ("W" \in events_ <=> outputBuffer_ # <<>>)

\* A connection whose peer has gone away is eventually freed (handleRead to
\* connectDestroyed, TcpConnection.cc:207-230, 257-272, TcpServer.cc:77-95).
PeerCloseDestroys == (peer # "open") ~> ~alive

\* What shutdown() and the closing calls start is finished: our side of the
\* socket is shut or the connection is down (TcpConnection.cc:133-186).
DisconnectingEnds ==
  (state_ = "kDisconnecting") ~> (wrShut \/ state_ = "kDisconnected" \/ peer = "reset")
=============================================================================
