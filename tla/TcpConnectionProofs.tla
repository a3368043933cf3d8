------------------------ MODULE TcpConnectionProofs -------------------------
(***************************************************************************)
(* Proofs about TcpConnection for any number of user threads and messages, *)
(* any length of a message and every application that the constant         *)
(* Applications admits.                                                    *)
(***************************************************************************)
EXTENDS TcpConnection, SequenceTheorems, TLAPS

(***************************************************************************)
(* Types.                                                                  *)
(***************************************************************************)

States == {"kConnecting", "kConnected", "kDisconnecting", "kDisconnected"}

Names == Strong \cup {"sendInLoop", "shutdownInLoop", "shutdownAndForceCloseInLoop",
                      "startReadInLoop", "stopReadInLoop"}

Functors == [f : Names, m : Nat]

\* A byte of message m.
Sent == Nat \X Nat

TypeConn ==
  /\ state_ \in States
  /\ reading_ \in BOOLEAN
  /\ outputBuffer_ \in Seq(Sent)
  /\ events_ \in SUBSET {"R", "W"}
  /\ index_ \in {"kNew", "kAdded", "kDeleted"}
  /\ wrShut \in BOOLEAN
  /\ wire \in Seq(Sent)
  /\ taken \in Seq(Sent)

TypeLoop ==
  /\ revents_ \in SUBSET {"IN", "END", "OUT", "HUP"}
  /\ pc \in {"poll", "events", "handling", "functors"}
  /\ callback \in {"none", "user", "close", "destroy"}
  /\ queue \in Seq(Functors)
  /\ batch \in Seq(Functors)
  /\ next \in Nat \ {0}
  /\ delayed \in SUBSET {"forceClose", "forceCloseInLoop"}

TypeRest ==
  /\ app \in Applications
  /\ removals \in Nat
  /\ inMap \in BOOLEAN
  /\ serverAlive \in BOOLEAN
  /\ user \in [Users -> [call : Calls \cup {"none"}, at : {"idle", "tested", "set"}, m : Nat]]
  /\ holds \in [Users -> BOOLEAN]
  /\ numSent \in Nat
  /\ known \in BOOLEAN
  /\ closes \in Nat

TypeOK == TypeConn /\ TypeLoop /\ TypeRest

\* The bytes of a message, and parts of them.
LEMMA BytesType ==
  ASSUME NEW m \in Nat
  PROVE  /\ Bytes(m) \in Seq(Sent)
         /\ Len(Bytes(m)) = MessageLength
<1>1. MessageLength \in Nat
  BY ConnectionAssumption
<1>2. Bytes(m) \in [1..MessageLength -> Sent]
  BY <1>1 DEF Bytes, Sent
<1> QED BY <1>1, <1>2, SeqDef

(***************************************************************************)
(* The inductive invariants.                                               *)
(***************************************************************************)

\* Functor f is in the queue, or in the batch and still to be run.
Queued(f) == \E i \in DOMAIN queue : queue[i].f = f

InBatch(f) == \E i \in DOMAIN batch : next <= i /\ batch[i].f = f

Pending(f) == Queued(f) \/ InBatch(f)

\* It is so exactly once.
OnePending(f) ==
  \/ /\ ~InBatch(f)
     /\ \E i \in DOMAIN queue :
          queue[i].f = f /\ \A j \in DOMAIN queue : queue[j].f = f => j = i
  \/ /\ ~Queued(f)
     /\ \E i \in DOMAIN batch :
          /\ next <= i /\ batch[i].f = f
          /\ \A j \in DOMAIN batch : next <= j /\ batch[j].f = f => j = i

\* The iteration: a batch is there while functors run, and events before that.
IterationInv ==
  /\ pc # "functors" => batch = <<>>
  /\ pc \in {"poll", "functors"} => revents_ = {}
  /\ pc = "handling" => "HUP" \notin revents_
  /\ pc = "poll" => callback = "none"

\* What is still to run before connectEstablished does: connectEstablished, and then
\* connectDestroyed if the server is destroyed meanwhile.
UnbornFunctors ==
  \/ /\ batch = <<>> /\ Len(queue) >= 1 /\ queue[1].f = "connectEstablished"
     /\ \A i \in 2..Len(queue) : queue[i].f = "connectDestroyed"
  \/ /\ Len(batch) >= 1 /\ next = 1 /\ batch[1].f = "connectEstablished"
     /\ \A i \in 2..Len(batch) : batch[i].f = "connectDestroyed"
     /\ \A i \in 1..Len(queue) : queue[i].f = "connectDestroyed"

\* Until connectEstablished has run nothing else has, and nobody knows the connection.
Unborn ==
  /\ events_ = {} /\ index_ = "kNew" /\ outputBuffer_ = <<>> /\ ~wrShut
  /\ revents_ = {} /\ callback = "none" /\ delayed = {} /\ ~known /\ closes = 0
  /\ removals = 0 /\ \A u \in Users : ~holds[u] /\ user[u] = Idle
  /\ UnbornFunctors

\* connectEstablished runs once.
BirthInv ==
  IF state_ = "kConnecting" THEN Unborn ELSE ~Pending("connectEstablished")

Up == state_ \in {"kConnected", "kDisconnecting"}

\* If user threads only send: what they do,
SendingUsers ==
  \A u \in Users : \/ user[u].at = "idle"
                   \/ user[u].at = "set" /\ user[u].call = "send"

\* what is pending then,
SendingFunctors == \A f \in Names \ (Strong \cup {"sendInLoop"}) : ~Pending(f)

\* and what holds of the output.
Writing == Up => ("W" \in events_ <=> outputBuffer_ # <<>>)

Flushed == wrShut => outputBuffer_ = <<>>

SendsInv == OnlySends => SendingUsers /\ SendingFunctors /\ Writing /\ Flushed

\* The life of the connection in a careful program: until handleClose has run,
Open ==
  /\ closes = 0 /\ state_ # "kDisconnected"
  /\ inMap /\ removals = 0 /\ callback # "close" /\ ~Pending("connectDestroyed")

Down == closes = 1 /\ state_ = "kDisconnected" /\ events_ = {}

\* while its connection callback runs,
Closing ==
  /\ Down /\ callback = "close" /\ index_ = "kDeleted"
  /\ inMap /\ removals = 0 /\ ~Pending("connectDestroyed")

\* when the server's loop has been told,
Told ==
  /\ Down /\ callback # "close" /\ index_ = "kDeleted"
  /\ inMap /\ removals = 1 /\ ~Pending("connectDestroyed")

\* when connectDestroyed is on its way, once,
Leaving ==
  /\ Down /\ callback # "close" /\ index_ = "kDeleted"
  /\ ~inMap /\ removals = 0 /\ OnePending("connectDestroyed")

\* and when it has run.
Gone ==
  /\ Down /\ callback # "close" /\ index_ = "kNew" /\ revents_ = {}
  /\ ~inMap /\ removals = 0 /\ ~Pending("connectDestroyed")

Life == Open \/ Closing \/ Told \/ Leaving \/ Gone

\* What a careful program keeps away from.
NoSurprise == serverAlive /\ delayed \subseteq {"forceClose"} /\ callback # "destroy"

\* The poller knows a connection that is up, and reports nothing to read or to close
\* for one that is down.
Registered ==
  /\ Up => index_ = "kAdded" /\ "R" \in events_
  /\ state_ = "kDisconnected" => revents_ \subseteq {"OUT"}

\* A thread that sends, or has sent what is still pending, holds the connection.
Held ==
  Pending("sendInLoop") \/ (\E u \in Users : user[u] # Idle) => \E u \in Users : holds[u]

CarefulInv == Careful => NoSurprise /\ Registered /\ Life /\ failed = {} /\ Held

(***************************************************************************)
(* What the operations do.                                                 *)
(***************************************************************************)

\* Two sequences in three parts.
LEMMA Regroup ==
  ASSUME NEW s \in Seq(Sent), NEW t \in Seq(Sent), NEW r \in Seq(Sent)
  PROVE  (s \o t) \o r = s \o (t \o r) /\ s \o t \in Seq(Sent)
BY ConcatAssociative, ConcatProperties

\* A sequence cut after n elements.
LEMMA Cut ==
  ASSUME NEW s \in Seq(Sent), NEW n \in 0..Len(s)
  PROVE  /\ SubSeq(s, 1, n) \in Seq(Sent)
         /\ SubSeq(s, n + 1, Len(s)) \in Seq(Sent)
         /\ Len(SubSeq(s, n + 1, Len(s))) = Len(s) - n
         /\ SubSeq(s, 1, n) \o SubSeq(s, n + 1, Len(s)) = s
<1>1. 1 \in 1 .. Len(s) + 1 /\ n \in 1 - 1 .. Len(s) /\ Len(s) \in n .. Len(s)
  OBVIOUS
<1>2. SubSeq(s, 1, n) \o SubSeq(s, n + 1, Len(s)) = SubSeq(s, 1, Len(s))
  BY <1>1, ConcatAdjacentSubSeq
<1>3. SubSeq(s, 1, Len(s)) = s
  BY SubSeqFull
<1>4. /\ SubSeq(s, 1, n) \in Seq(Sent)
      /\ SubSeq(s, n + 1, Len(s)) \in Seq(Sent)
      /\ Len(SubSeq(s, n + 1, Len(s))) = Len(s) - n
  OBVIOUS
<1> QED BY <1>2, <1>3, <1>4

\* A functor of the connection that user code set.
CallbackQueued ==
  \/ queue' = queue
  \/ queue' = Append(queue, Functor("writeCompleteCallback"))
  \/ queue' = Append(queue, Functor("highWaterMarkCallback"))

\* sendInLoop drops the message, writes all of it, or leaves something in the buffer
\* and asks for writability; the order of the bytes is kept.
SendDoes ==
  /\ outputBuffer_' \in Seq(Sent) /\ wire' \in Seq(Sent) /\ taken' \in Seq(Sent)
  /\ events_' \in SUBSET {"R", "W"} /\ index_' \in {index_, "kAdded"}
  /\ UNCHANGED <<state_, reading_, peer, wrShut>>
  /\ CallbackQueued
  /\ wire \o outputBuffer_ = taken => wire' \o outputBuffer_' = taken'
  /\ "R" \in events_' <=> "R" \in events_
  /\ \/ UNCHANGED <<outputBuffer_, events_, index_>>
     \/ /\ state_ # "kDisconnected" /\ (NothingBuffered => ~wrShut)
        /\ outputBuffer_' # <<>> /\ "W" \in events_'

\* The end of sendInLoop.
LEMMA BufferRestDoes ==
  ASSUME TypeConn, NEW rest \in Seq(Sent), rest # <<>>, BufferRest(rest)
  PROVE  /\ outputBuffer_' = outputBuffer_ \o rest
         /\ outputBuffer_' \in Seq(Sent) /\ outputBuffer_' # <<>>
         /\ events_' \in SUBSET {"R", "W"} /\ index_' \in {index_, "kAdded"}
         /\ "R" \in events_' <=> "R" \in events_
         /\ "W" \in events_'
         /\ CallbackQueued
<1>1. outputBuffer_' = outputBuffer_ \o rest
  BY DEF BufferRest
<1>2. outputBuffer_ \in Seq(Sent)
  BY DEF TypeConn
<1>3. outputBuffer_ \o rest \in Seq(Sent) /\ outputBuffer_ \o rest # <<>>
  BY <1>2, ConcatProperties, ConcatEqualIffEmpty
<1>4. events_' \in SUBSET {"R", "W"} /\ index_' \in {index_, "kAdded"}
      /\ ("R" \in events_' <=> "R" \in events_) /\ "W" \in events_'
  <2>1. CASE "W" \in events_
    BY <2>1 DEF BufferRest, TypeConn
  <2>2. CASE "W" \notin events_
    <3>1. events_' = events_ \cup {"W"} /\ index_' \in {index_, "kAdded"}
      BY <2>2 DEF BufferRest, update
    <3>2. events_ \in SUBSET {"R", "W"}
      BY DEF TypeConn
    <3> QED BY <3>1, <3>2
  <2> QED BY <2>1, <2>2
<1>5. CallbackQueued
  BY DEF BufferRest, PushCallback, Push, CallbackQueued
<1> QED BY <1>1, <1>3, <1>4, <1>5

LEMMA SendEffect ==
  ASSUME TypeConn, NEW m \in Nat, sendInLoop(m)
  PROVE  SendDoes
<1>1. MessageLength \in Nat \ {0} /\ Bytes(m) \in Seq(Sent) /\ Len(Bytes(m)) = MessageLength
  BY BytesType, ConnectionAssumption
<1>2. outputBuffer_ \in Seq(Sent) /\ wire \in Seq(Sent) /\ taken \in Seq(Sent)
  BY DEF TypeConn
<1>3. CASE UNCHANGED <<conn, sock, queue>>
  BY <1>3 DEF SendDoes, TypeConn, conn, sock, CallbackQueued
<1>4. ASSUME state_ # "kDisconnected", NothingBuffered, ~wrShut, NEW n \in 0..MessageLength,
             wire' = wire \o SubSeq(Bytes(m), 1, n),
             taken' = taken \o Bytes(m),
             n = MessageLength,
             PushCallback("writeCompleteCallback"),
             UNCHANGED <<outputBuffer_, events_, index_>>,
             UNCHANGED <<state_, reading_, peer, wrShut>>
      PROVE  SendDoes
  <2>1. SubSeq(Bytes(m), 1, n) = Bytes(m)
    BY <1>1, <1>4, SubSeqFull
  <2>2. outputBuffer_ = <<>> /\ outputBuffer_' = <<>>
    BY <1>4 DEF NothingBuffered
  <2>3. wire' \in Seq(Sent) /\ taken' \in Seq(Sent)
    BY <1>1, <1>2, <1>4, <2>1, ConcatProperties
  <2>4. wire \o outputBuffer_ = taken => wire' \o outputBuffer_' = taken'
    <3>1. wire \o <<>> = wire /\ wire' \o <<>> = wire'
      BY <1>2, <2>3, ConcatEmptySeq
    <3>2. wire' = wire \o Bytes(m)
      BY <1>4, <2>1
    <3> QED BY <1>4, <2>2, <3>1, <3>2
  <2>5. CallbackQueued
    BY <1>4 DEF PushCallback, Push, CallbackQueued
  <2> QED BY <1>2, <1>4, <2>3, <2>4, <2>5 DEF SendDoes, TypeConn
<1>5. ASSUME state_ # "kDisconnected", NothingBuffered, ~wrShut, NEW n \in 0..MessageLength,
             wire' = wire \o SubSeq(Bytes(m), 1, n),
             taken' = taken \o Bytes(m),
             n # MessageLength,
             BufferRest(SubSeq(Bytes(m), n + 1, MessageLength)),
             UNCHANGED <<state_, reading_, peer, wrShut>>
      PROVE  SendDoes
  <2> DEFINE s == SubSeq(Bytes(m), 1, n)  t == SubSeq(Bytes(m), n + 1, MessageLength)
  <2>1. s \in Seq(Sent) /\ t \in Seq(Sent) /\ s \o t = Bytes(m) /\ Len(t) = MessageLength - n
    BY <1>1, Cut
  <2>2. t # <<>>
    <3>1. Len(t) # 0
      BY <1>1, <1>5, <2>1
    <3> HIDE DEF t
    <3> QED BY <3>1
  <2>3. BufferRest(t) /\ wire' = wire \o s
    BY <1>5
  <2> HIDE DEF s, t
  <2>4. outputBuffer_ = <<>>
    BY <1>5 DEF NothingBuffered
  <2>5. /\ outputBuffer_' = outputBuffer_ \o t
        /\ outputBuffer_' \in Seq(Sent) /\ outputBuffer_' # <<>>
        /\ events_' \in SUBSET {"R", "W"} /\ index_' \in {index_, "kAdded"}
        /\ "R" \in events_' <=> "R" \in events_
        /\ "W" \in events_'
        /\ CallbackQueued
    BY <2>1, <2>2, <2>3, BufferRestDoes
  <2>6. wire' \in Seq(Sent) /\ taken' \in Seq(Sent)
    BY <1>1, <1>2, <1>5, <2>1, <2>3, ConcatProperties
  <2>7. wire \o outputBuffer_ = taken => wire' \o outputBuffer_' = taken'
    <3>1. outputBuffer_' = t /\ wire \o outputBuffer_ = wire
      BY <1>2, <2>1, <2>4, <2>5, ConcatEmptySeq
    <3>3. (wire \o s) \o t = wire \o (s \o t)
      BY <1>2, <2>1, Regroup
    <3>2. wire' \o t = wire \o Bytes(m)
      BY <2>1, <2>3, <3>3
    <3> QED BY <1>5, <3>1, <3>2
  <2> QED BY <1>5, <2>5, <2>6, <2>7 DEF SendDoes
<1>6. ASSUME state_ # "kDisconnected", ~NothingBuffered, BufferRest(Bytes(m)),
             taken' = taken \o Bytes(m), UNCHANGED <<state_, reading_, peer, wrShut, wire>>
      PROVE  SendDoes
  <2>1. Bytes(m) # <<>>
    BY <1>1
  <2>2. /\ outputBuffer_' = outputBuffer_ \o Bytes(m)
        /\ outputBuffer_' \in Seq(Sent) /\ outputBuffer_' # <<>>
        /\ events_' \in SUBSET {"R", "W"} /\ index_' \in {index_, "kAdded"}
        /\ "R" \in events_' <=> "R" \in events_
        /\ "W" \in events_'
        /\ CallbackQueued
    BY <1>1, <1>6, <2>1, BufferRestDoes
  <2>3. wire' \in Seq(Sent) /\ taken' \in Seq(Sent)
    BY <1>1, <1>2, <1>6, ConcatProperties
  <2>4. wire \o outputBuffer_ = taken => wire' \o outputBuffer_' = taken'
    <3>1. (wire \o outputBuffer_) \o Bytes(m) = wire \o (outputBuffer_ \o Bytes(m))
      BY <1>1, <1>2, Regroup
    <3> QED BY <1>6, <2>2, <3>1
  <2> QED BY <1>6, <2>2, <2>3, <2>4 DEF SendDoes
<1> QED BY <1>3, <1>4, <1>5, <1>6 DEF sendInLoop

(***************************************************************************)
(* Types are kept.                                                         *)
(***************************************************************************)

\* What a functor does to the connection.
LEMMA TypeConnExecute ==
  ASSUME TypeConn, NEW g \in Functors, Execute(g)
  PROVE  TypeConn'
<1> USE DEF conn, sock, TypeConn, States
<1>1. CASE connectEstablished
  BY <1>1 DEF connectEstablished, update
<1>2. CASE connectDestroyed
  BY <1>2 DEF connectDestroyed, disableAll, update, remove
<1>3. CASE forceCloseInLoop
  BY <1>3 DEF forceCloseInLoop, handleClose, disableAll, update
<1>4. CASE sendInLoop(g.m)
  <2>1. SendDoes
    BY <1>4, SendEffect DEF Functors
  <2> QED BY <2>1 DEF SendDoes
<1>5. CASE shutdownInLoop /\ UNCHANGED <<conn, peer, wire, taken, queue>>
  BY <1>5 DEF shutdownInLoop
<1>6. CASE startReadInLoop
  BY <1>6 DEF startReadInLoop, update
<1>7. CASE stopReadInLoop
  BY <1>7 DEF stopReadInLoop, update
<1>8. CASE UNCHANGED <<conn, sock>>
  BY <1>8
<1> QED BY <1>1, <1>2, <1>3, <1>4, <1>5, <1>6, <1>7, <1>8 DEF Execute

\* handleWrite cuts the buffer.
LEMMA WriteOutDoes ==
  ASSUME TypeConn, NEW n \in 1..Len(outputBuffer_), WriteOut(n), taken' = taken
  PROVE  /\ wire' \in Seq(Sent) /\ outputBuffer_' \in Seq(Sent)
         /\ wire \o outputBuffer_ = taken => wire' \o outputBuffer_' = taken'
<1> DEFINE s == SubSeq(outputBuffer_, 1, n)  t == SubSeq(outputBuffer_, n + 1, Len(outputBuffer_))
<1>1. outputBuffer_ \in Seq(Sent) /\ wire \in Seq(Sent) /\ n \in 0..Len(outputBuffer_)
  BY DEF TypeConn
<1>2. s \in Seq(Sent) /\ t \in Seq(Sent) /\ s \o t = outputBuffer_
  BY <1>1, Cut
<1>3. wire' = wire \o s /\ outputBuffer_' = t
  BY DEF WriteOut
<1> HIDE DEF s, t
<1>4. (wire \o s) \o t = wire \o (s \o t) /\ wire \o s \in Seq(Sent)
  BY <1>1, <1>2, Regroup
<1> QED BY <1>2, <1>3, <1>4

LEMMA TypeConnStep ==
  ASSUME TypeOK, [Next]_vars
  PROVE  TypeConn'
<1> USE DEF conn, sock, States
<1>0. TypeConn
  BY DEF TypeOK
<1>1. CASE UNCHANGED <<conn, sock>>
  BY <1>0, <1>1 DEF TypeConn
<1>2. CASE handleEvent \/ handleRead
  BY <1>0, <1>2 DEF handleEvent, handleRead, handleClose, disableAll, update, TypeConn
<1>3. CASE handleWrite
  <2>1. ASSUME NEW n \in 1..Len(outputBuffer_), WriteOut(n),
               IF outputBuffer_' = <<>> THEN OutputDone ELSE UNCHANGED <<events_, index_, queue, wrShut>>,
               UNCHANGED <<state_, reading_, peer, taken>>
        PROVE  TypeConn'
    <3>1. wire' \in Seq(Sent) /\ outputBuffer_' \in Seq(Sent)
      BY <1>0, <2>1, WriteOutDoes
    <3> QED BY <1>0, <2>1, <3>1 DEF TypeConn, OutputDone, update
  <2> QED BY <1>1, <1>3, <2>1 DEF handleWrite
<1>4. ASSUME NEW t \in delayed, TimerFires(t) PROVE TypeConn'
  BY <1>0, <1>4 DEF TypeConn, TimerFires, forceCloseInLoop, handleClose, disableAll, update
<1>5. CASE RunFunctor
  <2>1. batch[next] \in Functors
    BY <1>5 DEF RunFunctor, TypeOK, TypeLoop
  <2>2. Execute(batch[next])
    BY <1>5 DEF RunFunctor
  <2> QED BY <1>0, <2>1, <2>2, TypeConnExecute
<1>6. CASE CallbackReturns
  BY <1>0, <1>6 DEF TypeConn, CallbackReturns, remove
<1>7. CASE send
  <2>1. SendDoes
    BY <1>0, <1>7, SendEffect DEF send, TypeOK, TypeRest
  <2> QED BY <1>0, <2>1 DEF SendDoes, TypeConn
<1>8. CASE shutdown \/ shutdownAndForceCloseAfter
  BY <1>0, <1>8 DEF TypeConn, shutdown, shutdownAndForceCloseAfter, shutdownInLoop
<1>9. CASE forceClose \/ forceCloseWithDelay
  BY <1>0, <1>9 DEF TypeConn, forceClose, forceCloseWithDelay
<1>10. CASE startRead \/ stopRead
  BY <1>0, <1>10 DEF TypeConn, startRead, stopRead, startReadInLoop, stopReadInLoop, update
<1>11. ASSUME NEW u \in Users, UserThread(u) PROVE TypeConn'
  BY <1>0, <1>11 DEF TypeConn, UserThread, UserTests, UserSets, UserQueues, UserReleases
<1>12. CASE Peer
  BY <1>0, <1>12 DEF TypeConn, Peer, PeerCloses, PeerReset
<1>13. CASE (\E ready \in SUBSET {"IN", "END", "OUT", "HUP"} : Poll(ready)) \/ EventHandled
             \/ StartFunctors \/ EndBatch \/ ServerLoop
  BY <1>1, <1>13 DEF Poll, EventHandled, StartFunctors, EndBatch, ServerLoop, ServerRemoves,
                    ServerDestroyed
<1>14. CASE UNCHANGED vars
  BY <1>1, <1>14 DEF vars, moving
<1> QED BY <1>2, <1>3, <1>4, <1>5, <1>6, <1>7, <1>8, <1>9, <1>10, <1>11, <1>12, <1>13, <1>14
        DEF Next, LoopThread, LoopUserCode

\* Functors that are queued.
LEMMA FunctorType ==
  /\ \A f \in Names : Functor(f) \in Functors
  /\ \A q \in Seq(Functors), g \in Functors : Append(q, g) \in Seq(Functors)
<1>1. \A f \in Names : Functor(f) \in Functors
  BY DEF Functor, Functors
<1> QED BY <1>1

LEMMA PushType ==
  ASSUME queue \in Seq(Functors), NEW f \in Names, Push(f)
  PROVE  queue' \in Seq(Functors)
BY FunctorType DEF Push

LEMMA CallbackType ==
  ASSUME queue \in Seq(Functors), CallbackQueued
  PROVE  queue' \in Seq(Functors)
BY FunctorType DEF CallbackQueued, Names, Strong

\* What a functor does to the rest.
LEMMA ExecuteLoop ==
  ASSUME TypeConn, TypeLoop, NEW g \in Functors, Execute(g)
  PROVE  /\ queue' \in Seq(Functors)
         /\ callback' \in {"none", "user", "close", "destroy"}
         /\ delayed' \in SUBSET {"forceClose", "forceCloseInLoop"}
<1> USE DEF TypeLoop
<1>1. CASE connectEstablished \/ connectDestroyed
  BY <1>1 DEF connectEstablished, connectDestroyed
<1>2. CASE forceCloseInLoop /\ UNCHANGED <<delayed, known, holds>>
  BY <1>2 DEF forceCloseInLoop, handleClose
<1>3. CASE sendInLoop(g.m) /\ Loopless /\ UNCHANGED delayed
  <2>1. SendDoes
    BY <1>3, SendEffect DEF Functors
  <2>2. queue' \in Seq(Functors)
    BY <2>1, CallbackType DEF SendDoes
  <2> QED BY <1>3, <2>2 DEF Loopless
<1>4. CASE Loopless /\ UNCHANGED queue /\ delayed' \in {delayed, delayed \cup {"forceCloseInLoop"}}
  BY <1>4 DEF Loopless
<1>5. CASE UNCHANGED <<queue, delayed>> /\ callback' \in {callback, "user"}
  BY <1>5
<1>6. CASE (startReadInLoop \/ stopReadInLoop) /\ Loopless /\ UNCHANGED delayed
  BY <1>6 DEF startReadInLoop, stopReadInLoop, Loopless
<1> QED BY <1>1, <1>2, <1>3, <1>4, <1>5, <1>6 DEF Execute

LEMMA TypeLoopStep ==
  ASSUME TypeOK, [Next]_vars
  PROVE  TypeLoop'
<1> USE DEF loopc
<1>0. TypeConn /\ TypeLoop /\ TypeRest
  BY DEF TypeOK
<1>1. CASE UNCHANGED <<loopc, queue, delayed>>
  BY <1>0, <1>1 DEF TypeLoop
<1>2. CASE handleEvent \/ handleRead
  BY <1>0, <1>2 DEF handleEvent, handleRead, handleClose, TypeLoop
<1>3. CASE handleWrite
  <2>1. queue' \in Seq(Functors)
    <3>1. CallbackQueued
      BY <1>3 DEF handleWrite, OutputDone, PushCallback, Push, CallbackQueued
    <3> QED BY <1>0, <3>1, CallbackType DEF TypeLoop
  <2> QED BY <1>0, <1>3, <2>1 DEF handleWrite, TypeLoop
<1>4. ASSUME NEW t \in delayed, TimerFires(t) PROVE TypeLoop'
  <2>1. queue' \in Seq(Functors)
    <3>1. queue' = queue \/ Push("forceCloseInLoop")
      BY <1>4 DEF TimerFires, forceCloseInLoop, handleClose
    <3> QED BY <1>0, <3>1, PushType DEF TypeLoop, Names, Strong
  <2> QED BY <1>0, <1>4, <2>1 DEF TimerFires, TypeLoop, forceCloseInLoop, handleClose
<1>5. CASE RunFunctor
  <2>1. batch[next] \in Functors
    BY <1>5 DEF RunFunctor, TypeOK, TypeLoop
  <2>2. Execute(batch[next])
    BY <1>5 DEF RunFunctor
  <2>3. /\ queue' \in Seq(Functors)
        /\ callback' \in {"none", "user", "close", "destroy"}
        /\ delayed' \in SUBSET {"forceClose", "forceCloseInLoop"}
    BY <1>0, <2>1, <2>2, ExecuteLoop
  <2> QED BY <1>0, <1>5, <2>3 DEF RunFunctor, TypeLoop
<1>6. CASE CallbackReturns
  <2>1. queue' \in Seq(Functors)
    <3>1. queue' = queue \/ Push("connectDestroyed")
      BY <1>6 DEF CallbackReturns, removeConnectionInLoop, server
    <3> QED BY <1>0, <3>1, PushType DEF TypeLoop, Names, Strong
  <2> QED BY <1>0, <1>6, <2>1 DEF CallbackReturns, TypeLoop
<1>7. CASE send
  <2>1. SendDoes
    BY <1>0, <1>7, SendEffect DEF send, TypeRest
  <2>2. queue' \in Seq(Functors)
    BY <1>0, <2>1, CallbackType DEF SendDoes, TypeLoop
  <2> QED BY <1>0, <1>7, <2>2 DEF send, Unmoved, TypeLoop
<1>8. CASE shutdown \/ shutdownAndForceCloseAfter
  BY <1>0, <1>8 DEF TypeLoop, shutdown, shutdownAndForceCloseAfter, Unmoved
<1>9. CASE forceClose
  <2>1. queue' \in Seq(Functors)
    BY <1>0, <1>9, PushType DEF TypeLoop, forceClose, Names, Strong
  <2> QED BY <1>0, <1>9, <2>1 DEF TypeLoop, forceClose, Unmoved
<1>10. CASE forceCloseWithDelay
  BY <1>0, <1>10 DEF TypeLoop, forceCloseWithDelay, Unmoved
<1>11. CASE startRead \/ stopRead
  BY <1>0, <1>11 DEF TypeLoop, startRead, stopRead, startReadInLoop, stopReadInLoop, Unmoved
<1>12. ASSUME NEW u \in Users, UserThread(u) PROVE TypeLoop'
  <2>1. CASE UserQueues(u)
    <3>1. FunctorOf(user[u]) \in Functors
      BY <1>0 DEF TypeRest, FunctorOf, Functor, Functors, Names, Strong
    <3>2. queue' \in Seq(Functors)
      BY <1>0, <2>1, <3>1 DEF TypeLoop, UserQueues
    <3> QED BY <1>0, <2>1, <3>2 DEF TypeLoop, UserQueues
  <2> QED BY <1>1, <1>12, <2>1 DEF UserThread, UserTests, UserSets, UserReleases
<1>13. CASE Peer
  BY <1>1, <1>13 DEF Peer, PeerCloses, PeerReset
<1>14. CASE (\E ready \in SUBSET {"IN", "END", "OUT", "HUP"} : Poll(ready)) \/ EventHandled
             \/ StartFunctors \/ EndBatch
  <2>1. ASSUME NEW ready \in SUBSET {"IN", "END", "OUT", "HUP"}, Poll(ready) PROVE TypeLoop'
    BY <1>0, <2>1 DEF Poll, TypeLoop
  <2>2. CASE EventHandled
    BY <1>0, <2>2 DEF EventHandled, TypeLoop
  <2>3. CASE StartFunctors
    <3>1. <<>> \in Seq(Functors) /\ 1 \in Nat \ {0}
      OBVIOUS
    <3> QED BY <1>0, <2>3, <3>1 DEF StartFunctors, TypeLoop
  <2>4. CASE EndBatch
    BY <1>0, <2>4 DEF EndBatch, TypeLoop
  <2> QED BY <1>14, <2>1, <2>2, <2>3, <2>4
<1>15. CASE ServerLoop
  <2>1. queue' \in Seq(Functors)
    <3>1. queue' = queue \/ Push("connectDestroyed")
      BY <1>15 DEF ServerLoop, ServerRemoves, ServerDestroyed, removeConnectionInLoop
    <3> QED BY <1>0, <3>1, PushType DEF TypeLoop, Names, Strong
  <2> QED BY <1>0, <1>15, <2>1 DEF ServerLoop, ServerRemoves, ServerDestroyed, TypeLoop
<1>16. CASE UNCHANGED vars
  BY <1>1, <1>16 DEF vars, moving
<1>17. CASE LoopThread
  BY <1>2, <1>3, <1>4, <1>5, <1>6, <1>14, <1>17 DEF LoopThread
<1>18. CASE LoopUserCode
  BY <1>7, <1>8, <1>9, <1>10, <1>11, <1>18 DEF LoopUserCode
<1> QED BY <1>12, <1>13, <1>15, <1>16, <1>17, <1>18 DEF Next

LEMMA TypeRestStep ==
  ASSUME TypeOK, [Next]_vars
  PROVE  TypeRest'
<1> USE DEF server, users
<1>0. TypeConn /\ TypeLoop /\ TypeRest /\ app' = app
  BY DEF TypeOK, Next, vars
<1>1. CASE UNCHANGED <<server, users, known, closes>>
  BY <1>0, <1>1 DEF TypeRest
<1>2. CASE handleEvent \/ handleRead
  BY <1>0, <1>2 DEF handleEvent, handleRead, handleClose, TypeRest
<1>3. CASE handleWrite \/ Peer
  BY <1>1, <1>3 DEF handleWrite, Peer, PeerCloses, PeerReset
<1>4. ASSUME NEW t \in delayed, TimerFires(t) PROVE TypeRest'
  BY <1>0, <1>4 DEF TimerFires, forceCloseInLoop, handleClose, TypeRest
<1>5. CASE RunFunctor
  <2> DEFINE Goal == holds' \in [Users -> BOOLEAN] /\ known' \in BOOLEAN /\ closes' \in Nat
  <2>1. ASSUME UNCHANGED <<holds, known, closes>> PROVE Goal
    BY <1>0, <2>1 DEF TypeRest
  <2>2. ASSUME connectEstablished PROVE Goal
    <3>1. (app.userCalls # {}) \in BOOLEAN
      OBVIOUS
    <3>2. holds' = [u \in Users |-> app.userCalls # {}]
      BY <2>2 DEF connectEstablished
    <3> QED BY <1>0, <2>2, <3>1, <3>2 DEF connectEstablished, TypeRest
  <2>3. ASSUME connectDestroyed PROVE Goal
    BY <2>1, <2>3 DEF connectDestroyed
  <2>4. ASSUME forceCloseInLoop, UNCHANGED <<delayed, known, holds>> PROVE Goal
    BY <1>0, <2>4 DEF forceCloseInLoop, handleClose, TypeRest
  <2>5. Execute(batch[next])
    BY <1>5 DEF RunFunctor
  <2>6. Goal
    BY <2>1, <2>2, <2>3, <2>4, <2>5 DEF Execute, Loopless
  <2> QED BY <1>0, <1>5, <2>6 DEF RunFunctor, TypeRest
<1>6. CASE CallbackReturns
  <2>1. /\ removals' \in Nat /\ inMap' \in BOOLEAN /\ known' \in BOOLEAN
        /\ serverAlive' = serverAlive
    <3>1. CASE callback = "user"
      BY <1>0, <1>6, <3>1 DEF CallbackReturns, TypeRest
    <3>2. CASE callback = "close"
      <4>1. CASE UNCHANGED <<removals, inMap, serverAlive>> /\ known' = FALSE
        BY <1>0, <4>1 DEF TypeRest
      <4>2. CASE removeConnectionInLoop /\ UNCHANGED <<removals, serverAlive>> /\ known' = FALSE
        BY <1>0, <4>2 DEF TypeRest, removeConnectionInLoop
      <4>3. CASE removals' = removals + 1 /\ UNCHANGED <<inMap, serverAlive>> /\ known' = FALSE
        <5>1. removals' \in Nat
          BY <1>0, <4>3 DEF TypeRest
        <5> QED BY <1>0, <4>3, <5>1 DEF TypeRest
      <4> QED BY <1>6, <3>2, <4>1, <4>2, <4>3 DEF CallbackReturns
    <3>3. CASE callback = "destroy"
      BY <1>0, <1>6, <3>3 DEF CallbackReturns, TypeRest
    <3> QED BY <1>6, <3>1, <3>2, <3>3 DEF CallbackReturns
  <2> QED BY <1>0, <1>6, <2>1 DEF CallbackReturns, TypeRest
<1>7. CASE LoopUserCode
  BY <1>0, <1>7 DEF LoopUserCode, send, shutdown, shutdownAndForceCloseAfter, forceClose,
                    forceCloseWithDelay, startRead, stopRead, Unmoved, TypeRest
<1>8. ASSUME NEW u \in Users, UserThread(u) PROVE TypeRest'
  <2>1. ASSUME NEW c \in app.userCalls, UserTests(u, c) PROVE TypeRest'
    <3>1. c \in Calls
      BY <1>0, ConnectionAssumption DEF TypeRest
    <3> DEFINE r == [call |-> c, at |-> IF Sets(c) THEN "tested" ELSE "set",
                     m |-> IF c = "send" THEN numSent + 1 ELSE 0]
    <3>2. r \in [call : Calls \cup {"none"}, at : {"idle", "tested", "set"}, m : Nat]
      BY <1>0, <3>1 DEF TypeRest
    <3>3. user' = [user EXCEPT ![u] = r]
      BY <2>1 DEF UserTests
    <3> HIDE DEF r
    <3>4. user' \in [Users -> [call : Calls \cup {"none"}, at : {"idle", "tested", "set"}, m : Nat]]
      BY <1>0, <3>2, <3>3 DEF TypeRest
    <3> QED BY <1>0, <2>1, <3>4 DEF UserTests, TypeRest
  <2>2. CASE UserSets(u)
    BY <1>0, <2>2 DEF UserSets, TypeRest
  <2>3. CASE UserQueues(u)
    BY <1>0, <2>3 DEF UserQueues, TypeRest, Idle
  <2>4. CASE UserReleases(u)
    BY <1>0, <2>4 DEF UserReleases, TypeRest
  <2> QED BY <1>8, <2>1, <2>2, <2>3, <2>4 DEF UserThread
<1>9. CASE ServerLoop
  <2>1. CASE ServerRemoves
    <3>1. removals' \in Nat
      BY <1>0, <2>1 DEF ServerRemoves, TypeRest
    <3>2. inMap' \in BOOLEAN
      BY <1>0, <2>1 DEF ServerRemoves, removeConnectionInLoop, TypeRest
    <3> QED BY <1>0, <2>1, <3>1, <3>2 DEF ServerRemoves, TypeRest
  <2>2. CASE ServerDestroyed
    BY <1>0, <2>2 DEF ServerDestroyed, TypeRest
  <2> QED BY <1>9, <2>1, <2>2 DEF ServerLoop
<1>10. CASE (\E ready \in SUBSET {"IN", "END", "OUT", "HUP"} : Poll(ready)) \/ EventHandled
             \/ StartFunctors \/ EndBatch
  BY <1>1, <1>10 DEF Poll, EventHandled, StartFunctors, EndBatch
<1>11. CASE UNCHANGED vars
  BY <1>1, <1>11 DEF vars, moving
<1> QED BY <1>2, <1>3, <1>4, <1>5, <1>6, <1>7, <1>8, <1>9, <1>10, <1>11
        DEF Next, LoopThread


\* The initial state has the types.
LEMMA TypeInit == Init => TypeOK
<1> SUFFICES ASSUME Init PROVE TypeOK
  OBVIOUS
<1>1. TypeConn
  <2>1. <<>> \in Seq(Sent)
    OBVIOUS
  <2> QED BY <2>1 DEF Init, TypeConn, States
<1>2. TypeLoop
  <2>1. Functor("connectEstablished") \in Functors
    BY FunctorType DEF Names, Strong
  <2>2. queue \in Seq(Functors) /\ batch \in Seq(Functors)
    BY <2>1 DEF Init
  <2> QED BY <2>2 DEF Init, TypeLoop
<1>3. TypeRest
  <2>1. user \in [Users -> [call : Calls \cup {"none"}, at : {"idle", "tested", "set"}, m : Nat]]
    BY DEF Init, Idle
  <2>2. holds \in [Users -> BOOLEAN]
    BY DEF Init
  <2> QED BY <2>1, <2>2 DEF Init, TypeRest
<1> QED BY <1>1, <1>2, <1>3 DEF TypeOK

(***************************************************************************)
(* The bytes: no operation loses, repeats or reorders one.                 *)
(***************************************************************************)

LEMMA BytesStep ==
  ASSUME TypeOK, BytesInOrder, [Next]_vars
  PROVE  BytesInOrder'
<1> USE DEF conn, sock
<1>0. TypeConn /\ TypeLoop /\ TypeRest
  BY DEF TypeOK
<1>1. CASE UNCHANGED <<outputBuffer_, wire, taken>>
  BY <1>1 DEF BytesInOrder
<1>2. CASE SendDoes
  BY <1>2 DEF SendDoes, BytesInOrder
<1>3. CASE handleWrite
  <2>1. ASSUME NEW n \in 1..Len(outputBuffer_), WriteOut(n), taken' = taken
        PROVE  BytesInOrder'
    BY <1>0, <2>1, WriteOutDoes DEF BytesInOrder
  <2> QED BY <1>1, <1>3, <2>1 DEF handleWrite
<1>4. CASE RunFunctor
  <2>1. batch[next] \in Functors /\ Execute(batch[next])
    BY <1>0, <1>4 DEF RunFunctor, TypeLoop
  <2>2. ASSUME sendInLoop(batch[next].m) PROVE BytesInOrder'
    BY <1>0, <1>2, <2>1, <2>2, SendEffect DEF Functors
  <2> QED BY <1>1, <2>1, <2>2 DEF Execute, connectEstablished, connectDestroyed, forceCloseInLoop,
                 handleClose, startReadInLoop, stopReadInLoop
<1>5. CASE send
  BY <1>0, <1>2, <1>5, SendEffect DEF send, TypeRest
<1>6. CASE LoopUserCode /\ ~send
  BY <1>1, <1>6 DEF LoopUserCode, shutdown, shutdownAndForceCloseAfter, forceClose,
                    forceCloseWithDelay, startRead, stopRead, startReadInLoop, stopReadInLoop
<1>7. CASE LoopThread /\ ~handleWrite /\ ~RunFunctor
  BY <1>1, <1>7 DEF LoopThread, Poll, handleEvent, handleRead, handleClose, EventHandled, TimerFires,
                    forceCloseInLoop, StartFunctors, EndBatch, CallbackReturns
<1>8. ASSUME NEW u \in Users, UserThread(u) PROVE BytesInOrder'
  BY <1>1, <1>8 DEF UserThread, UserTests, UserSets, UserQueues, UserReleases
<1>9. CASE ServerLoop \/ Peer
  BY <1>1, <1>9 DEF ServerLoop, ServerRemoves, ServerDestroyed, Peer, PeerCloses, PeerReset
<1>10. CASE UNCHANGED vars
  BY <1>1, <1>10 DEF vars, moving
<1> QED BY <1>3, <1>4, <1>5, <1>6, <1>7, <1>8, <1>9, <1>10 DEF Next

(***************************************************************************)
(* The iteration.                                                          *)
(***************************************************************************)

LEMMA IterationStep ==
  ASSUME TypeOK, IterationInv, [Next]_vars
  PROVE  IterationInv'
<1> USE DEF loopc
<1>0. TypeLoop
  BY DEF TypeOK
<1>1. CASE UNCHANGED <<revents_, pc, batch>> /\ (callback' = callback \/ pc # "poll")
  BY <1>1 DEF IterationInv
<1>2. CASE handleEvent \/ handleRead \/ handleWrite
  BY <1>0, <1>2 DEF IterationInv, handleEvent, handleRead, handleWrite, handleClose, TypeLoop
<1>3. ASSUME NEW ready \in SUBSET {"IN", "END", "OUT", "HUP"}, Poll(ready) PROVE IterationInv'
  BY <1>3 DEF IterationInv, Poll
<1>4. CASE EventHandled \/ StartFunctors \/ EndBatch
  BY <1>4 DEF IterationInv, EventHandled, StartFunctors, EndBatch
<1>5. CASE RunFunctor
  BY <1>1, <1>5 DEF RunFunctor
<1>6. CASE CallbackReturns
  BY <1>6 DEF CallbackReturns, IterationInv
<1>7. ASSUME NEW t \in delayed, TimerFires(t) PROVE IterationInv'
  BY <1>1, <1>7 DEF TimerFires
<1>8. CASE LoopUserCode
  BY <1>1, <1>8 DEF LoopUserCode, send, shutdown, shutdownAndForceCloseAfter, forceClose,
                    forceCloseWithDelay, startRead, stopRead, Unmoved
<1>9. ASSUME NEW u \in Users, UserThread(u) PROVE IterationInv'
  BY <1>1, <1>9 DEF UserThread, UserTests, UserSets, UserQueues, UserReleases
<1>10. CASE ServerLoop \/ Peer
  BY <1>1, <1>10 DEF ServerLoop, ServerRemoves, ServerDestroyed, Peer, PeerCloses, PeerReset
<1>11. CASE UNCHANGED vars
  BY <1>1, <1>11 DEF vars, moving
<1> QED BY <1>2, <1>3, <1>4, <1>5, <1>6, <1>7, <1>8, <1>9, <1>10, <1>11 DEF Next, LoopThread

(***************************************************************************)
(* Pending functors.                                                       *)
(***************************************************************************)

\* Other functors may be queued, and the loop may take the batch, run another functor
\* of it and release it: whether f is pending, and whether it is once, stays the same.
KeepsPending(f) ==
  /\ Pending(f)' <=> Pending(f)
  /\ OnePending(f)' <=> OnePending(f)

\* Functors other than f are queued, or nothing is.
QueuesOther(f) == queue' = queue \/ \E g \in Functors : g.f # f /\ queue' = Append(queue, g)

LEMMA AppendOther ==
  ASSUME TypeLoop, NEW f, QueuesOther(f)
  PROVE  /\ queue' \in Seq(Functors)
         /\ Queued(f)' <=> Queued(f)
         /\ (\E i \in DOMAIN queue : queue[i].f = f /\ \A j \in DOMAIN queue : queue[j].f = f => j = i)'
             <=> \E i \in DOMAIN queue : queue[i].f = f /\ \A j \in DOMAIN queue : queue[j].f = f => j = i
<1>1. CASE queue' = queue
  BY <1>1 DEF Queued, TypeLoop
<1>2. ASSUME NEW g \in Functors, g.f # f, queue' = Append(queue, g)
      PROVE  /\ queue' \in Seq(Functors)
             /\ DOMAIN queue' = 1..Len(queue) + 1 /\ DOMAIN queue = 1..Len(queue)
             /\ Len(queue) \in Nat
             /\ queue'[Len(queue) + 1].f # f
             /\ \A i \in 1..Len(queue) : queue'[i] = queue[i]
  BY <1>2 DEF TypeLoop
<1>3. ASSUME NEW g \in Functors, g.f # f, queue' = Append(queue, g)
      PROVE  \A i : (i \in DOMAIN queue' /\ queue'[i].f = f) <=> (i \in DOMAIN queue /\ queue[i].f = f)
  BY <1>2, <1>3
<1> QED BY <1>1, <1>2, <1>3 DEF Queued, QueuesOther

LEMMA PendingQueue ==
  ASSUME TypeLoop, NEW f, QueuesOther(f), UNCHANGED <<batch, next>>
  PROVE  KeepsPending(f)
BY AppendOther DEF KeepsPending, Pending, OnePending, InBatch

LEMMA PendingRun ==
  ASSUME TypeLoop, NEW f, QueuesOther(f), batch' = batch, next' = next + 1, batch[next].f # f
  PROVE  KeepsPending(f)
<1>1. \A i \in DOMAIN batch : i \in Nat
  BY DEF TypeLoop
<1>2. next \in Nat
  BY DEF TypeLoop
<1>3. \A i \in DOMAIN batch : (next + 1 <= i /\ batch[i].f = f) <=> (next <= i /\ batch[i].f = f)
  BY <1>1, <1>2
<1> QED BY <1>3, AppendOther DEF KeepsPending, Pending, OnePending, InBatch

LEMMA PendingStart ==
  ASSUME TypeLoop, NEW f, batch = <<>>, batch' = queue, queue' = <<>>, next' = 1
  PROVE  KeepsPending(f)
<1>1. ~InBatch(f) /\ ~Queued(f)'
  BY DEF InBatch, Queued
<1>2. \A i \in DOMAIN queue : 1 <= i
  BY DEF TypeLoop
<1>3. InBatch(f)' <=> Queued(f)
  BY <1>2 DEF InBatch, Queued
<1>4. OnePending(f)' <=> OnePending(f)
  BY <1>1, <1>2, <1>3 DEF OnePending, InBatch, Queued
<1> QED BY <1>1, <1>3, <1>4 DEF KeepsPending, Pending

LEMMA PendingEnd ==
  ASSUME TypeLoop, NEW f, next > Len(batch), batch' = <<>>, next' = 1, queue' = queue
  PROVE  KeepsPending(f)
<1>1. \A i \in DOMAIN batch : ~(next <= i)
  BY DEF TypeLoop
<1>2. ~InBatch(f) /\ ~InBatch(f)'
  BY <1>1 DEF InBatch
<1> QED BY <1>1, <1>2 DEF KeepsPending, Pending, OnePending, Queued, InBatch

LEMMA PushOther ==
  ASSUME NEW h \in Names, Push(h), NEW f, f # h
  PROVE  QueuesOther(f)
<1>1. Functor(h) \in Functors /\ Functor(h).f = h
  BY FunctorType DEF Functor
<1> QED BY <1>1 DEF Push, QueuesOther

LEMMA CallbackOther ==
  ASSUME CallbackQueued, NEW f, f \notin {"writeCompleteCallback", "highWaterMarkCallback"}
  PROVE  QueuesOther(f)
<1>1. CASE queue' = queue
  BY <1>1 DEF QueuesOther
<1>2. CASE Push("writeCompleteCallback") \/ Push("highWaterMarkCallback")
  BY <1>2, PushOther DEF Names, Strong
<1> QED BY <1>1, <1>2 DEF CallbackQueued, Push

\* What each part of the system queues.
LEMMA QueueUserCode ==
  ASSUME TypeOK, LoopUserCode,
         NEW f, f \notin {"writeCompleteCallback", "highWaterMarkCallback", "forceCloseInLoop"}
  PROVE  QueuesOther(f) /\ UNCHANGED loopc
<1> USE DEF conn, sock, loopc
<1>1. CASE send
  <2>1. SendDoes
    BY <1>1, SendEffect DEF send, TypeOK, TypeRest
  <2> QED BY <1>1, <2>1, CallbackOther DEF SendDoes, send, Unmoved
<1>2. CASE forceClose
  BY <1>2, PushOther DEF forceClose, Unmoved, Names, Strong
<1>3. CASE shutdown \/ shutdownAndForceCloseAfter \/ forceCloseWithDelay \/ startRead \/ stopRead
  BY <1>3 DEF shutdown, shutdownAndForceCloseAfter, forceCloseWithDelay, startRead, stopRead,
              startReadInLoop, stopReadInLoop, Unmoved, QueuesOther
<1> QED BY <1>1, <1>2, <1>3 DEF LoopUserCode

LEMMA QueueExecute ==
  ASSUME TypeOK, NEW g \in Functors, Execute(g),
         NEW f, f \notin {"writeCompleteCallback", "highWaterMarkCallback"}
  PROVE  QueuesOther(f)
<1>1. CASE sendInLoop(g.m)
  <2>1. SendDoes
    BY <1>1, SendEffect DEF Functors, TypeOK
  <2> QED BY <2>1, CallbackOther DEF SendDoes
<1>2. CASE queue' = queue
  BY <1>2 DEF QueuesOther
<1> QED BY <1>1, <1>2 DEF Execute, connectEstablished, connectDestroyed, forceCloseInLoop,
            handleClose, startReadInLoop, stopReadInLoop

LEMMA QueueTimer ==
  ASSUME NEW t \in delayed, TimerFires(t), NEW f, f # "forceCloseInLoop"
  PROVE  QueuesOther(f) /\ UNCHANGED <<batch, next>>
<1>1. queue' = queue \/ Push("forceCloseInLoop")
  BY DEF TimerFires, forceCloseInLoop, handleClose
<1> QED BY <1>1, PushOther DEF QueuesOther, Names, Strong, TimerFires

LEMMA QueueEvent ==
  ASSUME handleEvent \/ handleRead \/ handleWrite \/ EventHandled
           \/ (\E ready \in SUBSET {"IN", "END", "OUT", "HUP"} : Poll(ready)),
         NEW f, f \notin {"writeCompleteCallback", "highWaterMarkCallback"}
  PROVE  QueuesOther(f) /\ UNCHANGED <<batch, next>>
<1>1. CASE handleWrite
  <2>1. CallbackQueued
    BY <1>1 DEF handleWrite, OutputDone, PushCallback, Push, CallbackQueued
  <2> QED BY <1>1, <2>1, CallbackOther DEF handleWrite
<1>2. CASE handleEvent \/ handleRead \/ EventHandled
             \/ (\E ready \in SUBSET {"IN", "END", "OUT", "HUP"} : Poll(ready))
  BY <1>2 DEF handleEvent, handleRead, handleClose, EventHandled, Poll, QueuesOther
<1> QED BY <1>1, <1>2

LEMMA QueueReturn ==
  ASSUME CallbackReturns, NEW f, f # "connectDestroyed"
  PROVE  QueuesOther(f) /\ UNCHANGED <<batch, next>>
<1>1. queue' = queue \/ Push("connectDestroyed")
  BY DEF CallbackReturns, removeConnectionInLoop
<1> QED BY <1>1, PushOther DEF QueuesOther, Names, Strong, CallbackReturns

LEMMA QueueServer ==
  ASSUME ServerLoop, NEW f, f # "connectDestroyed"
  PROVE  QueuesOther(f) /\ UNCHANGED <<batch, next>>
<1>1. queue' = queue \/ Push("connectDestroyed")
  BY DEF ServerLoop, ServerRemoves, ServerDestroyed, removeConnectionInLoop
<1> QED BY <1>1, PushOther DEF QueuesOther, Names, Strong, ServerLoop, ServerRemoves,
           ServerDestroyed, loopc

LEMMA QueueUser ==
  ASSUME TypeOK, NEW u \in Users, UserThread(u), NEW f, UserQueues(u) => FunctorOf(user[u]).f # f
  PROVE  QueuesOther(f) /\ UNCHANGED <<batch, next>>
<1>1. CASE UserQueues(u)
  <2>1. FunctorOf(user[u]) \in Functors
    BY DEF TypeOK, TypeRest, FunctorOf, Functor, Functors, Names, Strong
  <2> QED BY <1>1, <2>1 DEF QueuesOther, UserQueues, loopc
<1>2. CASE ~UserQueues(u)
  BY <1>2 DEF UserThread, UserTests, UserSets, UserReleases, loopc, QueuesOther
<1> QED BY <1>1, <1>2

\* A functor that only user threads queue does not become pending when they do not.
LEMMA NotQueued ==
  ASSUME TypeOK, IterationInv, Next,
         NEW f, f \notin {"writeCompleteCallback", "highWaterMarkCallback", "forceCloseInLoop",
                          "connectDestroyed"},
         \A u \in Users : UserQueues(u) => FunctorOf(user[u]).f # f,
         ~Pending(f)
  PROVE  ~Pending(f)'
<1>0. TypeLoop /\ TypeRest
  BY DEF TypeOK
<1>1. CASE QueuesOther(f) /\ UNCHANGED <<batch, next>>
  BY <1>0, <1>1, PendingQueue DEF KeepsPending
<1>2. CASE LoopUserCode
  BY <1>1, <1>2, QueueUserCode DEF loopc
<1>3. ASSUME NEW u \in Users, UserThread(u) PROVE ~Pending(f)'
  BY <1>1, <1>3, QueueUser
<1>4. CASE ServerLoop
  BY <1>1, <1>4, QueueServer
<1>5. CASE Peer
  BY <1>1, <1>5 DEF Peer, PeerCloses, PeerReset, QueuesOther, loopc
<1>6. CASE handleEvent \/ handleRead \/ handleWrite \/ EventHandled
           \/ (\E ready \in SUBSET {"IN", "END", "OUT", "HUP"} : Poll(ready))
  BY <1>1, <1>6, QueueEvent
<1>7. ASSUME NEW t \in delayed, TimerFires(t) PROVE ~Pending(f)'
  BY <1>1, <1>7, QueueTimer
<1>8. CASE CallbackReturns
  BY <1>1, <1>8, QueueReturn
<1>9. CASE StartFunctors
  BY <1>0, <1>9, PendingStart DEF StartFunctors, IterationInv, KeepsPending
<1>10. CASE EndBatch
  BY <1>0, <1>10, PendingEnd DEF EndBatch, KeepsPending
<1>11. CASE RunFunctor
  <2>1. batch[next] \in Functors /\ next \in DOMAIN batch
    BY <1>0, <1>11 DEF RunFunctor, TypeLoop
  <2>2. batch[next].f # f
    BY <1>0, <2>1 DEF Pending, InBatch, TypeLoop
  <2>3. QueuesOther(f)
    BY <1>11, <2>1, QueueExecute DEF RunFunctor
  <2> QED BY <1>0, <1>11, <2>2, <2>3, PendingRun DEF RunFunctor, KeepsPending
<1>12. CASE LoopThread
  BY <1>6, <1>7, <1>8, <1>9, <1>10, <1>11, <1>12 DEF LoopThread
<1> QED BY <1>2, <1>3, <1>4, <1>5, <1>12 DEF Next

(***************************************************************************)
(* The birth of the connection.                                            *)
(***************************************************************************)

\* No step takes the connection back to kConnecting.
LEMMA NeverBack ==
  ASSUME TypeOK, Next, state_ # "kConnecting"
  PROVE  state_' # "kConnecting"
<1> USE DEF conn
<1>1. CASE LoopUserCode
  <2>1. CASE send
    BY <2>1, SendEffect DEF send, TypeOK, TypeRest, SendDoes
  <2> QED BY <1>1, <2>1 DEF LoopUserCode, shutdown, shutdownAndForceCloseAfter, forceClose,
              forceCloseWithDelay, startRead, stopRead, startReadInLoop, stopReadInLoop
<1>2. ASSUME NEW u \in Users, UserThread(u) PROVE state_' # "kConnecting"
  BY <1>2 DEF UserThread, UserTests, UserSets, UserQueues, UserReleases
<1>3. CASE ServerLoop \/ Peer
  BY <1>3 DEF ServerLoop, ServerRemoves, ServerDestroyed, Peer, PeerCloses, PeerReset
<1>4. CASE RunFunctor
  <2>1. batch[next] \in Functors /\ Execute(batch[next])
    BY <1>4 DEF RunFunctor, TypeLoop, TypeOK
  <2>2. CASE sendInLoop(batch[next].m)
    BY <2>1, <2>2, SendEffect DEF Functors, TypeOK, SendDoes
  <2> QED BY <2>1, <2>2 DEF Execute, connectEstablished, connectDestroyed, forceCloseInLoop,
              handleClose, startReadInLoop, stopReadInLoop
<1>5. ASSUME NEW t \in delayed, TimerFires(t) PROVE state_' # "kConnecting"
  BY <1>5 DEF TimerFires, forceCloseInLoop, handleClose
<1>6. CASE LoopThread /\ ~RunFunctor
  BY <1>5, <1>6 DEF LoopThread, Poll, handleEvent, handleRead, handleWrite, handleClose, EventHandled,
                    StartFunctors, EndBatch, CallbackReturns
<1> QED BY <1>1, <1>2, <1>3, <1>4, <1>6 DEF Next

LEMMA BirthStep ==
  ASSUME TypeOK, IterationInv, BirthInv, [Next]_vars
  PROVE  BirthInv'
<1>0. TypeLoop /\ TypeRest
  BY DEF TypeOK
<1>1. CASE UNCHANGED vars
  BY <1>1 DEF vars, moving, conn, sock, loopc, server, users, BirthInv, Unborn, UnbornFunctors,
                 Pending, Queued, InBatch
<1>2. CASE Next /\ state_ # "kConnecting"
  <2>1. \A u \in Users : FunctorOf(user[u]).f # "connectEstablished"
    BY DEF FunctorOf, Functor
  <2>2. ~Pending("connectEstablished")'
    BY <1>2, <2>1, NotQueued DEF BirthInv
  <2>3. state_' # "kConnecting"
    BY <1>2, NeverBack
  <2> QED BY <2>2, <2>3 DEF BirthInv
<1>3. CASE Next /\ state_ = "kConnecting"
  <2>1. Unborn
    BY <1>3 DEF BirthInv
  <2>2. alive
    <3>1. CASE Len(queue) >= 1 /\ queue[1].f = "connectEstablished"
      BY <1>0, <3>1 DEF TypeLoop, alive, Strong
    <3>2. CASE Len(batch) >= 1 /\ batch[1].f = "connectEstablished"
      BY <1>0, <3>2 DEF TypeLoop, alive, Strong
    <3> QED BY <2>1, <3>1, <3>2 DEF Unborn, UnbornFunctors
  <2>3. ~LoopUserCode
    BY <2>1 DEF Unborn, LoopUserCode, send, shutdown, shutdownAndForceCloseAfter, forceClose,
                forceCloseWithDelay, startRead, stopRead, LoopMayCall
  <2>4. \A u \in Users : ~UserThread(u)
    BY <2>1 DEF Unborn, UserThread, UserTests, UserSets, UserQueues, UserReleases, Idle
  <2>5. ~handleEvent /\ ~handleRead /\ ~handleWrite /\ ~CallbackReturns /\ ~ServerRemoves
         /\ \A t \in delayed : ~TimerFires(t)
    BY <2>1 DEF Unborn, handleEvent, handleRead, handleWrite, CallbackReturns, ServerRemoves, TimerFires
  <2>6. ASSUME state_' = state_, UnbornFunctors', revents_' = {},
               UNCHANGED <<events_, index_, outputBuffer_, wrShut, callback, delayed, known, closes,
                           removals, holds, user>>
        PROVE  BirthInv'
    BY <1>3, <2>1, <2>6 DEF BirthInv, Unborn
  <2>7. UnbornFunctors
    BY <2>1 DEF Unborn
  <2>8. CASE Peer
    BY <2>1, <2>6, <2>7, <2>8 DEF Peer, PeerCloses, PeerReset, conn, loopc, server, users, Unborn,
                             UnbornFunctors
  <2>9. CASE EventHandled \/ \E ready \in SUBSET {"IN", "END", "OUT", "HUP"} : Poll(ready)
    <3>1. revents_' = {}
      BY <2>1, <2>9 DEF Unborn, Poll, EventHandled
    <3>2. UnbornFunctors'
      BY <2>7, <2>9 DEF UnbornFunctors, Poll, EventHandled
    <3> QED BY <2>6, <2>9, <3>1, <3>2 DEF Poll, EventHandled, conn, sock, server, users
  <2>10. CASE ServerDestroyed
    <3>1. queue' = queue \/ queue' = Append(queue, Functor("connectDestroyed"))
      BY <2>10 DEF ServerDestroyed, Push
    <3>2. UNCHANGED <<batch, next>>
      BY <2>10 DEF ServerDestroyed, loopc
    <3>3. ASSUME queue' = queue PROVE UnbornFunctors'
      BY <2>7, <3>2, <3>3 DEF UnbornFunctors
    <3>4. ASSUME queue' = Append(queue, Functor("connectDestroyed")) PROVE UnbornFunctors'
      <4>1. /\ Len(queue') = Len(queue) + 1 /\ Len(queue) \in Nat
            /\ \A i \in 1..Len(queue) : queue'[i] = queue[i]
            /\ queue'[Len(queue) + 1].f = "connectDestroyed"
        BY <1>0, <3>4 DEF TypeLoop, Functor
      <4> QED BY <2>7, <3>2, <4>1 DEF UnbornFunctors
    <3>5. UnbornFunctors'
      BY <3>1, <3>3, <3>4
    <3> QED BY <2>1, <2>6, <2>10, <3>5 DEF Unborn, ServerDestroyed, conn, sock, loopc, users
  <2>11. CASE StartFunctors
    <3>0. batch = <<>>
      BY <2>11 DEF StartFunctors, IterationInv
    <3>1. UnbornFunctors'
      <4>1. /\ Len(queue) >= 1 /\ queue[1].f = "connectEstablished"
            /\ \A i \in 2..Len(queue) : queue[i].f = "connectDestroyed"
        BY <2>7, <3>0 DEF UnbornFunctors
      <4>2. batch' = queue /\ queue' = <<>> /\ next' = 1
        BY <2>11 DEF StartFunctors
      <4> QED BY <4>1, <4>2 DEF UnbornFunctors
    <3> QED BY <2>6, <2>11, <3>1 DEF StartFunctors, conn, sock, server, users
  <2>12. CASE EndBatch
    <3>1. UnbornFunctors'
      BY <1>0, <2>7, <2>12 DEF UnbornFunctors, EndBatch, TypeLoop
    <3> QED BY <2>1, <2>6, <2>12, <3>1 DEF Unborn, EndBatch, conn, sock, server, users
  <2>13. CASE RunFunctor
    <3>1. /\ Len(batch) >= 1 /\ next = 1 /\ batch[1].f = "connectEstablished"
          /\ \A i \in 2..Len(batch) : batch[i].f = "connectDestroyed"
          /\ \A i \in 1..Len(queue) : queue[i].f = "connectDestroyed"
      BY <1>0, <2>7, <2>13 DEF UnbornFunctors, RunFunctor, TypeLoop
    <3>2. connectEstablished
      BY <2>13, <3>1 DEF RunFunctor, Execute, Strong
    <3>3. state_' = "kConnected" /\ queue' = queue /\ batch' = batch /\ next' = 2
      BY <2>13, <3>1, <3>2 DEF connectEstablished, RunFunctor
    <3>4. ~Pending("connectEstablished")'
      BY <1>0, <3>1, <3>3 DEF Pending, Queued, InBatch, TypeLoop
    <3> QED BY <3>3, <3>4 DEF BirthInv
  <2> QED BY <1>3, <2>3, <2>4, <2>5, <2>8, <2>9, <2>10, <2>11, <2>12, <2>13
          DEF Next, LoopThread, ServerLoop
<1> QED BY <1>1, <1>2, <1>3

(***************************************************************************)
(* If user threads only send.                                              *)
(***************************************************************************)

LEMMA SendingUsersStep ==
  ASSUME TypeOK, OnlySends, SendingUsers, Next
  PROVE  SendingUsers'
<1>1. CASE UNCHANGED user
  BY <1>1 DEF SendingUsers
<1>2. ASSUME NEW u \in Users, UserThread(u) PROVE SendingUsers'
  <2>0. user \in [Users -> [call : Calls \cup {"none"}, at : {"idle", "tested", "set"}, m : Nat]]
    BY DEF TypeOK, TypeRest
  <2>1. ASSUME NEW c \in app.userCalls, UserTests(u, c) PROVE SendingUsers'
    <3>1. c = "send" /\ ~Sets(c)
      BY DEF OnlySends, Sets
    <3> DEFINE r == [call |-> c, at |-> IF Sets(c) THEN "tested" ELSE "set",
                     m |-> IF c = "send" THEN numSent + 1 ELSE 0]
    <3>2. r.at = "set" /\ r.call = "send"
      BY <3>1
    <3>3. user' = [user EXCEPT ![u] = r]
      BY <2>1 DEF UserTests
    <3> HIDE DEF r
    <3> QED BY <2>0, <3>2, <3>3 DEF SendingUsers
  <2>2. CASE UserSets(u)
    BY <2>2 DEF UserSets, SendingUsers
  <2>3. CASE UserQueues(u)
    BY <2>0, <2>3 DEF UserQueues, SendingUsers, Idle
  <2> QED BY <1>1, <1>2, <2>1, <2>2, <2>3 DEF UserThread, UserReleases
<1>3. CASE LoopThread
  BY <1>1, <1>3 DEF LoopThread, Poll, handleEvent, handleRead, handleWrite, EventHandled, TimerFires,
                    StartFunctors, RunFunctor, EndBatch, CallbackReturns, users
<1>4. CASE LoopUserCode
  BY <1>1, <1>4 DEF LoopUserCode, send, shutdown, shutdownAndForceCloseAfter, forceClose,
                    forceCloseWithDelay, startRead, stopRead, Unmoved
<1>5. CASE ServerLoop \/ Peer
  BY <1>1, <1>5 DEF ServerLoop, ServerRemoves, ServerDestroyed, Peer, PeerCloses, PeerReset, users
<1> QED BY <1>2, <1>3, <1>4, <1>5 DEF Next

LEMMA SendingFunctorsStep ==
  ASSUME TypeOK, IterationInv, SendingUsers, SendingFunctors, Next
  PROVE  SendingFunctors'
<1> SUFFICES ASSUME NEW f \in Names \ (Strong \cup {"sendInLoop"})
             PROVE  ~Pending(f)'
  BY DEF SendingFunctors
<1>1. ~Pending(f)
  BY DEF SendingFunctors
<1>2. \A u \in Users : UserQueues(u) => FunctorOf(user[u]).f # f
  BY DEF SendingUsers, UserQueues, FunctorOf
<1>3. f \notin {"writeCompleteCallback", "highWaterMarkCallback", "forceCloseInLoop",
                "connectDestroyed"}
  BY DEF Strong
<1> QED BY <1>1, <1>2, <1>3, NotQueued

LEMMA WritingStep ==
  ASSUME TypeOK, IterationInv, BirthInv, SendingUsers, SendingFunctors, Writing, Flushed, Next
  PROVE  Writing' /\ Flushed'
<1> USE DEF conn, sock
<1>0. TypeConn /\ TypeLoop /\ TypeRest
  BY DEF TypeOK
<1>1. ASSUME UNCHANGED <<outputBuffer_, wrShut>>, "W" \in events_' <=> "W" \in events_, Up' => Up
      PROVE  Writing' /\ Flushed'
  BY <1>1 DEF Writing, Flushed
<1>2. ASSUME UNCHANGED <<outputBuffer_, wrShut>>, ~Up'
      PROVE  Writing' /\ Flushed'
  BY <1>2 DEF Writing, Flushed
<1>3. ASSUME SendDoes PROVE Writing' /\ Flushed'
  <2>1. CASE UNCHANGED <<outputBuffer_, events_, index_>>
    BY <1>1, <1>3, <2>1 DEF SendDoes, Up
  <2>2. CASE /\ state_ # "kDisconnected" /\ (NothingBuffered => ~wrShut)
             /\ outputBuffer_' # <<>> /\ "W" \in events_'
    <3>1. ~wrShut
      <4>1. CASE state_ = "kConnecting"
        BY <4>1 DEF BirthInv, Unborn
      <4>2. CASE Up
        BY <2>2, <4>2 DEF Writing, Flushed, NothingBuffered
      <4> QED BY <1>0, <2>2, <4>1, <4>2 DEF TypeConn, States, Up
    <3> QED BY <1>3, <2>2, <3>1 DEF SendDoes, Writing, Flushed
  <2> QED BY <1>3, <2>1, <2>2 DEF SendDoes
<1>4. CASE LoopUserCode
  <2>1. CASE send
    BY <1>0, <1>3, <2>1, SendEffect DEF send, TypeRest
  <2>2. CASE shutdown \/ shutdownAndForceCloseAfter
    BY <2>2 DEF shutdown, shutdownAndForceCloseAfter, shutdownInLoop, Writing, Flushed, Up
  <2>3. CASE forceClose \/ forceCloseWithDelay
    BY <1>1, <2>3 DEF forceClose, forceCloseWithDelay, Up
  <2>4. CASE startRead \/ stopRead
    <3>1. /\ UNCHANGED <<outputBuffer_, wrShut, state_>>
          /\ events_' \in {events_, events_ \cup {"R"}, events_ \ {"R"}}
      BY <2>4 DEF startRead, stopRead, startReadInLoop, stopReadInLoop, update
    <3> QED BY <1>1, <3>1 DEF Up
  <2> QED BY <1>4, <2>1, <2>2, <2>3, <2>4 DEF LoopUserCode
<1>5. ASSUME NEW u \in Users, UserThread(u) PROVE Writing' /\ Flushed'
  <2>1. ~UserSets(u)
    BY <1>5 DEF SendingUsers, UserSets
  <2> QED BY <1>1, <1>5, <2>1 DEF UserThread, UserTests, UserQueues, UserReleases, Up
<1>6. CASE ServerLoop \/ Peer
  BY <1>1, <1>6 DEF ServerLoop, ServerRemoves, ServerDestroyed, Peer, PeerCloses, PeerReset, Up
<1>7. CASE handleWrite
  <2>1. ASSUME NEW n \in 1..Len(outputBuffer_), "W" \in events_,
               IF outputBuffer_' = <<>> THEN OutputDone ELSE UNCHANGED <<events_, index_, queue, wrShut>>,
               UNCHANGED <<state_, reading_, peer, taken>>
        PROVE  Writing' /\ Flushed'
    <3>1. outputBuffer_ # <<>>
      BY <1>0, <2>1 DEF TypeConn
    <3>2. CASE outputBuffer_' = <<>>
      BY <2>1, <3>2 DEF OutputDone, update, Writing, Flushed
    <3>3. CASE outputBuffer_' # <<>>
      BY <2>1, <3>1, <3>3 DEF Writing, Flushed
    <3> QED BY <3>2, <3>3
  <2> QED BY <1>1, <1>7, <2>1 DEF handleWrite, Up
<1>8. CASE RunFunctor
  <2>1. batch[next] \in Functors /\ Execute(batch[next]) /\ next \in DOMAIN batch
    BY <1>0, <1>8 DEF RunFunctor, TypeLoop
  <2>2. Pending(batch[next].f)
    BY <1>0, <2>1 DEF Pending, InBatch, TypeLoop
  <2>3. batch[next].f \in Strong \cup {"sendInLoop"}
    BY <2>1, <2>2 DEF SendingFunctors, Functors
  <2>4. ASSUME batch[next].f = "connectEstablished", connectEstablished
        PROVE  Writing' /\ Flushed'
    <3>1. Unborn
      BY <2>2, <2>4 DEF BirthInv
    <3> QED BY <2>4, <3>1 DEF connectEstablished, update, Unborn, Writing, Flushed
  <2>5. ASSUME connectDestroyed PROVE Writing' /\ Flushed'
    BY <1>1, <1>2, <2>5 DEF connectDestroyed, remove, Up
  <2>6. ASSUME forceCloseInLoop PROVE Writing' /\ Flushed'
    BY <1>1, <1>2, <2>6 DEF forceCloseInLoop, handleClose, Up
  <2>7. ASSUME sendInLoop(batch[next].m) PROVE Writing' /\ Flushed'
    BY <1>0, <1>3, <2>1, <2>7, SendEffect DEF Functors
  <2>8. ASSUME UNCHANGED <<conn, sock>> PROVE Writing' /\ Flushed'
    BY <1>1, <2>8 DEF Up
  <2> QED BY <2>1, <2>3, <2>4, <2>5, <2>6, <2>7, <2>8 DEF Execute, Strong
<1>9. ASSUME NEW t \in delayed, TimerFires(t) PROVE Writing' /\ Flushed'
  BY <1>1, <1>2, <1>9 DEF TimerFires, forceCloseInLoop, handleClose, Up
<1>10. CASE handleEvent \/ handleRead
  BY <1>1, <1>2, <1>10 DEF handleEvent, handleRead, handleClose, Up
<1>11. CASE CallbackReturns
  BY <1>1, <1>11 DEF CallbackReturns, remove, Up
<1>12. CASE EventHandled \/ StartFunctors \/ EndBatch
              \/ \E ready \in SUBSET {"IN", "END", "OUT", "HUP"} : Poll(ready)
  BY <1>1, <1>12 DEF EventHandled, StartFunctors, EndBatch, Poll, Up
<1> QED BY <1>4, <1>5, <1>6, <1>7, <1>8, <1>9, <1>10, <1>11, <1>12 DEF Next, LoopThread

LEMMA SendsStep ==
  ASSUME TypeOK, IterationInv, BirthInv, SendsInv, [Next]_vars
  PROVE  SendsInv'
<1>1. CASE UNCHANGED vars
  BY <1>1 DEF vars, moving, conn, sock, loopc, users, SendsInv, OnlySends, SendingUsers,
              SendingFunctors, Pending, Queued, InBatch, Writing, Flushed, Up
<1>2. CASE Next
  <2>1. SUFFICES ASSUME OnlySends'
                 PROVE  (SendingUsers /\ SendingFunctors /\ Writing /\ Flushed)'
    BY DEF SendsInv
  <2>2. OnlySends
    BY <1>2, <2>1 DEF Next, OnlySends
  <2>3. SendingUsers /\ SendingFunctors /\ Writing /\ Flushed
    BY <2>2 DEF SendsInv
  <2>4. SendingUsers' /\ SendingFunctors'
    BY <1>2, <2>2, <2>3, SendingUsersStep, SendingFunctorsStep
  <2>5. Writing' /\ Flushed'
    BY <1>2, <2>3, WritingStep
  <2> QED BY <2>4, <2>5
<1> QED BY <1>1, <1>2

(***************************************************************************)
(* A careful program.                                                      *)
(***************************************************************************)

LEMMA HeldStep ==
  ASSUME TypeOK, IterationInv, BirthInv, ~app.userReleases, Held, Next
  PROVE  Held'
<1> USE DEF users
<1>0. TypeLoop /\ TypeRest
  BY DEF TypeOK
<1>1. ASSUME UNCHANGED <<user, holds>>, \A u \in Users : ~UserQueues(u) PROVE Held'
  <2>1. ~Pending("sendInLoop") => ~Pending("sendInLoop")'
    BY <1>1, NotQueued
  <2> QED BY <1>1, <2>1 DEF Held
<1>2. ASSUME NEW u \in Users, UserThread(u) PROVE Held'
  <2>1. ASSUME holds[u], UNCHANGED holds PROVE Held'
    BY <2>1 DEF Held
  <2>2. CASE UserSets(u) \/ UserQueues(u)
    <3>1. user[u] # Idle
      BY <2>2 DEF UserSets, UserQueues, Idle
    <3> QED BY <2>2, <3>1 DEF UserSets, UserQueues, Held
  <2> QED BY <1>2, <2>1, <2>2 DEF UserThread, UserTests, UserReleases
<1>3. ASSUME NEW v \in Users, UserQueues(v) PROVE Held'
  BY <1>2, <1>3 DEF UserThread
<1>4. CASE connectEstablished /\ RunFunctor /\ batch[next].f = "connectEstablished"
  <2>1. next \in DOMAIN batch
    BY <1>0, <1>4 DEF RunFunctor, TypeLoop
  <2>2. Unborn
    BY <1>0, <1>4, <2>1 DEF BirthInv, Pending, InBatch, TypeLoop
  <2>3. user' = user /\ queue' = queue /\ batch' = batch /\ next' = next + 1
    BY <1>4 DEF RunFunctor, connectEstablished
  <2>4. ~Pending("sendInLoop")'
    BY <1>0, <2>1, <2>2, <2>3 DEF Unborn, UnbornFunctors, Pending, Queued, InBatch, TypeLoop
  <2> QED BY <2>2, <2>3, <2>4 DEF Held, Unborn
<1>5. CASE RunFunctor
  <2>1. user' = user /\ Execute(batch[next])
    BY <1>5 DEF RunFunctor
  <2>2. CASE holds' = holds
    BY <1>1, <1>3, <2>1, <2>2
  <2> QED BY <1>4, <1>5, <2>1, <2>2 DEF Execute, connectDestroyed, Loopless
<1>6. CASE LoopThread /\ ~RunFunctor
  <2>1. UNCHANGED <<user, holds>>
    BY <1>6 DEF LoopThread, Poll, handleEvent, handleRead, handleWrite, EventHandled, TimerFires,
                StartFunctors, EndBatch, CallbackReturns
  <2> QED BY <1>1, <1>3, <2>1
<1>7. CASE LoopUserCode
  <2>1. UNCHANGED <<user, holds>>
    BY <1>7 DEF LoopUserCode, send, shutdown, shutdownAndForceCloseAfter, forceClose,
                forceCloseWithDelay, startRead, stopRead, Unmoved
  <2> QED BY <1>1, <1>3, <2>1
<1>8. CASE ServerLoop \/ Peer
  <2>1. UNCHANGED <<user, holds>>
    BY <1>8 DEF ServerLoop, ServerRemoves, ServerDestroyed, Peer, PeerCloses, PeerReset
  <2> QED BY <1>1, <1>3, <2>1
<1> QED BY <1>2, <1>5, <1>6, <1>7, <1>8 DEF Next

\* Only a connection that connectDestroyed has taken down is freed.
LEMMA AliveUntilGone ==
  ASSUME TypeLoop, Life, ~alive
  PROVE  Gone
<1>1. ~inMap /\ ~(removals > 0) /\ callback = "none"
  BY DEF alive
<1>2. CASE OnePending("connectDestroyed")
  <2>1. alive
    BY <1>2 DEF OnePending, alive, Strong
  <2> QED BY <2>1
<1> QED BY <1>1, <1>2 DEF Life, Open, Closing, Told, Leaving

\* A functor that was not pending is pending once when it is queued, and not any more
\* when it has run.
LEMMA OnceQueued ==
  ASSUME TypeLoop, NEW f \in Names, ~Pending(f), Push(f), UNCHANGED <<batch, next>>
  PROVE  OnePending(f)'
<1>1. /\ DOMAIN queue' = 1..Len(queue) + 1 /\ DOMAIN queue = 1..Len(queue)
      /\ Len(queue) \in Nat
      /\ queue'[Len(queue) + 1].f = f
      /\ \A i \in 1..Len(queue) : queue'[i] = queue[i]
  BY DEF TypeLoop, Push, Functor
<1>2. \A i \in DOMAIN queue : queue[i].f # f
  BY DEF Pending, Queued
<1>3. Len(queue) + 1 \in DOMAIN queue' /\ \A j \in DOMAIN queue' : queue'[j].f = f => j = Len(queue) + 1
  BY <1>1, <1>2
<1>4. ~InBatch(f)'
  BY DEF Pending, InBatch
<1> QED BY <1>1, <1>3, <1>4 DEF OnePending

LEMMA OnceRun ==
  ASSUME TypeLoop, NEW f, OnePending(f), next \in DOMAIN batch, batch[next].f = f,
         batch' = batch, next' = next + 1, queue' = queue
  PROVE  ~Pending(f)'
<1>1. next \in Nat /\ \A i \in DOMAIN batch : i \in Nat
  BY DEF TypeLoop
<1>2. InBatch(f)
  BY <1>1 DEF InBatch
<1>3. ~Queued(f) /\ \A j \in DOMAIN batch : next <= j /\ batch[j].f = f => j = next
  BY <1>1, <1>2 DEF OnePending
<1>4. ~Queued(f)'
  BY <1>3 DEF Queued
<1>5. ~InBatch(f)'
  BY <1>1, <1>3 DEF InBatch
<1> QED BY <1>4, <1>5 DEF Pending

\* What a careful program keeps, besides Held.
CarefulState == NoSurprise /\ Registered /\ Life /\ failed = {}

\* handleClose takes a connection that is up down.
LEMMA CloseStep ==
  ASSUME CarefulState, Up, handleClose, callback # "close",
         KeepsPending("connectDestroyed"), revents_' \subseteq {"OUT"},
         UNCHANGED <<inMap, removals, serverAlive, delayed>>
  PROVE  CarefulState'
<1>1. Open /\ index_ = "kAdded"
  BY DEF CarefulState, Registered, Life, Closing, Told, Leaving, Gone, Down, Up
<1>2. events_' = {} /\ index_' = "kDeleted" /\ closes' = 1 /\ state_' = "kDisconnected"
      /\ callback' = "close" /\ failed' = {}
  BY <1>1 DEF handleClose, disableAll, update, Open, CarefulState, Up
<1>3. Closing'
  BY <1>1, <1>2 DEF Closing, Down, Open, KeepsPending
<1> QED BY <1>2, <1>3 DEF CarefulState, NoSurprise, Registered, Life, Up

\* Steps that leave the life of the connection as it is.
LEMMA SameLife ==
  ASSUME CarefulState, KeepsPending("connectDestroyed"),
         UNCHANGED <<state_, events_, index_, removals, inMap, serverAlive, closes, failed>>,
         delayed' \subseteq delayed \cup {"forceClose"},
         revents_' \subseteq revents_,
         callback' = callback \/ (callback # "close" /\ callback' \in {"none", "user"})
  PROVE  CarefulState'
<1>1. Life'
  BY DEF CarefulState, Life, Open, Closing, Told, Leaving, Gone, Down, KeepsPending
<1>2. NoSurprise' /\ Registered'
  BY DEF CarefulState, NoSurprise, Registered, Up
<1> QED BY <1>1, <1>2 DEF CarefulState

LEMMA CarefulUserCode ==
  ASSUME TypeOK, Careful, CarefulState, LoopUserCode
  PROVE  CarefulState'
<1> USE DEF conn, loopc, server
<1>0. TypeConn /\ TypeLoop /\ TypeRest
  BY DEF TypeOK
<1>1. KeepsPending("connectDestroyed")
  BY <1>0, QueueUserCode, PendingQueue DEF loopc
<1>2. ~shutdownAndForceCloseAfter /\ ~startRead /\ ~stopRead
  BY DEF Careful, shutdownAndForceCloseAfter, startRead, stopRead, LoopMayCall
<1>3. ASSUME Up, Up', index_' = "kAdded", "R" \in events_',
             UNCHANGED <<removals, inMap, serverAlive, closes, failed, callback, revents_>>,
             delayed' \subseteq delayed \cup {"forceClose"}
      PROVE  CarefulState'
  <2>1. Open
    BY <1>3 DEF CarefulState, Life, Closing, Told, Leaving, Gone, Down, Up
  <2>2. Open'
    BY <1>1, <1>3, <2>1 DEF Open, KeepsPending, Up
  <2> QED BY <1>3, <2>2 DEF CarefulState, NoSurprise, Registered, Life, Up
<1>4. CASE send
  <2>1. SendDoes /\ Up
    BY <1>0, <1>4, SendEffect DEF send, TypeRest, Up
  <2>2. index_ = "kAdded" /\ "R" \in events_
    BY <2>1 DEF CarefulState, Registered
  <2> QED BY <1>3, <1>4, <2>1, <2>2 DEF send, SendDoes, Unmoved, Up
<1>5. CASE shutdown \/ forceClose \/ forceCloseWithDelay
  <2>1. Up /\ Up' /\ UNCHANGED <<events_, index_>>
    BY <1>5 DEF shutdown, forceClose, forceCloseWithDelay, Up
  <2>2. index_ = "kAdded" /\ "R" \in events_
    BY <2>1 DEF CarefulState, Registered
  <2> QED BY <1>3, <1>5, <2>1, <2>2 DEF shutdown, forceClose, forceCloseWithDelay, Unmoved
<1> QED BY <1>2, <1>4, <1>5 DEF LoopUserCode

LEMMA CarefulUsers ==
  ASSUME TypeOK, SendingUsers, CarefulState, NEW u \in Users, UserThread(u)
  PROVE  CarefulState'
<1> USE DEF conn, loopc, server
<1>1. ~UserSets(u)
  BY DEF SendingUsers, UserSets
<1>2. UserQueues(u) => user[u].call = "send"
  BY DEF SendingUsers, UserQueues
<1>3. KeepsPending("connectDestroyed")
  <2>1. UserQueues(u) => FunctorOf(user[u]).f # "connectDestroyed"
    BY <1>2 DEF FunctorOf
  <2> QED BY <2>1, QueueUser, PendingQueue DEF TypeOK
<1>4. UNCHANGED <<delayed, revents_, callback, state_, events_, index_, removals, inMap, serverAlive,
                  closes, failed>>
  BY <1>1, <1>2 DEF UserThread, UserTests, UserQueues, UserReleases
<1> QED BY <1>3, <1>4, SameLife

LEMMA CarefulServer ==
  ASSUME TypeOK, Careful, CarefulState, ServerLoop
  PROVE  CarefulState'
<1> USE DEF conn, loopc, server
<1>1. ServerRemoves /\ removeConnectionInLoop
  BY DEF Careful, ServerLoop, ServerDestroyed, ServerRemoves, CarefulState, NoSurprise
<1>2. Told
  BY <1>1 DEF CarefulState, Life, Open, Closing, Leaving, Gone, ServerRemoves
<1>3. OnePending("connectDestroyed")'
  BY <1>1, <1>2, OnceQueued DEF TypeOK, Told, removeConnectionInLoop, ServerRemoves, Names, Strong
<1>4. failed' = {} /\ ~inMap' /\ removals' = 0
  BY <1>1, <1>2 DEF Told, removeConnectionInLoop, ServerRemoves, CarefulState
<1>5. UNCHANGED <<state_, events_, index_, revents_, callback, delayed, serverAlive, closes>>
  BY <1>1 DEF ServerRemoves
<1>6. Leaving'
  BY <1>2, <1>3, <1>4, <1>5 DEF Told, Leaving, Down
<1> QED BY <1>4, <1>5, <1>6 DEF CarefulState, NoSurprise, Registered, Life, Up

LEMMA CarefulEvents ==
  ASSUME TypeOK, IterationInv, BirthInv, CarefulState,
         handleEvent \/ handleRead \/ handleWrite \/ EventHandled
           \/ (\E ready \in SUBSET {"IN", "END", "OUT", "HUP"} : Poll(ready))
  PROVE  CarefulState'
<1> USE DEF conn, server
<1>0. TypeConn /\ TypeLoop /\ TypeRest
  BY DEF TypeOK
<1>1. KeepsPending("connectDestroyed")
  BY <1>0, QueueEvent, PendingQueue
<1>2. state_ = "kConnecting" => revents_ = {} /\ events_ = {}
  BY DEF BirthInv, Unborn
<1>3. state_ = "kDisconnected" => revents_ \subseteq {"OUT"}
  BY DEF CarefulState, Registered
<1>4. state_ = "kDisconnected" => events_ = {} /\ index_ # "kAdded"
  BY DEF CarefulState, Life, Open, Closing, Told, Leaving, Gone, Down
<1>5. state_ \notin {"kConnecting", "kDisconnected"} => Up
  BY <1>0 DEF TypeConn, States, Up
<1>6. CASE handleEvent
  <2>1. ASSUME handleClose, "HUP" \in revents_, revents_ \cap Readable = {}
        PROVE  CarefulState'
    <3>1. Up
      BY <1>2, <1>3, <1>5, <2>1
    <3>2. revents_' \subseteq {"OUT"}
      BY <1>0, <1>6, <2>1 DEF handleEvent, Readable, TypeLoop
    <3> QED BY <1>1, <1>6, <2>1, <3>1, <3>2, CloseStep DEF handleEvent
  <2>2. ASSUME UNCHANGED <<conn, callback, closes, failed>> PROVE CarefulState'
    BY <1>1, <1>6, <2>2, SameLife DEF handleEvent
  <2> QED BY <1>6, <2>1, <2>2 DEF handleEvent
<1>7. CASE handleRead
  <2>1. ASSUME handleClose PROVE CarefulState'
    <3>1. Up
      BY <1>2, <1>3, <1>5, <1>7 DEF handleRead, Readable
    <3>2. revents_' \subseteq {"OUT"}
      BY <1>0, <1>7 DEF handleRead, Readable, TypeLoop, IterationInv
    <3> QED BY <1>1, <1>7, <2>1, <3>1, <3>2, CloseStep DEF handleRead
  <2>2. ASSUME UNCHANGED <<conn, closes, failed>>, callback' \in {callback, "user"} PROVE CarefulState'
    BY <1>1, <1>7, <2>2, SameLife DEF handleRead
  <2> QED BY <1>7, <2>1, <2>2 DEF handleRead
<1>8. CASE handleWrite
  <2>1. ASSUME "W" \in events_, UNCHANGED state_, update(events_ \ {"W"}) PROVE CarefulState'
    <3>1. Up
      BY <1>2, <1>4, <1>5, <2>1
    <3>2. Open
      BY <3>1 DEF CarefulState, Life, Closing, Told, Leaving, Gone, Down, Up
    <3>3. index_' = "kAdded" /\ "R" \in events_'
      BY <2>1, <3>1 DEF update, CarefulState, Registered
    <3>4. Open'
      BY <1>1, <1>8, <2>1, <3>2 DEF Open, KeepsPending, handleWrite
    <3> QED BY <1>8, <2>1, <3>1, <3>3, <3>4
            DEF CarefulState, NoSurprise, Registered, Life, Up, handleWrite
  <2>2. ASSUME UNCHANGED <<state_, events_, index_>> PROVE CarefulState'
    BY <1>1, <1>8, <2>2, SameLife DEF handleWrite
  <2> QED BY <1>8, <2>1, <2>2 DEF handleWrite, OutputDone
<1>9. CASE EventHandled
  BY <1>1, <1>9, SameLife DEF EventHandled
<1>10. ASSUME NEW ready \in SUBSET {"IN", "END", "OUT", "HUP"}, Poll(ready) PROVE CarefulState'
  <2>1. state_ = "kDisconnected" => revents_' = {}
    BY <1>4, <1>10 DEF Poll
  <2>2. Life'
    BY <1>1, <1>10, <2>1
       DEF CarefulState, Life, Open, Closing, Told, Leaving, Gone, Down, KeepsPending, Poll
  <2> QED BY <1>10, <2>1, <2>2 DEF CarefulState, NoSurprise, Registered, Up, Poll
<1> QED BY <1>6, <1>7, <1>8, <1>9, <1>10

LEMMA CarefulTimer ==
  ASSUME TypeOK, CarefulState, NEW t \in delayed, TimerFires(t)
  PROVE  CarefulState'
<1> USE DEF conn, server
<1>1. t = "forceClose"
  BY DEF CarefulState, NoSurprise
<1>2. KeepsPending("connectDestroyed")
  BY QueueTimer, PendingQueue DEF TypeOK
<1>3. UNCHANGED <<events_, index_, revents_, callback, closes, failed, removals, inMap, serverAlive>>
      /\ delayed' \subseteq delayed
  BY <1>1 DEF TimerFires
<1>4. CASE state_' = state_
  BY <1>2, <1>3, <1>4, SameLife
<1>5. CASE Up /\ state_' = "kDisconnecting"
  <2>1. Open
    BY <1>5 DEF CarefulState, Life, Closing, Told, Leaving, Gone, Down, Up
  <2>2. Open'
    BY <1>2, <1>3, <1>5, <2>1 DEF Open, KeepsPending
  <2> QED BY <1>3, <1>5, <2>2 DEF CarefulState, NoSurprise, Registered, Life, Up
<1> QED BY <1>1, <1>4, <1>5 DEF TimerFires, Up

LEMMA CarefulReturn ==
  ASSUME TypeOK, CarefulState, CallbackReturns
  PROVE  CarefulState'
<1> USE DEF conn, server
<1>1. CASE callback = "user"
  <2>1. QueuesOther("connectDestroyed") /\ UNCHANGED <<batch, next>>
    BY <1>1 DEF CallbackReturns, QueuesOther
  <2>2. KeepsPending("connectDestroyed")
    BY <2>1, PendingQueue DEF TypeOK
  <2> QED BY <1>1, <2>2, SameLife DEF CallbackReturns
<1>2. CASE callback = "close"
  <2>1. Closing
    BY <1>2 DEF CarefulState, Life, Open, Told, Leaving, Gone
  <2>2. /\ UNCHANGED <<state_, events_, index_, revents_, delayed, closes, serverAlive, batch, next>>
        /\ callback' = "none" /\ serverAlive
    BY <1>2 DEF CallbackReturns, CarefulState, NoSurprise
  <2>3. ASSUME removeConnectionInLoop, UNCHANGED removals PROVE failed' = {} /\ Leaving'
    <3>1. OnePending("connectDestroyed")'
      BY <2>1, <2>2, <2>3, OnceQueued DEF TypeOK, Closing, removeConnectionInLoop, Names, Strong
    <3> QED BY <2>1, <2>2, <2>3, <3>1 DEF Leaving, Closing, Down, removeConnectionInLoop, CarefulState
  <2>4. ASSUME removals' = removals + 1, UNCHANGED <<queue, inMap, failed>>
        PROVE  failed' = {} /\ Told'
    <3>1. KeepsPending("connectDestroyed")
      BY <2>2, <2>4, PendingQueue DEF TypeOK, QueuesOther
    <3> QED BY <2>1, <2>2, <2>4, <3>1 DEF Told, Closing, Down, CarefulState, KeepsPending
  <2>5. failed' = {} /\ (Leaving' \/ Told')
    BY <1>2, <2>2, <2>3, <2>4 DEF CallbackReturns
  <2> QED BY <2>2, <2>5 DEF CarefulState, NoSurprise, Registered, Life, Up
<1> QED BY <1>1, <1>2 DEF CallbackReturns, CarefulState, NoSurprise

LEMMA CarefulBatch ==
  ASSUME TypeOK, IterationInv, CarefulState, StartFunctors \/ EndBatch
  PROVE  CarefulState'
<1> USE DEF conn, server
<1>0. TypeLoop
  BY DEF TypeOK
<1>1. CASE StartFunctors
  <2>1. KeepsPending("connectDestroyed")
    BY <1>0, <1>1, PendingStart DEF StartFunctors, IterationInv
  <2>2. revents_ = {}
    BY <1>0, <1>1, AliveUntilGone DEF StartFunctors, CarefulState, Gone
  <2>3. failed' = failed
    BY <1>1, <2>2 DEF StartFunctors
  <2> QED BY <1>1, <2>1, <2>3, SameLife DEF StartFunctors
<1>2. CASE EndBatch
  <2>1. KeepsPending("connectDestroyed")
    BY <1>0, <1>2, PendingEnd DEF EndBatch
  <2> QED BY <1>2, <2>1, SameLife DEF EndBatch
<1> QED BY <1>1, <1>2

LEMMA CarefulRun ==
  ASSUME TypeOK, IterationInv, BirthInv, SendingFunctors, CarefulState, Held, RunFunctor
  PROVE  CarefulState'
<1> USE DEF conn, server
<1>0. TypeConn /\ TypeLoop /\ TypeRest
  BY DEF TypeOK
<1>1. batch[next] \in Functors /\ Execute(batch[next]) /\ next \in DOMAIN batch
  BY <1>0 DEF RunFunctor, TypeLoop
<1>2. Pending(batch[next].f)
  BY <1>0, <1>1 DEF Pending, InBatch, TypeLoop
<1>3. batch[next].f \in Strong \cup {"sendInLoop"}
  BY <1>1, <1>2 DEF SendingFunctors, Functors
<1>4. revents_ = {} /\ revents_' = {} /\ UNCHANGED <<removals, inMap, serverAlive, batch>>
      /\ next' = next + 1 /\ callback = "none"
  BY DEF RunFunctor, IterationInv
<1>5. batch[next].f # "connectDestroyed" => KeepsPending("connectDestroyed")
  <2>1. QueuesOther("connectDestroyed")
    BY <1>1, QueueExecute
  <2> QED BY <1>0, <1>4, <2>1, PendingRun
<1>6. alive
  <2>1. CASE batch[next].f \in Strong
    BY <1>1, <2>1 DEF alive
  <2>2. CASE batch[next].f = "sendInLoop"
    BY <1>2, <2>2 DEF Held, alive
  <2> QED BY <1>3, <2>1, <2>2
<1>7. CASE batch[next].f = "connectEstablished"
  <2>1. state_ = "kConnecting" /\ Unborn
    BY <1>2, <1>7 DEF BirthInv
  <2>2. connectEstablished
    BY <1>1, <1>7 DEF Execute, Strong
  <2>3. Open
    BY <2>1 DEF CarefulState, Life, Closing, Told, Leaving, Gone, Down
  <2>4. /\ state_' = "kConnected" /\ index_' = "kAdded" /\ "R" \in events_' /\ callback' = "user"
        /\ UNCHANGED <<failed, delayed, closes>>
    BY <2>1, <2>2 DEF connectEstablished, update, Unborn
  <2>5. Open'
    BY <1>4, <1>5, <1>7, <2>3, <2>4 DEF Open, KeepsPending
  <2> QED BY <1>4, <2>4, <2>5 DEF CarefulState, NoSurprise, Registered, Life, Up
<1>8. CASE batch[next].f = "connectDestroyed"
  <2>1. Leaving
    BY <1>2, <1>4, <1>8 DEF CarefulState, Life, Open, Closing, Told, Gone
  <2>2. connectDestroyed
    BY <1>1, <1>8 DEF Execute, Strong
  <2>3. /\ UNCHANGED <<state_, events_, failed, callback, delayed, closes, queue>> /\ index_' = "kNew"
    BY <2>1, <2>2 DEF connectDestroyed, remove, removeFails, Leaving, Down, CarefulState
  <2>4. ~Pending("connectDestroyed")'
    BY <1>0, <1>1, <1>4, <1>8, <2>1, <2>3, OnceRun DEF Leaving
  <2>5. Gone'
    BY <1>4, <2>1, <2>3, <2>4 DEF Leaving, Gone, Down
  <2> QED BY <1>4, <2>1, <2>3, <2>5 DEF CarefulState, NoSurprise, Registered, Life, Up, Leaving, Down
<1>9. CASE batch[next].f = "forceCloseInLoop"
  <2>1. forceCloseInLoop /\ UNCHANGED delayed
    BY <1>1, <1>9 DEF Execute, Strong
  <2>2. CASE Up
    BY <1>4, <1>5, <1>9, <2>1, <2>2, CloseStep DEF forceCloseInLoop, Up
  <2>3. CASE ~Up
    BY <1>4, <1>5, <1>9, <2>1, <2>3, SameLife DEF forceCloseInLoop, Up
  <2> QED BY <2>2, <2>3
<1>10. CASE batch[next].f \in {"writeCompleteCallback", "highWaterMarkCallback"}
  <2>1. callback' = "user" /\ UNCHANGED <<conn, delayed, closes, failed>>
    BY <1>1, <1>10 DEF Execute, Strong
  <2> QED BY <1>4, <1>5, <1>10, <2>1, SameLife
<1>11. CASE batch[next].f = "sendInLoop"
  <2>1. sendInLoop(batch[next].m) /\ Loopless /\ UNCHANGED delayed
    BY <1>1, <1>6, <1>11 DEF Execute, Strong
  <2>2. SendDoes
    BY <1>0, <1>1, <2>1, SendEffect DEF Functors
  <2>3. CASE UNCHANGED <<events_, index_>>
    BY <1>4, <1>5, <1>11, <2>1, <2>2, <2>3, SameLife DEF Loopless, SendDoes
  <2>4. CASE state_ # "kDisconnected" /\ ~UNCHANGED <<events_, index_>>
    <3>1. Open
      BY <2>4 DEF CarefulState, Life, Closing, Told, Leaving, Gone, Down
    <3>2. Open'
      BY <1>4, <1>5, <1>11, <2>1, <2>2, <3>1 DEF Open, KeepsPending, Loopless, SendDoes
    <3>3. Registered'
      BY <1>4, <2>2 DEF SendDoes, CarefulState, Registered, Up
    <3> QED BY <1>4, <2>1, <3>2, <3>3 DEF CarefulState, NoSurprise, Life, Loopless
  <2> QED BY <2>2, <2>3, <2>4 DEF SendDoes
<1> QED BY <1>3, <1>7, <1>8, <1>9, <1>10, <1>11 DEF Strong

LEMMA CarefulStep ==
  ASSUME TypeOK, IterationInv, BirthInv, SendsInv, CarefulInv, [Next]_vars
  PROVE  CarefulInv'
<1>1. CASE UNCHANGED vars
  BY <1>1 DEF vars, moving, conn, loopc, server, users, CarefulInv, Careful, OnlySends, NoSurprise,
              Registered, Life, Open, Closing, Told, Leaving, Gone, Down, Held, Pending, OnePending,
              Queued, InBatch, Up
<1>2. CASE Next
  <2>1. SUFFICES ASSUME Careful'
                 PROVE  CarefulState' /\ Held'
    BY DEF CarefulInv, CarefulState
  <2>2. Careful /\ OnlySends
    BY <1>2, <2>1 DEF Next, Careful, OnlySends
  <2>3. CarefulState /\ Held /\ SendingUsers /\ SendingFunctors
    BY <2>2 DEF CarefulInv, CarefulState, SendsInv
  <2>4. Held'
    BY <1>2, <2>2, <2>3, HeldStep DEF Careful
  <2>5. CASE LoopUserCode
    BY <2>2, <2>3, <2>4, <2>5, CarefulUserCode
  <2>6. CASE \E u \in Users : UserThread(u)
    BY <2>3, <2>4, <2>6, CarefulUsers
  <2>7. CASE ServerLoop
    BY <2>2, <2>3, <2>4, <2>7, CarefulServer
  <2>8. CASE Peer
    <3>1. KeepsPending("connectDestroyed")
      BY <2>8, PendingQueue DEF Peer, PeerCloses, PeerReset, loopc, QueuesOther, TypeOK
    <3> QED BY <2>3, <2>4, <2>8, <3>1, SameLife DEF Peer, PeerCloses, PeerReset, conn, loopc, server
  <2>9. CASE LoopThread
    BY <2>3, <2>4, <2>9, CarefulEvents, CarefulTimer, CarefulReturn, CarefulBatch, CarefulRun
       DEF LoopThread
  <2> QED BY <1>2, <2>5, <2>6, <2>7, <2>8, <2>9 DEF Next
<1> QED BY <1>1, <1>2

(***************************************************************************)
(* The theorems.                                                           *)
(***************************************************************************)

ConnInv ==
  TypeOK /\ IterationInv /\ BytesInOrder /\ BirthInv /\ SendsInv /\ CarefulInv

LEMMA ConnInvInit == Init => ConnInv
<1> SUFFICES ASSUME Init PROVE ConnInv
  OBVIOUS
<1>1. TypeOK
  BY TypeInit
<1>2. IterationInv
  BY DEF Init, IterationInv
<1>3. BytesInOrder
  BY DEF Init, BytesInOrder
<1>4. queue = <<Functor("connectEstablished")>> /\ batch = <<>> /\ DOMAIN queue = 1..1
      /\ Len(queue) = 1 /\ queue[1].f = "connectEstablished"
  BY DEF Init, Functor
<1>5. \A f : f # "connectEstablished" => ~Pending(f)
  BY <1>4 DEF Pending, Queued, InBatch
<1>6. \A u \in Users : user[u] = Idle /\ ~holds[u]
  BY DEF Init
<1>7. BirthInv
  <2>1. UnbornFunctors
    BY <1>4 DEF UnbornFunctors
  <2> QED BY <1>6, <2>1 DEF Init, BirthInv, Unborn
<1>8. SendsInv
  <2>1. SendingUsers
    <3>1. Idle.at = "idle"
      BY DEF Idle
    <3> QED BY <1>6, <3>1 DEF SendingUsers
  <2>2. SendingFunctors
    BY <1>5 DEF SendingFunctors, Strong
  <2> QED BY <2>1, <2>2 DEF SendsInv, Writing, Flushed, Init, Up
<1>9. CarefulInv
  <2>1. Held
    BY <1>5, <1>6 DEF Held
  <2>2. Open
    BY <1>5 DEF Init, Open
  <2> QED BY <2>1, <2>2 DEF CarefulInv, Init, NoSurprise, Registered, Life, Up
<1> QED BY <1>1, <1>2, <1>3, <1>7, <1>8, <1>9 DEF ConnInv

LEMMA ConnInvAlways == Spec => []ConnInv
<1>1. ConnInv /\ [Next]_vars => ConnInv'
  BY TypeConnStep, TypeLoopStep, TypeRestStep, IterationStep, BytesStep, BirthStep, SendsStep, CarefulStep
     DEF ConnInv, TypeOK
<1> QED BY <1>1, ConnInvInit, PTL DEF Spec

\* Whatever the program does, no byte that sendInLoop took is lost, repeated or reordered on
\* its way through the output buffer to the socket (sendInLoop and handleWrite).
THEOREM ConnectionKeepsBytes == Spec => []BytesInOrder
BY ConnInvAlways, PTL DEF ConnInv

\* If user threads only send, the poller is asked for writability exactly when there is output
\* to write (sendInLoop, handleWrite and every call that changes the channel).
THEOREM ConnectionWrites == Spec => []WritingIffPending
<1>1. ConnInv => WritingIffPending
  BY DEF ConnInv, SendsInv, Writing, Up, WritingIffPending
<1> QED BY <1>1, ConnInvAlways, PTL

\* If user threads only send, our side of the socket is shut only when all output is written
\* (shutdownInLoop and handleWrite).
THEOREM ConnectionFlushes == Spec => []ShutdownAfterFlush
<1>1. ConnInv => ShutdownAfterFlush
  <2> SUFFICES ASSUME ConnInv, OnlySends, wrShut PROVE wire = taken
    BY DEF ShutdownAfterFlush
  <2>1. outputBuffer_ = <<>> /\ wire \in Seq(Sent) /\ wire \o outputBuffer_ = taken
    BY DEF ConnInv, SendsInv, Flushed, TypeOK, TypeConn, BytesInOrder
  <2> QED BY <2>1, ConcatEmptySeq
<1> QED BY <1>1, ConnInvAlways, PTL

\* In a careful program no assertion fails, handleClose runs once and nothing is used after it
\* is gone (handleClose, connectDestroyed and removeConnectionInLoop).
THEOREM ConnectionFailsNot == Spec => []NothingFails
<1>1. ConnInv => NothingFails
  BY DEF ConnInv, CarefulInv, Life, Open, Closing, Told, Leaving, Gone, Down, NothingFails
<1> QED BY <1>1, ConnInvAlways, PTL

\* In a careful program a connection is freed only when it is down and out of the poller
\* (~TcpConnection and ~Channel).
THEOREM ConnectionEndsClean == Spec => []DestroyedClean
<1>1. ConnInv => DestroyedClean
  BY AliveUntilGone DEF ConnInv, CarefulInv, TypeOK, Gone, Down, DestroyedClean
<1> QED BY <1>1, ConnInvAlways, PTL
=============================================================================
