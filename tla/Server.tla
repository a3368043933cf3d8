------------------------------- MODULE Server -------------------------------
(***************************************************************************)
(* TcpServer with its Acceptor, its EventLoopThreadPool and the loops of   *)
(* the pool, around connections of which only the stages of their life are *)
(* kept (TcpConnection.tla has the rest).  Loop 0 is the server's own loop *)
(* and never quits; loops 1 .. numThreads belong to the pool.              *)
(*                                                                         *)
(* An iteration of a loop is poll with its events, the swap of the pending *)
(* functors, and the batch; quit_ is looked at after the batch, and a loop *)
(* that ends drops what is pending.  handleRead of the Acceptor is one     *)
(* step for every system call, since other threads take and give back      *)
(* descriptors in between.                                                 *)
(*                                                                         *)
(* A failing assertion or a use of the server after its end is recorded in *)
(* failed, and the model stops there.                                      *)
(***************************************************************************)
EXTENDS Integers, Sequences, SequencesExt

CONSTANTS
  Peers,                \* clients; each connects at most once
  ThreadNums,           \* what setThreadNum may be called with
  MaxFds,               \* the limit of descriptors, those that are never closed aside
  MaxOthers             \* how many of them other code of the process uses at most

ASSUME ServerAssumption ==
  /\ ThreadNums \subseteq Nat
  /\ \E most \in ThreadNums : \A num \in ThreadNums : num <= most
  /\ MaxFds \in Nat \ {0} /\ MaxOthers \in Nat

VARIABLES
  server,               \* the life of the TcpServer
  numThreads_, next_,   \* members of EventLoopThreadPool
  connections_,         \* the connections the server holds a pointer to
  conn,                 \* per peer: waiting to be accepted, or the stage of its connection
  loop,                 \* per peer: the loop of its connection
  closed,               \* the peers that have closed their side
  at, pending, batch,   \* per loop: where it is, pendingFunctors_, the batch it runs ...
  turn,                 \* ... and the next functor of the batch
  quit_,                \* the loops that were told to quit
  acceptor,             \* where handleRead is
  idleFd_,              \* is the spare descriptor open?
  others,               \* descriptors in use elsewhere
  stolen,               \* did other code take the descriptor handleRead had given up?
  hasty,                \* was a server with io threads destroyed before its connections?
  failed

poolVars == <<numThreads_, next_>>
loopVars == <<at, turn, quit_>>
acceptVars == <<acceptor, idleFd_, others, stolen>>
connVars == <<conn, connections_, pending, batch>>
vars == <<server, poolVars, connVars, loop, closed, loopVars, acceptVars, hasty, failed>>

AllLoops == 0 .. Max(ThreadNums)

\* Stages in which a connection has its descriptor.
Live == {"connecting", "up", "down", "removed"}

LiveConns == {p \in Peers : conn[p] \in Live}
Waiting == {p \in Peers : conn[p] = "waiting"}

Free ==
  MaxFds - others - Cardinality(LiveConns) - (IF idleFd_ THEN 1 ELSE 0)
    - (IF acceptor = "refuse" THEN 1 ELSE 0)

Init ==
  /\ server = "new"
  /\ numThreads_ \in ThreadNums
  /\ next_ = 0
  /\ connections_ = {}
  /\ conn = [p \in Peers |-> "none"]
  /\ loop = [p \in Peers |-> 0]
  /\ closed = {}
  /\ at = [l \in AllLoops |-> IF l = 0 THEN "functors" ELSE "ended"]
  /\ pending = [l \in AllLoops |-> <<>>]
  /\ batch = [l \in AllLoops |-> <<>>]
  /\ turn = [l \in AllLoops |-> 1]
  /\ quit_ = {}
  /\ acceptor = "idle"
  /\ idleFd_ = TRUE
  /\ others = 0
  /\ stolen = FALSE
  /\ hasty = FALSE
  /\ failed = {}

\* The thread of loop l is in its loop, not in handleRead or in ~TcpServer.
InLoop(l) == l # 0 \/ (acceptor = "idle" /\ server \notin {"destroying", "joining"})

-----------------------------------------------------------------------------
(* Connections: what they are after a step, and which are freed by it      *)
(* because neither the server nor a functor holds a pointer any more.      *)

Functor(f, p) == [op |-> f, conn |-> p]

queueInLoop(queues, l, f, p) == [queues EXCEPT ![l] = Append(@, Functor(f, p))]

\* What fails when a connection is freed that connectDestroyed has not removed: state_ is
\* wrong, or, when handleClose has set it to kDisconnected, the channel is still in the loop.
FreedTooSoon(stage) == IF stage = "down" THEN "Channel.cc:27" ELSE "TcpConnection.cc:69"

Settle(stages, map, queues, batches) ==
  LET held == map \cup {f.conn : f \in UNION {ToSet(queues[l]) \cup ToSet(batches[l]) : l \in AllLoops}}
      gone == {p \in Peers : stages[p] \in Live /\ p \notin held}
  IN /\ conn' = [p \in Peers |-> IF p \in gone THEN "freed" ELSE stages[p]]
     /\ connections_' = map
     /\ pending' = queues
     /\ batch' = batches
     /\ failed' = failed \cup {FreedTooSoon(stages[p]) : p \in {g \in gone : stages[g] # "removed"}}

\* connectDestroyed takes a connection down that is still up, and out of the poller.
connectDestroyed(p) == [conn EXCEPT ![p] = "removed"]

\* A faulty removeConnectionInLoop that drops the connection instead of handing it to its loop.
removeConnectionInLoop_Drop(p, stages) ==
  Settle(stages, connections_ \ {p}, pending, batch)

removeConnectionInLoop(p, stages) ==
  Settle(stages, connections_ \ {p}, queueInLoop(pending, loop[p], "connectDestroyed", p), batch)

\* The server is gone, or connections_.erase finds nothing.
RemoveFails(p) ==
  (IF server = "gone" THEN {"TcpServer.cc:81"} ELSE {})
    \cup (IF server \in {"started", "destroying"} /\ p \notin connections_
          THEN {"TcpServer.cc:88"} ELSE {})

Fail(what) ==
  /\ failed' = failed \cup what
  /\ UNCHANGED connVars

-----------------------------------------------------------------------------
(* The iteration of loop l.                                                *)

\* A connection of the loop reads the end of its input: handleClose, and
\* removeConnection, which runs in the server's loop.
handleClose(p) ==
  /\ at[loop[p]] = "poll" /\ InLoop(loop[p])
  /\ conn[p] = "up" /\ p \in closed
  /\ LET stages == [conn EXCEPT ![p] = "down"] IN
       IF server = "gone" THEN Fail({"TcpServer.cc:81"})
       ELSE IF loop[p] = 0 THEN removeConnectionInLoop(p, stages)
       ELSE Settle(stages, connections_, queueInLoop(pending, 0, "removeConnectionInLoop", p), batch)
  /\ UNCHANGED <<server, poolVars, loop, closed, loopVars, acceptVars, hasty>>

\* The end of the events: doPendingFunctors swaps.
Swap(l) ==
  /\ at[l] = "poll" /\ InLoop(l)
  /\ at' = [at EXCEPT ![l] = "functors"]
  /\ batch' = [batch EXCEPT ![l] = pending[l]]
  /\ pending' = [pending EXCEPT ![l] = <<>>]
  /\ UNCHANGED <<server, poolVars, conn, connections_, loop, closed, turn, quit_, acceptVars, hasty,
                 failed>>

\* The next functor of the batch.
Run(l) ==
  /\ at[l] = "functors" /\ InLoop(l) /\ turn[l] <= Len(batch[l])
  /\ turn' = [turn EXCEPT ![l] = @ + 1]
  /\ LET p == batch[l][turn[l]].conn
         f == batch[l][turn[l]].op
     IN \/ /\ f = "connectEstablished"
           /\ Settle([conn EXCEPT ![p] = "up"], connections_, pending, batch)
        \/ /\ f = "connectDestroyed"
           /\ Settle(connectDestroyed(p), connections_, pending, batch)
        \/ /\ f = "removeConnectionInLoop"
           /\ IF RemoveFails(p) # {} THEN Fail(RemoveFails(p))
              ELSE removeConnectionInLoop(p, conn)
  /\ UNCHANGED <<server, poolVars, loop, closed, at, quit_, acceptVars, hasty>>

\* The end of the batch, whose functors and their pointers go.  A loop that was told to
\* quit ends, and ~EventLoop drops its pending functors.
EndBatch(l) ==
  /\ at[l] = "functors" /\ InLoop(l) /\ turn[l] > Len(batch[l])
  /\ at' = [at EXCEPT ![l] = IF l \in quit_ THEN "ended" ELSE "poll"]
  /\ turn' = [turn EXCEPT ![l] = 1]
  /\ Settle(conn, connections_, IF l \in quit_ THEN [pending EXCEPT ![l] = <<>>] ELSE pending,
            [batch EXCEPT ![l] = <<>>])
  /\ UNCHANGED <<server, poolVars, loop, closed, quit_, acceptVars, hasty>>

-----------------------------------------------------------------------------
(* TcpServer: start, and the destructor, which runs in a functor of the    *)
(* server's loop.  Destroying the server in an event callback of one of    *)
(* its channels is left out: it would free the Acceptor, or a connection   *)
(* of that loop, under Channel::handleEvent, which holds no pointer to it. *)

UserCode == at[0] = "functors" /\ InLoop(0)

\* start: the pool starts its loops, the acceptor listens.  A second call does nothing.
start ==
  /\ UserCode /\ server = "new"
  /\ server' = "started"
  /\ at' = [l \in AllLoops |-> IF l \in 1 .. numThreads_ THEN "poll" ELSE at[l]]
  /\ UNCHANGED <<poolVars, connVars, loop, closed, turn, quit_, acceptVars, hasty, failed>>

Destroy ==
  /\ UserCode /\ server \in {"new", "started"}
  /\ server' = "destroying"
  /\ hasty' = (numThreads_ > 0 /\ \E p \in LiveConns : conn[p] # "removed")
  /\ UNCHANGED <<poolVars, connVars, loop, closed, loopVars, acceptVars, failed>>

\* The body of the destructor hands over one connection after the other.
DestroyConnection(p) ==
  /\ server = "destroying" /\ p \in connections_
  /\ IF loop[p] = 0
       THEN Settle(connectDestroyed(p), connections_ \ {p}, pending, batch)
       ELSE Settle(conn, connections_ \ {p}, queueInLoop(pending, loop[p], "connectDestroyed", p), batch)
  /\ UNCHANGED <<server, poolVars, loop, closed, loopVars, acceptVars, hasty>>

\* Then its members go.  ~EventLoopThread: the next thread is told to quit when the
\* one before has been joined.
QuitThread(l) ==
  /\ \/ server = "destroying" /\ connections_ = {}
     \/ server = "joining"
  /\ l \notin quit_ /\ at[l] # "ended"
  /\ \A k \in 1 .. l - 1 : at[k] = "ended"
  /\ server' = "joining"
  /\ quit_' = quit_ \cup {l}
  /\ UNCHANGED <<poolVars, connVars, loop, closed, at, turn, acceptVars, hasty, failed>>

\* All threads are joined, and ~Acceptor closes the spare descriptor and its socket.
DestroyAcceptor ==
  /\ server \in {"destroying", "joining"} /\ connections_ = {}
  /\ \A l \in 1 .. numThreads_ : at[l] = "ended"
  /\ server' = "gone"
  /\ idleFd_' = FALSE
  /\ conn' = [p \in Peers |-> IF conn[p] = "waiting" THEN "refused" ELSE conn[p]]
  /\ UNCHANGED <<poolVars, connections_, pending, batch, loop, closed, loopVars, acceptor, others,
                 stolen, hasty, failed>>

-----------------------------------------------------------------------------
(* Acceptor::handleRead, and TcpServer::newConnection.                     *)

\* The acceptor's channel is readable.
handleRead ==
  /\ at[0] = "poll" /\ InLoop(0) /\ server = "started" /\ Waiting # {}
  /\ acceptor' = "accept"
  /\ UNCHANGED <<server, poolVars, connVars, loop, closed, loopVars, idleFd_, others, stolen, hasty, failed>>

\* getNextLoop, round robin.
getNextLoop == IF numThreads_ = 0 THEN 0 ELSE next_ + 1

\* The pool's next loop gets the new connection.
newConnection(p) ==
  LET ioLoop == getNextLoop IN
  /\ next_' = IF numThreads_ = 0 \/ next_ + 1 >= numThreads_ THEN 0 ELSE next_ + 1
  /\ loop' = [loop EXCEPT ![p] = ioLoop]
  /\ IF ioLoop = 0
       THEN Settle([conn EXCEPT ![p] = "up"], connections_ \cup {p}, pending, batch)
       ELSE Settle([conn EXCEPT ![p] = "connecting"], connections_ \cup {p},
                   queueInLoop(pending, ioLoop, "connectEstablished", p), batch)

\* accept4 gives a connection.
Accept(p) ==
  /\ acceptor = "accept" /\ Free > 0 /\ p \in Waiting
  /\ newConnection(p)
  /\ UNCHANGED <<server, numThreads_, closed, loopVars, acceptVars, hasty>>

\* accept4 finds a connection that its peer has given up: ECONNABORTED, and the loop
\* goes on.
AcceptAborted(p) ==
  /\ acceptor = "accept" /\ Free > 0 /\ p \in Waiting
  /\ conn' = [conn EXCEPT ![p] = "refused"]
  /\ UNCHANGED <<server, poolVars, connections_, pending, batch, loop, closed, loopVars, acceptVars,
                 hasty, failed>>

\* A faulty handleRead that goes on after EAGAIN.
AcceptNone_GoesOn ==
  /\ acceptor = "accept" /\ Free > 0 /\ Waiting = {}
  /\ UNCHANGED vars

\* Nobody waits: EAGAIN, the only way out.
AcceptNone ==
  /\ acceptor = "accept" /\ Free > 0 /\ Waiting = {}
  /\ acceptor' = "idle"
  /\ UNCHANGED <<server, poolVars, connVars, loop, closed, loopVars, idleFd_, others, stolen, hasty, failed>>

\* No descriptor is free: EMFILE, also if nobody waits, since Linux takes the
\* descriptor first.  The spare one is closed.
CloseIdleFd ==
  /\ acceptor = "accept" /\ Free = 0
  /\ acceptor' = "closed"
  /\ idleFd_' = FALSE
  /\ UNCHANGED <<server, poolVars, connVars, loop, closed, loopVars, others, stolen, hasty, failed>>

\* accept into idleFd_, if the descriptor is still free and somebody waits.
AcceptIdleFd ==
  /\ acceptor = "closed"
  /\ \/ \E p \in Waiting :
          /\ Free > 0
          /\ acceptor' = "refuse"
          /\ conn' = [conn EXCEPT ![p] = "refused"]
     \/ /\ Free = 0 \/ Waiting = {}
        /\ acceptor' = "reopen"
        /\ UNCHANGED conn
  /\ UNCHANGED <<server, poolVars, connections_, pending, batch, loop, closed, loopVars, idleFd_,
                 others, stolen, hasty, failed>>

\* The connection is closed at once.
CloseAccepted ==
  /\ acceptor = "refuse"
  /\ acceptor' = "reopen"
  /\ UNCHANGED <<server, poolVars, connVars, loop, closed, loopVars, idleFd_, others, stolen, hasty, failed>>

\* A faulty handleRead that does not open the spare descriptor again.
OpenIdleFd_Forgotten ==
  /\ acceptor = "reopen"
  /\ acceptor' = "accept"
  /\ UNCHANGED <<server, poolVars, connVars, loop, closed, loopVars, idleFd_, others, stolen, hasty, failed>>

\* open gives a spare descriptor again, unless another thread took the last one.
OpenIdleFd ==
  /\ acceptor = "reopen"
  /\ acceptor' = "accept"
  /\ idleFd_' = (Free > 0)
  /\ UNCHANGED <<server, poolVars, connVars, loop, closed, loopVars, others, stolen, hasty, failed>>

-----------------------------------------------------------------------------
(* The environment: peers, and other code of the process.                  *)

Connect(p) ==
  /\ server = "started" /\ conn[p] = "none"
  /\ conn' = [conn EXCEPT ![p] = "waiting"]
  /\ UNCHANGED <<server, poolVars, connections_, pending, batch, loop, closed, loopVars, acceptVars,
                 hasty, failed>>

Close(p) ==
  /\ conn[p] \in {"connecting", "up"} /\ p \notin closed
  /\ closed' = closed \cup {p}
  /\ UNCHANGED <<server, poolVars, connVars, loop, loopVars, acceptVars, hasty, failed>>

OthersOpen ==
  /\ Free > 0 /\ others < MaxOthers
  /\ others' = others + 1
  /\ stolen' = (stolen \/ acceptor \in {"closed", "reopen"})
  /\ UNCHANGED <<server, poolVars, connVars, loop, closed, loopVars, acceptor, idleFd_, hasty, failed>>

OthersClose ==
  /\ others > 0
  /\ others' = others - 1
  /\ UNCHANGED <<server, poolVars, connVars, loop, closed, loopVars, acceptor, idleFd_, stolen, hasty,
                 failed>>

-----------------------------------------------------------------------------

LoopStep(l) == failed = {} /\ (Swap(l) \/ Run(l) \/ EndBatch(l))

Acceptance ==
  /\ failed = {}
  /\ \/ \E p \in Peers : Accept(p) \/ AcceptAborted(p)
     \/ AcceptNone \/ CloseIdleFd \/ AcceptIdleFd \/ CloseAccepted \/ OpenIdleFd

Destruction ==
  /\ failed = {}
  /\ \/ \E p \in Peers : DestroyConnection(p)
     \/ \E l \in AllLoops \ {0} : QuitThread(l)
     \/ DestroyAcceptor

Events ==
  /\ failed = {}
  /\ handleRead \/ \E p \in Peers : handleClose(p)

Environment ==
  /\ failed = {}
  /\ \/ start \/ Destroy
     \/ \E p \in Peers : Connect(p) \/ Close(p)
     \/ OthersOpen \/ OthersClose

Next ==
  \/ \E l \in AllLoops : LoopStep(l)
  \/ Acceptance
  \/ Destruction
  \/ Events
  \/ Environment

Spec == Init /\ [][Next]_vars

\* Loops go on, calls return, and poll reports again what is still ready.
FairSpec ==
  /\ Spec
  /\ \A l \in AllLoops : WF_vars(LoopStep(l))
  /\ WF_vars(Acceptance)
  /\ WF_vars(Destruction)
  /\ SF_vars(failed = {} /\ handleRead)
  /\ \A p \in Peers : SF_vars(failed = {} /\ handleClose(p))

-----------------------------------------------------------------------------
(* Properties.                                                             *)

\* Nothing goes wrong at the end of a server: every connection goes through
\* connectDestroyed before it is freed, and no functor or close callback uses the
\* server when it is gone, unless a server with io threads was destroyed before its
\* connections had ended (TcpServer.cc:31-40, 79-92, the "FIXME: unsafe" of line 72).
EndIsClean == failed # {} => hasty

\* A connection that its peer has closed is freed, whichever loop it belongs to, if
\* descriptors do not run out for ever (TcpServer.cc:79-92, TcpConnection.cc:207-215).
ClosedIsFreed ==
  <>[](Free > 0) =>
    \A p \in Peers : (conn[p] = "up" /\ p \in closed) ~> (conn[p] = "freed" \/ failed # {})

\* A peer that connects is accepted, or at the limit of descriptors accepted and
\* closed, unless another thread has taken the descriptor that handleRead gave up
\* (Acceptor.cc:42-66).
PeersServed ==
  \A p \in Peers :
    (conn[p] = "waiting") ~> (conn[p] # "waiting" \/ stolen \/ failed # {})
=============================================================================
