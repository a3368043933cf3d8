-------------------------- MODULE MCTcpConnection ---------------------------
(***************************************************************************)
(* The programs around one TcpConnection that the runs check.              *)
(***************************************************************************)
EXTENDS TcpConnection

CarefulCalls == {"send", "shutdown", "forceClose", "forceCloseWithDelay"}

Application(loopCalls, userCalls, releases, same, destroys) ==
  [loopCalls |-> loopCalls, userCalls |-> userCalls, userReleases |-> releases, sameLoop |-> same,
   destroysServer |-> destroys]

\* Everything is called in the loop thread, the server is in the same loop or in another.
LoopOnly == {Application(CarefulCalls, {}, FALSE, same, FALSE) : same \in BOOLEAN}

\* Careful programs, one that makes every call in the loop thread, and two that
\* make every call between them in user threads; the last three may also destroy
\* the server.
Everything ==
  LoopOnly \cup
  {Application({"send", "shutdown"}, {"send"}, FALSE, FALSE, FALSE),
   Application(Calls, {}, FALSE, FALSE, TRUE),
   Application({}, {"send", "startRead", "shutdownAndForceCloseAfter"}, TRUE, FALSE, TRUE),
   Application({}, {"shutdown", "forceClose", "forceCloseWithDelay", "stopRead"},
               TRUE, FALSE, TRUE)}

=============================================================================
