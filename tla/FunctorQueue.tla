---------------------------- MODULE FunctorQueue ----------------------------
(***************************************************************************)
(* What an EventLoop promises the threads that hand it functors: those     *)
(* queued with queueInLoop run in the loop thread, one at a time, in the   *)
(* order in which they were queued and at most once each; one that the     *)
(* loop thread itself passes to runInLoop runs on the spot, ahead of the   *)
(* queue.  Which thread queues, how the loop thread is woken and in which  *)
(* batches it takes the functors is not visible here.                      *)
(***************************************************************************)
EXTENDS Sequences, Functions

CONSTANT Functors     \* the std::function objects clients hand to the loop

VARIABLES queue,      \* functors accepted and not yet started, oldest first
          ran         \* functors started, in the order they were started

qvars == <<queue, ran>>

Accepted == Range(queue) \cup Range(ran)

Init == queue = <<>> /\ ran = <<>>

Post(f) ==
  /\ f \notin Accepted
  /\ queue' = Append(queue, f)
  /\ UNCHANGED ran

RunOldest ==
  /\ queue # <<>>
  /\ ran' = Append(ran, Head(queue))
  /\ queue' = Tail(queue)

RunNow(f) ==
  /\ f \notin Accepted
  /\ ran' = Append(ran, f)
  /\ UNCHANGED queue

Next == \/ \E f \in Functors : Post(f) \/ RunNow(f)
        \/ RunOldest

Spec == Init /\ [][Next]_qvars
=============================================================================
