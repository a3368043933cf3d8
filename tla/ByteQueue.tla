----------------------------- MODULE ByteQueue ------------------------------
(***************************************************************************)
(* What gg_lib::net::Buffer promises: a queue of bytes, written at its     *)
(* end, read at its front; bytes can also be put in front, and taken back  *)
(* from the end.                                                           *)
(***************************************************************************)
EXTENDS Integers, Sequences

CONSTANTS Byte, Base

VARIABLES
  bytes,     \* what can be read
  call       \* the last call: what it did, with which bytes and which integer

qvars == <<bytes, call>>

Init == bytes = <<>> /\ call = [op |-> "none", data |-> <<>>, int |-> 0]

\* The number that data is in base Base, the most significant byte first.
Value(data) ==
  LET value[i \in 0 .. Len(data)] == IF i = 0 THEN 0 ELSE value[i - 1] * Base + data[i]
  IN value[Len(data)]

\* How many values w bytes have.
Values(w) ==
  LET values[i \in 0..w] == IF i = 0 THEN 1 ELSE Base * values[i - 1]
  IN values[w]

\* data is the signed integer x of as many bytes, in network order.
IsInt(data, x) ==
  /\ 2 * x \in -Values(Len(data)) .. Values(Len(data)) - 1
  /\ x % Values(Len(data)) = Value(data)

\* A call op, or one with an integer, that names data.
Call(op, intOp, data) ==
  \/ call' = [op |-> op, data |-> data, int |-> 0]
  \/ \E x \in {call'.int} : call' = [op |-> intOp, data |-> data, int |-> x] /\ IsInt(data, x)

\* data goes to the end of the queue.
Write(data) == bytes' = bytes \o data /\ Call("write", "writeInt", data)

\* data was at the front of the queue, and is taken from it.
Read(data) == bytes = data \o bytes' /\ Call("read", "readInt", data)

\* data goes to the front of the queue.
Prepend(data) == bytes' = data \o bytes /\ Call("prepend", "prependInt", data)

\* data was at the end of the queue, and is taken back.
Unwrite(data) ==
  /\ bytes = bytes' \o data
  /\ call' = [op |-> "unwrite", data |-> data, int |-> 0]

\* One of the four, with the bytes that the call names.
Next ==
  LET data == call'.data IN
  /\ data \in Seq(Byte)
  /\ Write(data) \/ Read(data) \/ Prepend(data) \/ Unwrite(data)

Spec == Init /\ [][Next]_qvars
=============================================================================
