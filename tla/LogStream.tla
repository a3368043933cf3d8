----------------------------- MODULE LogStream ------------------------------
(***************************************************************************)
(* gg_lib::LogStream on its FixedBuffer.  What is written is a sequence of *)
(* parts [kind, len]; the buffer is the sequence of those it took, each    *)
(* with the length it took, its place among the parts and the value of     *)
(* cur_ after it.                                                          *)
(***************************************************************************)
EXTENDS Integers, Sequences

CONSTANTS
  kSmallBuffer,      \* the size of the buffer, 4000 in the code
  kMaxNumericSize    \* what a number may need, 48 in the code

Parts == [kind : {"text"}, len : Nat] \cup [kind : {"number"}, len : 0 .. kMaxNumericSize]

length(buffer) == IF buffer = <<>> THEN 0 ELSE buffer[Len(buffer)].end

avail(buffer) == kSmallBuffer - length(buffer)

add(buffer, i, len) == Append(buffer, [part |-> i, took |-> len, end |-> length(buffer) + len])

\* A faulty append that writes as much as it is given.
append_NoLimit(buffer, i, len) == add(buffer, i, len)

\* FixedBuffer::append, and Fmt, which formats into what is left: text is cut at the end.
append(buffer, i, len) == add(buffer, i, IF avail(buffer) < len THEN avail(buffer) ELSE len)

\* formatInteger, pointers and doubles: all or nothing.
formatNumber(buffer, i, len) ==
  IF avail(buffer) >= kMaxNumericSize THEN add(buffer, i, len) ELSE buffer

\* operator<<: the buffer after part i.
Put(buffer, parts, i) ==
  IF parts[i].kind = "number" THEN formatNumber(buffer, i, parts[i].len)
  ELSE append(buffer, i, parts[i].len)

\* The buffer after all parts.
Stream(parts) ==
  LET after[i \in 0 .. Len(parts)] == IF i = 0 THEN <<>> ELSE Put(after[i - 1], parts, i)
  IN after[Len(parts)]
=============================================================================
