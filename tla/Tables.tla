------------------------------- MODULE Tables -------------------------------
(***************************************************************************)
(* std::map, and the table of an epoll descriptor: functions whose domain  *)
(* changes.                                                                *)
(***************************************************************************)

\* table[key] = value.
Put(table, key, value) == [k \in DOMAIN table \cup {key} |-> IF k = key THEN value ELSE table[k]]

Erase(table, key) == [k \in DOMAIN table \ {key} |-> table[k]]
=============================================================================
