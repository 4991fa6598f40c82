------------------------------- MODULE MCKv -------------------------------
(* The key-value store for TLC. *)
EXTENDS Kv, TLC

CONSTANTS p1, p2, p3, f1, f2, f3, v1, v2

Files == {f1, f2, f3}
Values == {v1, v2}

\* What a call has looked up and promised is used up to the check; what is left
\* in a file without a name that nobody has open is never read.
Relevant(call) ==
  IF call.pc \in {"set_open", "set_lock", "set_check"}
  THEN [call EXCEPT !.was = IF call.alone THEN @ ELSE {}]
  ELSE [call EXCEPT !.was = {}, !.present = FALSE, !.create = FALSE]

Observable ==
  <<path, holder, [p \in Proc |-> Relevant(op[p])], may, window,
    [i \in Inode |-> IF i = path \/ \E p \in Proc : op[p].fd = i
                     THEN content[i] ELSE Empty]>>

Symmetry == Permutations(Files) \union Permutations(Values)
=============================================================================
