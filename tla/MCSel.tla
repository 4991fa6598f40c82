-------------------------------- MODULE MCSel --------------------------------
(* Small instances of Sel for TLC. *)
EXTENDS Sel

\* Slots that neither header counts are written before they are read, but for
\* the one that a record is being added to; of a thread's variables only those
\* that it will read make a difference.  Some reservation is always current, so
\* which one it is makes none to the log.
HasSlot(t) == pc[t] \in {"parse", "store_data", "advance"}

UsedSlots(n) ==
  Live(g_sel_hdr[n]) \cup Live(f_hdr[n]) \cup
    {rec_id[t] - 1 : t \in {u \in Thread : HasSlot(u) /\ node[u] = n}}

Used(d) == [n \in Node |-> [i \in Index \cap UsedSlots(n) |-> d[n][i]]]

ThreadView(t) ==
  CASE pc[t] = "idle" -> <<>>
    [] pc[t] = "store_hdr" -> <<pc[t], node[t]>>
    [] pc[t] = "copy" -> <<pc[t], node[t], msg[t]>>
    [] HasSlot(t) -> <<pc[t], node[t], msg[t], rec_id[t]>>

View ==
  <<g_sel_hdr, Used(g_sel_data), file, f_hdr, Used(f_data), boot, creating,
    [t \in Thread |-> ThreadView(t)], added, restarts>>
=============================================================================
