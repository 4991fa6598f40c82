---------------------------- MODULE IpmbSeqOrder ----------------------------
(***************************************************************************)
(* In which order seq_get_new reuses sequence numbers, for any callers that *)
(* keep to TableSpec.                                                       *)
(*                                                                         *)
(* A response that arrives late is told from a current one only by its      *)
(* sequence number, so what keeps a stale response from reaching the wrong  *)
(* requester is how long a number stays unused after its release.  The      *)
(* history variable since records it: since[t] is the set of slots that     *)
(* were handed out, or were passed over because they were busy, since t was *)
(* last handed out.                                                         *)
(***************************************************************************)
EXTENDS IpmbSeq

VARIABLE since

orderVars == <<seqVars, since>>

\* The slot seq_get_new hands out in this step, as a set.
HandedOut == {s \in Slot : ~in_use[s] /\ in_use'[s]}

\* A number that was never handed out counts as unused long enough.
OrderInit == ipmb_seq_buf_init /\ since = [t \in Slot |-> Slot]

OrderNext ==
  /\ TableNext
  /\ since' = [t \in Slot |->
       IF t \in HandedOut THEN {}
       ELSE since[t] \cup
            UNION {Passed(curr_seq, s) \cup {s} : s \in HandedOut}]

OrderSpec == OrderInit /\ [][OrderNext]_orderVars

OrderTypeOK == SeqTypeOK /\ since \in [Slot -> SUBSET Slot]

\* seq_get_new is about to hand out s: then every other number was handed out
\* after s was, or was busy when the search went by.  With 64 numbers and few
\* requests in progress a stale response therefore meets a new requester only
\* after some 60 further requests.
ReuseDistance ==
  \A s \in Slot :
    FirstFree(s) => Slot \ {s} \subseteq since[s] \cup Passed(curr_seq, s)

\* The inductive strengthening: since[t] holds the arc the search has covered
\* from the slot behind t to where the next search starts.
ArcCovered == \A t \in Slot : Passed(Succ(t), curr_seq) \subseteq since[t]
=============================================================================
