----------------------------- MODULE IpmbClient -----------------------------
(***************************************************************************)
(* What ipmbd promises the clients of lib_ipmb_handle, with the sequence    *)
(* table, the bus, the queues and the threads hidden: a request is          *)
(* accepted, stays open for a while, and is closed exactly once, with a     *)
(* response that came for a request already accepted, or with none (0).     *)
(* No more than MaxOpen requests are open at a time, and none stays open    *)
(* for ever.                                                                *)
(***************************************************************************)
EXTENDS Naturals, FiniteSets

CONSTANTS MaxReq, MaxOpen, NoAnswer

VARIABLES accepted, open, answer

clientVars == <<accepted, open, answer>>

Accept ==
  /\ accepted < MaxReq
  /\ Cardinality(open) < MaxOpen
  /\ accepted' = accepted + 1
  /\ open' = open \cup {accepted + 1}
  /\ UNCHANGED answer

Close(i, r) ==
  /\ i \in open
  /\ answer[i] = NoAnswer
  /\ answer' = [answer EXCEPT ![i] = r]
  /\ open' = open \ {i}
  /\ UNCHANGED accepted

CloseSome(i) == \E r \in 0 .. accepted : Close(i, r)

ClientInit ==
  /\ accepted = 0
  /\ open = {}
  /\ answer = [i \in 1 .. MaxReq |-> NoAnswer]

ClientNext == Accept \/ \E i \in 1 .. MaxReq : CloseSome(i)

ClientSafety == ClientInit /\ [][ClientNext]_clientVars

ClientSpec ==
  /\ ClientSafety
  /\ \A i \in 1 .. MaxReq : WF_clientVars(CloseSome(i))
=============================================================================
