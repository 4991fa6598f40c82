--------------------------- MODULE IpmbSeqProofs ---------------------------
(***************************************************************************)
(* Facts about the sequence table for every size of the table and any       *)
(* number of handlers and requests: the arcs of the ring that seq_get_new   *)
(* searches, the types that the critical sections of seq_mutex keep, and    *)
(* the order in which numbers are reused.                                   *)
(*                                                                         *)
(* Passed(a, b) is the arc of the ring from a up to, and without, b.  The   *)
(* argument for the order is that an arc from a to c is covered by the arcs *)
(* from a to b and from b to c (ArcVia).                                    *)
(***************************************************************************)
EXTENDS IpmbSeqOrder, TLAPS

\* The slot behind a slot is a slot.
LEMMA SuccSlot == ASSUME NEW s \in Slot PROVE Succ(s) \in Slot
BY SeqNumAssumption DEF Slot, Succ

\* Going from a to c by way of b passes every slot between a and c.
LEMMA ArcVia ==
  ASSUME NEW a \in Slot, NEW b \in Slot, NEW c \in Slot
  PROVE  Passed(a, c) \subseteq Passed(a, b) \cup Passed(b, c)
BY SeqNumAssumption DEF Slot, Passed

\* One step further passes one slot more.
LEMMA ArcStep ==
  ASSUME NEW a \in Slot, NEW s \in Slot
  PROVE  Passed(a, Succ(s)) \subseteq Passed(a, s) \cup {s}
BY SeqNumAssumption DEF Slot, Passed, Succ

\* Once round the ring passes every other slot.
LEMMA ArcRound ==
  ASSUME NEW s \in Slot
  PROVE  Slot \ {s} \subseteq Passed(Succ(s), s)
BY SeqNumAssumption DEF Slot, Passed, Succ

LEMMA ArcEmpty == ASSUME NEW s \in Slot PROVE Passed(s, s) = {}
BY SeqNumAssumption DEF Slot, Passed

LEMMA ArcSlots ==
  ASSUME NEW a \in Slot, NEW b \in Slot PROVE Passed(a, b) \subseteq Slot
BY SeqNumAssumption DEF Slot, Passed

-----------------------------------------------------------------------------
\* ipmb_seq_buf_init gives the table its types.
LEMMA SeqTypeInit == ipmb_seq_buf_init => SeqTypeOK
BY SeqNumAssumption DEF ipmb_seq_buf_init, SeqTypeOK, Slot

\* seq_get_new keeps the types of the table.
LEMMA SeqTypeGet ==
  ASSUME SeqTypeOK, NEW h \in Handler, NEW s \in Slot, seq_get_new(h, s)
  PROVE  SeqTypeOK'
BY SuccSlot DEF SeqTypeOK, seq_get_new

\* seq_put writes to the handler the slot points to, if it points to one.
LEMMA SeqPutCases ==
  ASSUME SeqTypeOK, NEW s \in Slot, NEW m, seq_put(s, m)
  PROVE  \/ /\ in_use[s]
            /\ p_buf[s] \in Handler
            /\ res_buf' = [res_buf EXCEPT ![p_buf[s]] = m]
            /\ len' = [len EXCEPT ![s] = TRUE]
            /\ seq_sem' = [seq_sem EXCEPT ![s] = @ + 1]
            /\ UNCHANGED <<in_use, p_buf, curr_seq>>
         \/ UNCHANGED <<in_use, len, p_buf, seq_sem, curr_seq, res_buf>>
<1>1. CASE in_use[s] /\ p_buf[s] # NULL
  <2>1. p_buf[s] \in Handler
    BY <1>1 DEF SeqTypeOK
  <2> QED BY <1>1, <2>1 DEF seq_put
<1>2. CASE ~(in_use[s] /\ p_buf[s] # NULL)
  BY <1>2 DEF seq_put, seqVars
<1> QED BY <1>1, <1>2

\* seq_put keeps the types of the table.
LEMMA SeqTypePut ==
  ASSUME SeqTypeOK, NEW s \in Slot, NEW m \in Req, seq_put(s, m)
  PROVE  SeqTypeOK'
<1>1. CASE UNCHANGED <<in_use, len, p_buf, seq_sem, curr_seq, res_buf>>
  BY <1>1 DEF SeqTypeOK
<1>2. CASE /\ p_buf[s] \in Handler
           /\ res_buf' = [res_buf EXCEPT ![p_buf[s]] = m]
           /\ len' = [len EXCEPT ![s] = TRUE]
           /\ seq_sem' = [seq_sem EXCEPT ![s] = @ + 1]
           /\ UNCHANGED <<in_use, p_buf, curr_seq>>
  <2>1. res_buf' \in [Handler -> Req \cup {NULL}]
    BY <1>2 DEF SeqTypeOK
  <2> QED BY <1>2, <2>1 DEF SeqTypeOK
<1> QED BY <1>1, <1>2, SeqPutCases

\* Waiting on a slot's semaphore keeps the types of the table.
LEMMA SeqTypeSem ==
  ASSUME SeqTypeOK, NEW s \in Slot, sem_acquired(s)
  PROVE  SeqTypeOK'
BY DEF SeqTypeOK, sem_acquired

\* Releasing a slot keeps the types of the table.
LEMMA SeqTypeRelease ==
  ASSUME SeqTypeOK, NEW s \in Slot, seq_release(s)
  PROVE  SeqTypeOK'
BY DEF SeqTypeOK, seq_release

-----------------------------------------------------------------------------
\* The table operations keep the types of the table.
LEMMA SeqTypeStep ==
  ASSUME SeqTypeOK, TableNext PROVE SeqTypeOK'
<1>1. ASSUME NEW h \in Handler, NewStack(h) PROVE SeqTypeOK'
  BY <1>1 DEF SeqTypeOK, NewStack
<1> QED BY <1>1, SeqTypeGet, SeqTypePut, SeqTypeSem, SeqTypeRelease
        DEF TableNext, Take, Await, Release

\* A step of the table hands out one slot, which seq_get_new chose, or none,
\* and then the place where the search starts does not move.
LEMMA HandsOutFirstFree ==
  ASSUME SeqTypeOK, TableNext
  PROVE  \/ HandedOut = {} /\ curr_seq' = curr_seq
         \/ \E s \in Slot : /\ HandedOut = {s}
                            /\ FirstFree(s)
                            /\ curr_seq' = Succ(s)
<1>1. ASSUME NEW h \in Handler, NEW s \in Slot, seq_get_new(h, s)
      PROVE  HandedOut = {s} /\ FirstFree(s) /\ curr_seq' = Succ(s)
  BY <1>1 DEF SeqTypeOK, seq_get_new, HandedOut, FirstFree
<1>2. ASSUME NEW h \in Handler, NewStack(h)
      PROVE  HandedOut = {} /\ curr_seq' = curr_seq
  BY <1>2 DEF NewStack, HandedOut
<1>3. ASSUME NEW s \in Slot, Await(s)
      PROVE  HandedOut = {} /\ curr_seq' = curr_seq
  BY <1>3 DEF Await, sem_acquired, HandedOut
<1>4. ASSUME NEW s \in Slot, Release(s)
      PROVE  HandedOut = {} /\ curr_seq' = curr_seq
  BY <1>4 DEF SeqTypeOK, Release, seq_release, HandedOut
<1>5. ASSUME NEW s \in Slot, NEW m \in Req, seq_put(s, m)
      PROVE  HandedOut = {} /\ curr_seq' = curr_seq
  BY <1>5 DEF seq_put, seqVars, HandedOut
<1> QED BY <1>1, <1>2, <1>3, <1>4, <1>5 DEF TableNext, Take

\* Types are kept: the table's, and since holds sets of slots.
THEOREM OrderTypeCorrect == OrderSpec => []OrderTypeOK
<1>1. OrderInit => OrderTypeOK
  BY SeqNumAssumption
     DEF OrderInit, OrderTypeOK, ipmb_seq_buf_init, SeqTypeOK, Slot
<1>2. OrderTypeOK /\ [OrderNext]_orderVars => OrderTypeOK'
  <2> SUFFICES ASSUME OrderTypeOK, [OrderNext]_orderVars PROVE OrderTypeOK'
    OBVIOUS
  <2>1. CASE UNCHANGED orderVars
    BY <2>1 DEF OrderTypeOK, SeqTypeOK, orderVars, seqVars
  <2>2. CASE OrderNext
    <3>1. SeqTypeOK'
      BY <2>2, SeqTypeStep DEF OrderTypeOK, OrderNext
    <3>2. HandedOut \subseteq Slot
      BY DEF HandedOut
    <3>3. \A s \in HandedOut : Passed(curr_seq, s) \cup {s} \subseteq Slot
      BY <3>2, ArcSlots DEF OrderTypeOK, SeqTypeOK
    <3>4. UNION {Passed(curr_seq, s) \cup {s} : s \in HandedOut} \subseteq Slot
      BY <3>3
    <3>5. since' \in [Slot -> SUBSET Slot]
      BY <2>2, <3>4 DEF OrderNext, OrderTypeOK
    <3> QED BY <3>1, <3>5 DEF OrderTypeOK
  <2> QED BY <2>1, <2>2
<1> QED BY <1>1, <1>2, PTL DEF OrderSpec

\* since[t] covers the arc from behind t to where the next search starts.
THEOREM ArcAlwaysCovered == OrderSpec => []ArcCovered
<1>1. OrderInit => ArcCovered
  <2> SUFFICES ASSUME OrderInit, NEW t \in Slot
               PROVE  Passed(Succ(t), curr_seq) \subseteq since[t]
    BY DEF ArcCovered
  <2>1. curr_seq \in Slot /\ since[t] = Slot
    BY SeqNumAssumption DEF OrderInit, ipmb_seq_buf_init, Slot
  <2> QED BY <2>1, SuccSlot, ArcSlots
<1>2. OrderTypeOK /\ ArcCovered /\ [OrderNext]_orderVars => ArcCovered'
  <2> SUFFICES ASSUME OrderTypeOK, ArcCovered, [OrderNext]_orderVars,
                      NEW t \in Slot
               PROVE  Passed(Succ(t), curr_seq') \subseteq since'[t]
    BY DEF ArcCovered, Passed, Succ, Slot
  <2>0. /\ curr_seq \in Slot
        /\ Succ(t) \in Slot
        /\ Passed(Succ(t), curr_seq) \subseteq since[t]
    BY SuccSlot DEF OrderTypeOK, SeqTypeOK, ArcCovered
  <2>1. CASE UNCHANGED orderVars
    BY <2>0, <2>1 DEF orderVars, seqVars
  <2>2. CASE OrderNext /\ HandedOut = {} /\ curr_seq' = curr_seq
    <3>1. since'[t] = since[t] \cup UNION {Passed(curr_seq, s) \cup {s} : s \in {}}
      BY <2>2 DEF OrderNext
    <3> QED BY <2>0, <2>2, <3>1
  <2>3. ASSUME OrderNext, NEW s \in Slot, HandedOut = {s}, curr_seq' = Succ(s)
        PROVE  Passed(Succ(t), curr_seq') \subseteq since'[t]
    <3>1. CASE t = s
      BY <2>3, <3>1, <2>0, ArcEmpty
    <3>2. CASE t # s
      <4>1. since'[t] = since[t] \cup Passed(curr_seq, s) \cup {s}
        BY <2>3, <3>2 DEF OrderNext
      <4>2. Succ(s) \in Slot
        BY SuccSlot
      <4>3. Passed(Succ(t), Succ(s))
              \subseteq Passed(Succ(t), curr_seq) \cup Passed(curr_seq, Succ(s))
        BY <2>0, <4>2, ArcVia
      <4>4. Passed(curr_seq, Succ(s)) \subseteq Passed(curr_seq, s) \cup {s}
        BY <2>0, ArcStep
      <4> QED BY <2>0, <2>3, <4>1, <4>3, <4>4
    <3> QED BY <3>1, <3>2
  <2>4. OrderNext => TableNext
    BY DEF OrderNext
  <2>5. SeqTypeOK
    BY DEF OrderTypeOK
  <2> QED BY <2>1, <2>2, <2>3, <2>4, <2>5, HandsOutFirstFree
<1> QED BY <1>1, <1>2, OrderTypeCorrect, PTL DEF OrderSpec

\* seq_get_new hands out a number again only after it has handed out, or found
\* busy, every other number.
THEOREM ReuseDistanceHolds == OrderSpec => []ReuseDistance
<1>1. OrderTypeOK /\ ArcCovered => ReuseDistance
  <2> SUFFICES ASSUME OrderTypeOK, ArcCovered, NEW s \in Slot
               PROVE  Slot \ {s} \subseteq since[s] \cup Passed(curr_seq, s)
    BY DEF ReuseDistance
  <2>1. curr_seq \in Slot /\ Succ(s) \in Slot
    BY SuccSlot DEF OrderTypeOK, SeqTypeOK
  <2>2. Passed(Succ(s), s) \subseteq Passed(Succ(s), curr_seq) \cup Passed(curr_seq, s)
    BY <2>1, ArcVia
  <2>3. Passed(Succ(s), curr_seq) \subseteq since[s]
    BY DEF ArcCovered
  <2> QED BY <2>2, <2>3, ArcRound
<1> QED BY <1>1, OrderTypeCorrect, ArcAlwaysCovered, PTL
=============================================================================
