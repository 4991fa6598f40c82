-------------------------- MODULE IpcServiceProofs --------------------------
(***************************************************************************)
(* Proofs about IpcService, for every limit, every retry count and any      *)
(* finite number of clients.                                                *)
(***************************************************************************)
EXTENDS IpcService, FiniteSetTheorems, TLAPS

\* The retry counters are used up only when svc_thread ends.
RetriesLeft ==
  spc # "exit" => cli_retries >= 1 /\ acc_retries >= 2

\* num_active never passes the limit: get_client tests it and adds one under
\* the same mutex.
ActiveBounded == num_active <= active_limit

IpcInv ==
  IpcTypeOK /\ PlacesConserved /\ ActiveBounded /\ NoMissedSignal /\ RetriesLeft

LEMMA LiveFinite ==
  IsFiniteSet(Live) /\ Cardinality(Live) \in Nat
<1>1. IsFiniteSet(Live)
  BY IpcAssumption, FS_Subset DEF Live
<1> QED BY <1>1, FS_CardinalityType

\* A connection that becomes live is one more, one that ends is one less.
LEMMA LiveMoves ==
  ASSUME IpcTypeOK, NEW c \in Client, NEW from, NEW to, Move(c, from, to)
  PROVE  LET alive == {"accepted", "serving", "closing"} IN
         /\ from \in alive <=> to \in alive => Cardinality(Live)' = Cardinality(Live)
         /\ from \notin alive /\ to \in alive
              => Cardinality(Live)' = Cardinality(Live) + 1
         /\ from \in alive /\ to \notin alive
              => Cardinality(Live)' = Cardinality(Live) - 1 /\ Cardinality(Live)' \in Nat
<1> DEFINE alive == {"accepted", "serving", "closing"}
<1>1. /\ cst \in [Client -> ConnState] /\ cst[c] = from
      /\ cst' = [cst EXCEPT ![c] = to]
  BY DEF Move, IpcTypeOK
<1>2. Live' = {d \in Client : cst'[d] \in alive}
  BY DEF Live
<1>3. ASSUME from \in alive <=> to \in alive PROVE Live' = Live
  BY <1>1, <1>2, <1>3 DEF Live
<1>4. ASSUME from \notin alive, to \in alive
      PROVE  c \notin Live /\ Live' = Live \cup {c}
  BY <1>1, <1>2, <1>4 DEF Live
<1>5. ASSUME from \in alive, to \notin alive
      PROVE  c \in Live /\ Live' = Live \ {c}
  BY <1>1, <1>2, <1>5 DEF Live
<1>6. ASSUME from \notin alive, to \in alive
      PROVE  Cardinality(Live') = Cardinality(Live) + 1
  BY <1>4, <1>6, LiveFinite, FS_AddElement
<1>7. ASSUME from \in alive, to \notin alive
      PROVE  Cardinality(Live') = Cardinality(Live) - 1 /\ Cardinality(Live') \in Nat
  <2>1. IsFiniteSet(Live')
    BY <1>5, <1>7, LiveFinite, FS_RemoveElement
  <2> QED BY <1>5, <1>7, <2>1, LiveFinite, FS_RemoveElement, FS_CardinalityType
<1> QED BY <1>3, <1>6, <1>7

\* Every step keeps the invariant.
LEMMA IpcStep == ASSUME IpcInv, IpcNext PROVE IpcInv'
<1> USE DEF IpcInv
<1>0. /\ num_active \in Nat /\ cli_retries \in Nat /\ acc_retries \in Nat
      /\ active_limit \in Nat /\ active_limit >= 1
      /\ WAIT_CLIENT_RETRIES \in Nat /\ WAIT_CLIENT_RETRIES >= 1
      /\ ACCEPT_RECOVER_RETRIES \in Nat /\ ACCEPT_RECOVER_RETRIES >= 2
      /\ Cardinality(Live) \in Nat
      /\ faulty \in BOOLEAN /\ faulty' = faulty
  BY IpcAssumption, LiveFinite DEF IpcTypeOK, IpcNext
<1> USE DEF IpcTypeOK, PlacesConserved, ActiveBounded, NoMissedSignal,
            RetriesLeft, Reserved, SvcPc
<1>1. ASSUME cst' = cst PROVE Cardinality(Live)' = Cardinality(Live)
  BY <1>1 DEF Live
\* get_client takes a place, or does not, when it has seen a free one.
<1>12. ASSUME spc \in {"get_client", "timedwait"}, num_active < active_limit,
              Reserve, rc' \in BOOLEAN, signalled' \in BOOLEAN,
              cst' = cst, acc_retries' = acc_retries
       PROVE  IpcInv'
  <2>1. /\ spc' = "accept" /\ num_active' = num_active + 1
        /\ cli_retries' = WAIT_CLIENT_RETRIES
    BY <1>12 DEF Reserve
  <2>2. num_active = Cardinality(Live)
    BY <1>0, <1>12
  <2>3. PlacesConserved' /\ ActiveBounded'
    BY <1>0, <1>1, <1>12, <2>1, <2>2
  <2>4. IpcTypeOK'
    BY <1>0, <1>12, <2>1
  <2> QED BY <1>0, <1>12, <2>1, <2>3, <2>4
<1>13. ASSUME spc \in {"get_client", "timedwait"}, num_active < active_limit,
              ReturnNull, rc' \in BOOLEAN, signalled' \in BOOLEAN,
              cst' = cst, acc_retries' = acc_retries
       PROVE  IpcInv'
  BY <1>0, <1>1, <1>13 DEF ReturnNull
<1>2. CASE get_client_free
  <2>1. /\ spc = "get_client" /\ num_active < active_limit
        /\ cst' = cst /\ acc_retries' = acc_retries /\ signalled' \in BOOLEAN
        /\ rc' \in BOOLEAN /\ (Reserve \/ ReturnNull)
    BY <1>2 DEF get_client_free
  <2> QED BY <1>12, <1>13, <2>1
<1>3. CASE get_client_full
  BY <1>0, <1>1, <1>3 DEF get_client_full
<1>4. CASE wait_signalled \/ wait_spurious
  <2>1. /\ spc = "timedwait" /\ signalled' = FALSE /\ rc' = FALSE
        /\ cst' = cst /\ acc_retries' = acc_retries
        /\ \/ num_active < active_limit /\ (Reserve \/ ReturnNull)
           \/ /\ num_active >= active_limit
              /\ UNCHANGED <<spc, num_active, cli_retries>>
    BY <1>4 DEF wait_signalled, wait_spurious, WaitReturns
  <2>2. CASE num_active < active_limit /\ (Reserve \/ ReturnNull)
    BY <1>12, <1>13, <2>1, <2>2
  <2>3. CASE num_active >= active_limit /\ UNCHANGED <<spc, num_active, cli_retries>>
    BY <1>0, <1>1, <2>1, <2>3
  <2> QED BY <2>1, <2>2, <2>3
<1>5. CASE wait_timed_out \/ get_client_timed_out
  BY <1>0, <1>1, <1>5 DEF wait_timed_out, get_client_timed_out
<1>6. CASE no_client
  BY <1>0, <1>1, <1>6 DEF no_client
<1>7. CASE accept_fails
  BY <1>0, <1>1, <1>7 DEF accept_fails, GiveBack
<1>8. ASSUME NEW c \in Client, accept(c) PROVE IpcInv'
  <2>1. Move(c, "backlog", "accepted") /\ cst' \in [Client -> ConnState]
    BY <1>8 DEF accept, Move, ConnState
  <2>2. Cardinality(Live)' = Cardinality(Live) + 1
    BY <2>1, LiveMoves
  <2> QED BY <1>0, <1>8, <2>1, <2>2 DEF accept
<1>9. ASSUME NEW c \in Client, create(c) PROVE IpcInv'
  <2>1. cst' \in [Client -> ConnState]
    BY <1>9 DEF create, Move, ConnState
  <2>2. CASE Move(c, "accepted", "serving") /\ UNCHANGED <<num_active, signalled>>
    <3>1. Cardinality(Live)' = Cardinality(Live)
      BY <2>2, LiveMoves
    <3> QED BY <1>0, <1>9, <2>1, <2>2, <3>1 DEF create
  <2>3. CASE Move(c, "accepted", "off") /\ GiveBack
    <3>1. Cardinality(Live)' = Cardinality(Live) - 1 /\ Cardinality(Live)' \in Nat
      BY <2>3, LiveMoves
    <3> QED BY <1>0, <1>9, <2>1, <2>3, <3>1 DEF create, GiveBack
  <2> QED BY <1>9, <2>2, <2>3 DEF create
<1>10. ASSUME NEW c \in Client, Connect(c) \/ Reset(c) \/ handler_returns(c)
       PROVE  IpcInv'
  <2>1. cst' \in [Client -> ConnState]
    BY <1>10 DEF Connect, Reset, handler_returns, Move, ConnState
  <2>2. Cardinality(Live)' = Cardinality(Live)
    <3>1. \/ Move(c, "off", "backlog") \/ Move(c, "backlog", "off")
          \/ Move(c, "serving", "closing")
      BY <1>10 DEF Connect, Reset, handler_returns
    <3> QED BY <3>1, LiveMoves
  <2> QED BY <1>0, <1>10, <2>1, <2>2 DEF Connect, Reset, handler_returns
<1>11. ASSUME NEW c \in Client, cli_done(c) PROVE IpcInv'
  <2>1. Move(c, "closing", "off") /\ cst' \in [Client -> ConnState]
    BY <1>11 DEF cli_done, Move, ConnState
  <2>2. Cardinality(Live)' = Cardinality(Live) - 1 /\ Cardinality(Live)' \in Nat
    BY <2>1, LiveMoves
  <2>3. /\ num_active' = num_active - 1 /\ spc' = spc /\ rc' = rc
        /\ cli_retries' = cli_retries /\ acc_retries' = acc_retries
    BY <1>11 DEF cli_done, GiveBack
  <2>4. signalled' \in BOOLEAN /\ (spc' = "timedwait" => signalled')
    BY <1>11 DEF cli_done, GiveBack
  <2>5. num_active' \in Nat /\ PlacesConserved' /\ ActiveBounded'
    BY <1>0, <2>2, <2>3
  <2>6. IpcTypeOK' /\ NoMissedSignal' /\ RetriesLeft'
    BY <1>0, <2>1, <2>3, <2>4, <2>5
  <2> QED BY <2>5, <2>6
<1> QED BY <1>2, <1>3, <1>4, <1>5, <1>6, <1>7, <1>8, <1>9, <1>10, <1>11
        DEF IpcNext, SvcStep

\* The places, the limit and the wake-up of svc_thread, together.
LEMMA IpcInvariant == IpcSpec => []IpcInv
<1>1. IpcInit => IpcInv
  <2> SUFFICES ASSUME IpcInit PROVE IpcInv
    OBVIOUS
  <2>1. Live = {}
    BY DEF IpcInit, Live
  <2>2. Cardinality(Live) = 0
    BY <2>1, FS_EmptySet
  <2>3. /\ active_limit \in Nat
        /\ WAIT_CLIENT_RETRIES \in Nat /\ WAIT_CLIENT_RETRIES >= 1
        /\ ACCEPT_RECOVER_RETRIES \in Nat /\ ACCEPT_RECOVER_RETRIES >= 2
    BY IpcAssumption
  <2>4. IpcTypeOK
    <3>1. cst \in [Client -> ConnState]
      BY DEF IpcInit, ConnState
    <3>2. /\ cli_retries \in 0 .. WAIT_CLIENT_RETRIES
          /\ acc_retries \in 0 .. ACCEPT_RECOVER_RETRIES
      BY <2>3 DEF IpcInit
    <3>3. signalled \in BOOLEAN /\ rc \in BOOLEAN
      BY DEF IpcInit
    <3> QED BY <3>1, <3>2, <3>3 DEF IpcInit, IpcTypeOK, SvcPc
  <2>5. PlacesConserved /\ ActiveBounded /\ NoMissedSignal /\ RetriesLeft
    BY <2>2, <2>3 DEF IpcInit, PlacesConserved, Reserved, ActiveBounded,
                      NoMissedSignal, RetriesLeft
  <2> QED BY <2>4, <2>5 DEF IpcInv
<1>2. IpcInv /\ [IpcNext]_svcVars => IpcInv'
  <2> SUFFICES ASSUME IpcInv, [IpcNext]_svcVars PROVE IpcInv'
    OBVIOUS
  <2>1. CASE UNCHANGED svcVars
    BY <2>1 DEF svcVars, IpcInv, IpcTypeOK, PlacesConserved, Live, Reserved,
                ActiveBounded, NoMissedSignal, RetriesLeft
  <2> QED BY <2>1, IpcStep
<1> QED BY <1>1, <1>2, PTL DEF IpcSpec

\* Both retry counters of svc_thread stay in their ranges on every error path.
THEOREM IpcTypeCorrect == IpcSpec => []IpcTypeOK
<1>1. IpcInv => IpcTypeOK
  BY DEF IpcInv
<1> QED BY <1>1, IpcInvariant, PTL

\* num_active is exactly the number of places taken, on every path through
\* svc_thread, the handlers and their errors.
THEOREM PlacesAreConserved == IpcSpec => []PlacesConserved
<1>1. IpcInv => PlacesConserved
  BY DEF IpcInv
<1> QED BY <1>1, IpcInvariant, PTL

\* Never more handlers than the limit given to ipc_start_svc: with SEQ_NUM_MAX
\* as the limit this is the assumption HandlerAssumption of the table.
THEOREM LimitAlwaysHolds == IpcSpec => []LimitHolds
<1>1. IpcInv => LimitHolds
  BY DEF IpcInv, PlacesConserved, ActiveBounded, LimitHolds
<1> QED BY <1>1, IpcInvariant, PTL

\* svc_thread is never asleep next to a free place without a signal on the way.
THEOREM SignalsNotMissed == IpcSpec => []NoMissedSignal
<1>1. IpcInv => NoMissedSignal
  BY DEF IpcInv
<1> QED BY <1>1, IpcInvariant, PTL
=============================================================================
