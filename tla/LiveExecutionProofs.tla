------------------------ MODULE LiveExecutionProofs ------------------------
(***************************************************************************)
(* Proofs about LiveExecution, for every number of calls and connections   *)
(* and all timeouts that LiveAssumption admits.                            *)
(***************************************************************************)
EXTENDS LiveExecution, FiniteSetTheorems, TLAPS

\* What the phases before a phase have cost at most.
Before(step) == CASE step = "pool" -> 0
                  [] step = "ping" -> PoolTimeout
                  [] step = "connect" -> PoolTimeout + StatementTimeout
                  [] OTHER -> PoolTimeout + StatementTimeout + ConnectTimeout

\* A call that runs has spent no more in its phase than the phase may last, no more before it
\* than the phases there may last, and has given up exactly if it is past its timeout.
TimeOf(c) ==
  /\ spent[c] <= Limit(phase[c]) /\ spent[c] <= clock[c]
  /\ clock[c] <= Before(phase[c]) + spent[c]
  /\ IF c \in gaveUp THEN clock[c] >= Timeout ELSE clock[c] <= Timeout

TimeInv == LiveTypeOK /\ gaveUp \subseteq Running /\ \A c \in Running : TimeOf(c)

LEMMA TimeInit == Init => TimeInv
BY DEF Init, TimeInv, LiveTypeOK, Running, CheckedOut

\* A call that enters another phase, the other calls and the clock being as they were.
LEMMA EnterKeeps ==
  ASSUME TimeInv, NEW c \in Calls, NEW step \in {"ping", "connect", "query"},
         phase[c] # "idle", Before(phase[c]) + Limit(phase[c]) <= Before(step),
         Enter(c, step), clock' = clock, gaveUp' = gaveUp, stale' = stale, idle' \in Nat, up' = up, reached' = reached
  PROVE  TimeInv'
<1> USE LiveAssumption
<1>1. LiveTypeOK' /\ Running' = Running
  BY DEF TimeInv, LiveTypeOK, Enter, Running, CheckedOut
<1>2. ASSUME NEW d \in Running PROVE TimeOf(d)'
  <2>1. CASE d = c
    <3>1. phase'[c] = step /\ spent'[c] = 0
      BY DEF Enter, TimeInv, LiveTypeOK
    <3>2. clock[c] <= Before(phase[c]) + Limit(phase[c])
      BY <1>2, <2>1 DEF TimeInv, TimeOf, LiveTypeOK, Limit, Before, Running
    <3> QED
      BY <1>2, <2>1, <3>1, <3>2 DEF TimeInv, TimeOf, LiveTypeOK, Limit, Before, Running
  <2>2. CASE d # c
    BY <1>2, <2>2 DEF TimeInv, TimeOf, LiveTypeOK, Enter, Running, Limit, Before
  <2> QED
    BY <2>1, <2>2
<1> QED
  BY <1>1, <1>2 DEF TimeInv

\* A call that ends.
LEMMA EndKeeps ==
  ASSUME TimeInv, NEW c \in Calls, NEW outcome \in {"ok", "query_error", "db_unavailable"},
         NEW left \in Nat, End(c, outcome, left)
  PROVE  TimeInv'
<1>1. Running' = Running \ {c}
  BY DEF TimeInv, LiveTypeOK, End, Running
<1>2. LiveTypeOK' /\ gaveUp' \subseteq Running'
  BY <1>1 DEF TimeInv, LiveTypeOK, End, AnswerOf, StaleWithout, Running, CheckedOut
<1>3. ASSUME NEW d \in Running' PROVE TimeOf(d)'
  BY <1>1 DEF TimeInv, TimeOf, LiveTypeOK, End, Running, Limit, Before
<1> QED
  BY <1>2, <1>3 DEF TimeInv

LEMMA TickKeeps == TimeInv /\ Tick => TimeInv'
<1> SUFFICES ASSUME TimeInv, Tick PROVE TimeInv'
  OBVIOUS
<1> USE LiveAssumption
<1>1. Running' = Running /\ LiveTypeOK'
  BY DEF TimeInv, LiveTypeOK, Tick, Running, CheckedOut
<1>2. ASSUME NEW d \in Running PROVE TimeOf(d)'
  <2>1. clock'[d] = clock[d] + 1 /\ spent'[d] = spent[d] + 1 /\ phase' = phase /\ gaveUp' = gaveUp
    BY DEF Tick, Running
  <2>2. spent[d] < Limit(phase[d]) /\ (clock[d] >= Timeout => d \in gaveUp)
    BY DEF Tick, MayPass
  <2> QED
    BY <2>1, <2>2 DEF TimeInv, TimeOf, LiveTypeOK, Running, Limit, Before
<1> QED
  BY <1>1, <1>2 DEF TimeInv, Tick

LEMMA TimeStep == TimeInv /\ [Next]_vars => TimeInv'
<1> SUFFICES ASSUME TimeInv, [Next]_vars PROVE TimeInv'
  OBVIOUS
<1> USE LiveAssumption
<1>1. ASSUME NEW c \in Calls, Submit(c) PROVE TimeInv'
  <2>1. Running' = Running \cup {c} /\ c \notin Running
    BY <1>1 DEF Submit, Enter, TimeInv, LiveTypeOK, Running
  <2>2. LiveTypeOK'
    BY <1>1, <2>1 DEF Submit, Enter, TimeInv, LiveTypeOK, Running
  <2>3. ASSUME NEW d \in Running' PROVE TimeOf(d)'
    BY <1>1, <2>1, <2>3 DEF Submit, Enter, TimeInv, TimeOf, LiveTypeOK, Running, Limit, Before
  <2> QED
    BY <1>1, <2>1, <2>2, <2>3 DEF TimeInv, Submit
<1>2. ASSUME NEW c \in Calls, CheckOut(c) PROVE TimeInv'
  BY <1>2, EnterKeeps DEF CheckOut, Limit, Before, TimeInv, LiveTypeOK
<1>3. ASSUME NEW c \in Calls, LeaveOldPool(c) \/ Ping(c) PROVE TimeInv'
  BY <1>3, EnterKeeps DEF LeaveOldPool, Ping, Invalidated, Limit, Before, TimeInv, LiveTypeOK
<1>4. ASSUME NEW c \in Calls, Connect(c) PROVE TimeInv'
  BY <1>4, EnterKeeps DEF Connect, Limit, Before, TimeInv, LiveTypeOK
<1>5. ASSUME NEW c \in Calls, GiveUp(c) PROVE TimeInv'
  BY <1>5 DEF GiveUp, TimeInv, TimeOf, LiveTypeOK, Running, CheckedOut, Limit, Before
<1>6. ASSUME NEW c \in Calls, PoolTimesOut(c) \/ ConnectFails(c) PROVE TimeInv'
  BY <1>6, EndKeeps DEF PoolTimesOut, ConnectFails, OperationalError, TimeInv, LiveTypeOK
<1>7. ASSUME NEW c \in Calls, NEW outcome \in {"ok", "query_error", OperationalError}, QueryEnds(c, outcome)
      PROVE  TimeInv'
  <2>1. Returned(c) \in Nat
    BY DEF Returned, TimeInv, LiveTypeOK
  <2> QED
    BY <1>7, <2>1, EndKeeps DEF QueryEnds, OperationalError
<1>8. ASSUME NEW c \in Calls, QueryCancelled(c) \/ QueryBreaks(c) PROVE TimeInv'
  <2>1. Returned(c) \in Nat /\ Invalidated(c) \in Nat
    BY DEF Returned, Invalidated, TimeInv, LiveTypeOK
  <2> QED
    BY <1>8, <2>1, EndKeeps DEF QueryCancelled, QueryBreaks, OperationalError
<1>9. CASE Dispose
  BY <1>9 DEF Dispose, TimeInv, TimeOf, LiveTypeOK, Running, CheckedOut, Limit, Before
<1>10. CASE Reach
  BY <1>10 DEF Reach, TimeInv, TimeOf, LiveTypeOK, Running, CheckedOut, Limit, Before
<1>11. CASE Tick
  BY <1>11, TickKeeps
<1>12. CASE UNCHANGED vars
  BY <1>12 DEF vars, TimeInv, TimeOf, LiveTypeOK, Running, CheckedOut, Limit, Before
<1> QED
  BY <1>1, <1>2, <1>3, <1>4, <1>5, <1>6, <1>7, <1>8, <1>9, <1>10, <1>11, <1>12 DEF Next, Served, Work

\* TimeInv is inductive: no call's clock runs ahead of its thread's phase.
THEOREM TimeInvariant == Spec => []TimeInv
<1>1. Init => TimeInv
  BY TimeInit
<1>2. TimeInv /\ [Next]_vars => TimeInv'
  BY TimeStep
<1> QED
  BY <1>1, <1>2, PTL DEF Spec

\* LiveTypeOK, for execute_live and the pool of the engine.
THEOREM LiveTypeCorrect == Spec => []LiveTypeOK
<1>1. TimeInv => LiveTypeOK
  BY DEF TimeInv
<1> QED
  BY <1>1, TimeInvariant, PTL

\* CallBounded: a call takes no longer than the waits of its thread together.
THEOREM CallBoundedHolds == Spec => []CallBounded
<1>1. TimeInv => CallBounded
  BY LiveAssumption DEF TimeInv, CallBounded, TimeOf, Before, Limit, Running, LiveTypeOK
<1> QED
  BY <1>1, TimeInvariant, PTL

\* TimeoutDecides: a call answers "timeout" exactly if it was past its timeout when its thread ended.
THEOREM TimeoutDecidesHolds == Spec => TimeoutDecides
<1>1. TimeInv /\ [Next]_vars
      => [\A c \in Calls : Ends(c) =>
            IF answer' = "timeout" THEN clock[c] >= Timeout ELSE clock[c] <= Timeout]_vars
  <2> SUFFICES ASSUME TimeInv, Next, NEW c \in Calls, Ends(c)
               PROVE  IF answer' = "timeout" THEN clock[c] >= Timeout ELSE clock[c] <= Timeout
    OBVIOUS
  <2>1. PICK outcome \in {"ok", "query_error", "db_unavailable"} : answer' = AnswerOf(c, outcome)
    <3>1. ~Dispose /\ ~Reach /\ ~Tick
      BY DEF Ends, Dispose, Reach, Tick
    <3>2. PICK d \in Calls : Submit(d) \/ Served(d) \/ Work(d)
      BY <3>1 DEF Next
    <3>3. \E outcome \in {"ok", "query_error", "db_unavailable"}, left \in {idle, Returned(d), Invalidated(d)} :
            End(d, outcome, left)
      <4>1. ~Submit(d) /\ ~CheckOut(d) /\ ~LeaveOldPool(d) /\ ~Ping(d) /\ ~GiveUp(d) /\ ~Connect(d)
        BY DEF Ends, Submit, CheckOut, LeaveOldPool, Ping, GiveUp, Connect, Enter, TimeInv, LiveTypeOK
      <4> QED
        BY <3>2, <4>1 DEF Served, Work, PoolTimesOut, ConnectFails, QueryEnds, QueryCancelled, QueryBreaks, OperationalError
    <3>4. d = c
      BY <3>3 DEF End, Ends, TimeInv, LiveTypeOK
    <3> QED
      BY <3>3, <3>4 DEF End
  <2>2. c \in Running
    BY DEF Ends, Running
  <2> QED
    BY <2>1, <2>2 DEF TimeInv, TimeOf, AnswerOf
<1> QED
  BY <1>1, TimeInvariant, PTL DEF Spec, TimeoutDecides

\* While the database can be reached, it was reachable during every call that runs; a call
\* during which it never was has not come to its statement.
OutageInv ==
  /\ up => Running \subseteq reached
  /\ \A c \in Running : phase[c] = "query" => c \in reached

LEMMA OutageStep == TimeInv /\ OutageInv /\ [Next]_vars => OutageInv'
<1> SUFFICES ASSUME TimeInv, OutageInv, [Next]_vars PROVE OutageInv'
  OBVIOUS
<1> USE DEF OutageInv, Running
<1>0. phase \in [Calls -> {"idle", "pool", "ping", "connect", "query"}]
  BY DEF TimeInv, LiveTypeOK
<1>1. ASSUME NEW c \in Calls, Submit(c) PROVE OutageInv'
  BY <1>0, <1>1 DEF Submit, Enter
<1>2. ASSUME NEW c \in Calls, CheckOut(c) \/ LeaveOldPool(c) PROVE OutageInv'
  BY <1>0, <1>2 DEF CheckOut, LeaveOldPool, Enter
<1>3. ASSUME NEW c \in Calls, Ping(c) \/ Connect(c) PROVE OutageInv'
  BY <1>0, <1>3 DEF Ping, Connect, Enter
<1>4. ASSUME NEW c \in Calls, GiveUp(c) PROVE OutageInv'
  BY <1>4 DEF GiveUp
<1>5. ASSUME NEW c \in Calls, NEW outcome, NEW left, End(c, outcome, left) PROVE OutageInv'
  BY <1>0, <1>5 DEF End
<1>6. ASSUME NEW c \in Calls, Served(c) \/ Work(c) PROVE OutageInv'
  BY <1>2, <1>3, <1>4, <1>5, <1>6
     DEF Served, Work, PoolTimesOut, ConnectFails, QueryEnds, QueryCancelled, QueryBreaks
<1>7. CASE Dispose \/ Tick
  BY <1>7 DEF Dispose, Tick
<1>8. CASE Reach
  BY <1>8 DEF Reach
<1>9. CASE UNCHANGED vars
  BY <1>9 DEF vars
<1> QED
  BY <1>1, <1>6, <1>7, <1>8, <1>9 DEF Next

\* OutageRecognised: a call during which the database was never reachable answers that it is
\* unavailable, or a timeout.
THEOREM OutageRecognisedHolds == Spec => OutageRecognised
<1>1. Init => OutageInv
  BY DEF Init, OutageInv, Running
<1>2. TimeInv /\ OutageInv /\ [Next]_vars
      => [\A c \in Calls :
            Ends(c) /\ c \notin reached => answer' \in {"db_unavailable", "timeout"}]_vars
  <2> SUFFICES ASSUME TimeInv, OutageInv, Next, NEW c \in Calls, Ends(c), c \notin reached
               PROVE  answer' \in {"db_unavailable", "timeout"}
    OBVIOUS
  <2>1. ~Dispose /\ ~Reach /\ ~Tick
    BY DEF Ends, Dispose, Reach, Tick
  <2>2. PICK d \in Calls : Submit(d) \/ Served(d) \/ Work(d)
    BY <2>1 DEF Next
  <2>3. d = c
    <3>1. \A e \in Calls \ {d} : phase'[e] = phase[e]
      BY <2>2 DEF Submit, Served, Work, CheckOut, LeaveOldPool, Ping, GiveUp, Connect, Enter, PoolTimesOut,
                  ConnectFails, QueryEnds, QueryCancelled, QueryBreaks, End, TimeInv, LiveTypeOK
    <3> QED
      BY <3>1 DEF Ends
  <2>4. c \in Running /\ phase[c] # "query"
    BY DEF Ends, Running, OutageInv
  <2>5. PoolTimesOut(c) \/ ConnectFails(c)
    <3>1. ~Submit(c) /\ ~CheckOut(c) /\ ~LeaveOldPool(c) /\ ~Ping(c) /\ ~GiveUp(c) /\ ~Connect(c)
      BY DEF Ends, Submit, CheckOut, LeaveOldPool, Ping, GiveUp, Connect, Enter, TimeInv, LiveTypeOK
    <3> QED
      BY <2>2, <2>3, <2>4, <3>1 DEF Served, Work, QueryEnds, QueryCancelled, QueryBreaks
  <2>6. CASE PoolTimesOut(c)
    <3>1. spent[c] <= clock[c] /\ spent[c] \in Nat /\ clock[c] \in Nat /\ spent[c] >= PoolTimeout
      BY <2>4, <2>6 DEF TimeInv, TimeOf, LiveTypeOK, PoolTimesOut
    <3>2. c \in gaveUp
      BY <2>4, <3>1, LiveAssumption DEF TimeInv, TimeOf
    <3> QED
      BY <2>6, <3>2 DEF PoolTimesOut, End, AnswerOf
  <2>7. CASE ConnectFails(c)
    BY <2>7 DEF ConnectFails, End, AnswerOf, OperationalError
  <2> QED
    BY <2>5, <2>6, <2>7
<1> QED
  BY <1>1, <1>2, OutageStep, TimeInvariant, PTL DEF Spec, OutageRecognised

-----------------------------------------------------------------------------
(* PoolBounded *)

\* A call that joins those that hold a slot, or leaves them.
LEMMA SlotCount ==
  ASSUME NEW slots \in SUBSET Calls, NEW c \in Calls
  PROVE  /\ Cardinality(slots) \in Nat
         /\ c \notin slots => Cardinality(slots \cup {c}) = Cardinality(slots) + 1
         /\ c \in slots => Cardinality(slots \ {c}) = Cardinality(slots) - 1
<1>1. IsFiniteSet(slots)
  BY LiveAssumption, FS_Subset
<1> QED
  BY <1>1, FS_AddElement, FS_RemoveElement, FS_CardinalityType

LEMMA PoolStep == TimeInv /\ PoolBounded /\ [Next]_vars => PoolBounded'
<1> SUFFICES ASSUME TimeInv, PoolBounded, [Next]_vars PROVE PoolBounded'
  OBVIOUS
<1> USE LiveAssumption
<1>1. /\ Taken \in SUBSET Calls /\ stale \subseteq Running /\ idle \in Nat
      /\ phase \in [Calls -> {"idle", "pool", "ping", "connect", "query"}]
  BY DEF TimeInv, LiveTypeOK, Taken, CheckedOut, Running
<1>2. Cardinality(Taken) + idle <= PoolSize /\ Cardinality(Taken) \in Nat
  <2>1. IsFiniteSet(Taken)
    BY <1>1, FS_Subset
  <2> QED
    BY <2>1, FS_CardinalityType DEF PoolBounded
<1>3. ASSUME NEW c \in Calls, CheckOut(c) PROVE PoolBounded'
  <2>1. c \notin Taken /\ Taken' = Taken \cup {c}
    BY <1>1, <1>3 DEF CheckOut, Enter, Taken, CheckedOut
  <2>2. Cardinality(Taken') = Cardinality(Taken) + 1
    BY <1>1, <2>1, SlotCount
  <2> QED
    BY <1>1, <1>2, <1>3, <2>2 DEF CheckOut, PoolBounded
<1>4. ASSUME NEW c \in Calls, LeaveOldPool(c) \/ Ping(c) \/ Connect(c) \/ Submit(c) \/ GiveUp(c) PROVE PoolBounded'
  <2>1. Taken' = Taken
    BY <1>1, <1>4 DEF LeaveOldPool, Ping, Connect, Submit, GiveUp, Enter, Taken, CheckedOut
  <2>2. idle' = idle \/ idle' = 0
    BY <1>4 DEF LeaveOldPool, Ping, Invalidated, Connect, Submit, GiveUp
  <2> QED
    BY <1>1, <1>2, <2>1, <2>2 DEF PoolBounded
<1>5. ASSUME NEW c \in Calls, NEW outcome, NEW left, End(c, outcome, left),
             left = idle \/ left = 0 \/ (left = Returned(c) /\ phase[c] = "query")
      PROVE  PoolBounded'
  <2>1. Taken' = Taken \ {c} /\ idle' = left
    BY <1>1, <1>5 DEF End, StaleWithout, Taken, CheckedOut
  <2>2. CASE c \in Taken
    <3>1. Cardinality(Taken') = Cardinality(Taken) - 1
      BY <1>1, <2>1, <2>2, SlotCount
    <3>2. left <= idle + 1 /\ left \in Nat
      BY <1>1, <1>5 DEF Returned
    <3> QED
      <4>1. Cardinality(Taken') + left <= PoolSize
        BY <1>1, <1>2, <3>1, <3>2
      <4> QED
        BY <2>1, <4>1 DEF PoolBounded
  <2>3. CASE c \notin Taken
    <3>1. Taken' = Taken
      BY <2>1, <2>3
    <3>2. left <= idle /\ left \in Nat
      BY <1>1, <1>5, <2>3 DEF Returned, Taken, CheckedOut
    <3>3. Cardinality(Taken) + left <= PoolSize
      BY <1>1, <1>2, <3>2
    <3> QED
      BY <2>1, <3>1, <3>3 DEF PoolBounded
  <2> QED
    BY <2>2, <2>3
<1>6. ASSUME NEW c \in Calls, Served(c) \/ Work(c) PROVE PoolBounded'
  <2>1. CASE \E outcome \in {"ok", "query_error", OperationalError} : QueryEnds(c, outcome)
    BY <1>5, <2>1 DEF QueryEnds
  <2>2. CASE PoolTimesOut(c) \/ ConnectFails(c)
    BY <1>5, <2>2 DEF PoolTimesOut, ConnectFails
  <2>3. CASE QueryCancelled(c)
    BY <1>5, <2>3 DEF QueryCancelled
  <2>4. CASE QueryBreaks(c)
    <3>1. CASE c \in stale
      BY <1>5, <2>4, <3>1 DEF QueryBreaks, Invalidated
    <3>2. CASE c \notin stale
      BY <1>5, <2>4, <3>2 DEF QueryBreaks, Invalidated
    <3> QED
      BY <3>1, <3>2
  <2> QED
    BY <1>3, <1>4, <1>6, <2>1, <2>2, <2>3, <2>4 DEF Served, Work
<1>7. CASE Dispose
  <2>1. Taken' = {} /\ idle' = 0
    BY <1>7 DEF Dispose, Taken, CheckedOut
  <2> QED
    BY <2>1, FS_EmptySet DEF PoolBounded
<1>8. CASE Reach \/ Tick \/ UNCHANGED vars
  <2>1. Taken' = Taken /\ idle' = idle
    BY <1>8 DEF Reach, Tick, vars, Taken, CheckedOut
  <2> QED
    BY <1>2, <2>1 DEF PoolBounded
<1> QED
  BY <1>4, <1>6, <1>7, <1>8 DEF Next

\* PoolBounded: the pool never has more connections than pool_size.
THEOREM PoolBoundedHolds == Spec => []PoolBounded
<1>1. Init => PoolBounded
  <2>1. Init => Taken = {} /\ idle = 0
    BY DEF Init, Taken, CheckedOut
  <2> QED
    BY <2>1, LiveAssumption, FS_EmptySet DEF PoolBounded
<1>2. TimeInv /\ PoolBounded /\ [Next]_vars => PoolBounded'
  BY PoolStep
<1> QED
  BY <1>1, <1>2, TimeInvariant, PTL DEF Spec
=============================================================================
