--------------------------- MODULE LiveExecution ---------------------------
(***************************************************************************)
(* execute_live (src/app/db/runner.py) on a customer's engine              *)
(* (build_customer_engine): calls of several generations share the pool of *)
(* one engine.  A call submits its query to a thread of its own and waits  *)
(* for it at most Timeout; then it leaves the executor, which waits for    *)
(* the thread in any case.  The thread takes a connection from the pool,   *)
(* which is pinged or opened first, and runs the statement, which the      *)
(* server cancels after StatementTimeout.  SQLAlchemy's pool and the       *)
(* customer's database are modelled from how the code uses them.  Calls    *)
(* run at the same time only when MAX_CONCURRENT_GENERATIONS, 1 by         *)
(* default (src/app/core/config.py), is set higher.                        *)
(*                                                                         *)
(* Time passes in ticks of five seconds, the unit of all the timeouts.     *)
(***************************************************************************)
EXTENDS Naturals, FiniteSets

CONSTANTS
  Calls,            \* callers of execute_live, one call at a time each
  PoolSize,         \* pool_size, 2 in the program; max_overflow is 0
  Timeout,          \* timeout_seconds, 1 tick
  PoolTimeout,      \* pool_timeout, 2 ticks
  ConnectTimeout,   \* connect_timeout_s, 1 tick
  StatementTimeout  \* statement_timeout_ms, 1 tick

ASSUME LiveAssumption ==
  /\ IsFiniteSet(Calls)
  /\ PoolSize \in Nat \ {0} /\ Timeout \in Nat \ {0} /\ PoolTimeout \in Nat
  /\ ConnectTimeout \in Nat /\ StatementTimeout \in Nat
  /\ Timeout <= ConnectTimeout /\ Timeout <= StatementTimeout /\ Timeout < PoolTimeout

VARIABLES
  phase,  \* what the thread of a call does: "idle", "pool", "ping", "connect" or "query"
  clock,  \* ticks since the call submitted its query
  spent,  \* ticks its thread is in its phase
  gaveUp, \* calls whose future.result() has timed out
  answer, \* what a call answered in the step just taken, if one ended
  stale,  \* calls whose connection, or place in the queue, is of a pool that was disposed
  idle,   \* connections checked in to the current pool
  up,     \* the customer's database can be reached
  reached \* history: calls during which it could be reached at some moment

vars == <<phase, clock, spent, gaveUp, answer, stale, idle, up, reached>>

Running == {c \in Calls : phase[c] # "idle"}

\* A call past the pool's queue has checked a connection out.
CheckedOut == {c \in Calls : phase[c] \in {"ping", "connect", "query"}}

\* Slots taken in the current pool.
Taken == CheckedOut \ stale

Enter(c, step) ==
  /\ phase' = [phase EXCEPT ![c] = step] /\ spent' = [spent EXCEPT ![c] = 0] /\ answer' = "none"

\* The call submits a query that guard_readonly let through.
Submit(c) ==
  /\ phase[c] = "idle"
  /\ Enter(c, "pool")
  /\ clock' = [clock EXCEPT ![c] = 0]
  /\ reached' = IF up THEN reached \cup {c} ELSE reached \ {c}
  /\ UNCHANGED <<gaveUp, stale, idle, up>>

\* pool_pre_ping: a connection that was checked in is pinged before it is used.
CheckOut(c) ==
  /\ phase[c] = "pool" /\ c \notin stale /\ Cardinality(Taken) < PoolSize
  /\ IF idle > 0 THEN Enter(c, "ping") /\ idle' = idle - 1
                 ELSE Enter(c, "connect") /\ idle' = idle
  /\ UNCHANGED <<clock, gaveUp, stale, up, reached>>

\* Who queues at a pool that was disposed stays there until a connection comes back to it,
\* or his time is up and the pool, whose count was reset, lets him open one.
LeaveOldPool(c) ==
  /\ phase[c] = "pool" /\ c \in stale
  /\ Enter(c, "ping") \/ (spent[c] >= PoolTimeout /\ Enter(c, "connect"))
  /\ UNCHANGED <<clock, gaveUp, stale, idle, up, reached>>

\* A broken connection is invalidated, and with it those the pool holds.
Invalidated(c) == IF c \in stale THEN idle ELSE 0

\* A connection that does not answer the ping is replaced: the database is gone, or it closed
\* the connection while that was idle.
Ping(c) ==
  /\ phase[c] = "ping"
  /\ \/ up /\ Enter(c, "query") /\ UNCHANGED idle
     \/ Enter(c, "connect") /\ idle' = Invalidated(c)
  /\ UNCHANGED <<clock, gaveUp, stale, up, reached>>

Connect(c) ==
  /\ phase[c] = "connect" /\ up
  /\ Enter(c, "query")
  /\ UNCHANGED <<clock, gaveUp, stale, idle, up, reached>>

\* future.result() stops waiting.  The thread does not.
GiveUp(c) ==
  /\ phase[c] # "idle" /\ c \notin gaveUp /\ clock[c] >= Timeout
  /\ gaveUp' = gaveUp \cup {c}
  /\ answer' = "none"
  /\ UNCHANGED <<phase, clock, spent, stale, idle, up, reached>>

\* Mutant: a connection goes back to the pool of the engine, disposed meanwhile or not.
Mutant_Returned(c) == idle + 1

\* A connection of a disposed pool is closed when it comes back.
Returned(c) == IF c \in stale THEN idle ELSE idle + 1

\* Mutant: the result of the thread is answered also after the timeout.
Mutant_AnswerOf(c, outcome) == outcome

AnswerOf(c, outcome) == IF c \in gaveUp THEN "timeout" ELSE outcome

\* Mutant: what a call leaves behind is not cleared.
Mutant_StaleWithout(c) == stale

StaleWithout(c) == stale \ {c}

\* The thread ends and with it the call: it answers what future.result() gave.
End(c, outcome, left) ==
  /\ phase' = [phase EXCEPT ![c] = "idle"]
  /\ answer' = AnswerOf(c, outcome)
  /\ clock' = [clock EXCEPT ![c] = 0] /\ spent' = [spent EXCEPT ![c] = 0]
  /\ gaveUp' = gaveUp \ {c} /\ stale' = StaleWithout(c) /\ idle' = left
  /\ UNCHANGED <<up, reached>>

\* No slot is free in the pool the call queues at; of a disposed one that is left open.
NoSlot(c) == c \in stale \/ Cardinality(Taken) >= PoolSize

\* The pool's TimeoutError is no OperationalError.
PoolTimesOut(c) ==
  /\ phase[c] = "pool" /\ spent[c] >= PoolTimeout /\ NoSlot(c)
  /\ End(c, "query_error", idle)

\* Mutant: the generic handler comes first.
Mutant_OperationalError == "query_error"

\* What execute_live makes of an OperationalError, whatever it was raised for.
OperationalError == "db_unavailable"

\* The connection is refused, by a database that is down or by one that takes no more.
ConnectFails(c) ==
  /\ phase[c] = "connect"
  /\ End(c, OperationalError, idle)

\* A statement that fails is a query_error, but for what the driver counts as operational:
\* a deadlock or a lock timeout, want of memory or disk, a cancellation by the administrator.
QueryEnds(c, outcome) ==
  /\ phase[c] = "query" /\ up /\ outcome \in {"ok", "query_error", OperationalError}
  /\ End(c, outcome, Returned(c))

\* Mutant: the engine is built without a statement_timeout.
Mutant_OverdueNever(c) == FALSE

Overdue(c) == spent[c] >= StatementTimeout

\* QueryCanceled is an OperationalError.
QueryCancelled(c) ==
  /\ phase[c] = "query" /\ up /\ Overdue(c)
  /\ End(c, OperationalError, Returned(c))

\* The connection breaks under the statement.
QueryBreaks(c) ==
  /\ phase[c] = "query"
  /\ End(c, OperationalError, Invalidated(c))

-----------------------------------------------------------------------------
(* The environment *)

\* The cache disposes the engine: its pool closes what it holds, and a new pool takes
\* its place; a connection in use stays open, and calls that queue keep their place with the
\* old pool.  The cache disposes an engine once; here it happens any number of times.
Dispose ==
  /\ idle > 0 \/ Taken # {}
  /\ \E queued \in SUBSET (Running \ CheckedOut) : stale' = stale \cup CheckedOut \cup queued
  /\ idle' = 0
  /\ answer' = "none"
  /\ UNCHANGED <<phase, clock, spent, gaveUp, up, reached>>

Reach ==
  /\ up' = ~up
  /\ reached' = IF up' THEN reached \cup Running ELSE reached
  /\ answer' = "none"
  /\ UNCHANGED <<phase, clock, spent, gaveUp, stale, idle>>

\* Mutant: the statement is given the time that the connection was given, too.
Mutant_Limit(step) == IF step = "pool" THEN PoolTimeout ELSE ConnectTimeout + StatementTimeout

\* How long a phase lasts at most.
Limit(step) == CASE step = "pool" -> PoolTimeout
                 [] step = "connect" -> ConnectTimeout
                 [] OTHER -> StatementTimeout

\* Nobody sleeps past a timeout of his own, nor waits for a slot that is free.
MayPass(c) ==
  /\ spent[c] < Limit(phase[c])
  /\ clock[c] >= Timeout => c \in gaveUp
  /\ phase[c] = "pool" => NoSlot(c)

Tick ==
  /\ Running # {} /\ \A c \in Running : MayPass(c)
  /\ clock' = [c \in Calls |-> IF c \in Running THEN clock[c] + 1 ELSE clock[c]]
  /\ spent' = [c \in Calls |-> IF c \in Running THEN spent[c] + 1 ELSE spent[c]]
  /\ answer' = "none"
  /\ UNCHANGED <<phase, gaveUp, stale, idle, up, reached>>

Init ==
  /\ phase = [c \in Calls |-> "idle"] /\ answer = "none"
  /\ clock = [c \in Calls |-> 0] /\ spent = [c \in Calls |-> 0]
  /\ gaveUp = {} /\ stale = {} /\ idle = 0 /\ up = TRUE /\ reached = {}

\* What the customer's database may do, or not.
Served(c) ==
  \/ Connect(c) \/ ConnectFails(c) \/ QueryBreaks(c)
  \/ \E outcome \in {"ok", "query_error", OperationalError} : QueryEnds(c, outcome)

\* What happens in any case: a connection that cannot be made fails at the latest after
\* ConnectTimeout, and one to a database that is gone breaks.
Work(c) ==
  \/ CheckOut(c) \/ LeaveOldPool(c) \/ Ping(c) \/ GiveUp(c)
  \/ PoolTimesOut(c) \/ QueryCancelled(c)
  \/ (~up \/ spent[c] >= ConnectTimeout) /\ ConnectFails(c)
  \/ ~up /\ QueryBreaks(c)

Next == Dispose \/ Reach \/ Tick \/ \E c \in Calls : Submit(c) \/ Served(c) \/ Work(c)

Spec == Init /\ [][Next]_vars

\* Threads are scheduled, timeouts take effect, and time does not stand still, however busy
\* the others are.  That a connection is accepted or a statement ends is not assumed.
FairSpec == Spec /\ SF_vars(Tick) /\ \A c \in Calls : WF_vars(Work(c))

-----------------------------------------------------------------------------
(* Properties *)

LiveTypeOK ==
  /\ phase \in [Calls -> {"idle", "pool", "ping", "connect", "query"}]
  /\ clock \in [Calls -> Nat] /\ spent \in [Calls -> Nat]
  /\ gaveUp \subseteq Calls /\ stale \subseteq Running
  /\ answer \in {"none", "ok", "timeout", "query_error", "db_unavailable"}
  /\ idle \in Nat /\ up \in BOOLEAN /\ reached \subseteq Calls

\* The pool never has more connections than pool_size, whatever is disposed, broken or
\* invalidated while calls hold connections (connection.py:67-68).
PoolBounded == Cardinality(Taken) + idle <= PoolSize

\* What bounds a call is the sum of the waits of its thread, not timeout_seconds (runner.py:32-37).
CallBounded ==
  \A c \in Running : clock[c] <= PoolTimeout + StatementTimeout + ConnectTimeout + StatementTimeout

Ends(c) == phase[c] # "idle" /\ phase'[c] = "idle"

\* A call whose timeout passed before its thread ended answers "timeout", even when the
\* query worked after all; any other answer is of a call that took no longer (runner.py:35-37).
TimeoutDecides ==
  [][\A c \in Calls : Ends(c) =>
       IF answer' = "timeout" THEN clock[c] >= Timeout ELSE clock[c] <= Timeout]_vars

(***************************************************************************)
(* An outage is recognised: a call during which the database could not be  *)
(* reached at any moment says so, or that its time was up.  It is never a  *)
(* query_error, which is to blame the query, although the calls queue for  *)
(* the pool and its own TimeoutError is one: the pool's timeout is longer  *)
(* than the call's (runner.py:35-41, connection.py:69).  Nothing is said   *)
(* of the converse: see OperationalError.                                  *)
(***************************************************************************)
OutageRecognised ==
  [][\A c \in Calls :
       Ends(c) /\ c \notin reached => answer' \in {"db_unavailable", "timeout"}]_vars

\* Every call ends: no wait of its thread is for good.
EveryCallReturns == \A c \in Calls : []<>(phase[c] = "idle")

\* "the thread timeout stops the app from waiting" (NOTES.md:245): it does not.
TimeoutStopsTheWait == \A c \in Running : clock[c] <= Timeout
=============================================================================
