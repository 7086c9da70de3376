----------------------------- MODULE Generation -----------------------------
(***************************************************************************)
(* POST /generate: requests that look a connection up, take one of the few *)
(* permits to use the model, sample candidate queries, run them on the     *)
(* customer's database and answer with the result most of them agree on.   *)
(*                                                                         *)
(* The route is a coroutine.  Between two awaits it runs on the event loop *)
(* without interleaving, which is one action here; what it awaits runs in  *)
(* a thread of the pool.  A query's result is its row signature: which     *)
(* results count as equal is all the vote tells apart.  The connection     *)
(* lookup is ConnectionService's; here it works, is refused, or raises.    *)
(***************************************************************************)
EXTENDS Naturals, FiniteSets, Sequences

CONSTANTS
  Requests,
  Rows,           \* row signatures of results
  MaxCandidates,  \* the largest n a request may ask for
  MaxConcurrent,  \* permits of generation_semaphore
  PoolSize        \* threads of the pool

ASSUME GenerationAssumption ==
  /\ IsFiniteSet(Requests)
  /\ MaxCandidates \in Nat \ {0} /\ MaxConcurrent \in Nat \ {0} /\ PoolSize \in Nat \ {0}
  /\ Rows \cap {"db_unavailable", "failed"} = {}

VARIABLES
  loaded,    \* FALSE when the server was started with SKIP_MODEL_LOAD
  pc,        \* what each request does, or its answer
  n,         \* the candidates each request asks for
  attempts,  \* the outcome of each candidate so far
  winner,    \* the candidate that was elected, or 0
  permits,   \* of the semaphore
  log        \* per request, the error tags of the calls of log_request

vars == <<loaded, pc, n, attempts, winner, permits, log>>

\* A candidate that was executed counts with its result.  "failed" stands for
\* unreasonable_query, invalid_sql, timeout and query_error.
Outcomes == Rows \cup {"db_unavailable", "failed"}

\* A request holds a permit from its admission until its answer.
Holding == {"generate_queued", "sample", "done", "raised"}

Answers == {"ok", "generation_failed", "db_unavailable", "gpu_busy", "unexpected_error",
            "connection_error", "error"}

InThread == {r \in Requests : pc[r] \in {"lookup", "sample"}}

Goto(r, step) == pc' = [pc EXCEPT ![r] = step]

Logged(r, tag) == log' = [log EXCEPT ![r] = Append(@, tag)]

\* log_request raises nothing, so a call counts as a line.
Answer(r, answer) == Goto(r, answer) /\ Logged(r, answer)

-----------------------------------------------------------------------------
(* generate_candidates and voting_candidates *)

Executed(a) == {i \in DOMAIN a : a[i] \in Rows}

Votes(a, row) == Cardinality({i \in DOMAIN a : a[i] = row})

\* Counter.most_common(1): of the signatures with the most votes, the one that
\* was counted first.
Foremost(a, i) ==
  \A j \in Executed(a) :
    /\ Votes(a, a[j]) <= Votes(a, a[i])
    /\ Votes(a, a[j]) = Votes(a, a[i]) => i <= j

MostCommon(a) == a[CHOOSE i \in Executed(a) : Foremost(a, i)]

\* Mutant: the first candidate that was executed.
Mutant_ElectFirst(a) ==
  IF Executed(a) = {} THEN 0
  ELSE CHOOSE i \in Executed(a) : \A j \in Executed(a) : i <= j

\* The first candidate with that signature; 0 when none was executed.
Elect(a) ==
  IF Executed(a) = {} THEN 0
  ELSE CHOOSE i \in Executed(a) :
         a[i] = MostCommon(a) /\ \A j \in Executed(a) : a[j] = MostCommon(a) => i <= j

\* When nothing was executed: was the database the reason every time?
Failure(a) ==
  IF \A i \in DOMAIN a : a[i] = "db_unavailable" THEN "db_unavailable" ELSE "generation_failed"

-----------------------------------------------------------------------------
Init ==
  /\ loaded \in BOOLEAN
  /\ pc = [r \in Requests |-> "idle"]
  /\ n = [r \in Requests |-> 1]
  /\ attempts = [r \in Requests |-> <<>>]
  /\ winner = [r \in Requests |-> 0]
  /\ permits = MaxConcurrent
  /\ log = [r \in Requests |-> <<>>]

Begin(r) ==
  /\ pc[r] = "idle"
  /\ Goto(r, "lookup_queued")
  /\ n' \in {[n EXCEPT ![r] = k] : k \in 1..MaxCandidates}
  /\ UNCHANGED <<loaded, attempts, winner, permits, log>>

\* run_in_threadpool: a thread of the pool takes the call up.
TakeThread(r) ==
  /\ Cardinality(InThread) < PoolSize
  /\ \/ pc[r] = "lookup_queued" /\ Goto(r, "lookup")
     \/ pc[r] = "generate_queued" /\ Goto(r, "sample")
  /\ UNCHANGED <<loaded, n, attempts, winner, permits, log>>

\* get_connection_entry; an exception that is no refusal passes through, a 500.
Lookup(r) ==
  /\ pc[r] = "lookup"
  /\ \/ Goto(r, "resume") /\ UNCHANGED log
     \/ Answer(r, "connection_error")
     \/ Goto(r, "error") /\ UNCHANGED log
  /\ UNCHANGED <<loaded, n, attempts, winner, permits>>

\* Mutant: the semaphore was looked at before the lookup, not now.
Mutant_AdmitLate(r) ==
  /\ pc[r] = "resume"
  /\ IF ~loaded
     THEN Goto(r, "error") /\ UNCHANGED <<permits, log>>
     ELSE Goto(r, "generate_queued") /\ permits' = permits - 1 /\ UNCHANGED log
  /\ UNCHANGED <<loaded, n, attempts, winner>>

\* From the lookup's return to the next await the event loop does not switch:
\* get_model_and_tokenizer, which raises when no model is loaded, the look at
\* the semaphore, and its acquisition, which does not wait.
Admit(r) ==
  /\ pc[r] = "resume"
  /\ IF ~loaded
     THEN Goto(r, "error") /\ UNCHANGED <<permits, log>>
     ELSE IF permits = 0
     THEN Answer(r, "gpu_busy") /\ UNCHANGED permits
     ELSE Goto(r, "generate_queued") /\ permits' = permits - 1 /\ UNCHANGED log
  /\ UNCHANGED <<loaded, n, attempts, winner>>

\* One candidate: the model's query, the checks on it and its execution.  The
\* model may raise, and guard_readonly does for a query it refuses: that ends
\* the request.
Sample(r) ==
  /\ pc[r] = "sample"
  /\ Len(attempts[r]) < n[r]
  /\ \/ /\ \E o \in Outcomes : attempts' = [attempts EXCEPT ![r] = Append(@, o)]
        /\ UNCHANGED pc
     \/ Goto(r, "raised") /\ UNCHANGED attempts
  /\ UNCHANGED <<loaded, n, winner, permits, log>>

\* Mutant: when there is nothing to vote on, the candidates are sampled anew.
Mutant_ConcludeRetries(r) ==
  /\ pc[r] = "sample"
  /\ Len(attempts[r]) = n[r]
  /\ IF Elect(attempts[r]) = 0
     THEN attempts' = [attempts EXCEPT ![r] = <<>>] /\ UNCHANGED <<pc, winner>>
     ELSE /\ Goto(r, "done")
          /\ winner' = [winner EXCEPT ![r] = Elect(attempts[r])]
          /\ UNCHANGED attempts
  /\ UNCHANGED <<loaded, n, permits, log>>

\* The vote; when there is nothing to vote on, a greedy query is generated,
\* which may raise, and is answered without being executed.
Conclude(r) ==
  /\ pc[r] = "sample"
  /\ Len(attempts[r]) = n[r]
  /\ \/ Goto(r, "done") /\ winner' = [winner EXCEPT ![r] = Elect(attempts[r])]
     \/ Elect(attempts[r]) = 0 /\ Goto(r, "raised") /\ UNCHANGED winner
  /\ UNCHANGED <<loaded, n, attempts, permits, log>>

\* Mutant: the log of a failure is followed by the log of success.
Mutant_RespondFallsThrough(r) ==
  /\ pc[r] = "done"
  /\ IF winner[r] # 0
     THEN Answer(r, "ok")
     ELSE /\ Goto(r, Failure(attempts[r]))
          /\ log' = [log EXCEPT ![r] = @ \o <<Failure(attempts[r]), "ok">>]
  /\ permits' = permits + 1
  /\ UNCHANGED <<loaded, n, attempts, winner>>

\* Back on the event loop: the answer, its log and the release of the permit.
Respond(r) ==
  /\ pc[r] = "done"
  /\ Answer(r, IF winner[r] # 0 THEN "ok" ELSE Failure(attempts[r]))
  /\ permits' = permits + 1
  /\ UNCHANGED <<loaded, n, attempts, winner>>

\* Mutant: the permit is not released when the generation raised.
Mutant_RespondErrorKeepsPermit(r) ==
  /\ pc[r] = "raised"
  /\ Answer(r, "unexpected_error")
  /\ UNCHANGED <<loaded, n, attempts, winner, permits>>

\* The generation raised: logged, answered with a 500, and the permit released.
RespondError(r) ==
  /\ pc[r] = "raised"
  /\ Answer(r, "unexpected_error")
  /\ permits' = permits + 1
  /\ UNCHANGED <<loaded, n, attempts, winner>>

Step(r) ==
  \/ TakeThread(r)
  \/ Lookup(r)
  \/ Admit(r)
  \/ Sample(r)
  \/ Conclude(r)
  \/ Respond(r)
  \/ RespondError(r)

Next == \E r \in Requests : Begin(r) \/ Step(r)

Spec == Init /\ [][Next]_vars

\* Threads and the event loop are scheduled, the pool serves its queue in order,
\* and every query ends, for the engine sets a statement_timeout: execute_live
\* waits for the query also when its own timeout has passed.
FairSpec == Spec /\ \A r \in Requests : SF_vars(TakeThread(r)) /\ WF_vars(Step(r))

-----------------------------------------------------------------------------
(* Properties *)

\* Every variable has its type; the semaphore is not acquired below zero.
GenerationTypeOK ==
  /\ loaded \in BOOLEAN
  /\ pc \in [Requests -> {"idle", "lookup_queued", "lookup", "resume"} \cup Holding \cup Answers]
  /\ n \in [Requests -> 1..MaxCandidates]
  /\ attempts \in [Requests -> Seq(Outcomes)]
  /\ winner \in [Requests -> 0..MaxCandidates]
  /\ permits \in 0..MaxConcurrent
  /\ log \in [Requests -> Seq(Answers)]

\* On every path, also those an exception takes, a permit that was acquired is
\* released once: the server does not end up busy with nobody at work.
PermitsAccounted ==
  permits + Cardinality({r \in Requests : pc[r] \in Holding}) = MaxConcurrent

(***************************************************************************)
(* What is answered is what the candidates say: the elected candidate was  *)
(* executed and no result has more votes than its own, there is a winner   *)
(* whenever a candidate was executed, and the database is blamed only when *)
(* every candidate met it unavailable.                                     *)
(***************************************************************************)
AnswerFitsCandidates ==
  \A r \in Requests :
    /\ pc[r] = "ok" => LET elected == attempts[r][winner[r]] IN
         /\ elected \in Rows
         /\ \A row \in Rows : Votes(attempts[r], row) <= Votes(attempts[r], elected)
    /\ pc[r] = "db_unavailable" =>
         attempts[r] = [i \in 1..n[r] |-> "db_unavailable"]
    /\ pc[r] = "generation_failed" => Votes(attempts[r], "failed") > 0 /\ Executed(attempts[r]) = {}

(***************************************************************************)
(* A request that the route answers is logged once, with that answer, and  *)
(* so is any that sampled a candidate, whatever ended it; a request that   *)
(* works is not logged.  "error", an exception that leaves the route       *)
(* before the generation, is answered with a 500 and not logged, against   *)
(* NOTES.md:551: of that the property says nothing (generate.py:32-96).    *)
(***************************************************************************)
LoggedOnce ==
  \A r \in Requests :
    /\ pc[r] \notin Answers => log[r] = <<>>
    /\ pc[r] \in Answers \ {"error"} => log[r] = <<pc[r]>>
    /\ pc[r] \in Answers /\ attempts[r] # <<>> => log[r] = <<pc[r]>>

\* Every request is answered: no permit, thread or candidate is waited for forever.
GenerationsAnswered ==
  \A r \in Requests : pc[r] = "lookup_queued" ~> pc[r] \in Answers
=============================================================================
