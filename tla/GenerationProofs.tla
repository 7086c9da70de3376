-------------------------- MODULE GenerationProofs --------------------------
(***************************************************************************)
(* Proofs about Generation: permits are accounted for, requests are logged *)
(* once and answered with the result that has the most votes, for every    *)
(* number of requests, candidates, results, permits and threads.           *)
(***************************************************************************)
EXTENDS Generation, FiniteSetTheorems, WellFoundedInduction, TLAPS

Holders == {r \in Requests : pc[r] \in Holding}

\* The log, to the line: the answer of the route, and nothing before it or without one.
LoggedExactly ==
  \A r \in Requests : log[r] = IF pc[r] \in Answers \ {"error"} THEN <<pc[r]>> ELSE <<>>

\* The types that PermitsAccounted and LoggedExactly need, and the two.
GenInv ==
  /\ pc \in [Requests -> {"idle", "lookup_queued", "lookup", "resume"} \cup Holding \cup Answers]
  /\ log \in [Requests -> Seq(Answers)]
  /\ permits \in Nat
  /\ PermitsAccounted
  /\ LoggedExactly

\* A failure is one of two answers.
LEMMA FailureAnswers ==
  ASSUME NEW a
  PROVE  Failure(a) \in {"db_unavailable", "generation_failed"}
BY DEF Failure

LEMMA GenInit == Init => GenInv
<1> SUFFICES ASSUME Init PROVE GenInv
  OBVIOUS
<1>1. Holders = {}
  BY DEF Init, Holders, Holding
<1>2. permits + Cardinality(Holders) = MaxConcurrent /\ permits \in Nat
  BY <1>1, FS_EmptySet, GenerationAssumption DEF Init
<1> QED BY <1>2 DEF GenInv, Init, Holders, PermitsAccounted, LoggedExactly, Answers

\* The holders are finitely many, and one more or less of them counts one.
LEMMA HoldersCount ==
  ASSUME NEW r \in Requests
  PROVE  /\ IsFiniteSet(Holders) /\ Cardinality(Holders) \in Nat
         /\ r \notin Holders => Cardinality(Holders \cup {r}) = Cardinality(Holders) + 1
         /\ r \in Holders => Cardinality(Holders \ {r}) = Cardinality(Holders) - 1
<1> DEFINE H == Holders
<1>1. IsFiniteSet(H) /\ Cardinality(H) \in Nat
  BY GenerationAssumption, FS_Subset, FS_CardinalityType DEF Holders
<1> HIDE DEF H
<1>2. r \notin H => Cardinality(H \cup {r}) = Cardinality(H) + 1
  BY <1>1, FS_AddElement
<1>3. r \in H => Cardinality(H \ {r}) = Cardinality(H) - 1
  BY <1>1, FS_RemoveElement
<1> QED BY <1>1, <1>2, <1>3 DEF H

\* What a step may do to the holders and the permits: nothing, or take one for
\* a request that had none, or give the one of a request back.
LEMMA PermitStep ==
  ASSUME GenInv, NEW r \in Requests, Begin(r) \/ Step(r)
  PROVE  \/ permits' = permits /\ Holders' = Holders
         \/ r \notin Holders /\ permits # 0 /\ permits' = permits - 1 /\ Holders' = Holders \cup {r}
         \/ r \in Holders /\ permits' = permits + 1 /\ Holders' = Holders \ {r}
<1> USE DEF GenInv, Goto, Holders, Holding
<1>1. CASE Begin(r) \/ TakeThread(r)
  BY <1>1 DEF Begin, TakeThread
<1>2. CASE Lookup(r)
  BY <1>2 DEF Lookup, Answer
<1>3. CASE Admit(r)
  BY <1>3 DEF Admit, Answer
<1>4. CASE Sample(r) \/ Conclude(r)
  BY <1>4 DEF Sample, Conclude
<1>5. CASE Respond(r)
  <2>1. PICK answer \in {"ok", "db_unavailable", "generation_failed"} : Goto(r, answer)
    BY <1>5, FailureAnswers DEF Respond, Answer
  <2> QED BY <1>5, <2>1 DEF Respond
<1>6. CASE RespondError(r)
  BY <1>6 DEF RespondError, Answer
<1> QED BY <1>1, <1>2, <1>3, <1>4, <1>5, <1>6 DEF Step

\* What a step may do to the log: it moves a request on without a line, to
\* anything but a logged answer, or answers it with the line it lacked.
LEMMA LogStep ==
  ASSUME GenInv, NEW r \in Requests, Begin(r) \/ Step(r)
  PROVE  \/ /\ \E step \in {"lookup_queued", "lookup", "resume", "error"} \cup Holding :
                 Goto(r, step) \/ (pc[r] = "sample" /\ pc' = pc)
            /\ pc[r] \notin Answers /\ log' = log
         \/ \E answer \in Answers \ {"error"} : pc[r] \notin Answers /\ Answer(r, answer)
<1> USE DEF Holding, Answers
<1>1. CASE Begin(r) \/ TakeThread(r)
  BY <1>1 DEF Begin, TakeThread
<1>2. CASE Lookup(r)
  BY <1>2 DEF Lookup
<1>3. CASE Admit(r)
  BY <1>3 DEF Admit
<1>4. CASE Sample(r) \/ Conclude(r)
  BY <1>4 DEF Sample, Conclude
<1>5. CASE Respond(r)
  BY <1>5, FailureAnswers DEF Respond
<1>6. CASE RespondError(r)
  BY <1>6 DEF RespondError
<1> QED BY <1>1, <1>2, <1>3, <1>4, <1>5, <1>6 DEF Step

LEMMA GenNext == GenInv /\ [Next]_vars => GenInv'
<1> SUFFICES ASSUME GenInv, [Next]_vars PROVE GenInv'
  OBVIOUS
<1>1. CASE UNCHANGED vars
  BY <1>1 DEF vars, GenInv, PermitsAccounted, LoggedExactly
<1>2. ASSUME NEW r \in Requests, Begin(r) \/ Step(r) PROVE GenInv'
  <2>1. permits' \in Nat /\ PermitsAccounted'
    <3>1. permits + Cardinality(Holders) = MaxConcurrent /\ permits \in Nat
      BY DEF GenInv, PermitsAccounted, Holders
    <3>2. permits' + Cardinality(Holders') = MaxConcurrent /\ permits' \in Nat
      BY <1>2, <3>1, PermitStep, HoldersCount
    <3> QED BY <3>2 DEF PermitsAccounted, Holders
  <2>2. CASE /\ \E step \in {"lookup_queued", "lookup", "resume", "error"} \cup Holding :
                  Goto(r, step) \/ (pc[r] = "sample" /\ pc' = pc)
             /\ pc[r] \notin Answers /\ log' = log
    <3>1. pc' \in [Requests -> {"idle", "lookup_queued", "lookup", "resume"} \cup Holding \cup Answers]
      BY <2>2 DEF GenInv, Goto, Answers
    <3>2. LoggedExactly'
      BY <2>2 DEF GenInv, LoggedExactly, Goto, Answers, Holding
    <3> QED BY <2>1, <2>2, <3>1, <3>2 DEF GenInv
  <2>3. ASSUME NEW answer \in Answers \ {"error"}, pc[r] \notin Answers, Answer(r, answer)
        PROVE  GenInv'
    <3>1. /\ pc' = [pc EXCEPT ![r] = answer]
          /\ log' = [log EXCEPT ![r] = Append(log[r], answer)]
          /\ log[r] = <<>>
      BY <2>3 DEF GenInv, LoggedExactly, Answer, Goto, Logged
    <3>2. Append(log[r], answer) = <<answer>>
      BY <3>1
    <3>3. /\ pc' \in [Requests -> {"idle", "lookup_queued", "lookup", "resume"} \cup Holding \cup Answers]
          /\ log' \in [Requests -> Seq(Answers)]
      BY <3>1, <3>2 DEF GenInv
    <3>4. LoggedExactly'
      BY <2>3, <3>1, <3>2 DEF GenInv, LoggedExactly
    <3> QED BY <2>1, <3>3, <3>4 DEF GenInv
  <2> QED BY <1>2, <2>2, <2>3, LogStep
<1> QED BY <1>1, <1>2 DEF Next

\* The semaphore's permits are accounted for on every path: a permit that was
\* taken by the route is given back by its answer, also when generation raises.
THEOREM PermitsAreReleased == Spec => []PermitsAccounted
<1>1. GenInv => PermitsAccounted
  BY DEF GenInv
<1> QED BY <1>1, GenInit, GenNext, PTL DEF Spec

\* An exception that leaves the route does so before a candidate was sampled.
Unsampled ==
  /\ attempts \in [Requests -> Seq(Outcomes)]
  /\ \A r \in Requests :
       pc[r] \in {"idle", "lookup_queued", "lookup", "resume", "generate_queued", "error"} => attempts[r] = <<>>

LEMMA UnsampledStep == GenInv /\ Unsampled /\ [Next]_vars => Unsampled'
<1> SUFFICES ASSUME GenInv, Unsampled, [Next]_vars PROVE Unsampled'
  OBVIOUS
<1> USE DEF Unsampled, GenInv, Goto, Answer, Answers
<1>1. ASSUME NEW r \in Requests, Begin(r) \/ TakeThread(r) PROVE Unsampled'
  BY <1>1 DEF Begin, TakeThread
<1>2. ASSUME NEW r \in Requests, Lookup(r) \/ Admit(r) PROVE Unsampled'
  BY <1>2 DEF Lookup, Admit
<1>3. ASSUME NEW r \in Requests, Sample(r) PROVE Unsampled'
  <2>1. pc[r] = "sample" /\ pc' \in {pc, [pc EXCEPT ![r] = "raised"]}
        /\ \A q \in Requests \ {r} : attempts'[q] = attempts[q]
    BY <1>3 DEF Sample
  <2>2. attempts' \in [Requests -> Seq(Outcomes)]
    <3>1. ASSUME NEW o \in Outcomes, attempts' = [attempts EXCEPT ![r] = Append(attempts[r], o)]
          PROVE  attempts' \in [Requests -> Seq(Outcomes)]
      <4>1. Append(attempts[r], o) \in Seq(Outcomes)
        OBVIOUS
      <4> QED
        BY <3>1, <4>1
    <3>2. CASE UNCHANGED attempts
      BY <3>2
    <3> QED
      BY <1>3, <3>1, <3>2 DEF Sample
  <2> QED
    BY <2>1, <2>2
<1>4. ASSUME NEW r \in Requests, Conclude(r) PROVE Unsampled'
  BY <1>4 DEF Conclude
<1>5. ASSUME NEW r \in Requests, Respond(r) PROVE Unsampled'
  BY <1>5, FailureAnswers DEF Respond
<1>6. ASSUME NEW r \in Requests, RespondError(r) PROVE Unsampled'
  BY <1>6 DEF RespondError
<1>7. CASE UNCHANGED vars
  BY <1>7 DEF vars
<1> QED
  BY <1>1, <1>2, <1>3, <1>4, <1>5, <1>6, <1>7 DEF Next, Step

\* LoggedOnce: what the route answers, and whatever sampled a candidate, is logged once.
THEOREM RequestsAreLoggedOnce == Spec => []LoggedOnce
<1>1. GenInv /\ Unsampled => LoggedOnce
  BY DEF GenInv, Unsampled, LoggedExactly, LoggedOnce
<1>2. Init => Unsampled
  BY DEF Init, Unsampled
<1> QED BY <1>1, <1>2, GenInit, GenNext, UnsampledStep, PTL DEF Spec

-----------------------------------------------------------------------------
(* The vote *)

\* A set of naturals has a least element.
LEMMA LeastNatural ==
  ASSUME NEW T \in SUBSET Nat, T # {}
  PROVE  \E x \in T : \A y \in T : x <= y
<1>1. PICK x \in T : \A y \in T : <<y, x>> \notin OpToRel(<, Nat)
  BY WFMin, NatLessThanWellFounded, Zenon
<1>2. \A y \in T : ~ (y < x)
  BY <1>1, Zenon DEF OpToRel
<1> QED BY <1>2

\* A result has between none and all of the votes.
LEMMA VotesBounded ==
  ASSUME NEW a \in Seq(Outcomes), NEW row
  PROVE  Votes(a, row) \in 0..Len(a)
<1> DEFINE S == {i \in DOMAIN a : a[i] = row}
<1>1. Len(a) \in Nat /\ S \subseteq 1..Len(a)
  OBVIOUS
<1>2. IsFiniteSet(1..Len(a)) /\ Cardinality(1..Len(a)) = Len(a)
  <2> DEFINE k == Len(a)
  <2>1. k \in Nat
    OBVIOUS
  <2> HIDE DEF k
  <2>2. IsFiniteSet(1..k) /\ Cardinality(1..k) = IF 1 > k THEN 0 ELSE k - 1 + 1
    BY <2>1, FS_Interval
  <2>3. Cardinality(1..k) = k
    BY <2>1, <2>2
  <2> QED BY <2>2, <2>3 DEF k
<1>3. Cardinality(S) \in Nat /\ Cardinality(S) <= Len(a)
  <2> HIDE DEF S
  <2> QED BY <1>1, <1>2, FS_Subset, FS_CardinalityType
<1> QED BY <1>1, <1>3 DEF Votes

\* The signature that is most common is that of an executed candidate, and
\* none has more votes.
LEMMA MostCommonWins ==
  ASSUME NEW a \in Seq(Outcomes), Executed(a) # {}
  PROVE  \E i \in Executed(a) : /\ MostCommon(a) = a[i]
                                /\ \A j \in Executed(a) : Votes(a, a[j]) <= Votes(a, a[i])
<1> DEFINE E == Executed(a)
           V == [i \in E |-> Votes(a, a[i])]
<1>1. E \subseteq 1..Len(a) /\ E # {} /\ Len(a) \in Nat
  BY DEF Executed
<1>2. V \in [E -> 0..Len(a)]
  BY VotesBounded
<1>3. \A i \in E : Foremost(a, i) <=> \A j \in E : V[j] <= V[i] /\ (V[j] = V[i] => i <= j)
  BY DEF Foremost
<1>4. (\E i \in E : MostCommon(a) = a[i] /\ Foremost(a, i)) <=> \E i \in E : Foremost(a, i)
  BY Zenon DEF MostCommon
<1>5. \A i, j \in E : Votes(a, a[j]) <= Votes(a, a[i]) <=> V[j] <= V[i]
  OBVIOUS
<1>6. /\ E \subseteq Nat /\ E # {} /\ Len(a) \in Nat
      /\ \A i \in E : V[i] \in Nat /\ V[i] <= Len(a) /\ Len(a) - V[i] \in Nat
  BY <1>1, <1>2
<1> DEFINE k == Len(a)
<1> HIDE DEF E, V, k
<1>7. /\ E \subseteq Nat /\ E # {} /\ k \in Nat
      /\ \A i \in E : V[i] \in Nat /\ V[i] <= k /\ k - V[i] \in Nat
  BY <1>6 DEF k
<1>8. PICK top \in E : \A j \in E : V[j] <= V[top]
  <2> DEFINE Lost == {k - V[i] : i \in E}
  <2>1. Lost \in SUBSET Nat /\ Lost # {}
    BY <1>7
  <2>2. PICK x \in Lost : \A y \in Lost : x <= y
    <3> HIDE DEF Lost
    <3> QED BY <2>1, LeastNatural
  <2>3. PICK i \in E : x = k - V[i]
    OBVIOUS
  <2>4. \A j \in E : k - V[i] <= k - V[j]
    BY <2>2, <2>3
  <2>5. \A j \in E : V[j] <= V[i]
    BY <1>7, <2>4
  <2> QED BY <2>5
<1>9. PICK first \in E : V[first] = V[top] /\ \A j \in E : V[j] = V[top] => first <= j
  <2> DEFINE Tops == {i \in E : V[i] = V[top]}
  <2>1. Tops \in SUBSET Nat /\ Tops # {}
    BY <1>7
  <2>2. PICK x \in Tops : \A y \in Tops : x <= y
    <3> HIDE DEF Tops
    <3> QED BY <2>1, LeastNatural
  <2> QED BY <2>2
<1>10. \A j \in E : V[j] <= V[first] /\ (V[j] = V[first] => first <= j)
  BY <1>7, <1>8, <1>9
<1>11. Foremost(a, first)
  BY <1>3, <1>10
<1>12. PICK i \in E : MostCommon(a) = a[i] /\ Foremost(a, i)
  BY <1>4, <1>11
<1>13. \A j \in E : V[j] <= V[i]
  BY <1>3, <1>7, <1>12
<1> QED BY <1>5, <1>12, <1>13 DEF E

\* The elected candidate was executed and no result has more votes than its
\* own; there is none exactly when no candidate was executed.
LEMMA ElectWins ==
  ASSUME NEW a \in Seq(Outcomes)
  PROVE  /\ Executed(a) = {} => Elect(a) = 0
         /\ Executed(a) # {} =>
              /\ Elect(a) \in 1..Len(a) /\ a[Elect(a)] \in Rows
              /\ \A row \in Rows : Votes(a, row) <= Votes(a, a[Elect(a)])
<1>1. CASE Executed(a) = {}
  BY <1>1 DEF Elect
<1>2. CASE Executed(a) # {}
  <2> DEFINE Wins(i) == a[i] = MostCommon(a) /\ \A j \in Executed(a) : a[j] = MostCommon(a) => i <= j
             winners == {i \in Executed(a) : a[i] = MostCommon(a)}
  <2>1. Executed(a) \subseteq 1..Len(a) /\ \A i \in Executed(a) : a[i] \in Rows
    BY DEF Executed
  <2>2. PICK top \in Executed(a) : /\ MostCommon(a) = a[top]
                                   /\ \A j \in Executed(a) : Votes(a, a[j]) <= Votes(a, a[top])
    BY <1>2, MostCommonWins
  <2>3. winners \in SUBSET Nat /\ winners # {}
    BY <2>1, <2>2
  <2>4. \E i \in Executed(a) : Wins(i)
    <3>1. PICK x \in winners : \A y \in winners : x <= y
      <4> HIDE DEF winners
      <4> QED BY <2>3, LeastNatural
    <3> QED BY <3>1
  <2>5. Elect(a) = CHOOSE i \in Executed(a) : Wins(i)
    BY <1>2 DEF Elect
  <2>6. Elect(a) \in Executed(a) /\ a[Elect(a)] = a[top]
    BY <2>2, <2>4, <2>5
  <2>7. ASSUME NEW row \in Rows PROVE Votes(a, row) <= Votes(a, a[top])
    <3>1. CASE \E j \in Executed(a) : a[j] = row
      BY <2>2, <3>1
    <3>2. CASE ~ \E j \in Executed(a) : a[j] = row
      <4>1. {i \in DOMAIN a : a[i] = row} = {}
        BY <3>2 DEF Executed
      <4>2. Votes(a, row) = 0
        BY <4>1, FS_EmptySet DEF Votes
      <4>3. Votes(a, a[top]) \in 0..Len(a)
        BY VotesBounded
      <4> QED BY <4>2, <4>3
    <3> QED BY <3>1, <3>2
  <2> QED BY <1>2, <2>1, <2>6, <2>7
<1> QED BY <1>1, <1>2

-----------------------------------------------------------------------------
(* The answers *)

Voted == {"done", "ok", "db_unavailable", "generation_failed"}

\* What a request knows of its candidates, from the first to the answer.
VoteInv ==
  /\ n \in [Requests -> 1..MaxCandidates]
  /\ attempts \in [Requests -> Seq(Outcomes)]
  /\ winner \in [Requests -> 0..MaxCandidates]
  /\ \A r \in Requests :
       /\ Len(attempts[r]) <= n[r]
       /\ pc[r] = "idle" => attempts[r] = <<>>
       /\ pc[r] \in Voted => Len(attempts[r]) = n[r] /\ winner[r] = Elect(attempts[r])
       /\ pc[r] = "ok" => winner[r] # 0
       /\ pc[r] \in {"db_unavailable", "generation_failed"} =>
            winner[r] = 0 /\ pc[r] = Failure(attempts[r])

LEMMA VoteInit == Init => VoteInv
BY GenerationAssumption DEF Init, VoteInv, Voted

LEMMA VoteNext == GenInv /\ VoteInv /\ [Next]_vars => VoteInv'
<1> SUFFICES ASSUME GenInv, VoteInv, [Next]_vars PROVE VoteInv'
  OBVIOUS
<1> USE DEF VoteInv, Voted, Goto
<1>0. pc \in [Requests -> {"idle", "lookup_queued", "lookup", "resume"} \cup Holding \cup Answers]
  BY DEF GenInv
<1>1. CASE UNCHANGED vars
  BY <1>1 DEF vars
<1>2. ASSUME NEW r \in Requests, Begin(r) PROVE VoteInv'
  <2>1. PICK k \in 1..MaxCandidates : n' = [n EXCEPT ![r] = k]
    BY <1>2 DEF Begin
  <2>2. n' \in [Requests -> 1..MaxCandidates] /\ k >= 0 /\ n'[r] = k
    BY <2>1, GenerationAssumption
  <2>3. /\ pc' = [pc EXCEPT ![r] = "lookup_queued"] /\ attempts[r] = <<>> /\ Len(attempts[r]) = 0
        /\ attempts' = attempts /\ winner' = winner
    BY <1>2 DEF Begin
  <2> QED BY <1>0, <2>1, <2>2, <2>3
<1>3. ASSUME NEW r \in Requests, TakeThread(r) \/ Lookup(r) \/ Admit(r) \/ RespondError(r)
      PROVE  VoteInv'
  BY <1>0, <1>3 DEF TakeThread, Lookup, Admit, RespondError, Answer
<1>4. ASSUME NEW r \in Requests, Sample(r) PROVE VoteInv'
  <2>1. CASE pc' = [pc EXCEPT ![r] = "raised"] /\ attempts' = attempts
    BY <1>0, <1>4, <2>1 DEF Sample
  <2>2. ASSUME NEW o \in Outcomes, attempts' = [attempts EXCEPT ![r] = Append(attempts[r], o)],
               pc' = pc
        PROVE  VoteInv'
    <3>1. /\ Append(attempts[r], o) \in Seq(Outcomes)
          /\ Len(Append(attempts[r], o)) = Len(attempts[r]) + 1 /\ Len(attempts[r]) \in Nat
      OBVIOUS
    <3> QED BY <1>4, <2>2, <3>1 DEF Sample
  <2> QED BY <1>4, <2>1, <2>2 DEF Sample
<1>5. ASSUME NEW r \in Requests, Conclude(r) PROVE VoteInv'
  <2>1. CASE pc' = [pc EXCEPT ![r] = "raised"] /\ winner' = winner
    BY <1>0, <1>5, <2>1 DEF Conclude
  <2>2. CASE /\ pc' = [pc EXCEPT ![r] = "done"]
             /\ winner' = [winner EXCEPT ![r] = Elect(attempts[r])]
    <3>1. Elect(attempts[r]) \in 0..MaxCandidates
      BY <1>5, ElectWins, GenerationAssumption DEF Conclude
    <3> QED BY <1>0, <1>5, <2>2, <3>1 DEF Conclude
  <2> QED BY <1>5, <2>1, <2>2 DEF Conclude
<1>6. ASSUME NEW r \in Requests, Respond(r) PROVE VoteInv'
  BY <1>0, <1>6, FailureAnswers DEF Respond, Answer
<1> QED BY <1>1, <1>2, <1>3, <1>4, <1>5, <1>6 DEF Next, Step

LEMMA VoteAnswers == VoteInv => AnswerFitsCandidates
<1> SUFFICES ASSUME VoteInv, NEW r \in Requests
    PROVE /\ pc[r] = "ok" => LET elected == attempts[r][winner[r]] IN
               /\ elected \in Rows
               /\ \A row \in Rows : Votes(attempts[r], row) <= Votes(attempts[r], elected)
          /\ pc[r] = "db_unavailable" => attempts[r] = [i \in 1..n[r] |-> "db_unavailable"]
          /\ pc[r] = "generation_failed" =>
               Votes(attempts[r], "failed") > 0 /\ Executed(attempts[r]) = {}
  BY DEF AnswerFitsCandidates
<1> DEFINE a == attempts[r]
<1>1. a \in Seq(Outcomes) /\ DOMAIN a = 1..Len(a) /\ Len(a) \in Nat
  BY DEF VoteInv
<1>2. CASE pc[r] = "ok"
  BY <1>1, <1>2, ElectWins DEF VoteInv, Voted
<1>3. CASE pc[r] = "db_unavailable"
  <2>1. \A i \in DOMAIN a : a[i] = "db_unavailable"
    BY <1>3 DEF VoteInv, Failure
  <2>2. a = [i \in 1..Len(a) |-> a[i]] /\ Len(a) = n[r]
    BY <1>1, <1>3 DEF VoteInv, Voted
  <2>3. a = [i \in 1..n[r] |-> "db_unavailable"]
    BY <1>1, <2>1, <2>2
  <2> QED BY <1>3, <2>3
<1>4. CASE pc[r] = "generation_failed"
  <2>1. Executed(a) = {}
    BY <1>1, <1>4, ElectWins DEF VoteInv, Voted
  <2>2. PICK i \in DOMAIN a : a[i] # "db_unavailable"
    BY <1>4 DEF VoteInv, Failure
  <2>3. a[i] = "failed"
    BY <1>1, <2>1, <2>2 DEF Executed, Outcomes
  <2>4. Votes(a, "failed") \in 0..Len(a)
    BY <1>1, VotesBounded
  <2>5. Votes(a, "failed") # 0
    <3> DEFINE S == {k \in DOMAIN a : a[k] = "failed"}
    <3>1. i \in S /\ S \subseteq 1..Len(a) /\ IsFiniteSet(1..Len(a))
      BY <1>1, <2>3, FS_Interval
    <3>2. Cardinality(S) # 0
      BY <3>1, FS_EmptySet, FS_Subset
    <3> QED BY <3>2 DEF Votes
  <2> QED BY <1>1, <1>4, <2>1, <2>4, <2>5
<1> QED BY <1>2, <1>3, <1>4

\* Type correctness, with the semaphore's value between none and all permits.
THEOREM GenerationTypeCorrect == Spec => []GenerationTypeOK
<1> DEFINE Loaded == loaded \in BOOLEAN
<1>1. Init => Loaded
  BY DEF Init
<1>2. Loaded /\ [Next]_vars => Loaded'
  BY DEF Next, Step, Begin, TakeThread, Lookup, Admit, Sample, Conclude, Respond, RespondError, vars
<1>3. GenInv /\ VoteInv /\ Loaded => GenerationTypeOK
  <2> SUFFICES ASSUME GenInv, VoteInv, Loaded PROVE GenerationTypeOK
    OBVIOUS
  <2>1. IsFiniteSet(Holders) /\ Cardinality(Holders) \in Nat
    BY GenerationAssumption, FS_Subset, FS_CardinalityType DEF Holders
  <2>2. permits + Cardinality(Holders) = MaxConcurrent /\ permits \in Nat
    BY DEF GenInv, PermitsAccounted, Holders
  <2>3. permits \in 0..MaxConcurrent
    BY <2>1, <2>2, GenerationAssumption
  <2> QED BY <2>3 DEF GenInv, VoteInv, GenerationTypeOK
<1> HIDE DEF Loaded
<1> QED BY <1>1, <1>2, <1>3, GenInit, GenNext, VoteInit, VoteNext, PTL DEF Spec

\* An answer with a result is that of an executed candidate with the most
\* votes; a failure blames the database only when every candidate met it so.
THEOREM AnswersFit == Spec => []AnswerFitsCandidates
BY GenInit, GenNext, VoteInit, VoteNext, VoteAnswers, PTL DEF Spec
=============================================================================
