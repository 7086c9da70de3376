------------------------ MODULE EvalCheckpointProofs ------------------------
(***************************************************************************)
(* Proofs about EvalCheckpoint, for every number of examples, batch size   *)
(* and number of interruptions.                                            *)
(***************************************************************************)
EXTENDS EvalCheckpoint, FiniteSetTheorems, TLAPS

Opening == pc \in {"rerun_open", "rescore_open"}

Apart(x, y) == \A r \in x, q \in y : r.index # q.index

Scored(x) == \A r \in x : r.index \notin todo

(***************************************************************************)
(* What ScoredOnce rests on: the file, what is on its way to it, what is   *)
(* in memory and what is still to be scored are about different examples,  *)
(* except while a rewrite has the file's records in memory.  A session     *)
(* that is past init_wandb has a run.                                      *)
(***************************************************************************)
ScoredInv ==
  /\ EvalTypeOK
  /\ OnePerExample(file) /\ OnePerExample(buffer) /\ OnePerExample(unflushed)
  /\ pc \in {"idle", "wandb", "run_id"} => unflushed = {} /\ buffer = {}
  /\ Opening => unflushed = {}
  /\ pc \in {"run_id", "full"} => run \in 1..runs
  /\ Apart(unflushed, buffer) /\ Scored(buffer) /\ Scored(unflushed)
  /\ ~Opening => Apart(file, unflushed) /\ Apart(file, buffer) /\ Scored(file)

\* Removing the failed records, or giving records a verdict, leaves records of the same examples.
LEMMA RewrittenRecords ==
  ASSUME NEW records \in SUBSET Record, OnePerExample(records),
         NEW verdict \in [Indices(records) -> BOOLEAN]
  PROVE  /\ Kept(records) \subseteq records
         /\ Rescored(records, verdict) \subseteq Record
         /\ OnePerExample(Rescored(records, verdict))
         /\ \A r \in records : \E q \in Rescored(records, verdict) : q.index = r.index
<1> DEFINE New(r) == IF r.sql THEN [r EXCEPT !.correct = verdict[r.index]] ELSE r
<1>1. Rescored(records, verdict) = {New(r) : r \in records}
  BY DEF Rescored
<1>2. ASSUME NEW r \in records
      PROVE  New(r) \in Record /\ New(r).index = r.index
  <2>1. r \in [index : Examples, sql : BOOLEAN, correct : BOOLEAN] /\ (r.correct => r.sql)
    BY DEF Record
  <2>2. r.index \in Indices(records)
    BY DEF Indices
  <2>3. verdict[r.index] \in BOOLEAN
    BY <2>2
  <2>4. CASE r.sql
    <3>1. New(r) = [index |-> r.index, sql |-> r.sql, correct |-> verdict[r.index]]
      BY <2>1, <2>4
    <3> QED
      BY <3>1, <2>1, <2>3, <2>4 DEF Record
  <2>5. CASE ~r.sql
    BY <2>1, <2>5 DEF Record
  <2> QED
    BY <2>4, <2>5
<1> HIDE DEF New
<1>3. Rescored(records, verdict) \subseteq Record
  BY <1>1, <1>2
<1>4. OnePerExample(Rescored(records, verdict))
  BY <1>1, <1>2 DEF OnePerExample
<1>5. \A r \in records : \E q \in Rescored(records, verdict) : q.index = r.index
  BY <1>1, <1>2
<1>6. Kept(records) \subseteq records
  BY DEF Kept
<1> QED
  BY <1>3, <1>4, <1>5, <1>6

\* One record more, of an example that was still to be scored.
LEMMA ScoredRecord ==
  ASSUME NEW i \in Examples, NEW sql \in BOOLEAN, NEW correct \in BOOLEAN,
         ScoredInv, Score(i, sql, correct)
  PROVE  LET r == [index |-> i, sql |-> sql, correct |-> correct] IN
         /\ r \in Record /\ i \in todo /\ todo' = todo \ {i} /\ unflushed = {} /\ ~Opening
         /\ \/ unflushed' = buffer \cup {r} /\ buffer' = {}
            \/ unflushed' = {} /\ buffer' = buffer \cup {r}
         /\ file' = file /\ cut' = cut /\ pc' = pc /\ runFile' = runFile /\ run' = run /\ runs' = runs
         /\ crashes' = crashes /\ before' = before
         /\ logged' = IF pc = "full" THEN logged \cup {run} ELSE logged
BY DEF Score, Record, Opening

LEMMA ScoredInit == Init => ScoredInv
BY EvalAssumption DEF Init, ScoredInv, EvalTypeOK, NoRun, NoFile, EmptyFile, Record, OnePerExample, Apart, Scored, Opening

LEMMA StartKeeps ==
  ASSUME ScoredInv, StartFull \/ StartRerun \/ StartRescore
  PROVE  ScoredInv'
<1> USE DEF ScoredInv
<1>1. CASE StartFull
  BY <1>1 DEF StartFull, Start, Missing, Indices, EvalTypeOK, OnePerExample, Apart, Scored, Opening
<1>2. CASE StartRerun
  <2>1. Kept(file) \subseteq file /\ Failed(file) \subseteq file
    BY DEF Kept, Failed
  <2>2. \A r \in Kept(file), q \in Failed(file) : r.index # q.index
    BY DEF Kept, Indices
  <2> QED
    BY <1>2, <2>1, <2>2 DEF StartRerun, Start, Indices, EvalTypeOK, OnePerExample, Apart, Scored, Opening, Record
<1>3. CASE StartRescore
  <2>1. PICK verdict \in [Indices(file) -> BOOLEAN] : Start("rescore_open", {}, Rescored(file, verdict))
    BY <1>3 DEF StartRescore
  <2>2. /\ Rescored(file, verdict) \subseteq Record
        /\ OnePerExample(Rescored(file, verdict))
    BY RewrittenRecords DEF EvalTypeOK
  <2> QED
    BY <2>1, <2>2 DEF Start, EvalTypeOK, OnePerExample, Apart, Scored, Opening
<1> QED
  BY <1>1, <1>2, <1>3

LEMMA ScoredStep == ScoredInv /\ [Next]_vars => ScoredInv'
<1> SUFFICES ASSUME ScoredInv, [Next]_vars PROVE ScoredInv'
  OBVIOUS
<1>1. CASE StartFull \/ StartRerun \/ StartRescore
  BY <1>1, StartKeeps
<1>2. CASE InitWandb
  <2>1. EvalTypeOK' /\ pc' \in {"run_id", "full"} /\ run' \in 1..runs'
    BY <1>2 DEF ScoredInv, InitWandb, RunId, NoFile, EmptyFile, EvalTypeOK
  <2> QED
    BY <1>2, <2>1 DEF ScoredInv, InitWandb, OnePerExample, Apart, Scored, Opening
<1>3. CASE SaveRunId
  BY <1>3 DEF ScoredInv, SaveRunId, EvalTypeOK, OnePerExample, Apart, Scored, Opening
<1>4. CASE Rewrite
  BY <1>4 DEF ScoredInv, Rewrite, EvalTypeOK, OnePerExample, Apart, Scored, Opening
<1>5. CASE Flush
  BY <1>5 DEF ScoredInv, Flush, Appended, EvalTypeOK, OnePerExample, Apart, Scored, Opening
<1>6. CASE Finish
  BY <1>6 DEF ScoredInv, Finish, NoRun, EvalTypeOK, OnePerExample, Apart, Scored, Opening
<1>7. ASSUME NEW i \in Examples, NEW sql \in BOOLEAN, NEW correct \in BOOLEAN, Score(i, sql, correct)
      PROVE  ScoredInv'
  <2> DEFINE r == [index |-> i, sql |-> sql, correct |-> correct]
  <2>1. /\ r \in Record /\ i \in todo /\ todo' = todo \ {i} /\ unflushed = {} /\ ~Opening
        /\ \/ unflushed' = buffer \cup {r} /\ buffer' = {}
           \/ unflushed' = {} /\ buffer' = buffer \cup {r}
        /\ file' = file /\ cut' = cut /\ pc' = pc /\ runFile' = runFile /\ run' = run /\ runs' = runs
        /\ crashes' = crashes /\ before' = before
        /\ logged' = IF pc = "full" THEN logged \cup {run} ELSE logged
    BY <1>7, ScoredRecord
  <2>2. r.index = i
    OBVIOUS
  <2>3. pc \notin {"idle", "wandb", "run_id"}
    BY <1>7 DEF Score
  <2> HIDE DEF r
  <2>4. EvalTypeOK'
    BY <2>1 DEF ScoredInv, EvalTypeOK
  <2>5. OnePerExample(buffer \cup {r}) /\ Apart(file, buffer \cup {r})
    BY <2>1, <2>2 DEF ScoredInv, OnePerExample, Apart, Scored, EvalTypeOK
  <2>6. \A q \in buffer \cup {r} \cup file : q.index \notin todo'
    BY <2>1, <2>2 DEF ScoredInv, Scored
  <2> QED
    BY <2>1, <2>3, <2>4, <2>5, <2>6 DEF ScoredInv, OnePerExample, Apart, Scored, Opening
<1>8. CASE Crash
  <2>1. PICK written \in SUBSET unflushed : file' = file \cup written /\ cut' \in CutBy(written)
    BY <1>8 DEF Crash
  <2>2. /\ pc' = "idle" /\ run' = NoRun /\ todo' = {} /\ buffer' = {} /\ unflushed' = {}
        /\ crashes' = crashes + 1 /\ before' = {} /\ crashes < MaxCrashes /\ pc # "idle"
        /\ runs' = runs /\ logged' = logged
        /\ runFile' \in {NoFile, EmptyFile} \cup 1..runs
    BY <1>8 DEF Crash, ScoredInv, EvalTypeOK
  <2>3. cut' \in {"whole", "open", "torn"}
    BY <2>1 DEF CutBy, ScoredInv, EvalTypeOK
  <2>4. EvalTypeOK'
    BY <2>1, <2>2, <2>3, EvalAssumption DEF ScoredInv, EvalTypeOK, NoRun
  <2>5. OnePerExample(file)'
    BY <2>1 DEF ScoredInv, OnePerExample, Apart, Opening
  <2> QED
    BY <2>2, <2>4, <2>5 DEF ScoredInv, OnePerExample, Apart, Scored, Opening
<1>9. CASE InitRefused
  BY <1>9 DEF ScoredInv, InitRefused, EvalTypeOK, OnePerExample, Apart, Scored, Opening
<1>10. CASE UNCHANGED vars
  BY <1>10 DEF vars, ScoredInv, EvalTypeOK, OnePerExample, Apart, Scored, Opening
<1> QED
  BY <1>1, <1>2, <1>3, <1>4, <1>5, <1>6, <1>7, <1>8, <1>9, <1>10 DEF Next, Proceed

\* ScoredInv is inductive: see its definition.
THEOREM ScoredInvariant == Spec => []ScoredInv
<1>1. Init => ScoredInv
  BY ScoredInit
<1>2. ScoredInv /\ [Next]_vars => ScoredInv'
  BY ScoredStep
<1> QED
  BY <1>1, <1>2, PTL DEF Spec

\* EvalTypeOK, for the programs of src/scripts/eval.
THEOREM EvalTypeCorrect == Spec => []EvalTypeOK
<1>1. ScoredInv => EvalTypeOK
  BY DEF ScoredInv
<1> QED
  BY <1>1, ScoredInvariant, PTL

\* ScoredOnce: interruptions and resumptions never score an example into the file twice.
THEOREM ScoredOnceHolds == Spec => []ScoredOnce
<1>1. ScoredInv => ScoredOnce
  BY DEF ScoredInv, ScoredOnce, Indices, Apart, Opening
<1> QED
  BY <1>1, ScoredInvariant, PTL

-----------------------------------------------------------------------------
(* NothingDropped *)

LEMMA DroppedStep == ScoredInv /\ NothingDropped /\ [Next]_vars => NothingDropped'
<1> SUFFICES ASSUME ScoredInv, NothingDropped, [Next]_vars PROVE NothingDropped'
  OBVIOUS
<1>1. CASE StartFull
  BY <1>1 DEF StartFull, Start, NothingDropped, Held
<1>2. CASE StartRerun
  <2>1. \A r \in file : r \in Kept(file) \/ (~r.sql /\ r.index \in Indices(Failed(file)))
    BY DEF ScoredInv, OnePerExample, Kept, Failed, Indices
  <2> QED
    BY <1>2, <2>1 DEF StartRerun, Start, NothingDropped, Held
<1>3. CASE StartRescore
  <2>1. PICK verdict \in [Indices(file) -> BOOLEAN] : Start("rescore_open", {}, Rescored(file, verdict))
    BY <1>3 DEF StartRescore
  <2>2. \A r \in file : \E q \in Rescored(file, verdict) : q.index = r.index
    BY RewrittenRecords DEF ScoredInv, EvalTypeOK
  <2> QED
    BY <2>1, <2>2 DEF Start, NothingDropped, Held
<1>4. CASE InitWandb \/ InitRefused
  BY <1>4 DEF InitWandb, InitRefused, NothingDropped, Held
<1>5. CASE SaveRunId
  BY <1>5 DEF SaveRunId, NothingDropped, Held
<1>6. CASE Rewrite
  BY <1>6 DEF Rewrite, NothingDropped, Held
<1>7. CASE Flush
  BY <1>7 DEF Flush, Appended, NothingDropped, Held, ScoredInv, Opening
<1>8. CASE Finish
  BY <1>8 DEF Finish, NothingDropped
<1>9. ASSUME NEW i \in Examples, NEW sql \in BOOLEAN, NEW correct \in BOOLEAN, Score(i, sql, correct)
      PROVE  NothingDropped'
  <2> DEFINE r == [index |-> i, sql |-> sql, correct |-> correct]
  <2>1. /\ todo' = todo \ {i} /\ unflushed = {} /\ ~Opening
        /\ \/ unflushed' = buffer \cup {r} /\ buffer' = {}
           \/ unflushed' = {} /\ buffer' = buffer \cup {r}
        /\ file' = file /\ pc' = pc /\ runFile' = runFile /\ run' = run /\ before' = before
    BY <1>9, ScoredRecord
  <2>2. r.index = i
    OBVIOUS
  <2> HIDE DEF r
  <2>3. Held' = Held \cup {r}
    BY <2>1 DEF Held, Opening
  <2> QED
    BY <2>1, <2>2, <2>3 DEF NothingDropped
<1>10. CASE Crash
  BY <1>10 DEF Crash, NothingDropped
<1>11. CASE UNCHANGED vars
  BY <1>11 DEF vars, NothingDropped, Held
<1> QED
  BY <1>1, <1>2, <1>3, <1>4, <1>5, <1>6, <1>7, <1>8, <1>9, <1>10, <1>11 DEF Next, Proceed

\* NothingDropped: a program that is not interrupted gives up no example of the file.
THEOREM NothingDroppedHolds == Spec => []NothingDropped
<1>1. Init => NothingDropped
  BY DEF Init, NothingDropped
<1>2. ScoredInv /\ NothingDropped /\ [Next]_vars => NothingDropped'
  BY DroppedStep
<1> QED
  BY <1>1, <1>2, ScoredInvariant, PTL DEF Spec

-----------------------------------------------------------------------------
(* OneHistory *)

(***************************************************************************)
(* What OneHistory rests on: a session that scores has the run the file    *)
(* names, and while the file names none, nothing was logged.               *)
(***************************************************************************)
HistoryInv ==
  /\ OneHistory
  /\ runFile \in {NoFile, EmptyFile} => logged = {}
  /\ pc = "run_id" => runFile = NoFile
  /\ pc = "full" => run = runFile

LEMMA HistoryStep == ScoredInv /\ HistoryInv /\ [Next]_vars => HistoryInv'
<1> SUFFICES ASSUME ScoredInv, HistoryInv, [Next]_vars PROVE HistoryInv'
  OBVIOUS
<1> USE DEF HistoryInv, OneHistory
<1>1. CASE StartFull \/ StartRerun \/ StartRescore
  BY <1>1 DEF StartFull, StartRerun, StartRescore, Start
<1>2. CASE InitWandb \/ InitRefused
  BY <1>2 DEF InitWandb, InitRefused, RunId
<1>3. CASE SaveRunId
  BY <1>3 DEF SaveRunId, ScoredInv, NoFile, EmptyFile
<1>4. CASE Rewrite \/ Flush \/ Finish
  BY <1>4 DEF Rewrite, Flush, Finish
<1>5. ASSUME NEW i \in Examples, NEW sql \in BOOLEAN, NEW correct \in BOOLEAN, Score(i, sql, correct)
      PROVE  HistoryInv'
  BY <1>5 DEF Score, ScoredInv, NoFile, EmptyFile
<1>6. CASE Crash
  BY <1>6 DEF Crash
<1>7. CASE UNCHANGED vars
  BY <1>7 DEF vars
<1> QED
  BY <1>1, <1>2, <1>3, <1>4, <1>5, <1>6, <1>7 DEF Next, Proceed

\* OneHistory: however often run_full_eval is interrupted, its scores are logged to one run.
THEOREM OneHistoryHolds == Spec => []OneHistory
<1>1. Init => HistoryInv
  BY DEF Init, HistoryInv, OneHistory
<1>2. ScoredInv /\ HistoryInv /\ [Next]_vars => HistoryInv'
  BY HistoryStep
<1>3. HistoryInv => OneHistory
  BY DEF HistoryInv
<1> QED
  BY <1>1, <1>2, <1>3, ScoredInvariant, PTL DEF Spec

-----------------------------------------------------------------------------
(* CheckpointsStay and LossBounded *)

\* CheckpointsStay: run_full_eval only adds to the file, also when it is interrupted.
THEOREM CheckpointsStayHolds == Spec => CheckpointsStay
<1>1. [Next]_vars => [pc = "full" => file \subseteq file']_vars
  <2> SUFFICES ASSUME Next, pc = "full" PROVE file \subseteq file'
    OBVIOUS
  <2>1. CASE StartFull \/ StartRerun \/ StartRescore
    BY <2>1 DEF StartFull, StartRerun, StartRescore, Start
  <2>2. CASE Proceed
    BY <2>2 DEF Proceed, InitWandb, InitRefused, SaveRunId, Rewrite, Flush, Appended, Finish, Score
  <2>3. CASE Crash
    BY <2>3 DEF Crash
  <2> QED
    BY <2>1, <2>2, <2>3 DEF Next
<1> QED
  BY <1>1, PTL DEF Spec, CheckpointsStay

\* The records of finitely many examples are finitely many.
LEMMA FiniteRecords ==
  ASSUME NEW records \in SUBSET Record PROVE IsFiniteSet(records)
<1> DEFINE S == Examples \X (BOOLEAN \X BOOLEAN)
           T == [index : Examples, sql : BOOLEAN, correct : BOOLEAN]
           f == [t \in S |-> [index |-> t[1], sql |-> t[2][1], correct |-> t[2][2]]]
<1>1. IsFiniteSet(S)
  <2>1. IsFiniteSet({TRUE}) /\ IsFiniteSet({FALSE})
    BY FS_Singleton
  <2>2. IsFiniteSet({TRUE} \cup {FALSE})
    BY <2>1, FS_Union
  <2>3. BOOLEAN = {TRUE} \cup {FALSE}
    BY Zenon
  <2>4. IsFiniteSet(BOOLEAN)
    BY <2>2, <2>3
  <2>5. IsFiniteSet(BOOLEAN \X BOOLEAN)
    BY <2>4, FS_Product
  <2> QED
    BY <2>5, EvalAssumption, FS_Product
<1>2. f \in [S -> T]
  OBVIOUS
<1>3. ASSUME NEW r \in T PROVE \E t \in S : f[t] = r
  <2>1. <<r.index, <<r.sql, r.correct>>>> \in S
    OBVIOUS
  <2>2. f[<<r.index, <<r.sql, r.correct>>>>] = [index |-> r.index, sql |-> r.sql, correct |-> r.correct]
    BY <2>1
  <2>3. r = [index |-> r.index, sql |-> r.sql, correct |-> r.correct]
    OBVIOUS
  <2> QED
    BY <2>1, <2>2, <2>3
<1> HIDE DEF S, T, f
<1>4. f \in Surjection(S, T)
  BY <1>2, <1>3 DEF Surjection
<1>5. IsFiniteSet(T)
  BY <1>1, <1>4, FS_Surjection
<1> QED
  BY <1>5, FS_Subset DEF Record, T

(***************************************************************************)
(* What LossBounded rests on: run_full_eval has fewer than SaveEvery       *)
(* records in memory, or at most SaveEvery on their way into the file.     *)
(***************************************************************************)
BatchInv ==
  pc = "full" => \/ buffer = {} /\ Cardinality(unflushed) <= SaveEvery
                 \/ unflushed = {} /\ Cardinality(buffer) < SaveEvery

LEMMA BatchStep == ScoredInv /\ BatchInv /\ [Next]_vars => BatchInv'
<1> SUFFICES ASSUME ScoredInv, BatchInv, [Next]_vars, pc' = "full" PROVE BatchInv'
  BY DEF BatchInv
<1> USE EvalAssumption
<1>1. Cardinality({}) = 0
  BY FS_EmptySet
<1>2. CASE InitWandb \/ SaveRunId
  BY <1>1, <1>2 DEF InitWandb, SaveRunId, BatchInv, ScoredInv
<1>3. CASE Flush
  BY <1>1, <1>3 DEF Flush, BatchInv
<1>4. ASSUME NEW i \in Examples, NEW sql \in BOOLEAN, NEW correct \in BOOLEAN, Score(i, sql, correct)
      PROVE  BatchInv'
  <2> DEFINE r == [index |-> i, sql |-> sql, correct |-> correct]
  <2>1. /\ pc = "full"
        /\ IF Due(buffer \cup {r}, todo \ {i}) THEN unflushed' = buffer \cup {r} /\ buffer' = {}
                                               ELSE unflushed' = {} /\ buffer' = buffer \cup {r}
    BY <1>4 DEF Score
  <2> HIDE DEF r
  <2>2. IsFiniteSet(buffer)
    BY FiniteRecords DEF ScoredInv, EvalTypeOK
  <2>3. Cardinality(buffer) < SaveEvery
    BY <1>1, <1>4, <2>1 DEF BatchInv, Score
  <2>4. Cardinality(buffer \cup {r}) <= SaveEvery /\ Cardinality(buffer \cup {r}) \in Nat
    <3>1. /\ IsFiniteSet(buffer \cup {r})
          /\ Cardinality(buffer \cup {r}) = IF r \in buffer THEN Cardinality(buffer) ELSE Cardinality(buffer) + 1
      BY <2>2, FS_AddElement
    <3>2. Cardinality(buffer) \in Nat
      BY <2>2, FS_CardinalityType
    <3> QED
      BY <2>3, <3>1, <3>2
  <2>5. CASE Due(buffer \cup {r}, todo \ {i})
    BY <2>1, <2>4, <2>5 DEF BatchInv
  <2>6. CASE ~Due(buffer \cup {r}, todo \ {i})
    <3>1. Cardinality(buffer \cup {r}) < SaveEvery
      BY <2>4, <2>6 DEF Due
    <3> QED
      BY <2>1, <2>6, <3>1 DEF BatchInv
  <2> QED
    BY <2>5, <2>6
<1>5. CASE UNCHANGED vars
  BY <1>5 DEF vars, BatchInv
<1>6. CASE InitRefused \/ StartFull \/ StartRerun \/ StartRescore \/ Rewrite \/ Finish \/ Crash
  BY <1>6 DEF InitRefused, StartFull, StartRerun, StartRescore, Start, Rewrite, Finish, Crash
<1> QED
  BY <1>2, <1>3, <1>4, <1>5, <1>6 DEF Next, Proceed

\* BatchInv is kept by every step, given ScoredInv.
THEOREM BatchInvariant == Spec => [](ScoredInv /\ BatchInv)
<1>1. Init => BatchInv
  BY DEF Init, BatchInv
<1>2. ScoredInv /\ BatchInv /\ [Next]_vars => BatchInv'
  BY BatchStep
<1> QED
  BY <1>1, <1>2, ScoredInvariant, PTL DEF Spec

\* Records that are lost were not in the file yet.
LEMMA LossStep ==
  ASSUME ScoredInv, ScoredInv', BatchInv, Next, pc = "full"
  PROVE  Cardinality(file \cup unflushed \cup buffer)
           <= Cardinality(file' \cup unflushed' \cup buffer') + SaveEvery
<1> DEFINE All == file \cup unflushed \cup buffer
           pending == unflushed \cup buffer
<1>1. /\ IsFiniteSet(file) /\ IsFiniteSet(pending) /\ IsFiniteSet(file \cap pending)
      /\ IsFiniteSet(All')
  <2>1. /\ file \in SUBSET Record /\ pending \in SUBSET Record /\ file \cap pending \in SUBSET Record
        /\ All' \in SUBSET Record
    BY DEF ScoredInv, EvalTypeOK
  <2> QED
    BY <2>1, FiniteRecords
<1>2. file \subseteq file'
  <2>1. CASE Proceed
    BY <2>1 DEF Proceed, InitWandb, InitRefused, SaveRunId, Rewrite, Flush, Appended, Finish, Score
  <2> QED
    BY <2>1 DEF Next, StartFull, StartRerun, StartRescore, Start, Crash
<1>3. Cardinality(pending) <= SaveEvery
  <2>1. CASE buffer = {} /\ Cardinality(unflushed) <= SaveEvery
    BY <2>1
  <2>2. CASE unflushed = {} /\ Cardinality(buffer) < SaveEvery
    <3>1. pending = buffer
      BY <2>2
    <3> QED
      BY <1>1, <2>2, <3>1, EvalAssumption, FS_CardinalityType
  <2> QED
    BY <2>1, <2>2 DEF BatchInv
<1>4. Cardinality(file \cup pending) <= Cardinality(file) + Cardinality(pending)
  <2>1. Cardinality(file \cup pending)
          = Cardinality(file) + Cardinality(pending) - Cardinality(file \cap pending)
    BY <1>1, FS_Union
  <2>2. /\ Cardinality(file) \in Nat /\ Cardinality(pending) \in Nat
        /\ Cardinality(file \cap pending) \in Nat
    BY <1>1, FS_CardinalityType
  <2> QED
    BY <2>1, <2>2
<1>5. All = file \cup pending
  OBVIOUS
<1>6. file \in SUBSET All'
  BY <1>2
<1> HIDE DEF All, pending
<1>7. Cardinality(file) <= Cardinality(All')
  BY <1>1, <1>6, FS_Subset
<1>8. /\ Cardinality(file) \in Nat /\ Cardinality(pending) \in Nat
      /\ Cardinality(All') \in Nat /\ Cardinality(file \cup pending) \in Nat
  <2>1. IsFiniteSet(file \cup pending)
    BY <1>1, FS_Union
  <2> QED
    BY <1>1, <2>1, FS_CardinalityType
<1>9. Cardinality(All) <= Cardinality(All') + SaveEvery
  BY <1>3, <1>4, <1>5, <1>7, <1>8, EvalAssumption
<1> QED
  BY <1>9 DEF All

\* LossBounded: an interruption costs run_full_eval at most SaveEvery scores.
THEOREM LossBoundedHolds == Spec => LossBounded
<1>1. /\ ScoredInv /\ BatchInv /\ (ScoredInv /\ BatchInv)' /\ [Next]_vars
      => [pc = "full" => Cardinality(file \cup unflushed \cup buffer)
                           <= Cardinality(file' \cup unflushed' \cup buffer') + SaveEvery]_vars
  BY LossStep
<1> QED
  BY <1>1, BatchInvariant, PTL DEF Spec, LossBounded
=============================================================================
