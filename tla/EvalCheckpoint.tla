--------------------------- MODULE EvalCheckpoint ---------------------------
(***************************************************************************)
(* src/scripts/eval: the programs that share the checkpoint file of a long *)
(* evaluation.  run_full_eval scores what the file lacks and appends it in *)
(* batches, rerun_failed takes the failed records out of the file and      *)
(* scores them again, rescore_all rewrites every verdict.  One of them     *)
(* runs at a time, and its session may be interrupted at any point.        *)
(*                                                                         *)
(* The file is the set of its records: their order matters to none of the  *)
(* programs.  What was handed to the file object and not yet flushed is    *)
(* lost in an interruption, but for any part the buffer had already let    *)
(* through, which may end in the middle of a line.                         *)
(***************************************************************************)
EXTENDS Integers, FiniteSets

CONSTANTS
  Examples,    \* positions in the dev set
  SaveEvery,   \* save_every, 15 in the program
  MaxCrashes   \* bound: interruptions in a behaviour

ASSUME EvalAssumption ==
  /\ Examples \subseteq Nat /\ IsFiniteSet(Examples)
  /\ SaveEvery \in Nat \ {0} /\ MaxCrashes \in Nat

VARIABLES
  file,      \* records of the checkpoint file
  cut,       \* how the file ends: "whole", "open" (no newline) or "torn" (half a line)
  pc,        \* what runs and where it is, "idle" between two programs
  todo,      \* examples the running program still has to score
  buffer,    \* records in memory
  unflushed, \* records written to the file object and not flushed
  runFile,   \* wandb_run_id.txt: the run it names, NoFile, or EmptyFile
  run,       \* the wandb run of the session, or NoRun
  runs,      \* wandb runs created so far; they are numbered from 1
  crashes,   \* interruptions so far
  logged,    \* history: the runs that scores were logged to
  before     \* history: the records of the file when the running program started

vars == <<file, cut, pc, todo, buffer, unflushed, runFile, run, runs, crashes, logged, before>>

NoRun == 0
EmptyFile == 0
NoFile == -1

\* generated_sql is None exactly when the example raised, and then it is not correct.
Record == {r \in [index : Examples, sql : BOOLEAN, correct : BOOLEAN] : r.correct => r.sql}

Indices(records) == {r.index : r \in records}

\* json.loads raises on half a line, and with it every program at its start.
Readable == cut # "torn"

\* find_failed_indices
Failed(records) == {r \in records : ~r.sql}

\* Mutant: the resume goes on after the last example that was saved.
Mutant_AfterLast == {i \in Examples : \A j \in Indices(file) : i > j}

\* Mutant: the resume scores everything again.
Mutant_Everything == Examples

\* What load_already_done leaves to do.
Missing == Examples \ Indices(file)

-----------------------------------------------------------------------------
(* Starting a program *)

Start(step, work, records) ==
  /\ pc = "idle" /\ Readable
  /\ pc' = step /\ todo' = work /\ buffer' = records /\ before' = file
  /\ UNCHANGED <<file, cut, unflushed, runFile, run, runs, crashes, logged>>

StartFull == Start("wandb", Missing, {})

\* Mutant: the examples whose query is wrong are taken out and not scored again.
Mutant_Kept(records) == {r \in records : r.correct}

\* remove_records goes by the index.
Kept(records) == {r \in records : r.index \notin Indices(Failed(records))}

StartRerun ==
  /\ Failed(file) # {}
  /\ Start("rerun_open", Indices(Failed(file)), Kept(file))

\* Mutant: a failed record is compared, too.
Mutant_Rescored(records, verdict) ==
  {[r EXCEPT !.correct = verdict[r.index]] : r \in records}

\* A failed record is kept as it is, any other gets the verdict of the comparison.
Rescored(records, verdict) ==
  {IF r.sql THEN [r EXCEPT !.correct = verdict[r.index]] ELSE r : r \in records}

StartRescore ==
  /\ file # {}
  /\ \E verdict \in [Indices(file) -> BOOLEAN] :
       Start("rescore_open", {}, Rescored(file, verdict))

\* Mutant: the run's id is never read back.
Mutant_RunId == NoFile

\* What init_wandb reads: no file is a run_id of None, an empty one the id "".
RunId == runFile

\* A run is resumed by its id, or created when there is none.
InitWandb ==
  /\ pc = "wandb" /\ RunId # EmptyFile
  /\ IF RunId = NoFile
     THEN runs' = runs + 1 /\ run' = runs + 1 /\ pc' = "run_id"
     ELSE run' = RunId /\ pc' = "full" /\ UNCHANGED runs
  /\ UNCHANGED <<file, cut, todo, buffer, unflushed, runFile, crashes, logged, before>>

\* wandb.init(id="") raises, and the exception leaves run_full_eval.
InitRefused ==
  /\ pc = "wandb" /\ RunId = EmptyFile
  /\ pc' = "idle" /\ todo' = {} /\ before' = {}
  /\ UNCHANGED <<file, cut, buffer, unflushed, runFile, run, runs, crashes, logged>>

SaveRunId ==
  /\ pc = "run_id"
  /\ runFile' = run /\ pc' = "full"
  /\ UNCHANGED <<file, cut, todo, buffer, unflushed, run, runs, crashes, logged, before>>

-----------------------------------------------------------------------------
(* Scoring and writing *)

\* open(CHECKPOINT_PATH, "w"): the old records are gone before the new are written.
Rewrite ==
  /\ pc \in {"rerun_open", "rescore_open"}
  /\ file' = {} /\ cut' = "whole"
  /\ unflushed' = buffer /\ buffer' = {}
  /\ pc' = IF pc = "rerun_open" THEN "rerun" ELSE "rescore"
  /\ UNCHANGED <<todo, runFile, run, runs, crashes, logged, before>>

\* Mutant: a batch is written once it is over its size.
Mutant_DueLate(batch, rest) ==
  pc = "rerun" \/ Cardinality(batch) > SaveEvery \/ rest = {}

\* run_full_eval writes full batches and what is left at the end, rerun_failed each record.
Due(batch, rest) == pc = "rerun" \/ Cardinality(batch) >= SaveEvery \/ rest = {}

\* run_full_eval goes through the dev set in order.
IsNext(i) == pc = "full" => \A j \in todo : i <= j

\* run_full_eval logs each score to its run at once.
Score(i, sql, correct) ==
  LET batch == buffer \cup {[index |-> i, sql |-> sql, correct |-> correct]}
      rest  == todo \ {i}
  IN /\ pc \in {"full", "rerun"} /\ unflushed = {}
     /\ i \in todo /\ IsNext(i) /\ (correct => sql)
     /\ todo' = rest
     /\ IF Due(batch, rest) THEN unflushed' = batch /\ buffer' = {}
                            ELSE unflushed' = {} /\ buffer' = batch
     /\ logged' = IF pc = "full" THEN logged \cup {run} ELSE logged
     /\ UNCHANGED <<file, cut, pc, runFile, run, runs, crashes, before>>

Appended(records) == file \cup records

\* A line without a newline swallows the next one, and neither can be read.
Flush ==
  /\ unflushed # {}
  /\ file' = Appended(unflushed) /\ unflushed' = {}
  /\ cut' = IF cut = "open" THEN "torn" ELSE cut
  /\ UNCHANGED <<pc, todo, buffer, runFile, run, runs, crashes, logged, before>>

\* The program returns.
Finish ==
  /\ pc \in {"full", "rerun", "rescore"}
  /\ todo = {} /\ unflushed = {} /\ buffer = {}
  /\ pc' = "idle" /\ run' = NoRun /\ before' = {}
  /\ UNCHANGED <<file, cut, todo, buffer, unflushed, runFile, runs, crashes, logged>>

\* How the file may end when written is the part of unflushed that reached it.
CutBy(written) ==
  (IF written = {} THEN {cut} ELSE IF cut = "open" THEN {"torn"} ELSE {"whole", "open"})
  \cup (IF written = unflushed THEN {} ELSE {"torn"})

\* The session ends: Colab disconnects, or an exception leaves the program.
Crash ==
  /\ crashes < MaxCrashes /\ pc # "idle"
  /\ \E written \in SUBSET unflushed :
       file' = file \cup written /\ cut' \in CutBy(written)
  /\ runFile' \in IF pc = "run_id" THEN {NoFile, EmptyFile, run} ELSE {runFile}
  /\ pc' = "idle" /\ run' = NoRun /\ todo' = {} /\ buffer' = {} /\ unflushed' = {}
  /\ crashes' = crashes + 1 /\ before' = {}
  /\ UNCHANGED <<runs, logged>>

-----------------------------------------------------------------------------

Init ==
  /\ file = {} /\ cut = "whole" /\ pc = "idle"
  /\ todo = {} /\ buffer = {} /\ unflushed = {}
  /\ runFile = NoFile /\ run = NoRun /\ runs = 0
  /\ crashes = 0 /\ logged = {} /\ before = {}

Proceed ==
  \/ InitWandb \/ InitRefused \/ SaveRunId \/ Rewrite \/ Flush \/ Finish
  \/ \E i \in Examples, sql, correct \in BOOLEAN : Score(i, sql, correct)

Next == StartFull \/ StartRerun \/ StartRescore \/ Proceed \/ Crash

\* A program that runs goes on, and as long as the file lacks examples somebody starts
\* run_full_eval again and again.
FairSpec == Init /\ [][Next]_vars /\ WF_vars(Proceed) /\ SF_vars(StartFull)

Spec == Init /\ [][Next]_vars

-----------------------------------------------------------------------------
(* Properties *)

EvalTypeOK ==
  /\ file \subseteq Record /\ buffer \subseteq Record /\ unflushed \subseteq Record
  /\ before \subseteq Record /\ todo \subseteq Examples
  /\ cut \in {"whole", "open", "torn"}
  /\ pc \in {"idle", "wandb", "run_id", "full", "rerun_open", "rerun", "rescore_open", "rescore"}
  /\ runs \in Nat /\ run \in 0..runs /\ runFile \in {NoFile, EmptyFile} \cup 1..runs
  /\ crashes \in 0..MaxCrashes /\ logged \subseteq 1..runs

OnePerExample(records) == \A r, q \in records : r.index = q.index => r = q

\* No example is scored into the file twice, whatever was interrupted and resumed: the
\* accuracy that summarize counts over the lines counts each example once.  A record that
\* is yet to be written has no record of its example in the file (eval_full.py:103, rerun_failed.py:39).
ScoredOnce ==
  /\ OnePerExample(file)
  /\ Indices(unflushed) \cap Indices(file) = {}

\* What is on its way into the file, when the program ends as it should.
Held == IF pc \in {"rerun_open", "rescore_open"} THEN buffer ELSE file \cup unflushed \cup buffer

\* Until it is interrupted, a program gives up no example the file had: a record with a query
\* stays as it is ("Everything else is trustworthy as-is"; rescore_all may change the
\* verdict), a failed one stays or is about to be scored again (rerun_failed.py:19-29, rescore_all.py:17-29).
NothingDropped ==
  pc # "idle" => \A r \in before :
    \/ \E q \in Held : /\ q.index = r.index
                       /\ pc \notin {"rescore_open", "rescore"} /\ r.sql => q = r
    \/ ~r.sql /\ r.index \in todo

\* run_full_eval only ever adds to the file, also when it is interrupted (eval_full.py:101).
CheckpointsStay == [][pc = "full" => file \subseteq file']_vars

\* An interruption of run_full_eval costs the scores of at most save_every examples (eval_full.py:142).
LossBounded ==
  [][pc = "full" =>
       Cardinality(file \cup unflushed \cup buffer)
         <= Cardinality(file' \cup unflushed' \cup buffer') + SaveEvery]_vars

\* All scores that run_full_eval ever logs, in however many sessions, go to one wandb run ("keeps
\* one continuous history for the whole eval"), and it is the one the file names: a run that an
\* interruption left without its id in the file got no score (eval_full.py:51-55, 61-75, 135).
OneHistory == logged \subseteq {runFile}

\* However often it is interrupted, the evaluation gets to a file with every example, unless an
\* interruption left half a line behind, which no program can read, or an empty file for the
\* run's id, with which no session of run_full_eval starts: nothing repairs either of them.
EveryExampleScored == []<>(Indices(file) = Examples \/ ~Readable \/ runFile = EmptyFile)
=============================================================================
