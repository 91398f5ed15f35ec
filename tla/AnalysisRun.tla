----------------------------- MODULE AnalysisRun -----------------------------
(***************************************************************************)
(* `awf analyze` of one domain: commands/analyze.py over                   *)
(* core/analysis_resume.py, analysis_store.py and analysis_outputs.py.  A  *)
(* run hashes the sources, reconciles .analysis-state.json with what an    *)
(* earlier run left (resume), then skips, stops, rewrites the outputs of a *)
(* saved provider result, or calls the provider, writes its files one by   *)
(* one, runs Stage 3, finalizes, and publishes .tmp/hashes.json.  It may   *)
(* die between any two of those.  .analysis-run.lock keeps it the only     *)
(* run; the user edits sources and configuration, and removes outputs, at  *)
(* any time.                                                               *)
(***************************************************************************)
EXTENDS Naturals, FiniteSets

CONSTANTS
  Files,       \* the required output files
  Sources,     \* contents the domain's directories may have
  NoSources,   \* the one in which no file matches, where it is among them
  Configs,     \* contents of the bundle configuration
  DeepConfigs, \* those that name related domains, so that Stage 3 is wanted
  Cross,       \* execution_mode = cross: a second provider judges the first
  MaxRuns,     \* bound: invocations that get past the lock
  None,
  Deleted      \* what is at an output the user has removed

\* A saved answer: its files, whether it said anything, what it was made of, and
\* which provider of which run gave it.
Result == [files : SUBSET Files, said : BOOLEAN, of : [source : Sources, config : Configs],
           run : Nat, second : BOOLEAN]

AnalysisAssumption ==
  /\ Files # {} /\ IsFiniteSet(Files)
  /\ None \notin Sources \cup Configs \cup Result
  /\ Deleted \notin Result \cup {None}
  /\ DeepConfigs \subseteq Configs
  /\ Cross \in BOOLEAN
  /\ MaxRuns \in Nat

VARIABLES
  source, config, \* what the directories and the configuration hold now
  doc,      \* .analysis-state.json
  result,   \* the provider result that artifacts.result_file names, or None
  outputs,  \* the result each output file was written from, None, or Deleted
  hashes,   \* the source .tmp/hashes.json describes, or None
  run,      \* the process that holds .analysis-run.lock
  runs,     \* how many there have been
  owed      \* history: whether a Stage 3 failed and neither passed nor was
            \* skipped since, and whether something else has stood in for it

analysisVars == <<source, config, doc, result, outputs, hashes, run, runs, owed>>
user == <<source, config>>
disk == <<doc, result, outputs, hashes>>

Fresh == [bundle |-> None, stage1 |-> FALSE, stage2 |-> "pending", retry2 |-> 0,
          stage3 |-> "pending", retry3 |-> 0, output |-> "pending"]

\* What a provider may answer: the files it wrote, whether it wrote to stdout
\* at all, and whether it exited 0.
Answers == {a \in [files : SUBSET Files, said : BOOLEAN, ok : BOOLEAN] :
              a.files # {} => a.said}

NoRun == [pc |-> "idle"]

AnalysisInit ==
  /\ source \in Sources /\ config \in Configs
  /\ doc = Fresh /\ result = None /\ hashes = None
  /\ outputs = [f \in Files |-> None]
  /\ run = NoRun /\ runs = 0 /\ owed = "no"

\* output_files_present
Present == \A f \in Files : outputs[f] \notin {None, Deleted}

Deep(c) == c \in DeepConfigs

-----------------------------------------------------------------------------
(* Resume: resolve_analysis_resume under the state lock.                   *)

\* hashes_changed counts only against a published baseline.
Changed(src) == hashes # None /\ hashes # src
Invalidated(cfg) == doc.bundle # None /\ doc.bundle # cfg
Stale(src, cfg) == Changed(src) \/ Invalidated(cfg)

\* A Stage 3 that was running is pending again; one that failed keeps the
\* output failed and is retried in a new generation or within its budget.
Stage3Retried(d, src, cfg) ==
  CASE d.stage3 = "in_progress" -> [d EXCEPT !.stage3 = "pending"]
    [] d.stage3 = "failed" ->
         LET stale == Stale(src, cfg) IN
         [d EXCEPT !.output = "failed",
                   !.retry3 = IF stale THEN 0 ELSE @,
                   !.stage3 = IF stale \/ (Deep(cfg) /\ d.retry3 < 2)
                              THEN "pending" ELSE @]
    [] OTHER -> d

\* A completed analysis of another generation starts over.
Restarted(d, src, cfg) ==
  IF doc.output = "completed" /\ Present /\ Stale(src, cfg)
  THEN [d EXCEPT !.stage2 = "pending", !.retry2 = 0, !.output = "pending"]
  ELSE d

\* A failed Stage 2 of another generation gets its budget back.
Stage2Retried(d, src, cfg) ==
  IF d.stage2 = "failed" /\ Stale(src, cfg) THEN [d EXCEPT !.retry2 = 0] ELSE d

Resumed(src, cfg) ==
  Stage2Retried(Restarted(Stage3Retried(doc, src, cfg), src, cfg), src, cfg)

Skips(src, cfg) ==
  /\ doc.output = "completed" /\ Present /\ ~ Stale(src, cfg)
  /\ hashes # None /\ doc.stage3 # "failed"

Stage2Blocked(d) == d.stage2 = "failed" /\ d.retry2 >= 2
Stage3Blocked(src, cfg) ==
  doc.stage3 = "failed" /\ ~ Stale(src, cfg) /\ Deep(cfg) /\ doc.retry3 >= 2

\* A result was saved and never written out: it is reused, kept aside for the
\* Stage 3 that still has to run, or thrown away.
Unwritten(d) ==
  result # None /\ d.stage2 \in {"in_progress", "completed"} /\ ~ Present
Reusable(d, src, cfg) ==
  Unwritten(d) /\ d.stage1 /\ ~ Stale(src, cfg) /\ doc.stage3 # "failed"
Discarded(d, src, cfg) ==
  \/ Unwritten(d) /\ (~ d.stage1 \/ Stale(src, cfg))
  \/ d.stage2 = "failed" /\ d.retry2 < 2

Verdict(src, cfg) ==
  LET d == Resumed(src, cfg) IN
  CASE Skips(src, cfg) -> "idle"
    [] Stage2Blocked(d) \/ Stage3Blocked(src, cfg) -> "idle"
    [] Reusable(d, src, cfg) -> "reuse"
    [] OTHER -> "bundle"

\* A new generation owes nothing.  A retry that was cut short left its Stage 3
\* pending, so that a result reused now is not kept aside for it.
OwedAfter(src, cfg) ==
  CASE Stale(src, cfg) -> "no"
    [] owed = "owed" /\ doc.stage3 # "failed" /\ Verdict(src, cfg) = "reuse" -> "excused"
    [] OTHER -> owed

\* A run takes .analysis-run.lock, hashes the sources and resumes.  A second
\* run finds the lock taken and returns 4.
Start ==
  LET src == source
      cfg == config
      d == Resumed(src, cfg) IN
  /\ run.pc = "idle" /\ runs < MaxRuns
  /\ runs' = runs + 1
  /\ doc' = d
  /\ result' = IF ~ Skips(src, cfg) /\ Discarded(d, src, cfg) THEN None ELSE result
  /\ owed' = OwedAfter(src, cfg)
  /\ run' = IF Verdict(src, cfg) = "idle" THEN NoRun
            ELSE [pc |-> Verdict(src, cfg), hashed |-> src, cfg |-> cfg,
                  answer |-> None, todo |-> {}, missing |-> Files, ok |-> TRUE,
                  reused |-> FALSE, second |-> FALSE]
  /\ UNCHANGED <<user, outputs, hashes>>

-----------------------------------------------------------------------------
(* The outputs of a result, written to staging files and then moved one    *)
(* after the other.                                                        *)

Writing(r, rest) == [run EXCEPT !.pc = "write", !.answer = r, !.todo = r.files,
                                !.missing = Files \ r.files, !.reused = rest]

\* The saved text of a provider that said nothing is its stderr, which may be
\* empty: then there is nothing to reuse.
Reuse ==
  /\ run.pc = "reuse"
  /\ \/ run' = Writing(result, TRUE)
     \/ ~ result.said /\ run' = [run EXCEPT !.pc = "bundle"]
  /\ UNCHANGED <<user, disk, runs, owed>>

MoveOutput ==
  /\ run.pc = "write"
  /\ \E f \in run.todo :
       /\ outputs' = [outputs EXCEPT ![f] = run.answer]
       /\ run' = [run EXCEPT !.todo = @ \ {f}]
  /\ UNCHANGED <<user, doc, result, hashes, runs, owed>>

Written ==
  /\ run.pc = "write" /\ run.todo = {}
  /\ run' = [run EXCEPT !.pc = IF run.reused \/ run.second THEN "finalize" ELSE "stage3"]
  /\ UNCHANGED <<user, disk, runs, owed>>

-----------------------------------------------------------------------------
(* The provider run.                                                       *)

\* Stage 1, the bundles and the memo.
BuildBundle ==
  /\ run.pc = "bundle"
  /\ doc' = [doc EXCEPT !.bundle = run.cfg, !.stage1 = TRUE,
                        !.output = IF run.hashed = NoSources THEN "failed" ELSE @]
  /\ run' = IF run.hashed = NoSources THEN NoRun
            ELSE [run EXCEPT !.pc = "call"]
  /\ UNCHANGED <<user, result, outputs, hashes, runs, owed>>

CallProvider ==
  /\ run.pc = "call"
  /\ doc' = [doc EXCEPT !.stage2 = "in_progress", !.output = "in_progress"]
  /\ run' = [run EXCEPT !.pc = "provider", !.missing = Files, !.reused = FALSE]
  /\ UNCHANGED <<user, result, outputs, hashes, runs, owed>>

Saved(a, second) ==
  [files |-> a.files, said |-> a.said, of |-> [source |-> run.hashed, config |-> run.cfg],
   run |-> runs, second |-> second]

\* Whatever the provider answers is saved; what it wrote to stdout is written
\* out even when it failed.
ProviderAnswers ==
  /\ run.pc = "provider"
  /\ \E a \in Answers :
       /\ result' = Saved(a, FALSE)
       /\ run' = IF a.said THEN [Writing(Saved(a, FALSE), FALSE) EXCEPT !.ok = a.ok]
                 ELSE [run EXCEPT !.pc = "finalize", !.ok = a.ok, !.missing = Files]
  /\ UNCHANGED <<user, doc, outputs, hashes, runs, owed>>

\* Ctrl-C during the provider run does not spend the retry budget.
InterruptProvider ==
  /\ run.pc = "provider"
  /\ doc' = [doc EXCEPT !.stage2 = "failed"]
  /\ run' = NoRun
  /\ UNCHANGED <<user, result, outputs, hashes, runs, owed>>

-----------------------------------------------------------------------------
(* Stage 3, and the second provider of cross mode.                         *)

AfterStage3 == [run EXCEPT !.pc = IF Cross /\ run.ok THEN "cross" ELSE "finalize"]

Stage3Ends(status) ==
  /\ doc' = [doc EXCEPT !.stage3 = status, !.retry3 = 0]
  /\ run' = AfterStage3
  /\ UNCHANGED <<user, result, outputs, hashes, runs>>

\* Outside deep mode, or by the routing policy.
SkipStage3 == run.pc = "stage3" /\ Stage3Ends("skipped") /\ owed' = "no"

\* A note in place of the validation: no project bundle, no provider that can,
\* or an answer with files missing.  It takes the place of a failed one, too.
ScaffoldStage3 ==
  /\ run.pc = "stage3" /\ Deep(run.cfg) /\ Stage3Ends("scaffold")
  /\ owed' = IF owed = "no" THEN "no" ELSE "excused"

StartStage3 ==
  /\ run.pc = "stage3" /\ Deep(run.cfg) /\ run.missing = {}
  /\ doc' = [doc EXCEPT !.stage3 = "in_progress"]
  /\ run' = [run EXCEPT !.pc = "validate"]
  /\ UNCHANGED <<user, result, outputs, hashes, runs, owed>>

PassStage3 == run.pc = "validate" /\ Stage3Ends("completed") /\ owed' = "no"

\* The validation fails, and the run goes on to finalize; or Ctrl-C ends it.
FailStage3 ==
  /\ run.pc = "validate"
  /\ doc' = [doc EXCEPT !.stage3 = "failed", !.retry3 = @ + 1, !.output = "failed"]
  /\ owed' = "owed"
  /\ run' \in {AfterStage3, NoRun}
  /\ UNCHANGED <<user, result, outputs, hashes, runs>>

\* The second provider answers: the judge keeps the first answer, takes the
\* second and writes its files over the first's, or rejects the pair.
JudgeSecond ==
  /\ run.pc = "cross"
  /\ \E a \in {b \in Answers : b.ok /\ b.said} : \E passed \in BOOLEAN :
       \/ /\ run' = [run EXCEPT !.pc = "finalize", !.ok = passed]
          /\ UNCHANGED result
       \/ /\ result' = Saved(a, TRUE)
          /\ run' = [Writing(Saved(a, TRUE), FALSE) EXCEPT !.ok = passed, !.second = TRUE]
  /\ UNCHANGED <<user, doc, outputs, hashes, runs, owed>>

-----------------------------------------------------------------------------
(* The end of a run.                                                       *)

\* Mutant: the files an earlier generation left count for this answer.
CompleteByPresence == run.ok /\ Present

Complete == run.ok /\ run.missing = {} /\ Present

\* Mutant: the outputs decide, and a failed Stage 3 is forgotten.
FinalDocByOutputs ==
  IF Complete
  THEN [doc EXCEPT !.stage2 = "completed", !.retry2 = 0, !.output = "completed"]
  ELSE [doc EXCEPT !.stage2 = "failed", !.retry2 = @ + 1, !.output = "failed"]

FinalDoc ==
  IF Complete
  THEN [doc EXCEPT !.stage2 = "completed", !.retry2 = 0,
                   !.output = IF doc.stage3 = "failed" THEN "failed" ELSE "completed"]
  ELSE [doc EXCEPT !.stage2 = "failed", !.retry2 = @ + 1, !.output = "failed"]

\* After a reused result that does not complete the analysis, the same
\* invocation goes on to call the provider.
Finalize ==
  /\ run.pc = "finalize"
  /\ doc' = FinalDoc
  /\ run' = CASE doc'.output = "completed" -> [run EXCEPT !.pc = "publish"]
              [] run.reused -> [run EXCEPT !.pc = "bundle", !.ok = TRUE]
              [] OTHER -> NoRun
  /\ UNCHANGED <<user, result, outputs, hashes, runs, owed>>

\* save_hashes_file: the sources as they were when the run began.
Publish ==
  /\ run.pc = "publish"
  /\ hashes' = run.hashed
  /\ run' = NoRun
  /\ UNCHANGED <<user, doc, result, outputs, runs, owed>>

\* The process is killed, or an exception it does not catch ends it.
Die ==
  /\ run.pc # "idle" /\ run' = NoRun
  /\ UNCHANGED <<user, disk, runs, owed>>

Edit ==
  /\ \/ source' \in Sources \ {source} /\ UNCHANGED config
     \/ config' \in Configs \ {config} /\ UNCHANGED source
  /\ UNCHANGED <<disk, run, runs, owed>>

\* The user removes an output file.
RemoveOutput ==
  /\ \E f \in Files : /\ outputs[f] \notin {None, Deleted}
                      /\ outputs' = [outputs EXCEPT ![f] = Deleted]
  /\ UNCHANGED <<user, doc, result, hashes, run, runs, owed>>

AnalysisNext ==
  \/ Start \/ Reuse \/ MoveOutput \/ Written
  \/ BuildBundle \/ CallProvider \/ ProviderAnswers \/ InterruptProvider
  \/ SkipStage3 \/ ScaffoldStage3 \/ StartStage3 \/ PassStage3 \/ FailStage3
  \/ JudgeSecond \/ Finalize \/ Publish \/ Die \/ Edit \/ RemoveOutput

AnalysisSpec == AnalysisInit /\ [][AnalysisNext]_analysisVars

-----------------------------------------------------------------------------
(* Properties.                                                             *)

\* An analysis that says it is completed has written one whole answer: no file
\* of an earlier generation survives among the outputs, whatever runs died
\* half-way through their moves, answered in part, or were resumed from a saved
\* result, and whatever outputs were removed.
OneGeneration ==
  doc.output = "completed" =>
    \A f, g \in Files : /\ outputs[f] # None
                        /\ Deleted \notin {outputs[f], outputs[g]} => outputs[f] = outputs[g]

\* A required Stage 3 that failed keeps the analysis from completing: a reused
\* result does not get around it, nor do outputs that are all there.  Within its
\* generation two things besides a later pass or a skip by policy do release it:
\* a scaffold note written in its place (analyze.py:1291), and a saved result
\* reused over removed outputs after the run that was to retry it died, which
\* left it pending (analysis_resume.py:174).
FailedStage3Counts == doc.output = "completed" => owed # "owed"

\* cli/README.md:1241: after a required Stage 3 failed, only a later Stage 3 that
\* succeeds or is skipped by policy releases the failed state.
FailedStage3Resolved == doc.output = "completed" => owed = "no"

\* cli/README.md:1243: a saved result is reused only when it belongs to the
\* source and configuration of the run that reuses it.
ReuseIsCurrent ==
  run.pc = "reuse" => result.of = [source |-> run.hashed, config |-> run.cfg]
=============================================================================
