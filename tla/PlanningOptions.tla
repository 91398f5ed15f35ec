---------------------------- MODULE PlanningOptions ----------------------------
(***************************************************************************)
(* The options of a plan: `awf wf select-option` and `awf wf seal-plan`.   *)
(*                                                                         *)
(* A selection is published in planning-options.json, the plan outputs of  *)
(* the previous choice are archived one by one, and state.json is told     *)
(* under its own lock.  A journal written before the artifact lets the     *)
(* next selection finish what a dead command began.  All of this is under  *)
(* the selection lock; the planner that writes the outputs and the other   *)
(* commands that write state.json do not take it.                          *)
(***************************************************************************)
EXTENDS Naturals, FiniteSets

CONSTANTS
  Selector,      \* concurrent select-option and seal-plan commands
  Decision, Option,
  Output,        \* the six plan artifacts a seal binds
  Unset,
  MaxSelections  \* bound: selections published

VARIABLES
  artifact,  \* planning-options.json; its hash is the number of its history entries
  journal,   \* .planning-options-reconcile
  output,    \* per plan artifact: the artifact hash it was planned from, or Unset
  seal,      \* planning-provenance.json
  doc,       \* state.json: plan status, where the workflow is, marker, replans
  selecting, \* who holds planning-options.json.lock
  cmd,       \* per selector: the step it is at and what it holds in memory
  snapshot,  \* the document some other command loaded and will save
  planner,   \* the hash of the options the planner works from, or Unset
  applied,   \* history: the hashes whose selection was applied to state.json
  behind     \* history: outputs a planner has written from an earlier choice since the
             \* selection under way listed what it would archive

optionsVars ==
  <<artifact, journal, output, seal, doc, selecting, cmd, snapshot, planner, applied, behind>>

Hash == 0..MaxSelections
PlanStatus == {"pending", "in_progress", "deciding", "completed", "aborted"}

Artifact == [chosen : [Decision -> Option \cup {Unset}], hash : Hash,
             decision : Decision \cup {Unset}, option : Option \cup {Unset}]

Journal == [current : Hash, previous : Hash, decision : Decision, option : Option,
            complete : BOOLEAN]

Document == [plan : PlanStatus, past : BOOLEAN, marker : Hash, replans : Nat]

\* What the constants must satisfy; a module that instantiates this one assumes it.
OptionsAssumption ==
  /\ Decision # {} /\ Output # {}
  /\ Unset \notin Option /\ Unset \notin Selector /\ Unset \notin Journal
  /\ MaxSelections \in Nat

NoCommand ==
  [at |-> "idle", decision |-> Unset, option |-> Unset, previous |-> 0, todo |-> {}]

OptionsTypeOK ==
  /\ artifact \in Artifact
  /\ journal \in Journal \cup {Unset}
  /\ output \in [Output -> Hash \cup {Unset}]
  /\ seal \in [hash : Hash, output : [Output -> Hash]] \cup {Unset}
  /\ doc \in Document
  /\ snapshot \in Document \cup {Unset}
  /\ selecting \in Selector \cup {Unset}
  /\ cmd \in [Selector ->
       [at : {"idle", "begin", "journal", "publish", "stale", "check", "clean", "apply", "clear"},
        decision : Decision \cup {Unset}, option : Option \cup {Unset},
        previous : Hash, todo : SUBSET Output]]
  /\ planner \in Hash \cup {Unset}
  /\ applied \subseteq Hash /\ behind \subseteq Output

\* The planner published decisions nobody has selected yet and the plan phase
\* escaped to the user.
OptionsInit ==
  /\ artifact = [chosen |-> [d \in Decision |-> Unset], hash |-> 0,
                 decision |-> Unset, option |-> Unset]
  /\ journal = Unset
  /\ output = [f \in Output |-> Unset]
  /\ seal = Unset
  /\ doc = [plan |-> "deciding", past |-> FALSE, marker |-> 0, replans |-> 0]
  /\ snapshot = Unset
  /\ selecting = Unset
  /\ cmd = [p \in Selector |-> NoCommand]
  /\ planner = Unset
  /\ applied = {0} /\ behind = {}

-----------------------------------------------------------------------------
(* What the commands read.                                                 *)

Complete(a) == \A d \in Decision : a.chosen[d] # Unset

Present == {f \in Output : output[f] # Unset}

\* _selection_state_is_blocked.
Blocked(d) == d.plan = "aborted"

\* _reconciliation_pending: a journal is believed only when the artifact, its last
\* history entry included, is the one it announced.
JournalMatches ==
  /\ journal # Unset
  /\ journal.current = artifact.hash
  /\ journal.complete = Complete(artifact)
  /\ artifact.chosen[journal.decision] = journal.option
  /\ artifact.decision = journal.decision /\ artifact.option = journal.option

\* validate_planning_options_provenance, which G1 and approve ask: the seal names
\* the artifact and the outputs that are on disk.
Sealed ==
  /\ Complete(artifact)
  /\ seal # Unset
  /\ seal.hash = artifact.hash
  /\ seal.output = output

-----------------------------------------------------------------------------
(* select-option.                                                          *)

Goto(p, step) == cmd' = [cmd EXCEPT ![p].at = step]

Lock(p) == selecting = p

\* The process dies, or an I/O error ends the command: the lock goes with it and
\* everything on disk stays.
AbandonSelection(p) ==
  /\ selecting = p
  /\ selecting' = Unset
  /\ cmd' = [cmd EXCEPT ![p] = NoCommand]
  /\ behind' = {}
  /\ UNCHANGED <<artifact, journal, output, seal, doc, snapshot, planner, applied>>

\* The lock is taken and the document read; an aborted plan ends the command.
SelectBegin(p, d, o) ==
  /\ cmd[p] = NoCommand
  /\ selecting = Unset
  /\ ~Blocked(doc)
  /\ selecting' = p
  /\ cmd' = [cmd EXCEPT ![p] =
       [NoCommand EXCEPT !.at = "begin", !.decision = d, !.option = o]]
  /\ UNCHANGED <<artifact, journal, output, seal, doc, snapshot, planner, applied, behind>>

\* Mutant: the artifact is published before the journal that announces it.
PublishFirst(p) ==
  /\ Lock(p) /\ cmd[p].at = "begin"
  /\ artifact.chosen[cmd[p].decision] # cmd[p].option
  /\ artifact.hash < MaxSelections
  /\ artifact' = [chosen |-> [artifact.chosen EXCEPT ![cmd[p].decision] = cmd[p].option],
                  hash |-> artifact.hash + 1,
                  decision |-> cmd[p].decision, option |-> cmd[p].option]
  /\ cmd' = [cmd EXCEPT ![p].at = "stale", ![p].previous = artifact.hash, ![p].todo = Present]
  /\ UNCHANGED <<journal, output, seal, doc, selecting, snapshot, planner, applied, behind>>

\* A changed choice is first announced in the journal, over any older journal.
WriteJournal(p) ==
  LET chosen == [artifact.chosen EXCEPT ![cmd[p].decision] = cmd[p].option]
  IN  /\ Lock(p) /\ cmd[p].at = "begin"
      /\ artifact.chosen[cmd[p].decision] # cmd[p].option
      /\ artifact.hash < MaxSelections
      /\ journal' = [current |-> artifact.hash + 1, previous |-> artifact.hash,
                     decision |-> cmd[p].decision, option |-> cmd[p].option,
                     complete |-> \A d \in Decision : chosen[d] # Unset]
      /\ Goto(p, "publish")
      /\ UNCHANGED <<artifact, output, seal, doc, selecting, snapshot, planner, applied, behind>>

\* The same choice again changes nothing here.
Reuse(p) ==
  /\ Lock(p) /\ cmd[p].at = "begin"
  /\ artifact.chosen[cmd[p].decision] = cmd[p].option
  /\ Goto(p, "check")
  /\ UNCHANGED <<artifact, journal, output, seal, doc, selecting, snapshot, planner, applied, behind>>

Publish(p) ==
  /\ Lock(p) /\ cmd[p].at = "publish"
  /\ artifact' = [chosen |-> [artifact.chosen EXCEPT ![cmd[p].decision] = cmd[p].option],
                  hash |-> journal.current,
                  decision |-> cmd[p].decision, option |-> cmd[p].option]
  /\ cmd' = [cmd EXCEPT ![p].at = "stale", ![p].previous = artifact.hash, ![p].todo = Present]
  /\ UNCHANGED <<journal, output, seal, doc, selecting, snapshot, planner, applied, behind>>

\* _stale_planning_outputs: the outputs listed at its start are renamed away one
\* by one, the seal last.
StaleOne(p) ==
  /\ Lock(p) /\ cmd[p].at \in {"stale", "clean"}
  /\ \E f \in cmd[p].todo :
       /\ output' = [output EXCEPT ![f] = Unset]
       /\ cmd' = [cmd EXCEPT ![p].todo = @ \ {f}]
       /\ behind' = behind \ {f}
  /\ UNCHANGED <<artifact, journal, seal, doc, selecting, snapshot, planner, applied>>

StaleDone(p) ==
  /\ Lock(p) /\ cmd[p].at \in {"stale", "clean"}
  /\ cmd[p].todo = {}
  /\ seal' = Unset
  /\ Goto(p, IF cmd[p].at = "stale" THEN "check" ELSE "apply")
  /\ UNCHANGED <<artifact, journal, output, doc, selecting, snapshot, planner, applied, behind>>

\* Mutant: a journal found on disk is applied without archiving the outputs again.
CheckKeepingOutputs(p) ==
  /\ Lock(p) /\ cmd[p].at = "check"
  /\ JournalMatches
  /\ Goto(p, "apply")
  /\ UNCHANGED <<artifact, journal, output, seal, doc, selecting, snapshot, planner, applied, behind>>

\* A journal that matches is carried out, from the archive step on; one that does
\* not match, as after a death before the artifact was written, ends the command.
CheckJournal(p) ==
  /\ Lock(p) /\ cmd[p].at = "check"
  /\ JournalMatches
  /\ cmd' = [cmd EXCEPT ![p].at = "clean", ![p].todo = Present]
  /\ behind' = {}
  /\ UNCHANGED <<artifact, journal, output, seal, doc, selecting, snapshot, planner, applied>>

NothingPending(p) ==
  /\ Lock(p) /\ cmd[p].at = "check"
  /\ ~JournalMatches
  /\ selecting' = Unset
  /\ cmd' = [cmd EXCEPT ![p] = NoCommand]
  /\ UNCHANGED <<artifact, journal, output, seal, doc, snapshot, planner, applied, behind>>

\* What the document becomes: an applied selection is not applied twice, a waiting
\* plan goes on, and anything further on is replanned from the start.
SelectionOf(d, j) ==
  IF d.marker = j.current THEN d
  ELSE IF d.plan = "deciding" /\ ~d.past
  THEN [d EXCEPT !.plan = IF j.complete THEN "in_progress" ELSE @, !.marker = j.current]
  ELSE [d EXCEPT !.plan = "pending", !.past = FALSE, !.marker = j.current,
                 !.replans = @ + 1]

\* apply_planning_option_selection, on the latest document under its lock.
Apply(p) ==
  /\ Lock(p) /\ cmd[p].at = "apply"
  /\ \/ doc.marker = journal.current
     \/ ~Blocked(doc) /\ (journal.complete \/ (doc.plan = "deciding" /\ ~doc.past))
  /\ doc' = SelectionOf(doc, journal)
  /\ applied' = applied \cup {journal.current}
  /\ Goto(p, "clear")
  /\ UNCHANGED <<artifact, journal, output, seal, selecting, snapshot, planner, behind>>

ClearJournal(p) ==
  /\ Lock(p) /\ cmd[p].at = "clear"
  /\ journal' = Unset
  /\ selecting' = Unset
  /\ cmd' = [cmd EXCEPT ![p] = NoCommand]
  /\ behind' = {}
  /\ UNCHANGED <<artifact, output, seal, doc, snapshot, planner, applied>>

-----------------------------------------------------------------------------
(* seal-plan, the planner and the other commands.                          *)

\* seal_planning_options hashes whatever outputs are there under the lock; the
\* journal is not looked at.
SealPlan(p) ==
  /\ selecting = Unset /\ cmd[p] = NoCommand
  /\ Complete(artifact)
  /\ \A f \in Output : output[f] # Unset
  /\ seal' = [hash |-> artifact.hash, output |-> output]
  /\ UNCHANGED <<artifact, journal, output, doc, selecting, cmd, snapshot, planner, applied, behind>>

\* The planner reads the options once all are chosen, and works from them until it
\* reads them again.
PlannerReads ==
  /\ Complete(artifact)
  /\ doc.plan = "in_progress"
  /\ planner' = artifact.hash
  /\ UNCHANGED <<artifact, journal, output, seal, doc, selecting, cmd, snapshot, applied, behind>>

\* It writes its outputs when they are ready, whatever has been selected since.
PlannerWrites(f) ==
  /\ planner # Unset
  /\ output' = [output EXCEPT ![f] = planner]
  /\ behind' = IF planner # artifact.hash /\ \E p \in Selector : cmd[p].at \in {"clean", "apply"}
               THEN behind \cup {f} ELSE behind
  /\ UNCHANGED <<artifact, journal, seal, doc, selecting, cmd, snapshot, planner, applied>>

\* Any other command: its load and, later, its save over whatever was written
\* since, on the way of the plan phase from one status to another.
OtherLoads ==
  /\ snapshot = Unset
  /\ snapshot' = doc
  /\ UNCHANGED <<artifact, journal, output, seal, doc, selecting, cmd, planner, applied, behind>>

OtherSaves ==
  /\ snapshot # Unset
  /\ \E d \in {[snapshot EXCEPT !.plan = "in_progress"],
               [snapshot EXCEPT !.plan = "completed", !.past = TRUE],
               [snapshot EXCEPT !.plan = "aborted"]} :
       /\ snapshot.plan # "aborted" /\ ~snapshot.past
       /\ snapshot.plan = "pending" => d.plan = "in_progress"
       /\ doc' = d
  /\ snapshot' = Unset
  /\ UNCHANGED <<artifact, journal, output, seal, selecting, cmd, planner, applied, behind>>

OtherKeeps ==
  /\ snapshot # Unset
  /\ doc' = snapshot
  /\ snapshot' = Unset
  /\ UNCHANGED <<artifact, journal, output, seal, selecting, cmd, planner, applied, behind>>

OptionsNext ==
  \/ \E p \in Selector :
       \/ \E d \in Decision, o \in Option : SelectBegin(p, d, o)
       \/ WriteJournal(p) \/ Reuse(p) \/ Publish(p) \/ StaleOne(p) \/ StaleDone(p)
       \/ CheckJournal(p) \/ NothingPending(p) \/ Apply(p) \/ ClearJournal(p)
       \/ SealPlan(p) \/ AbandonSelection(p)
  \/ \E f \in Output : PlannerWrites(f)
  \/ PlannerReads \/ OtherLoads \/ OtherSaves \/ OtherKeeps

OptionsSpec == OptionsInit /\ [][OptionsNext]_optionsVars

-----------------------------------------------------------------------------
(* Properties.                                                             *)

\* A published selection is either applied to state.json or still announced by a
\* journal, its own or the one of the selection that was to follow it
\* (planning_options.py:1204, wf.py:953).  With its own, the next select-option
\* carries it out; with the other, only a changed choice does.
SelectionReconciled ==
  \/ artifact.hash \in applied
  \/ /\ journal # Unset
     /\ JournalMatches \/ journal.previous = artifact.hash

\* When state.json learns of a selection, no output that was there when the command
\* listed them (planning_options.py:1132) is of an earlier choice, however many commands
\* died on the way.  One that a planner of an earlier choice writes after that, without
\* the lock, is not archived, and stays active with the new choice (wf.py:955-958).
ReplanStartsClean ==
  [][applied' # applied =>
       \A f \in Output \ behind : output[f] \in {Unset, artifact.hash}]_optionsVars

\* What G1 and approve accept as sealed was planned from the options now selected
\* (the design: existing outputs "are no longer authoritative and must be
\* regenerated").  The code does not keep it.
SealIsFresh == Sealed => \A f \in Output : output[f] = artifact.hash
=============================================================================
