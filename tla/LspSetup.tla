------------------------------- MODULE LspSetup -------------------------------
(***************************************************************************)
(* `awf lsp setup --apply` and `awf lsp materialize --apply`: merging      *)
(* entries into files other people and other worktrees also edit.          *)
(*                                                                         *)
(* A setup reads every file, computes what each should become, checks all  *)
(* of them again and then publishes them one by one without any lock.  An  *)
(* existing file is exchanged with a temporary one by renameat2, and the   *)
(* displaced file is only removed once it is known to be the one that was  *)
(* read; otherwise it stays behind as a recovery backup.  Who had the file *)
(* open still writes into the displaced one.                               *)
(***************************************************************************)
EXTENDS Naturals, FiniteSets

CONSTANTS
  Setup,    \* concurrent commands: setup or materialize, of worktrees of one clone
  Entry,    \* lines or servers a file is made of
  Own,      \* Own[p]: the entries p adds to each file
  Files,    \* files are published in the order 1..Files
  Toml,     \* the file that is .awf/worktree.toml
  Settings, \* what load_worktree_config reads of a file
  Mention,  \* an entry of worktree.toml that says prepare, without the header [prepare]
  Missing,
  MaxEdits, MaxRuns   \* bounds: edits of users, commands started

File == 1..Files

VARIABLES
  file,     \* per path: the inode there and its text
  backup,   \* per path: texts left under temporary names
  written,  \* history, per path: entries that were ever there
  late,     \* history, per path: of these, written into a displaced file after
            \* its text was compared
  setup,    \* per command: the step it is at and what it has read
  inodes,   \* inodes used so far
  edits, runs

setupVars == <<file, backup, written, late, setup, inodes, edits, runs>>

Text == SUBSET Entry
Node == [inode : Nat, text : Text]

\* What the constants must satisfy; a module that instantiates this one assumes it.
SetupAssumption ==
  /\ Own \in [Setup -> SUBSET Entry]
  /\ Missing \notin Node /\ \A t \in Text : t # Missing
  /\ Settings \subseteq Entry /\ Mention \in Entry /\ Toml \in File
  /\ Files \in Nat \ {0} /\ MaxEdits \in Nat /\ MaxRuns \in Nat

NoSetup == [at |-> "idle", k |-> 1, source |-> [f \in File |-> Missing], temp |-> Missing,
         old |-> 0, new |-> 0, applied |-> FALSE, result |-> "none"]

SetupTypeOK ==
  /\ file \in [File -> Node \cup {Missing}]
  /\ backup \in [File -> SUBSET Text]
  /\ written \in [File -> Text] /\ late \in [File -> Text]
  /\ setup \in [Setup ->
       [at : {"idle", "planned", "next", "current", "noted", "exchanged", "sameInodes",
              "sameTexts"},
        k : 1..(Files + 1), source : [File -> Text \cup {Missing}],
        temp : Node \cup {Missing}, old : Nat, new : Nat, applied : BOOLEAN,
        result : {"none", "blocked", "partial", "applied"}]]
  /\ inodes \in Nat /\ edits \in 0..MaxEdits /\ runs \in 0..MaxRuns

SetupInit ==
  /\ file \in [File -> {Missing} \cup {[inode |-> 1, text |-> t] : t \in {{}, {Mention}}}]
  /\ backup = [f \in File |-> {}]
  /\ written = [f \in File |-> IF file[f] = Missing THEN {} ELSE file[f].text]
  /\ late = [f \in File |-> {}]
  /\ setup = [p \in Setup |-> NoSetup]
  /\ inodes = 1
  /\ edits = 0 /\ runs = 0

-----------------------------------------------------------------------------
(* Helpers.                                                                *)

\* _source_fingerprint: a file is known by its text, or is missing.
Fingerprint(f) == IF file[f] = Missing THEN Missing ELSE file[f].text

\* Setups alone write the header, with their own entries under it.
NoHeader(text) == \A p \in Setup : Own[p] \cap text = {}

\* _merge_exclude, _merge_lsp_document, _prepare_worktree_content: what was read, and
\* the own entries it lacks; or what was parsed of it, where no place is found for them.
Desired(p, f) ==
  LET source == setup[p].source[f]
  IN  Own[p] \cup (IF source = Missing THEN {}
                   ELSE IF f = Toml /\ Mention \in source /\ NoHeader(source)
                   THEN source \cap Settings ELSE source)

\* _source_needs_write.
NeedsWrite(p, f) == setup[p].source[f] # Desired(p, f)

At(p, step) == setup[p].at = step

StepTo(p, step) == setup' = [setup EXCEPT ![p].at = step]

\* _with_apply_failure.
Failure(p) == IF setup[p].applied THEN "partial" ELSE "blocked"

\* The command ends.  Its temporary file, when there is one, is removed, or kept
\* as the recovery backup.
End(p, result, keep) ==
  /\ setup' = [setup EXCEPT ![p] = [NoSetup EXCEPT !.result = result]]
  /\ backup' = IF keep /\ setup[p].temp # Missing
               THEN [backup EXCEPT ![setup[p].k] = @ \cup {setup[p].temp.text}]
               ELSE backup

\* Once exchanged, a failure keeps the displaced file.
Fail(p) == End(p, Failure(p), setup[p].at \in {"exchanged", "sameInodes", "sameTexts"})

-----------------------------------------------------------------------------
(* The command.                                                            *)

\* _build_setup_plan: every source is read.  Nothing relates one file to another, so
\* the reads are one step.
Plan(p) ==
  /\ At(p, "idle")
  /\ runs < MaxRuns
  /\ runs' = runs + 1
  /\ setup' = [setup EXCEPT ![p] =
       [NoSetup EXCEPT !.at = "planned", !.source = [f \in File |-> Fingerprint(f)]]]
  /\ UNCHANGED <<file, backup, written, late, inodes, edits>>

\* _revalidate_setup_sources, before the first write.
Revalidate(p) ==
  /\ At(p, "planned")
  /\ IF \A f \in File : Fingerprint(f) = setup[p].source[f]
     THEN StepTo(p, "next") /\ UNCHANGED backup
     ELSE Fail(p)
  /\ UNCHANGED <<file, written, late, inodes, edits, runs>>

\* _assert_source_current of the next file that needs a write; the temporary file
\* is written.
CheckSource(p) ==
  LET k == setup[p].k
  IN  /\ At(p, "next") /\ k <= Files
      /\ IF ~NeedsWrite(p, k)
         THEN setup' = [setup EXCEPT ![p].k = @ + 1] /\ UNCHANGED <<backup, inodes>>
         ELSE IF Fingerprint(k) # setup[p].source[k]
         THEN Fail(p) /\ UNCHANGED inodes
         ELSE /\ setup' = [setup EXCEPT ![p].at = "current",
                   ![p].temp = [inode |-> inodes + 1, text |-> Desired(p, k)]]
              /\ inodes' = inodes + 1
              /\ UNCHANGED backup
      /\ UNCHANGED <<file, written, late, edits, runs>>

NextFile(p) ==
  setup' = [setup EXCEPT ![p].at = "next", ![p].k = @ + 1, ![p].temp = Missing,
                         ![p].old = 0, ![p].new = 0, ![p].applied = TRUE]

\* _publish_new_file: a hard link, which never replaces a file that has come up.
PublishNew(p) ==
  LET k == setup[p].k
  IN  /\ At(p, "current") /\ setup[p].source[k] = Missing
      /\ IF file[k] # Missing THEN Fail(p) /\ UNCHANGED <<file, written>>
         ELSE /\ file' = [file EXCEPT ![k] = setup[p].temp]
              /\ written' = [written EXCEPT ![k] = @ \cup setup[p].temp.text]
              /\ NextFile(p)
              /\ UNCHANGED backup
      /\ UNCHANGED <<late, inodes, edits, runs>>

\* _publish_existing_file, up to the exchange: the inode about to be displaced.
NoteInode(p) ==
  /\ At(p, "current") /\ setup[p].source[setup[p].k] # Missing
  /\ setup' = [setup EXCEPT ![p].at = "noted", ![p].old = file[setup[p].k].inode,
                            ![p].new = setup[p].temp.inode]
  /\ UNCHANGED <<file, backup, written, late, inodes, edits, runs>>

Exchange(p) ==
  LET k == setup[p].k
  IN  /\ At(p, "noted")
      /\ file' = [file EXCEPT ![k] = setup[p].temp]
      /\ written' = [written EXCEPT ![k] = @ \cup setup[p].temp.text]
      /\ setup' = [setup EXCEPT ![p].at = "exchanged", ![p].temp = file[k]]
      /\ UNCHANGED <<backup, late, inodes, edits, runs>>

\* The displaced file is the one noted, the published one is still there.
CheckInodes(p) ==
  /\ At(p, "exchanged")
  /\ IF setup[p].temp.inode = setup[p].old /\ file[setup[p].k].inode = setup[p].new
     THEN StepTo(p, "sameInodes") /\ UNCHANGED backup
     ELSE Fail(p)
  /\ UNCHANGED <<file, written, late, inodes, edits, runs>>

\* Mutant: the inodes are enough.
CheckNoTexts(p) ==
  /\ At(p, "sameInodes")
  /\ StepTo(p, "sameTexts")
  /\ UNCHANGED <<file, backup, written, late, inodes, edits, runs>>

\* The displaced file still has the text that was read, the published one its own.
CheckTexts(p) ==
  LET k == setup[p].k
  IN  /\ At(p, "sameInodes")
      /\ IF setup[p].temp.text = setup[p].source[k] /\ Fingerprint(k) = Desired(p, k)
         THEN StepTo(p, "sameTexts") /\ UNCHANGED backup
         ELSE Fail(p)
      /\ UNCHANGED <<file, written, late, inodes, edits, runs>>

Unlink(p) ==
  /\ At(p, "sameTexts")
  /\ NextFile(p)
  /\ UNCHANGED <<file, backup, written, late, inodes, edits, runs>>

Finish(p) ==
  /\ At(p, "next") /\ setup[p].k > Files
  /\ End(p, "applied", FALSE)
  /\ UNCHANGED <<file, written, late, inodes, edits, runs>>

\* A failing file operation, a changed ancestor or a changed identity.
Broken(p) ==
  /\ setup[p].at # "idle"
  /\ Fail(p)
  /\ UNCHANGED <<file, written, late, inodes, edits, runs>>

\* The process is killed: the temporary file stays, whatever it is.
Die(p) ==
  /\ setup[p].at # "idle"
  /\ End(p, "none", TRUE)
  /\ UNCHANGED <<file, written, late, inodes, edits, runs>>

\* Somebody adds an entry, in place or by renaming a new file over the path.
Edit(f, e) ==
  /\ edits < MaxEdits
  /\ e \notin written[f]
  /\ \E inode \in {inodes + 1} \cup (IF file[f] = Missing THEN {} ELSE {file[f].inode}) :
       /\ file' = [file EXCEPT ![f] = [inode |-> inode, text |->
            (IF file[f] = Missing THEN {} ELSE file[f].text) \cup {e}]]
       /\ inodes' = IF inode > inodes THEN inode ELSE inodes
  /\ written' = [written EXCEPT ![f] = @ \cup {e}]
  /\ edits' = edits + 1
  /\ UNCHANGED <<backup, late, setup, runs>>

\* Somebody who opened the file before it was displaced writes into it.
EditDisplaced(p, e) ==
  LET k == setup[p].k
  IN  /\ edits < MaxEdits
      /\ setup[p].at \in {"exchanged", "sameInodes", "sameTexts"}
      /\ e \notin written[k]
      /\ setup' = [setup EXCEPT ![p].temp.text = @ \cup {e}]
      /\ written' = [written EXCEPT ![k] = @ \cup {e}]
      /\ late' = IF At(p, "sameTexts") THEN [late EXCEPT ![k] = @ \cup {e}] ELSE late
      /\ edits' = edits + 1
      /\ UNCHANGED <<file, backup, inodes, runs>>

SetupNext ==
  \/ \E p \in Setup :
       \/ Plan(p) \/ Revalidate(p) \/ CheckSource(p) \/ PublishNew(p) \/ NoteInode(p)
       \/ Exchange(p) \/ CheckInodes(p) \/ CheckTexts(p) \/ Unlink(p) \/ Finish(p)
       \/ Broken(p) \/ Die(p)
       \/ \E e \in Entry : EditDisplaced(p, e)
  \/ \E f \in File, e \in Entry : Edit(f, e)

SetupSpec == SetupInit /\ [][SetupNext]_setupVars

-----------------------------------------------------------------------------
(* Properties.                                                             *)

Held(p, f) == IF setup[p].k = f /\ setup[p].temp # Missing THEN setup[p].temp.text ELSE {}

\* What the parser does not know of a worktree.toml that says prepare without its header.
Unparsed(f, e) == f = Toml /\ e \notin Settings /\ Mention \in written[f]

\* What a user wrote, or a setup published, is still at its path, or in the displaced
\* file a running setup holds, or in a backup that one left (lsp_setup.py:1754, 1834).
\* Two kinds of text are not: what somebody who has the displaced file open writes into
\* it between the comparison of its text and its removal (1805-1818), and the comments
\* and unknown lines of a worktree.toml that is written anew from its parse (1473).
NothingLost ==
  \A f \in File : \A e \in written[f] \ late[f] :
    \/ Unparsed(f, e)
    \/ file[f] # Missing /\ e \in file[f].text
    \/ \E p \in Setup : e \in Held(p, f)
    \/ \E text \in backup[f] : e \in text
=============================================================================
