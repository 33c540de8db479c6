---------------------------- MODULE TemplateSeed ----------------------------
(* The repository every project is generated from: its seeding when a      *)
(* portal starts and its reset by an administrator                         *)
(* (typescript/portal/src/services/template-seed.ts), against edits made   *)
(* in Gitea meanwhile, other runs, failed calls and restarts.              *)
(*                                                                         *)
(* A write in Gitea names the blob it replaces and is refused when that is *)
(* not the file's blob any more; a content stands for its blob here.       *)
(***************************************************************************)
EXTENDS Naturals, FiniteSets

CONSTANTS
  Boots,     \* the starts of a portal, each with its run
  Resets,    \* the resets asked for by administrators
  Readme, Code, Extra,
  NoFile, Stub, Factory,
  Unmarked,
  MaxEdits   \* bound on the edits by hand

ASSUME TemplateSeedAssumption ==
  /\ MaxEdits \in Nat /\ Boots \cap Resets = {} /\ Unmarked \notin Boots \cup Resets
  /\ Readme # Code /\ Extra \notin {Readme, Code}
  /\ NoFile # Stub /\ Factory \notin {NoFile, Stub}
  /\ {NoFile, Stub, Factory} \cap (0 .. MaxEdits) = {}

VARIABLES
  repo,      \* "absent", "plain" or, with the flag that generating needs, "template"
  files,     \* the files of main, the sentinel apart
  mark,      \* the sentinel: the run that wrote it, for it holds the time of writing
  edits,     \* how many edits were made by hand
  gone,      \* the files deleted by hand and not there again
  runs

seedVars == <<repo, files, mark, edits, gone, runs>>

Runs == Boots \cup Resets
Baseline == {Readme, Code}
Paths == Baseline \cup {Extra}
Hand == 0 .. MaxEdits
Contents == {NoFile, Stub, Factory} \cup Hand
Empty == [p \in Paths |-> NoFile]
Over == {"done", "over"}
Steps == {"idle", "look", "create", "list", "flag", "write"} \cup Over

Run == [at : Steps, created : BOOLEAN, flagged : BOOLEAN,
        listing : [Paths -> Contents], listed : Runs \cup {Unmarked},
        left : SUBSET Paths, edited : SUBSET Paths]

SeedTypeOK ==
  /\ repo \in {"absent", "plain", "template"}
  /\ files \in [Paths -> Contents] /\ mark \in Runs \cup {Unmarked}
  /\ edits \in 0 .. MaxEdits /\ gone \subseteq Paths
  /\ runs \in [Runs -> Run]

Unstarted == [at |-> "idle", created |-> FALSE, flagged |-> FALSE, listing |-> Empty,
              listed |-> Unmarked, left |-> {}, edited |-> {}]

\* No repository yet, or one from before there was a sentinel, edited or not.
SeedInit ==
  /\ \/ repo = "absent" /\ files = Empty
     \/ /\ repo \in {"plain", "template"}
        /\ files \in {f \in [Paths -> {NoFile, Factory, 0}] : f[Extra] # Factory}
  /\ mark = Unmarked /\ edits = 0 /\ gone = {} /\ runs = [r \in Runs |-> Unstarted]

-----------------------------------------------------------------------------
(* The run.  `force` in the code is r \in Resets here.                     *)

Goes(r, step) == runs' = [runs EXCEPT ![r].at = step]
Ends(r, how) == runs' = [runs EXCEPT ![r] = [Unstarted EXCEPT !.at = how]]

Start(r) == runs[r].at = "idle" /\ Goes(r, "look") /\ UNCHANGED <<repo, files, mark, edits, gone>>

\* A call failed, or its answer was lost, or the portal died: nothing of the
\* run is kept but what it wrote.
BreaksOff(r) ==
  /\ runs[r].at \notin Over \cup {"idle"} /\ Ends(r, "over")
  /\ UNCHANGED <<repo, files, mark, edits, gone>>

Look(r) ==
  /\ runs[r].at = "look"
  /\ runs' = [runs EXCEPT ![r] = [runs[r] EXCEPT
                !.at = IF repo = "absent" THEN "create" ELSE "list",
                !.flagged = repo = "template"]]
  /\ UNCHANGED <<repo, files, mark, edits, gone>>

\* Already there is a success too, and the run takes the repository for its own.
Create(r) ==
  /\ runs[r].at = "create"
  /\ IF repo = "absent"
       THEN repo' = "template" /\ files' = [Empty EXCEPT ![Readme] = Stub]
       ELSE UNCHANGED <<repo, files>>
  /\ runs' = [runs EXCEPT ![r] = [runs[r] EXCEPT !.at = "list", !.created = TRUE]]
  /\ UNCHANGED <<mark, edits, gone>>

OnlyReadme(f) == \A p \in Paths \ {Readme} : f[p] = NoFile
NeverAdopts(r) == FALSE
\* Files and no sentinel: they may be somebody's, and only what is missing is added.
Adopts(r) == r \in Boots /\ ~ runs[r].created /\ mark = Unmarked /\ ~ OnlyReadme(files)

ToWrite(adopt) == {p \in Baseline : files[p] # Factory /\ (adopt => files[p] = NoFile)}
ToSweep(adopt) == IF adopt THEN {} ELSE {p \in Paths \ Baseline : files[p] # NoFile}
WritesOnly(r) == ToWrite(Adopts(r))
\* What the run that lists the files now has to write and to delete.
Todo(r) == ToWrite(Adopts(r)) \cup ToSweep(Adopts(r))

List(r) ==
  /\ runs[r].at = "list"
  /\ IF r \in Boots /\ ~ runs[r].created /\ mark # Unmarked
       THEN Ends(r, "over")   \* seeded, and the administrators' from then on
       ELSE runs' = [runs EXCEPT ![r] = [runs[r] EXCEPT
              !.listing = files, !.listed = mark, !.left = Todo(r), !.edited = {},
              !.at = IF runs[r].created \/ ~ runs[r].flagged THEN "flag" ELSE "write"]]
  /\ UNCHANGED <<repo, files, mark, edits, gone>>

Flag(r) ==
  /\ runs[r].at = "flag" /\ repo' = "template" /\ Goes(r, "write")
  /\ UNCHANGED <<files, mark, edits, gone>>

AnyBlob(r, p) == TRUE
\* Gitea takes the write only if the file is what the run listed, absence included.
Matches(r, p) == files[p] = runs[r].listing[p]

Left(r, p) == runs' = [runs EXCEPT ![r].left = @ \ {p}]

Write(r, p) ==
  /\ runs[r].at = "write" /\ p \in runs[r].left \cap Baseline
  /\ IF Matches(r, p)
       THEN files' = [files EXCEPT ![p] = Factory] /\ Left(r, p)
       ELSE Ends(r, "over") /\ UNCHANGED files
  /\ UNCHANGED <<repo, mark, edits, gone>>

Sweep(r, p) ==
  /\ runs[r].at = "write" /\ p \in runs[r].left \ Baseline /\ runs[r].left \cap Baseline = {}
  /\ IF Matches(r, p)
       THEN files' = [files EXCEPT ![p] = NoFile] /\ Left(r, p)
       ELSE Ends(r, "over") /\ UNCHANGED files
  /\ UNCHANGED <<repo, mark, edits, gone>>

AtOnce(r) == TRUE
\* The sentinel comes after everything else.
Whole(r) == runs[r].left = {}

Mark(r) ==
  /\ runs[r].at = "write" /\ Whole(r)
  /\ IF mark = runs[r].listed
       THEN mark' = r /\ Ends(r, "done")
       ELSE Ends(r, "over") /\ UNCHANGED mark
  /\ UNCHANGED <<repo, files, edits, gone>>

-----------------------------------------------------------------------------
(* By hand, in Gitea: a merged pull request of an administrator.           *)

Seen(p) == [r \in Runs |-> IF runs[r].at \in {"flag", "write"}
                               THEN [runs[r] EXCEPT !.edited = @ \cup {p}] ELSE runs[r]]

Edit(p) ==
  /\ repo # "absent" /\ edits < MaxEdits /\ edits' = edits + 1 /\ runs' = Seen(p)
  /\ \/ files' = [files EXCEPT ![p] = edits + 1] /\ gone' = gone \ {p}
     \/ files[p] # NoFile /\ files' = [files EXCEPT ![p] = NoFile] /\ gone' = gone \cup {p}
  /\ UNCHANGED <<repo, mark>>

\* The sentinel invites its deletion, for the next start to add what is missing.
Unmark ==
  /\ mark # Unmarked /\ edits < MaxEdits /\ edits' = edits + 1 /\ mark' = Unmarked
  /\ UNCHANGED <<repo, files, gone, runs>>

SeedStep(r) ==
  \/ Start(r) \/ BreaksOff(r) \/ Look(r) \/ Create(r) \/ List(r) \/ Flag(r) \/ Mark(r)
  \/ \E p \in Paths : Write(r, p) \/ Sweep(r, p)
SeedNext == Unmark \/ (\E r \in Runs : SeedStep(r)) \/ (\E p \in Paths : Edit(p))
SeedSpec == SeedInit /\ [][SeedNext]_seedVars

-----------------------------------------------------------------------------
(* The sentinel means that every file of the baseline is there, but for    *)
(* those deleted by hand: whatever failed half way, and whoever else was   *)
(* seeding, no part of a template passes for a whole one.  (With the types *)
(* of the variables.)                                                      *)
MarkedIsWhole ==
  /\ SeedTypeOK
  /\ mark # Unmarked => \A p \in Baseline : files[p] # NoFile \/ p \in gone

(* What somebody wrote is not lost to a run that had listed the files      *)
(* before; and a portal that starts takes away nobody's text at all, in a  *)
(* repository that it did not create, save a README that was alone.        *)
Spares(r, p) ==
  /\ p \notin runs[r].edited
  /\ r \in Boots => runs[r].created \/ OnlyReadme(runs[r].listing)
EditsSurvive ==
  [][\A r \in Runs : \A p \in Paths :
       (files[p] \in Hand /\ files'[p] # files[p] /\ edits' = edits /\ runs'[r] # runs[r])
         => Spares(r, p)]_seedVars

(* When a reset says that it is done, the files are those of the baseline, *)
(* but for what was edited by hand since the reset listed them.            *)
ResetIsExact ==
  [][\A r \in Resets : runs[r].at = "write" /\ runs'[r].at = "done" =>
       \A p \in Paths \ runs[r].edited :
         files[p] = IF p \in Baseline THEN Factory ELSE NoFile]_seedVars
=============================================================================
