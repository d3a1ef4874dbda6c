---- MODULE EvidenceBundle ----
(***************************************************************************)
(* Evidence bundles: the ZIP files in which the evidence of a succeeded     *)
(* backtest leaves the server and comes back as a new job                   *)
(* (evidence_bundle.py, JobStore.import_evidence_bundle).                   *)
(*                                                                          *)
(* An import is a list of steps on the disk and in the database, each of    *)
(* which may raise, and between which the server may die; an export is one  *)
(* atomic replacement.  Bytes rot on the disk and in a bundle that travels. *)
(*                                                                          *)
(* The content of a file is the original job it was written for, and so is  *)
(* its hash.  The manifest stands for the hashes it lists.  `input' stands   *)
(* for the strategy and the prices, `output' for the artifacts of the run.  *)
(***************************************************************************)
EXTENDS Integers, Sequences, FiniteSets

CONSTANTS
    Originals,   \* succeeded jobs of this server
    Imports,     \* ids for imported jobs, all different
    MaxRotten,   \* bound on the jobs of which a file rots
    Nothing, Missing, Rotten, Garbled

Jobs == Originals \cup Imports
Hashed == {"input", "output"}  \* files whose hash the manifest lists
Files == Hashed \cup {"request", "manifest", "job"}
Contents == Originals \cup {Rotten, Garbled}
StepNames == {"stage", "move", "row", "mirror", "remove", "delete"}
Operations == [job : Imports, files : [Files -> Contents], todo : Seq(StepNames)]

ASSUME EvidenceAssumption ==
    /\ Originals \cap Imports = {}
    /\ {Nothing, Missing, Rotten, Garbled} \cap Jobs = {}
    /\ MaxRotten \in Nat
    /\ Missing \notin {Rotten, Garbled} /\ Rotten # Garbled
    /\ Nothing \notin Operations

VARIABLES
    rows,      \* jobs in the database
    dir,       \* the files under jobs_root/<id>
    staging,   \* the files under .import-<uuid> of the import under way
    archive,   \* <id>.evidence.zip as it is read: its inventory and its files
    op,        \* the import under way, or Nothing
    up,        \* the server runs
    spoilt,    \* observation: jobs whose removal left something behind
    rotten     \* observation: jobs of which a file has rotted

vars == <<rows, dir, staging, archive, op, up, spoilt, rotten>>

Directory == [Files -> Contents \cup {Missing}]
Empty == [f \in Files |-> Missing]
Bundle == [inventory : [Files -> Contents], files : [Files -> Contents]]

TypeOK ==
    /\ rows \subseteq Jobs
    /\ dir \in [Jobs -> Directory]
    /\ staging \in Directory
    /\ archive \in [Jobs -> Bundle \cup {Nothing}]
    /\ op \in Operations \cup {Nothing}
    /\ up \in BOOLEAN
    /\ spoilt \subseteq Imports /\ rotten \subseteq Jobs

Init ==
    /\ rows = Originals
    /\ dir = [j \in Jobs |-> IF j \in Originals THEN [f \in Files |-> j] ELSE Empty]
    /\ staging = Empty
    /\ archive = [j \in Jobs |-> Nothing]
    /\ op = Nothing /\ up = TRUE
    /\ spoilt = {} /\ rotten = {}

-----------------------------------------------------------------------------
(* Export *)

\* Every hash the manifest lists is the one of the file.
MatchesManifest(files) == \A f \in Hashed : files[f] = files["manifest"]

\* _verified_export_files; a manifest that rotted is no JSON.
Exportable(files) ==
    /\ \A f \in Files : files[f] # Missing
    /\ files["manifest"] # Rotten
    /\ MatchesManifest(files)

Export(j) ==
    /\ up /\ op = Nothing /\ j \in rows
    /\ Exportable(dir[j])
    /\ archive' = [archive EXCEPT ![j] = [inventory |-> dir[j], files |-> dir[j]]]
    /\ UNCHANGED <<rows, dir, staging, op, up, spoilt, rotten>>

-----------------------------------------------------------------------------
(* Import *)

\* Mutant: the hashes of the inventory are not compared.
AcceptableByManifest(b) == MatchesManifest(b.files)

\* _read_and_verify_bundle; what rotted in the other files may be JSON still.
Acceptable(b) ==
    /\ b.files = b.inventory
    /\ MatchesManifest(b.files)

\* The files are staged and moved into place before the job is known.
Steps == <<"stage", "move", "row", "mirror">>

\* Mutant: the request is not written.
StagedWithoutRequest(files) == [files EXCEPT !["request"] = Missing]

\* job.json is made anew.
Staged(files) == [files EXCEPT !["job"] = files["manifest"]]

\* Bundles are kept and copied freely; each upload has an id of its own.
Import(i, j) ==
    /\ up /\ op = Nothing
    /\ i \notin rows /\ dir[i] = Empty /\ i \notin spoilt
    /\ archive[j] # Nothing /\ Acceptable(archive[j])
    /\ op' = [job |-> i, files |-> archive[j].files, todo |-> Steps]
    /\ UNCHANGED <<rows, dir, staging, archive, up, spoilt, rotten>>

At(step) == op # Nothing /\ Head(op.todo) = step
Advance == op' = IF Len(op.todo) = 1 THEN Nothing ELSE [op EXCEPT !.todo = Tail(@)]

Stage ==
    /\ At("stage") /\ Advance
    /\ staging' = Staged(op.files)
    /\ UNCHANGED <<rows, dir, archive, up, spoilt, rotten>>

Move ==
    /\ At("move") /\ Advance
    /\ dir' = [dir EXCEPT ![op.job] = staging]
    /\ staging' = Empty
    /\ UNCHANGED <<rows, archive, up, spoilt, rotten>>

InsertRow ==
    /\ At("row") /\ Advance
    /\ rows' = rows \cup {op.job}
    /\ UNCHANGED <<dir, staging, archive, up, spoilt, rotten>>

\* _write_job writes job.json and the manifest once more.
Mirror ==
    /\ At("mirror") /\ Advance
    /\ UNCHANGED <<rows, dir, staging, archive, up, spoilt, rotten>>

\* A step raises.  Until the directory is in place only the staging goes; later
\* the directory and the row do, unless the deletion of the row raises too.
Raise ==
    /\ \/ /\ At("stage") \/ At("move")
          /\ op' = Nothing /\ staging' = Empty
          /\ UNCHANGED spoilt
       \/ /\ At("row") \/ At("mirror")
          /\ op' = [op EXCEPT !.todo = <<"remove", "delete">>]
          /\ UNCHANGED <<staging, spoilt>>
       \/ /\ At("delete")
          /\ op' = Nothing /\ spoilt' = spoilt \cup {op.job}
          /\ UNCHANGED staging
    /\ UNCHANGED <<rows, dir, archive, up, rotten>>

\* What is left of a directory: rmtree ignores what it cannot remove.
Remains(j) == {[f \in Files |-> IF f \in kept THEN dir[j][f] ELSE Missing] : kept \in SUBSET Files}

Remove ==
    /\ At("remove") /\ Advance
    /\ \E left \in Remains(op.job) :
        /\ dir' = [dir EXCEPT ![op.job] = left]
        /\ spoilt' = IF left = Empty THEN spoilt ELSE spoilt \cup {op.job}
    /\ UNCHANGED <<rows, staging, archive, up, rotten>>

Delete ==
    /\ At("delete") /\ Advance
    /\ rows' = rows \ {op.job}
    /\ UNCHANGED <<dir, staging, archive, up, spoilt, rotten>>

-----------------------------------------------------------------------------
(* Crashes, restarts and decay *)

\* The staging of an import that died is never looked at again.
Crash ==
    /\ up /\ up' = FALSE
    /\ op' = Nothing
    /\ staging' = Empty
    /\ spoilt' = IF At("remove") \/ At("delete") THEN spoilt \cup {op.job} ELSE spoilt
    /\ UNCHANGED <<rows, dir, archive, rotten>>

\* Mutant: directories without a row are left alone.
FoundNothing(j) == FALSE

\* A directory with a job.json is a job, if that still is JSON.
Found(j) == dir[j]["job"] # Missing

\* import_legacy_jobs.
Restart ==
    /\ ~up /\ up' = TRUE
    /\ \E unread \in SUBSET {j \in Jobs : dir[j]["job"] = Rotten} :
        rows' = rows \cup {j \in Jobs \ unread : Found(j)}
    /\ UNCHANGED <<dir, staging, archive, op, spoilt, rotten>>

\* get_job looks for a job.json too when it has no row.
LookUp(j) ==
    /\ up /\ op = Nothing
    /\ Found(j)
    /\ rows' = rows \cup {j}
    /\ UNCHANGED <<dir, staging, archive, op, up, spoilt, rotten>>

RotFile(j, f) ==
    /\ dir[j][f] # Missing
    /\ j \notin rotten /\ Cardinality(rotten) < MaxRotten
    /\ dir' = [dir EXCEPT ![j][f] = Rotten]
    /\ rotten' = rotten \cup {j}
    /\ UNCHANGED <<rows, staging, archive, op, up, spoilt>>

GarbleBundle(j, f) ==
    /\ archive[j] # Nothing
    /\ \A g \in Files : archive[j].files[g] # Garbled
    /\ archive' = [archive EXCEPT ![j].files[f] = Garbled]
    /\ UNCHANGED <<rows, dir, staging, op, up, spoilt, rotten>>

Next ==
    \/ \E j \in Jobs : Export(j) \/ LookUp(j) \/ \E i \in Imports : Import(i, j)
    \/ Stage \/ Move \/ InsertRow \/ Mirror \/ Raise \/ Remove \/ Delete
    \/ Crash \/ Restart
    \/ \E j \in Jobs, f \in Files : RotFile(j, f) \/ GarbleBundle(j, f)

Spec == Init /\ [][Next]_vars

-----------------------------------------------------------------------------
(* Properties *)

\* Nothing that rotted or was garbled travels: what a bundle lists is evidence of
\* one original job, and what an import puts on the disk is what was exported,
\* through any chain of exports and imports.  Only request.json, whose hash the
\* manifest has but nobody compares, can rot unnoticed before an export
\* (_verified_export_files, _read_and_verify_bundle).
OnlyEvidenceTravels ==
    /\ \A j \in Jobs : archive[j] # Nothing =>
        \E o \in Originals : \A f \in Files \ {"request", "job"} : archive[j].inventory[f] = o
    /\ \A j \in Jobs, f \in Files : dir[j][f] # Garbled

\* An import happens entirely or not at all, whatever fails: a job that is known
\* has all its files and a directory that is there is known, unless the removal
\* of a failed import itself did not finish (import_evidence_bundle, import_bundle,
\* import_legacy_jobs).
ImportsAreWhole ==
    up /\ op = Nothing => \A i \in Imports \ (spoilt \cup rotten) :
        \/ i \in rows /\ \A f \in Files : dir[i][f] # Missing
        \/ i \notin rows /\ dir[i] = Empty

\* Evidence that was imported can be exported again: the rewritten manifest and
\* the files that are not kept do not make an import a dead end.
ImportsCanBeExported ==
    \A i \in Imports \ (spoilt \cup rotten) :
        dir[i] # Empty => Exportable(dir[i])
====
