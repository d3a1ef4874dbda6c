---- MODULE StrategyRepository ----
(***************************************************************************)
(* The strategy files of a project and the version history the server keeps *)
(* of them (strategy_repository.py, strategy_migration.py).                 *)
(*                                                                          *)
(* The handlers of the event loop run one at a time, so at most one         *)
(* operation is under way; but the files live on a disk.  An operation is   *)
(* the list of its steps there, and between two of them an editor outside   *)
(* the server may write, a step may raise, or the server may die.  Only the *)
(* fixture of an import is awaited: other requests run meanwhile.           *)
(*                                                                          *)
(* A source stands for its text and for its SHA-256.  What an entry of the  *)
(* index says besides its revision, the sizes and the names are left out.   *)
(***************************************************************************)
EXTENDS Integers, Sequences, SequencesExt

CONSTANTS
    Strategies,   \* paths under strategies/
    Examples,     \* paths under examples/: read-only
    Sources,      \* texts a file can hold
    Valid,        \* those that parse and that validate_strategy_source accepts
    Unsupported,  \* those that load a name the runtime does not export
    SessionTypes, \* the THTypes the calls of a text name
    Clients,
    Importers,    \* import requests
    MaxVersions,  \* bound on the length of a history
    NoFile, Unchecked, Nothing, Damaged

Paths == Strategies \cup Examples
Revisions == Sources \cup {NoFile}

ASSUME RepositoryAssumption ==
    /\ Strategies \cap Examples = {}
    /\ Valid \subseteq Sources /\ Unsupported \subseteq Sources
    /\ MaxVersions \in Nat
    /\ {NoFile, Unchecked, Nothing, Damaged} \cap Sources = {}
    /\ NoFile # Unchecked /\ NoFile # Damaged

VARIABLES
    file,       \* the text of a path
    index,      \* index.json: the revisions of its entries
    readable,   \* index.json can be parsed
    snapshot,   \* the file kept for a revision: its text, Damaged or NoFile
    op,         \* the operation under way, or Nothing
    seen,       \* the revision of a path that a client has loaded
    imports,    \* what an import request awaits its fixture with, or Nothing
    reports,    \* the import reports on disk
    held,       \* observation: the texts a path has held
    confirmed,  \* observation: a client was told of what the path holds
    touched     \* observation: the path of op was edited since op checked it

disk == <<file, index, readable, snapshot, reports>>
vars == <<disk, op, seen, imports, held, confirmed, touched>>

Requests == [path : Strategies, source : Sources]
Kinds == {"create", "import", "save", "restore", "list"}
StepNames == {"replace", "snapshot", "index", "reply", "report"}

TypeOK ==
    /\ file \in [Paths -> Revisions]
    /\ index \in [Paths -> Seq(Sources)]
    /\ readable \in [Paths -> BOOLEAN]
    /\ snapshot \in [Paths -> [Sources -> Revisions \cup {Damaged}]]
    /\ op \in [path : Paths, source : Sources, client : Clients \cup {Nothing},
               expected : Revisions \cup {Unchecked}, todo : Seq(StepNames)] \cup {Nothing}
    /\ seen \in [Clients -> [Strategies -> Revisions]]
    /\ imports \in [Importers -> Requests \cup {Nothing}]
    /\ reports \subseteq Requests
    /\ held \in [Paths -> SUBSET Sources]
    /\ confirmed \in [Paths -> BOOLEAN]
    /\ touched \in BOOLEAN

\* Files that were there before the first version was kept.
Init ==
    /\ file \in {f \in [Paths -> Valid \cup {NoFile}] : \A p \in Examples : f[p] # NoFile}
    /\ index = [p \in Paths |-> <<>>]
    /\ readable = [p \in Paths |-> TRUE]
    /\ snapshot = [p \in Paths |-> [s \in Sources |-> NoFile]]
    /\ op = Nothing
    /\ seen = [c \in Clients |-> [p \in Strategies |-> NoFile]]
    /\ imports = [i \in Importers |-> Nothing]
    /\ reports = {}
    /\ held = [p \in Paths |-> {file[p]} \ {NoFile}]
    /\ confirmed = [p \in Paths |-> FALSE]
    /\ touched = FALSE

-----------------------------------------------------------------------------
(* Operations: what is checked before the first write *)

\* Mutants: the version is recorded first; the index is written before the snapshot.
StepsRecordFirst(kind) ==
    CASE kind = "list" -> <<"snapshot", "index">>
      [] kind = "import" -> <<"snapshot", "index", "replace", "reply", "report">>
      [] OTHER -> <<"snapshot", "index", "replace", "reply">>
StepsIndexFirst(kind) ==
    CASE kind = "list" -> <<"index", "snapshot">>
      [] kind = "import" -> <<"replace", "index", "snapshot", "reply", "report">>
      [] OTHER -> <<"replace", "index", "snapshot", "reply">>

\* The file, then its version, then the answer; a listing only records what the
\* file holds.
Steps(kind) ==
    CASE kind = "list" -> <<"snapshot", "index">>
      [] kind = "import" -> <<"replace", "snapshot", "index", "reply", "report">>
      [] OTHER -> <<"replace", "snapshot", "index", "reply">>

Begin(kind, p, s, c, e) ==
    /\ op' = [path |-> p, source |-> s, client |-> c, expected |-> e, todo |-> Steps(kind)]
    /\ touched' = FALSE

Ready(p) == op = Nothing /\ Len(index[p]) < MaxVersions

\* Mutant: the name is not checked again.
VacantOnce(p) == TRUE

\* No strategy has this name yet.
Vacant(p) == file[p] = NoFile

\* The text may be a copy of another strategy, or the default one.
Create(c, p, s) ==
    /\ Ready(p) /\ Vacant(p)
    /\ s \in Valid
    /\ Begin("create", p, s, c, NoFile)
    /\ UNCHANGED <<disk, seen, imports, held, confirmed>>

\* The file still has the revision the client names, if it names one.
Current(p, e) == e = Unchecked \/ e = file[p]

Save(c, p, s) ==
    /\ Ready(p) /\ file[p] # NoFile
    /\ s \in Valid
    /\ \E e \in {Unchecked} \cup ({seen[c][p]} \ {NoFile}) :
        Current(p, e) /\ Begin("save", p, s, c, e)
    /\ UNCHANGED <<disk, seen, imports, held, confirmed>>

\* Mutant: an index that cannot be parsed is an empty one.
ReadAsEmpty(p) == IF readable[p] THEN {index[p]} ELSE {<<>>}

\* What reading index.json gives; nothing when it raises.
ReadIndex(p) == IF readable[p] THEN {index[p]} ELSE {}

\* The text of a listed version; nothing when its snapshot has another hash.
VersionSource(p, s) == IF snapshot[p][s] = s THEN {s} ELSE {}

\* A version is put in force again when it is listed and its text is there.
Restore(c, p, s) ==
    /\ Ready(p) /\ file[p] # NoFile
    /\ seen[c][p] # NoFile /\ Current(p, seen[c][p])
    /\ \E entries \in ReadIndex(p) : s \in ToSet(entries)
    /\ s \in Valid
    /\ \E text \in VersionSource(p, s) : Begin("restore", p, text, c, seen[c][p])
    /\ UNCHANGED <<disk, seen, imports, held, confirmed>>

\* A listing records a text that came from outside.
ListVersions(p) ==
    /\ Ready(p) /\ file[p] # NoFile
    /\ Begin("list", p, file[p], Nothing, Unchecked)
    /\ UNCHANGED <<disk, seen, imports, held, confirmed>>

\* A source that cannot be parsed cannot be shown.
Load(c, p) ==
    /\ op = Nothing
    /\ file[p] \in Valid
    /\ seen' = [seen EXCEPT ![c][p] = file[p]]
    /\ UNCHANGED <<disk, op, imports, held, confirmed, touched>>

\* What analyze_strategy_compatibility finds against a text.
Issues(s) ==
    {i \in {"unsupported_names", "multiple_session_types"} :
        \/ i = "unsupported_names" /\ s \in Unsupported
        \/ i = "multiple_session_types" /\ \E t, u \in SessionTypes[s] : t # u}

\* Static findings end an import before its fixture.
StartImport(i, p, s) ==
    /\ op = Nothing /\ imports[i] = Nothing
    /\ s \in Valid /\ Issues(s) = {}
    /\ imports' = [imports EXCEPT ![i] = [path |-> p, source |-> s]]
    /\ UNCHANGED <<disk, op, seen, held, confirmed, touched>>

\* The fixture fails, or times out, or the name is taken by now.
RefuseImport(i) ==
    /\ op = Nothing /\ imports[i] # Nothing
    /\ imports' = [imports EXCEPT ![i] = Nothing]
    /\ UNCHANGED <<disk, op, seen, held, confirmed, touched>>

PassFixture(i) ==
    /\ imports[i] # Nothing
    /\ Ready(imports[i].path) /\ Vacant(imports[i].path)
    /\ Begin("import", imports[i].path, imports[i].source, Nothing, NoFile)
    /\ imports' = [imports EXCEPT ![i] = Nothing]
    /\ UNCHANGED <<disk, seen, held, confirmed>>

-----------------------------------------------------------------------------
(* Steps on the disk *)

At(step) == op # Nothing /\ Head(op.todo) = step
Advance == op' = IF Len(op.todo) = 1 THEN Nothing ELSE [op EXCEPT !.todo = Tail(@)]
Abandon == op' = Nothing

Replace ==
    /\ At("replace") /\ Advance
    /\ file' = [file EXCEPT ![op.path] = op.source]
    /\ held' = [held EXCEPT ![op.path] = @ \cup {op.source}]
    /\ confirmed' = [confirmed EXCEPT ![op.path] = FALSE]
    /\ UNCHANGED <<index, readable, snapshot, reports, seen, imports, touched>>

\* A snapshot that is there is not written again, whatever it holds.
KeepSnapshot ==
    /\ At("snapshot") /\ Advance
    /\ snapshot' = [snapshot EXCEPT ![op.path][op.source] = IF @ = NoFile THEN op.source ELSE @]
    /\ UNCHANGED <<file, index, readable, reports, seen, imports, held, confirmed, touched>>

\* Mutant: a version that is listed anywhere is not listed again.
ListedSomewhere(entries, s) == s \in ToSet(entries)

\* The newest entry is this revision already.
ListedLast(entries, s) == entries # <<>> /\ Last(entries) = s

AppendEntry ==
    /\ At("index")
    /\ IF ReadIndex(op.path) = {} THEN Abandon /\ UNCHANGED <<index, readable>>
       ELSE /\ Advance
            /\ \E entries \in ReadIndex(op.path) :
                IF ListedLast(entries, op.source) THEN UNCHANGED <<index, readable>>
                ELSE /\ index' = [index EXCEPT ![op.path] = Append(entries, op.source)]
                     /\ readable' = [readable EXCEPT ![op.path] = TRUE]
    /\ UNCHANGED <<file, snapshot, reports, seen, imports, held, confirmed, touched>>

\* The answer shows the file as it is read now.
Reply ==
    /\ At("reply")
    /\ IF file[op.path] \in Valid
       THEN /\ Advance
            /\ seen' = IF op.client = Nothing THEN seen
                       ELSE [seen EXCEPT ![op.client][op.path] = file[op.path]]
            /\ confirmed' = [confirmed EXCEPT ![op.path] = file[op.path] = op.source]
       ELSE Abandon /\ UNCHANGED <<seen, confirmed>>
    /\ UNCHANGED <<disk, imports, held, touched>>

Report ==
    /\ At("report") /\ Advance
    /\ reports' = reports \cup {[path |-> op.path, source |-> op.source]}
    /\ UNCHANGED <<file, index, readable, snapshot, seen, imports, held, confirmed, touched>>

-----------------------------------------------------------------------------
(* Faults and the world outside the server *)

\* A step raises: a full disk, for one.
Fail ==
    /\ op # Nothing
    /\ Abandon
    /\ UNCHANGED <<disk, seen, imports, held, confirmed, touched>>

\* No operation is repaired or repeated by a server that starts.
Crash ==
    /\ Abandon
    /\ imports' = [i \in Importers |-> Nothing]
    /\ UNCHANGED <<disk, seen, held, confirmed, touched>>

\* An editor, or a checkout, writes or removes the file.
Edit(p, s) ==
    /\ file' = [file EXCEPT ![p] = s]
    /\ held' = [held EXCEPT ![p] = @ \cup ({s} \ {NoFile})]
    /\ confirmed' = [confirmed EXCEPT ![p] = FALSE]
    /\ touched' = (touched \/ (op # Nothing /\ op.path = p))
    /\ UNCHANGED <<index, readable, snapshot, reports, op, seen, imports>>

DamageIndex(p) ==
    /\ index[p] # <<>>
    /\ readable' = [readable EXCEPT ![p] = FALSE]
    /\ UNCHANGED <<file, index, snapshot, reports, op, seen, imports, held, confirmed, touched>>

DamageSnapshot(p, s) ==
    /\ snapshot[p][s] = s
    /\ snapshot' = [snapshot EXCEPT ![p][s] = Damaged]
    /\ UNCHANGED <<file, index, readable, reports, op, seen, imports, held, confirmed, touched>>

Server == Replace \/ KeepSnapshot \/ AppendEntry \/ Reply \/ Report

Next ==
    \/ \E c \in Clients, p \in Strategies :
        \/ Load(c, p)
        \/ \E s \in Sources : Create(c, p, s) \/ Save(c, p, s) \/ Restore(c, p, s)
    \/ \E p \in Paths : ListVersions(p)
    \/ \E i \in Importers :
        \/ \E p \in Strategies, s \in Sources : StartImport(i, p, s)
        \/ RefuseImport(i) \/ PassFixture(i)
    \/ Server
    \/ Fail \/ Crash
    \/ \E p \in Strategies, s \in Revisions : Edit(p, s)
    \/ \E p \in Paths : DamageIndex(p) \/ \E s \in Sources : DamageSnapshot(p, s)

Spec == Init /\ [][Next]_vars

-----------------------------------------------------------------------------
(* Properties *)

\* Every version in a history can be restored: its snapshot was written before
\* its entry and has its text still, unless the disk damaged it, which its hash
\* tells (_record_version, version_source).
VersionsAreRestorable ==
    \A p \in Paths : \A s \in ToSet(index[p]) : snapshot[p][s] \in {s, Damaged}

\* A history lists nothing its strategy never was: a version is recorded after
\* the file was replaced, whatever fails in between (create, save, restore,
\* versions).
VersionsWereHeld ==
    \A p \in Paths : ToSet(index[p]) \subseteq held[p]

\* What a client was told is in force, and no editor has changed since, is the
\* newest version in the history, even when it is an old one restored.
ConfirmedIsNewest ==
    \A p \in Paths : confirmed[p] => index[p] # <<>> /\ Last(index[p]) = file[p]

\* A history only grows: neither a restored version nor an index that cannot be
\* read makes an operation forget an entry.
HistoryOnlyGrows ==
    [][\A p \in Paths : IsPrefix(index[p], index'[p])]_vars

\* The server replaces no text unseen: only the one whose revision the request
\* names, none at all when a strategy is created or imported, and another one
\* only when an editor was faster than the step after the check.  A save that
\* names no revision asks for just that.  (An edit leaves op as it is.)
NothingIsOverwrittenUnseen ==
    [][At("replace") /\ file' # file =>
        \/ op.expected \in {Unchecked, file[op.path]}
        \/ touched
        \/ UNCHANGED op]_vars
====
