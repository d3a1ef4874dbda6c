---- MODULE MarketData ----
(***************************************************************************)
(* The OpenD history of one request, from the adapter to the evidence of a  *)
(* job: backtest processes read or write the shared file of the cache       *)
(* (cli.py, opend.py), the server freezes it for the job when the process   *)
(* has ended (market_cache.py, job_store.py), and users delete it.  A       *)
(* process survives the server that started it, so an orphan may share the  *)
(* file with the job of the next server.                                    *)
(*                                                                          *)
(* All jobs here make the same request, or they would not share a file; the *)
(* executor runs them one at a time, see JobStore.  A file is the sequence  *)
(* of its rows, a row is the version of the history it was served from:     *)
(* OpenD adjusts past prices, so two fetches may differ in every row, and   *)
(* so may two pages of one fetch.  A SHA-256 stands for the content it was  *)
(* computed from.  Files have an identity, because a file that is unlinked  *)
(* stays open in its writer: a process creates at most one, and names it.   *)
(* The I/O errors of the server itself are in JobStore.                     *)
(***************************************************************************)
EXTENDS Integers, Sequences, SequencesExt

CONSTANTS
    Jobs,         \* requests for the same history
    Refreshing,   \* those with refresh_cache
    Rows,         \* rows of the history
    PageSize,     \* rows of a page (max_count, 1000)
    MinBars,      \* fewer bars are refused (30)
    MaxVersions,  \* bound on the versions of the history
    MaxCrashes,   \* bound on server crashes
    NoFile

ASSUME MarketDataAssumption ==
    /\ Refreshing \subseteq Jobs
    /\ Rows \in Nat \ {0}
    /\ PageSize \in Nat \ {0}
    /\ MinBars \in 1..Rows
    /\ MaxVersions \in Nat \ {0}
    /\ MaxCrashes \in Nat
    /\ NoFile \notin Jobs

HOLE == 0      \* bytes of a sparse file that were never written
Contents == BoundedSeq(0..MaxVersions, Rows)
NoRows == <<>>

VARIABLES
    opend,      \* the version of the history that OpenD serves now
    path,       \* the file at data/opend/cache/<id>.csv, or NoFile
    content,    \* rows of the file that the process of a job created
    proc,       \* how far the process of a job is
    held,       \* the rows it holds in memory
    handle,     \* the file it writes
    written,    \* rows it has written
    server,     \* "idle", "await", "copy" or "down"
    current,    \* the job that holds the executor, or NoFile
    entry,      \* content_sha256 of the cache entry record() returned
    verdict,    \* of a job: "none", "open", "succeeded", "failed"
    frozen,     \* market-data.csv of a job
    audited,    \* market_data_sha256 in its manifest
    shared,     \* observation: jobs that started while an orphan was alive
    crashes

vars ==
    <<opend, path, content, proc, held, handle, written, server, current, entry,
      verdict, frozen, audited, shared, crashes>>

Alive == {"started", "hit", "fetch", "open", "writing", "trading"}
Orphans == {p \in Jobs : proc[p] \in Alive /\ current # p}

TypeOK ==
    /\ opend \in 1..MaxVersions
    /\ path \in Jobs \cup {NoFile}
    /\ content \in [Jobs -> Contents]
    /\ proc \in [Jobs -> Alive \cup {"none", "exited", "failed", "killed"}]
    /\ held \in [Jobs -> Contents]
    /\ handle \in [Jobs -> Jobs \cup {NoFile}]
    /\ written \in [Jobs -> 0..Rows]
    /\ server \in {"idle", "await", "copy", "down"}
    /\ current \in Jobs \cup {NoFile}
    /\ entry \in Contents
    /\ verdict \in [Jobs -> {"none", "open", "succeeded", "failed"}]
    /\ frozen \in [Jobs -> Contents]
    /\ audited \in [Jobs -> Contents]
    /\ shared \subseteq Jobs
    /\ crashes \in 0..MaxCrashes

Init ==
    /\ opend = 1
    /\ path = NoFile
    /\ content = [j \in Jobs |-> NoRows]
    /\ proc = [j \in Jobs |-> "none"]
    /\ held = [j \in Jobs |-> NoRows]
    /\ handle = [j \in Jobs |-> NoFile]
    /\ written = [j \in Jobs |-> 0]
    /\ server = "idle"
    /\ current = NoFile
    /\ entry = NoRows
    /\ verdict = [j \in Jobs |-> "none"]
    /\ frozen = [j \in Jobs |-> NoRows]
    /\ audited = [j \in Jobs |-> NoRows]
    /\ shared = {}
    /\ crashes = 0

disk == <<path, content>>
memory == <<held, handle, written>>
loop == <<server, current, entry, verdict, frozen, audited>>
watch == <<shared, crashes>>

(***************************************************************************)
(* A process: main of cli.py, up to the backtest.                           *)
(***************************************************************************)
Goes(p, from, to) == proc[p] = from /\ proc' = [proc EXCEPT ![p] = to]

Hits(p) == path # NoFile /\ p \notin Refreshing

CheckCache(p) ==
    /\ Goes(p, "started", IF Hits(p) THEN "hit" ELSE "fetch")
    /\ UNCHANGED <<opend, disk, memory, loop, watch>>

\* What bars_from_opend_records accepts.
Usable(rows) ==
    /\ Len(rows) >= MinBars
    /\ \A i \in 1..Len(rows) : rows[i] # HOLE

\* The file is read in one go, it may be gone by now.
ReadCache(p) ==
    /\ proc[p] = "hit"
    /\ IF path # NoFile /\ Usable(content[path])
       THEN /\ proc' = [proc EXCEPT ![p] = "trading"]
            /\ held' = [held EXCEPT ![p] = content[path]]
       ELSE /\ proc' = [proc EXCEPT ![p] = "failed"]
            /\ UNCHANGED held
    /\ UNCHANGED <<opend, disk, handle, written, loop, watch>>

\* The rows so far and the next page, of the version that is served now.
WithNextPage(rows) ==
    LET reached == Len(rows) + PageSize
    IN  [i \in 1..(IF reached < Rows THEN reached ELSE Rows) |->
            IF i <= Len(rows) THEN rows[i] ELSE opend]

\* One round of the paging loop; it ends with the page that has no next key, or
\* raises: see Fail.
FetchPage(p) ==
    LET rows == WithNextPage(held[p])
    IN  /\ Goes(p, "fetch", IF Len(rows) = Rows THEN "open" ELSE "fetch")
        /\ held' = [held EXCEPT ![p] = rows]
        /\ UNCHANGED <<opend, disk, handle, written, loop, watch>>

\* Mutant: the present file is not cut.
OpenCacheKept(p) ==
    /\ Goes(p, "open", "writing")
    /\ LET file == IF path = NoFile THEN p ELSE path
       IN  /\ path' = file
           /\ handle' = [handle EXCEPT ![p] = file]
    /\ UNCHANGED <<opend, content, held, written, loop, watch>>

\* open("w"): a new file, or the present one cut to nothing.
OpenCache(p) ==
    /\ Goes(p, "open", "writing")
    /\ LET file == IF path = NoFile THEN p ELSE path
       IN  /\ path' = file
           /\ handle' = [handle EXCEPT ![p] = file]
           /\ content' = [content EXCEPT ![file] = NoRows]
    /\ UNCHANGED <<opend, held, written, loop, watch>>

\* A write at an offset; what lies between the end of the file and it is a hole.
Overwritten(rows, at, row) ==
    [i \in 1..(IF at > Len(rows) THEN at ELSE Len(rows)) |->
        IF i = at THEN row ELSE IF i <= Len(rows) THEN rows[i] ELSE HOLE]

WriteRow(p) ==
    LET at == written[p] + 1
        file == handle[p]
    IN  /\ Goes(p, "writing", IF at = Len(held[p]) THEN "trading" ELSE "writing")
        /\ written' = [written EXCEPT ![p] = at]
        /\ content' =
              [content EXCEPT ![file] = Overwritten(@, at, held[p][at])]
        /\ UNCHANGED <<opend, path, held, handle, loop, watch>>

\* The backtest is over and its artifacts are written.
Exit(p) ==
    /\ Goes(p, "trading", "exited")
    /\ UNCHANGED <<opend, disk, memory, loop, watch>>

\* An exception of OpenD, of the disk or of the strategy: exit code 1.
Fail(p) ==
    /\ proc[p] \in {"fetch", "open", "writing", "trading"}
    /\ Goes(p, proc[p], "failed")
    /\ UNCHANGED <<opend, disk, memory, loop, watch>>

(***************************************************************************)
(* The server: _execute_job around the process.                             *)
(***************************************************************************)
Launch(j) ==
    /\ server = "idle"
    /\ verdict[j] = "none"
    /\ server' = "await"
    /\ current' = j
    /\ verdict' = [verdict EXCEPT ![j] = "open"]
    /\ Goes(j, "none", "started")
    /\ shared' = IF Orphans = {} THEN shared ELSE shared \cup {j}
    /\ UNCHANGED <<opend, disk, memory, entry, frozen, audited, crashes>>

\* The timeout, the output limit, or a user.
Kill ==
    /\ server = "await"
    /\ proc[current] \in Alive
    /\ Goes(current, proc[current], "killed")
    /\ UNCHANGED <<opend, disk, memory, loop, watch>>

Close(outcome) ==
    /\ server' = "idle"
    /\ current' = NoFile
    /\ verdict' = [verdict EXCEPT ![current] = outcome]

\* Timeout or limit, or a cancellation that a user asked for, even if the
\* process had ended by itself: nothing is frozen.
GiveUp ==
    /\ server = "await"
    /\ proc[current] \in {"exited", "failed", "killed"}
    /\ Close("failed")
    /\ UNCHANGED <<opend, disk, proc, memory, entry, frozen, audited, watch>>

\* Mutant: the exit code alone decides.
RecordOptional ==
    /\ server = "await"
    /\ proc[current] \in {"exited", "failed"}
    /\ IF path = NoFile
       THEN /\ Close(IF proc[current] = "exited" THEN "succeeded" ELSE "failed")
            /\ UNCHANGED entry
       ELSE /\ entry' = content[path]
            /\ server' = "copy"
            /\ UNCHANGED <<current, verdict>>
    /\ UNCHANGED <<opend, disk, proc, memory, frozen, audited, watch>>

\* MarketDataCache.record: None if there is no file.
Record ==
    /\ server = "await"
    /\ proc[current] \in {"exited", "failed"}
    /\ IF path = NoFile
       THEN Close("failed") /\ UNCHANGED entry
       ELSE /\ entry' = content[path]
            /\ server' = "copy"
            /\ UNCHANGED <<current, verdict>>
    /\ UNCHANGED <<opend, disk, proc, memory, frozen, audited, watch>>

\* Mutant: the copy is not hashed again.
UnchangedTrusted == path # NoFile

Unchanged == path # NoFile /\ content[path] = entry

Outcome == IF proc[current] = "exited" /\ Unchanged THEN "succeeded" ELSE "failed"

\* _snapshot_market_data: copy, hash the copy, keep it if nothing has changed.
Freeze ==
    /\ server = "copy"
    /\ frozen' = [frozen EXCEPT ![current] = IF Unchanged THEN content[path] ELSE @]
    /\ audited' = [audited EXCEPT ![current] = IF Unchanged THEN entry ELSE @]
    /\ Close(Outcome)
    /\ UNCHANGED <<opend, disk, proc, memory, entry, watch>>

\* DELETE /api/cache/{id}, whenever the loop is free.
DeleteCache ==
    /\ server \in {"idle", "await"}
    /\ path # NoFile
    /\ path' = NoFile
    /\ UNCHANGED <<opend, content, proc, memory, loop, watch>>

(***************************************************************************)
(* The world.                                                               *)
(***************************************************************************)
\* A dividend or a split: the adjusted history is another one.
Adjust ==
    /\ opend < MaxVersions
    /\ opend' = opend + 1
    /\ UNCHANGED <<disk, proc, memory, loop, watch>>

\* The process goes on, in a session of its own.
Crash ==
    /\ crashes < MaxCrashes
    /\ server # "down"
    /\ crashes' = crashes + 1
    /\ server' = "down"
    /\ current' = NoFile
    /\ entry' = NoRows
    /\ UNCHANGED <<opend, disk, proc, memory, verdict, frozen, audited, shared>>

Reconciled(j) == IF verdict[j] = "open" THEN "failed" ELSE verdict[j]

\* _reconcile_interrupted_jobs.
Restart ==
    /\ server = "down"
    /\ server' = "idle"
    /\ verdict' = [j \in Jobs |-> Reconciled(j)]
    /\ UNCHANGED <<opend, disk, proc, memory, current, entry, frozen, audited, watch>>

Process(p) ==
    \/ CheckCache(p) \/ ReadCache(p) \/ FetchPage(p) \/ OpenCache(p)
    \/ WriteRow(p) \/ Exit(p) \/ Fail(p)

Next ==
    \/ \E p \in Jobs : Process(p) \/ Launch(p)
    \/ Kill \/ GiveUp \/ Record \/ Freeze \/ DeleteCache
    \/ Adjust \/ Crash \/ Restart

Spec == Init /\ [][Next]_vars

(***************************************************************************)
(* Properties.                                                              *)
(***************************************************************************)
Succeeded == {j \in Jobs : verdict[j] = "succeeded"}

\* A writer that stopped, or was cut off, before its last row.
Interrupted ==
    {p \in Jobs : proc[p] \in {"failed", "killed"} /\ handle[p] # NoFile
                                                   /\ written[p] < Rows}

\* The evidence of a succeeded job is the file its manifest has the hash of,
\* whatever orphans do to the shared file meanwhile (docs/RUN_MANIFEST.md).
EvidenceMatchesManifest == \A j \in Succeeded : frozen[j] = audited[j]

\* The prices a job has frozen are the prices its process traded on: users may
\* delete the shared file at any time, and no other process is alive.
FrozenIsTraded == \A j \in Succeeded \ shared : frozen[j] = held[j]

\* What a complete fetch holds: every row, and a version that is left for a later
\* one at the end of a page only.
Fetched(rows) ==
    /\ Len(rows) = Rows
    /\ \A i \in 1..Rows : rows[i] # HOLE
    /\ \A i \in 1..(Rows - 1) :
          /\ rows[i] <= rows[i + 1]
          /\ rows[i] # rows[i + 1] => \E k \in 1..Rows : i = k * PageSize

\* A job trades on the rows of one complete fetch, its own or that of the last
\* writer of the shared file: on all of them, unless that writer was stopped in the
\* middle.  Then the code does take the part it had written for a cache hit, but
\* never rows of two fetches, or with a hole, and never a prefix of anything else.
HistoriesAreOfOneFetch ==
    shared = {} =>
        \A j \in Succeeded : \E p \in Jobs :
            /\ Fetched(held[p])
            /\ held[j] = SubSeq(held[p], 1, written[p])
            /\ written[p] = Rows \/ p \in Interrupted

\* Equal requests see equal data until somebody deletes or refreshes it: only a
\* process that was asked to, or that had found no file, rewrites it, and no
\* process finds no file while there is one.
OnlyRefreshRewrites ==
    [][\A p \in Jobs :
          /\ proc[p] = "open" /\ proc'[p] = "writing" /\ path # NoFile /\ shared = {}
          => p \in Refreshing]_vars
====
