----------------------------- MODULE QblockFiles -----------------------------
(***************************************************************************)
(* The published qblock files and their manifest (indexer/file_writer.rs,  *)
(* qblock_path.rs, qblock_export.rs, write_files and maintain of           *)
(* indexer/mod.rs).                                                        *)
(*                                                                         *)
(* The live and the backfill lane merge what they have just committed into *)
(* the file of the qblock and then list it; the maintenance restores files *)
(* that are missing and lists every file anew.  All of them run in one     *)
(* process and use one temporary name per file, so the model has inodes: a *)
(* file is what a path refers to, and a writer keeps the inode it opened.  *)
(* Contents are sets of facts; a file that is not whole is read as empty,  *)
(* as malformed JSON is.                                                   *)
(***************************************************************************)
EXTENDS Naturals, FiniteSets

CONSTANTS
    Lanes,       \* the lanes that commit and write files
    Maintain,    \* the maintenance, or the export of a process without indexer
    Qblocks,
    Facts,       \* what a qblock file holds: its winner and its participants
    Winner,      \* the fact that makes a qblock known to the maintenance
    Manifest,    \* metadata.json
    Inodes, None

ASSUME FilesAssumption ==
    /\ Maintain \notin Lanes /\ Winner \in Facts
    /\ Manifest \notin Qblocks /\ None \notin Inodes
    \* a free inode can always be found: one per writer, and the published one
    /\ IsFiniteSet(Lanes) /\ IsFiniteSet(Inodes)
    /\ Cardinality(Inodes) > Cardinality(Lanes) + 1

Writers == Lanes \cup {Maintain}
Paths == Qblocks \cup {Manifest}
Partial == {None}
Resting == [at |-> "idle", path |-> None, add |-> {}, doc |-> {}, fd |-> None]

VARIABLES
    stored,    \* the store: the committed facts of each qblock
    old,       \* qblocks won before the recent window
    settled,   \* qblocks whose winner is older than RESTORE_MIN_AGE_SECS
    job,       \* what each writer is doing
    file,      \* the inode at each path
    temp,      \* the inode at each path's temporary name
    data,      \* data[p][i]: the content of inode i, opened for path p
    todo,      \* winners the current pass of restore_qblock_files has still to check
    due,       \* winners the last pass over all history was about
    complete,  \* that pass met no error
    narrow     \* restore_since is the recent window

sweepVars == <<todo, due, complete, narrow>>
fileVars == <<file, temp, data>>
vars == <<stored, old, settled, job, fileVars, sweepVars>>

Init ==
    /\ stored = [q \in Qblocks |-> {}] /\ old \in SUBSET Qblocks /\ settled = old
    /\ job = [w \in Writers |-> Resting]
    /\ file = [p \in Paths |-> None] /\ temp = [p \in Paths |-> None]
    /\ data = [p \in Paths |-> [i \in Inodes |-> Partial]]
    /\ todo = {} /\ due = {} /\ complete = FALSE /\ narrow = FALSE

Visible(p) == IF file[p] = None \/ data[p][file[p]] = Partial THEN {} ELSE data[p][file[p]]
Used(w, p, i) == job[w].path = p /\ job[w].fd = i
-----------------------------------------------------------------------------
(* Writing one file *)

To(w, place) == job' = [job EXCEPT ![w].at = place]
Rest(w) == job' = [job EXCEPT ![w] = Resting]

\* write_qblock_merged and add_to_manifest: what is there, and what is new.
Read(w) ==
    /\ job[w].at = "read"
    /\ job' = [job EXCEPT ![w] = [@ EXCEPT !.at = "open",
                  !.add = {}, !.doc = Visible(job[w].path) \cup job[w].add]]
    /\ UNCHANGED <<stored, old, settled, fileVars, sweepVars>>

\* atomic_write: the temporary file is opened and cut, ...
Open(w) ==
    /\ job[w].at = "open"
    /\ LET p == job[w].path
           i == IF temp[p] # None THEN temp[p]
                ELSE CHOOSE new \in Inodes :
                       new # file[p] /\ \A v \in Writers : ~Used(v, p, new)
       IN /\ temp' = [temp EXCEPT ![p] = i]
          /\ data' = [data EXCEPT ![p][i] = Partial]
          /\ job' = [job EXCEPT ![w].at = "write", ![w].fd = i]
    /\ UNCHANGED <<stored, old, settled, file, sweepVars>>

\* ... written (over another writer's longer bytes the result is neither), ...
Write(w) ==
    /\ job[w].at = "write"
    /\ \E d \in {job[w].doc, Partial} :
         /\ data[job[w].path][job[w].fd] = Partial => d = job[w].doc
         /\ data' = [data EXCEPT ![job[w].path][job[w].fd] = d]
    /\ job' = [job EXCEPT ![w] = [@ EXCEPT !.at = "rename", !.doc = {}, !.fd = None]]
    /\ UNCHANGED <<stored, old, settled, file, temp, sweepVars>>

\* Deviation: a qblock is listed whether or not its file was written.
Listed_Always(w, ok) == w \in Lanes /\ job[w].path # Manifest
\* A lane lists a qblock whose file it has written.
Listed(w, ok) == ok /\ w \in Lanes /\ job[w].path # Manifest

\* The writer goes on: to the manifest, to the next winner, or to rest.
Continue(w, ok) ==
    job' = [job EXCEPT ![w] =
        CASE Listed(w, ok) -> [Resting EXCEPT !.at = "read", !.path = Manifest, !.add = {job[w].path}]
          [] w = Maintain /\ job[w].path # Manifest -> [Resting EXCEPT !.at = "next"]
          [] OTHER -> Resting]

\* Deviation: a restore that fails is forgotten.
Complete_Always(w, ok) == complete
Complete(w, ok) == IF w = Maintain /\ job[w].path # Manifest /\ ~ok THEN FALSE ELSE complete

\* An inode without a path or a writer is gone.
Collect ==
    data' = [p \in Paths |-> [i \in Inodes |->
        IF i \in {file'[p], temp'[p]} \/ \E w \in Writers : Used(w, p, i)' THEN data[p][i]
        ELSE Partial]]

\* ... and renamed; a temporary file another writer has renamed already is an error.
Rename(w) ==
    /\ job[w].at = "rename"
    /\ LET p == job[w].path
           ok == temp[p] # None
       IN /\ file' = IF ok THEN [file EXCEPT ![p] = temp[p]] ELSE file
          /\ temp' = [temp EXCEPT ![p] = None]
          /\ Continue(w, ok)
          /\ complete' = Complete(w, ok)
    /\ Collect
    /\ UNCHANGED <<stored, old, settled, todo, due, narrow>>

\* Any of these may fail.
Fail(w) ==
    /\ job[w].at \in {"read", "open", "write", "rename"}
    /\ Continue(w, FALSE) /\ complete' = Complete(w, FALSE)
    /\ UNCHANGED <<file, temp>> /\ Collect
    /\ UNCHANGED <<stored, old, settled, todo, due, narrow>>
-----------------------------------------------------------------------------
(* The lanes *)

\* Deviation: the file is written before the commit, which may then not happen.
Commit_After(w, q, f) ==
    /\ stored' = [stored EXCEPT ![q] = @ \cup (IF f = Winner THEN {f} ELSE {})]
\* commit_block, with the winner or with participants.
Commit(w, q, f) == stored' = [stored EXCEPT ![q] = @ \cup {f}]

\* commit_block, then write_files with what was committed.
Index(w) ==
    /\ w \in Lanes /\ job[w].at = "idle"
    /\ \E q \in Qblocks, f \in Facts :
         /\ Commit(w, q, f)
         /\ job' = [job EXCEPT ![w] = [Resting EXCEPT !.at = "read", !.path = q, !.add = {f}]]
    /\ UNCHANGED <<old, settled, fileVars, sweepVars>>
-----------------------------------------------------------------------------
(* The maintenance *)

\* A pass over the winners of all history or, once a pass was complete, of the recent
\* window.  If the query fails there is no pass.
Sweep ==
    /\ job[Maintain].at = "idle"
    /\ \/ /\ todo' = {q \in settled : Winner \in stored[q] /\ (narrow => q \notin old)}
          /\ due' = IF narrow THEN due ELSE todo'
          /\ complete' = TRUE /\ To(Maintain, "next") /\ UNCHANGED narrow
       \/ To(Maintain, "walk") /\ UNCHANGED sweepVars
    /\ UNCHANGED <<stored, old, settled, fileVars>>

\* One winner: nothing to do if its file is there, else it is written from the store.
Restore ==
    /\ job[Maintain].at = "next" /\ todo # {}
    /\ \E q \in todo :
         /\ todo' = todo \ {q}
         /\ \/ /\ file[q] # None
               /\ UNCHANGED <<job, complete>>
            \/ /\ file[q] = None
               /\ job' = [job EXCEPT ![Maintain] =
                            [Resting EXCEPT !.at = "read", !.path = q, !.add = stored[q]]]
               /\ UNCHANGED complete
            \/ complete' = FALSE /\ UNCHANGED job
    /\ UNCHANGED <<stored, old, settled, fileVars, due, narrow>>

\* The end of the pass.
EndSweep ==
    /\ job[Maintain].at = "next" /\ todo = {}
    /\ narrow' = (narrow \/ complete)
    /\ To(Maintain, "walk")
    /\ UNCHANGED <<stored, old, settled, fileVars, todo, due, complete>>

\* rebuild_manifests: every file there is.
Walk ==
    /\ job[Maintain].at = "walk"
    /\ job' = [job EXCEPT ![Maintain] = [Resting EXCEPT !.at = "open", !.path = Manifest,
                  !.doc = {q \in Qblocks : file[q] # None}]]
    /\ UNCHANGED <<stored, old, settled, fileVars, sweepVars>>
-----------------------------------------------------------------------------
\* Five minutes pass for the winner of q.
Age == \E q \in Qblocks \ settled :
         /\ settled' = settled \cup {q}
         /\ UNCHANGED <<stored, old, job, fileVars, sweepVars>>

\* The process ends and starts again; the files are as they are.
Crash ==
    /\ job' = [w \in Writers |-> Resting]
    /\ todo' = {} /\ due' = {} /\ complete' = FALSE /\ narrow' = FALSE
    /\ UNCHANGED <<stored, old, settled, file, temp>> /\ Collect

Next ==
    \/ \E w \in Writers : Read(w) \/ Open(w) \/ Write(w) \/ Rename(w) \/ Fail(w)
    \/ \E w \in Lanes : Index(w)
    \/ Sweep \/ Restore \/ EndSweep \/ Walk
    \/ Age \/ Crash

Spec == Init /\ [][Next]_vars
-----------------------------------------------------------------------------
(* Properties *)

\* A file never shows what the store does not have: files are written after the commit,
\* whichever writer's bytes a rename publishes.
PublishedIsStored == \A q \in Qblocks : Visible(q) \subseteq stored[q]

\* The manifest never names a file that is not there.
ListedExists == \A q \in Visible(Manifest) : file[q] # None

\* restore_since leaves the history behind only when every winner of it has a file.
NarrowedIsComplete == narrow => \A q \in due : file[q] # None
=============================================================================
