---------------------------- MODULE CandidateLoop ----------------------------
(***************************************************************************)
(* The candidate loop of scr_fetch_sync and the outcome of one attempt,    *)
(* scr_fetch_files, in src/src/scr_fetch.c.  Rank 0 picks a checkpoint     *)
(* directory (the target of the "current" link, or the most recent         *)
(* complete checkpoint of the index older than the last one tried), marks  *)
(* it fetched, all ranks attempt it, and on failure the link is removed,   *)
(* the checkpoint is marked failed and the next one is tried.  The index   *)
(* file and the "current" link persist across job runs; Restart models the *)
(* job dying at any point and a new run calling scr_fetch_sync again.      *)
(*                                                                         *)
(* An attempt is collective and its outcome is agreed by all ranks (module *)
(* FetchData shows this for the read phase), so one process stands for    *)
(* all ranks here.                                                         *)
(***************************************************************************)
EXTENDS Integers, FiniteSets

CONSTANTS
  Ids,          \* checkpoint ids recorded in the index file
  CompleteIds,  \* those whose index record says complete
  StrayDir,     \* a directory the "current" link may name that the index lacks
  None,         \* the empty string of target / fetch_dir, an absent link
  Readable,     \* directories scr_file_is_readable accepts
  CurrentInit,  \* possible targets of the "current" link when a job starts
  MaxRuns,      \* bound on the number of job runs
  UnlinkCanFail \* whether scr_file_unlink may fail to remove the link

\* A checkpoint directory is named by its id; StrayDir is any other name.
Dirs == Ids \cup {StrayDir}
NoId == -1       \* the code's -1 checkpoint id

ASSUME IdsAssumption == Ids \subseteq Nat /\ CompleteIds \subseteq Ids
\* The index holds finitely many records, so any of them has a newest.
ASSUME IdsHaveNewest ==
  \A S \in SUBSET Ids : S # {} => \E x \in S : \A y \in S : y <= x
ASSUME DirsAssumption ==
  /\ StrayDir \notin Nat
  /\ None \notin Dirs
  /\ Readable \subseteq Dirs
  /\ CurrentInit \subseteq Dirs \cup {None}
ASSUME RunsAssumption == MaxRuns \in Nat \ {0} /\ UnlinkCanFail \in BOOLEAN

SUCCESS == "SUCCESS"
FAILURE == "FAILURE"

VARIABLES
  \* persistent, in the prefix directory
  failed,          \* ids the index marks failed
  fetchedMarks,    \* ids the index marks fetched
  current,         \* target of the "current" link, or None
  \* node-local cache and flush file
  cache,           \* directories whose dataset is complete in cache
  flushLoc,        \* directories the flush file marks as in CACHE and PFS
  \* one run of scr_fetch_sync (rank 0's view)
  pc,
  readIndex,       \* read_index_file
  ckptId,          \* current_checkpoint_id
  target,          \* target
  fetchDir,        \* fetch_dir
  rc,              \* rc
  fetchAttempted,  \* *fetch_attempted
  datasetId,       \* scr_dataset_id
  runs             \* job runs so far

vars == <<failed, fetchedMarks, current, cache, flushLoc, pc, readIndex,
          ckptId, target, fetchDir, rc, fetchAttempted, datasetId, runs>>

TypeOK ==
  /\ failed \subseteq Ids
  /\ fetchedMarks \subseteq Ids
  /\ current \in Dirs \cup {None}
  /\ cache \subseteq Dirs
  /\ flushLoc \subseteq Dirs
  /\ pc \in {"select", "attempt", "success", "unlink", "mark", "done"}
  /\ readIndex \in BOOLEAN
  /\ ckptId \in Ids \cup {NoId}
  /\ target \in Dirs \cup {None}
  /\ fetchDir \in Dirs \cup {None}
  /\ rc \in {SUCCESS, FAILURE}
  /\ fetchAttempted \in BOOLEAN
  /\ datasetId \in Dirs \cup {None}
  /\ runs \in 1 .. MaxRuns

-----------------------------------------------------------------------------
(* The index, read by rank 0 (scr_index.c is not part of this source).     *)

\* scr_index_get_id_by_dir: the id recorded for a directory, or -1.
IdByDir(d) == IF d \in Ids THEN d ELSE NoId

\* scr_index_get_most_recent_complete: the newest complete checkpoint not
\* marked failed and older than earlier_than (-1: no bound), as <<id, dir>>.
MostRecentComplete(earlierThan) ==
  LET cands == {c \in CompleteIds \ failed :
                  earlierThan = NoId \/ c < earlierThan}
  IN  IF cands = {} THEN <<NoId, None>>
      ELSE LET c == CHOOSE x \in cands : \A y \in cands : y <= x
           IN  <<c, c>>

-----------------------------------------------------------------------------
\* The locals of scr_fetch_sync at the top of a run: rank 0 may or may not
\* manage to read the index file.
RunInit ==
  /\ pc = "select"
  /\ readIndex \in BOOLEAN
  /\ ckptId = NoId
  /\ target = None
  /\ fetchDir = None
  /\ rc = FAILURE
  /\ fetchAttempted = FALSE
  /\ datasetId = None

Init ==
  /\ failed = {}
  /\ fetchedMarks = {}
  /\ current \in CurrentInit
  /\ cache = {}
  /\ flushLoc = {}
  /\ runs = 1
  /\ RunInit

\* Mutant: the index preferred to the link whenever it was read.
MutSelectIndexFirst ==
  /\ pc = "select"
  /\ LET link == IF current # None /\ current \in Readable
                 THEN current ELSE None
         pick == IF ~ readIndex THEN <<ckptId, link>>
                 ELSE MostRecentComplete(ckptId)
     IN  /\ ckptId' = pick[1]
         /\ target' = pick[2]
         /\ fetchDir' = pick[2]
         /\ fetchAttempted' = (fetchAttempted \/ pick[2] # None)
         /\ fetchedMarks' =
              IF pick[2] # None /\ readIndex /\ pick[1] # NoId
              THEN fetchedMarks \cup {pick[1]} ELSE fetchedMarks
  /\ pc' = "attempt"
  /\ UNCHANGED <<failed, current, cache, flushLoc, readIndex, rc, datasetId,
                 runs>>

\* Rank 0, top of the loop body: read the "current" link if it names a
\* readable directory; with the index read, look up that directory's id,
\* or else take the most recent complete checkpoint older than the last one
\* tried; record the attempt in the index and build fetch_dir.
Select ==
  /\ pc = "select"
  /\ LET link == IF current # None /\ current \in Readable
                 THEN current ELSE None
         pick == IF ~ readIndex THEN <<ckptId, link>>
                 ELSE IF link # None THEN <<IdByDir(link), link>>
                 ELSE MostRecentComplete(ckptId)
     IN  /\ ckptId' = pick[1]
         /\ target' = pick[2]
         /\ fetchDir' = pick[2]
         /\ fetchAttempted' = (fetchAttempted \/ pick[2] # None)
         /\ fetchedMarks' =
              IF pick[2] # None /\ readIndex /\ pick[1] # NoId
              THEN fetchedMarks \cup {pick[1]} ELSE fetchedMarks
  /\ pc' = "attempt"
  /\ UNCHANGED <<failed, current, cache, flushLoc, readIndex, rc, datasetId,
                 runs>>

\* scr_fetch_files, all ranks.  No directory: failure.  An unreadable
\* directory, an unreadable summary or a summary without dataset or
\* checkpoint id: failure before the cache is touched.  Otherwise the
\* dataset's cache entries are deleted and the files fetched; a failed read
\* or a failed scr_reddesc_apply deletes the partial dataset again, a
\* success leaves it in cache and marks it in CACHE and PFS in the flush
\* file.
Attempt ==
  /\ pc = "attempt"
  /\ \/ /\ fetchDir = None \/ fetchDir \notin Readable
        /\ rc' = FAILURE
        /\ UNCHANGED <<cache, flushLoc>>
     \/ /\ fetchDir # None /\ fetchDir \in Readable
        /\ \/ /\ rc' = FAILURE             \* summary unusable
              /\ UNCHANGED <<cache, flushLoc>>
           \/ /\ rc' = FAILURE             \* read or redundancy failed
              /\ cache' = cache \ {fetchDir}
              /\ UNCHANGED flushLoc
           \/ /\ rc' = SUCCESS
              /\ cache' = cache \cup {fetchDir}
              /\ flushLoc' = flushLoc \cup {fetchDir}
  /\ pc' = IF rc' = SUCCESS THEN "success" ELSE "unlink"
  /\ UNCHANGED <<failed, fetchedMarks, current, readIndex, ckptId, target,
                 fetchDir, fetchAttempted, datasetId, runs>>

\* Mutants: the success branch without the symlink() call, and with the
\* checkpoint id stored where the dataset id belongs.
MutSuccessNoSymlink ==
  /\ pc = "success"
  /\ datasetId' = fetchDir
  /\ pc' = "done"
  /\ UNCHANGED <<failed, fetchedMarks, current, cache, flushLoc, readIndex,
                 ckptId, target, fetchDir, rc, fetchAttempted, runs>>

MutSuccessCkptAsDataset ==
  /\ pc = "success"
  /\ datasetId' = ckptId
  /\ current' = IF current = None THEN target ELSE current
  /\ pc' = "done"
  /\ UNCHANGED <<failed, fetchedMarks, cache, flushLoc, readIndex, ckptId,
                 target, fetchDir, rc, fetchAttempted, runs>>

\* Success: record the dataset id and have rank 0 point "current" at the
\* target; symlink() fails, and is not checked, if the link already exists.
Success ==
  /\ pc = "success"
  /\ datasetId' = fetchDir
  /\ current' = IF current = None THEN target ELSE current
  /\ pc' = "done"
  /\ UNCHANGED <<failed, fetchedMarks, cache, flushLoc, readIndex, ckptId,
                 target, fetchDir, rc, fetchAttempted, runs>>

\* Mutant: the failure branch without the scr_file_unlink call.
MutFailNoUnlink ==
  /\ pc = "unlink"
  /\ pc' = IF fetchDir # None THEN "mark" ELSE "done"
  /\ UNCHANGED <<failed, fetchedMarks, current, cache, flushLoc, readIndex,
                 ckptId, target, fetchDir, rc, fetchAttempted, datasetId, runs>>

\* Failure: scr_file_unlink(scr_current), whose result is not checked; with
\* no fetch directory the loop ends.
FailUnlink ==
  /\ pc = "unlink"
  /\ \/ current' = None
     \/ UnlinkCanFail /\ UNCHANGED current
  /\ pc' = IF fetchDir # None THEN "mark" ELSE "done"
  /\ UNCHANGED <<failed, fetchedMarks, cache, flushLoc, readIndex, ckptId,
                 target, fetchDir, rc, fetchAttempted, datasetId, runs>>

\* Rank 0 marks the checkpoint failed in the index and writes the index,
\* then the loop goes round.
FailMark ==
  /\ pc = "mark"
  /\ failed' = IF readIndex /\ ckptId # NoId /\ target # None
               THEN failed \cup {ckptId} ELSE failed
  /\ pc' = "select"
  /\ UNCHANGED <<fetchedMarks, current, cache, flushLoc, readIndex, ckptId,
                 target, fetchDir, rc, fetchAttempted, datasetId, runs>>

\* The job dies at any point and a new run starts; the index, the link and
\* the node-local cache keep what was written.
Restart ==
  /\ runs < MaxRuns
  /\ runs' = runs + 1
  /\ pc' = "select"
  /\ readIndex' \in BOOLEAN
  /\ ckptId' = NoId
  /\ target' = None
  /\ fetchDir' = None
  /\ rc' = FAILURE
  /\ fetchAttempted' = FALSE
  /\ datasetId' = None
  /\ UNCHANGED <<failed, fetchedMarks, current, cache, flushLoc>>

FetchSync == Select \/ Attempt \/ Success \/ FailUnlink \/ FailMark

Next == FetchSync \/ Restart

\* scr_fetch_sync runs to its end unless the job dies; dying is not forced.
Spec == Init /\ [][Next]_vars /\ WF_vars(FetchSync)

-----------------------------------------------------------------------------
(***************************************************************************)
(* Properties                                                              *)
(***************************************************************************)

\* The "current" link never names a checkpoint the index marks failed, in
\* any run and whatever point earlier runs died at: a failed attempt removes
\* the link before it marks the checkpoint failed, and a new run would
\* otherwise follow the link straight back to a known bad checkpoint.
CurrentNotFailed == current \notin failed

\* When scr_fetch_sync returns success, "current" names the directory just
\* fetched, that dataset is complete in cache and scr_dataset_id is its id
\* (spec 3, "current pointer", and 4.6 step 5).
SuccessPointsCurrent ==
  (pc = "done" /\ rc = SUCCESS)
    => /\ current = target
       /\ target \in cache
       /\ datasetId = target

\* Whatever the link names when a job starts: when scr_fetch_sync returns
\* success, the dataset fetched is complete in cache and scr_dataset_id
\* names it, and "current" names it too unless "current" is a link that
\* scr_file_is_readable rejected (882).  A stale link is the only link
\* that can survive a successful fetch (symlink() at 929 keeps it).
SuccessCurrentUnlessStale ==
  (pc = "done" /\ rc = SUCCESS)
    => /\ target \in cache
       /\ datasetId = target
       /\ current = target \/ current \notin Readable \cup {None}

\* Every run of scr_fetch_sync that is not cut short returns: the loop
\* cannot try candidates forever (spec 4.6, "termination").
FetchSyncReturns == <>(pc = "done")

\* An inductive strengthening of CurrentNotFailed (when unlink succeeds):
\* the candidate being tried is not failed, and once a failed attempt has
\* unlinked "current" it stays unlinked until the checkpoint is marked.
CandidateInv ==
  /\ TypeOK
  /\ current \notin failed
  /\ pc \in {"attempt", "success", "unlink"} => target \notin failed
  /\ pc = "mark" => current = None


\* An inductive strengthening of SuccessPointsCurrent when every directory
\* the link can name at start is readable: the link stays readable or
\* absent, the directory tried is the one the link names whenever there is
\* a link, and a successful attempt has left it complete in cache.
SuccessInv ==
  /\ TypeOK
  /\ current \in Readable \cup {None}
  /\ fetchDir = target
  /\ pc \in {"attempt", "success"} /\ current # None => target = current
  /\ pc = "success" => rc = SUCCESS /\ target \in cache \cap Readable
  /\ pc \in {"unlink", "mark"} => rc = FAILURE
  /\ pc = "done" /\ rc = SUCCESS =>
       current = target /\ target \in cache /\ datasetId = target

\* An inductive strengthening of SuccessCurrentUnlessStale, for any link at
\* start: the directory tried is the one a readable link names, a
\* successful attempt has left it complete in cache, and the failure
\* branch runs only with rc at FAILURE.
LinkFollowInv ==
  /\ TypeOK
  /\ fetchDir = target
  /\ pc \in {"attempt", "success"} /\ current \in Readable => target = current
  /\ pc = "success" => rc = SUCCESS /\ target \in cache \cap Readable
  /\ pc \in {"unlink", "mark"} => rc = FAILURE
  /\ pc = "done" /\ rc = SUCCESS =>
       /\ target \in cache /\ datasetId = target
       /\ current = target \/ current \notin Readable \cup {None}

=============================================================================
