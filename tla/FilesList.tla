------------------------------ MODULE FilesList ------------------------------
(***************************************************************************)
(* scr_fetch_files_list in src/src/scr_fetch.c: one rank fetches the files *)
(* of its file list into its cache directory and records them in its       *)
(* filemap, which lives in memory and is written to disk by                *)
(* scr_filemap_write.  Each file is fetched by scr_fetch_file (plain mode) *)
(* or scr_fetch_file_from_containers; both are taken at their contract,    *)
(* FileFetch, which ContainerRead shows the container reader meets.  The   *)
(* rank may die at any step: memory is lost, the cache files and the       *)
(* filemap file keep what was written, and the next run's cache cleanup    *)
(* works from that filemap file.                                           *)
(***************************************************************************)
EXTENDS Integers, FiniteSets

CONSTANT Files     \* the list's file names, in the hash's iteration order

ASSUME FilesAssumption == IsFiniteSet(Files) /\ Files \subseteq Nat

\* The hash's iteration order has a first element in every non-empty set of
\* names (true of any finite set of naturals).
ASSUME FilesHaveFirst ==
  \A S \in SUBSET Files : S # {} => \E f \in S : \A g \in S : f <= g

SUCCESS == "SUCCESS"
FAILURE == "FAILURE"
NoCount == -1      \* no expected file count recorded

\* A file's record in the summary: the no_fetch marker, whether the size,
\* a path (plain mode) and a crc32 are present, and the complete flag
\* (absent means complete).
Record == [noFetch : BOOLEAN, hasSize : BOOLEAN, hasPath : BOOLEAN,
           hasCrc : BOOLEAN, complete : BOOLEAN]

\* A filemap: the files added for this dataset and rank, each file's meta
\* complete flag once set, and the expected number of files.
MetaState == {"none", "complete", "incomplete"}
Filemap == [files : SUBSET Files, meta : [Files -> MetaState],
            expected : {NoCount} \cup Nat]
EmptyMap == [files |-> {}, meta |-> [f \in Files |-> "none"],
             expected |-> NoCount]

\* A cache file: never created, partly written, the summary's bytes, or
\* whole but with bytes a read corrupted.
FileState == {"absent", "partial", "whole", "corrupt"}

VARIABLES
  summary,     \* the file list as scattered to this rank (fixed)
  containers,  \* whether the list has a containers hash (fixed)
  crcOn,       \* scr_crc_on_flush (fixed)
  pc,
  todo,        \* files the for loop has not reached
  cur,         \* the file being fetched
  rc,
  numFiles,    \* my_num_files
  map,         \* the filemap in memory
  mapFile,     \* the filemap file on disk
  cache        \* the cache directory's files

vars == <<summary, containers, crcOn, pc, todo, cur, rc, numFiles, map,
          mapFile, cache>>

TypeOK ==
  /\ summary \in [Files -> Record]
  /\ containers \in BOOLEAN /\ crcOn \in BOOLEAN
  /\ pc \in {"loop", "fetch", "end", "done", "crashed"}
  /\ todo \subseteq Files
  /\ cur \in Files \cup {NoCount}
  /\ rc \in {SUCCESS, FAILURE}
  /\ numFiles \in 0 .. Cardinality(Files)
  /\ map \in Filemap /\ mapFile \in Filemap
  /\ cache \in [Files -> FileState]

\* The dataset was deleted from the cache before the fetch (scr_fetch_files),
\* so no file of it and no record of it is left.
Init ==
  /\ summary \in [Files -> Record]
  /\ containers \in BOOLEAN /\ crcOn \in BOOLEAN
  /\ pc = "loop"
  /\ todo = Files
  /\ cur = NoCount
  /\ rc = SUCCESS
  /\ numFiles = 0
  /\ map = EmptyMap /\ mapFile = EmptyMap
  /\ cache = [f \in Files |-> "absent"]

\* The first of a set of file names in iteration order.
First(S) == CHOOSE f \in S : \A g \in S : f <= g

\* scr_filemap_write(scr_map_file, map): the file on disk becomes the map.
WriteMap(m) == mapFile' = m

\* Mutant: the iterator not advanced.
MutAdvance(f) == todo' = todo /\ cur' = f

\* scr_hash_elem_next: file f is taken off the list.
Advance(f) == todo' = todo \ {f} /\ cur' = f

\* Mutants: the filemap write put off to the end of the loop; the file
\* added without being counted.
MutAddFileNoWrite(f) ==
  /\ numFiles' = numFiles + 1
  /\ map' = [map EXCEPT !.files = @ \cup {f}]
  /\ UNCHANGED mapFile

MutAddFileNoCount(f) ==
  LET m == [map EXCEPT !.files = @ \cup {f}] IN
  /\ numFiles' = numFiles
  /\ map' = m
  /\ WriteMap(m)

\* Count the file, add it to the filemap and write the filemap to disk
\* before the file is created.
AddFile(f) ==
  LET m == [map EXCEPT !.files = @ \cup {f}] IN
  /\ numFiles' = numFiles + 1
  /\ map' = m
  /\ WriteMap(m)

\* Mutant: the break on a missing size without setting FAILURE.
MutCheckSizeNoFailure(f) ==
  IF summary[f].hasSize THEN pc' = "fetch" /\ UNCHANGED rc
  ELSE pc' = "end" /\ UNCHANGED rc

\* A missing size sets FAILURE and breaks out of the loop.
CheckSize(f) ==
  IF summary[f].hasSize THEN pc' = "fetch" /\ UNCHANGED rc
  ELSE pc' = "end" /\ rc' = FAILURE

\* Top of the for loop for file f: skip it if marked no_fetch.
Visit(f) ==
  /\ Advance(f)
  /\ IF summary[f].noFetch
     THEN UNCHANGED <<pc, rc, numFiles, map, mapFile>>
     ELSE AddFile(f) /\ CheckSize(f)
  /\ UNCHANGED cache

Loop ==
  /\ pc = "loop"
  /\ \/ todo # {} /\ Visit(First(todo))
     \/ /\ todo = {}
        /\ pc' = "end"
        /\ UNCHANGED <<todo, cur, rc, numFiles, map, mapFile>>
  /\ UNCHANGED <<summary, containers, crcOn, cache>>

\* The cache file states a successful fetch can leave: the summary's bytes,
\* or, when no CRC was verified, bytes a read corrupted (FileFetch).
Delivered(f) ==
  IF crcOn /\ summary[f].hasCrc THEN {"whole"} ELSE {"whole", "corrupt"}

\* Fetch the file with meta complete = 1: from its containers if the list
\* has any, else from its path with scr_fetch_file (no path: failure
\* without touching the cache).  A failed fetch sets the meta incomplete and
\* rc FAILURE and may leave the file in any state; the meta is then set in
\* the filemap in memory only.
FetchFile(markFailed) ==
  /\ pc = "fetch"
  /\ LET f == cur
         tried == containers \/ summary[f].hasPath
     IN  \E ok \in BOOLEAN, st \in FileState :
           /\ ok => tried /\ st \in Delivered(f)
           /\ cache' = IF tried THEN [cache EXCEPT ![f] = st] ELSE cache
           /\ map' = [map EXCEPT !.meta[f] =
                        IF ok \/ ~markFailed THEN "complete" ELSE "incomplete"]
           /\ rc' = IF ok THEN rc ELSE FAILURE
  /\ pc' = "loop"
  /\ UNCHANGED <<summary, containers, crcOn, todo, cur, numFiles, mapFile>>

\* Mutant: a failed file left marked complete.
MutFetchNoIncomplete == FetchFile(FALSE)

Fetch == FetchFile(TRUE)

\* After the loop, or the break: record the expected number of files and
\* write the filemap.
End ==
  /\ pc = "end"
  /\ LET m == [map EXCEPT !.expected = numFiles] IN
       map' = m /\ WriteMap(m)
  /\ pc' = "done"
  /\ UNCHANGED <<summary, containers, crcOn, todo, cur, rc, numFiles, cache>>

\* The rank dies: a file being fetched may be left partly written; memory is
\* lost and nothing more happens in this run.
Crash ==
  /\ pc \notin {"done", "crashed"}
  /\ pc' = "crashed"
  /\ IF pc = "fetch"
     THEN \E st \in {cache[cur], "partial"} : cache' = [cache EXCEPT ![cur] = st]
     ELSE UNCHANGED cache
  /\ UNCHANGED <<summary, containers, crcOn, todo, cur, rc, numFiles, map,
                 mapFile>>

Next == Loop \/ Fetch \/ End \/ Crash

\* One thread; it runs on unless the rank dies.
Spec == Init /\ [][Next]_vars /\ WF_vars(Loop \/ Fetch \/ End)

-----------------------------------------------------------------------------
(* Properties: what the filemap file tells the next run's cleanup.         *)

\* Every file that exists in the cache, however far its fetch got and
\* wherever the rank died, is listed in the filemap file, so the cleanup
\* can delete it (spec 3 and 5 (i): the filemap is written before the
\* file is created).
NoUntrackedFile ==
  \A f \in Files : cache[f] # "absent" => f \in mapFile.files

\* A file the filemap file marks complete holds the summary's bytes, or
\* bytes no CRC could vouch for.
CompleteMeansDelivered ==
  \A f \in Files : mapFile.meta[f] = "complete" => cache[f] \in Delivered(f)

\* The expected file count, once written, is the number of files the
\* filemap file lists, including one the loop broke out at.
CountMatchesFilemap ==
  mapFile.expected # NoCount => mapFile.expected = Cardinality(mapFile.files)

\* The return code says whether every file the filemap lists was fetched
\* complete.
ReturnTruthful ==
  pc = "done" =>
    (rc = SUCCESS <=> \A f \in mapFile.files : mapFile.meta[f] = "complete")

\* Violated: a failed file does not stop the others; every file not marked
\* no_fetch is fetched or marked incomplete (spec 4.3).
AllFilesProcessed ==
  pc = "done" =>
    \A f \in Files : ~summary[f].noFetch => mapFile.meta[f] # "none"

\* Violated: a file the summary marks incomplete is not restored as
\* complete (the summary's complete flag, spec 3).
IncompleteNotRestored ==
  \A f \in Files : mapFile.meta[f] = "complete" => summary[f].complete

-----------------------------------------------------------------------------
\* The inductive invariant behind NoUntrackedFile, CountMatchesFilemap,
\* CompleteMeansDelivered and ReturnTruthful: the filemap file lists what
\* the filemap in memory lists (each write is of the whole map), and differs
\* from it only in meta set since the last write; a file is counted once,
\* when it leaves the loop's list; the file being fetched has no meta yet;
\* and rc is SUCCESS exactly while every file already fetched or abandoned
\* is complete.
FilesInv ==
  /\ TypeOK
  /\ map.files = mapFile.files /\ map.expected = mapFile.expected
  /\ map.files \cap todo = {}
  /\ numFiles = Cardinality(map.files)
  /\ \A f \in todo : map.meta[f] = "none"
  /\ \A f \in Files : mapFile.meta[f] \in {"none", map.meta[f]}
  /\ \A f \in Files : map.meta[f] = "complete" => cache[f] \in Delivered(f)
  /\ NoUntrackedFile
  /\ pc = "fetch" => cur \in map.files /\ map.meta[cur] = "none"
  /\ map.expected # NoCount => pc = "done" /\ map.expected = numFiles
  /\ pc = "done" => mapFile = map
  /\ pc \in {"loop", "end", "done"} =>
       (rc = SUCCESS <=> \A f \in map.files : map.meta[f] = "complete")
  /\ pc = "fetch" =>
       (rc = SUCCESS <=> \A f \in map.files \ {cur} : map.meta[f] = "complete")

====
