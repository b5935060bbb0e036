--------------------------- MODULE FilesList_proofs ---------------------------
(***************************************************************************)
(* Proofs about scr_fetch_files_list: for any file list, whatever the      *)
(* summary records and wherever the rank dies, the filemap file lists      *)
(* every file in the cache, its expected count is the number it lists, a   *)
(* file it marks complete holds what a successful fetch delivers, and the  *)
(* return code is truthful.  All four follow from the inductive invariant  *)
(* FilesInv.                                                               *)
(***************************************************************************)
EXTENDS FilesList, FiniteSetTheorems, TLAPS

\* The for loop's next file is one of the files it has not reached.
LEMMA FirstInTodo ==
  ASSUME NEW S \in SUBSET Files, S # {}
  PROVE  First(S) \in S
BY FilesHaveFirst DEF First

\* Every filemap the model builds lists finitely many files, at most all.
LEMMA FilesFinite ==
  ASSUME NEW S \in SUBSET Files
  PROVE  IsFiniteSet(S) /\ Cardinality(S) \in 0 .. Cardinality(Files)
<1>1. IsFiniteSet(S) /\ Cardinality(S) <= Cardinality(Files)
  BY FilesAssumption, FS_Subset
<1>2. Cardinality(S) \in Nat
  BY <1>1, FS_CardinalityType
<1> QED
  BY <1>1, <1>2

LEMMA InitFilesInv == Init => FilesInv
<1> SUFFICES ASSUME Init PROVE FilesInv
  OBVIOUS
<1>1. Cardinality({}) = 0 /\ 0 \in 0 .. Cardinality(Files)
  BY FS_EmptySet, FilesFinite
<1>2. EmptyMap \in Filemap
  BY DEF EmptyMap, Filemap, MetaState, NoCount
<1> QED
  BY <1>1, <1>2 DEF Init, FilesInv, TypeOK, EmptyMap, NoUntrackedFile,
                    FileState, NoCount

\* The loop visits file f and, unless it is marked no_fetch, counts it,
\* lists it in the filemap and writes the filemap.
LEMMA VisitFilesInv ==
  ASSUME FilesInv, pc = "loop", NEW f \in todo, Visit(f),
         UNCHANGED <<summary, containers, crcOn, cache>>
  PROVE  FilesInv'
<1> USE DEF FilesInv, TypeOK
<1>1. f \in Files /\ f \notin map.files /\ map.meta[f] = "none"
  OBVIOUS
<1>2. map.expected = NoCount
  BY DEF NoCount
<1>3. CASE summary[f].noFetch
  <2>1. todo' \subseteq Files /\ cur' \in Files
    BY <1>1, <1>3 DEF Visit, Advance
  <2> QED
    BY <1>3, <2>1 DEF Visit, Advance, NoUntrackedFile, Delivered
<1>4. CASE ~ summary[f].noFetch
  <2> DEFINE m == [map EXCEPT !.files = @ \cup {f}]
  <2>1. /\ todo' = todo \ {f} /\ cur' = f
        /\ numFiles' = numFiles + 1 /\ map' = m /\ mapFile' = m
        /\ \/ pc' = "fetch" /\ rc' = rc
           \/ pc' = "end" /\ rc' = FAILURE
    BY <1>4 DEF Visit, Advance, AddFile, WriteMap, CheckSize
  <2>2. m.files = map.files \cup {f} /\ m.meta = map.meta
        /\ m.expected = map.expected
    OBVIOUS
  <2>3. numFiles' = Cardinality(m.files)
    <3>1. map.files \in SUBSET Files
      BY DEF Filemap
    <3>2. IsFiniteSet(map.files) /\ numFiles = Cardinality(map.files)
      BY <3>1, FilesFinite
    <3> QED
      BY <2>1, <2>2, <3>2, <1>1, FS_AddElement
  <2>4. numFiles' \in 0 .. Cardinality(Files) /\ m \in Filemap
    BY <2>2, <2>3, <1>1, FilesFinite DEF Filemap
  <2>5. CASE pc' = "fetch" /\ rc' = rc
    BY <2>1, <2>2, <2>3, <2>4, <2>5, <1>1, <1>2
       DEF NoUntrackedFile, Delivered, NoCount
  <2>6. CASE pc' = "end" /\ rc' = FAILURE
    <3>1. ~ \A g \in m.files : m.meta[g] = "complete"
      BY <2>2, <1>1
    <3>2. (rc = SUCCESS <=> \A g \in m.files : m.meta[g] = "complete")'
      BY <2>1, <2>6, <3>1 DEF SUCCESS, FAILURE
    <3>3. TypeOK'
      BY <2>1, <2>4, <2>6, <1>1
    <3>4. (\A g \in Files : mapFile.meta[g] \in {"none", map.meta[g]})'
      BY <2>1, <2>2
    <3>5. (\A g \in todo : map.meta[g] = "none")'
      BY <2>1, <2>2
    <3>6. (map.expected # NoCount => pc = "done" /\ map.expected = numFiles)'
      BY <2>1, <2>2, <1>2
    <3>7. (\A g \in Files : map.meta[g] = "complete" => cache[g] \in Delivered(g))'
      BY <2>1, <2>2 DEF Delivered
    <3>8. NoUntrackedFile'
      BY <2>1, <2>2 DEF NoUntrackedFile
    <3> QED
      BY <2>1, <2>2, <2>3, <2>6, <3>2, <3>3, <3>4, <3>5, <3>6, <3>7, <3>8
  <2> QED
    BY <2>1, <2>5, <2>6
<1> QED
  BY <1>3, <1>4

LEMMA LoopFilesInv == FilesInv /\ Loop => FilesInv'
<1> SUFFICES ASSUME FilesInv, Loop PROVE FilesInv'
  OBVIOUS
<1>1. CASE todo # {} /\ Visit(First(todo))
  <2>1. First(todo) \in todo
    BY <1>1, FirstInTodo DEF FilesInv, TypeOK
  <2> QED
    BY <1>1, <2>1, VisitFilesInv DEF Loop
<1>2. CASE todo = {} /\ pc' = "end"
           /\ UNCHANGED <<todo, cur, rc, numFiles, map, mapFile>>
  BY <1>2 DEF Loop, FilesInv, TypeOK, NoUntrackedFile, Delivered, NoCount
<1> QED
  BY <1>1, <1>2 DEF Loop

\* The fetch of the current file sets its meta in memory only; success
\* leaves it delivered, failure sets FAILURE.
LEMMA FetchFilesInv == FilesInv /\ Fetch => FilesInv'
<1> SUFFICES ASSUME FilesInv, Fetch PROVE FilesInv'
  OBVIOUS
<1> USE DEF FilesInv, TypeOK
<1> DEFINE f == cur
           tried == containers \/ summary[f].hasPath
<1>0. pc = "fetch"
  BY DEF Fetch, FetchFile
<1>1. f \in Files /\ f \in map.files /\ f \notin todo /\ map.meta[f] = "none"
      /\ mapFile.meta[f] = "none"
  BY <1>0 DEF Filemap
<1>2. PICK ok \in BOOLEAN, st \in FileState :
        /\ ok => tried /\ st \in Delivered(f)
        /\ cache' = IF tried THEN [cache EXCEPT ![f] = st] ELSE cache
        /\ map' = [map EXCEPT !.meta[f] =
                     IF ok THEN "complete" ELSE "incomplete"]
        /\ rc' = IF ok THEN rc ELSE FAILURE
  BY DEF Fetch, FetchFile
<1>3. /\ pc' = "loop"
      /\ UNCHANGED <<summary, containers, crcOn, todo, cur, numFiles, mapFile>>
  BY DEF Fetch, FetchFile
<1>4. /\ map'.files = map.files /\ map'.expected = map.expected
      /\ map'.meta = [map.meta EXCEPT ![f] = IF ok THEN "complete"
                                             ELSE "incomplete"]
      /\ map' \in Filemap
  BY <1>1, <1>2 DEF Filemap, MetaState
<1>5. cache' \in [Files -> FileState]
      /\ \A g \in Files : g # f => cache'[g] = cache[g]
  BY <1>1, <1>2
<1>6. \A g \in Files : map'.meta[g] = "complete" => cache'[g] \in Delivered(g)'
  BY <1>1, <1>2, <1>3, <1>4, <1>5 DEF Delivered
<1>7. NoUntrackedFile'
  BY <1>1, <1>3, <1>5 DEF NoUntrackedFile
<1>8. rc' = SUCCESS <=> \A g \in map'.files : map'.meta[g] = "complete"
  <2>1. \A g \in map.files \ {f} : map'.meta[g] = map.meta[g]
    BY <1>4 DEF Filemap
  <2>2. rc = SUCCESS <=> \A g \in map.files \ {f} : map.meta[g] = "complete"
    BY <1>0
  <2>3. CASE ok
    BY <2>1, <2>2, <2>3, <1>1, <1>2, <1>4 DEF Filemap
  <2>4. CASE ~ ok
    BY <2>4, <1>1, <1>2, <1>4 DEF Filemap, SUCCESS, FAILURE
  <2> QED
    BY <2>3, <2>4
<1>9. map.expected = NoCount
  BY <1>0 DEF NoCount
<1> QED
  BY <1>1, <1>2, <1>3, <1>4, <1>5, <1>6, <1>7, <1>8, <1>9 DEF NoCount

\* The expected count is recorded and the whole map written.
LEMMA EndFilesInv == FilesInv /\ End => FilesInv'
<1> SUFFICES ASSUME FilesInv, End PROVE FilesInv'
  OBVIOUS
<1> USE DEF FilesInv, TypeOK
<1> DEFINE m == [map EXCEPT !.expected = numFiles]
<1>1. pc = "end" /\ map' = m /\ mapFile' = m /\ pc' = "done"
      /\ UNCHANGED <<summary, containers, crcOn, todo, cur, rc, numFiles, cache>>
  BY DEF End, WriteMap
<1>2. m.files = map.files /\ m.meta = map.meta /\ m.expected = numFiles
      /\ m \in Filemap
  BY DEF Filemap
<1> QED
  BY <1>1, <1>2 DEF NoUntrackedFile, Delivered, NoCount

\* The rank dies: only a file being fetched changes, and it is listed and
\* has no meta.
LEMMA CrashFilesInv == FilesInv /\ Crash => FilesInv'
<1> SUFFICES ASSUME FilesInv, Crash PROVE FilesInv'
  OBVIOUS
<1> USE DEF FilesInv, TypeOK
<1>1. pc' = "crashed" /\ pc # "done"
      /\ UNCHANGED <<summary, containers, crcOn, todo, cur, rc, numFiles, map,
                     mapFile>>
  BY DEF Crash
<1>2. map.expected = NoCount
  BY <1>1
<1>3. CASE pc = "fetch"
  <2>1. cur \in Files /\ cur \in mapFile.files /\ map.meta[cur] = "none"
    BY <1>3 DEF Filemap
  <2>2. PICK st \in {cache[cur], "partial"} : cache' = [cache EXCEPT ![cur] = st]
    BY <1>3 DEF Crash
  <2>3. cache' \in [Files -> FileState]
        /\ \A g \in Files : g # cur => cache'[g] = cache[g]
    BY <2>1, <2>2 DEF FileState
  <2> QED
    BY <1>1, <1>2, <2>1, <2>2, <2>3 DEF NoUntrackedFile, Delivered
<1>4. CASE pc # "fetch"
  BY <1>1, <1>2, <1>4 DEF Crash, NoUntrackedFile, Delivered
<1> QED
  BY <1>3, <1>4

LEMMA NextFilesInv == FilesInv /\ [Next]_vars => FilesInv'
<1> SUFFICES ASSUME FilesInv, [Next]_vars PROVE FilesInv'
  OBVIOUS
<1>1. CASE Loop
  BY <1>1, LoopFilesInv
<1>2. CASE Fetch
  BY <1>2, FetchFilesInv
<1>3. CASE End
  BY <1>3, EndFilesInv
<1>4. CASE Crash
  BY <1>4, CrashFilesInv
<1>5. CASE UNCHANGED vars
  BY <1>5 DEF vars, FilesInv, TypeOK, NoUntrackedFile, Delivered
<1> QED
  BY <1>1, <1>2, <1>3, <1>4, <1>5 DEF Next

\* FilesInv holds in every state of every run, for any file list.
THEOREM FilesInvariant == Spec => []FilesInv
BY InitFilesInv, NextFilesInv, PTL DEF Spec

\* The model of scr_fetch_files_list is well typed.
THEOREM TypeCorrect == Spec => []TypeOK
<1>1. FilesInv => TypeOK
  BY DEF FilesInv
<1> QED
  BY FilesInvariant, <1>1, PTL

\* Every file in the cache, wherever the rank died, is listed in the
\* filemap file: the filemap is written before the file is created.
THEOREM NoUntrackedFileCorrect == Spec => []NoUntrackedFile
<1>1. FilesInv => NoUntrackedFile
  BY DEF FilesInv
<1> QED
  BY FilesInvariant, <1>1, PTL

\* The expected file count, once written, is the number of files the
\* filemap file lists, the file the loop broke out at included.
THEOREM CountMatchesFilemapCorrect == Spec => []CountMatchesFilemap
<1>1. FilesInv => CountMatchesFilemap
  BY DEF FilesInv, CountMatchesFilemap
<1> QED
  BY FilesInvariant, <1>1, PTL

\* A file the filemap file marks complete holds what a successful fetch
\* delivers: a meta set after a failed fetch, or before a crash, never
\* reaches the file as complete.
THEOREM CompleteMeansDeliveredCorrect == Spec => []CompleteMeansDelivered
<1>1. FilesInv => CompleteMeansDelivered
  <2> SUFFICES ASSUME FilesInv, NEW f \in Files,
                      mapFile.meta[f] = "complete"
               PROVE  cache[f] \in Delivered(f)
    BY DEF CompleteMeansDelivered
  <2>1. map.meta[f] = "complete"
    BY DEF FilesInv
  <2> QED
    BY <2>1 DEF FilesInv
<1> QED
  BY FilesInvariant, <1>1, PTL

\* When scr_fetch_files_list returns, its return code says whether every
\* file the filemap file lists was fetched complete.
THEOREM ReturnTruthfulCorrect == Spec => []ReturnTruthful
<1>1. FilesInv => ReturnTruthful
  BY DEF FilesInv, ReturnTruthful
<1> QED
  BY FilesInvariant, <1>1, PTL

=============================================================================
