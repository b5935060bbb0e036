# TLA+ models of SCR's fetch path

This directory holds TLA+ models of the fetch path of SCR: `src/src/scr_fetch.c` and `src/src/scr_flush_nompi.h`. Fetch restores the newest usable checkpoint from the parallel file system (PFS) into the node-local cache when a job restarts.

## The system

`scr_fetch_sync` (lines 835-967) is the entry point. It runs on every rank and works like this:

- Rank 0 chooses a checkpoint directory, in this order:
  - the target of the `current` symlink, if it is readable;
  - otherwise, the most recent complete checkpoint in the index file, below the last id tried.
- Rank 0 marks that checkpoint *fetched* in the index.
- All ranks call `scr_fetch_files` (649-833).
- On failure:
  - rank 0 unlinks `current`;
  - rank 0 marks the checkpoint *failed*;
  - the loop tries the next candidate.
- On success, rank 0 points `current` at the target.

`scr_fetch_files` makes one attempt:
- it reads the summary file on rank 0 and scatters it (`scr_fetch_summary`, 463-557);
- it deletes the dataset from the cache;
- it reads the files (`scr_fetch_data`);
- it applies redundancy (`scr_reddesc_apply`);
- it records the dataset in the flush file as being in CACHE and PFS (`scr_flush_file_location_set`, declared in `scr_flush_nompi.h`).

`scr_fetch_data` (559-647) is a flow-control window:
- Rank 0 lets at most `w = min(scr_fetch_width, ranks-1)` workers read at once.
- It sends each worker a "go" flag through a slot of a request array, using `MPI_Isend`/`MPI_Irecv`.
- It reuses the slot that `MPI_Waitany` reports.
- Once rank 0 has seen a failure, later workers receive FAILURE and skip their reads.
- `scr_alltrue` agrees the outcome across all ranks.

Each worker reads its own files with `scr_fetch_files_list` (328-461). That function:
- writes the filemap;
- copies each file, either with `scr_fetch_file` (37-89) or from containers with `scr_fetch_file_from_containers` (91-326);
- sets each file's meta.

## Modules

| Module | Models | State | Actions |
|---|---|---|---|
| `FetchData` | `scr_fetch_data` | `pc` per rank; rank 0's `success`, `i`, `outstanding`, `index`, `req` (the slots); the go and done messages in flight; each rank's read result and the agreed `result` | `Rank0FetchList`, `Rank0Post`, `Rank0WaitAny`, `Rank0CloseWindow`, `WorkerRecv`, `WorkerFetchList`, `WorkerSend`, `AllTrue` |
| `CandidateLoop` | `scr_fetch_sync`, with `scr_fetch_files` as one step | index marks `failed` and `fetchedMarks`, the `current` link, `cache`, `flushLoc`, and the locals of one run (`readIndex`, `ckptId`, `target`, `fetchDir`, `rc`, `datasetId`) | `Select`, `Attempt`, `Success`, `FailUnlink`, `FailMark`, `Restart` |
| `FilesList` | `scr_fetch_files_list`, with `scr_fetch_file` at its contract | the summary records (chosen at Init, then fixed), `todo`, `cur`, `rc`, `numFiles`, the filemap in memory `map` and on disk `mapFile`, the cache files `cache` | `Loop` (`Visit` = `Advance`, `AddFile`, `CheckSize`), `Fetch`, `End`, `Crash` |
| `ContainerRead` | `scr_fetch_file_from_containers` | `todo`, `seg`, `remaining`, the bytes written `content`, the stream digested `crc`, `rc`, open descriptors `fds`, the ghost `ioErr`, `crcOn` and `metaHasCrc` (chosen at Init, then fixed) | `OpenDst`, `Segment`, `SegmentsDone`, `Copy`, `CopyDone`, `CloseContainer`, `Close` |
| `FileFetch` | what fetching one file promises its caller: it returns, and a success with a verified CRC leaves the file intact | `verified`, `busy`, `result`, `intact` | `Return` |
| `FetchData_proofs`, `CandidateLoop_proofs`, `FilesList_proofs`, `ContainerRead_proofs` | TLAPS proofs | | |
| `MC_*` | constants for TLC | | |

The actions follow the code as follows.

**FetchData**
- Each worker's read (`scr_fetch_files_list`) is one step that ends `ok` or `err`.
- `Rank0Post` is one iteration of the posting branch, lines 592-605.
- `Rank0WaitAny` is the `MPI_Waitany` branch, 607-620. It picks any completed slot, which models the nondeterminism of `Waitany`.
- Messages are reliable: MPI point-to-point delivers them. Only their order of completion is free.

**CandidateLoop**
- One process stands for all ranks, because every decision is broadcast from rank 0 or agreed by `scr_alltrue`.
- `Attempt` keeps each exit of `scr_fetch_files` that changes state:
  - no directory, an unreadable directory or an unusable summary: failure with the cache unchanged;
  - a read or redundancy failure: the dataset is deleted from the cache;
  - success: the dataset is in the cache and in the flush file.
- `FailUnlink` models `scr_file_unlink`. When `UnlinkCanFail` is TRUE, it may leave the link in place.
- `Restart` models the job dying at any point. The index, the link and the cache persist. The locals are reset.
- `scr_index_*` is not under `src/`. `IdByDir` and `MostRecentComplete` are modelled from the spec and are marked `spec_modelled` in PROJECT.json.

**FilesList**
- One iteration of the for loop is split at the only point where the outside world can observe a difference:
  - `Loop`/`Visit` covers the skip, the count, the filemap add and write, and the size check, up to the fetch;
  - `Fetch` covers building the meta, the fetch itself, and setting the meta in memory.
- Fetching by containers or by `scr_fetch_file` is one step with the outcomes `FileFetch` allows: failure with the file in any state, or success with the summary's bytes, or corrupt bytes when no CRC was checked (`Delivered`).
- `Crash` is the rank dying at any step. A file being copied may be left partial. The cache and the filemap file persist; the next run's cleanup reads that filemap file.

**ContainerRead**
- Byte `j` of segment `k` is `<<k, j>>`, or `<<k, -j>>` if a read corrupted it. The CRC is the stream of bytes it digested: two CRCs are equal exactly when their streams are, collisions aside.
- `Copy` is one pass of the while loop. `nread` is anything from -1 to `count`, and `nwrite` from -1 to `nread`.
- `Segment` takes the smallest key left (`SmallestKey`), which is what `scr_hash_sort_int(..., ASCENDING)` followed by the iteration does. `Expected` is the file's bytes in file order: the one sequence that lists every `<<k, j>>` once, ordered by key and then by offset (`ListsInOrder`). This non-recursive form keeps the module within the provers' reach. `MC_ContainerRead` checks on the instance (`ASSUME ExpectedIsSortedConcat`) that it equals the code's construction: the segments concatenated in the order `scr_hash_sort_int(..., ASCENDING)` gives (`SetToSortSeq` and `FlattenSeq`).
- The three checks come in the code's order. The test `nread < count` compares as unsigned long (`ULong`), so a -1 passes it and is caught only by the `nread < 0` check.
- `FF == INSTANCE FileFetch WITH ...` maps the reader onto the contract, and `FileFetchRefined == FF!Spec` is checked as a property:
  - the abstract call is busy until `pc = "done"`;
  - it then returns `rc`;
  - the file is intact if `content = Expected`.

## Runs

| Run | Configuration | Result | What it shows |
|---|---|---|---|
| `flow_control` | `MC_FetchData.cfg`: 5 ranks, width 2 | pass | see below |
| `candidate_loop` | `MC_CandidateLoop.cfg` | pass | see below |
| `candidate_loop_unlink_may_fail` | `MC_CandidateLoop_unlinkfail.cfg` | pass | `SuccessPointsCurrent` still holds when `unlink` may fail |
| `candidate_stale_link` | `MC_CandidateLoop_gone.cfg` | violation | finding 1 |
| `candidate_stale_link_contained` | `MC_CandidateLoop_stale.cfg` | pass | with a stale link possible and unlink allowed to fail, a success still leaves the dataset in cache and named by `scr_dataset_id`, and the link is either on it or the stale one (`SuccessCurrentUnlessStale`, `LinkFollowInv`) |
| `candidate_unlink_fails` | `MC_CandidateLoop_unlink.cfg` | violation | finding 2 |
| `container_read` | `MC_ContainerRead.cfg` | pass | see below |
| `container_fd_leak` | `MC_ContainerRead_fdleak.cfg` | violation | finding 3 |
| `container_abort_on_error` | `MC_ContainerRead_abort.cfg` | violation | finding 4 |
| `files_list` | `MC_FilesList.cfg` | pass | see below |
| `files_break_on_missing_size` | `MC_FilesList_break.cfg` | violation | finding 5 |
| `files_complete_flag_ignored` | `MC_FilesList_complete.cfg` | violation | finding 6 |

**flow_control** checks:
- `WindowBound`: at most `w` workers are reading at once.
- `PostSlotFree`: the slot rank 0 posts into is in range and free. This is the `index` reuse hazard.
- `NoSpuriousSkip`: a worker skips only after a real failure.
- `GoCarriesKnownFailure`: a go of SUCCESS is sent only if every result rank 0 has already heard was ok.
- `ReaderSlotInv` and `GoInv`: the inductive invariants behind the proofs of `WindowBound` and `GoCarriesKnownFailure` (see below).
- `AllRanksAgree`: the run ends with the agreed result equal to "every read ok".

**candidate_loop** checks, over 3 job runs:
- `CurrentNotFailed`: the link never names a failed checkpoint.
- `SuccessPointsCurrent`: on success, the link, the cache and `scr_dataset_id` all name the fetched dataset.
- `FetchSyncReturns`: every run returns.
- `CandidateInv` and `SuccessInv`: the inductive invariants of `CurrentNotFailed` and `SuccessPointsCurrent`; `CandidateInv` is proved (see below). `candidate_loop_unlink_may_fail` checks `SuccessPointsCurrent` and `SuccessInv` when unlink may fail.

**container_read** checks:
- `SuccessIntact`: a success leaves every segment in ascending order, once and whole.
- `ErrorReported`: no failed call is followed by a success.
- `FileFetchRefined`: the reader implements `FileFetch`. It returns, and with CRC verification a success means uncorrupted bytes.
- `ReadInv`: the inductive invariant of the proofs (see below).
- `OrderInv`: the inductive invariant behind `SuccessIntact` (see below).

**files_list** checks, with a crash allowed anywhere:
- `NoUntrackedFile`: every cache file is in the filemap file.
- `CompleteMeansDelivered`: a file marked complete holds what a successful fetch delivers.
- `CountMatchesFilemap`: the expected count equals the files listed.
- `ReturnTruthful`: `rc` says whether every listed file is complete.
- `FilesInv`: the inductive invariant of the proof.

**Bounds**
- *flow_control:* 4 workers with a window of 2 make rank 0 post, fill the window, wait, reuse a slot and post again. Any worker may fail, before or after others have been told to go.
- *candidate_loop:* ids `{5,7,9}` with `{5,9}` complete, 7 incomplete and 9 unreadable (its directory gone). The link may be absent, name 5, or name a stray directory. With these values:
  - the index order is exercised;
  - a failed link target is followed by an index fallback;
  - the index read may fail in one run and succeed in the next.
- *candidate_stale_link_contained:* the same index, with only 5 and 9 readable. The link may start absent, at 5, or at the gone stray directory, and unlink may fail. A stale link is then skipped, the index fallback succeeds with the link left in place, and a link at 5 is followed.

  Three runs let a job die between the unlink and the mark, and again after it.
- *container_read:* segment keys `{0,3,5}` with lengths 3, 0 and 1, and a buffer of 2. This gives:
  - a two-pass copy and a partial last chunk;
  - an empty segment;
  - an order the sort matters for.

  With one segment, the sort and the continue-after-error case could not happen.
- *files_list:* two files. Every summary record (no_fetch, size, path, crc, complete), both modes and both CRC settings are explored. This gives a file after a failed one and a file left unvisited by a break.

Every pass run also has a mutant: a plausible bug of the mapped code under which TLC reports the property violated (see `mutants` in PROJECT.json).

## Findings

1. **Stale link after a successful fetch (line 929).**
   - The stale case: `current` exists but names a directory that is unreadable or gone.
   - The index fallback then fetches another checkpoint successfully.
   - `symlink()` fails with EEXIST, and its result is ignored.
   - So `current` still names the stale directory after the fetch succeeded.
2. **Non-termination when unlink fails (line 934).**
   - The result of `scr_file_unlink` is ignored.
   - If the link survives, the next iteration follows it back to the same checkpoint.
   - `get_id_by_dir` does not look at the failed mark, so the same checkpoint is tried again and again.

3. **Leaked container descriptor (line 244).** A failed `lseek` breaks out of the segment loop without closing `fd_container` (spec 5, resource discipline).
4. **Copying continues after an error (line 273).** A failed write or a short read breaks only the inner loop, so later segments are still opened and appended. Spec 4.2 says any error aborts the file. `rc` stays FAILURE, so the damage is extra I/O and a wrong partial file, not a false success.
5. **Break on a missing size (line 393).** The file is already in the filemap without meta, and the files after it are never fetched or marked. Spec 4.3 says the remaining files are still processed. `expected_file_count` still equals the files listed, and `rc` is FAILURE, so the cleanup stays correct.
6. **Ignored `complete` flag (line 410).** A file the summary marks incomplete is restored with meta `complete=1`. The spec leaves this open; the comment at line 400 treats the flag as meaningful.

## Fairness

`Spec` of FetchData has weak fairness for rank 0, for each worker, and for the collective `AllTrue`. Each is a separate MPI process that keeps running while it has work. Blocked receives and waits are enabled only once their message has arrived.

CandidateLoop has weak fairness on the body of `scr_fetch_sync` only. `Restart` (the job dying) is never forced.

FilesList and ContainerRead are single-threaded functions with weak fairness on their steps. A crash is never forced.

`CHECK_DEADLOCK FALSE` is used because every model stops on purpose: all ranks reach `done`, or the run limit is reached.

## Proofs (TLAPS, `FetchData_proofs.tla`, `CandidateLoop_proofs.tla`, `FilesList_proofs.tla` and `ContainerRead_proofs.tla`)

The proofs hold for every `NRanks >= 1` and `FetchWidth >= 1` (`NRanksAssumption`, `FetchWidthAssumption`).

**`TypeCorrect` (`Spec => []TypeOK`) and `PostSlotFreeCorrect` (`Spec => []PostSlotFree`)**
- `TypeOK` alone is not inductive. `Rank0Post` writes `req[index]` and then increments `index`, so keeping it in range needs the shape of the window.
- `WindowShape` gives that shape, in one of three forms:
  - before the first wait, the slots below `index` are exactly the busy ones and `outstanding = index`;
  - or the window is full;
  - or the last wait freed slot `index` and `outstanding = w-1`.
- `TypeInv == TypeOK /\ WindowShape` is proved inductive, with one step per action.
- `WidthFacts` proves the facts about `w`.

**`NoSpuriousSkipCorrect` (`Spec => []NoSpuriousSkip`)**
- `SkipInv` says that any FAILURE held by rank 0, carried by a go or done message, or recorded as a skip implies that some rank's result is `err`.
- `SkipInv` is proved inductive, using the lemma `ErrStays`: an `err` is never overwritten.

**`WindowBoundCorrect` (`Spec => []WindowBound`)**
- The window can only be bounded by counting the request slots. `ReaderSlotInv` says:
  - ranks at or above `i` have not been told to go;
  - a rank with a go pending, or one reading, holds a slot `k` with `req[k] = r`;
  - a done message comes only from a rank that has finished reading;
  - rank 0 finishes only after posting to every rank.
- `ReaderSlotInv` is proved inductive with one step per action (`InitReaderSlotInv`, `NextReaderSlotInv`); `ReaderSlotInvariant` states `Spec => []ReaderSlotInv`.
- `ReadersFitSlots` then shows that the readers are a subset of `Range(req)`, the image of the `w` slots. A surjection from `1..w` onto the range gives `Cardinality(Reading) <= w`. The steps cite `FS_Surjection`, `FS_Interval` and `FS_Subset`.

**`GoCarriesKnownFailureCorrect` (`Spec => GoCarriesKnownFailure`, an action property)**
- `GoInv` says three things:
  - a worker that has read reports success only if its files are ok;
  - a done message carries the worker's own result;
  - while rank 0 holds SUCCESS, its own files and those of every rank it has heard from (`Heard`) are ok.
- `GoInv` (`GoInvariant`: `Spec => []GoInv`) is proved inductive in three named parts (`GoWorkers`, `GoDone`, `GoRank0`), each proved primed, one step per action. `HeardStep` and `HeardSame` say how `Heard` grows.
- `GoStep` shows that every step under `TypeOK`, `ReaderSlotInv` and `GoInv` satisfies the action property. The theorem combines it with the invariants by PTL.

**CandidateLoop: `TypeCorrect` and `CurrentNotFailedCorrect`**
- `TypeCorrect` holds for every index, link and run bound. `CurrentNotFailedCorrect` assumes in addition that unlink succeeds; the `candidate_unlink_fails` run shows why.
- Both rest on `IdsHaveNewest`: every non-empty set of index ids has a newest. For a finite index this is true, and TLC checks it on every run. Without it, the `CHOOSE` inside `MostRecentComplete` could name anything.
- `CandidateInv` strengthens `CurrentNotFailed` with two facts, and is proved inductive:
  - the candidate under attempt is not failed;
  - at `mark`, `current` is unlinked.
- The second fact is the unlink-before-mark order in the code.
- Lemmas:
  - `NewestNotFailed`: the index lookup returns a complete, non-failed checkpoint or none;
  - `SelectPick`: what the pick in `Select` can be.
- `CandidateInvariant` (`Spec => []CandidateInv`, assuming unlink succeeds) is stated on its own, as the run checks it.

**CandidateLoop: `LinkFollowInvariant` and `SuccessCurrentUnlessStaleCorrect`**
- These hold with no hypothesis on the link found at start, for any index, and whether or not unlink can fail.
- `SuccessCurrentUnlessStale` says what a success return really guarantees: the dataset is complete in cache and `scr_dataset_id` names it. `current` names it too, unless `current` is a link that `scr_file_is_readable` rejected at 882. The stale link of finding 1 is therefore the only way the pointer goes wrong.
- `SuccessPointsCurrent` itself has no theorem. It is false without a hypothesis that excludes the stale link, and that hypothesis removes exactly the case the code gets wrong.
- `LinkFollowInv` strengthens the property, and `LinkFollowInvariant` proves it holds in every state:
  - the fetch directory is the target;
  - at `attempt` or `success`, a readable `current` is the target: `Select` follows a readable link, whether or not the index was read;
  - at `success`, the target is in cache and readable;
  - unlink and mark happen only with `rc` at FAILURE;
  - a done with SUCCESS has the cache and `datasetId` naming the target, and `current` naming it or unreadable.
- The `Success` step keeps the last conjunct in three cases:
  - with no link, `symlink()` creates one to the target;
  - a readable link is the target already;
  - an unreadable link stays in place.
- `ReadableNotNone` (no directory is None) lets a readable `current` count as a present link.

**ContainerRead: `ReadInvariant`, `ContainerTypeCorrect`, `ErrorReportedCorrect` and `FileFetchSafety`**
- These hold for every set of natural segment keys, every length and every buffer size of at least 1 (`SegAssumption`, `BufAssumption`).
- `ReadInv` (checked by `container_read`) is `TypeOK` plus three facts:
  - in the copy loop, `seg` is a real segment and `remaining <= SegLength[seg]`, so every byte read lies inside the segment;
  - every failed call has already set `rc` to FAILURE;
  - while `rc` is SUCCESS, `content = crc`: the bytes written are exactly the bytes digested.
- `CopyReadInv` does one pass of the while loop. A read shorter than `count`, including -1 through the `nread < 0` check, sets FAILURE, and so does a write shorter than the read. A pass that keeps SUCCESS therefore writes and digests the same chunk.
- `SmallestKeyIn` shows that the sorted iteration picks a key of the remaining set. It uses `WFMin` and `NatLessThanWellFounded` from WellFoundedInduction.
- `FileFetchSafety` is `Spec => FF!Init /\ [][FF!Return]_FF!vars`, the safety half of `FileFetchRefined`:
  - every step before `done` is a stutter of the abstract call;
  - the step to `done` is `Return`;
  - a success with the CRC verified has `crc = Expected`, and `ReadInv` gives `content = crc`.

**ContainerRead: `OrderInvariant` and `SuccessIntactCorrect`**
- `SuccessIntactCorrect` (`Spec => []SuccessIntact`) holds for every set of segment keys, every length and every buffer size. It rests on `OrderInv` (`OrderInvariant`), which the `container_read` run also checks. `OrderInv` adds to `ReadInv`:
  - every key visited is at most `seg`, and every key still to do is above it: the loop goes in ascending order;
  - while `rc` is SUCCESS:
    - `remaining = 0` outside the copy loop: no segment is left part-copied;
    - `todo = {}` once the destination is closed;
    - `Positions(content)` lists exactly `Copied` in file order. `Copied` is the bytes of the visited segments before `seg`, plus the first `ChunkStart(seg, remaining)` bytes of `seg`.
- `SuccessIntact` alone is not inductive. It says nothing before `done`, so the order of what is written must be carried through the loop.
- The step lemmas:
  - `CopySuccess`: a pass that keeps SUCCESS appends exactly the next `count` bytes of `seg`.
  - `CopyOrderInv`: these bytes all come after `Copied`, so the listing stays in order.
  - `SegmentOrderInv`: the next key is the smallest left (`SmallestKeyIn`), and a new segment starts with nothing copied.
  - `NextOrderInv`: every other step changes none of `todo`, `seg`, `remaining` and `content`, and never turns `rc` back to SUCCESS.
- The lemmas on listings:
  - `ListsInOrderUnique`: two in-order listings of the same set are equal. The proof takes the first index where they differ (a least element by `WFMin`) and shows that neither listing can hold the other's byte there.
  - `ListsInOrderAppend`: listings of A and B, with all of A before all of B, concatenate to a listing of A ∪ B.
  - `PositionsConcat` and `PositionsType`: what `Positions` does to a concatenation, and its type.
  - `ExpectedUnique`: any in-order listing of all the bytes is `Expected`. An in-order listing is a bijection from `1..Len(s)` onto the bytes, so `FS_CountingElements` fixes its length, and `ListsInOrderUnique` does the rest.
- At `done` with SUCCESS, `OrderInv` gives `todo = {}` and `remaining = 0`. Then `Copied` is every byte, and `ExpectedUnique` closes the proof.

**FilesList: `NoUntrackedFileCorrect`, `CountMatchesFilemapCorrect`, `CompleteMeansDeliveredCorrect`, `ReturnTruthfulCorrect`, `TypeCorrect`**

These hold for every file list, every summary, both modes and both CRC settings, wherever the rank dies. All five follow from `FilesInvariant == Spec => []FilesInv`.

`FilesInv` (in `FilesList.tla`, also checked by the `files_list` run) says:
- the filemap file lists what the map in memory lists (each write is of the whole map);
- the two differ only in meta set since the last write;
- the files listed and the loop's remaining list are disjoint, and `numFiles` is the number listed, so adding a file counts it once;
- the file being fetched has no meta yet, so a crash that leaves it partial never touches a file marked complete;
- `rc` is SUCCESS exactly while every file already fetched or abandoned is complete.

Supporting facts:
- The lemmas `VisitFilesInv`, `FetchFilesInv`, `EndFilesInv` and `CrashFilesInv` take one action each.
- The cardinality steps cite `FS_AddElement` and `FS_Subset` of FiniteSetTheorems.
- `FilesHaveFirst` (every non-empty set of names has a first in iteration order) plays the part `IdsHaveNewest` plays above.

**What stays with TLC**
- The liveness properties `AllRanksAgree` and `FetchSyncReturns`, and the fairness half of `FileFetchRefined` (that the reader returns). TLAPS does not handle liveness under fairness, or ENABLED.
- `ExpectedIsSortedConcat`: `Expected` equals the sorted concatenation the code builds. TLC evaluates this on the instance. A proof for every instance would need induction over `FlattenSeq` and `SetToSortSeq`, which are recursive, and the installed provers cannot instantiate the library's induction theorems (they take an operator parameter).

## Not modelled yet, and the plan

- **Refinement of FetchData** to an atomic step in which all ranks read and agree on the outcome: the abstraction `Attempt` uses.
- **Composition:** FilesList inside FetchData's worker step, which is now atomic.
- **Proofs:** the refinement of FetchData, once it is written, and the CandidateLoop and FilesList properties that have no theorem yet.
- **The width hazard (line 573):** `scr_fetch_width <= 0` gives a window of 0. This is excluded by `FetchWidthAssumption`, because the width is validated outside `src/`.
- **Not modelled, by design:**
  - `scr_flush_nompi.h` has declarations only.
  - Logging, timing and path formatting are left out because no property is about them.
  - The scatter inside `scr_fetch_summary` is left out because it is one collective with a single sender.
  - `scr_container_get_name_size_offset_length` (91-136) reads keys from a hash; only its outcome, found or missing, is modelled.
