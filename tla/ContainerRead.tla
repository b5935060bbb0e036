---------------------------- MODULE ContainerRead ----------------------------
(***************************************************************************)
(* scr_fetch_file_from_containers and the lookup it makes,                 *)
(* scr_container_get_name_size_offset_length, in src/src/scr_fetch.c: one  *)
(* logical file rebuilt by copying its segments, in ascending key order,   *)
(* out of container files through a buffer of scr_file_buf_size bytes,     *)
(* with an optional rolling CRC32 checked against the file's meta.         *)
(*                                                                         *)
(* Data is abstracted to byte identities: byte j of segment k is <<k, j>>, *)
(* or <<k, -j>> when a read returns it corrupted.  The CRC                *)
(* is modelled by the byte stream it digests (two CRCs are equal iff their *)
(* streams are, collisions aside).  Every system call may fail; a failed   *)
(* read or write may also be short.                                        *)
(***************************************************************************)
EXTENDS Integers, Sequences, FiniteSets

CONSTANTS
  SegKeys,       \* integer keys of the file's segments hash
  SegLength,     \* segment_length of each segment, in bytes
  BufSize,       \* scr_file_buf_size
  ULONG_MAX      \* the largest unsigned long

ASSUME SegAssumption ==
  /\ IsFiniteSet(SegKeys) /\ SegKeys \subseteq Nat
  /\ SegLength \in [SegKeys -> Nat]
ASSUME BufAssumption ==
  /\ BufSize \in Nat \ {0}
  /\ ULONG_MAX \in Nat /\ ULONG_MAX >= BufSize

SUCCESS == "SUCCESS"
FAILURE == "FAILURE"
DstFd == -1   \* fd_src, the destination file (no segment key is negative)

\* Byte j of segment k as a read returns it, and the file the summary
\* describes.
Byte(k, j, bad) == IF bad THEN <<k, -j>> ELSE <<k, j>>
GoodSeg(k) == [j \in 1 .. SegLength[k] |-> <<k, j>>]
\* The identities of the file's bytes, and the order the summary gives
\* them: segments by ascending key, the bytes of a segment by offset.
FileBytes == UNION {{<<k, j>> : j \in 1 .. SegLength[k]} : k \in SegKeys}
Before(a, b) == a[1] < b[1] \/ (a[1] = b[1] /\ a[2] < b[2])

\* s lists the bytes B in file order, each exactly once.
ListsInOrder(s, B) ==
  /\ \A n \in DOMAIN s : s[n] \in B
  /\ \A b \in B : \E n \in DOMAIN s : s[n] = b
  /\ \A m, n \in DOMAIN s : m < n => Before(s[m], s[n])

\* The file the summary describes: every segment, in ascending key order,
\* each once and whole.
Expected ==
  CHOOSE s \in [1 .. Cardinality(FileBytes) -> FileBytes] :
    ListsInOrder(s, FileBytes)

\* The smallest key of a set of segment keys.
SmallestKey(S) == CHOOSE k \in S : \A j \in S : k <= j

\* (unsigned long) of an int, as the comparison nread < count does it.
ULong(n) == IF n < 0 THEN ULONG_MAX + (1 + n) ELSE n

VARIABLES
  pc,
  todo,       \* segments the for loop has not reached
  seg,        \* the segment being copied
  remaining,  \* remaining
  content,    \* bytes written to the destination file
  crc,        \* the stream digested by crc
  rc,
  fds,        \* open descriptors: DstFd and the segments' containers
  ioErr,      \* ghost: some call has failed
  crcOn,      \* scr_crc_on_flush, fixed for the call
  metaHasCrc  \* whether the meta records a crc32, fixed for the call

vars == <<pc, todo, seg, remaining, content, crc, rc, fds, ioErr, crcOn,
          metaHasCrc>>

Bytes == UNION {{Byte(k, j, bad) : j \in 1 .. SegLength[k], bad \in BOOLEAN} :
                 k \in SegKeys}

TypeOK ==
  /\ pc \in {"open", "segment", "copy", "close_container", "close", "done"}
  /\ todo \subseteq SegKeys
  /\ seg \in SegKeys \cup {-1}
  /\ remaining \in Nat
  /\ content \in Seq(Bytes)
  /\ crc \in Seq(Bytes)
  /\ rc \in {SUCCESS, FAILURE}
  /\ fds \subseteq SegKeys \cup {DstFd}
  /\ ioErr \in BOOLEAN
  /\ crcOn \in BOOLEAN
  /\ metaHasCrc \in BOOLEAN

Init ==
  /\ pc = "open"
  /\ todo = SegKeys
  /\ seg = -1
  /\ remaining = 0
  /\ content = << >>
  /\ crc = << >>
  /\ rc = SUCCESS
  /\ fds = {}
  /\ ioErr = FALSE
  /\ crcOn \in BOOLEAN
  /\ metaHasCrc \in BOOLEAN

\* Open the destination (O_TRUNC) and allocate the buffer; either failing
\* returns at once, a failed malloc after closing the destination.
OpenDst ==
  /\ pc = "open"
  /\ \/ /\ pc' = "done" /\ rc' = FAILURE /\ ioErr' = TRUE
        /\ UNCHANGED fds
     \/ /\ pc' = "segment"
        /\ fds' = {DstFd}
        /\ UNCHANGED <<rc, ioErr>>
  /\ UNCHANGED <<todo, seg, remaining, content, crc>>

\* Top of the for loop body for segment k: look its container up, open it
\* and seek to the segment.  A key missing from the segment or container
\* record, a failed open or a failed seek sets FAILURE and breaks out of the
\* loop; after a failed seek the container is still open.
OpenSegment(k) ==
  /\ todo' = todo \ {k}
  /\ seg' = k
  /\ remaining' = SegLength[k]
  /\ \/ /\ pc' = "close" /\ rc' = FAILURE /\ ioErr' = TRUE  \* lookup, open
        /\ UNCHANGED fds
     \/ /\ fds' = fds \cup {k}                             \* lseek
        /\ pc' = "close" /\ rc' = FAILURE /\ ioErr' = TRUE
     \/ /\ fds' = fds \cup {k}
        /\ pc' = "copy"
        /\ UNCHANGED <<rc, ioErr>>
  /\ UNCHANGED <<content, crc>>

\* The loop ends when every segment has been visited.
SegmentsDone ==
  /\ pc = "segment"
  /\ todo = {}
  /\ pc' = "close"
  /\ UNCHANGED <<todo, seg, remaining, content, crc, rc, fds, ioErr>>

\* Mutant: the segments visited in hash order, without the sort.
MutSegmentUnsorted ==
  /\ pc = "segment"
  /\ \E k \in todo : OpenSegment(k)

\* scr_hash_sort_int(segments, ASCENDING), then the next segment in order.
Segment ==
  /\ pc = "segment"
  /\ todo # {}
  /\ OpenSegment(SmallestKey(todo))

\* One pass of the while loop: read count = min(remaining, buf_size) bytes
\* (the read may return fewer, or -1), digest and write what was read (the
\* write may be short, or -1), then the three checks in the code's order;
\* each failing check sets FAILURE and breaks out of the while loop only.
\* Mutant: the position in the segment off by one.
MutChunkStart(k, rem) == SegLength[k] - rem + 1

\* Bytes of segment k already copied when rem remain.
ChunkStart(k, rem) == SegLength[k] - rem

CopyChunk(checkNeg) ==
  /\ pc = "copy"
  /\ remaining > 0
  /\ LET count == IF remaining > BufSize THEN BufSize ELSE remaining
         from  == ChunkStart(seg, remaining)
     IN  \E nread \in -1 .. count, nwrite \in -1 .. count, bad \in BOOLEAN :
           LET got   == [j \in 1 .. nread |-> Byte(seg, from + j, bad)]
               wrote == IF nwrite > 0 THEN SubSeq(got, 1, nwrite) ELSE << >>
               writeErr == nread > 0 /\ nwrite # nread
               readErr  == ULong(nread) < count \/ (checkNeg /\ nread < 0)
           IN  /\ nwrite <= nread
               /\ nread > 0 \/ nwrite = nread
               /\ crc' = crc \o got
               /\ content' = content \o wrote
               /\ remaining' = IF nread > 0 /\ ~writeErr
                               THEN remaining - nread ELSE remaining
               /\ pc' = IF writeErr \/ readErr THEN "close_container"
                        ELSE "copy"
               /\ rc' = IF writeErr \/ readErr THEN FAILURE ELSE rc
               /\ ioErr' = (ioErr \/ nread < count \/ writeErr)
  /\ UNCHANGED <<todo, seg, fds>>

\* Mutant: the nread < 0 check dropped, so a -1 only passes the unsigned
\* comparison and the read is silently retried.
MutCopyNoNegCheck == CopyChunk(FALSE)

Copy == CopyChunk(TRUE)

\* The while loop ends when the segment is copied.
CopyDone ==
  /\ pc = "copy"
  /\ remaining = 0
  /\ pc' = "close_container"
  /\ UNCHANGED <<todo, seg, remaining, content, crc, rc, fds, ioErr>>

\* Close the container (a failed close sets FAILURE) and go round the for
\* loop, with the next segment whatever rc is.
CloseContainer ==
  /\ pc = "close_container"
  /\ pc' = "segment"
  /\ fds' = fds \ {seg}
  /\ \/ UNCHANGED <<rc, ioErr>>
     \/ rc' = FAILURE /\ ioErr' = TRUE
  /\ UNCHANGED <<todo, seg, remaining, content, crc>>

\* Mutant: the CRC verification left out.
MutCloseNoCrc ==
  /\ pc = "close"
  /\ fds' = fds \ {DstFd}
  /\ pc' = "done"
  /\ \/ UNCHANGED <<rc, ioErr>>
     \/ rc' = FAILURE /\ ioErr' = TRUE
  /\ UNCHANGED <<todo, seg, remaining, content, crc>>

\* Close the destination (a failed close sets FAILURE), free the buffer and,
\* if all went well and CRCs are on, compare the digest with the meta's.
Close ==
  /\ pc = "close"
  /\ fds' = fds \ {DstFd}
  /\ pc' = "done"
  /\ \E closeOk \in BOOLEAN :
       LET rc1 == IF closeOk THEN rc ELSE FAILURE
           mismatch == /\ rc1 = SUCCESS /\ crcOn /\ metaHasCrc
                       /\ crc # Expected
       IN  /\ rc' = IF mismatch THEN FAILURE ELSE rc1
           /\ ioErr' = (ioErr \/ ~closeOk)
  /\ UNCHANGED <<todo, seg, remaining, content, crc>>

Next ==
  /\ UNCHANGED <<crcOn, metaHasCrc>>
  /\ \/ OpenDst \/ Segment \/ SegmentsDone \/ Copy \/ CopyDone
     \/ CloseContainer \/ Close

\* A single thread that runs to its return.
Spec == Init /\ [][Next]_vars /\ WF_vars(Next)

-----------------------------------------------------------------------------
(* Properties                                                              *)

\* The bytes as the summary names them, whether or not a read corrupted them.
Positions(s) == [n \in DOMAIN s |-> <<s[n][1], IF s[n][2] < 0 THEN -s[n][2]
                                                       ELSE s[n][2]>>]

\* When the function returns success, every byte of the destination came
\* from the right place: every segment in ascending order, each once and
\* whole (spec 4.2, steps 2-3), with or without a CRC to check it.
SuccessIntact ==
  (pc = "done" /\ rc = SUCCESS) => Positions(content) = Expected

\* Every failed call (a lookup, open, seek, read, write or close) is
\* reported: the function does not return success after one.
ErrorReported == (pc = "done" /\ ioErr) => rc = FAILURE

\* Every descriptor opened is closed on every exit path (spec 5, "resource
\* discipline").
NoFdLeak == pc = "done" => fds = {}

\* Any error aborts the file: after rc becomes FAILURE no further segment
\* is copied (spec 4.2, "edge cases").
AbortOnError == rc = FAILURE => pc # "copy"

\* What the copy loop keeps true between steps: the segment being copied
\* is a real one with no more left than its length (so every read stays
\* inside it); every failed call has already set rc to FAILURE; and while
\* rc is SUCCESS the CRC has digested exactly the bytes written to the
\* destination, no more and no fewer (a short write fails the file).
ReadInv ==
  /\ TypeOK
  /\ pc = "copy" => seg \in SegKeys /\ remaining <= SegLength[seg]
  /\ ioErr => rc = FAILURE
  /\ rc = SUCCESS => content = crc

\* The bytes copied so far: those of the segments visited before seg, and
\* the first ChunkStart(seg, remaining) bytes of seg.
Copied == {b \in FileBytes : /\ b[1] \notin todo
                             /\ b[1] = seg => b[2] <= ChunkStart(seg, remaining)}

\* Why a success leaves the file intact.  The for loop visits the
\* segments in ascending key order: seg is the largest key visited and is
\* below every key still to do.  While rc is SUCCESS, no segment was left
\* part-copied, the loop reached its end before the destination is closed,
\* and the positions written so far list exactly the bytes copied, in file
\* order.
OrderInv ==
  /\ ReadInv
  /\ \A k \in SegKeys \ todo : seg \in SegKeys /\ k <= seg
  /\ \A k \in todo : seg < k
  /\ rc = SUCCESS =>
       /\ pc \in {"open", "segment", "close_container", "close", "done"}
            => remaining = 0
       /\ pc \in {"close", "done"} => todo = {}
       /\ ListsInOrder(Positions(content), Copied)

\* The function implements what scr_fetch_files_list relies on
\* (FileFetch): it returns, and returns success only with the destination
\* intact when the CRC is verified.  Until it returns the abstract call is
\* busy; the destination is judged when it returns.
FF == INSTANCE FileFetch WITH
        verified <- crcOn /\ metaHasCrc,
        busy     <- pc # "done",
        result   <- IF pc = "done" THEN rc ELSE "none",
        intact   <- pc = "done" /\ content = Expected

FileFetchRefined == FF!Spec

====
