------------------------- MODULE ContainerRead_proofs -------------------------
(***************************************************************************)
(* Proofs about scr_fetch_file_from_containers (ContainerRead) for every   *)
(* set of segments, every segment length and every buffer size: the copy  *)
(* loop's invariant ReadInv, and from it type correctness, ErrorReported   *)
(* and the safety part of the refinement of FileFetch; then OrderInv, the  *)
(* loop's ascending order and the in-order listing of what it has copied,  *)
(* and from it SuccessIntact.                                              *)
(***************************************************************************)
EXTENDS ContainerRead, FiniteSetTheorems, WellFoundedInduction, TLAPS

\* The sort picks a key of the remaining set: a nonempty set of natural
\* keys has a smallest one.
LEMMA SmallestKeyIn ==
  ASSUME NEW S \in SUBSET SegKeys, S # {}
  PROVE  SmallestKey(S) \in S /\ \A j \in S : SmallestKey(S) <= j
<1>1. S \subseteq Nat
  BY SegAssumption
<1>2. PICK x \in S : \A y \in S : ~(<<y, x>> \in OpToRel(<, Nat))
  BY <1>1, WFMin, NatLessThanWellFounded
<1>3. \A y \in S : x <= y
  <2> TAKE y \in S
  <2>1. <<y, x>> \in Nat \X Nat
    BY <1>1
  <2>2. ~(y < x)
    BY <1>2, <2>1, Zenon DEF OpToRel
  <2>. QED
    BY <1>1, <2>2
<1>4. \E z \in S : \A y \in S : z <= y
  BY <1>3
<1>. QED
  BY <1>4 DEF SmallestKey

\* A byte of a segment, good or corrupted, is one of the file's bytes.
LEMMA ByteInBytes ==
  ASSUME NEW k \in SegKeys, NEW j \in 1 .. SegLength[k], NEW bad \in BOOLEAN
  PROVE  Byte(k, j, bad) \in Bytes
BY DEF Bytes

\* A byte identity is a segment key and an offset from 1.
LEMMA FileBytesShape ==
  ASSUME NEW b \in FileBytes
  PROVE  /\ b = <<b[1], b[2]>>
         /\ b[1] \in SegKeys /\ b[2] \in 1 .. SegLength[b[1]]
<1>1. PICK k \in SegKeys : \E j \in 1 .. SegLength[k] : b = <<k, j>>
  BY DEF FileBytes
<1>2. PICK j \in 1 .. SegLength[k] : b = <<k, j>>
  BY <1>1
<1>. QED
  BY <1>2

\* File order is a strict order on byte identities.
LEMMA BeforeStrict ==
  ASSUME NEW a \in FileBytes, NEW b \in FileBytes
  PROVE  /\ ~Before(a, a)
         /\ Before(a, b) => ~Before(b, a)
<1>1. a[1] \in Nat /\ a[2] \in Nat /\ b[1] \in Nat /\ b[2] \in Nat
  BY FileBytesShape, SegAssumption
<1>. QED
  BY <1>1 DEF Before

\* Two sequences that list the same bytes in file order are equal: at the
\* first index where they differ, the byte of one must appear in the other
\* either earlier (where they agree, so it repeats) or later (so the two
\* bytes come before each other).
LEMMA ListsInOrderUnique ==
  ASSUME NEW B \in SUBSET FileBytes, NEW n1 \in Nat, NEW n2 \in Nat,
         NEW s \in [1 .. n1 -> FileBytes], NEW t \in [1 .. n2 -> FileBytes],
         ListsInOrder(s, B), ListsInOrder(t, B)
  PROVE  s = t
<1> DEFINE D == {n \in 1 .. (n1 + n2) :
                   /\ n \in 1 .. n1 \/ n \in 1 .. n2
                   /\ ~(n \in 1 .. n1 /\ n \in 1 .. n2 /\ s[n] = t[n])}
<1>1. CASE D = {}
  <2>1. n1 = n2
    BY <1>1
  <2>. QED
    BY <1>1, <2>1
<1>2. CASE D # {}
  <2>0. D \subseteq Nat
    OBVIOUS
  <2>1. PICK m \in D : \A y \in D : ~(<<y, m>> \in OpToRel(<, Nat))
    BY <1>2, <2>0, WFMin, NatLessThanWellFounded
  <2>2. \A p \in 1 .. m - 1 : p \in 1 .. n1 /\ p \in 1 .. n2 /\ s[p] = t[p]
    <3> TAKE p \in 1 .. m - 1
    <3>1. p \in 1 .. (n1 + n2) /\ <<p, m>> \in OpToRel(<, Nat)
      BY DEF OpToRel
    <3>2. p \notin D
      BY <2>1, <3>1
    <3>3. m \in 1 .. n1 \/ m \in 1 .. n2
      BY <2>1
    <3>4. p \in 1 .. n1 \/ p \in 1 .. n2
      BY <3>3
    <3>. QED
      BY <3>1, <3>2, <3>4
  <2>3. CASE m \in 1 .. n1
    <3>1. ~(m \in 1 .. n2 /\ s[m] = t[m])
      BY <2>1, <2>3
    <3>2. PICK p \in 1 .. n2 : t[p] = s[m]
      BY <2>3 DEF ListsInOrder
    <3>3. CASE p < m
      <4>1. s[p] = s[m] /\ Before(s[p], s[m])
        BY <2>2, <2>3, <3>2, <3>3 DEF ListsInOrder
      <4>. QED
        BY <2>3, <4>1, BeforeStrict
    <3>4. CASE p = m
      BY <3>1, <3>2, <3>4
    <3>5. CASE p > m
      <4>1. m \in 1 .. n2 /\ Before(t[m], s[m])
        BY <2>3, <3>2, <3>5 DEF ListsInOrder
      <4>2. PICK q \in 1 .. n1 : s[q] = t[m]
        BY <4>1 DEF ListsInOrder
      <4>3. CASE q < m
        <5>1. t[q] = t[m] /\ Before(t[q], t[m])
          BY <2>2, <4>1, <4>2, <4>3 DEF ListsInOrder
        <5>. QED
          BY <4>1, <5>1, BeforeStrict
      <4>4. CASE q = m
        BY <3>1, <4>1, <4>2, <4>4
      <4>5. CASE q > m
        <5>1. Before(s[m], t[m])
          BY <2>3, <4>2, <4>5 DEF ListsInOrder
        <5>. QED
          BY <2>3, <4>1, <5>1, BeforeStrict
      <4>. QED
        BY <4>3, <4>4, <4>5
    <3>. QED
      BY <3>3, <3>4, <3>5
  <2>4. CASE m \notin 1 .. n1 /\ m \in 1 .. n2
    <3>1. PICK q \in 1 .. n1 : s[q] = t[m]
      BY <2>4 DEF ListsInOrder
    <3>2. q < m /\ t[q] = t[m] /\ Before(t[q], t[m])
      BY <2>2, <2>4, <3>1 DEF ListsInOrder
    <3>. QED
      BY <2>4, <3>2, BeforeStrict
  <2>. QED
    BY <2>1, <2>3, <2>4
<1>. QED
  BY <1>1, <1>2

\* Appending a listing of later bytes to a listing in file order gives a
\* listing in file order of both.
LEMMA ListsInOrderAppend ==
  ASSUME NEW A, NEW B, NEW s \in Seq(FileBytes), NEW t \in Seq(FileBytes),
         ListsInOrder(s, A), ListsInOrder(t, B),
         \A a \in A, b \in B : Before(a, b)
  PROVE  ListsInOrder(s \o t, A \cup B)
<1> DEFINE u == s \o t
<1>1. /\ DOMAIN u = 1 .. Len(s) + Len(t)
      /\ \A n \in 1 .. Len(s) : u[n] = s[n]
      /\ \A n \in Len(s) + 1 .. Len(s) + Len(t) : u[n] = t[n - Len(s)]
  OBVIOUS
<1>2. \A n \in DOMAIN u : u[n] \in A \cup B
  BY <1>1 DEF ListsInOrder
<1>3. \A b \in A \cup B : \E n \in DOMAIN u : u[n] = b
  <2> TAKE b \in A \cup B
  <2>1. CASE b \in A
    <3>1. PICK n \in 1 .. Len(s) : s[n] = b
      BY <2>1 DEF ListsInOrder
    <3>. QED
      BY <1>1, <3>1
  <2>2. CASE b \in B
    <3>1. PICK n \in 1 .. Len(t) : t[n] = b
      BY <2>2 DEF ListsInOrder
    <3>2. Len(s) + n \in DOMAIN u /\ u[Len(s) + n] = b
      BY <1>1, <3>1
    <3>. QED
      BY <3>2
  <2>. QED
    BY <2>1, <2>2
<1>4. \A m, n \in DOMAIN u : m < n => Before(u[m], u[n])
  <2> TAKE m, n \in DOMAIN u
  <2> HAVE m < n
  <2>1. CASE n <= Len(s)
    BY <1>1, <2>1 DEF ListsInOrder
  <2>2. CASE m <= Len(s) /\ n > Len(s)
    <3>1. u[m] \in A /\ u[n] \in B
      BY <1>1, <2>2 DEF ListsInOrder
    <3>. QED
      BY <3>1
  <2>3. CASE m > Len(s)
    <3>1. m - Len(s) \in 1 .. Len(t) /\ n - Len(s) \in 1 .. Len(t)
          /\ m - Len(s) < n - Len(s)
      BY <1>1, <2>3
    <3>. QED
      BY <1>1, <2>3, <3>1 DEF ListsInOrder
  <2>. QED
    BY <2>1, <2>2, <2>3
<1>. QED
  BY <1>2, <1>3, <1>4 DEF ListsInOrder

\* Positions undoes a read's corruption byte by byte, so it distributes
\* over concatenation and maps the bytes read to byte identities.
LEMMA PositionsType ==
  ASSUME NEW s \in Seq(Bytes)
  PROVE  Positions(s) \in Seq(FileBytes)
<1>1. \A x \in Bytes :
        <<x[1], IF x[2] < 0 THEN -x[2] ELSE x[2]>> \in FileBytes
  <2> TAKE x \in Bytes
  <2>1. PICK k \in SegKeys : \E j \in 1 .. SegLength[k], bad \in BOOLEAN :
                              x = Byte(k, j, bad)
    BY DEF Bytes
  <2>2. PICK j \in 1 .. SegLength[k], bad \in BOOLEAN : x = Byte(k, j, bad)
    BY <2>1
  <2>3. <<x[1], IF x[2] < 0 THEN -x[2] ELSE x[2]>> = <<k, j>>
    BY <2>2, SegAssumption DEF Byte
  <2>. QED
    BY <2>3 DEF FileBytes
<1>. QED
  BY <1>1 DEF Positions

LEMMA PositionsConcat ==
  ASSUME NEW s \in Seq(Bytes), NEW t \in Seq(Bytes)
  PROVE  Positions(s \o t) = Positions(s) \o Positions(t)
<1> DEFINE P(x) == <<x[1], IF x[2] < 0 THEN -x[2] ELSE x[2]>>
<1>1. Positions(s \o t) = [n \in 1 .. Len(s) + Len(t) |-> P((s \o t)[n])]
  BY DEF Positions
<1>2. /\ Positions(s) \in Seq(FileBytes) /\ Positions(t) \in Seq(FileBytes)
      /\ Positions(s) = [n \in 1 .. Len(s) |-> P(s[n])]
      /\ Positions(t) = [n \in 1 .. Len(t) |-> P(t[n])]
  BY PositionsType DEF Positions
<1>2a. Len(Positions(s)) = Len(s) /\ Len(Positions(t)) = Len(t)
  BY <1>2
<1>3. \A n \in 1 .. Len(s) + Len(t) :
        P((s \o t)[n]) = (Positions(s) \o Positions(t))[n]
  <2> TAKE n \in 1 .. Len(s) + Len(t)
  <2>1. CASE n <= Len(s)
    <3>1. (s \o t)[n] = s[n] /\ (Positions(s) \o Positions(t))[n] = Positions(s)[n]
      BY <1>2, <2>1
    <3>. QED
      BY <1>2, <2>1, <3>1
  <2>2. CASE ~(n <= Len(s))
    <3>0. n - Len(s) \in 1 .. Len(t)
      BY <2>2
    <3>a. (s \o t)[n] = t[n - Len(s)]
      BY <2>2, <3>0
    <3>b. (Positions(s) \o Positions(t))[n] = Positions(t)[n - Len(s)]
      BY <1>2, <1>2a, <2>2, <3>0
    <3>1. /\ (s \o t)[n] = t[n - Len(s)]
          /\ (Positions(s) \o Positions(t))[n] = Positions(t)[n - Len(s)]
          /\ n - Len(s) \in 1 .. Len(t)
      BY <3>0, <3>a, <3>b
    <3>2. Positions(t)[n - Len(s)] = P(t[n - Len(s)])
      BY <1>2, <3>0
    <3>. QED
      BY <3>1, <3>2
  <2>. QED
    BY <2>1, <2>2, Zenon
<1>4. DOMAIN (Positions(s) \o Positions(t)) = 1 .. Len(s) + Len(t)
  BY <1>2, <1>2a
<1>4a. Positions(s) \o Positions(t) \in Seq(FileBytes)
  BY <1>2
<1>4b. Len(Positions(s) \o Positions(t)) = Len(s) + Len(t)
  BY <1>2, <1>2a
<1>5. \A w \in Seq(FileBytes) : w = [n \in 1 .. Len(w) |-> w[n]]
  OBVIOUS
<1>6. Positions(s) \o Positions(t)
        = [n \in 1 .. Len(s) + Len(t) |-> (Positions(s) \o Positions(t))[n]]
  BY <1>4a, <1>4b, <1>5
<1>. QED
  BY <1>1, <1>3, <1>6

\* A listing of every byte of the file in file order is Expected: it is
\* one of the sequences Expected chooses among (a bijection from 1..n
\* onto the file's bytes, so n is their number), and there is only one.
LEMMA ExpectedUnique ==
  ASSUME NEW s \in Seq(FileBytes), ListsInOrder(s, FileBytes)
  PROVE  s = Expected
<1>1. s \in Bijection(1 .. Len(s), FileBytes)
  <2>1. \A m, n \in 1 .. Len(s) : m # n => s[m] # s[n]
    <3> TAKE m, n \in 1 .. Len(s)
    <3> HAVE m # n
    <3>1. Before(s[m], s[n]) \/ Before(s[n], s[m])
      BY DEF ListsInOrder
    <3>. QED
      BY <3>1, BeforeStrict
  <2>2. s \in [1 .. Len(s) -> FileBytes]
    OBVIOUS
  <2>3. s \in Injection(1 .. Len(s), FileBytes)
    BY <2>1, <2>2 DEF Injection, IsInjective
  <2>4. s \in Surjection(1 .. Len(s), FileBytes)
    BY <2>2 DEF Surjection, ListsInOrder
  <2>. QED
    BY <2>3, <2>4 DEF Bijection
<1>2. Cardinality(FileBytes) = Len(s)
  BY <1>1, FS_CountingElements DEF ExistsBijection
<1>3. s \in [1 .. Cardinality(FileBytes) -> FileBytes]
  BY <1>2
<1>4. /\ Expected \in [1 .. Cardinality(FileBytes) -> FileBytes]
      /\ ListsInOrder(Expected, FileBytes)
  BY <1>3 DEF Expected
<1>. QED
  BY <1>2, <1>3, <1>4, ListsInOrderUnique

\* The invariant holds when the function is entered.
LEMMA InitReadInv == Init => ReadInv
<1> SUFFICES ASSUME Init PROVE ReadInv
  OBVIOUS
<1>1. << >> \in Seq(Bytes)
  OBVIOUS
<1>2. todo \subseteq SegKeys /\ seg \in SegKeys \cup {-1} /\ remaining \in Nat
  BY DEF Init
<1>3. content \in Seq(Bytes) /\ crc \in Seq(Bytes)
  BY <1>1 DEF Init
<1>. QED
  BY <1>2, <1>3 DEF Init, ReadInv, TypeOK, SUCCESS, FAILURE, DstFd

\* One pass of the while loop keeps the invariant: the bytes read stay
\* inside the segment, and a read or write that moves fewer bytes than
\* asked sets FAILURE, so a successful pass digests and writes the same
\* chunk.
LEMMA CopyReadInv == ReadInv /\ Copy /\ UNCHANGED <<crcOn, metaHasCrc>>
                       => ReadInv'
<1> SUFFICES ASSUME ReadInv, Copy, UNCHANGED <<crcOn, metaHasCrc>>
             PROVE  ReadInv'
  OBVIOUS
<1>1. /\ pc = "copy" /\ remaining > 0
      /\ seg \in SegKeys /\ remaining <= SegLength[seg]
      /\ remaining \in Nat
  BY DEF Copy, CopyChunk, ReadInv, TypeOK
<1> DEFINE count == IF remaining > BufSize THEN BufSize ELSE remaining
           from  == ChunkStart(seg, remaining)
<1>2. count \in 1 .. remaining
  BY <1>1, BufAssumption
<1>3. from \in Nat /\ from + remaining = SegLength[seg]
  BY <1>1, SegAssumption DEF ChunkStart
<1>4. PICK nread \in -1 .. count, nwrite \in -1 .. count, bad \in BOOLEAN :
        LET got   == [j \in 1 .. nread |-> Byte(seg, from + j, bad)]
            wrote == IF nwrite > 0 THEN SubSeq(got, 1, nwrite) ELSE << >>
            writeErr == nread > 0 /\ nwrite # nread
            readErr  == ULong(nread) < count \/ (TRUE /\ nread < 0)
        IN  /\ nwrite <= nread
            /\ nread > 0 \/ nwrite = nread
            /\ crc' = crc \o got
            /\ content' = content \o wrote
            /\ remaining' = IF nread > 0 /\ ~writeErr
                            THEN remaining - nread ELSE remaining
            /\ pc' = IF writeErr \/ readErr THEN "close_container"
                     ELSE "copy"
            /\ rc' = IF writeErr \/ readErr THEN FAILURE ELSE rc
            /\ ioErr' = (ioErr \/ nread < count \/ writeErr)
  BY DEF Copy, CopyChunk
<1> DEFINE got   == [j \in 1 .. nread |-> Byte(seg, from + j, bad)]
           wrote == IF nwrite > 0 THEN SubSeq(got, 1, nwrite) ELSE << >>
           writeErr == nread > 0 /\ nwrite # nread
           readErr  == ULong(nread) < count \/ (TRUE /\ nread < 0)
<1>5. UNCHANGED <<todo, seg, fds>>
  BY DEF Copy, CopyChunk
<1>a. nwrite <= nread /\ (nread > 0 \/ nwrite = nread)
  BY <1>4
<1>b. crc' = crc \o got /\ content' = content \o wrote
  BY <1>4
<1>c. remaining' = IF nread > 0 /\ ~writeErr THEN remaining - nread
                                               ELSE remaining
  BY <1>4
<1>d. /\ pc' = IF writeErr \/ readErr THEN "close_container" ELSE "copy"
      /\ rc' = IF writeErr \/ readErr THEN FAILURE ELSE rc
      /\ ioErr' = (ioErr \/ nread < count \/ writeErr)
  BY <1>4
<1>6. got \in Seq(Bytes)
  <2>1. \A j \in 1 .. nread : Byte(seg, from + j, bad) \in Bytes
    <3> SUFFICES ASSUME NEW j \in 1 .. nread
                 PROVE  Byte(seg, from + j, bad) \in Bytes
      OBVIOUS
    <3>1. from + j \in 1 .. SegLength[seg]
      BY <1>1, <1>2, <1>3, SegAssumption
    <3>. QED
      BY <1>1, <3>1, ByteInBytes
  <2>2. CASE nread >= 0
    BY <2>1, <2>2, <1>2
  <2>3. CASE nread = -1
    <3>1. got = << >>
      BY <2>3
    <3>. QED
      BY <3>1
  <2>. QED
    BY <2>2, <2>3, <1>2
<1>7. wrote \in Seq(Bytes)
  BY <1>6, <1>2, <1>a
<1>8. remaining' \in Nat /\ remaining' <= SegLength[seg]
  <2>1. CASE nread > 0 /\ ~writeErr
    BY <2>1, <1>1, <1>2, <1>c, SegAssumption
  <2>2. CASE ~(nread > 0 /\ ~writeErr)
    BY <2>2, <1>1, <1>c
  <2>. QED
    BY <2>1, <2>2
<1>9. ioErr' => rc' = FAILURE
  <2>1. nread < count => readErr
    BY <1>2, BufAssumption DEF ULong
  <2>. QED
    BY <1>d, <2>1 DEF ReadInv
<1>10. rc' = SUCCESS => content' = crc'
  <2> SUFFICES ASSUME rc' = SUCCESS PROVE content' = crc'
    OBVIOUS
  <2>1. ~writeErr /\ ~readErr /\ rc = SUCCESS
    BY <1>d DEF SUCCESS, FAILURE
  <2>2. nread >= count
    BY <2>1, <1>2 DEF ULong
  <2>3. nread = count /\ nwrite = count
    BY <2>1, <2>2, <1>2, <1>a
  <2>4. wrote = got
    BY <2>3, <1>2
  <2>. QED
    BY <2>1, <2>4, <1>b DEF ReadInv
<1>11. TypeOK'
  BY <1>b, <1>d, <1>5, <1>6, <1>7, <1>8, <1>1
     DEF ReadInv, TypeOK, SUCCESS, FAILURE
<1>. QED
  BY <1>1, <1>d, <1>5, <1>8, <1>9, <1>10, <1>11 DEF ReadInv

\* A pass of the while loop that leaves rc at SUCCESS read and wrote the
\* whole chunk: count = min(remaining, buf_size) bytes of seg from
\* ChunkStart on, appended to the destination, with remaining lowered by
\* count and the loop going round again.
LEMMA CopySuccess ==
  ASSUME ReadInv, Copy, rc' = SUCCESS
  PROVE  \E bad \in BOOLEAN :
           LET count == IF remaining > BufSize THEN BufSize ELSE remaining
               from  == ChunkStart(seg, remaining)
           IN  /\ count \in 1 .. remaining
               /\ content' = content \o [j \in 1 .. count |->
                                           Byte(seg, from + j, bad)]
               /\ remaining' = remaining - count
               /\ pc' = "copy" /\ rc = SUCCESS
               /\ UNCHANGED <<todo, seg>>
<1>1. /\ pc = "copy" /\ remaining > 0 /\ remaining \in Nat
  BY DEF Copy, CopyChunk, ReadInv, TypeOK
<1> DEFINE count == IF remaining > BufSize THEN BufSize ELSE remaining
           from  == ChunkStart(seg, remaining)
<1>2. count \in 1 .. remaining
  BY <1>1, BufAssumption
<1>3. PICK nread \in -1 .. count, nwrite \in -1 .. count, bad \in BOOLEAN :
        LET got   == [j \in 1 .. nread |-> Byte(seg, from + j, bad)]
            wrote == IF nwrite > 0 THEN SubSeq(got, 1, nwrite) ELSE << >>
            writeErr == nread > 0 /\ nwrite # nread
            readErr  == ULong(nread) < count \/ (TRUE /\ nread < 0)
        IN  /\ nwrite <= nread
            /\ content' = content \o wrote
            /\ remaining' = IF nread > 0 /\ ~writeErr
                            THEN remaining - nread ELSE remaining
            /\ pc' = IF writeErr \/ readErr THEN "close_container"
                     ELSE "copy"
            /\ rc' = IF writeErr \/ readErr THEN FAILURE ELSE rc
  BY DEF Copy, CopyChunk
<1> DEFINE got   == [j \in 1 .. nread |-> Byte(seg, from + j, bad)]
           wrote == IF nwrite > 0 THEN SubSeq(got, 1, nwrite) ELSE << >>
           writeErr == nread > 0 /\ nwrite # nread
           readErr  == ULong(nread) < count \/ (TRUE /\ nread < 0)
<1>4. ~writeErr /\ ~readErr /\ rc = SUCCESS
  BY <1>3 DEF SUCCESS, FAILURE
<1>5. nread = count /\ nwrite = count
  <2>1. nread >= count
    BY <1>4, <1>2 DEF ULong
  <2>. QED
    BY <2>1, <1>2, <1>3, <1>4
<1>6. wrote = [j \in 1 .. count |-> Byte(seg, from + j, bad)]
  BY <1>5, <1>2
<1>7. UNCHANGED <<todo, seg>>
  BY DEF Copy, CopyChunk
<1>8. /\ content' = content \o [j \in 1 .. count |-> Byte(seg, from + j, bad)]
      /\ remaining' = remaining - count /\ pc' = "copy"
  BY <1>3, <1>4, <1>5, <1>6
<1>. QED
  BY <1>2, <1>4, <1>7, <1>8

\* Every step of the function keeps the invariant.
LEMMA NextReadInv == ReadInv /\ [Next]_vars => ReadInv'
<1> SUFFICES ASSUME ReadInv, [Next]_vars PROVE ReadInv'
  OBVIOUS
<1>0. UNCHANGED <<crcOn, metaHasCrc>>
  BY DEF Next, vars
<1>1. CASE OpenDst
  <2>1. UNCHANGED <<todo, seg, remaining, content, crc>>
    BY <1>1 DEF OpenDst
  <2>2. CASE pc' = "done" /\ rc' = FAILURE /\ ioErr' = TRUE
             /\ UNCHANGED fds
    BY <1>0, <2>1, <2>2 DEF ReadInv, TypeOK, SUCCESS, FAILURE
  <2>3. CASE pc' = "segment" /\ fds' = {DstFd} /\ UNCHANGED <<rc, ioErr>>
    BY <1>0, <2>1, <2>3 DEF ReadInv, TypeOK, SUCCESS, FAILURE
  <2>. QED
    BY <1>1, <2>2, <2>3 DEF OpenDst
<1>2. CASE Segment
  <2>1. todo \subseteq SegKeys /\ todo # {}
    BY <1>2 DEF Segment, ReadInv, TypeOK
  <2>2. SmallestKey(todo) \in SegKeys
    BY <2>1, SmallestKeyIn
  <2>3. SegLength[SmallestKey(todo)] \in Nat
    BY <2>2, SegAssumption
  <2> DEFINE k == SmallestKey(todo)
  <2>4. /\ todo' = todo \ {k} /\ seg' = k /\ remaining' = SegLength[k]
        /\ UNCHANGED <<content, crc>>
    BY <1>2 DEF Segment, OpenSegment
  <2>5. CASE pc' = "close" /\ rc' = FAILURE /\ ioErr' = TRUE
             /\ UNCHANGED fds
    BY <1>0, <2>1, <2>2, <2>3, <2>4, <2>5 DEF ReadInv, TypeOK, SUCCESS, FAILURE
  <2>6. CASE fds' = fds \cup {k} /\ pc' = "close" /\ rc' = FAILURE
             /\ ioErr' = TRUE
    BY <1>0, <2>1, <2>2, <2>3, <2>4, <2>6 DEF ReadInv, TypeOK, SUCCESS, FAILURE
  <2>7. CASE fds' = fds \cup {k} /\ pc' = "copy" /\ UNCHANGED <<rc, ioErr>>
    BY <1>0, <2>1, <2>2, <2>3, <2>4, <2>7 DEF ReadInv, TypeOK
  <2>. QED
    BY <1>2, <2>5, <2>6, <2>7 DEF Segment, OpenSegment
<1>3. CASE SegmentsDone
  BY <1>0, <1>3 DEF SegmentsDone, ReadInv, TypeOK
<1>4. CASE Copy /\ UNCHANGED <<crcOn, metaHasCrc>>
  BY <1>4, CopyReadInv
<1>5. CASE CopyDone
  BY <1>0, <1>5 DEF CopyDone, ReadInv, TypeOK
<1>6. CASE CloseContainer
  <2>1. /\ pc' = "segment" /\ fds' = fds \ {seg}
        /\ UNCHANGED <<todo, seg, remaining, content, crc>>
    BY <1>6 DEF CloseContainer
  <2>2. CASE UNCHANGED <<rc, ioErr>>
    BY <1>0, <2>1, <2>2 DEF ReadInv, TypeOK
  <2>3. CASE rc' = FAILURE /\ ioErr' = TRUE
    BY <1>0, <2>1, <2>3 DEF ReadInv, TypeOK, SUCCESS, FAILURE
  <2>. QED
    BY <1>6, <2>2, <2>3 DEF CloseContainer
<1>7. CASE Close
  BY <1>0, <1>7 DEF Close, ReadInv, TypeOK, SUCCESS, FAILURE
<1>8. CASE UNCHANGED vars
  BY <1>8 DEF vars, ReadInv, TypeOK
<1>. QED
  BY <1>1, <1>2, <1>3, <1>4, <1>5, <1>6, <1>7, <1>8 DEF Next

\* The copy loop's invariant ReadInv holds in every reachable state, for
\* every set of segments, segment lengths and buffer size.
THEOREM ReadInvariant == Spec => []ReadInv
BY InitReadInv, NextReadInv, PTL DEF Spec

\* Every variable of scr_fetch_file_from_containers keeps its type; in
\* particular every byte read comes from inside its segment.
THEOREM ContainerTypeCorrect == Spec => []TypeOK
BY ReadInvariant, PTL DEF ReadInv

\* A failed lookup, open, seek, read, write or close is always reported:
\* the function never returns success after one.
THEOREM ErrorReportedCorrect == Spec => []ErrorReported
<1>1. ReadInv => ErrorReported
  BY DEF ReadInv, ErrorReported
<1>. QED
  BY <1>1, ReadInvariant, PTL

\* The safety part of FileFetchRefined: the function starts busy, and its
\* only visible step is its return, with success only when the destination
\* holds the expected bytes whenever the CRC is verified; every other step
\* leaves the caller's view unchanged.
THEOREM FileFetchSafety == Spec => FF!Init /\ [][FF!Return]_FF!vars
<1>1. Init => FF!Init
  BY DEF Init, FF!Init
<1>2. ReadInv /\ [Next]_vars => [FF!Return]_FF!vars
  <2> SUFFICES ASSUME ReadInv, [Next]_vars PROVE [FF!Return]_FF!vars
    OBVIOUS
  <2>1. CASE pc = "done"
    <3>1. UNCHANGED vars
      BY <2>1 DEF Next, OpenDst, Segment, SegmentsDone, Copy, CopyChunk,
                  CopyDone, CloseContainer, Close
    <3>. QED
      BY <3>1 DEF vars, FF!vars
  <2>2. CASE pc # "done" /\ pc' # "done"
    <3>1. UNCHANGED <<crcOn, metaHasCrc>>
      BY DEF Next, vars
    <3>. QED
      BY <2>2, <3>1 DEF FF!vars
  <2>3. CASE pc # "done" /\ pc' = "done"
    <3>1. UNCHANGED <<crcOn, metaHasCrc>>
      BY DEF Next, vars
    <3>2. rc' = SUCCESS /\ crcOn /\ metaHasCrc => content' = Expected
      <4>1. CASE OpenDst
        BY <2>3, <4>1 DEF OpenDst, SUCCESS, FAILURE
      <4>2. CASE Close
        BY <4>2 DEF Close, ReadInv, SUCCESS, FAILURE
      <4>. QED
        BY <2>3, <4>1, <4>2
        DEF Next, vars, Segment, OpenSegment, SegmentsDone, Copy,
            CopyChunk, CopyDone, CloseContainer
    <3>3. rc' \in {SUCCESS, FAILURE}
      BY NextReadInv DEF ReadInv, TypeOK
    <3>. QED
      BY <2>3, <3>1, <3>2, <3>3 DEF FF!Return, SUCCESS, FAILURE
  <2>. QED
    BY <2>1, <2>2, <2>3
<1>. QED
  BY <1>1, <1>2, ReadInvariant, PTL DEF Spec

\* A successful pass of the while loop appends the next chunk of seg, in
\* order, to what is already copied: the destination still lists exactly
\* the bytes copied so far, in file order.
LEMMA CopyOrderInv == OrderInv /\ Copy /\ UNCHANGED <<crcOn, metaHasCrc>>
                        => OrderInv'
<1> SUFFICES ASSUME OrderInv, Copy, UNCHANGED <<crcOn, metaHasCrc>>
             PROVE  OrderInv'
  OBVIOUS
<1>1. ReadInv'
  BY CopyReadInv DEF OrderInv
<1>2. UNCHANGED <<todo, seg>> /\ pc = "copy"
  BY DEF Copy, CopyChunk
<1>3. /\ \A k \in SegKeys \ todo' : seg' \in SegKeys /\ k <= seg'
      /\ \A k \in todo' : seg' < k
  BY <1>2 DEF OrderInv
<1>4. rc' = SUCCESS =>
        /\ pc' \in {"open", "segment", "close_container", "close", "done"}
             => remaining' = 0
        /\ pc' \in {"close", "done"} => todo' = {}
        /\ ListsInOrder(Positions(content'), Copied')
  <2> SUFFICES ASSUME rc' = SUCCESS
               PROVE  /\ pc' = "copy"
                      /\ ListsInOrder(Positions(content'), Copied')
    OBVIOUS
  <2>1. ReadInv
    BY DEF OrderInv
  <2>2. PICK bad \in BOOLEAN :
          LET count == IF remaining > BufSize THEN BufSize ELSE remaining
              from  == ChunkStart(seg, remaining)
          IN  /\ count \in 1 .. remaining
              /\ content' = content \o [j \in 1 .. count |->
                                          Byte(seg, from + j, bad)]
              /\ remaining' = remaining - count
              /\ pc' = "copy" /\ rc = SUCCESS
              /\ UNCHANGED <<todo, seg>>
    BY <2>1, CopySuccess
  <2> DEFINE count  == IF remaining > BufSize THEN BufSize ELSE remaining
             from   == ChunkStart(seg, remaining)
             G      == [j \in 1 .. count |-> Byte(seg, from + j, bad)]
             NewPos == [j \in 1 .. count |-> <<seg, from + j>>]
             NewB   == {<<seg, from + j>> : j \in 1 .. count}
  <2>3. /\ count \in 1 .. remaining
        /\ content' = content \o G
        /\ remaining' = remaining - count
        /\ pc' = "copy" /\ rc = SUCCESS
    BY <2>2
  <2>4. /\ seg \in SegKeys /\ remaining \in Nat
        /\ SegLength[seg] \in Nat
        /\ from \in Nat /\ from + remaining = SegLength[seg]
        /\ content \in Seq(Bytes)
    BY <1>2, SegAssumption DEF OrderInv, ReadInv, TypeOK, ChunkStart
  <2>5. G \in Seq(Bytes)
    <3>1. \A j \in 1 .. count : Byte(seg, from + j, bad) \in Bytes
      <4> TAKE j \in 1 .. count
      <4>1. from + j \in 1 .. SegLength[seg]
        BY <2>3, <2>4
      <4>. QED
        BY <2>4, <4>1, ByteInBytes
    <3>. QED
      BY <3>1, <2>3, <2>4
  <2>6. Positions(G) = NewPos
    BY <2>3, <2>4 DEF Positions, Byte
  <2>7. Positions(content') = Positions(content) \o NewPos
    BY <2>3, <2>4, <2>5, <2>6, PositionsConcat
  <2>8. seg \notin todo
    <3>1. \A j \in todo : seg < j
      BY DEF OrderInv
    <3>. QED
      BY <3>1, <2>4, SegAssumption
  <2>9. NewB \subseteq FileBytes
    BY <2>3, <2>4 DEF FileBytes
  <2>10. NewPos \in Seq(FileBytes) /\ ListsInOrder(NewPos, NewB)
    <3>1. \A j \in 1 .. count : NewPos[j] \in NewB
      OBVIOUS
    <3>2. NewPos \in Seq(FileBytes)
      BY <3>1, <2>3, <2>9
    <3>3. \A b \in NewB : \E n \in DOMAIN NewPos : NewPos[n] = b
      OBVIOUS
    <3>4. \A m, n \in DOMAIN NewPos : m < n => Before(NewPos[m], NewPos[n])
      BY <2>3, <2>4 DEF Before
    <3>. QED
      BY <3>1, <3>2, <3>3, <3>4 DEF ListsInOrder
  <2>11. \A a \in Copied, b \in NewB : Before(a, b)
    <3> TAKE a \in Copied, b \in NewB
    <3>1. a \in FileBytes /\ a[1] \notin todo /\ (a[1] = seg => a[2] <= from)
      BY DEF Copied
    <3>2. a[1] \in SegKeys /\ a[1] \in Nat /\ a[2] \in Nat
      BY <3>1, FileBytesShape, SegAssumption
    <3>3. a[1] <= seg
      BY <3>1, <3>2 DEF OrderInv
    <3>4. PICK j \in 1 .. count : b = <<seg, from + j>>
      OBVIOUS
    <3>5. from + j \in Nat /\ from + j > from
      BY <3>4, <2>3, <2>4
    <3>6. CASE a[1] = seg
      BY <3>1, <3>2, <3>4, <3>5, <3>6, <2>4, SegAssumption DEF Before
    <3>7. CASE a[1] # seg
      BY <3>2, <3>3, <3>4, <3>7, <2>4, SegAssumption DEF Before
    <3>. QED
      BY <3>6, <3>7
  <2>12. Copied' = Copied \cup NewB
    <3>1. Copied' = {b \in FileBytes : /\ b[1] \notin todo
                                       /\ b[1] = seg => b[2] <= from + count}
      BY <2>3, <1>2, <2>4 DEF Copied, ChunkStart
    <3>2. ASSUME NEW b \in FileBytes, b[1] \notin todo,
                 b[1] = seg => b[2] <= from + count
          PROVE  b \in Copied \cup NewB
      <4>1. b = <<b[1], b[2]>> /\ b[2] \in Nat
        BY FileBytesShape
      <4>2. CASE b[1] = seg /\ b[2] > from
        <5>1. b[2] - from \in 1 .. count
          BY <4>1, <4>2, <3>2, <2>3, <2>4
        <5>2. b = <<seg, from + (b[2] - from)>>
          BY <4>1, <4>2, <2>4
        <5>. QED
          BY <5>1, <5>2
      <4>3. CASE ~(b[1] = seg /\ b[2] > from)
        BY <4>3, <3>2, <4>1, <2>4 DEF Copied, ChunkStart
      <4>. QED
        BY <4>2, <4>3
    <3>3. ASSUME NEW b \in Copied
          PROVE  b \in FileBytes /\ b[1] \notin todo
                 /\ (b[1] = seg => b[2] <= from + count)
      <4>1. b \in FileBytes /\ b[1] \notin todo /\ (b[1] = seg => b[2] <= from)
        BY DEF Copied
      <4>2. b[2] \in Nat
        BY <4>1, FileBytesShape
      <4>. QED
        BY <4>1, <4>2, <2>3, <2>4
    <3>4. ASSUME NEW b \in NewB
          PROVE  b \in FileBytes /\ b[1] \notin todo
                 /\ (b[1] = seg => b[2] <= from + count)
      <4>1. PICK j \in 1 .. count : b = <<seg, from + j>>
        OBVIOUS
      <4>2. b \in FileBytes
        BY <2>9
      <4>3. from + j <= from + count
        BY <4>1, <2>3, <2>4
      <4>. QED
        BY <4>1, <4>2, <4>3, <2>8
    <3>. QED
      BY <3>1, <3>2, <3>3, <3>4
  <2>13. ListsInOrder(Positions(content), Copied)
    BY <2>3 DEF OrderInv
  <2>14. Positions(content) \in Seq(FileBytes)
    BY <2>4, PositionsType
  <2>15. ListsInOrder(Positions(content) \o NewPos, Copied \cup NewB)
    BY <2>10, <2>11, <2>13, <2>14, ListsInOrderAppend
  <2>. QED
    BY <2>3, <2>7, <2>12, <2>15
<1>. QED
  BY <1>1, <1>3, <1>4 DEF OrderInv

\* The for loop's next segment is the smallest key left: every key visited
\* stays below it and every key still to do above it.  A new segment
\* starts with nothing of it copied, so the destination still lists
\* exactly the bytes copied.
LEMMA SegmentOrderInv ==
  OrderInv /\ Segment /\ UNCHANGED <<crcOn, metaHasCrc>> => OrderInv'
<1> SUFFICES ASSUME OrderInv, Segment, UNCHANGED <<crcOn, metaHasCrc>>
             PROVE  OrderInv'
  OBVIOUS
<1>1. ReadInv'
  BY NextReadInv DEF OrderInv, Next
<1>2. todo \subseteq SegKeys /\ todo # {} /\ pc = "segment"
      /\ seg \in SegKeys \cup {-1}
  BY DEF Segment, OrderInv, ReadInv, TypeOK
<1> DEFINE k == SmallestKey(todo)
<1>3. k \in todo /\ \A j \in todo : k <= j
  BY <1>2, SmallestKeyIn
<1>4. k \in SegKeys /\ k \in Nat /\ SegLength[k] \in Nat
  BY <1>2, <1>3, SegAssumption
<1>5. /\ todo' = todo \ {k} /\ seg' = k /\ remaining' = SegLength[k]
      /\ UNCHANGED content
  BY DEF Segment, OpenSegment
<1>6. \A j \in SegKeys \ todo' : seg' \in SegKeys /\ j <= seg'
  <2> TAKE j \in SegKeys \ todo'
  <2>1. CASE j = k
    BY <2>1, <1>4, <1>5
  <2>2. CASE j # k
    <3>1. j \in SegKeys \ todo /\ j \in Nat
      BY <2>2, <1>5, SegAssumption
    <3>2. seg \in SegKeys /\ j <= seg /\ seg < k
      BY <3>1, <1>3 DEF OrderInv
    <3>. QED
      BY <3>1, <3>2, <1>4, <1>5, SegAssumption
  <2>. QED
    BY <2>1, <2>2
<1>7. \A j \in todo' : seg' < j
  <2> TAKE j \in todo'
  <2>1. j \in todo /\ j # k /\ j \in Nat
    BY <1>2, <1>5, SegAssumption
  <2>. QED
    BY <2>1, <1>3, <1>4, <1>5
<1>8. rc' = SUCCESS => pc' = "copy" /\ rc = SUCCESS
  BY DEF Segment, OpenSegment, SUCCESS, FAILURE
<1>9. rc = SUCCESS => Copied' = Copied
  <2> SUFFICES ASSUME rc = SUCCESS PROVE Copied' = Copied
    OBVIOUS
  <2>1. remaining = 0
    BY <1>2 DEF OrderInv
  <2>2. ASSUME NEW b \in FileBytes
        PROVE  /\ b \in Copied' <=> b[1] \notin todo
               /\ b \in Copied <=> b[1] \notin todo
    <3>1. b[1] \in SegKeys /\ b[2] \in 1 .. SegLength[b[1]]
      BY FileBytesShape
    <3>2. SegLength[b[1]] \in Nat
      BY <3>1, SegAssumption
    <3>3. ChunkStart(seg', remaining') = 0
      BY <1>4, <1>5 DEF ChunkStart
    <3>4. b \in Copied' <=> b[1] \notin todo
      <4>1. (b[1] \notin todo' /\ (b[1] = seg' => b[2] <= 0))
              <=> b[1] \notin todo
        BY <1>3, <1>5, <3>1, <3>2
      <4>. QED
        BY <3>3, <4>1 DEF Copied
    <3>5. b \in Copied <=> b[1] \notin todo
      BY <2>1, <3>1, <3>2 DEF Copied, ChunkStart
    <3>. QED
      BY <3>4, <3>5
  <2>. QED
    BY <2>2 DEF Copied
<1>. QED
  BY <1>1, <1>5, <1>6, <1>7, <1>8, <1>9 DEF OrderInv

\* Every step of the function keeps OrderInv; the steps other than Segment
\* and Copy change none of todo, seg, remaining and content, and never
\* turn rc back to SUCCESS.
LEMMA NextOrderInv == OrderInv /\ [Next]_vars => OrderInv'
<1> SUFFICES ASSUME OrderInv, [Next]_vars PROVE OrderInv'
  OBVIOUS
<1>0. UNCHANGED <<crcOn, metaHasCrc>>
  BY DEF Next, vars
<1>r. ReadInv'
  BY NextReadInv DEF OrderInv
<1>1. CASE OpenDst
  <2>1. UNCHANGED <<todo, seg, remaining, content>>
    BY <1>1 DEF OpenDst
  <2>2. Copied' = Copied
    BY <2>1 DEF Copied, ChunkStart
  <2>3. rc' = SUCCESS => rc = SUCCESS /\ pc' = "segment" /\ pc = "open"
    BY <1>1 DEF OpenDst, SUCCESS, FAILURE
  <2>. QED
    BY <1>r, <2>1, <2>2, <2>3 DEF OrderInv
<1>2. CASE Segment
  BY <1>0, <1>2, SegmentOrderInv
<1>3. CASE SegmentsDone
  <2>1. UNCHANGED <<todo, seg, remaining, content, rc>>
        /\ pc = "segment" /\ todo = {} /\ pc' = "close"
    BY <1>3 DEF SegmentsDone
  <2>2. Copied' = Copied
    BY <2>1 DEF Copied, ChunkStart
  <2>. QED
    BY <1>r, <2>1, <2>2 DEF OrderInv
<1>4. CASE Copy
  BY <1>0, <1>4, CopyOrderInv
<1>5. CASE CopyDone
  <2>1. UNCHANGED <<todo, seg, remaining, content, rc>>
        /\ remaining = 0 /\ pc' = "close_container"
    BY <1>5 DEF CopyDone
  <2>2. Copied' = Copied
    BY <2>1 DEF Copied, ChunkStart
  <2>. QED
    BY <1>r, <2>1, <2>2 DEF OrderInv
<1>6. CASE CloseContainer
  <2>1. UNCHANGED <<todo, seg, remaining, content>>
        /\ pc = "close_container" /\ pc' = "segment"
    BY <1>6 DEF CloseContainer
  <2>2. Copied' = Copied
    BY <2>1 DEF Copied, ChunkStart
  <2>3. rc' = SUCCESS => rc = SUCCESS
    BY <1>6 DEF CloseContainer, SUCCESS, FAILURE
  <2>. QED
    BY <1>r, <2>1, <2>2, <2>3 DEF OrderInv
<1>7. CASE Close
  <2>1. UNCHANGED <<todo, seg, remaining, content>>
        /\ pc = "close" /\ pc' = "done"
    BY <1>7 DEF Close
  <2>2. Copied' = Copied
    BY <2>1 DEF Copied, ChunkStart
  <2>3. rc' = SUCCESS => rc = SUCCESS
    BY <1>7 DEF Close, SUCCESS, FAILURE
  <2>. QED
    BY <1>r, <2>1, <2>2, <2>3 DEF OrderInv
<1>8. CASE UNCHANGED vars
  <2>1. Copied' = Copied
    BY <1>8 DEF vars, Copied, ChunkStart
  <2>. QED
    BY <1>r, <1>8, <2>1 DEF vars, OrderInv
<1>. QED
  BY <1>1, <1>2, <1>3, <1>4, <1>5, <1>6, <1>7, <1>8 DEF Next

\* At the start nothing is copied and no segment visited.
LEMMA InitOrderInv == Init => OrderInv
<1> SUFFICES ASSUME Init PROVE OrderInv
  OBVIOUS
<1>1. Copied = {}
  BY FileBytesShape DEF Init, Copied
<1>2. ListsInOrder(Positions(content), {})
  BY DEF Init, Positions, ListsInOrder
<1>3. \A k \in todo : seg < k
  BY SegAssumption DEF Init
<1>. QED
  BY <1>1, <1>2, <1>3, InitReadInv DEF Init, OrderInv

\* OrderInv holds in every reachable state, for every set of segment keys,
\* segment lengths and buffer size.
THEOREM OrderInvariant == Spec => []OrderInv
BY InitOrderInv, NextOrderInv, PTL DEF Spec

\* When scr_fetch_file_from_containers returns success, the destination
\* holds every byte of every segment once, in ascending key order and in
\* order within each segment, whether or not the CRC is checked.
THEOREM SuccessIntactCorrect == Spec => []SuccessIntact
<1>1. OrderInv => SuccessIntact
  <2> SUFFICES ASSUME OrderInv, pc = "done", rc = SUCCESS
               PROVE  Positions(content) = Expected
    BY DEF SuccessIntact
  <2>1. remaining = 0 /\ todo = {}
          /\ ListsInOrder(Positions(content), Copied)
    BY DEF OrderInv
  <2>2. Copied = FileBytes
    <3>1. ASSUME NEW b \in FileBytes PROVE b \in Copied
      <4>1. b[1] \in SegKeys /\ b[2] \in 1 .. SegLength[b[1]]
        BY FileBytesShape
      <4>2. SegLength[b[1]] \in Nat
        BY <4>1, SegAssumption
      <4>. QED
        BY <2>1, <4>1, <4>2 DEF Copied, ChunkStart
    <3>. QED
      BY <3>1 DEF Copied
  <2>3. Positions(content) \in Seq(FileBytes)
    BY PositionsType DEF OrderInv, ReadInv, TypeOK
  <2>. QED
    BY <2>1, <2>2, <2>3, ExpectedUnique
<1>. QED
  BY <1>1, OrderInvariant, PTL
====
