-------------------------- MODULE FetchData_proofs --------------------------
(***************************************************************************)
(* Proofs about the flow-control window of scr_fetch_data, for every      *)
(* number of ranks and every fetch width the assumptions allow.            *)
(***************************************************************************)
EXTENDS FetchData, FiniteSetTheorems, TLAPS

(***************************************************************************)
(* Facts about the window width w = min(fetch_width, ranks-1).            *)
(***************************************************************************)
LEMMA WidthFacts ==
  /\ w \in Nat
  /\ w <= NRanks - 1
  /\ NRanks > 1 => w >= 1
  /\ Slots = 0 .. w - 1
BY NRanksAssumption, FetchWidthAssumption DEF w, Slots

(***************************************************************************)
(* The shape of rank 0's request arrays while it may still post.  Before   *)
(* the first MPI_Waitany, slots 0..index-1 are busy and the rest free, and *)
(* index = outstanding; afterwards, each wait frees exactly the slot it    *)
(* names in index and the next post refills it, so outstanding is w or     *)
(* w-1 with req[index] free.  Before rank 0 starts, nothing is posted.     *)
(***************************************************************************)
WindowShape ==
  /\ pc[0] = "list" =>
       /\ i = 1 /\ outstanding = 0 /\ index = 0
       /\ \A k \in Slots : req[k] = ReqNull
  /\ (pc[0] = "window" /\ i < NRanks) =>
       \/ /\ outstanding = index
          /\ \A k \in Slots : req[k] # ReqNull <=> k < index
       \/ outstanding = w
       \/ /\ outstanding = w - 1
          /\ index \in Slots
          /\ req[index] = ReqNull

TypeInv == TypeOK /\ WindowShape

LEMMA InitTypeInv == Init => TypeInv
BY NRanksAssumption, WidthFacts
   DEF Init, TypeInv, TypeOK, WindowShape, Ranks, Workers, PCs, Codes,
       ListResults

LEMMA NextTypeInv == TypeInv /\ [Next]_vars => TypeInv'
<1> SUFFICES ASSUME TypeInv, [Next]_vars PROVE TypeInv'
  OBVIOUS
<1> USE NRanksAssumption, FetchWidthAssumption, WidthFacts
<1>1. CASE Rank0FetchList
  BY <1>1 DEF Rank0FetchList, ReadList, TypeInv, TypeOK, WindowShape,
              Ranks, PCs, Codes, ListResults
<1>2. CASE Rank0Post
  <2>1. /\ index \in Slots
        /\ req[index] = ReqNull
        /\ outstanding = index \/ outstanding = w - 1
    BY <1>2 DEF Rank0Post, TypeInv, TypeOK, WindowShape
  <2>2. TypeOK'
    BY <1>2, <2>1 DEF Rank0Post, TypeInv, TypeOK, Workers, Ranks, Codes
  <2>3. WindowShape'
    <3>1. pc'[0] # "list"
      BY <1>2 DEF Rank0Post
    <3>2. CASE /\ outstanding = index
               /\ \A k \in Slots : req[k] # ReqNull <=> k < index
      <4>1. outstanding' = index'
        BY <1>2, <3>2 DEF Rank0Post
      <4>2. \A k \in Slots : req'[k] # ReqNull <=> k < index'
        BY <1>2, <2>1, <3>2 DEF Rank0Post, TypeInv, TypeOK, ReqNull
      <4>. QED BY <3>1, <4>1, <4>2 DEF WindowShape
    <3>3. CASE ~ (/\ outstanding = index
                  /\ \A k \in Slots : req[k] # ReqNull <=> k < index)
      <4>1. outstanding = w - 1
        BY <1>2, <2>1, <3>3 DEF Rank0Post, TypeInv, WindowShape
      <4>2. outstanding' = w
        BY <1>2, <4>1 DEF Rank0Post, TypeInv, TypeOK
      <4>. QED BY <3>1, <4>2 DEF WindowShape
    <3>. QED BY <3>2, <3>3
  <2>. QED BY <2>2, <2>3 DEF TypeInv
<1>3. CASE Rank0WaitAny
  <2>1. PICK k \in Slots :
          /\ req[k] # ReqNull
          /\ doneMsg[req[k]] # NoMsg
          /\ index' = k
          /\ success' = [success EXCEPT ![0] =
                           IF doneMsg[req[k]] # SUCCESS THEN FAILURE ELSE @]
          /\ doneMsg' = [doneMsg EXCEPT ![req[k]] = NoMsg]
          /\ req' = [req EXCEPT ![k] = ReqNull]
    BY <1>3 DEF Rank0WaitAny
  <2>2. outstanding > 0 /\ (i < NRanks => outstanding = w)
    BY <1>3 DEF Rank0WaitAny, TypeInv, TypeOK
  <2>3. TypeOK'
    BY <1>3, <2>1, <2>2 DEF Rank0WaitAny, TypeInv, TypeOK, Workers, Ranks,
                            Codes
  <2>4. WindowShape'
    BY <1>3, <2>1, <2>2 DEF Rank0WaitAny, TypeInv, TypeOK, WindowShape
  <2>. QED BY <2>3, <2>4 DEF TypeInv
<1>4. CASE Rank0CloseWindow
  BY <1>4 DEF Rank0CloseWindow, TypeInv, TypeOK, WindowShape, Ranks, PCs
<1>5. ASSUME NEW r \in Workers, WorkerRecv(r) PROVE TypeInv'
  BY <1>5 DEF WorkerRecv, TypeInv, TypeOK, WindowShape, Workers, Ranks,
              PCs, Codes
<1>6. ASSUME NEW r \in Workers, WorkerFetchList(r) PROVE TypeInv'
  <2>1. r # 0 /\ r \in Ranks
    BY DEF Workers, Ranks
  <2>2. CASE success[r] = SUCCESS
    <3>1. PICK ok \in BOOLEAN : ReadList(r, ok)
      BY <1>6, <2>2 DEF WorkerFetchList
    <3>. QED
      BY <1>6, <2>1, <3>1 DEF WorkerFetchList, ReadList, TypeInv, TypeOK,
                              WindowShape, PCs, Codes, ListResults
  <2>3. CASE success[r] # SUCCESS
    BY <1>6, <2>1, <2>3 DEF WorkerFetchList, TypeInv, TypeOK, WindowShape,
                            PCs, ListResults
  <2>. QED BY <2>2, <2>3
<1>7. ASSUME NEW r \in Workers, WorkerSend(r) PROVE TypeInv'
  BY <1>7 DEF WorkerSend, TypeInv, TypeOK, WindowShape, Workers, Ranks,
              PCs, Codes
<1>8. CASE AllTrue
  BY <1>8 DEF AllTrue, TypeInv, TypeOK, WindowShape, Ranks, PCs, Codes
<1>9. CASE UNCHANGED vars
  BY <1>9 DEF vars, TypeInv, TypeOK, WindowShape
<1>. QED
  BY <1>1, <1>2, <1>3, <1>4, <1>5, <1>6, <1>7, <1>8, <1>9
  DEF Next, Rank0, Worker

\* Every state of every run is well typed: the window counters stay in
\* 0..w and no post writes outside the request arrays.
THEOREM TypeCorrect == Spec => []TypeOK
<1>1. Spec => []TypeInv
  BY InitTypeInv, NextTypeInv, PTL DEF Spec
<1>. QED BY <1>1, PTL DEF TypeInv

\* Whenever rank 0 posts, it posts into a free slot (PostSlotFree), for
\* every number of ranks and every fetch width.
THEOREM PostSlotFreeCorrect == Spec => []PostSlotFree
<1>1. TypeInv => PostSlotFree
  BY WidthFacts DEF TypeInv, TypeOK, WindowShape, PostSlotFree
<1>. QED BY <1>1, InitTypeInv, NextTypeInv, PTL DEF Spec

(***************************************************************************)
(* No spurious skip.  A FAILURE can only enter the protocol through a      *)
(* rank whose scr_fetch_files_list failed; from there it travels through   *)
(* that rank's success flag, its "done" message, rank 0's success flag and *)
(* every later "go".  SkipInv says that each of these carriers holds a     *)
(* FAILURE only if some rank has read its files with an error, and that a  *)
(* rank has no result before it reads (so an error is never overwritten).  *)
(***************************************************************************)
SomeErr == \E q \in Ranks : filesRead[q] = "err"

SkipInv ==
  /\ \A r \in Ranks : pc[r] \in {"list", "recv"} => filesRead[r] = "none"
  /\ \A r \in Ranks : success[r] = FAILURE => SomeErr
  /\ \A r \in Workers : goMsg[r] = FAILURE => SomeErr
  /\ \A r \in Workers : doneMsg[r] = FAILURE => SomeErr
  /\ \A r \in Workers : filesRead[r] = "skipped" => SomeErr

LEMMA InitSkipInv == Init => SkipInv
BY DEF Init, SkipInv, SomeErr, Ranks, Workers, SUCCESS, FAILURE, NoMsg

\* A step never takes back a read error: results are written only at the
\* "list" control point, where the rank has none yet.
LEMMA ErrStays ==
  ASSUME TypeInv, SkipInv, [Next]_vars, SomeErr
  PROVE  SomeErr'
<1>1. PICK q \in Ranks : filesRead[q] = "err"
  BY DEF SomeErr
<1>2. filesRead'[q] = "err"
  <2>1. CASE Rank0FetchList
    BY <1>1, <2>1 DEF Rank0FetchList, ReadList, SkipInv, TypeInv, TypeOK
  <2>2. ASSUME NEW r \in Workers, WorkerFetchList(r) PROVE filesRead'[q] = "err"
    BY <1>1, <2>2 DEF WorkerFetchList, ReadList, SkipInv, TypeInv, TypeOK,
                      Workers, Ranks
  <2>3. CASE UNCHANGED filesRead
    BY <1>1, <2>3
  <2>. QED
    BY <2>1, <2>2, <2>3
    DEF Next, Rank0, Worker, Rank0Post, Rank0WaitAny, Rank0CloseWindow,
        WorkerRecv, WorkerSend, AllTrue, vars
<1>. QED BY <1>1, <1>2 DEF SomeErr

LEMMA NextSkipInv == TypeInv /\ SkipInv /\ [Next]_vars => SkipInv'
<1> SUFFICES ASSUME TypeInv, SkipInv, [Next]_vars PROVE SkipInv'
  OBVIOUS
<1> USE NRanksAssumption, WidthFacts DEF SUCCESS, FAILURE, NoMsg
<1>1. CASE SomeErr
  <2>1. SomeErr'
    BY <1>1, ErrStays
  <2>2. (\A r \in Ranks : pc[r] \in {"list", "recv"} => filesRead[r] = "none")'
    <3>1. CASE Rank0FetchList
      BY <3>1 DEF Rank0FetchList, ReadList, SkipInv, TypeInv, TypeOK, Ranks
    <3>2. ASSUME NEW r \in Workers, WorkerRecv(r)
          PROVE (\A q \in Ranks : pc[q] \in {"list", "recv"}
                                    => filesRead[q] = "none")'
      BY <3>2 DEF WorkerRecv, SkipInv, TypeInv, TypeOK, Workers, Ranks
    <3>3. ASSUME NEW r \in Workers, WorkerFetchList(r)
          PROVE (\A q \in Ranks : pc[q] \in {"list", "recv"}
                                    => filesRead[q] = "none")'
      BY <3>3 DEF WorkerFetchList, ReadList, SkipInv, TypeInv, TypeOK,
                  Workers, Ranks
    <3>4. ASSUME NEW r \in Workers, WorkerSend(r)
          PROVE (\A q \in Ranks : pc[q] \in {"list", "recv"}
                                    => filesRead[q] = "none")'
      BY <3>4 DEF WorkerSend, SkipInv, TypeInv, TypeOK, Workers, Ranks
    <3>5. CASE AllTrue
      BY <3>5 DEF AllTrue, SkipInv
    <3>6. CASE Rank0Post
      BY <3>6 DEF Rank0Post, SkipInv
    <3>7. CASE Rank0WaitAny
      BY <3>7 DEF Rank0WaitAny, SkipInv
    <3>8. CASE Rank0CloseWindow
      BY <3>8 DEF Rank0CloseWindow, SkipInv
    <3>9. CASE UNCHANGED vars
      BY <3>9 DEF vars, SkipInv
    <3>. QED
      BY <3>1, <3>2, <3>3, <3>4, <3>5, <3>6, <3>7, <3>8, <3>9
      DEF Next, Rank0, Worker
  <2>. QED BY <2>1, <2>2 DEF SkipInv
<1>2. CASE ~ SomeErr
  <2>1. \A r \in Ranks : success[r] = SUCCESS
    BY <1>2 DEF SkipInv, TypeInv, TypeOK, Codes
  <2>2. \A r \in Workers : goMsg[r] # FAILURE /\ doneMsg[r] # FAILURE
                           /\ filesRead[r] # "skipped"
    BY <1>2 DEF SkipInv
  <2>3. CASE Rank0FetchList
    BY <1>2, <2>1, <2>2, <2>3
    DEF Rank0FetchList, ReadList, SkipInv, SomeErr, TypeInv, TypeOK, Ranks
  <2>4. CASE Rank0Post
    BY <1>2, <2>1, <2>2, <2>4 DEF Rank0Post, SkipInv, SomeErr, TypeInv,
                                  TypeOK, Ranks, Workers
  <2>5. CASE Rank0WaitAny
    <3>1. PICK k \in Slots :
            /\ req[k] # ReqNull
            /\ doneMsg[req[k]] # NoMsg
            /\ success' = [success EXCEPT ![0] =
                             IF doneMsg[req[k]] # SUCCESS THEN FAILURE ELSE @]
            /\ doneMsg' = [doneMsg EXCEPT ![req[k]] = NoMsg]
      BY <2>5 DEF Rank0WaitAny
    <3>2. req[k] \in Workers
      BY <3>1 DEF TypeInv, TypeOK
    <3>3. doneMsg[req[k]] = SUCCESS
      BY <3>1, <3>2, <2>2 DEF TypeInv, TypeOK, Codes
    <3>. QED
      BY <1>2, <2>1, <2>2, <2>5, <3>1, <3>2, <3>3
      DEF Rank0WaitAny, SkipInv, SomeErr, TypeInv, TypeOK, Ranks, Workers
  <2>6. CASE Rank0CloseWindow
    BY <1>2, <2>6 DEF Rank0CloseWindow, SkipInv, SomeErr, Ranks
  <2>7. ASSUME NEW r \in Workers, WorkerRecv(r) PROVE SkipInv'
    BY <1>2, <2>1, <2>2, <2>7 DEF WorkerRecv, SkipInv, SomeErr, TypeInv,
                                  TypeOK, Ranks, Workers, Codes
  <2>8. ASSUME NEW r \in Workers, WorkerFetchList(r) PROVE SkipInv'
    <3>1. r \in Ranks /\ success[r] = SUCCESS
      BY <2>1 DEF Workers, Ranks
    <3>2. PICK ok \in BOOLEAN : ReadList(r, ok)
      BY <2>8, <3>1 DEF WorkerFetchList
    <3>. QED
      BY <1>2, <2>1, <2>2, <2>8, <3>1, <3>2
      DEF WorkerFetchList, ReadList, SkipInv, SomeErr, TypeInv, TypeOK,
          Ranks, Workers
  <2>9. ASSUME NEW r \in Workers, WorkerSend(r) PROVE SkipInv'
    BY <1>2, <2>1, <2>2, <2>9 DEF WorkerSend, SkipInv, SomeErr, TypeInv,
                                  TypeOK, Ranks, Workers
  <2>10. CASE AllTrue
    BY <1>2, <2>10 DEF AllTrue, SkipInv, SomeErr
  <2>11. CASE UNCHANGED vars
    BY <1>2, <2>11 DEF vars, SkipInv, SomeErr
  <2>. QED
    BY <2>3, <2>4, <2>5, <2>6, <2>7, <2>8, <2>9, <2>10, <2>11
    DEF Next, Rank0, Worker
<1>. QED BY <1>1, <1>2

\* A worker skips its files only if some rank really failed to read its
\* own, for every number of ranks and every fetch width.
THEOREM NoSpuriousSkipCorrect == Spec => []NoSpuriousSkip
<1>1. SkipInv => NoSpuriousSkip
  BY DEF SkipInv, NoSpuriousSkip, SomeErr
<1>2. Spec => [](TypeInv /\ SkipInv)
  BY InitTypeInv, NextTypeInv, InitSkipInv, NextSkipInv, PTL DEF Spec
<1>. QED BY <1>1, <1>2, PTL


(***************************************************************************)
(* The window bound.  ReaderSlotInv (FetchData) gives every reading worker *)
(* a slot of the request arrays holding its pending receive, so the        *)
(* readers are at most as many as the w slots.                             *)
(***************************************************************************)

\* When rank 0 posts, the slot index is free (the shape of the window).
LEMMA PostSlot ==
  ASSUME TypeInv, Rank0Post
  PROVE  index \in Slots /\ req[index] = ReqNull
BY WidthFacts DEF Rank0Post, TypeInv, TypeOK, WindowShape

LEMMA InitReaderSlotInv == Init => ReaderSlotInv
BY NRanksAssumption DEF Init, ReaderSlotInv, Reading, Ranks, Workers, NoMsg

LEMMA NextReaderSlotInv ==
  TypeInv /\ ReaderSlotInv /\ [Next]_vars => ReaderSlotInv'
<1> SUFFICES ASSUME TypeInv, ReaderSlotInv, [Next]_vars
             PROVE  ReaderSlotInv'
  OBVIOUS
<1> USE NRanksAssumption, WidthFacts DEF ReaderSlotInv, Reading, NoMsg
<1>1. CASE Rank0FetchList
  BY <1>1 DEF Rank0FetchList, ReadList, TypeInv, TypeOK, Workers, Ranks
<1>2. CASE Rank0Post
  <2>1. index \in Slots /\ req[index] = ReqNull
    BY <1>2, PostSlot
  <2>2. i \in Workers /\ pc[i] = "recv"
    BY <1>2 DEF Rank0Post, TypeInv, TypeOK, Workers
  <2>3. \A r \in Workers : \A k \in Slots : req[k] = r => req'[k] = r
    BY <1>2, <2>1 DEF Rank0Post, TypeInv, TypeOK, ReqNull, Workers
  <2>4. req'[index] = i
    BY <1>2, <2>1 DEF Rank0Post, TypeInv, TypeOK
  <2>5. goMsg'[i] \in Codes
    BY <1>2, <2>2 DEF Rank0Post, TypeInv, TypeOK, Ranks, Workers
  <2>. QED
    BY <1>2, <2>1, <2>2, <2>3, <2>4, <2>5
    DEF Rank0Post, TypeInv, TypeOK, Codes, Workers, Ranks
<1>3. CASE Rank0WaitAny
  <2>1. PICK k \in Slots :
          /\ req[k] # ReqNull
          /\ doneMsg[req[k]] # NoMsg
          /\ doneMsg' = [doneMsg EXCEPT ![req[k]] = NoMsg]
          /\ req' = [req EXCEPT ![k] = ReqNull]
    BY <1>3 DEF Rank0WaitAny
  <2>2. req[k] \in Workers /\ pc[req[k]] \in {"alltrue", "done"}
    BY <2>1 DEF TypeInv, TypeOK
  <2>3. \A r \in Workers : \A j \in Slots :
          req[j] = r /\ r # req[k] => req'[j] = r
    BY <2>1 DEF TypeInv, TypeOK
  <2>. QED
    BY <1>3, <2>1, <2>2, <2>3 DEF Rank0WaitAny, TypeInv, TypeOK
<1>4. CASE Rank0CloseWindow
  <2>1. i = NRanks
    BY <1>4 DEF Rank0CloseWindow, TypeInv, TypeOK
  <2>2. \A r \in Workers : pc'[r] = pc[r]
    BY <1>4 DEF Rank0CloseWindow, TypeInv, TypeOK, Workers, Ranks
  <2>. QED
    BY <1>4, <2>1, <2>2 DEF Rank0CloseWindow
<1>5. ASSUME NEW r \in Workers, WorkerRecv(r) PROVE ReaderSlotInv'
  <2>1. r < i /\ \E k \in Slots : req[k] = r
    BY <1>5 DEF WorkerRecv, TypeInv, TypeOK, Workers
  <2>. QED
    BY <1>5, <2>1 DEF WorkerRecv, TypeInv, TypeOK, Workers, Ranks
<1>6. ASSUME NEW r \in Workers, WorkerFetchList(r) PROVE ReaderSlotInv'
  <2>1. r < i /\ \E k \in Slots : req[k] = r
    BY <1>6 DEF WorkerFetchList, TypeInv, TypeOK, Workers
  <2>. QED
    BY <1>6, <2>1 DEF WorkerFetchList, ReadList, TypeInv, TypeOK, Workers,
                      Ranks
<1>7. ASSUME NEW r \in Workers, WorkerSend(r) PROVE ReaderSlotInv'
  <2>1. r < i
    BY <1>7 DEF WorkerSend, TypeInv, TypeOK, Workers
  <2>2. doneMsg'[r] \in Codes
    BY <1>7 DEF WorkerSend, TypeInv, TypeOK, Workers, Ranks
  <2>. QED
    BY <1>7, <2>1, <2>2 DEF WorkerSend, TypeInv, TypeOK, Codes, Workers,
                            Ranks
<1>8. CASE AllTrue
  <2>1. i = NRanks
    BY <1>8 DEF AllTrue, Ranks
  <2>. QED
    BY <1>8, <2>1 DEF AllTrue, TypeInv, TypeOK, Workers, Ranks
<1>9. CASE UNCHANGED vars
  BY <1>9 DEF vars
<1>. QED
  BY <1>1, <1>2, <1>3, <1>4, <1>5, <1>6, <1>7, <1>8, <1>9
  DEF Next, Rank0, Worker

\* The readers are at most as many as the slots holding them.
LEMMA ReadersFitSlots ==
  ASSUME TypeInv, ReaderSlotInv
  PROVE  Cardinality(Reading) <= w
<1> DEFINE Held == Range(req)
<1>1. Reading \subseteq Held
  BY DEF ReaderSlotInv, TypeInv, TypeOK, Range
<1>2. IsFiniteSet(Slots) /\ Cardinality(Slots) = w
  BY WidthFacts, FS_Interval
<1>3. req \in Surjection(Slots, Held)
  BY DEF TypeInv, TypeOK, Surjection, Range
<1>3a. IsFiniteSet(Held) /\ Cardinality(Held) <= w
  BY <1>2, <1>3, FS_Surjection
<1>4. IsFiniteSet(Reading) /\ Cardinality(Reading) <= Cardinality(Held)
  BY <1>1, <1>3a, FS_Subset
<1>5. Cardinality(Reading) \in Nat /\ Cardinality(Held) \in Nat
  BY <1>3a, <1>4, FS_CardinalityType
<1>. QED
  BY <1>3a, <1>4, <1>5, WidthFacts

\* At no time do more than w = min(fetch_width, ranks-1) workers read
\* their files at once, for every number of ranks and every fetch width.
\* Every worker that has been told to go, or is reading, holds one of the
\* request slots, and no rank answers before it has read, for every number
\* of ranks and width.
THEOREM ReaderSlotInvariant == Spec => []ReaderSlotInv
<1>1. Spec => [](TypeInv /\ ReaderSlotInv)
  BY InitTypeInv, NextTypeInv, InitReaderSlotInv, NextReaderSlotInv, PTL
  DEF Spec
<1>. QED BY <1>1, PTL

THEOREM WindowBoundCorrect == Spec => []WindowBound
<1>1. Spec => [](TypeInv /\ ReaderSlotInv)
  BY InitTypeInv, NextTypeInv, InitReaderSlotInv, NextReaderSlotInv, PTL
  DEF Spec
<1>2. TypeInv /\ ReaderSlotInv => WindowBound
  BY ReadersFitSlots DEF WindowBound
<1>. QED BY <1>1, <1>2, PTL


(***************************************************************************)
(* Failure fencing of the "go" flag.  GoInv (FetchData) follows a SUCCESS  *)
(* back to its origin: a worker's flag after reading, its "done", and rank *)
(* 0's flag, which stays SUCCESS only while every reply it has taken out  *)
(* of the window (Heard) came from a rank that read its files.             *)
(***************************************************************************)

\* A post or a completed wait changes the set of workers rank 0 has heard
\* from by at most the worker whose reply it just took.
LEMMA HeardStep ==
  ASSUME TypeInv, NEW k \in Slots, req[k] # ReqNull,
         req' = [req EXCEPT ![k] = ReqNull], i' = i
  PROVE  Heard' \subseteq Heard \cup {req[k]}
BY DEF Heard, TypeInv, TypeOK

\* Steps that move neither i nor a request leave Heard alone.
LEMMA HeardSame ==
  ASSUME UNCHANGED <<i, req>>
  PROVE  Heard' = Heard
BY DEF Heard

\* The three parts of GoInv: workers, their "done" messages, rank 0.
GoWorkers == \A q \in Workers : pc[q] \in {"send", "alltrue", "done"} =>
               (success[q] = SUCCESS => filesRead[q] = "ok")
GoDone == \A q \in Workers : doneMsg[q] # NoMsg => doneMsg[q] = success[q]
GoRank0 == (pc[0] # "list" /\ success[0] = SUCCESS) =>
             /\ filesRead[0] = "ok"
             /\ \A q \in Heard : filesRead[q] = "ok"

\* Rank 0 hears only from workers.
LEMMA HeardInWorkers ==
  ASSUME TypeInv
  PROVE  Heard \subseteq Workers
<1>1. i \in 1 .. NRanks
  BY DEF TypeInv, TypeOK
<1>. QED
  BY <1>1, NRanksAssumption DEF Heard, Workers

LEMMA InitGoInv == Init => GoInv
BY NRanksAssumption DEF Init, GoInv, Workers, Ranks

LEMMA NextGoInv ==
  TypeInv /\ ReaderSlotInv /\ GoInv /\ [Next]_vars => GoInv'
<1> SUFFICES ASSUME TypeInv, ReaderSlotInv, GoInv, [Next]_vars
             PROVE  GoInv'
  OBVIOUS
<1> USE NRanksAssumption, WidthFacts DEF NoMsg, SUCCESS, FAILURE
<1>1. CASE Rank0FetchList
  <2>1. i = 1 /\ Heard = {}
    BY <1>1 DEF Rank0FetchList, TypeInv, WindowShape, Heard
  <2>. QED
    BY <1>1, <2>1 DEF Rank0FetchList, ReadList, GoInv, Heard, TypeInv,
                      TypeOK, Workers, Ranks
<1>2. CASE Rank0Post
  <2>1. index \in Slots /\ req[index] = ReqNull
    BY <1>2, PostSlot
  <2>2. Heard' \subseteq Heard
    BY <1>2, <2>1 DEF Rank0Post, Heard, TypeInv, TypeOK, ReqNull
  <2>. QED
    BY <1>2, <2>2 DEF Rank0Post, GoInv
<1>3. CASE Rank0WaitAny
  <2>1. PICK k \in Slots :
          /\ req[k] # ReqNull
          /\ doneMsg[req[k]] # NoMsg
          /\ success' = [success EXCEPT ![0] =
                           IF doneMsg[req[k]] # SUCCESS THEN FAILURE ELSE @]
          /\ doneMsg' = [doneMsg EXCEPT ![req[k]] = NoMsg]
          /\ req' = [req EXCEPT ![k] = ReqNull]
    BY <1>3 DEF Rank0WaitAny
  <2> DEFINE q == req[k]
  <2>2. q \in Workers /\ pc[q] \in {"alltrue", "done"}
    BY <2>1 DEF TypeInv, TypeOK, ReaderSlotInv
  <2>3. Heard' \subseteq Heard \cup {q}
    BY <1>3, <2>1, HeardStep DEF Rank0WaitAny
  <2>4. success'[0] = SUCCESS =>
          success[0] = SUCCESS /\ filesRead[q] = "ok"
    BY <2>1, <2>2 DEF GoInv, TypeInv, TypeOK, Ranks, Workers
  <2>5. \A r \in Workers : success'[r] = success[r]
    BY <2>1 DEF TypeInv, TypeOK, Ranks, Workers
  <2>. QED
    BY <1>3, <2>1, <2>2, <2>3, <2>4, <2>5
    DEF Rank0WaitAny, GoInv, TypeInv, TypeOK, Workers
<1>4. CASE Rank0CloseWindow
  <2>1. Heard' = Heard
    BY <1>4, HeardSame DEF Rank0CloseWindow
  <2>2. \A q \in Workers : pc'[q] = pc[q]
    BY <1>4 DEF Rank0CloseWindow, TypeInv, TypeOK, Workers, Ranks
  <2>3. pc[0] = "window" /\ UNCHANGED <<success, filesRead, doneMsg>>
    BY <1>4 DEF Rank0CloseWindow
  <2>4. GoWorkers'
    BY <2>2, <2>3 DEF GoWorkers, GoInv
  <2>5. GoDone'
    BY <2>3 DEF GoDone, GoInv
  <2>6. GoRank0'
    BY <2>1, <2>3 DEF GoRank0, GoInv
  <2>. QED
    BY <2>4, <2>5, <2>6 DEF GoInv, GoWorkers, GoDone, GoRank0
<1>5. ASSUME NEW r \in Workers, WorkerRecv(r) PROVE GoInv'
  <2>1. Heard' = Heard
    BY <1>5, HeardSame DEF WorkerRecv
  <2>2. r # 0 /\ pc[r] = "recv" /\ pc'[r] = "list" /\ doneMsg[r] = NoMsg
    BY <1>5 DEF WorkerRecv, TypeInv, TypeOK, Workers, Ranks, ReaderSlotInv
  <2>3. \A q \in Ranks : q # r => pc'[q] = pc[q] /\ success'[q] = success[q]
    BY <1>5 DEF WorkerRecv, TypeInv, TypeOK
  <2>4. UNCHANGED <<filesRead, doneMsg>>
    BY <1>5 DEF WorkerRecv
  <2>5. GoWorkers'
    BY <2>2, <2>3, <2>4 DEF GoWorkers, GoInv, Workers, Ranks
  <2>6. GoDone'
    BY <2>2, <2>3, <2>4 DEF GoDone, GoInv, Workers, Ranks
  <2>7. GoRank0'
    BY <2>1, <2>2, <2>3, <2>4 DEF GoRank0, GoInv, Ranks
  <2>. QED
    BY <2>5, <2>6, <2>7 DEF GoInv, GoWorkers, GoDone, GoRank0
<1>6. ASSUME NEW r \in Workers, WorkerFetchList(r) PROVE GoInv'
  <2>1. Heard' = Heard
    BY <1>6, HeardSame DEF WorkerFetchList
  <2>a. pc[r] = "list"
    BY <1>6 DEF WorkerFetchList
  <2>b. \E k \in Slots : req[k] = r
    BY <2>a DEF ReaderSlotInv, Reading
  <2>c. r \notin Heard
    BY <2>b DEF Heard
  <2>d. doneMsg[r] = NoMsg
    BY <2>a DEF ReaderSlotInv
  <2>2. r \notin Heard /\ r # 0 /\ r \in Ranks /\ doneMsg[r] = NoMsg
    BY <2>c, <2>d DEF Workers, Ranks
  <2>3. \A q \in Ranks : q # r =>
          /\ pc'[q] = pc[q] /\ success'[q] = success[q]
          /\ filesRead'[q] = filesRead[q]
    BY <1>6 DEF WorkerFetchList, ReadList, TypeInv, TypeOK
  <2>4. UNCHANGED doneMsg
    BY <1>6 DEF WorkerFetchList
  <2>5. success'[r] = SUCCESS => filesRead'[r] = "ok"
    BY <1>6, <2>2 DEF WorkerFetchList, ReadList, TypeInv, TypeOK
  <2>6. GoWorkers'
    BY <2>2, <2>3, <2>5 DEF GoWorkers, GoInv, Workers, Ranks
  <2>7. GoDone'
    BY <2>2, <2>3, <2>4 DEF GoDone, GoInv, Workers, Ranks
  <2>8. GoRank0'
    <3>1. Heard \subseteq Ranks \ {r} /\ 0 \in Ranks
      BY <2>2, HeardInWorkers DEF Workers, Ranks
    <3>. QED
      BY <2>1, <2>2, <2>3, <3>1 DEF GoRank0, GoInv
  <2>. QED
    BY <2>6, <2>7, <2>8 DEF GoInv, GoWorkers, GoDone, GoRank0
<1>7. ASSUME NEW r \in Workers, WorkerSend(r) PROVE GoInv'
  <2>1. Heard' = Heard
    BY <1>7, HeardSame DEF WorkerSend
  <2>2. r # 0 /\ r \in Ranks /\ pc[r] = "send"
    BY <1>7 DEF WorkerSend, Workers, Ranks
  <2>3. \A q \in Ranks : q # r => pc'[q] = pc[q]
    BY <1>7 DEF WorkerSend, TypeInv, TypeOK
  <2>4. UNCHANGED <<success, filesRead>> /\ pc'[r] = "alltrue"
        /\ doneMsg' = [doneMsg EXCEPT ![r] = success[r]]
    BY <1>7, <2>2 DEF WorkerSend, TypeInv, TypeOK
  <2>5. GoWorkers'
    BY <2>2, <2>3, <2>4 DEF GoWorkers, GoInv, Workers, Ranks
  <2>6. GoDone'
    BY <2>4 DEF GoDone, GoInv, TypeInv, TypeOK
  <2>7. GoRank0'
    BY <2>1, <2>2, <2>3, <2>4 DEF GoRank0, GoInv, Ranks
  <2>. QED
    BY <2>5, <2>6, <2>7 DEF GoInv, GoWorkers, GoDone, GoRank0
<1>8. CASE AllTrue
  <2>1. Heard' = Heard
    BY <1>8, HeardSame DEF AllTrue
  <2>2. \A q \in Ranks : pc[q] = "alltrue" /\ pc'[q] = "done"
    BY <1>8 DEF AllTrue
  <2>3. UNCHANGED <<success, filesRead, doneMsg>>
    BY <1>8 DEF AllTrue
  <2>4. GoWorkers'
    BY <2>2, <2>3 DEF GoWorkers, GoInv, Workers, Ranks
  <2>5. GoDone'
    BY <2>3 DEF GoDone, GoInv
  <2>6. GoRank0'
    BY <2>1, <2>2, <2>3 DEF GoRank0, GoInv, Ranks
  <2>. QED
    BY <2>4, <2>5, <2>6 DEF GoInv, GoWorkers, GoDone, GoRank0
<1>9. CASE UNCHANGED vars
  <2>1. Heard' = Heard
    BY <1>9, HeardSame DEF vars
  <2>. QED
    BY <1>9, <2>1 DEF vars, GoInv
<1>. QED
  BY <1>1, <1>2, <1>3, <1>4, <1>5, <1>6, <1>7, <1>8, <1>9
  DEF Next, Rank0, Worker

\* Only rank 0's post writes a "go", and it carries rank 0's flag.
LEMMA GoStep ==
  ASSUME TypeInv, GoInv, [Next]_vars
  PROVE  \A r \in Workers :
           (goMsg[r] = NoMsg /\ goMsg'[r] = SUCCESS)
             => /\ filesRead[0] = "ok"
                /\ \A q \in Heard : filesRead[q] = "ok"
<1> SUFFICES ASSUME NEW r \in Workers, goMsg[r] = NoMsg,
                    goMsg'[r] = SUCCESS
             PROVE  filesRead[0] = "ok" /\ \A q \in Heard : filesRead[q] = "ok"
  OBVIOUS
<1>1. CASE Rank0Post
  <2>1. r = i /\ success[0] = SUCCESS /\ pc[0] = "window"
    BY <1>1 DEF Rank0Post, TypeInv, TypeOK, NoMsg, SUCCESS
  <2>. QED
    BY <2>1 DEF GoInv
<1>2. ASSUME NEW p \in Workers, WorkerRecv(p) PROVE FALSE
  BY <1>2 DEF WorkerRecv, TypeInv, TypeOK, NoMsg, SUCCESS
<1>3. CASE UNCHANGED goMsg
  BY <1>3 DEF NoMsg, SUCCESS
<1>. QED
  BY <1>1, <1>2, <1>3
  DEF Next, Rank0, Worker, Rank0FetchList, Rank0WaitAny, Rank0CloseWindow,
      WorkerFetchList, WorkerSend, AllTrue, vars

\* A "go" says SUCCESS only if rank 0 read its own files and every reply it
\* has taken so far came from a rank that read its files, for every number
\* of ranks and every fetch width.
\* A worker's SUCCESS after reading, the SUCCESS its done message carries
\* and rank 0's SUCCESS all come from files read ok, for every number of
\* ranks and width.
THEOREM GoInvariant == Spec => []GoInv
<1>1. Spec => [](TypeInv /\ ReaderSlotInv /\ GoInv)
  BY InitTypeInv, NextTypeInv, InitReaderSlotInv, NextReaderSlotInv,
     InitGoInv, NextGoInv, PTL DEF Spec
<1>. QED BY <1>1, PTL

THEOREM GoCarriesKnownFailureCorrect == Spec => GoCarriesKnownFailure
<1>1. Spec => [](TypeInv /\ ReaderSlotInv /\ GoInv)
  BY InitTypeInv, NextTypeInv, InitReaderSlotInv, NextReaderSlotInv,
     InitGoInv, NextGoInv, PTL DEF Spec
<1>2. (TypeInv /\ ReaderSlotInv /\ GoInv) /\ [Next]_vars
        => [\A r \in Workers :
              (goMsg[r] = NoMsg /\ goMsg'[r] = SUCCESS)
                => /\ filesRead[0] = "ok"
                   /\ \A q \in Heard : filesRead[q] = "ok"]_vars
  BY GoStep
<1>. QED
  BY <1>1, <1>2, PTL DEF Spec, GoCarriesKnownFailure

=============================================================================
