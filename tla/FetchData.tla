----------------------------- MODULE FetchData -----------------------------
(***************************************************************************)
(* Flow control of file reads during a fetch: scr_fetch_data in            *)
(* src/src/scr_fetch.c.  Rank 0 first reads its own file list, then runs a *)
(* sliding window of at most w outstanding "go" sends / "done" receives to *)
(* ranks 1..NRanks-1, folding every reply into its success flag and        *)
(* sending the current flag with each "go".  A worker blocks on the "go",  *)
(* reads its files only if the flag says SUCCESS, and replies with its own *)
(* flag.  All ranks then meet in the all-reduce scr_alltrue.               *)
(*                                                                         *)
(* Reading one rank's file list (scr_fetch_files_list) is one atomic step  *)
(* with a nondeterministic outcome; module FilesList refines it.           *)
(***************************************************************************)
EXTENDS Naturals, FiniteSets

CONSTANTS
  NRanks,       \* scr_ranks_world
  FetchWidth    \* scr_fetch_width

ASSUME NRanksAssumption == NRanks \in Nat \ {0}
\* A width of 0 with several ranks makes MPI_Waitany return MPI_UNDEFINED
\* and the loop index run out of the request arrays; the code relies on the
\* configuration never giving it.
ASSUME FetchWidthAssumption == FetchWidth \in Nat \ {0}

Ranks   == 0 .. NRanks - 1
Workers == 1 .. NRanks - 1

\* int w = scr_fetch_width; if (w > scr_ranks_world-1) w = scr_ranks_world-1;
w == IF FetchWidth > NRanks - 1 THEN NRanks - 1 ELSE FetchWidth

\* Slot k of the window: flags[k]/req[k] (the send), flags[k+w]/req[k+w]
\* (the receive).
Slots == 0 .. w - 1

SUCCESS == "SUCCESS"
FAILURE == "FAILURE"
Codes   == {SUCCESS, FAILURE}

NoMsg   == "none"      \* no message in flight on a channel
ReqNull == 0           \* MPI_REQUEST_NULL: a slot with no pending receive

\* What scr_fetch_files_list did on a rank: not called yet, returned
\* success, returned failure, or was skipped because the "go" said FAILURE.
ListResults == {"none", "ok", "err", "skipped"}

VARIABLES
  pc,          \* control point of each rank
  success,     \* each rank's local success variable
  filesRead,   \* outcome of scr_fetch_files_list on each rank
  i,           \* rank 0: next rank to receive a "go"
  outstanding, \* rank 0: receives posted and not yet completed
  index,       \* rank 0: slot used by the next post, set by MPI_Waitany
  req,         \* rank 0: rank whose "done" the receive in slot k awaits
  goMsg,       \* "go" flag in flight from rank 0 to each worker
  doneMsg,     \* "done" flag in flight from each worker to rank 0
  result       \* outcome of the final scr_alltrue, once computed

vars == <<pc, success, filesRead, i, outstanding, index, req, goMsg,
          doneMsg, result>>

PCs == {"list", "window", "recv", "send", "alltrue", "done"}

TypeOK ==
  /\ pc \in [Ranks -> PCs]
  /\ success \in [Ranks -> Codes]
  /\ filesRead \in [Ranks -> ListResults]
  /\ i \in 1 .. NRanks
  /\ outstanding \in 0 .. w
  /\ index \in 0 .. w
  /\ req \in [Slots -> Workers \cup {ReqNull}]
  /\ goMsg \in [Workers -> Codes \cup {NoMsg}]
  /\ doneMsg \in [Workers -> Codes \cup {NoMsg}]
  /\ result \in Codes \cup {NoMsg}

Init ==
  /\ pc = [r \in Ranks |-> IF r = 0 THEN "list" ELSE "recv"]
  /\ success = [r \in Ranks |-> SUCCESS]
  /\ filesRead = [r \in Ranks |-> "none"]
  /\ i = 1
  /\ outstanding = 0
  /\ index = 0
  /\ req = [k \in Slots |-> ReqNull]
  /\ goMsg = [r \in Workers |-> NoMsg]
  /\ doneMsg = [r \in Workers |-> NoMsg]
  /\ result = NoMsg

\* scr_fetch_files_list on rank r, with either outcome; a failure turns the
\* rank's success flag to FAILURE.
ReadList(r, ok) ==
  /\ filesRead' = [filesRead EXCEPT ![r] = IF ok THEN "ok" ELSE "err"]
  /\ success' = [success EXCEPT ![r] = IF ok THEN @ ELSE FAILURE]

-----------------------------------------------------------------------------
(* Rank 0 *)

\* Rank 0 reads its own files before opening the window.
Rank0FetchList ==
  /\ pc[0] = "list"
  /\ \E ok \in BOOLEAN : ReadList(0, ok)
  /\ pc' = [pc EXCEPT ![0] = "window"]
  /\ UNCHANGED <<i, outstanding, index, req, goMsg, doneMsg, result>>

\* Mutants of the window loop, each a plausible slip in the C code; every
\* property of MC_FetchData is checked to fail under one of them.

\* Off by one in the inner loop: "outstanding <= w".
MutPostOverfill ==
  /\ pc[0] = "window"
  /\ i < NRanks
  /\ outstanding <= w
  /\ req' = [req EXCEPT ![index] = i]
  /\ goMsg' = [goMsg EXCEPT ![i] = success[0]]
  /\ outstanding' = outstanding + 1
  /\ index' = index + 1
  /\ i' = i + 1
  /\ UNCHANGED <<pc, success, filesRead, doneMsg, result>>

\* MPI_Waitany writes its slot to a variable other than index.
MutWaitAnyKeepIndex ==
  /\ pc[0] = "window"
  /\ ~ (i < NRanks /\ outstanding < w)
  /\ i < NRanks \/ outstanding > 0
  /\ \E k \in Slots :
       /\ req[k] # ReqNull
       /\ doneMsg[req[k]] # NoMsg
       /\ success' = [success EXCEPT ![0] =
                        IF doneMsg[req[k]] # SUCCESS THEN FAILURE ELSE @]
       /\ doneMsg' = [doneMsg EXCEPT ![req[k]] = NoMsg]
       /\ req' = [req EXCEPT ![k] = ReqNull]
  /\ outstanding' = outstanding - 1
  /\ UNCHANGED <<pc, filesRead, i, index, goMsg, result>>

\* The reply test written "flags[index + w] == SCR_SUCCESS".
MutWaitAnyInvertedTest ==
  /\ pc[0] = "window"
  /\ ~ (i < NRanks /\ outstanding < w)
  /\ i < NRanks \/ outstanding > 0
  /\ \E k \in Slots :
       /\ req[k] # ReqNull
       /\ doneMsg[req[k]] # NoMsg
       /\ index' = k
       /\ success' = [success EXCEPT ![0] =
                        IF doneMsg[req[k]] = SUCCESS THEN FAILURE ELSE @]
       /\ doneMsg' = [doneMsg EXCEPT ![req[k]] = NoMsg]
       /\ req' = [req EXCEPT ![k] = ReqNull]
  /\ outstanding' = outstanding - 1
  /\ UNCHANGED <<pc, filesRead, i, goMsg, result>>

\* The reply is received but never folded into success.
MutWaitAnyNoFold ==
  /\ pc[0] = "window"
  /\ ~ (i < NRanks /\ outstanding < w)
  /\ i < NRanks \/ outstanding > 0
  /\ \E k \in Slots :
       /\ req[k] # ReqNull
       /\ doneMsg[req[k]] # NoMsg
       /\ index' = k
       /\ doneMsg' = [doneMsg EXCEPT ![req[k]] = NoMsg]
       /\ req' = [req EXCEPT ![k] = ReqNull]
  /\ outstanding' = outstanding - 1
  /\ UNCHANGED <<pc, success, filesRead, i, goMsg, result>>

\* The "outstanding--" after a completed receive is lost.
MutWaitAnyNoDecrement ==
  /\ pc[0] = "window"
  /\ ~ (i < NRanks /\ outstanding < w)
  /\ i < NRanks \/ outstanding > 0
  /\ \E k \in Slots :
       /\ req[k] # ReqNull
       /\ doneMsg[req[k]] # NoMsg
       /\ index' = k
       /\ success' = [success EXCEPT ![0] =
                        IF doneMsg[req[k]] # SUCCESS THEN FAILURE ELSE @]
       /\ doneMsg' = [doneMsg EXCEPT ![req[k]] = NoMsg]
       /\ req' = [req EXCEPT ![k] = ReqNull]
  /\ UNCHANGED <<pc, filesRead, i, outstanding, goMsg, result>>

\* Inner loop: post the receive for rank i's reply in slot index and send
\* rank i a "go" carrying the current success flag.
Rank0Post ==
  /\ pc[0] = "window"
  /\ i < NRanks
  /\ outstanding < w
  /\ req' = [req EXCEPT ![index] = i]
  /\ goMsg' = [goMsg EXCEPT ![i] = success[0]]
  /\ outstanding' = outstanding + 1
  /\ index' = index + 1
  /\ i' = i + 1
  /\ UNCHANGED <<pc, success, filesRead, doneMsg, result>>

\* Once the inner loop stops, MPI_Waitany completes the receive of some slot
\* whose reply has arrived; index is set to that slot, the reply is folded
\* into success, and one request fewer is outstanding.
Rank0WaitAny ==
  /\ pc[0] = "window"
  /\ ~ (i < NRanks /\ outstanding < w)
  /\ i < NRanks \/ outstanding > 0
  /\ \E k \in Slots :
       /\ req[k] # ReqNull
       /\ doneMsg[req[k]] # NoMsg
       /\ index' = k
       /\ success' = [success EXCEPT ![0] =
                        IF doneMsg[req[k]] # SUCCESS THEN FAILURE ELSE @]
       /\ doneMsg' = [doneMsg EXCEPT ![req[k]] = NoMsg]
       /\ req' = [req EXCEPT ![k] = ReqNull]
  /\ outstanding' = outstanding - 1
  /\ UNCHANGED <<pc, filesRead, i, goMsg, result>>

\* The outer loop ends when every worker has been sent a "go" and every
\* reply has been received.
Rank0CloseWindow ==
  /\ pc[0] = "window"
  /\ ~ (i < NRanks \/ outstanding > 0)
  /\ pc' = [pc EXCEPT ![0] = "alltrue"]
  /\ UNCHANGED <<success, filesRead, i, outstanding, index, req, goMsg,
                 doneMsg, result>>

-----------------------------------------------------------------------------
(* Ranks 1 .. NRanks-1 *)

\* Blocking MPI_Recv of the "go" flag into success.
WorkerRecv(r) ==
  /\ pc[r] = "recv"
  /\ goMsg[r] # NoMsg
  /\ success' = [success EXCEPT ![r] = goMsg[r]]
  /\ goMsg' = [goMsg EXCEPT ![r] = NoMsg]
  /\ pc' = [pc EXCEPT ![r] = "list"]
  /\ UNCHANGED <<filesRead, i, outstanding, index, req, doneMsg, result>>

\* Read the files only if rank 0 has seen no failure so far.
WorkerFetchList(r) ==
  /\ pc[r] = "list"
  /\ \/ /\ success[r] = SUCCESS
        /\ \E ok \in BOOLEAN : ReadList(r, ok)
     \/ /\ success[r] # SUCCESS
        /\ filesRead' = [filesRead EXCEPT ![r] = "skipped"]
        /\ UNCHANGED success
  /\ pc' = [pc EXCEPT ![r] = "send"]
  /\ UNCHANGED <<i, outstanding, index, req, goMsg, doneMsg, result>>

\* MPI_Send of the local success flag back to rank 0.
WorkerSend(r) ==
  /\ pc[r] = "send"
  /\ doneMsg' = [doneMsg EXCEPT ![r] = success[r]]
  /\ pc' = [pc EXCEPT ![r] = "alltrue"]
  /\ UNCHANGED <<success, filesRead, i, outstanding, index, req, goMsg,
                 result>>

-----------------------------------------------------------------------------
\* scr_alltrue(success == SCR_SUCCESS): a collective every rank must enter.
AllTrue ==
  /\ \A r \in Ranks : pc[r] = "alltrue"
  /\ result' = IF \A r \in Ranks : success[r] = SUCCESS
               THEN SUCCESS ELSE FAILURE
  /\ pc' = [r \in Ranks |-> "done"]
  /\ UNCHANGED <<success, filesRead, i, outstanding, index, req, goMsg,
                 doneMsg>>

Rank0 == Rank0FetchList \/ Rank0Post \/ Rank0WaitAny \/ Rank0CloseWindow

Worker(r) == WorkerRecv(r) \/ WorkerFetchList(r) \/ WorkerSend(r)

Next ==
  \/ Rank0
  \/ \E r \in Workers : Worker(r)
  \/ AllTrue

\* Every rank is a single-threaded process that keeps running while it can,
\* and MPI delivers every message that was sent.
Fairness ==
  /\ WF_vars(Rank0)
  /\ \A r \in Workers : WF_vars(Worker(r))
  /\ WF_vars(AllTrue)

Spec == Init /\ [][Next]_vars /\ Fairness

-----------------------------------------------------------------------------
(***************************************************************************)
(* Properties                                                              *)
(***************************************************************************)

\* Workers that have taken a "go" and not yet sent their "done".
Reading == {r \in Workers : pc[r] \in {"list", "send"}}

\* Workers whose "done" rank 0 has already taken out of the window.
Heard == {q \in 1 .. i - 1 : \A k \in Slots : req[k] # q}

\* At no time are more than w = min(fetch_width, ranks-1) workers between
\* receiving their "go" and sending their "done" (spec 8.4): the window
\* bounds the readers of the parallel file system.
WindowBound == Cardinality(Reading) <= w

\* Whenever rank 0 is about to post, index names a slot of the request
\* arrays whose receive has completed: MPI_Waitany's index is reused for the
\* next post, and a wrong index would overwrite a pending request or write
\* past flags[2w-1].
PostSlotFree ==
  (pc[0] = "window" /\ i < NRanks /\ outstanding < w)
    => index \in Slots /\ req[index] = ReqNull

\* A worker skips its files only when some rank really failed to read its
\* own: a FAILURE in a "go" is never spurious.
NoSpuriousSkip ==
  \A r \in Workers :
    filesRead[r] = "skipped" => \E q \in Ranks : filesRead[q] = "err"

\* A "go" says SUCCESS only if rank 0 read its own files and every reply it
\* has taken so far came from a rank that read its files: a failure rank 0
\* has heard of reaches every later "go" (spec 4.5, scenario S4).
GoCarriesKnownFailure ==
  [][\A r \in Workers :
       (goMsg[r] = NoMsg /\ goMsg'[r] = SUCCESS)
         => /\ filesRead[0] = "ok"
            /\ \A q \in Heard : filesRead[q] = "ok"]_vars

\* Why the window bounds the readers: every worker that is reading, or has
\* a "go" waiting for it, has its receive posted in a slot of rank 0's
\* request arrays, and a slot is freed only for a worker whose "done" has
\* arrived.  Workers not yet reached have seen nothing, and once rank 0
\* has closed the window every worker has been reached.
ReaderSlotInv ==
  /\ \A r \in Workers : r >= i =>
        pc[r] = "recv" /\ goMsg[r] = NoMsg /\ doneMsg[r] = NoMsg
  /\ \A r \in Workers : goMsg[r] # NoMsg =>
        pc[r] = "recv" /\ \E k \in Slots : req[k] = r
  /\ \A r \in Reading : \E k \in Slots : req[k] = r
  /\ \A r \in Workers : doneMsg[r] # NoMsg => pc[r] \in {"alltrue", "done"}
  /\ pc[0] \in {"alltrue", "done"} => i = NRanks

\* Why a "go" says SUCCESS only when it should: a worker that has read
\* ends with SUCCESS exactly when it read its files, its "done" carries that
\* flag, and rank 0's flag stays SUCCESS only while its own read and every
\* reply it has taken out of the window were good.
GoInv ==
  /\ \A q \in Workers : pc[q] \in {"send", "alltrue", "done"} =>
        (success[q] = SUCCESS => filesRead[q] = "ok")
  /\ \A q \in Workers : doneMsg[q] # NoMsg => doneMsg[q] = success[q]
  /\ (pc[0] # "list" /\ success[0] = SUCCESS) =>
        /\ filesRead[0] = "ok"
        /\ \A q \in Heard : filesRead[q] = "ok"

\* Every run of the window ends with all ranks through scr_alltrue, and
\* the agreed outcome is SUCCESS exactly when every rank read all its files
\* (no deadlock; failure fencing, spec 8.6).
AllRanksAgree ==
  <>(result = IF \A r \in Ranks : filesRead[r] = "ok"
              THEN SUCCESS ELSE FAILURE)

=============================================================================
