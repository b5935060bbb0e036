------------------------- MODULE CandidateLoop_proofs -------------------------
(***************************************************************************)
(* Proofs about the candidate loop of scr_fetch_sync: the model is well    *)
(* typed, and when scr_file_unlink removes the link the "current" link     *)
(* never names a checkpoint the index marks failed, in any run and         *)
(* whatever step earlier runs died at; and for any link at start, a       *)
(* success leaves "current" on what was fetched unless the link is stale.  *)
(***************************************************************************)
EXTENDS CandidateLoop, TLAPS

\* scr_index_get_most_recent_complete returns no checkpoint, or a complete
\* one that is not marked failed.
LEMMA NewestNotFailed ==
  ASSUME NEW e
  PROVE  \/ MostRecentComplete(e) = <<NoId, None>>
         \/ \E c \in CompleteIds \ failed : MostRecentComplete(e) = <<c, c>>
<1> DEFINE cands == {c \in CompleteIds \ failed : e = NoId \/ c < e}
<1>1. CASE cands = {}
  BY <1>1 DEF MostRecentComplete
<1>2. CASE cands # {}
  <2>1. cands \in SUBSET Ids
    BY IdsAssumption
  <2>2. \E x \in cands : \A y \in cands : y <= x
    BY <1>2, <2>1, IdsHaveNewest
  <2>3. (CHOOSE x \in cands : \A y \in cands : y <= x) \in cands
    BY <2>2
  <2>4. MostRecentComplete(e)
          = <<CHOOSE x \in cands : \A y \in cands : y <= x,
              CHOOSE x \in cands : \A y \in cands : y <= x>>
    BY <1>2 DEF MostRecentComplete
  <2> QED
    BY <2>3, <2>4
<1> QED
  BY <1>1, <1>2

\* The candidate Select picks: an id of the index (or -1) and a directory
\* (or none), not marked failed when the link it follows is not.
LEMMA SelectPick ==
  ASSUME TypeOK, NEW link, link \in {current, None}
  PROVE  LET pick == IF ~ readIndex THEN <<ckptId, link>>
                     ELSE IF link # None THEN <<IdByDir(link), link>>
                     ELSE MostRecentComplete(ckptId)
         IN  /\ pick[1] \in Ids \cup {NoId}
             /\ pick[2] \in Dirs \cup {None}
             /\ current \notin failed => pick[2] \notin failed
<1> DEFINE pick == IF ~ readIndex THEN <<ckptId, link>>
                   ELSE IF link # None THEN <<IdByDir(link), link>>
                   ELSE MostRecentComplete(ckptId)
<1>1. None \notin failed
  BY DirsAssumption DEF TypeOK, Dirs
<1>2. link \in Dirs \cup {None} /\ (current \notin failed => link \notin failed)
  BY <1>1 DEF TypeOK
<1>3. CASE ~ readIndex
  BY <1>2, <1>3 DEF TypeOK
<1>4. CASE readIndex /\ link # None
  BY <1>2, <1>4 DEF IdByDir
<1>5. CASE readIndex /\ link = None
  <2>1. pick = MostRecentComplete(ckptId)
    BY <1>5
  <2> QED
    BY <2>1, <1>1, NewestNotFailed, IdsAssumption DEF Dirs
<1> QED
  BY <1>3, <1>4, <1>5

\* The link Select follows.
LinkRead == IF current # None /\ current \in Readable THEN current ELSE None

\* What Select does, spelled with the pick it makes.
LEMMA SelectStep ==
  ASSUME Select
  PROVE  LET pick == IF ~ readIndex THEN <<ckptId, LinkRead>>
                     ELSE IF LinkRead # None THEN <<IdByDir(LinkRead), LinkRead>>
                     ELSE MostRecentComplete(ckptId)
         IN  /\ ckptId' = pick[1] /\ target' = pick[2] /\ fetchDir' = pick[2]
             /\ fetchAttempted' = (fetchAttempted \/ pick[2] # None)
             /\ fetchedMarks' =
                  IF pick[2] # None /\ readIndex /\ pick[1] # NoId
                  THEN fetchedMarks \cup {pick[1]} ELSE fetchedMarks
             /\ pc' = "attempt"
             /\ UNCHANGED <<failed, current, cache, flushLoc, readIndex, rc,
                            datasetId, runs>>
BY DEF Select, LinkRead

LEMMA InitTypeOK == Init => TypeOK
<1> SUFFICES ASSUME Init PROVE TypeOK
  OBVIOUS
<1>1. current \in Dirs \cup {None}
  BY DirsAssumption DEF Init
<1>2. runs \in 1 .. MaxRuns
  BY RunsAssumption DEF Init
<1>3. ckptId \in Ids \cup {NoId} /\ rc \in {SUCCESS, FAILURE}
  BY DEF Init, RunInit
<1> QED
  BY <1>1, <1>2, <1>3 DEF Init, RunInit, TypeOK

\* Every step keeps the model well typed, whether or not unlink can fail.
LEMMA NextTypeOK == TypeOK /\ [Next]_vars => TypeOK'
<1> SUFFICES ASSUME TypeOK, [Next]_vars PROVE TypeOK'
  OBVIOUS
<1>1. CASE Select
  <2> DEFINE pick == IF ~ readIndex THEN <<ckptId, LinkRead>>
                     ELSE IF LinkRead # None THEN <<IdByDir(LinkRead), LinkRead>>
                     ELSE MostRecentComplete(ckptId)
  <2>1. pick[1] \in Ids \cup {NoId} /\ pick[2] \in Dirs \cup {None}
    BY SelectPick DEF LinkRead
  <2> QED
    BY <1>1, <2>1, SelectStep DEF TypeOK
<1>2. CASE Attempt
  BY <1>2 DEF Attempt, TypeOK
<1>3. CASE Success
  BY <1>3 DEF Success, TypeOK
<1>4. CASE FailUnlink
  BY <1>4 DEF FailUnlink, TypeOK
<1>5. CASE FailMark
  BY <1>5 DEF FailMark, TypeOK
<1>6. CASE Restart
  <2>1. runs' \in 1 .. MaxRuns
    BY <1>6, RunsAssumption DEF Restart, TypeOK
  <2>2. ckptId' \in Ids \cup {NoId} /\ rc' \in {SUCCESS, FAILURE}
    BY <1>6 DEF Restart
  <2> QED
    BY <1>6, <2>1, <2>2 DEF Restart, TypeOK
<1>7. CASE UNCHANGED vars
  BY <1>7 DEF vars, TypeOK
<1> QED
  BY <1>1, <1>2, <1>3, <1>4, <1>5, <1>6, <1>7 DEF Next, FetchSync

\* The model of scr_fetch_sync is well typed, whether or not unlink fails.
THEOREM TypeCorrect == Spec => []TypeOK
BY InitTypeOK, NextTypeOK, PTL DEF Spec

LEMMA InitCandidateInv == Init => CandidateInv
BY InitTypeOK, DirsAssumption DEF Init, RunInit, CandidateInv, Dirs

\* Every step keeps the invariant when scr_file_unlink removes the link.
LEMMA NextCandidateInv ==
  ASSUME ~ UnlinkCanFail
  PROVE  CandidateInv /\ [Next]_vars => CandidateInv'
<1> SUFFICES ASSUME CandidateInv, [Next]_vars PROVE CandidateInv'
  OBVIOUS
<1>0. TypeOK'
  BY NextTypeOK DEF CandidateInv
<1>1. CASE Select
  <2> DEFINE pick == IF ~ readIndex THEN <<ckptId, LinkRead>>
                     ELSE IF LinkRead # None THEN <<IdByDir(LinkRead), LinkRead>>
                     ELSE MostRecentComplete(ckptId)
  <2>1. pick[2] \notin failed
    BY SelectPick DEF LinkRead, CandidateInv
  <2> QED
    BY <1>0, <1>1, <2>1, SelectStep DEF CandidateInv
<1>2. CASE Attempt
  BY <1>0, <1>2 DEF Attempt, CandidateInv
<1>3. CASE Success
  BY <1>0, <1>3 DEF Success, CandidateInv
<1>4. CASE FailUnlink
  BY <1>0, <1>4, DirsAssumption DEF FailUnlink, CandidateInv, TypeOK, Dirs
<1>5. CASE FailMark
  BY <1>0, <1>5, DirsAssumption DEF FailMark, CandidateInv, TypeOK, Dirs
<1>6. CASE Restart
  BY <1>0, <1>6 DEF Restart, CandidateInv
<1>7. CASE UNCHANGED vars
  BY <1>0, <1>7 DEF vars, CandidateInv
<1> QED
  BY <1>1, <1>2, <1>3, <1>4, <1>5, <1>6, <1>7 DEF Next, FetchSync

\* The "current" link never names a checkpoint the index marks failed,
\* when scr_file_unlink removes the link on a failed attempt: a new run
\* never follows the link back to a known bad checkpoint.
THEOREM CurrentNotFailedCorrect ==
  ASSUME ~ UnlinkCanFail
  PROVE  Spec => []CurrentNotFailed
<1>1. Init => CandidateInv
  BY InitCandidateInv
<1>2. CandidateInv /\ [Next]_vars => CandidateInv'
  BY NextCandidateInv
<1>3. CandidateInv => CurrentNotFailed
  BY DEF CandidateInv, CurrentNotFailed
<1> QED
  BY <1>1, <1>2, <1>3, PTL DEF Spec


(***************************************************************************)
(* Success leaves the dataset complete in cache and named by               *)
(* scr_dataset_id, and "current" on what was fetched unless the link is     *)
(* one scr_file_is_readable rejects; for any link at start, and whether or *)
(* not unlink can fail.                                                    *)
(***************************************************************************)

\* No directory is None, so a readable link is present.
LEMMA ReadableNotNone == None \notin Readable
BY DirsAssumption DEF Dirs

LEMMA InitLinkFollowInv == Init => LinkFollowInv
BY InitTypeOK DEF Init, RunInit, LinkFollowInv

\* Every step keeps LinkFollowInv.
LEMMA NextLinkFollowInv == LinkFollowInv /\ [Next]_vars => LinkFollowInv'
<1> SUFFICES ASSUME LinkFollowInv, [Next]_vars PROVE LinkFollowInv'
  OBVIOUS
<1>0. TypeOK'
  BY NextTypeOK DEF LinkFollowInv
<1>1. CASE Select
  <2> DEFINE pick == IF ~ readIndex THEN <<ckptId, LinkRead>>
                     ELSE IF LinkRead # None THEN <<IdByDir(LinkRead), LinkRead>>
                     ELSE MostRecentComplete(ckptId)
  <2>1. current \in Readable => LinkRead = current /\ pick[2] = current
    BY ReadableNotNone DEF LinkRead
  <2>2. target' = pick[2] /\ fetchDir' = pick[2] /\ pc' = "attempt"
        /\ UNCHANGED current
    BY <1>1, SelectStep
  <2> QED
    BY <1>0, <2>1, <2>2 DEF LinkFollowInv
<1>2. CASE Attempt
  <2>1. pc' = "success" =>
          rc' = SUCCESS /\ cache' = cache \cup {fetchDir} /\ fetchDir \in Readable
    BY <1>2 DEF Attempt, SUCCESS, FAILURE
  <2>2. pc' \in {"success", "unlink"} /\ (pc' = "unlink" => rc' = FAILURE)
    BY <1>2 DEF Attempt, SUCCESS, FAILURE
  <2> QED
    BY <1>0, <1>2, <2>1, <2>2 DEF Attempt, LinkFollowInv
<1>3. CASE Success
  <2>1. datasetId' = target /\ pc' = "done"
        /\ UNCHANGED <<cache, target, rc>>
    BY <1>3 DEF Success, LinkFollowInv
  <2>2. current' = target \/ current' \notin Readable \cup {None}
    <3>1. CASE current = None
      BY <1>3, <3>1 DEF Success
    <3>2. CASE current # None /\ current \in Readable
      BY <1>3, <3>2 DEF Success, LinkFollowInv
    <3>3. CASE current # None /\ current \notin Readable
      BY <1>3, <3>3 DEF Success
    <3> QED
      BY <3>1, <3>2, <3>3
  <2> QED
    BY <1>0, <1>3, <2>1, <2>2 DEF Success, LinkFollowInv
<1>4. CASE FailUnlink
  <2>1. pc' \in {"mark", "done"} /\ UNCHANGED <<rc, target, fetchDir>>
    BY <1>4 DEF FailUnlink
  <2> QED
    BY <1>0, <1>4, <2>1 DEF FailUnlink, LinkFollowInv, SUCCESS, FAILURE
<1>5. CASE FailMark
  BY <1>0, <1>5 DEF FailMark, LinkFollowInv
<1>6. CASE Restart
  BY <1>0, <1>6 DEF Restart, LinkFollowInv
<1>7. CASE UNCHANGED vars
  BY <1>0, <1>7 DEF vars, LinkFollowInv
<1> QED
  BY <1>1, <1>2, <1>3, <1>4, <1>5, <1>6, <1>7 DEF Next, FetchSync

\* LinkFollowInv holds in every state, whatever the link names when a job
\* starts and whether or not scr_file_unlink can fail.
THEOREM LinkFollowInvariant == Spec => []LinkFollowInv
BY InitLinkFollowInv, NextLinkFollowInv, PTL DEF Spec

\* When scr_fetch_sync returns success, the dataset is complete in cache,
\* scr_dataset_id names it, and "current" names it unless "current" is a
\* link scr_file_is_readable rejects: the stale link of the run
\* candidate_stale_link is the only way the pointer goes wrong.
THEOREM SuccessCurrentUnlessStaleCorrect == Spec => []SuccessCurrentUnlessStale
<1>1. LinkFollowInv => SuccessCurrentUnlessStale
  BY DEF LinkFollowInv, SuccessCurrentUnlessStale
<1> QED
  BY <1>1, LinkFollowInvariant, PTL

\* The inductive invariant of CurrentNotFailedCorrect holds in every state
\* when scr_file_unlink removes the link.
THEOREM CandidateInvariant ==
  ASSUME ~ UnlinkCanFail
  PROVE  Spec => []CandidateInv
BY InitCandidateInv, NextCandidateInv, PTL DEF Spec

=============================================================================
