------------------------------ MODULE FileFetch ------------------------------
(***************************************************************************)
(* What fetching one file promises its caller, scr_fetch_files_list: the   *)
(* call returns, and a success, when the CRC was verified, leaves the      *)
(* destination identical to the file the summary describes.  A failure may *)
(* leave it in any state.  ContainerRead implements this for               *)
(* scr_fetch_file_from_containers.                                         *)
(***************************************************************************)
VARIABLES
  verified, \* scr_crc_on_flush is set and the meta has a crc32
  busy,     \* the call has not returned
  result,   \* its return code once it has
  intact    \* the destination holds the expected bytes once it has

vars == <<verified, busy, result, intact>>

Init ==
  /\ verified \in BOOLEAN
  /\ busy = TRUE /\ result = "none" /\ intact = FALSE

\* The call returns, with success only for a verified-intact file when
\* verification is on.
Return ==
  /\ busy
  /\ busy' = FALSE
  /\ intact' \in BOOLEAN
  /\ \/ result' = "FAILURE"
     \/ result' = "SUCCESS" /\ (verified => intact')
  /\ UNCHANGED verified

Spec == Init /\ [][Return]_vars /\ WF_vars(Return)

====
