---------------------------- MODULE MC_FilesList ----------------------------
(* Two files: enough for a file after a failed one, and for a break with a *)
(* file left unvisited; every summary record, container and plain mode,    *)
(* CRCs on and off are explored from Init.                                 *)
EXTENDS FilesList

MCFiles == {1, 2}

====
