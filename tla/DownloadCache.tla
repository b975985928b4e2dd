---------------------------- MODULE DownloadCache ----------------------------
(****************************************************************************)
(* What the download infrastructure promises the builds that share a        *)
(* download directory, without locks, URIs, temporaries or exit codes: a    *)
(* cell that holds one file, and builds that ask for it.  A build is        *)
(* granted the file only at a moment the cell holds one it accepts; the     *)
(* cell is filled only while empty, and only a build that refutes the file  *)
(* it holds may empty it.                                                   *)
(****************************************************************************)
CONSTANTS
    Proc,           \* the builds
    File,           \* what the cell may hold, torn files included
    Partial,        \* the torn file
    None,           \* no file
    Verdict(_, _)   \* check-hash's exit code for a build and a file

VARIABLES
    cell,    \* the file in the cell, or None
    status   \* status[p] \in {"idle", "asking", "granted", "refused"}

cvars == <<cell, status>>

Init ==
    /\ cell = None
    /\ status = [p \in Proc |-> "idle"]

Ask(p) ==
    /\ status[p] # "asking"
    /\ status' = [status EXCEPT ![p] = "asking"]
    /\ UNCHANGED cell

Fill(p) ==
    /\ status[p] = "asking"
    /\ cell = None
    /\ cell' \in File
    /\ UNCHANGED status

Empty(p) ==
    /\ status[p] = "asking"
    /\ cell \in File /\ Verdict(p, cell) = 2
    /\ cell' = None
    /\ UNCHANGED status

Grant(p) ==
    /\ status[p] = "asking"
    /\ cell \in File /\ Verdict(p, cell) = 0
    /\ status' = [status EXCEPT ![p] = "granted"]
    /\ UNCHANGED cell

(* A build that gives up may leave a torn file in an empty cell. *)
Refuse(p) ==
    /\ status[p] = "asking"
    /\ status' = [status EXCEPT ![p] = "refused"]
    /\ \/ UNCHANGED cell
       \/ cell = None /\ cell' = Partial

Next == \E p \in Proc : Ask(p) \/ Fill(p) \/ Empty(p) \/ Grant(p) \/ Refuse(p)

Spec == Init /\ [][Next]_cvars

-----------------------------------------------------------------------------
(* All the builds check the file against the same hashes. *)
SameHashes ==
    \A p, q \in Proc : \A file \in File : Verdict(p, file) = Verdict(q, file)

(* dl-wrapper:72-88: when they do, a file that one of them was granted stays *)
(* where it is and good for it, whoever asks later.                          *)
GrantedStaysGood ==
    SameHashes => \A p \in Proc : status[p] = "granted" =>
        cell \in File /\ Verdict(p, cell) = 0

CacheTypeOK ==
    /\ cell \in File \cup {None}
    /\ status \in [Proc -> {"idle", "asking", "granted", "refused"}]
=============================================================================
