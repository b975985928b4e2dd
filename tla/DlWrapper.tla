------------------------------ MODULE DlWrapper ------------------------------
(****************************************************************************)
(* support/download/dl-wrapper, run as package/pkg-download.mk's DOWNLOAD   *)
(* runs it (under flock on the package's download directory), and the steps *)
(* of package/pkg-generic.mk around it: .stamp_downloaded, then extraction. *)
(*                                                                          *)
(* A process is one build that needs the file; several builds share         *)
(* BR2_DL_DIR.  They all want the same output file, each with its own list  *)
(* of URIs and its own .hash files (two Buildroot trees may disagree).      *)
(* The shell's variables of a run are functions of the process, the files   *)
(* it shares with the others are plain variables.                           *)
(****************************************************************************)
EXTENDS CheckHash, Integers, Sequences

CONSTANTS
    Proc,          \* the builds
    Uri,           \* where a file may be fetched from
    Uris,          \* Uris[p]: the -u options of p, in the order DOWNLOAD_URIS lists them
    HashFiles,     \* HashFiles[p]: the -H options of p
    NoCheck,       \* NoCheck[p]: p lists the file in BR_NO_CHECK_HASH_FOR
    Served,        \* Served[u]: what a backend asked for u may deliver, Failure included
    OldFile,       \* the file in the legacy global directory, or None
    MayFail,       \* the commands that may fail: a subset of FallibleCommands
    None, Failure,
    MaxRuns,       \* bound: how often one build starts the wrapper
    MaxKills       \* bound: how many runs are interrupted

FallibleCommands == {"ln", "cp", "mktemp -d", "mktemp", "chmod", "cat", "mv", "rm"}

ASSUME DlAssumption ==
    /\ Uris \in [Proc -> Seq(Uri)]
    /\ HashFiles \in [Proc -> Seq(HashFile)]
    /\ NoCheck \in [Proc -> BOOLEAN]
    /\ Served \in [Uri -> SUBSET (File \cup {Failure})]
    /\ OldFile \in Content \cup {None}
    /\ MayFail \subseteq FallibleCommands
    /\ None \notin File /\ Failure \notin File \cup {None}
    /\ None \notin Proc
    /\ MaxRuns \in Nat /\ MaxKills \in Nat

VARIABLES
    out,       \* "${output}", the file in BR2_DL_DIR, or None
    lock,      \* who holds the flock, or None
    litter,    \* temporaries that outlived their run, with what ended it
    kills,     \* interrupted runs so far
    pc, ui, rc, tmpd, tmpo,   \* the state of each run
    runs,      \* runs started by each build
    used       \* used[p]: what p extracted, None before

shared == <<out, lock, litter, kills>>
local == <<pc, ui, rc, tmpd, tmpo>>
vars == <<out, lock, litter, kills, pc, ui, rc, tmpd, tmpo, runs, used>>

Critical == {"legacy", "copying", "exists", "remove", "uri", "backend",
             "check", "save", "chmod", "cat", "mv", "exit"}

PcSet == Critical \cup {"idle", "flock", "downloaded", "failed", "extracted"}

Temporaries == {"tmpd", "tmp_output"}

(* What ends a run: an exit or return, a failing command under set -e, or a *)
(* kill. *)
Ends == FallibleCommands \cup {"exit", "kill"}

Init ==
    /\ out = None
    /\ lock = None
    /\ litter = {}
    /\ kills = 0
    /\ pc = [p \in Proc |-> "idle"]
    /\ ui = [p \in Proc |-> 1]
    /\ rc = [p \in Proc |-> 1]
    /\ tmpd = [p \in Proc |-> None]
    /\ tmpo = [p \in Proc |-> None]
    /\ runs = [p \in Proc |-> 0]
    /\ used = [p \in Proc |-> None]

-----------------------------------------------------------------------------
Goto(p, from, to) == pc[p] = from /\ pc' = [pc EXCEPT ![p] = to]

(* Exit with a status: the shell goes to "exit", its status is in rc. *)
ExitWith(p, from, code) ==
    /\ Goto(p, from, "exit")
    /\ rc' = [rc EXCEPT ![p] = code]

Checked(p, file) == CheckHash(file, HashFiles[p], NoCheck[p])

LeftBy(p) ==
    {t \in Temporaries : \/ t = "tmpd" /\ tmpd[p] # None
                         \/ t = "tmp_output" /\ tmpo[p] # None}

(* Mutant: a lock file, which does not go away with its owner. *)
Leave_StaleLock(p, end, kept) ==
    /\ lock' = IF pc[p] = "exit" THEN None ELSE lock
    /\ litter' = litter \cup [what : kept, end : {end}]
    /\ tmpd' = [tmpd EXCEPT ![p] = None]
    /\ tmpo' = [tmpo EXCEPT ![p] = None]

(* The wrapper's process ends: flock's file is closed, what it left stays. *)
Leave(p, end, kept) ==
    /\ lock' = IF lock = p THEN None ELSE lock
    /\ litter' = litter \cup [what : kept, end : {end}]
    /\ tmpd' = [tmpd EXCEPT ![p] = None]
    /\ tmpo' = [tmpo EXCEPT ![p] = None]

(* set -e: a command nobody tests fails, and the run ends where it stands. *)
StopsAt(p, from, command, kept) ==
    /\ command \in MayFail
    /\ Goto(p, from, "failed")
    /\ Leave(p, command, kept)
    /\ UNCHANGED <<out, kills, ui, rc, runs, used>>

(* make reaches the .stamp_downloaded rule and starts flock: the first     *)
(* time, after an error, or after a dirclean.                               *)
Start(p) ==
    /\ pc[p] \in {"idle", "failed", "extracted"}
    /\ runs[p] < MaxRuns
    /\ runs' = [runs EXCEPT ![p] = @ + 1]
    /\ pc' = [pc EXCEPT ![p] = "flock"]
    /\ UNCHANGED <<shared, ui, rc, tmpd, tmpo, used>>

(* Mutant: the wrapper runs without flock. *)
Lock_Unlocked(p) ==
    /\ Goto(p, "flock", "legacy")
    /\ lock' = p
    /\ ui' = [ui EXCEPT ![p] = 1]
    /\ rc' = [rc EXCEPT ![p] = 1]
    /\ UNCHANGED <<out, litter, kills, tmpd, tmpo, runs, used>>

(* Mutant: the loop over the URIs starts one too early. *)
Lock_FromZero(p) ==
    /\ Goto(p, "flock", "legacy")
    /\ lock = None
    /\ lock' = p
    /\ ui' = [ui EXCEPT ![p] = 0]
    /\ rc' = [rc EXCEPT ![p] = 1]
    /\ UNCHANGED <<out, litter, kills, tmpd, tmpo, runs, used>>

Lock(p) ==
    /\ Goto(p, "flock", "legacy")
    /\ lock = None
    /\ lock' = p
    /\ ui' = [ui EXCEPT ![p] = 1]
    /\ rc' = [rc EXCEPT ![p] = 1]
    /\ UNCHANGED <<out, litter, kills, tmpd, tmpo, runs, used>>

-----------------------------------------------------------------------------
(* Lines 59-70: take the file from the legacy directory when it is there. *)

NothingToLink(p) ==
    /\ Goto(p, "legacy", "exists")
    /\ out # None \/ OldFile = None
    /\ UNCHANGED <<shared, ui, rc, tmpd, tmpo, runs, used>>

LinkOldFile(p) ==
    /\ Goto(p, "legacy", "exists")
    /\ out = None /\ OldFile # None
    /\ out' = OldFile
    /\ UNCHANGED <<lock, litter, kills, ui, rc, tmpd, tmpo, runs, used>>

(* ln failed.  cp opens the final name and fills it: it is torn until the  *)
(* copy ends.                                                               *)
CopyOldFile(p) ==
    /\ Goto(p, "legacy", "copying")
    /\ out = None /\ OldFile # None /\ "ln" \in MayFail
    /\ out' = Partial
    /\ UNCHANGED <<lock, litter, kills, ui, rc, tmpd, tmpo, runs, used>>

CopyDone(p) ==
    /\ Goto(p, "copying", "exists")
    /\ out' = OldFile
    /\ UNCHANGED <<lock, litter, kills, ui, rc, tmpd, tmpo, runs, used>>

(* cp failed before, in or after the copy, and "|| true" swallows it. *)
CopyFails(p) ==
    /\ "cp" \in MayFail
    /\ Goto(p, "copying", "exists")
    /\ out' \in {None, Partial, OldFile}
    /\ UNCHANGED <<lock, litter, kills, ui, rc, tmpd, tmpo, runs, used>>

-----------------------------------------------------------------------------
(* Lines 72-88: is there an output already, and is it the right one? *)

NoOutput(p) ==
    /\ Goto(p, "exists", "uri")
    /\ out = None
    /\ UNCHANGED <<shared, ui, rc, tmpd, tmpo, runs, used>>

OutputMatches(p) ==
    /\ out # None /\ Checked(p, out) = 0
    /\ ExitWith(p, "exists", 0)
    /\ UNCHANGED <<shared, ui, tmpd, tmpo, runs, used>>

OutputHardError(p) ==
    /\ out # None /\ Checked(p, out) \notin {0, 2}
    /\ ExitWith(p, "exists", 1)
    /\ UNCHANGED <<shared, ui, tmpd, tmpo, runs, used>>

(* Mutant: a file nothing can be checked against is fetched again too. *)
OutputMismatches_AnyError(p) ==
    /\ out # None /\ Checked(p, out) # 0
    /\ Goto(p, "exists", "remove")
    /\ UNCHANGED <<shared, ui, rc, tmpd, tmpo, runs, used>>

(* Mutant: the wrong file is not removed before the new one is fetched. *)
OutputMismatches_Kept(p) ==
    /\ out # None /\ Checked(p, out) = 2
    /\ Goto(p, "exists", "uri")
    /\ UNCHANGED <<shared, ui, rc, tmpd, tmpo, runs, used>>

OutputMismatches(p) ==
    /\ out # None /\ Checked(p, out) = 2
    /\ Goto(p, "exists", "remove")
    /\ UNCHANGED <<shared, ui, rc, tmpd, tmpo, runs, used>>

RemoveOutput(p) ==
    /\ Goto(p, "remove", "uri")
    /\ out' = None
    /\ UNCHANGED <<lock, litter, kills, ui, rc, tmpd, tmpo, runs, used>>

RemoveOutputFails(p) == StopsAt(p, "remove", "rm", {})

-----------------------------------------------------------------------------
(* Lines 90-192: the loop over the URIs. *)

MakeTmpd(p) ==
    /\ ui[p] <= Len(Uris[p])
    /\ Goto(p, "uri", "backend")
    /\ tmpd' = [tmpd EXCEPT ![p] = Partial]
    /\ UNCHANGED <<shared, ui, rc, tmpo, runs, used>>

MakeTmpdFails(p) ==
    /\ ui[p] <= Len(Uris[p])
    /\ StopsAt(p, "uri", "mktemp -d", {})

OutOfUris(p) ==
    /\ ui[p] > Len(Uris[p])
    /\ ExitWith(p, "uri", 1)
    /\ UNCHANGED <<shared, ui, tmpd, tmpo, runs, used>>

(* rm -rf "${tmpd}"; continue *)
TryNextUri(p, from) ==
    /\ Goto(p, from, "uri")
    /\ tmpd' = [tmpd EXCEPT ![p] = None]
    /\ ui' = [ui EXCEPT ![p] = @ + 1]
    /\ UNCHANGED <<shared, rc, tmpo, runs, used>>

(* The backend and the post-process deliver a file into tmpd... *)
BackendDelivers(p) ==
    /\ Goto(p, "backend", "check")
    /\ \E file \in Served[Uris[p][ui[p]]] \ {Failure} :
          tmpd' = [tmpd EXCEPT ![p] = file]
    /\ UNCHANGED <<shared, ui, rc, tmpo, runs, used>>

(* Mutant: the first location that fails ends the run. *)
BackendFails_GivesUp(p) ==
    /\ Failure \in Served[Uris[p][ui[p]]]
    /\ ExitWith(p, "backend", 1)
    /\ tmpd' = [tmpd EXCEPT ![p] = None]
    /\ UNCHANGED <<shared, ui, tmpo, runs, used>>

(* ... or one of the two fails. *)
BackendFails(p) ==
    /\ pc[p] = "backend"
    /\ Failure \in Served[Uris[p][ui[p]]]
    /\ TryNextUri(p, "backend")

(* Mutant: a hash mismatch of the download is only reported. *)
DownloadMatches_WarnOnly(p) ==
    /\ Checked(p, tmpd[p]) \in {0, 2}
    /\ Goto(p, "check", "save")
    /\ rc' = [rc EXCEPT ![p] = 0]
    /\ UNCHANGED <<shared, ui, tmpd, tmpo, runs, used>>

DownloadMatches(p) ==
    /\ Checked(p, tmpd[p]) = 0
    /\ Goto(p, "check", "save")
    /\ rc' = [rc EXCEPT ![p] = 0]
    /\ UNCHANGED <<shared, ui, tmpd, tmpo, runs, used>>

(* No hash to check against: the file is kept, and the run fails. *)
DownloadUnverified(p) ==
    /\ Checked(p, tmpd[p]) = 3
    /\ Goto(p, "check", "save")
    /\ rc' = [rc EXCEPT ![p] = 1]
    /\ UNCHANGED <<shared, ui, tmpd, tmpo, runs, used>>

DownloadRefused(p) ==
    /\ pc[p] = "check"
    /\ Checked(p, tmpd[p]) \notin {0, 3}
    /\ TryNextUri(p, "check")

-----------------------------------------------------------------------------
(* Lines 194-238: publish the file under its final name. *)

MakeTmpOutput(p) ==
    /\ Goto(p, "save", "chmod")
    /\ tmpo' = [tmpo EXCEPT ![p] = Partial]
    /\ UNCHANGED <<shared, ui, rc, tmpd, runs, used>>

MakeTmpOutputFails(p) == StopsAt(p, "save", "mktemp", LeftBy(p))

Chmod(p) ==
    /\ Goto(p, "chmod", "cat")
    /\ UNCHANGED <<shared, ui, rc, tmpd, tmpo, runs, used>>

ChmodFails(p) == StopsAt(p, "chmod", "chmod", LeftBy(p))

Cat(p) ==
    /\ Goto(p, "cat", "mv")
    /\ tmpo' = [tmpo EXCEPT ![p] = tmpd[p]]
    /\ tmpd' = [tmpd EXCEPT ![p] = None]
    /\ UNCHANGED <<shared, ui, rc, runs, used>>

(* Mutant: a short write leaves the temporary file behind. *)
CatFails_KeepsOutput(p) ==
    /\ "cat" \in MayFail
    /\ ExitWith(p, "cat", 1)
    /\ tmpd' = [tmpd EXCEPT ![p] = None]
    /\ UNCHANGED <<shared, ui, tmpo, runs, used>>

CatFails(p) ==
    /\ "cat" \in MayFail
    /\ ExitWith(p, "cat", 1)
    /\ tmpd' = [tmpd EXCEPT ![p] = None]
    /\ tmpo' = [tmpo EXCEPT ![p] = None]
    /\ UNCHANGED <<shared, ui, runs, used>>

Move(p) ==
    /\ Goto(p, "mv", "exit")
    /\ out' = tmpo[p]
    /\ tmpo' = [tmpo EXCEPT ![p] = None]
    /\ UNCHANGED <<lock, litter, kills, ui, rc, tmpd, runs, used>>

MoveFails(p) ==
    /\ "mv" \in MayFail
    /\ ExitWith(p, "mv", 1)
    /\ tmpo' = [tmpo EXCEPT ![p] = None]
    /\ UNCHANGED <<shared, ui, tmpd, runs, used>>

(* Every rm of temporaries runs under set -e: of the backend that failed,   *)
(* of the refused download, after cat and after a mv that failed.  At       *)
(* least one of its operands stays; the rm after a cat that worked has only *)
(* tmpd as its operand, and tmp_output stays with it. *)
RemoveTmpFails(p) ==
    \E kept \in SUBSET LeftBy(p) \ {{}} :
       \/ Failure \in Served[Uris[p][ui[p]]] /\ StopsAt(p, "backend", "rm", kept)
       \/ Checked(p, tmpd[p]) \notin {0, 3} /\ StopsAt(p, "check", "rm", kept)
       \/ (kept = LeftBy(p) \/ "cat" \in MayFail) /\ StopsAt(p, "cat", "rm", kept)
       \/ "mv" \in MayFail /\ StopsAt(p, "mv", "rm", kept)

-----------------------------------------------------------------------------
(* make sees the status: it touches .stamp_downloaded or stops. *)
Exit(p) ==
    /\ Goto(p, "exit", IF rc[p] = 0 THEN "downloaded" ELSE "failed")
    /\ Leave(p, "exit", LeftBy(p))
    /\ UNCHANGED <<out, kills, ui, rc, runs, used>>

(* A signal, or the machine, ends the run between two commands. *)
Kill(p) ==
    /\ kills < MaxKills
    /\ kills' = kills + 1
    /\ pc[p] \in Critical \cup {"flock"}
    /\ pc' = [pc EXCEPT ![p] = "failed"]
    /\ Leave(p, "kill", LeftBy(p))
    /\ UNCHANGED <<out, ui, rc, runs, used>>

(* The extract step reads the file from BR2_DL_DIR, outside the lock. *)
Extract(p) ==
    /\ Goto(p, "downloaded", "extracted")
    /\ used' = [used EXCEPT ![p] = out]
    /\ UNCHANGED <<shared, ui, rc, tmpd, tmpo, runs>>

Wrapper(p) ==
    \/ Lock(p) \/ NothingToLink(p) \/ LinkOldFile(p) \/ CopyOldFile(p)
    \/ CopyDone(p) \/ CopyFails(p)
    \/ NoOutput(p) \/ OutputMatches(p) \/ OutputHardError(p)
    \/ OutputMismatches(p) \/ RemoveOutput(p) \/ RemoveOutputFails(p)
    \/ MakeTmpd(p) \/ MakeTmpdFails(p) \/ OutOfUris(p)
    \/ BackendDelivers(p) \/ BackendFails(p)
    \/ DownloadMatches(p) \/ DownloadUnverified(p) \/ DownloadRefused(p)
    \/ MakeTmpOutput(p) \/ MakeTmpOutputFails(p) \/ Chmod(p) \/ ChmodFails(p)
    \/ Cat(p) \/ CatFails(p) \/ Move(p) \/ MoveFails(p) \/ RemoveTmpFails(p)
    \/ Exit(p)

Next == \E p \in Proc : Start(p) \/ Wrapper(p) \/ Kill(p) \/ Extract(p)

Spec == Init /\ [][Next]_vars

(* Every command the shell starts ends, and make goes on to the next step. *)
(* The lock is given to a waiting process over and over only as often as   *)
(* builds start, which MaxRuns bounds: weak fairness is enough.             *)
FairSpec == Spec /\ \A p \in Proc : WF_vars(Wrapper(p)) /\ WF_vars(Extract(p))

-----------------------------------------------------------------------------
(* Every variable keeps its type; the position in the list of URIs, which   *)
(* indexes Uris[p], never is before the first.                              *)
TypeOK ==
    /\ out \in File \cup {None}
    /\ lock \in Proc \cup {None}
    /\ litter \subseteq [what : Temporaries, end : Ends]
    /\ kills \in 0..MaxKills
    /\ pc \in [Proc -> PcSet]
    /\ ui \in [Proc -> Nat \ {0}]
    /\ rc \in [Proc -> {0, 1}]
    /\ tmpd \in [Proc -> File \cup {None}]
    /\ tmpo \in [Proc -> File \cup {None}]
    /\ runs \in [Proc -> 0..MaxRuns]
    /\ used \in [Proc -> File \cup {None}]

(* dl-wrapper: when a run is about to exit with 0, the file under the final *)
(* name exists and passes this build's own hashes, whatever the other       *)
(* builds, their other hashes, kills and failing commands did to it.        *)
VerifiedAtExit ==
    \A p \in Proc : pc[p] = "exit" /\ rc[p] = 0 =>
        out \in File /\ Checked(p, out) = 0

SameHashes ==
    \A p, q \in Proc : HashFiles[p] = HashFiles[q] /\ NoCheck[p] = NoCheck[q]

(* pkg-generic.mk reads the file after the lock is gone.  Builds that agree *)
(* on the hashes never pull it from under each other: what is extracted is  *)
(* there and verified.                                                      *)
UsedIsVerified ==
    SameHashes => \A p \in Proc : pc[p] = "extracted" =>
        used[p] \in File /\ Checked(p, used[p]) = 0

(* dl-wrapper:72-76,81-83: a complete file that no build refutes is never   *)
(* removed nor replaced, even one that nothing could be checked against, so *)
(* that it is not fetched again from a later location.                      *)
KeepsDecidedFile ==
    [][(out \in Content /\ \A p \in Proc : Checked(p, out) # 2) => out' = out]_vars

(* dl-wrapper:4-6,14-15: a run that exits by itself, or that any mktemp, a  *)
(* location, a hash, cat or mv ends, leaves no temporary in the download    *)
(* directory itself.  What does leave one: a kill, the chmod of line 211,   *)
(* which set -e ends before anything removes it, and an rm that fails.      *)
DlDirUncluttered ==
    \A l \in litter : l.what = "tmp_output" => l.end \in {"kill", "chmod", "rm"}

(* dl-wrapper:62: "If we can neither link nor copy, fallback to doing a    *)
(* download": a run never succeeds with the torn remains of the copy.       *)
FallsBackToDownload ==
    \A p \in Proc : pc[p] = "exit" /\ rc[p] = 0 => out \in Content

(* A build that asks for the lock gets its answer: nobody waits for ever on *)
(* a lock whose holder failed or was killed.                                *)
Answered ==
    \A p \in Proc : pc[p] = "flock" ~> pc[p] \in {"downloaded", "failed", "extracted"}

(* With a last location that serves the right file and no more kills, every *)
(* request succeeds, whatever the locations before it serve and whatever an *)
(* earlier killed run left.                                                 *)
MirrorSaves ==
    \A p \in Proc : pc[p] = "flock" /\ kills = MaxKills
                      ~> pc[p] \in {"downloaded", "extracted"}

(* The wrapper implements the shared cell.  While a holder copies the       *)
(* legacy file the cell is still empty.                                     *)
Cell == IF \E p \in Proc : pc[p] = "copying" THEN None ELSE out

StatusAt(l) ==
    CASE l = "idle" -> "idle"
      [] l \in Critical \cup {"flock"} -> "asking"
      [] l \in {"downloaded", "extracted"} -> "granted"
      [] l = "failed" -> "refused"

Status == [p \in Proc |-> StatusAt(pc[p])]

Cache == INSTANCE DownloadCache
            WITH cell <- Cell, status <- Status, Verdict <- Checked

CacheSpec == Cache!Spec
=============================================================================
