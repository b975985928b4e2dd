--------------------------- MODULE DlWrapper_proofs ---------------------------
(* Proofs about DlWrapper, for any number of builds, URIs, hash files,      *)
(* contents, runs and kills.                                                *)
EXTENDS DlWrapper, TLAPS

(* Only the lock's owner is between flock and exit. *)
Exclusive == \A p \in Proc : pc[p] \in Critical => lock = p

(* What a run knows at each point of the script, of the shared file and of  *)
(* its temporaries. *)
Phase(p) ==
    /\ pc[p] = "copying" => OldFile # None /\ out = Partial
    /\ pc[p] = "remove" => out \in File /\ Checked(p, out) = 2
    /\ pc[p] \in {"uri", "backend", "check", "save", "chmod", "cat", "mv"} => out = None
    /\ pc[p] = "backend" => ui[p] <= Len(Uris[p])
    /\ pc[p] = "check" => tmpd[p] \in File
    /\ pc[p] \in {"save", "chmod", "cat"} =>
          tmpd[p] \in File /\ (rc[p] = 0 => Checked(p, tmpd[p]) = 0)
    /\ pc[p] = "mv" => tmpo[p] \in File /\ (rc[p] = 0 => Checked(p, tmpo[p]) = 0)
    /\ pc[p] = "exit" /\ rc[p] = 0 => out \in File /\ Checked(p, out) = 0

Phases == \A p \in Proc : Phase(p)

IInv == TypeOK /\ Exclusive /\ Phases

(* A step of p is a step of one of the actions. *)
Step(p) == Start(p) \/ Wrapper(p) \/ Kill(p) \/ Extract(p)

(* The steps with which set -e ends a run. *)
Stops(p) == \/ RemoveOutputFails(p) \/ MakeTmpdFails(p) \/ MakeTmpOutputFails(p)
            \/ ChmodFails(p) \/ RemoveTmpFails(p)

-----------------------------------------------------------------------------
(* What the proofs need of the constants. *)
LEMMA Constants ==
    /\ MaxRuns \in Nat /\ MaxKills \in Nat
    /\ Partial \in File /\ None \notin File /\ None \notin Proc
    /\ OldFile # None => OldFile \in File
    /\ \A p \in Proc : Len(Uris[p]) \in Nat
    /\ \A p \in Proc : \A i \in Nat \ {0} :
          i <= Len(Uris[p]) => Served[Uris[p][i]] \ {Failure} \subseteq File
<1>1. ASSUME NEW p \in Proc
      PROVE  /\ Len(Uris[p]) \in Nat
             /\ \A i \in Nat \ {0} : i <= Len(Uris[p]) => Uris[p][i] \in Uri
  <2>1. Uris[p] \in Seq(Uri)
    BY DlAssumption
  <2> QED BY <2>1
<1>2. \A u \in Uri : Served[u] \ {Failure} \subseteq File
  BY DlAssumption
<1> QED BY DlAssumption, <1>1, <1>2 DEF File

(* A run that set -e ends leaves the lock and the file, and fails.  What    *)
(* stays of its temporaries is among those it had; a mktemp that fails ends *)
(* it before it has one in the download directory. *)
LEMMA Stopped ==
    ASSUME NEW p \in Proc, Stops(p)
    PROVE  \E command \in MayFail : \E kept \in SUBSET LeftBy(p) :
              /\ pc[p] \in Critical \ {"copying", "exit"}
              /\ pc' = [pc EXCEPT ![p] = "failed"]
              /\ Leave(p, command, kept)
              /\ UNCHANGED <<out, kills, ui, rc, runs, used>>
              /\ \/ command \in {"chmod", "rm"}
                 \/ kept = {}
                 \/ pc[p] = "save" /\ kept = LeftBy(p)
<1> USE DEF StopsAt, Goto, Critical
<1>1. CASE RemoveOutputFails(p)
  <2>1. {} \in SUBSET LeftBy(p)
    OBVIOUS
  <2> QED BY <1>1, <2>1 DEF RemoveOutputFails
<1>2. CASE MakeTmpdFails(p)
  <2>1. {} \in SUBSET LeftBy(p)
    OBVIOUS
  <2> QED BY <1>2, <2>1 DEF MakeTmpdFails
<1>3. CASE MakeTmpOutputFails(p)
  <2>1. LeftBy(p) \in SUBSET LeftBy(p)
    OBVIOUS
  <2> QED BY <1>3, <2>1 DEF MakeTmpOutputFails
<1>4. CASE ChmodFails(p)
  <2>1. LeftBy(p) \in SUBSET LeftBy(p)
    OBVIOUS
  <2> QED BY <1>4, <2>1 DEF ChmodFails
<1>5. CASE RemoveTmpFails(p)
  <2>1. PICK kept \in SUBSET LeftBy(p), from \in {"backend", "check", "cat", "mv"} :
           StopsAt(p, from, "rm", kept)
    BY <1>5 DEF RemoveTmpFails
  <2> QED BY <2>1
<1> QED BY <1>1, <1>2, <1>3, <1>4, <1>5 DEF Stops

(* The type invariant holds in every reachable state. *)
LEMMA TypeStep ==
    ASSUME TypeOK, NEW p \in Proc, Phase(p), Step(p)
    PROVE  TypeOK'
<1> USE Constants DEF TypeOK, PcSet, Critical, Goto, ExitWith, shared
<1>1. CASE Start(p) BY <1>1 DEF Start
<1>2. CASE Extract(p) BY <1>2 DEF Extract
<1>3. CASE Lock(p) BY <1>3 DEF Lock
<1>4. CASE NothingToLink(p) BY <1>4 DEF NothingToLink
<1>5. CASE LinkOldFile(p) BY <1>5 DEF LinkOldFile
<1>6. CASE CopyOldFile(p) BY <1>6 DEF CopyOldFile
<1>7. CASE CopyDone(p) BY <1>7 DEF CopyDone
<1>8. CASE CopyFails(p) BY <1>8 DEF CopyFails
<1>9. CASE NoOutput(p) BY <1>9 DEF NoOutput
<1>10. CASE OutputMatches(p) BY <1>10 DEF OutputMatches
<1>11. CASE OutputHardError(p) BY <1>11 DEF OutputHardError
<1>12. CASE OutputMismatches(p) BY <1>12 DEF OutputMismatches
<1>13. CASE RemoveOutput(p) BY <1>13 DEF RemoveOutput
<1>14. CASE MakeTmpd(p) BY <1>14 DEF MakeTmpd
<1>15. CASE OutOfUris(p) BY <1>15 DEF OutOfUris
<1>16. CASE BackendDelivers(p)
  <2>1. PICK file \in Served[Uris[p][ui[p]]] \ {Failure} :
           tmpd' = [tmpd EXCEPT ![p] = file]
    BY <1>16 DEF BackendDelivers
  <2>2. file \in File
    BY <2>1, <1>16 DEF BackendDelivers, Phase
  <2> QED BY <2>1, <2>2, <1>16 DEF BackendDelivers
<1>17. CASE BackendFails(p) BY <1>17 DEF BackendFails, TryNextUri
<1>18. CASE DownloadMatches(p) BY <1>18 DEF DownloadMatches
<1>19. CASE DownloadUnverified(p) BY <1>19 DEF DownloadUnverified
<1>20. CASE DownloadRefused(p) BY <1>20 DEF DownloadRefused, TryNextUri
<1>21. CASE MakeTmpOutput(p) BY <1>21 DEF MakeTmpOutput
<1>22. CASE Chmod(p) BY <1>22 DEF Chmod
<1>23. CASE Cat(p) BY <1>23 DEF Cat
<1>24. CASE CatFails(p) BY <1>24 DEF CatFails
<1>25. CASE Move(p) BY <1>25 DEF Move
<1>26. CASE MoveFails(p) BY <1>26 DEF MoveFails
<1>27. ASSUME NEW end \in Ends, NEW kept \in SUBSET LeftBy(p), Leave(p, end, kept)
      PROVE  /\ lock' \in Proc \cup {None} /\ litter' \subseteq [what : Temporaries, end : Ends]
             /\ tmpd' \in [Proc -> File \cup {None}]
             /\ tmpo' \in [Proc -> File \cup {None}]
  BY <1>27 DEF Leave, LeftBy
<1>28. CASE Exit(p)
  <2>1. Leave(p, "exit", LeftBy(p)) /\ "exit" \in Ends
    BY <1>28 DEF Exit, Ends
  <2> QED BY <1>28, <1>27, <2>1 DEF Exit
<1>29. CASE Kill(p)
  <2>1. kills' \in 0..MaxKills
    BY <1>29 DEF Kill
  <2>2. pc' \in [Proc -> PcSet]
    BY <1>29 DEF Kill
  <2>3. UNCHANGED <<out, ui, rc, runs, used>> /\ Leave(p, "kill", LeftBy(p))
    BY <1>29 DEF Kill
  <2>4. "kill" \in Ends
    BY DEF Ends
  <2> QED BY <2>1, <2>2, <2>3, <2>4, <1>27
<1>30. CASE Stops(p)
  <2>1. PICK command \in MayFail, kept \in SUBSET LeftBy(p) :
           /\ pc' = [pc EXCEPT ![p] = "failed"]
           /\ Leave(p, command, kept)
           /\ UNCHANGED <<out, kills, ui, rc, runs, used>>
    BY <1>30, Stopped
  <2>2. command \in Ends
    BY DlAssumption DEF Ends
  <2> QED BY <2>1, <2>2, <1>27
<1> QED BY <1>1, <1>2, <1>3, <1>4, <1>5, <1>6, <1>7, <1>8, <1>9, <1>10, <1>11,
       <1>12, <1>13, <1>14, <1>30, <1>15, <1>16, <1>17, <1>18, <1>19, <1>20,
       <1>21, <1>22, <1>23, <1>24, <1>25, <1>26, <1>28, <1>29
        DEF Step, Wrapper, Stops

-----------------------------------------------------------------------------
(* Only one run is under the lock: a build enters when nobody holds it, and *)
(* the lock goes with the process that held it. *)
LEMMA ExclusiveStep ==
    ASSUME TypeOK, Exclusive, NEW p \in Proc, Step(p)
    PROVE  Exclusive'
<1> USE Constants DEF TypeOK, Exclusive, Critical, Goto, ExitWith, shared
<1>1. ASSUME UNCHANGED lock, pc[p] \in Critical, \A q \in Proc \ {p} : pc'[q] = pc[q]
      PROVE  Exclusive'
  BY <1>1
<1>2. CASE Start(p) \/ Extract(p)
  BY <1>2 DEF Start, Extract
<1>3. CASE Lock(p)
  BY <1>3 DEF Lock
<1>4. CASE Kill(p) \/ Exit(p)
  <2>1. pc' \in [Proc -> PcSet] /\ pc'[p] \notin Critical
    BY <1>4, TypeOK DEF Kill, Exit, PcSet
  <2>2. lock' = IF lock = p THEN None ELSE lock
    BY <1>4 DEF Kill, Exit, Leave
  <2>3. \A q \in Proc \ {p} : pc'[q] = pc[q]
    BY <1>4 DEF Kill, Exit
  <2> QED BY <2>1, <2>2, <2>3
<1>5. CASE Stops(p)
  <2>1. /\ pc' = [pc EXCEPT ![p] = "failed"]
        /\ lock' = IF lock = p THEN None ELSE lock
    BY <1>5, Stopped DEF Leave
  <2> QED BY <2>1
<1>6. CASE Wrapper(p) /\ ~Lock(p) /\ ~Exit(p) /\ ~Stops(p)
  <2>1. UNCHANGED lock /\ pc[p] \in Critical
    BY <1>6 DEF Wrapper, NothingToLink, LinkOldFile, CopyOldFile, CopyDone, CopyFails,
       NoOutput, OutputMatches, OutputHardError, OutputMismatches, RemoveOutput,
       MakeTmpd, Stops, OutOfUris, BackendDelivers, BackendFails, TryNextUri,
       DownloadMatches, DownloadUnverified, DownloadRefused, MakeTmpOutput,
       Chmod, Cat, CatFails, Move, MoveFails
  <2>2. \A q \in Proc \ {p} : pc'[q] = pc[q]
    BY <1>6 DEF Wrapper, NothingToLink, LinkOldFile, CopyOldFile, CopyDone, CopyFails,
       NoOutput, OutputMatches, OutputHardError, OutputMismatches, RemoveOutput,
       MakeTmpd, Stops, OutOfUris, BackendDelivers, BackendFails, TryNextUri,
       DownloadMatches, DownloadUnverified, DownloadRefused, MakeTmpOutput,
       Chmod, Cat, CatFails, Move, MoveFails
  <2> QED BY <2>1, <2>2, <1>1
<1> QED BY <1>2, <1>3, <1>4, <1>6, <1>5 DEF Step, Wrapper

(* A step of p leaves the variables of the other runs alone, and the file   *)
(* unless p is under the lock. *)
LEMMA Others ==
    ASSUME TypeOK, NEW p \in Proc, Step(p)
    PROVE  /\ \A q \in Proc \ {p} :
                 /\ pc'[q] = pc[q] /\ ui'[q] = ui[q] /\ rc'[q] = rc[q]
                 /\ tmpd'[q] = tmpd[q] /\ tmpo'[q] = tmpo[q] /\ used'[q] = used[q]
           /\ out' # out => pc[p] \in Critical
<1> USE DEF TypeOK, Critical, Goto, ExitWith, shared
<1>1. CASE Start(p) BY <1>1 DEF Start
<1>2. CASE Extract(p) BY <1>2 DEF Extract
<1>3. CASE Kill(p) BY <1>3 DEF Kill, Leave
<1>4. CASE Lock(p) BY <1>4 DEF Lock
<1>5. CASE NothingToLink(p) BY <1>5 DEF NothingToLink
<1>6. CASE LinkOldFile(p) BY <1>6 DEF LinkOldFile
<1>7. CASE CopyOldFile(p) BY <1>7 DEF CopyOldFile
<1>8. CASE CopyDone(p) BY <1>8 DEF CopyDone
<1>9. CASE CopyFails(p) BY <1>9 DEF CopyFails
<1>10. CASE NoOutput(p) BY <1>10 DEF NoOutput
<1>11. CASE OutputMatches(p) BY <1>11 DEF OutputMatches
<1>12. CASE OutputHardError(p) BY <1>12 DEF OutputHardError
<1>13. CASE OutputMismatches(p) BY <1>13 DEF OutputMismatches
<1>14. CASE RemoveOutput(p) BY <1>14 DEF RemoveOutput
<1>15. CASE MakeTmpd(p) BY <1>15 DEF MakeTmpd
<1>16. CASE Stops(p) BY <1>16, Stopped DEF Leave
<1>17. CASE OutOfUris(p) BY <1>17 DEF OutOfUris
<1>18. CASE BackendDelivers(p) BY <1>18 DEF BackendDelivers
<1>19. CASE BackendFails(p) BY <1>19 DEF BackendFails, TryNextUri
<1>20. CASE DownloadMatches(p) BY <1>20 DEF DownloadMatches
<1>21. CASE DownloadUnverified(p) BY <1>21 DEF DownloadUnverified
<1>22. CASE DownloadRefused(p) BY <1>22 DEF DownloadRefused, TryNextUri
<1>23. CASE MakeTmpOutput(p) BY <1>23 DEF MakeTmpOutput
<1>24. CASE Chmod(p) BY <1>24 DEF Chmod
<1>25. CASE Cat(p) BY <1>25 DEF Cat
<1>26. CASE CatFails(p) BY <1>26 DEF CatFails
<1>27. CASE Move(p) BY <1>27 DEF Move
<1>28. CASE MoveFails(p) BY <1>28 DEF MoveFails
<1>29. CASE Exit(p) BY <1>29 DEF Exit, Leave
<1> QED BY <1>1, <1>2, <1>3, <1>4, <1>5, <1>6, <1>7, <1>8, <1>9, <1>10, <1>11,
       <1>12, <1>13, <1>14, <1>15, <1>16, <1>17, <1>18, <1>19, <1>20, <1>21,
       <1>22, <1>23, <1>24, <1>25, <1>26, <1>27, <1>28, <1>29 DEF Step,
       Wrapper, Stops

(* What a run knows of its own step. *)
LEMMA OwnPhase ==
    ASSUME TypeOK, NEW p \in Proc, Phase(p), Step(p)
    PROVE  Phase(p)'
<1> USE Constants DEF TypeOK, Phase, Goto, ExitWith, shared, Checked
<1>1. CASE Start(p) BY <1>1 DEF Start
<1>2. CASE Extract(p) BY <1>2 DEF Extract
<1>3. CASE Kill(p) BY <1>3 DEF Kill, Leave
<1>4. CASE Lock(p) BY <1>4 DEF Lock
<1>5. CASE NothingToLink(p) BY <1>5 DEF NothingToLink
<1>6. CASE LinkOldFile(p) BY <1>6 DEF LinkOldFile
<1>7. CASE CopyOldFile(p) BY <1>7 DEF CopyOldFile
<1>8. CASE CopyDone(p) BY <1>8 DEF CopyDone
<1>9. CASE CopyFails(p) BY <1>9 DEF CopyFails
<1>10. CASE NoOutput(p) BY <1>10 DEF NoOutput
<1>11. CASE OutputMatches(p) BY <1>11 DEF OutputMatches
<1>12. CASE OutputHardError(p) BY <1>12 DEF OutputHardError
<1>13. CASE OutputMismatches(p) BY <1>13 DEF OutputMismatches
<1>14. CASE RemoveOutput(p) BY <1>14 DEF RemoveOutput
<1>15. CASE MakeTmpd(p) BY <1>15 DEF MakeTmpd
<1>16. CASE Stops(p)
  <2>1. pc'[p] = "failed"
    BY <1>16, Stopped
  <2> QED BY <2>1
<1>17. CASE OutOfUris(p) BY <1>17 DEF OutOfUris
<1>18. CASE BackendDelivers(p) BY <1>18 DEF BackendDelivers
<1>19. CASE BackendFails(p) BY <1>19 DEF BackendFails, TryNextUri
<1>20. CASE DownloadMatches(p) BY <1>20 DEF DownloadMatches
<1>21. CASE DownloadUnverified(p) BY <1>21 DEF DownloadUnverified
<1>22. CASE DownloadRefused(p) BY <1>22 DEF DownloadRefused, TryNextUri
<1>23. CASE MakeTmpOutput(p) BY <1>23 DEF MakeTmpOutput
<1>24. CASE Chmod(p) BY <1>24 DEF Chmod
<1>25. CASE Cat(p) BY <1>25 DEF Cat
<1>26. CASE CatFails(p) BY <1>26 DEF CatFails
<1>27. CASE Move(p) BY <1>27 DEF Move
<1>28. CASE MoveFails(p) BY <1>28 DEF MoveFails
<1>29. CASE Exit(p) BY <1>29 DEF Exit, Leave
<1> QED BY <1>1, <1>2, <1>3, <1>4, <1>5, <1>6, <1>7, <1>8, <1>9, <1>10, <1>11,
       <1>12, <1>13, <1>14, <1>15, <1>16, <1>17, <1>18, <1>19, <1>20, <1>21,
       <1>22, <1>23, <1>24, <1>25, <1>26, <1>27, <1>28, <1>29 DEF Step,
       Wrapper, Stops

(* The invariant is inductive: a run that is not the one stepping is either  *)
(* outside the lock, and knows nothing, or holds it, and the file is as it   *)
(* left it. *)
LEMMA PhasesStep ==
    ASSUME IInv, NEW p \in Proc, Step(p)
    PROVE  Phases'
<1>1. Phase(p)'
  BY OwnPhase DEF IInv, Phases
<1>2. ASSUME NEW q \in Proc \ {p}
      PROVE  Phase(q)'
  <2>1. /\ pc'[q] = pc[q] /\ ui'[q] = ui[q] /\ rc'[q] = rc[q]
        /\ tmpd'[q] = tmpd[q] /\ tmpo'[q] = tmpo[q]
    BY Others DEF IInv
  <2>2. CASE pc[q] \in Critical
    <3>1. pc[p] \notin Critical
      BY <2>2 DEF IInv, Exclusive
    <3>2. out' = out
      BY <3>1, Others DEF IInv
    <3> QED BY <2>1, <3>2 DEF IInv, Phases, Phase, Checked
  <2>3. CASE pc[q] \notin Critical
    BY <2>1, <2>3 DEF Phase, Critical
  <2> QED BY <2>2, <2>3
<1> QED BY <1>1, <1>2 DEF Phases

LEMMA InvInit == Init => IInv
BY Constants DEF Init, IInv, TypeOK, Exclusive, Phases, Phase, PcSet, Critical

LEMMA InvNext == IInv /\ [Next]_vars => IInv'
<1> SUFFICES ASSUME IInv, [Next]_vars PROVE IInv'
  OBVIOUS
<1>1. CASE Next
  <2>1. PICK p \in Proc : Step(p)
    BY <1>1 DEF Next, Step
  <2> QED BY <2>1, TypeStep, ExclusiveStep, PhasesStep DEF IInv, Phases
<1>2. CASE UNCHANGED vars
  BY <1>2 DEF vars, IInv, TypeOK, Exclusive, Phases, Phase, Checked
<1> QED BY <1>1, <1>2

(* Every reachable state satisfies the inductive invariant. *)
THEOREM Invariance == Spec => []IInv
BY InvInit, InvNext, PTL DEF Spec

(* The variables keep their types. *)
THEOREM TypeCorrect == Spec => []TypeOK
<1>1. IInv => TypeOK
  BY DEF IInv
<1> QED BY <1>1, Invariance, PTL

(* A run that exits with 0 leaves a file that passes its own hashes: for    *)
(* every number of builds, whatever hashes the other builds check against,  *)
(* whatever is served, killed, or fails. *)
THEOREM ExitsVerified == Spec => []VerifiedAtExit
<1>1. IInv => VerifiedAtExit
  BY DEF IInv, Phases, Phase, VerifiedAtExit
<1> QED BY <1>1, Invariance, PTL

-----------------------------------------------------------------------------
(* A complete file nobody refutes stays.  The only steps that change the    *)
(* file from a complete one are rm, which a refuted hash guards, and mv and *)
(* cp, which the invariant confines to moments when there is none. *)
THEOREM DecidedFileKept == Spec => KeepsDecidedFile
<1>1. ASSUME IInv, [Next]_vars, out \in Content, \A p \in Proc : Checked(p, out) # 2
      PROVE  out' = out
  <2>1. CASE UNCHANGED vars
    BY <2>1 DEF vars
  <2>2. ASSUME NEW p \in Proc, Step(p), out' # out
        PROVE  FALSE
    <3>1. out # None /\ out # Partial /\ Phase(p)
      BY <1>1, DlAssumption, PartialAssumption DEF IInv, Phases, File
    <3>6. ~Stops(p)
      BY <2>2, Stopped
    <3>2. CopyDone(p) \/ CopyFails(p) \/ RemoveOutput(p) \/ Move(p)
      BY <2>2, <3>1, <3>6 DEF Stops, Step, Wrapper, shared, Start, Kill, Extract, Lock, NothingToLink,
         LinkOldFile, CopyOldFile, NoOutput, OutputMatches, OutputHardError,
         OutputMismatches, MakeTmpd, OutOfUris, BackendDelivers,
         BackendFails, TryNextUri, DownloadMatches, DownloadUnverified, DownloadRefused,
         MakeTmpOutput, Chmod, Cat, CatFails, MoveFails, Exit
    <3>3. CASE CopyDone(p) \/ CopyFails(p)
      BY <3>1, <3>3 DEF CopyDone, CopyFails, Goto, Phase
    <3>4. CASE RemoveOutput(p)
      BY <1>1, <3>1, <3>4 DEF RemoveOutput, Goto, Phase
    <3>5. CASE Move(p)
      BY <3>1, <3>5 DEF Move, Goto, Phase
    <3> QED BY <3>2, <3>3, <3>4, <3>5
  <2> QED BY <1>1, <2>1, <2>2 DEF Next, Step
<1> QED BY <1>1, Invariance, PTL DEF Spec, KeepsDecidedFile

-----------------------------------------------------------------------------
(* A run has its temporary in the download directory only between mktemp    *)
(* and mv.  A cat or mv that fails there removes it before the run ends; a  *)
(* kill, chmod and rm do not.                                               *)
Tidy ==
    /\ \A p \in Proc : tmpo[p] # None => pc[p] \in {"chmod", "cat", "mv"}
    /\ DlDirUncluttered

LEMMA TidyStep == ASSUME TypeOK, Tidy, NEW p \in Proc, Step(p) PROVE Tidy'
<1>1. /\ \A q \in Proc \ {p} : pc'[q] = pc[q] /\ tmpo'[q] = tmpo[q]
      /\ pc[p] \in {"chmod", "cat", "mv"} \/ tmpo[p] = None
  <2>1. CASE Stops(p) BY <2>1, Stopped DEF Tidy, TypeOK, Leave
  <2>2. CASE ~Stops(p)
   BY <2>2 DEF Stops, TypeOK, Tidy, Step, Start, Wrapper, Kill, Extract, Lock, NothingToLink, LinkOldFile,
     CopyOldFile, CopyDone, CopyFails, NoOutput, OutputMatches, OutputHardError, OutputMismatches,
     RemoveOutput, MakeTmpd, OutOfUris, BackendDelivers, BackendFails, TryNextUri,
     DownloadMatches, DownloadUnverified, DownloadRefused, MakeTmpOutput, Chmod, Cat,
     CatFails, Move, MoveFails, Exit, Leave, Goto, ExitWith
  <2> QED BY <2>1, <2>2
<1>2. CASE Kill(p)
  <2>1. tmpo'[p] = None /\ \A l \in litter' : l \in litter \/ l.end = "kill"
    BY <1>2 DEF Kill, Leave, TypeOK
  <2> QED BY <1>1, <2>1 DEF Tidy, DlDirUncluttered
<1>3. CASE Exit(p)
  <2>1. tmpo[p] = None /\ tmpo'[p] = None
    BY <1>1, <1>3 DEF Exit, Goto, Leave, TypeOK
  <2>2. \A l \in litter' : l \in litter \/ l.what # "tmp_output"
    BY <1>3, <2>1 DEF Exit, Leave, LeftBy
  <2> QED BY <1>1, <2>1, <2>2 DEF Tidy, DlDirUncluttered
<1>4. CASE MakeTmpOutput(p) \/ Chmod(p) \/ Cat(p)
  <2>1. pc'[p] \in {"chmod", "cat", "mv"} /\ UNCHANGED litter
    BY <1>4 DEF MakeTmpOutput, Chmod, Cat, Goto, shared, TypeOK
  <2> QED BY <1>1, <2>1 DEF Tidy, DlDirUncluttered
<1>5. CASE CatFails(p) \/ Move(p) \/ MoveFails(p)
  <2>1. tmpo'[p] = None /\ UNCHANGED litter
    BY <1>5 DEF CatFails, Move, MoveFails, shared, TypeOK
  <2> QED BY <1>1, <2>1 DEF Tidy, DlDirUncluttered
<1>6. CASE Stops(p)
  <2>1. PICK command \in MayFail, kept \in SUBSET LeftBy(p) :
           /\ Leave(p, command, kept)
           /\ command \in {"chmod", "rm"} \/ kept = {} \/ (pc[p] = "save" /\ kept = LeftBy(p))
    BY <1>6, Stopped
  <2>2. tmpo'[p] = None
    BY <2>1 DEF Leave, TypeOK
  <2>3. command \in {"chmod", "rm"} \/ "tmp_output" \notin kept
    BY <1>1, <2>1 DEF LeftBy
  <2>4. \A l \in litter' : l \in litter \/ l.end \in {"chmod", "rm"} \/ l.what # "tmp_output"
    BY <2>1, <2>3 DEF Leave
  <2> QED BY <1>1, <2>2, <2>4 DEF Tidy, DlDirUncluttered
<1>7. ASSUME ~Kill(p), ~Exit(p), ~MakeTmpOutput(p), ~Chmod(p), ~Cat(p), ~CatFails(p), ~Move(p),
             ~MoveFails(p), ~Stops(p)
      PROVE  pc[p] \notin {"chmod", "cat", "mv"} /\ UNCHANGED <<litter, tmpo>>
  BY <1>7 DEF Stops, Step, Start, Wrapper, Extract, Lock, NothingToLink, LinkOldFile,
     CopyOldFile, CopyDone, CopyFails, NoOutput, OutputMatches, OutputHardError, OutputMismatches,
     RemoveOutput, MakeTmpd, OutOfUris, BackendDelivers, BackendFails, TryNextUri,
     DownloadMatches, DownloadUnverified, DownloadRefused, Goto, ExitWith, shared
<1>8. CASE pc[p] \notin {"chmod", "cat", "mv"} /\ UNCHANGED <<litter, tmpo>>
  BY <1>1, <1>8 DEF Tidy, DlDirUncluttered
<1> QED BY <1>2, <1>3, <1>4, <1>5, <1>7, <1>8, <1>6

(* For any number of builds, whatever is served, fails or is killed: what   *)
(* is left in the download directory itself was left by a run that a kill,  *)
(* the chmod of line 211 or a failing rm ended, and by no other.            *)
THEOREM DlDirStaysClean == Spec => []DlDirUncluttered
<1>1. Init => Tidy
  BY DEF Init, Tidy, DlDirUncluttered
<1>2. IInv /\ Tidy /\ [Next]_vars => Tidy'
  <2>1. IInv /\ Tidy /\ Next => Tidy'
    BY TidyStep DEF IInv, Next, Step
  <2>2. Tidy /\ UNCHANGED vars => Tidy'
    BY DEF Tidy, DlDirUncluttered, vars
  <2> QED BY <2>1, <2>2
<1>3. Tidy => DlDirUncluttered
  BY DEF Tidy
<1> QED BY <1>1, <1>2, <1>3, Invariance, PTL DEF Spec

-----------------------------------------------------------------------------
(* After the lock is gone: what the builds that agree on the hashes can     *)
(* count on between .stamp_downloaded and the extraction. *)
Kept ==
    /\ \A p \in Proc : pc[p] = "downloaded" => out \in File /\ Checked(p, out) = 0
    /\ \A p \in Proc : pc[p] = "extracted" =>
          used[p] \in File /\ Checked(p, used[p]) = 0
    /\ \A p, q \in Proc : pc[p] = "copying" => pc[q] # "downloaded"

LEMMA SameVerdict ==
    ASSUME SameHashes
    PROVE  \A p, q \in Proc : \A file : Checked(p, file) = Checked(q, file)
BY DEF SameHashes, Checked

(* Where the program counter can come from. *)
LEMMA Arrivals ==
    ASSUME TypeOK, NEW p \in Proc, Step(p)
    PROVE  /\ pc'[p] = "downloaded" => Exit(p)
           /\ pc'[p] = "extracted" => Extract(p)
           /\ pc'[p] = "copying" => CopyOldFile(p)
           /\ out' # out => \/ LinkOldFile(p) \/ CopyOldFile(p) \/ CopyDone(p)
                            \/ CopyFails(p) \/ RemoveOutput(p) \/ Move(p)
<1>1. CASE Stops(p) BY <1>1, Stopped DEF TypeOK
<1>2. CASE ~Stops(p)
 BY <1>2 DEF Stops, TypeOK, Step, Wrapper, Goto, ExitWith, shared, Start, Kill, Extract, Lock,
   NothingToLink, LinkOldFile, CopyOldFile, CopyDone, CopyFails, NoOutput, OutputMatches,
   OutputHardError, OutputMismatches, RemoveOutput, MakeTmpd, OutOfUris,
   BackendDelivers, BackendFails, TryNextUri, DownloadMatches, DownloadUnverified,
   DownloadRefused, MakeTmpOutput, Chmod, Cat, CatFails, Move, MoveFails,
   Exit
<1> QED BY <1>1, <1>2

LEMMA KeptStep ==
    ASSUME SameHashes, IInv, Kept, NEW p \in Proc, Step(p)
    PROVE  Kept'
<1>1. /\ \A q \in Proc \ {p} : pc'[q] = pc[q] /\ used'[q] = used[q]
      /\ out' # out => pc[p] \in Critical
  BY Others DEF IInv
<1>2. ASSUME NEW q \in Proc, pc[q] = "downloaded"
      PROVE  out' = out
  <2>1. out \in File /\ Checked(p, out) = 0 /\ out # None
    BY <1>2, SameVerdict, Constants DEF Kept
  <2>2. Phase(p)
    BY DEF IInv, Phases
  <2>3. pc[p] # "copying"
    BY <1>2 DEF Kept
  <2>4. ~(LinkOldFile(p) \/ CopyOldFile(p) \/ CopyDone(p) \/ CopyFails(p)
            \/ RemoveOutput(p) \/ Move(p))
    BY <2>1, <2>2, <2>3 DEF LinkOldFile, CopyOldFile, CopyDone, CopyFails, RemoveOutput, Move, Goto, Phase
  <2> QED BY <2>4, Arrivals DEF IInv
<1>3. ASSUME NEW q \in Proc, pc'[q] = "downloaded"
      PROVE  out' \in File /\ Checked(q, out') = 0
  <2>1. CASE pc[q] = "downloaded"
    BY <1>2, <2>1 DEF Kept
  <2>2. CASE pc[q] # "downloaded"
    <3>1. q = p /\ Exit(p)
      BY <1>1, <1>3, <2>2, Arrivals DEF IInv
    <3>2. pc[p] = "exit" /\ rc[p] = 0 /\ out' = out
      BY <1>3, <3>1 DEF Exit, Goto, IInv, TypeOK
    <3> QED BY <3>1, <3>2 DEF IInv, Phases, Phase
  <2> QED BY <2>1, <2>2
<1>4. ASSUME NEW q \in Proc, pc'[q] = "extracted"
      PROVE  used'[q] \in File /\ Checked(q, used'[q]) = 0
  <2>1. CASE Extract(p) /\ q = p
    BY <2>1 DEF Extract, Goto, Kept, IInv, TypeOK
  <2>2. CASE q # p
    BY <1>1, <1>4, <2>2 DEF Kept
  <2>3. CASE q = p /\ ~Extract(p)
    BY <1>4, <2>3, Arrivals DEF IInv
  <2> QED BY <2>1, <2>2, <2>3
<1>5. ASSUME NEW q \in Proc, NEW r \in Proc, pc'[q] = "copying", pc'[r] = "downloaded"
      PROVE  FALSE
  <2>1. CASE q = p
    <3>1. out = None /\ out' # None /\ r # p
      BY <1>5, <2>1, Arrivals, Constants DEF CopyOldFile, Goto, IInv
    <3>2. pc[r] = "downloaded"
      BY <1>1, <1>5, <3>1
    <3> QED BY <3>1, <3>2, <1>2
  <2>2. CASE q # p
    <3>1. pc[q] = "copying" /\ pc[r] # "downloaded"
      BY <1>1, <1>5, <2>2 DEF Kept
    <3>2. r = p /\ pc[p] = "exit"
      BY <1>1, <1>5, <3>1, Arrivals DEF IInv, Exit, Goto
    <3> QED BY <2>2, <3>1, <3>2 DEF IInv, Exclusive, Critical
  <2> QED BY <2>1, <2>2
<1> QED BY <1>3, <1>4, <1>5 DEF Kept, Checked

(* Builds that agree on the hashes extract only a file that is there and    *)
(* verified, although extraction runs outside the lock. *)
THEOREM ExtractsVerified == Spec => []UsedIsVerified
<1>1. Init => (SameHashes => Kept)
  BY DEF Init, Kept
<1>2. IInv /\ (SameHashes => Kept) /\ [Next]_vars => (SameHashes => Kept)'
  <2> SUFFICES ASSUME IInv, SameHashes, Kept, [Next]_vars PROVE Kept'
    BY DEF SameHashes
  <2>1. CASE UNCHANGED vars
    BY <2>1 DEF vars, Kept, Checked
  <2>2. CASE Next
    <3>1. PICK p \in Proc : Step(p)
      BY <2>2 DEF Next, Step
    <3> QED BY <3>1, KeptStep
  <2> QED BY <2>1, <2>2
<1>3. (SameHashes => Kept) => UsedIsVerified
  BY DEF Kept, UsedIsVerified
<1> QED BY <1>1, <1>2, <1>3, Invariance, PTL DEF Spec

-----------------------------------------------------------------------------
(* The wrapper implements the shared cell.  Lock, the loop over the URIs and *)
(* the temporaries are invisible there; the invariant gives each visible     *)
(* step its guard.                                                           *)
LEMMA Statuses ==
    /\ StatusAt("idle") = "idle" /\ StatusAt("failed") = "refused"
    /\ StatusAt("downloaded") = "granted" /\ StatusAt("extracted") = "granted"
    /\ \A l \in Critical \cup {"flock"} : StatusAt(l) = "asking"
BY DEF StatusAt, Critical

LEMMA InitCache == Init => Cache!Init
<1> SUFFICES ASSUME Init PROVE Cache!Init
  OBVIOUS
<1>1. \A p \in Proc : pc[p] = "idle"
  BY DEF Init
<1>2. Cell = None
  BY <1>1 DEF Init, Cell
<1>3. Status = [p \in Proc |-> "idle"]
  BY <1>1, Statuses DEF Status
<1> QED BY <1>2, <1>3 DEF Cache!Init

(* What a step of p can do to the cell and to the statuses: while p is under *)
(* the lock no other run copies.                                             *)
LEMMA CellStep ==
    ASSUME IInv, NEW p \in Proc, Step(p)
    PROVE  /\ pc[p] \in Critical =>
                 /\ Cell = IF pc[p] = "copying" THEN None ELSE out
                 /\ Cell' = IF pc'[p] = "copying" THEN None ELSE out'
           /\ pc[p] \notin Critical => Cell' = Cell
<1>1. \A q \in Proc \ {p} : pc'[q] = pc[q]
  BY Others DEF IInv
<1>2. CASE pc[p] \in Critical
  <2>1. \A q \in Proc \ {p} : pc[q] # "copying" /\ pc'[q] # "copying"
    BY <1>1, <1>2 DEF IInv, Exclusive, Critical
  <2> QED BY <1>2, <2>1 DEF Cell
<1>3. CASE pc[p] \notin Critical
  <2>1. out' = out
    BY <1>3, Others DEF IInv
  <2>2. pc[p] # "copying" /\ pc'[p] # "copying"
    BY <1>3, Arrivals DEF IInv, Critical, CopyOldFile, Goto
  <2> QED BY <1>1, <1>3, <2>1, <2>2 DEF Cell
<1> QED BY <1>2, <1>3

LEMMA StatusStep ==
    ASSUME IInv, NEW p \in Proc, Step(p)
    PROVE  /\ Status[p] = StatusAt(pc[p])
           /\ Status' = [Status EXCEPT ![p] = StatusAt(pc'[p])]
<1>1. \A q \in Proc \ {p} : pc'[q] = pc[q]
  BY Others DEF IInv
<1> QED BY <1>1 DEF Status

LEMMA CacheStep ==
    ASSUME IInv, TypeOK', NEW p \in Proc, Step(p)
    PROVE  Cache!Next \/ UNCHANGED <<Cell, Status>>
<1> USE Constants DEF Goto, ExitWith, shared
<1>1. Phase(p) /\ TypeOK
  BY DEF IInv, Phases
<1>2. CASE Start(p)
  <2>1. pc[p] \in {"idle", "failed", "extracted"} /\ pc'[p] = "flock"
    BY <1>1, <1>2 DEF Start, TypeOK
  <2>2. Status[p] # "asking" /\ Cell' = Cell
    BY <1>1, <2>1, StatusStep, Statuses, CellStep DEF Critical
  <2>3. Status' = [Status EXCEPT ![p] = "asking"]
    BY <2>1, StatusStep, Statuses
  <2> QED BY <2>2, <2>3 DEF Cache!Next, Cache!Ask
<1>3. CASE Extract(p)
  <2>1. pc[p] = "downloaded" /\ pc'[p] = "extracted"
    BY <1>1, <1>3 DEF Extract, TypeOK
  <2>2. StatusAt(pc'[p]) = StatusAt(pc[p]) /\ Cell' = Cell
    BY <2>1, Statuses, CellStep DEF Critical
  <2>3. Status' = Status
    BY <2>2, StatusStep DEF Status
  <2> QED BY <2>2, <2>3
<1>4. ASSUME pc[p] \in Critical \cup {"flock"}, pc'[p] \in Critical
      PROVE  Status' = Status /\ Status[p] = "asking"
  <2>1. StatusAt(pc[p]) = "asking" /\ StatusAt(pc'[p]) = "asking"
    BY <1>4, Statuses
  <2> QED BY <2>1, StatusStep DEF Status
<1>5. CASE LinkOldFile(p) \/ CopyDone(p) \/ (CopyFails(p) /\ out' # None) \/ Move(p)
  <2>1. pc[p] \in Critical /\ pc'[p] \in Critical \ {"copying"}
    BY <1>1, <1>5 DEF LinkOldFile, CopyDone, CopyFails, Move, TypeOK, Critical
  <2>2. Cell = None
    BY <1>1, <1>5, <2>1, CellStep DEF LinkOldFile, CopyDone, CopyFails, Move, Phase
  <2>3. out' \in File
    <3>1. CASE LinkOldFile(p) BY <3>1 DEF LinkOldFile
    <3>2. CASE Move(p) BY <1>1, <3>2 DEF Move, Phase
    <3>3. CASE CopyFails(p) /\ out' # None BY <1>1, <3>3 DEF CopyFails, Phase
    <3>4. CASE CopyDone(p)
      BY <1>1, <3>4 DEF CopyDone, Phase
    <3> QED BY <1>5, <3>1, <3>2, <3>3, <3>4
  <2>4. Cell' \in File
    BY <2>1, <2>3, CellStep
  <2> QED BY <1>4, <2>1, <2>2, <2>4 DEF Cache!Next, Cache!Fill
<1>6. CASE RemoveOutput(p)
  <2>1. pc[p] = "remove" /\ pc'[p] = "uri" /\ out' = None
    BY <1>1, <1>6 DEF RemoveOutput, TypeOK
  <2>2. Cell = out /\ Cell' = None /\ Status' = Status /\ Status[p] = "asking"
    BY <1>4, <2>1, CellStep DEF Critical
  <2>3. Cell \in File /\ Checked(p, Cell) = 2
    BY <1>1, <2>1, <2>2 DEF Phase
  <2> QED BY <2>2, <2>3 DEF Cache!Next, Cache!Empty
<1>7. CASE Exit(p)
  <2>1. /\ pc[p] = "exit" /\ out' = out
        /\ pc'[p] = IF rc[p] = 0 THEN "downloaded" ELSE "failed"
    BY <1>1, <1>7 DEF Exit, TypeOK
  <2>2. Cell = out /\ Cell' = Cell /\ Status[p] = "asking"
    BY <1>1, <2>1, CellStep, StatusStep, Statuses DEF Critical
  <2>3. CASE rc[p] = 0
    <3>1. Cell \in File /\ Checked(p, Cell) = 0
      BY <1>1, <2>1, <2>2, <2>3 DEF Phase
    <3>2. Status' = [Status EXCEPT ![p] = "granted"]
      BY <2>1, <2>3, StatusStep, Statuses
    <3> QED BY <2>2, <3>1, <3>2 DEF Cache!Next, Cache!Grant
  <2>4. CASE rc[p] # 0
    <3>1. Status' = [Status EXCEPT ![p] = "refused"]
      BY <2>1, <2>4, StatusStep, Statuses
    <3> QED BY <2>2, <3>1 DEF Cache!Next, Cache!Refuse
  <2> QED BY <2>3, <2>4
<1>8. CASE Kill(p)
  <2>1. pc[p] \in Critical \cup {"flock"} /\ pc'[p] = "failed" /\ out' = out
    BY <1>1, <1>8 DEF Kill, TypeOK, Critical
  <2>2. Status[p] = "asking" /\ Status' = [Status EXCEPT ![p] = "refused"]
    BY <1>1, <2>1, StatusStep, Statuses
  <2>3. Cell' = Cell \/ (Cell = None /\ Cell' = Partial)
    BY <1>1, <2>1, CellStep DEF Phase
  <2> QED BY <2>2, <2>3 DEF Cache!Next, Cache!Refuse
<1>9. CASE Stops(p)
  <2>1. /\ pc[p] \in Critical \ {"copying"} /\ out' = out
        /\ pc' = [pc EXCEPT ![p] = "failed"]
    BY <1>9, Stopped
  <2>2. pc'[p] = "failed"
    BY <1>1, <2>1 DEF TypeOK
  <2>3. Status[p] = "asking" /\ Status' = [Status EXCEPT ![p] = "refused"]
    BY <1>1, <2>1, <2>2, StatusStep, Statuses
  <2>4. Cell' = Cell
    BY <1>1, <2>1, <2>2, CellStep
  <2> QED BY <2>3, <2>4 DEF Cache!Next, Cache!Refuse
<1>10. CASE CopyFails(p) /\ out' = None
  <2>1. pc[p] = "copying" /\ pc'[p] = "exists"
    BY <1>1, <1>10 DEF CopyFails, TypeOK
  <2>2. Cell' = Cell
    BY <1>10, <2>1, CellStep DEF Critical
  <2> QED BY <1>4, <2>1, <2>2 DEF Critical
<1>11. CASE CopyOldFile(p)
  <2>1. pc[p] = "legacy" /\ pc'[p] = "copying" /\ out = None
    BY <1>1, <1>11 DEF CopyOldFile, TypeOK
  <2>2. Cell = None /\ Cell' = None
    BY <2>1, CellStep DEF Critical
  <2>3. Status' = Status
    BY <1>4, <2>1 DEF Critical
  <2> QED BY <2>2, <2>3
<1>12. CASE Lock(p)
  <2>1. pc[p] = "flock" /\ pc'[p] = "legacy"
    BY <1>1, <1>12 DEF Lock, TypeOK
  <2> QED BY <1>4, <2>1, CellStep DEF Critical
<1>13. CASE \/ NothingToLink(p) \/ NoOutput(p) \/ OutputMatches(p) \/ OutputHardError(p)
            \/ OutputMismatches(p) \/ MakeTmpd(p) \/ OutOfUris(p)
            \/ BackendDelivers(p) \/ BackendFails(p) \/ DownloadMatches(p)
            \/ DownloadUnverified(p) \/ DownloadRefused(p) \/ MakeTmpOutput(p)
            \/ Chmod(p) \/ Cat(p) \/ CatFails(p) \/ MoveFails(p)
  <2>1. /\ pc[p] \in Critical \ {"copying"} /\ pc'[p] \in Critical \ {"copying"}
        /\ out' = out
    BY <1>1, <1>13 DEF TypeOK, Critical, NothingToLink, NoOutput, OutputMatches,
       OutputHardError, OutputMismatches, MakeTmpd, OutOfUris,
       BackendDelivers, BackendFails, TryNextUri, DownloadMatches, DownloadUnverified,
       DownloadRefused, MakeTmpOutput, Chmod, Cat, CatFails, MoveFails
  <2>2. Cell' = Cell
    BY <2>1, CellStep
  <2> QED BY <1>4, <2>1, <2>2
<1> QED BY <1>2, <1>3, <1>5, <1>6, <1>7, <1>8, <1>11, <1>12, <1>13, <1>9,
       <1>10 DEF Step, Wrapper, Stops

(* CacheSpec: for every number of builds, whatever is served, fails or is    *)
(* killed, the wrapper under its flock is the shared cell of DownloadCache,  *)
(* which a build empties only when it refutes the file.                      *)
THEOREM ImplementsCache == Spec => CacheSpec
<1>1. IInv /\ TypeOK' /\ [Next]_vars => [Cache!Next]_(Cache!cvars)
  <2> SUFFICES ASSUME IInv, TypeOK', [Next]_vars
               PROVE  Cache!Next \/ UNCHANGED <<Cell, Status>>
    BY DEF Cache!cvars
  <2>1. CASE UNCHANGED vars
    BY <2>1 DEF vars, Cell, Status
  <2>2. ASSUME NEW p \in Proc, Step(p)
        PROVE  Cache!Next \/ UNCHANGED <<Cell, Status>>
    BY <2>2, CacheStep
  <2> QED BY <2>1, <2>2 DEF Next, Step
<1> QED BY <1>1, InitCache, Invariance, TypeCorrect, PTL DEF Spec, CacheSpec, Cache!Spec

(* GrantedStaysGood is inductive in the shared cell, for any files it may    *)
(* hold: to empty or fill the cell a build would have to refute the file, or *)
(* the cell to be empty.                                                     *)
THEOREM GrantStays == CacheSpec => []Cache!GrantedStaysGood
<1> DEFINE Inv == Cache!CacheTypeOK /\ Cache!GrantedStaysGood
<1>1. Cache!Init => Inv
  BY DEF Cache!Init, Cache!CacheTypeOK, Cache!GrantedStaysGood
<1>2. Inv /\ [Cache!Next]_(Cache!cvars) => Inv'
  <2> SUFFICES ASSUME Inv, [Cache!Next]_(Cache!cvars) PROVE Inv'
    OBVIOUS
  <2> USE Constants DEF Cache!CacheTypeOK
  <2>1. CASE UNCHANGED Cache!cvars
    BY <2>1 DEF Cache!cvars, Cache!GrantedStaysGood, Cache!SameHashes
  <2>2. ASSUME NEW p \in Proc,
               Cache!Ask(p) \/ Cache!Fill(p) \/ Cache!Empty(p) \/ Cache!Grant(p) \/ Cache!Refuse(p)
        PROVE  Inv'
    <3>1. Cache!CacheTypeOK'
      BY <2>2 DEF Cache!Ask, Cache!Fill, Cache!Empty, Cache!Grant, Cache!Refuse
    <3>2. ASSUME Cache!SameHashes, NEW q \in Proc, Status'[q] = "granted"
          PROVE  Cell' \in File /\ Checked(q, Cell') = 0
      <4>1. CASE Cache!Ask(p)
        BY <3>2, <4>1 DEF Cache!Ask, Cache!GrantedStaysGood
      <4>2. CASE Cache!Fill(p)
        BY <3>2, <4>2 DEF Cache!Fill, Cache!GrantedStaysGood
      <4>3. CASE Cache!Empty(p)
        BY <3>2, <4>3 DEF Cache!Empty, Cache!GrantedStaysGood, Cache!SameHashes
      <4>4. CASE Cache!Grant(p)
        BY <3>2, <4>4 DEF Cache!Grant, Cache!GrantedStaysGood, Cache!SameHashes
      <4>5. CASE Cache!Refuse(p)
        BY <3>2, <4>5 DEF Cache!Refuse, Cache!GrantedStaysGood
      <4> QED BY <2>2, <4>1, <4>2, <4>3, <4>4, <4>5
    <3> QED BY <3>1, <3>2 DEF Cache!GrantedStaysGood, Cache!SameHashes
  <2> QED BY <2>1, <2>2 DEF Cache!Next
<1>3. Inv => Cache!GrantedStaysGood
  OBVIOUS
<1> QED BY <1>1, <1>2, <1>3, PTL DEF CacheSpec, Cache!Spec
=============================================================================
