------------------------- MODULE ImageRelease_proofs -------------------------
(* Proofs about ImageRelease and its board, for any kernels, keys and        *)
(* bounds.                                                                   *)
EXTENDS ImageRelease, TLAPS

(* What S03 knows while it runs, and where its stash comes from. *)
Restoring ==
    /\ pc \in {"restore", "copy", "copying"} => mnt # "none"
    /\ pc \in {"copy", "copying"} => n \in 1..2
    /\ pc = "copy" => stash[ART_NAMES[n]] # None /\ fat[ART_NAMES[n]] = None
    /\ pc = "copying" => <<"fat", ART_NAMES[n]>> \in dirty
    /\ pc = "off" => \A f \in Artifacts : stash[f] = None
    /\ \A f \in Artifacts : stash[f] # None => root[f] # None \/ fat[f] # None

(* What the script has at hand at each of its commands. *)
Scripting ==
    /\ hpc # "idle" => kernel \in Image /\ mode \in Modes /\ (mode.sign => keys \in Key)
    /\ hpc \notin {"idle", "checksum"} => hcheck \in Image \cup {Torn}
    /\ hpc = "sign" => mode.sign
    /\ hpc = "board sig" => hsig # None

(* The host made every signature there is. *)
Genuine(s) == s \in Signature => <<s.key, s.of>> \in signed

AllGenuine ==
    /\ Genuine(hsig) /\ Genuine(overlay.sig)
    /\ built # None => Genuine(built.root.sig)
    /\ Genuine(root.sig) /\ Genuine(fat.sig) /\ Genuine(stash.sig)

IInv == TypeOK /\ Restoring /\ Scripting /\ AllGenuine

-----------------------------------------------------------------------------
(* What the proofs need of the constants. *)
LEMMA Constants ==
    /\ None # Torn
    /\ Image \subseteq ImageFile \ {None, Torn} /\ Image \subseteq CheckFile
    /\ Key \subseteq KeyFile \ {None}
    /\ {None, Torn} \subseteq ImageFile \cap CheckFile \cap SigFile
    /\ None \in KeyFile
    /\ Signature \subseteq SigFile /\ None \notin Signature /\ Torn \notin Signature
    /\ \A k \in Key, i \in Image \cup {Torn} : Sign(k, i) \in Signature
    /\ EnforceEnv \subseteq {"unset", "0", "1"} /\ MaxFaults \in Nat
    /\ MaxFlashes \in Nat /\ MaxScripts \in Nat /\ MaxDeploys \in Nat
BY ImageAssumption, SignatureAssumption, BootAssumption, ReleaseAssumption
   DEF ImageFile, CheckFile, SigFile, KeyFile, Sign, Signature

(* The two artifacts. *)
LEMMA Names ==
    /\ Len(ART_NAMES) = 2
    /\ \A i \in 1..2 : ART_NAMES[i] \in Artifacts
    /\ Artifacts = {"check", "sig"}
BY DEF ART_NAMES, Artifacts

(* The board's types are inductive. *)
LEMMA BoardTypeStep ==
    ASSUME BoardTypeOK, Restoring, BoardNext
    PROVE  BoardTypeOK'
<1> USE DEF BoardTypeOK
<1>1. CASE PowerOn BY <1>1, Constants DEF PowerOn, card
<1>2. CASE RestartS03 BY <1>2 DEF RestartS03, card
<1>3. CASE StashArtifacts
  <2>1. Boot["check"] \in CheckFile /\ Boot["sig"] \in SigFile
    BY DEF Boot, FatType, RootType
  <2> QED BY <1>3, <2>1, Names DEF StashArtifacts, card
<1>4. CASE Mount
  <2>1. restored' \in BOOLEAN
    BY <1>4, Zenon DEF Mount
  <2> QED BY <1>4, <2>1 DEF Mount, card
<1>5. CASE MountFails
  <2>1. restored' \in BOOLEAN
    BY <1>5, Zenon DEF MountFails, S03Exits
  <2> QED BY <1>5, <2>1 DEF MountFails, S03Exits, card
<1>6. CASE SkipArtifact BY <1>6, Names DEF SkipArtifact, card
<1>7. CASE RemountRw BY <1>7, Constants DEF RemountRw, Fault, card
<1>8. CASE CopyRefused BY <1>8 DEF CopyRefused, Restoring, card
<1>9. CASE CopyBegins
  <2>1. fat' \in FatType
    BY <1>9, Names, Constants DEF CopyBegins, Restoring, FatType
  <2> QED BY <1>9, <2>1, Names DEF CopyBegins, Restoring
<1>10. CASE CopyEnds
  <2>1. n \in 1..2
    BY <1>10 DEF CopyEnds, Restoring
  <2>2. fat' \in FatType
    <3>1. CASE n = 1
      <4>1. ART_NAMES[n] = "check" BY <3>1 DEF ART_NAMES
      <4> QED BY <1>10, <4>1 DEF CopyEnds, FatType
    <3>2. CASE n = 2
      <4>1. ART_NAMES[n] = "sig" BY <3>2 DEF ART_NAMES
      <4> QED BY <1>10, <4>1 DEF CopyEnds, FatType
    <3> QED BY <2>1, <3>1, <3>2
  <2> QED BY <1>10, <2>1, <2>2 DEF CopyEnds
<1>11. CASE CopyFails BY <1>11, Constants DEF CopyFails, Fault, Restoring, card
<1>12. CASE EndRestore
  <2>1. restored' \in BOOLEAN
    BY <1>12, Zenon DEF EndRestore, S03Exits
  <2>2. /\ DOMAIN stash' = Artifacts
        /\ stash'.check \in CheckFile /\ stash'.sig \in SigFile
    BY <1>12, Constants, Names DEF EndRestore, NoStash
  <2>3. dirty' \subseteq {"fat", "root"} \X {"img", "check", "sig"} /\ mnt' \in {"none", "ro", "rw"}
    BY <1>12 DEF EndRestore
  <2>4. faults' \in 0..MaxFaults
    BY <1>12, Constants DEF EndRestore, Fault
  <2>5. UNCHANGED <<fat, root, env>> /\ S03Exits
    BY <1>12 DEF EndRestore
  <2> QED BY <2>1, <2>2, <2>3, <2>4, <2>5 DEF S03Exits
<1>13. CASE S05 BY <1>13 DEF S05, VerifyOk, VerifyWarns, VerifyRejects, card
<1>14. ASSUME MemoryLost
       PROVE  /\ dirty' = {} /\ DOMAIN stash' = Artifacts /\ mnt' = "none" /\ pc' = "off"
              /\ stash'.check \in CheckFile /\ stash'.sig \in SigFile
              /\ caller' = "rcS" /\ env' = "unset" /\ n' = 1 /\ restored' \in BOOLEAN
  <2>1. restored' \in BOOLEAN
    BY <1>14, Zenon DEF MemoryLost
  <2> QED BY <1>14, <2>1, Constants, Names DEF MemoryLost, NoStash
<1>15. CASE Reboot BY <1>14, <1>15 DEF Reboot
<1>16. CASE PowerLoss
  <2>1. fat' \in FatType
    BY <1>16, Constants DEF PowerLoss, Survivors, FatType
  <2>2. root' \in RootType
    BY <1>16, Constants DEF PowerLoss, Survivors, RootType
  <2> QED BY <1>14, <1>16, <2>1, <2>2, Constants DEF PowerLoss, Fault
<1> QED BY <1>1, <1>2, <1>3, <1>4, <1>5, <1>6, <1>7, <1>8, <1>9, <1>10, <1>11, <1>12,
           <1>13, <1>15, <1>16 DEF BoardNext, Boots, S03
-----------------------------------------------------------------------------
(* What S03 knows: only S03 itself changes /boot while it runs, and what it  *)
(* has stashed stays in the root filesystem or on the FAT partition.         *)
LEMMA RestoringBoard ==
    ASSUME BoardTypeOK, Restoring, BoardNext
    PROVE  Restoring'
<1> USE DEF Restoring
<1>1. CASE PowerOn BY <1>1 DEF PowerOn, card
<1>2. CASE RestartS03 BY <1>2 DEF RestartS03, card
<1>3. CASE StashArtifacts
  <2>1. ASSUME NEW f \in Artifacts, stash'[f] # None
        PROVE  root[f] # None \/ fat[f] # None
    BY <1>3, <2>1 DEF StashArtifacts, Boot
  <2> QED BY <1>3, <2>1 DEF StashArtifacts, card
<1>4. CASE Mount BY <1>4 DEF Mount, card
<1>5. CASE MountFails BY <1>5 DEF MountFails, S03Exits, card
<1>6. CASE SkipArtifact BY <1>6 DEF SkipArtifact, card
<1>7. CASE RemountRw
  <2>1. n \in 1..2 /\ Missing(ART_NAMES[n]) /\ mnt # "none" /\ mnt' # "none"
    BY <1>7, Names DEF RemountRw, BoardTypeOK
  <2>2. fat[ART_NAMES[n]] = None /\ stash[ART_NAMES[n]] # None
    BY <2>1 DEF Missing, Boot
  <2> QED BY <1>7, <2>1, <2>2 DEF RemountRw, card
<1>8. CASE CopyRefused BY <1>8 DEF CopyRefused, card
<1>9. CASE CopyBegins
  <2>1. n \in 1..2 /\ ART_NAMES[n] \in Artifacts
    BY <1>9, Names DEF CopyBegins
  <2>2. ASSUME NEW f \in Artifacts, fat[f] # None
        PROVE  fat'[f] # None
    BY <1>9, <2>1, <2>2, Constants, Names DEF CopyBegins, BoardTypeOK, FatType
  <2> QED BY <1>9, <2>1, <2>2 DEF CopyBegins
<1>10. CASE CopyEnds
  <2>1. n \in 1..2 /\ ART_NAMES[n] \in Artifacts
    BY <1>10, Names DEF CopyEnds
  <2>2. ASSUME NEW f \in Artifacts, stash[f] # None
        PROVE  root[f] # None \/ fat'[f] # None
    BY <1>10, <2>1, <2>2, Names DEF CopyEnds, BoardTypeOK, FatType
  <2> QED BY <1>10, <2>1, <2>2 DEF CopyEnds
<1>11. CASE CopyFails BY <1>11 DEF CopyFails, card
<1>12. CASE EndRestore BY <1>12 DEF EndRestore, S03Exits, NoStash
<1>13. CASE S05 BY <1>13 DEF S05, VerifyOk, VerifyWarns, VerifyRejects, card
<1>14. CASE Reboot BY <1>14 DEF Reboot, MemoryLost, NoStash
<1>15. CASE PowerLoss BY <1>15 DEF PowerLoss, MemoryLost, NoStash
<1> QED BY <1>1, <1>2, <1>3, <1>4, <1>5, <1>6, <1>7, <1>8, <1>9, <1>10, <1>11, <1>12,
           <1>13, <1>14, <1>15 DEF BoardNext, Boots, S03

(* The steps that leave the board alone.                                     *)
HostOnly ==
    \/ Make \/ LoseKeys \/ StartScript \/ WriteChecksum \/ ChecksumFails \/ SignChecksum
    \/ CopyCheck \/ CopySig \/ CopyKey \/ StopScript

OverScp == ScpImage \/ ScpCheck \/ ScpSig

(* The host's types and what its script has at hand are inductive.           *)
LEMMA HostStep ==
    ASSUME IInv, HostOnly
    PROVE  TypeOK' /\ Scripting' /\ Restoring' /\ board' = board
<1> USE DEF TypeOK, Scripting, IInv
<1>1. board' = board
  BY DEF HostOnly, Make, LoseKeys, StartScript, WriteChecksum, ChecksumFails, SignChecksum, CopyCheck,
         CopySig, CopyKey, StopScript
<1>2. BoardTypeOK' /\ Restoring'
  BY <1>1 DEF board, BoardTypeOK, Restoring
<1>3. ASSUME NEW to, NextCommand(to)
      PROVE  mode' = IF to = "idle" THEN NoMode ELSE mode
  BY <1>3 DEF NextCommand
<1>4. CASE Make
  <2>1. kernel' \in Image /\ built'.img \in Image /\ built'.root \in RootType
    BY <1>4, Constants DEF Make, RootType
  <2> QED BY <1>2, <1>4, <2>1 DEF Make
<1>5. CASE LoseKeys BY <1>1, <1>2, <1>5, Constants DEF LoseKeys
<1>6. CASE StartScript
  <2>1. keys' \in KeyFile /\ (mode'.sign => keys' \in Key)
    BY <1>6, Constants DEF StartScript, NewKeys, KeyFile
  <2>2. mode' \in Modes /\ hpc' = "checksum" /\ kernel' \in Image
    BY <1>6, Constants DEF StartScript
  <2>3. scripts' \in 0..MaxScripts /\ deploys' \in 0..MaxDeploys
    BY <1>6, Constants DEF StartScript
  <2>4. book' \in {"none", "signing"}
    BY <1>6 DEF StartScript
  <2>5. byTheBook' \in BOOLEAN
    BY <1>6, Zenon DEF StartScript
  <2>6. UNCHANGED <<kernel, built, overlay, hcheck, hsig, signed, flashes>>
    BY <1>6 DEF StartScript
  <2>7. TypeOK'
    BY <1>2, <2>1, <2>2, <2>3, <2>4, <2>5, <2>6
  <2>8. Scripting'
    BY <2>1, <2>2
  <2> HIDE DEF TypeOK, Scripting
  <2> QED BY <1>2, <2>7, <2>8, <1>1
<1>7. CASE WriteChecksum BY <1>1, <1>2, <1>7, Constants DEF WriteChecksum, Modes
<1>8. CASE ChecksumFails BY <1>1, <1>2, <1>8, Constants DEF ChecksumFails, Modes
<1>9. CASE SignChecksum
  <2>1. keys \in Key /\ hcheck \in Image \cup {Torn} /\ mode \in Modes /\ mode.sign
    BY <1>9 DEF SignChecksum
  <2>2. hsig' \in SigFile /\ signed' \subseteq Key \X (Image \cup {Torn})
    BY <1>9, <2>1, Constants DEF SignChecksum
  <2>3. hpc' \in {"overlay", "board"}
    BY <1>9, <2>1 DEF SignChecksum, Modes
  <2>4. byTheBook' \in BOOLEAN
    BY <1>9, Zenon DEF SignChecksum
  <2>5. UNCHANGED <<kernel, built, overlay, keys, hcheck, mode, book, flashes, scripts, deploys>>
    BY <1>9 DEF SignChecksum
  <2>6. /\ kernel' \in Image \cup {None} /\ keys' \in KeyFile /\ hcheck' \in CheckFile
        /\ built' = None \/ (built'.img \in Image /\ built'.root \in RootType)
        /\ overlay' \in [check : CheckFile, sig : SigFile, pub : KeyFile]
        /\ mode' \in Modes \cup {NoMode}
        /\ book' \in {"none", "built", "signing", "signed", "release"}
        /\ flashes' \in 0..MaxFlashes /\ scripts' \in 0..MaxScripts
        /\ deploys' \in 0..MaxDeploys
    BY <2>5
  <2>7. TypeOK'
    BY <1>2, <2>2, <2>3, <2>4, <2>6, Zenon
  <2>8. kernel' \in Image /\ mode' \in Modes /\ keys' \in Key /\ hcheck' \in Image \cup {Torn}
    BY <2>1, <2>5, <1>9 DEF SignChecksum
  <2>9. Scripting'
    BY <2>3, <2>8
  <2> HIDE DEF TypeOK, Scripting
  <2> QED BY <1>1, <1>2, <2>7, <2>9
<1>10. CASE CopyCheck BY <1>1, <1>2, <1>10, Constants DEF CopyCheck, IntoOverlay
<1>11. CASE CopySig BY <1>1, <1>2, <1>11, Constants DEF CopySig, IntoOverlay, NextCommand
<1>12. CASE CopyKey BY <1>1, <1>2, <1>12, Constants DEF CopyKey, NextCommand
<1>13. CASE StopScript BY <1>1, <1>2, <1>13, Constants DEF StopScript, NextCommand
<1> QED BY <1>1, <1>2, <1>4, <1>5, <1>6, <1>7, <1>9, <1>10, <1>11, <1>12, <1>13, <1>8
        DEF HostOnly

(* What scp leaves in the running board's /boot is a file, or a torn one.    *)
LEMMA ScpStep ==
    ASSUME IInv, NEW f \in {"img", "check", "sig"}, NEW file, NEW next,
           Scp(f, file, next), hpc \notin {"idle", "checksum"},
           f = "img" => file \in Image,
           f = "check" => file \in Image \cup {Torn},
           f = "sig" => file \in SigFile \ {None},
           next \in {"idle", "board check"} \/ (next = "board sig" /\ hsig # None)
    PROVE  TypeOK' /\ Scripting' /\ Restoring'
<1> USE DEF TypeOK, Scripting, IInv
<1>1. PICK content \in {file, Torn} :
         /\ IF mnt = "rw"
            THEN /\ fat' = [fat EXCEPT ![f] = content]
                 /\ dirty' = dirty \cup {<<"fat", f>>}
                 /\ UNCHANGED root
            ELSE /\ root' = [root EXCEPT ![f] = content]
                 /\ dirty' = dirty \cup {<<"root", f>>}
                 /\ UNCHANGED fat
         /\ NextCommand(IF content = file THEN next ELSE "idle")
  BY DEF Scp
<1>2. /\ byTheBook' = FALSE
      /\ UNCHANGED <<stash, mnt, pc, caller, env, n, restored, faults, kernel, built, overlay,
                     keys, hcheck, hsig, signed, book, flashes, scripts, deploys>>
      /\ pc = "up"
  BY DEF Scp
<1>3. /\ f = "img" => content \in ImageFile
      /\ f = "check" => content \in CheckFile
      /\ f = "sig" => content \in SigFile
      /\ content # None
  BY Constants
<1>4. fat' \in FatType /\ dirty' \subseteq {"fat", "root"} \X {"img", "check", "sig"} /\ root' \in RootType
  <2>1. dirty' \subseteq dirty \cup {<<"fat", f>>, <<"root", f>>}
    BY <1>1
  <2>2. /\ <<"fat", f>> \in {"fat", "root"} \X {"img", "check", "sig"}
        /\ <<"root", f>> \in {"fat", "root"} \X {"img", "check", "sig"}
    OBVIOUS
  <2>3. dirty' \subseteq {"fat", "root"} \X {"img", "check", "sig"}
    BY <2>1, <2>2 DEF BoardTypeOK
  <2>4. CASE mnt = "rw" BY <1>1, <1>3, <2>3, <2>4 DEF BoardTypeOK, FatType
  <2>5. CASE mnt # "rw" BY <1>1, <1>3, <2>3, <2>5 DEF BoardTypeOK, RootType
  <2> QED BY <2>4, <2>5
<1>5. BoardTypeOK'
  BY <1>2, <1>4 DEF BoardTypeOK
<1>6. ASSUME NEW g \in Artifacts, stash'[g] # None
      PROVE  root'[g] # None \/ fat'[g] # None
  <2>1. root[g] # None \/ fat[g] # None
    BY <1>2, <1>6 DEF Restoring
  <2>2. CASE mnt = "rw"
    <3>1. fat' = [fat EXCEPT ![f] = content] /\ root' = root
      BY <1>1, <2>2
    <3>2. fat'[g] = IF f = g THEN content ELSE fat[g]
      BY <3>1, Names DEF BoardTypeOK, FatType
    <3> QED BY <1>3, <2>1, <3>1, <3>2
  <2>3. CASE mnt # "rw"
    <3>1. root' = [root EXCEPT ![f] = content] /\ fat' = fat
      BY <1>1, <2>3
    <3>2. root'[g] = IF f = g THEN content ELSE root[g]
      BY <3>1, Names DEF BoardTypeOK, RootType
    <3> QED BY <1>3, <2>1, <3>1, <3>2
  <2> QED BY <2>2, <2>3
<1>7. Restoring'
  BY <1>2, <1>6 DEF Restoring
<1>8. /\ hpc' \in {"idle", "board check", "board sig"}
      /\ mode' = IF hpc' = "idle" THEN NoMode ELSE mode
      /\ hpc' = "board sig" => hsig # None
  BY <1>1 DEF NextCommand
<1> QED BY <1>2, <1>5, <1>7, <1>8

(* A step of the board, or none, leaves the host as it is.                   *)
LEMMA HostSame ==
    ASSUME IInv, UNCHANGED host, BoardTypeOK', Restoring'
    PROVE  TypeOK' /\ Scripting' /\ Restoring'
<1>1. byTheBook' = byTheBook
  BY Zenon DEF host
<1>2. byTheBook' \in BOOLEAN
  BY <1>1, Zenon DEF IInv, TypeOK
<1>3. UNCHANGED <<kernel, built, overlay, keys, hcheck, hsig, hpc, mode, signed, book,
                  flashes, scripts, deploys>>
  BY DEF host
<1>4. TypeOK'
  BY <1>2, <1>3 DEF IInv, TypeOK
<1>5. Scripting'
  BY <1>3, Zenon DEF IInv, Scripting
<1> QED BY <1>4, <1>5

(* The whole of TypeOK, Scripting and Restoring is inductive.                *)
LEMMA TypeStep ==
    ASSUME IInv, [Next]_vars
    PROVE  TypeOK' /\ Scripting' /\ Restoring'
<1> USE DEF TypeOK, Scripting, IInv
<1>1. CASE HostOnly BY <1>1, HostStep
<1>2. CASE ScpImage
  <2>1. Scp("img", kernel, "board check") /\ hpc = "board" /\ kernel \in Image
    BY <1>2 DEF ScpImage
  <2> QED BY <2>1, ScpStep
<1>3. CASE ScpCheck
  <2>1. /\ Scp("check", hcheck, IF hsig = None THEN "idle" ELSE "board sig")
        /\ hpc = "board check" /\ hcheck \in Image \cup {Torn}
    BY <1>3 DEF ScpCheck
  <2> QED BY <2>1, ScpStep
<1>4. CASE ScpSig
  <2>1. Scp("sig", hsig, "idle") /\ hpc = "board sig" /\ hsig \in SigFile \ {None}
    BY <1>4 DEF ScpSig
  <2> QED BY <2>1, ScpStep
<1>5. CASE Flash
  <2>1. built.img \in Image /\ built.root \in RootType
    BY <1>5, Constants DEF Flash
  <2>2. fat' \in FatType
    BY <1>5, <2>1, Constants DEF Flash, NoFiles, FatType
  <2>3. flashes' \in 0..MaxFlashes /\ byTheBook' \in BOOLEAN
    <3>1. byTheBook' \in BOOLEAN BY <1>5, Zenon DEF Flash
    <3>2. flashes' \in 0..MaxFlashes BY <1>5, Constants DEF Flash
    <3> QED BY <3>1, <3>2
  <2>4. /\ root' = built.root /\ dirty' = {} /\ pc = "off"
        /\ UNCHANGED <<stash, mnt, pc, caller, env, n, restored, faults, kernel, built,
                       overlay, keys, hcheck, hsig, hpc, mode, signed, book, scripts, deploys>>
    BY <1>5 DEF Flash
  <2>5. BoardTypeOK'
    BY <2>1, <2>2, <2>4 DEF BoardTypeOK
  <2>6. Restoring'
    BY <2>4 DEF Restoring
  <2>7. TypeOK'
    BY <2>3, <2>4, <2>5
  <2>8. Scripting'
    BY <2>4
  <2> HIDE DEF TypeOK, Scripting, IInv
  <2> QED BY <2>6, <2>7, <2>8
<1>6. CASE AdminRemountRw
  <2>1. UNCHANGED <<card, stash, pc, caller, env, n, restored, faults, host>> /\ mnt' = "rw"
    BY <1>6 DEF AdminRemountRw
  <2>2. BoardTypeOK' /\ Restoring'
    BY <1>6, <2>1 DEF AdminRemountRw, card, BoardTypeOK, Restoring
  <2> QED BY <2>1, <2>2, HostSame
<1>7. CASE BoardNext /\ UNCHANGED host
  <2>1. BoardTypeOK' /\ Restoring'
    BY <1>7, BoardTypeStep, RestoringBoard
  <2> QED BY <1>7, <2>1, HostSame
<1>8. CASE UNCHANGED vars
  <2>1. BoardTypeOK' /\ Restoring'
    BY <1>8 DEF vars, board, BoardTypeOK, Restoring
  <2> QED BY <1>8, <2>1, HostSame DEF vars
<1> QED BY <1>1, <1>2, <1>3, <1>4, <1>5, <1>6, <1>7, <1>8 DEF Next, HostNext, Script, HostOnly

-----------------------------------------------------------------------------
(* Nothing but the host's SignChecksum makes a signature: every other file   *)
(* that holds one is a copy of it.                                           *)
LEMMA GenuineBoard ==
    ASSUME IInv, BoardNext, UNCHANGED host
    PROVE  AllGenuine'
<1>1. UNCHANGED <<hsig, overlay, built, signed>>
  BY DEF host
<1>2. Genuine(None) /\ Genuine(Torn)
  BY Constants DEF Genuine
<1>3. root'.sig \in {root.sig, Torn, None}
  <2>1. CASE PowerLoss
    BY <2>1 DEF PowerLoss, Survivors, IInv, TypeOK, BoardTypeOK, RootType
  <2>2. CASE ~PowerLoss
    <3>1. root' = root
      BY <2>2 DEF BoardNext, Boots, S03, S05, PowerOn, RestartS03, StashArtifacts, Mount,
             MountFails, SkipArtifact, RemountRw, CopyRefused, CopyBegins, CopyEnds, CopyFails,
             EndRestore, VerifyOk, VerifyWarns, VerifyRejects, Reboot, card
    <3> QED BY <3>1
  <2> QED BY <2>1, <2>2
<1>4. fat'.sig \in {fat.sig, stash.sig, Torn, None}
  <2> USE DEF IInv, TypeOK, BoardTypeOK, FatType
  <2>1. CASE CopyBegins
    <3>1. n \in 1..2
      BY <2>1 DEF CopyBegins, Restoring
    <3> QED BY <2>1, <3>1, Names DEF CopyBegins
  <2>2. CASE CopyEnds
    <3>1. n = 1 \/ n = 2
      <4>1. n \in 1..2
        BY <2>2 DEF CopyEnds, Restoring
      <4> HIDE DEF IInv
      <4> QED BY <4>1
    <3>2. CASE n = 1
      <4>1. ART_NAMES[n] = "check" BY <3>2 DEF ART_NAMES
      <4> QED BY <2>2, <4>1 DEF CopyEnds
    <3>3. CASE n = 2
      <4>1. ART_NAMES[n] = "sig" BY <3>3 DEF ART_NAMES
      <4> QED BY <2>2, <4>1 DEF CopyEnds
    <3> QED BY <3>1, <3>2, <3>3
  <2>3. CASE PowerLoss BY <2>3 DEF PowerLoss, Survivors
  <2>4. CASE ~(CopyBegins \/ CopyEnds \/ PowerLoss)
    <3>1. fat' = fat
      BY <2>4 DEF BoardNext, Boots, S03, S05, PowerOn, RestartS03, StashArtifacts, Mount,
             MountFails, SkipArtifact, RemountRw, CopyRefused, CopyFails, EndRestore,
             VerifyOk, VerifyWarns, VerifyRejects, Reboot, card
    <3> QED BY <3>1
  <2> QED BY <2>1, <2>2, <2>3, <2>4
<1>5. stash'.sig \in {stash.sig, root.sig, fat.sig, None}
  BY Names DEF BoardNext, Boots, S03, S05, PowerOn, RestartS03, StashArtifacts, Mount,
         MountFails, SkipArtifact, RemountRw, CopyRefused, CopyBegins, CopyEnds, CopyFails,
         EndRestore, VerifyOk, VerifyWarns, VerifyRejects, Reboot, PowerLoss, MemoryLost,
         NoStash, Boot
<1>6. /\ Genuine(root.sig) /\ Genuine(fat.sig) /\ Genuine(stash.sig)
      /\ Genuine(hsig) /\ Genuine(overlay.sig) /\ (built # None => Genuine(built.root.sig))
  BY Zenon DEF IInv, AllGenuine
<1>7. Genuine(root.sig)'
  BY <1>1, <1>2, <1>3, <1>6 DEF Genuine
<1>8. Genuine(fat.sig)'
  BY <1>1, <1>2, <1>4, <1>6 DEF Genuine
<1>9. Genuine(stash.sig)'
  BY <1>1, <1>2, <1>5, <1>6 DEF Genuine
<1>10. Genuine(hsig)' /\ Genuine(overlay.sig)' /\ (built # None => Genuine(built.root.sig))'
  BY <1>1, <1>6 DEF Genuine
<1> QED BY <1>7, <1>8, <1>9, <1>10 DEF AllGenuine

LEMMA GenuineHost ==
    ASSUME IInv, HostNext \/ AdminRemountRw
    PROVE  AllGenuine'
<1>1. Genuine(None) /\ Genuine(Torn)
  BY Constants DEF Genuine
<1>2. UNCHANGED stash
  BY DEF HostNext, Script, Make, LoseKeys, StartScript, WriteChecksum, ChecksumFails, SignChecksum, CopyCheck,
         CopySig, CopyKey, StopScript, ScpImage, ScpCheck, ScpSig, Scp, AdminRemountRw, Flash,
         board
<1>3. CASE Make
  <2>1. built'.root.sig = overlay.sig /\ UNCHANGED <<hsig, overlay, root, fat, signed>>
    BY <1>3 DEF Make, board
  <2> QED BY <1>2, <2>1 DEF IInv, AllGenuine, Genuine
<1>4. CASE SignChecksum
  <2>1. keys \in Key /\ hcheck \in Image \cup {Torn}
    BY <1>4 DEF SignChecksum, IInv, Scripting
  <2>2. hsig' = Sign(keys, hcheck) /\ signed' = signed \cup {<<keys, hcheck>>}
    BY <1>4 DEF SignChecksum
  <2>3. <<hsig'.key, hsig'.of>> \in signed'
    BY <2>2 DEF Sign
  <2>4. UNCHANGED <<overlay, built, root, fat>>
    BY <1>4 DEF SignChecksum, board
  <2> QED BY <1>2, <2>2, <2>3, <2>4 DEF IInv, AllGenuine, Genuine
<1>5. CASE CopyCheck \/ CopySig \/ CopyKey
  <2>1. overlay'.sig \in {overlay.sig, hsig}
    BY <1>5 DEF CopyCheck, CopySig, CopyKey, IntoOverlay, IInv, TypeOK
  <2>2. UNCHANGED <<hsig, built, root, fat, signed>>
    BY <1>5 DEF CopyCheck, CopySig, CopyKey, board
  <2> QED BY <1>2, <2>1, <2>2, Zenon DEF IInv, AllGenuine, Genuine
<1>6. CASE ScpImage \/ ScpCheck \/ ScpSig
  <2>1. UNCHANGED <<hsig, overlay, built, signed>>
    BY <1>6 DEF ScpImage, ScpCheck, ScpSig, Scp
  <2>2. fat'.sig \in {fat.sig, hsig, Torn} /\ root'.sig \in {root.sig, hsig, Torn}
    BY <1>6 DEF ScpImage, ScpCheck, ScpSig, Scp, IInv, TypeOK, BoardTypeOK, FatType, RootType
  <2> QED BY <1>1, <1>2, <2>1, <2>2, Zenon DEF IInv, AllGenuine, Genuine
<1>7. CASE Flash
  <2>1. UNCHANGED <<hsig, overlay, built, signed>> /\ built # None
    BY <1>7 DEF Flash
  <2>2. fat'.sig = None /\ root'.sig = built.root.sig
    BY <1>7 DEF Flash, NoFiles
  <2> QED BY <1>1, <1>2, <2>1, <2>2, Zenon DEF IInv, AllGenuine, Genuine
<1>8. CASE LoseKeys \/ StartScript \/ WriteChecksum \/ ChecksumFails \/ StopScript
           \/ AdminRemountRw
  <2>1. UNCHANGED <<hsig, overlay, built, signed, root, fat>>
    BY <1>8 DEF LoseKeys, StartScript, WriteChecksum, ChecksumFails, StopScript, AdminRemountRw, board, host,
               card
  <2> QED BY <1>2, <2>1, Zenon DEF IInv, AllGenuine, Genuine
<1> QED BY <1>3, <1>4, <1>5, <1>6, <1>7, <1>8 DEF HostNext, Script

-----------------------------------------------------------------------------
LEMMA InitIInv == Init => IInv
<1> SUFFICES ASSUME Init PROVE IInv
  OBVIOUS
<1> USE DEF Init, BoardInit
<1>1. /\ fat \in FatType /\ root \in RootType /\ stash.check \in CheckFile
      /\ stash.sig \in SigFile /\ DOMAIN stash = Artifacts
  BY Constants, Names DEF FatType, RootType, NoFiles, NoStash
<1>2. BoardTypeOK
  <2>1. restored \in BOOLEAN BY Zenon
  <2>2. faults \in 0..MaxFaults /\ n \in 1..3 BY Constants
  <2> QED BY <1>1, <2>1, <2>2 DEF BoardTypeOK
<1>3. TypeOK
  <2>1. byTheBook \in BOOLEAN BY Zenon
  <2>2. flashes \in 0..MaxFlashes /\ scripts \in 0..MaxScripts /\ deploys \in 0..MaxDeploys
    BY Constants
  <2> QED BY <1>2, <2>1, <2>2, Constants DEF TypeOK
<1>4. Restoring BY DEF Restoring, NoStash
<1>5. Scripting BY DEF Scripting
<1>6. AllGenuine BY Constants DEF AllGenuine, Genuine, NoFiles, NoStash, Artifacts
<1> QED BY <1>3, <1>4, <1>5, <1>6 DEF IInv

LEMMA NextIInv == IInv /\ [Next]_vars => IInv'
<1> SUFFICES ASSUME IInv, [Next]_vars PROVE IInv'
  OBVIOUS
<1>1. TypeOK' /\ Scripting' /\ Restoring'
  BY TypeStep
<1>2. AllGenuine'
  <2>1. CASE UNCHANGED vars
    BY <2>1 DEF vars, board, host, IInv, AllGenuine, Genuine
  <2> QED BY <2>1, GenuineBoard, GenuineHost DEF Next
<1> QED BY <1>1, <1>2 DEF IInv

(* TypeOK holds in every state: the script is always at one of its commands, *)
(* S03 at one of its artifacts, and every file holds what its kind may hold. *)
THEOREM ReleaseTypes == Spec => []TypeOK
<1>1. IInv => TypeOK
  BY DEF IInv
<1> QED BY <1>1, InitIInv, NextIInv, PTL DEF Spec

(* AuthenticBoot, of S05 and verify_boot_image.sh: whatever mixture of old,  *)
(* new and torn files the card holds, an enforcing boot that finds a key and *)
(* a signature goes on only with a kernel the host signed with that key.     *)
THEOREM BootsAreAuthentic == Spec => AuthenticBoot
<1>1. ASSUME IInv, [Next]_vars, pc = "verify", pc' = "up", Enforcing,
             Boot.img # None, Boot.sig # None, root.pub # None,
             Boot.img \in Oversized => env = "1"
      PROVE  <<root.pub, Boot.img>> \in signed
  <2>1. Verdict = 0
    BY <1>1, Zenon DEF Next, HostNext, Script, Make, LoseKeys, StartScript, WriteChecksum, ChecksumFails,
           SignChecksum, CopyCheck, CopySig, CopyKey, StopScript, ScpImage, ScpCheck, ScpSig,
           Scp, AdminRemountRw, Flash, BoardAtRest, BoardNext, Boots, S03, S05, PowerOn,
           RestartS03, StashArtifacts, Mount, MountFails, SkipArtifact, RemountRw, CopyRefused,
           CopyBegins, CopyEnds, CopyFails, EndRestore, S03Exits, VerifyOk, VerifyWarns,
           VerifyRejects, Reboot, PowerLoss, MemoryLost, vars, board
  <2>2. Boot.sig = Sign(root.pub, Boot.check) /\ Boot.img = Boot.check
    BY <1>1, <2>1 DEF Verdict, VerifyRc
  <2>3. Boot.check \in Image /\ root.pub \in Key
    <3>1. Boot.check \in CheckFile /\ root.pub \in KeyFile
      BY <1>1 DEF Boot, IInv, TypeOK, BoardTypeOK, FatType, RootType
    <3>2. Boot.check # None /\ Boot.check # Torn
      BY <1>1, <2>1 DEF Verdict, VerifyRc
    <3> QED BY <1>1, <3>1, <3>2 DEF CheckFile, KeyFile
  <2>4. Boot.sig \in Signature /\ Boot.sig.key = root.pub /\ Boot.sig.of = Boot.img
    BY <2>2, <2>3, Constants DEF Sign
  <2>5. Genuine(Boot.sig)
    BY <1>1 DEF IInv, AllGenuine, Boot
  <2> QED BY <2>4, <2>5 DEF Genuine
<1>2. IInv /\ [Next]_vars =>
        [(/\ pc = "verify" /\ pc' = "up" /\ Enforcing
          /\ Boot.img # None /\ Boot.sig # None /\ root.pub # None
          /\ (Boot.img \in Oversized => env = "1"))
         => <<root.pub, Boot.img>> \in signed]_vars
  BY <1>1, Zenon
<1> QED BY <1>2, InitIInv, NextIInv, PTL DEF Spec, AuthenticBoot

(* SealedStays, of S03: power losses, failing writes, reboots and restarts   *)
(* never spoil a card that is synced, complete and verifies, because S03     *)
(* writes only what is missing and has synced what it wrote.                 *)
THEOREM SealedCardsStay == Spec => SealedStays
<1>1. ASSUME IInv, [Next]_vars, Sealed, UNCHANGED host
      PROVE  fat' = fat /\ root' = root /\ dirty' = {}
  <2>1. pc \notin {"copy", "copying"}
    BY <1>1, Names DEF IInv, Restoring, Sealed
  <2>2. dirty = {} /\ fat \in FatType
    BY <1>1 DEF Sealed, IInv, TypeOK, BoardTypeOK
  <2>3. CASE ScpImage \/ ScpCheck \/ ScpSig
    <3>1. hpc' # hpc
      BY <2>3 DEF ScpImage, ScpCheck, ScpSig, Scp, NextCommand
    <3> QED BY <1>1, <3>1 DEF host
  <2>4. CASE Flash
    <3>1. flashes' # flashes
      BY <1>1, <2>4, Constants DEF Flash, IInv, TypeOK
    <3> QED BY <1>1, <3>1 DEF host
  <2>5. CASE HostOnly
    BY <2>2, <2>5 DEF HostOnly, Make, LoseKeys, StartScript, WriteChecksum, ChecksumFails, SignChecksum,
           CopyCheck, CopySig, CopyKey, StopScript, board
  <2>6. CASE AdminRemountRw
    BY <2>2, <2>6 DEF AdminRemountRw, card
  <2>7. CASE PowerLoss
    <3>1. fat' = [f \in DOMAIN fat |-> fat[f]] /\ root' = [f \in DOMAIN root |-> root[f]]
      BY <2>2, <2>7 DEF PowerLoss, Survivors
    <3>2. root \in RootType
      BY <1>1 DEF IInv, TypeOK, BoardTypeOK
    <3> QED BY <2>2, <2>7, <3>1, <3>2 DEF PowerLoss, MemoryLost, FatType, RootType
  <2>8. CASE BoardNext /\ ~PowerLoss
    BY <2>1, <2>2, <2>8 DEF BoardNext, Boots, S03, S05, PowerOn, RestartS03, StashArtifacts,
           Mount, MountFails, SkipArtifact, RemountRw, CopyRefused, CopyBegins, CopyEnds,
           CopyFails, EndRestore, VerifyOk, VerifyWarns, VerifyRejects, Reboot, MemoryLost, card
  <2>9. CASE UNCHANGED vars
    BY <2>2, <2>9 DEF vars, board
  <2> QED BY <1>1, <2>3, <2>4, <2>5, <2>6, <2>7, <2>8, <2>9 DEF Next, HostNext, Script, HostOnly
<1>2. IInv /\ [Next]_vars => [Sealed /\ UNCHANGED host => Sealed']_vars
  <2> SUFFICES ASSUME IInv, [Next]_vars, Sealed, UNCHANGED host
               PROVE  Sealed'
    OBVIOUS
  <2> QED BY <1>1 DEF Sealed
<1> QED BY <1>2, InitIInv, NextIInv, PTL DEF Spec, SealedStays

-----------------------------------------------------------------------------
(* The checksum, the signature and the key of a root filesystem go together. *)
Vouches(r) == r.check \in Image /\ r.pub \in Key /\ r.sig = Sign(r.pub, r.check)

(* What the script has put beside the image and into the overlay at each of  *)
(* its commands: make does not run meanwhile, so it is all of one kernel,    *)
(* unless sha256sum failed.                                                  *)
Paperwork ==
    /\ hpc \in {"sign", "overlay", "overlay sig", "overlay key"} /\ book = "signing" =>
          hcheck = kernel
    /\ hpc \in {"overlay", "overlay sig", "overlay key"} =>
          (mode.sign => hsig = Sign(keys, hcheck))
    /\ hpc \in {"overlay sig", "overlay key"} => overlay.check = hcheck
    /\ hpc = "overlay key" => mode.sign /\ overlay.sig = hsig

(* How far the documented procedure has been followed, in files.             *)
ByBook ==
    /\ book = "signed" => hpc = "idle" /\ Vouches(overlay) /\ overlay.check = kernel
    /\ book = "release" =>
          built.root.img = None /\ Vouches(built.root) /\ built.root.check = built.img

(* S03 has copied the artifacts before the one it is at.                     *)
RestoredSoFar == \A i \in 1..2 : i < n => fat[ART_NAMES[i]] = root[ART_NAMES[i]]

(* A card made by the documented procedure, as long as nothing failed: what  *)
(* the FAT partition has of the artifacts is what the root filesystem has,   *)
(* and all of it once it has been mounted.                                   *)
Made ==
    /\ root.img = None /\ Vouches(root) /\ root.check = fat.img
    /\ \A f \in Artifacts : \/ fat[f] = None
                            \/ fat[f] = root[f]
                            \/ pc = "copying" /\ f = ART_NAMES[n]
    /\ (pc = "mount" /\ mnt = "none") => \A f \in Artifacts : stash[f] = root[f]
    /\ pc \in {"restore", "copy", "copying"} =>
          RestoredSoFar /\ \A f \in Artifacts : stash[f] = root[f]
    /\ pc \in {"copy", "copying"} => mnt = "rw"
    /\ (pc \in {"stash", "mount", "verify", "up"} /\ mnt # "none") =>
          \A f \in Artifacts : fat[f] = root[f]
    /\ pc # "rebooting"

OffUnmounted == pc = "off" => mnt = "none"

BInv ==
    /\ IInv /\ Paperwork /\ ByBook /\ OffUnmounted
    /\ (byTheBook /\ faults = 0) => Made

(* A vouched-for record of files: its signature is a file that is there.     *)
LEMMA VouchedSig ==
    ASSUME NEW r, Vouches(r)
    PROVE  r.check \notin {None, Torn} /\ r.sig \notin {None, Torn} /\ r.pub # None
BY Constants DEF Vouches

(* The script's own steps keep what it knows of its files.                   *)
LEMMA PaperworkStep ==
    ASSUME SignedImage = "zImage", BInv, [Next]_vars
    PROVE  Paperwork'
<1> USE DEF Paperwork, BInv
<1>1. CASE Make \/ LoseKeys \/ Flash BY <1>1 DEF Make, LoseKeys, Flash
<1>2. CASE StartScript BY <1>2 DEF StartScript
<1>3. CASE WriteChecksum
  <2>1. hpc' \in {"sign", "overlay", "board"} /\ hcheck' = kernel'
    BY <1>3 DEF WriteChecksum, IInv, Scripting, Modes
  <2>2. hpc' = "overlay" => ~mode'.sign
    BY <1>3 DEF WriteChecksum
  <2> QED BY <2>1, <2>2
<1>4. CASE ChecksumFails
  <2>1. hpc' \in {"sign", "overlay", "board"} /\ book' = "none"
    BY <1>4 DEF ChecksumFails, IInv, Scripting, Modes
  <2>2. hpc' = "overlay" => ~mode'.sign
    BY <1>4 DEF ChecksumFails
  <2> QED BY <2>1, <2>2
<1>5. CASE SignChecksum
  <2>1. mode \in Modes
    BY <1>5 DEF SignChecksum, IInv, Scripting
  <2>2. hpc' \in {"overlay", "board"}
    BY <1>5, <2>1 DEF SignChecksum, Modes
  <2> QED BY <1>5, <2>2 DEF SignChecksum
<1>6. CASE CopyCheck
  <2>1. overlay'.check = hcheck'
    BY <1>6 DEF CopyCheck, IntoOverlay, IInv, TypeOK
  <2> QED BY <1>6, <2>1 DEF CopyCheck
<1>7. CASE CopySig
  <2>1. hpc' \in {"overlay key", "idle"} /\ UNCHANGED <<kernel, keys, hcheck, hsig>>
    BY <1>7 DEF CopySig, NextCommand
  <2>2. hpc' = "overlay key" => mode.sign /\ mode' = mode
    BY <1>7 DEF CopySig, NextCommand
  <2>3. ASSUME mode.sign
        PROVE  overlay'.sig = hsig
    <3>1. keys \in Key /\ hcheck \in Image \cup {Torn}
      BY <1>7, <2>3 DEF CopySig, IInv, Scripting
    <3>2. hsig # None
      BY <1>7, <2>3, <3>1, Constants DEF CopySig
    <3> QED BY <1>7, <3>2 DEF CopySig, IntoOverlay, IInv, TypeOK
  <2>4. overlay'.check = overlay.check
    BY <1>7 DEF CopySig, IntoOverlay, IInv, TypeOK
  <2> QED BY <1>7, <2>1, <2>2, <2>3, <2>4 DEF CopySig
<1>8. CASE CopyKey \/ StopScript BY <1>8 DEF CopyKey, StopScript, NextCommand
<1>9. CASE OverScp
  <2>1. hpc' \in {"idle", "board check", "board sig"}
    BY <1>9 DEF OverScp, ScpImage, ScpCheck, ScpSig, Scp, NextCommand
  <2> QED BY <2>1
<1>10. CASE UNCHANGED host BY <1>10 DEF host
<1> QED BY <1>1, <1>2, <1>3, <1>5, <1>6, <1>7, <1>8, <1>9, <1>10, <1>4
        DEF Next, HostNext, Script, OverScp, AdminRemountRw, vars

(* The procedure's steps, and nothing else, bring the book forward.          *)
LEMMA ByBookStep ==
    ASSUME BInv, [Next]_vars
    PROVE  ByBook'
<1> USE DEF ByBook, BInv
<1>1. CASE Make
  <2>1. ASSUME book' = "release"
        PROVE  /\ book = "signed" /\ kernel' = kernel
               /\ built'.img = kernel' /\ built'.root.img = None
               /\ built'.root.check = overlay.check /\ built'.root.sig = overlay.sig
               /\ built'.root.pub = overlay.pub
    BY <1>1, <2>1 DEF Make
  <2>2. book' # "signed"
    BY <1>1 DEF Make
  <2> QED BY <2>1, <2>2 DEF Vouches
<1>2. CASE LoseKeys \/ Flash BY <1>2 DEF LoseKeys, Flash
<1>3. CASE StartScript BY <1>3 DEF StartScript
<1>4. CASE ChecksumFails
  BY <1>4 DEF ChecksumFails
<1>5. CASE WriteChecksum \/ SignChecksum \/ CopyCheck \/ CopySig
  <2>1. book' # "signed" /\ UNCHANGED <<book, built>>
    BY <1>5 DEF WriteChecksum, ChecksumFails, SignChecksum, CopyCheck, CopySig
  <2> QED BY <2>1
<1>6. CASE CopyKey /\ book # "signing"
  BY <1>6 DEF CopyKey
<1>7. CASE CopyKey /\ book = "signing"
  <2>1. mode.sign /\ keys \in Key /\ hcheck \in Image /\ hcheck = kernel
    BY <1>7 DEF CopyKey, IInv, Scripting, Paperwork
  <2>2. overlay.check = hcheck /\ overlay.sig = Sign(keys, hcheck)
    BY <1>7, <2>1 DEF CopyKey, Paperwork
  <2>3. overlay' = [overlay EXCEPT !.pub = keys] /\ hpc' = "idle" /\ book' = "signed"
        /\ kernel' = kernel
    BY <1>7 DEF CopyKey, NextCommand
  <2>4. overlay'.check = hcheck /\ overlay'.sig = Sign(keys, hcheck) /\ overlay'.pub = keys
    BY <2>2, <2>3 DEF IInv, TypeOK
  <2>5. Vouches(overlay)'
    BY <2>1, <2>4 DEF Vouches
  <2> QED BY <2>1, <2>3, <2>4, <2>5
<1>8. CASE StopScript BY <1>8 DEF StopScript
<1>9. CASE OverScp
  <2>1. book # "signed" /\ UNCHANGED <<book, built>>
    BY <1>9 DEF OverScp, ScpImage, ScpCheck, ScpSig, Scp
  <2> QED BY <2>1
<1>10. CASE UNCHANGED host BY <1>10 DEF host, Vouches
<1> QED BY <1>1, <1>2, <1>3, <1>5, <1>7, <1>8, <1>9, <1>10, <1>4, <1>6
        DEF Next, HostNext, Script, OverScp, AdminRemountRw, vars

(* The verifier accepts a made card, mounted or not.                         *)
LEMMA MadeVerifies ==
    ASSUME Made, pc = "verify"
    PROVE  Verdict = 0
<1>1. CASE mnt = "none" BY <1>1 DEF Made, Verdict, VerifyRc, Boot
<1>2. CASE mnt # "none"
  <2>1. fat.check = root.check /\ fat.sig = root.sig
    BY <1>2 DEF Made, Artifacts
  <2>2. root.check \notin {None, Torn} /\ root.sig = Sign(root.pub, root.check)
        /\ fat.img = root.check
    BY VouchedSig DEF Made, Vouches
  <2> QED BY <1>2, <2>1, <2>2 DEF Verdict, VerifyRc, Boot
<1> QED BY <1>1, <1>2

(* Without a fault the board keeps a made card as it is, restart after       *)
(* restart and reboot after reboot.                                          *)
LEMMA MadeBoard ==
    ASSUME IInv, OffUnmounted, Made, BoardNext, faults = 0, faults' = 0
    PROVE  Made'
<1>0. n \in 1..3 /\ Len(ART_NAMES) = 2
  BY Names DEF IInv, TypeOK, BoardTypeOK
<1>1. ~Fault
  BY DEF Fault
<1>2. \A f \in Artifacts : root[f] # None
  BY VouchedSig DEF Made, Artifacts
<1>3. CASE PowerOn BY <1>3 DEF PowerOn, card, Made, OffUnmounted, Vouches
<1>4. CASE RestartS03 BY <1>4 DEF RestartS03, card, Made, Vouches
<1>5. CASE StashArtifacts
  <2>1. \A f \in Artifacts : mnt = "none" => stash'[f] = root[f]
    BY <1>2, <1>5 DEF StashArtifacts, Boot
  <2> QED BY <1>5, <2>1 DEF StashArtifacts, card, Made, Vouches
<1>6. CASE Mount BY <1>6 DEF Mount, card, Made, Vouches, RestoredSoFar
<1>7. CASE MountFails BY <1>7 DEF MountFails, S03Exits, card, Made, Vouches
<1>8. CASE SkipArtifact
  <2>1. n \in 1..2 /\ ART_NAMES[n] \in Artifacts
    BY <1>0, <1>8, Names DEF SkipArtifact
  <2>2. fat[ART_NAMES[n]] # None
    BY <1>2, <1>8, <2>1 DEF SkipArtifact, Missing, Boot, Made, IInv, Restoring
  <2>3. fat[ART_NAMES[n]] = root[ART_NAMES[n]]
    BY <1>8, <2>1, <2>2 DEF SkipArtifact, Made
  <2>4. \A i \in 1..2 : i < n + 1 => fat[ART_NAMES[i]] = root[ART_NAMES[i]]
    BY <1>8, <2>1, <2>3 DEF SkipArtifact, Made, RestoredSoFar
  <2> QED BY <1>8, <2>4 DEF SkipArtifact, card, Made, Vouches, RestoredSoFar
<1>9. CASE RemountRw
  <2>1. mnt' = "rw"
    BY <1>1, <1>9 DEF RemountRw
  <2> QED BY <1>9, <2>1 DEF RemountRw, card, Made, Vouches, RestoredSoFar
<1>10. CASE CopyRefused BY <1>10 DEF CopyRefused, Made
<1>11. CASE CopyBegins
  <2>1. n \in 1..2 /\ ART_NAMES[n] \in Artifacts
    BY <1>11, Names DEF CopyBegins, IInv, Restoring
  <2>2. \A f \in Artifacts : f # ART_NAMES[n] => fat'[f] = fat[f]
    BY <1>11, <2>1, Names DEF CopyBegins, IInv, TypeOK, BoardTypeOK, FatType
  <2>3. fat'.img = fat.img
    BY <1>11, <2>1, Names DEF CopyBegins, IInv, TypeOK, BoardTypeOK, FatType
  <2>4. \A i \in 1..2 : i < n => ART_NAMES[i] \in Artifacts /\ ART_NAMES[i] # ART_NAMES[n]
    BY <2>1, Names DEF ART_NAMES
  <2>5. RestoredSoFar'
    BY <1>11, <2>2, <2>4 DEF CopyBegins, Made, RestoredSoFar
  <2> QED BY <1>11, <2>2, <2>3, <2>5 DEF CopyBegins, Made, Vouches
<1>12. CASE CopyEnds
  <2>1. n \in 1..2 /\ ART_NAMES[n] \in Artifacts
    BY <1>12, Names DEF CopyEnds, IInv, Restoring
  <2>2. stash[ART_NAMES[n]] = root[ART_NAMES[n]]
    BY <1>12, <2>1 DEF CopyEnds, Made
  <2>3. fat'.img = fat.img
    BY <1>12, <2>1, Names DEF CopyEnds, IInv, TypeOK, BoardTypeOK, FatType
  <2>4. \A f \in Artifacts : fat'[f] = IF f = ART_NAMES[n] THEN root[f] ELSE fat[f]
    BY <1>12, <2>1, <2>2, Names DEF CopyEnds, IInv, TypeOK, BoardTypeOK, FatType
  <2>5. \A f \in Artifacts : fat'[f] = None \/ fat'[f] = root[f]
    BY <1>12, <2>4 DEF CopyEnds, Made
  <2>6. \A i \in 1..2 : i < n + 1 => fat'[ART_NAMES[i]] = root[ART_NAMES[i]]
    BY <1>12, <2>1, <2>4, Names DEF CopyEnds, Made, RestoredSoFar
  <2>7. RestoredSoFar'
    BY <1>12, <2>6 DEF CopyEnds, RestoredSoFar
  <2> QED BY <1>12, <2>3, <2>5, <2>7 DEF CopyEnds, Made, Vouches
<1>13. CASE CopyFails BY <1>1, <1>13 DEF CopyFails
<1>14. CASE EndRestore
  <2>1. n = 3
    BY <1>0, <1>14 DEF EndRestore
  <2>2. \A f \in Artifacts : fat[f] = root[f]
    <3>1. \A i \in 1..2 : fat[ART_NAMES[i]] = root[ART_NAMES[i]]
      BY <1>14, <2>1 DEF EndRestore, Made, RestoredSoFar
    <3> QED BY <3>1 DEF ART_NAMES, Artifacts
  <2> QED BY <1>14, <2>2 DEF EndRestore, S03Exits, Made, Vouches
<1>15. CASE VerifyOk \/ VerifyWarns
  BY <1>15 DEF VerifyOk, VerifyWarns, card, Made, Vouches
<1>16. CASE VerifyRejects
  BY <1>16, MadeVerifies DEF VerifyRejects
<1>17. CASE Reboot BY <1>17 DEF Reboot, MemoryLost, Made, Vouches
<1>18. CASE PowerLoss BY <1>1, <1>18 DEF PowerLoss
<1> QED BY <1>3, <1>4, <1>5, <1>6, <1>7, <1>8, <1>9, <1>10, <1>11, <1>12, <1>13, <1>14,
           <1>15, <1>16, <1>17, <1>18 DEF BoardNext, Boots, S03, S05

(* Every step of the host, and of the board, keeps the card made.            *)
LEMMA MadeStep ==
    ASSUME BInv, [Next]_vars
    PROVE  OffUnmounted' /\ ((byTheBook /\ faults = 0) => Made)'
<1> USE DEF BInv
<1>1. CASE BoardNext /\ UNCHANGED host
  <2>1. OffUnmounted'
    BY <1>1 DEF OffUnmounted, BoardNext, Boots, S03, S05, PowerOn, RestartS03, StashArtifacts,
           Mount, MountFails, S03Exits, SkipArtifact, RemountRw, CopyRefused, CopyBegins,
           CopyEnds, CopyFails, EndRestore, VerifyOk, VerifyWarns, VerifyRejects, Reboot,
           PowerLoss, MemoryLost
  <2>2. faults' = 0 => faults = 0
    <3>1. faults' = faults \/ faults' = faults + 1
      BY <1>1, Zenon DEF BoardNext, Boots, S03, S05, PowerOn, RestartS03, StashArtifacts,
             Mount, MountFails, SkipArtifact, RemountRw, CopyRefused, CopyBegins, CopyEnds,
             CopyFails, EndRestore, VerifyOk, VerifyWarns, VerifyRejects, Reboot, PowerLoss,
             Fault
    <3>2. faults \in 0..MaxFaults /\ MaxFaults \in Nat
      BY Constants, Zenon DEF IInv, TypeOK, BoardTypeOK
    <3> HIDE DEF BInv
    <3> QED BY <3>1, <3>2
  <2>3. byTheBook' = byTheBook
    BY <1>1, Zenon DEF host
  <2>4. faults = 0 /\ faults' = 0 /\ Made => Made'
    BY <1>1, MadeBoard
  <2> QED BY <2>1, <2>2, <2>3, <2>4, Zenon
<1>2. CASE HostOnly
  <2>1. board' = board
    BY <1>2, HostStep
  <2>2. byTheBook' = byTheBook
    BY <1>2, Zenon DEF HostOnly, Make, LoseKeys, StartScript, WriteChecksum, ChecksumFails, SignChecksum,
           CopyCheck, CopySig, CopyKey, StopScript
  <2>3. UNCHANGED <<fat, root, stash, mnt, pc, n, faults>>
    BY <2>1 DEF board
  <2>4. OffUnmounted' /\ (Made => Made') /\ faults' = faults
    BY <2>3 DEF OffUnmounted, Made, Vouches, RestoredSoFar
  <2> QED BY <2>2, <2>4, Zenon
<1>3. CASE OverScp
  <2>1. byTheBook' = FALSE
    BY <1>3, Zenon DEF OverScp, ScpImage, ScpCheck, ScpSig, Scp
  <2>2. UNCHANGED <<mnt, pc>>
    BY <1>3 DEF OverScp, ScpImage, ScpCheck, ScpSig, Scp
  <2> QED BY <2>1, <2>2, Zenon DEF OffUnmounted
<1>4. CASE Flash
  <2>1. /\ pc = "off" /\ pc' = "off" /\ mnt = "none" /\ mnt' = "none" /\ root' = built.root
        /\ fat'.img = built.img /\ fat'.check = None /\ fat'.sig = None
    BY <1>4 DEF Flash, NoFiles, OffUnmounted
  <2>2. byTheBook' => book = "release"
    BY <1>4, Zenon DEF Flash
  <2>3. book = "release" => Made'
    BY <2>1 DEF ByBook, Made, Vouches, Artifacts
  <2> QED BY <2>1, <2>2, <2>3, Zenon DEF OffUnmounted
<1>5. CASE AdminRemountRw
  <2>1. /\ pc = "up" /\ mnt = "ro" /\ mnt' = "rw"
        /\ UNCHANGED <<fat, root, stash, pc, n, faults>>
    BY <1>5 DEF AdminRemountRw, card
  <2>2. byTheBook' = byTheBook
    BY <1>5, Zenon DEF AdminRemountRw, host
  <2>3. OffUnmounted' /\ (Made => Made')
    BY <2>1 DEF OffUnmounted, Made, Vouches, RestoredSoFar
  <2> QED BY <2>1, <2>2, <2>3, Zenon
<1>6. CASE UNCHANGED vars
  <2>1. UNCHANGED <<fat, root, stash, mnt, pc, n, faults>>
    BY <1>6 DEF vars, board
  <2>2. byTheBook' = byTheBook
    BY <1>6, Zenon DEF vars, host
  <2>3. OffUnmounted' /\ (Made => Made')
    BY <2>1 DEF OffUnmounted, Made, Vouches, RestoredSoFar
  <2> QED BY <2>1, <2>2, <2>3, Zenon
<1> QED BY <1>1, <1>2, <1>3, <1>4, <1>5, <1>6
        DEF Next, HostNext, Script, HostOnly, OverScp

(* ReleaseBoots, of etc/keys/README.txt:19-43 and S05: when the image that   *)
(* is signed is zImage, whose names S03 and the verifier know, a card made   *)
(* by the documented procedure is never rejected while no write fails and    *)
(* the power stays on, whatever was on the host and the board before.  For   *)
(* another --image it does not hold.                                         *)
THEOREM ReleasesBoot ==
    ASSUME SignedImage = "zImage"
    PROVE  Spec => []ReleaseBoots
<1>1. Init => BInv
  <2> SUFFICES ASSUME Init PROVE BInv
    OBVIOUS
  <2>1. IInv
    BY InitIInv
  <2>2. hpc = "idle" /\ book = "none" /\ mnt = "none"
    BY DEF Init, BoardInit
  <2>3. ~byTheBook
    BY Zenon DEF Init
  <2>4. Paperwork /\ ByBook /\ OffUnmounted
    BY <2>2 DEF Paperwork, ByBook, OffUnmounted
  <2> QED BY <2>1, <2>3, <2>4, Zenon DEF BInv
<1>2. BInv /\ [Next]_vars => BInv'
  <2> SUFFICES ASSUME BInv, [Next]_vars PROVE BInv'
    OBVIOUS
  <2>1. IInv'
    BY NextIInv DEF BInv
  <2> QED BY <2>1, PaperworkStep, ByBookStep, MadeStep, Zenon DEF BInv
<1>3. BInv => ReleaseBoots
  BY Zenon DEF BInv, Made, ReleaseBoots
<1> QED BY <1>1, <1>2, <1>3, PTL DEF Spec
=============================================================================
