---------------------------- MODULE ImageRelease -----------------------------
(****************************************************************************)
(* A developer's host and the board it makes cards for: make, the signing   *)
(* scripts scripts/make_keys_and_sign.sh and gen_and_deploy_artifacts.sh,   *)
(* the flashing of a card, and the board of BootBoard that boots it.        *)
(*                                                                          *)
(* The script writes the checksum and the signature beside the image, then  *)
(* copies them into the root filesystem's overlay, which the next make puts *)
(* in the image, or by scp to a running board.  It stops at any command     *)
(* that fails (set -e) or when it is interrupted.                           *)
(****************************************************************************)
EXTENDS BootBoard

CONSTANTS
    SignedImage,   \* the file --image names: "zImage" or "sdcard.img"
    Sha256sumMayFail,
    MaxFlashes,    \* bound: cards written
    MaxScripts,    \* bound: runs of the signing scripts for the overlay
    MaxDeploys     \* bound: runs of the generator that deploy to the board

ASSUME ReleaseAssumption ==
    /\ SignedImage \in {"zImage", "sdcard.img"}
    /\ Sha256sumMayFail \in BOOLEAN
    /\ MaxFlashes \in Nat /\ MaxScripts \in Nat /\ MaxDeploys \in Nat

VARIABLES
    kernel,    \* output/images/zImage
    built,     \* output/images/sdcard.img: [img, root], or None
    overlay,   \* the rootfs overlay: boot/zImage.sha256{,.sig}, etc/keys/public.pem
    keys,      \* scripts/keys: a key pair, or None
    hcheck, hsig,   \* the .sha256 and .sha256.sig beside the image
    hpc,       \* where the script is
    mode,      \* its options: [sign, target]
    signed,    \* <<key, image>>: every checksum ever signed (history)
    book,      \* how far the documented procedure has been followed (history)
    byTheBook, \* the card in the board was made by it (history)
    flashes, scripts, deploys

host == <<kernel, built, overlay, keys, hcheck, hsig, hpc, mode, signed, book,
          byTheBook, flashes, scripts, deploys>>
vars == <<board, host>>

Modes == [sign : BOOLEAN, target : {"overlay", "board"}]
NoMode == [sign |-> FALSE, target |-> "none"]

NoFiles == [img |-> None, check |-> None, sig |-> None]

Init ==
    /\ BoardInit(NoFiles, [img |-> None, check |-> None, sig |-> None, pub |-> None])
    /\ kernel = None /\ built = None
    /\ overlay = [check |-> None, sig |-> None, pub |-> None]
    /\ keys = None
    /\ hcheck = None /\ hsig = None
    /\ hpc = "idle"
    /\ mode = NoMode
    /\ signed = {}
    /\ book = "none" /\ byTheBook = FALSE
    /\ flashes = 0 /\ scripts = 0 /\ deploys = 0

-----------------------------------------------------------------------------
(* The host and a booting board share nothing: a step of the one commutes   *)
(* with a step of the other, and it is enough to let the host work while    *)
(* the board is off or up. *)
BoardAtRest == pc \in {"off", "up"}

(* Bound: no work on the host that could not reach a board any more. *)
InTime == flashes < MaxFlashes \/ deploys < MaxDeploys

(* make: the kernel, and the card image with the overlay as it is now. *)
Make ==
    /\ hpc = "idle" /\ BoardAtRest /\ InTime
    /\ kernel' \in Image
    /\ built' = [img |-> kernel',
                  root |-> [img |-> None, check |-> overlay.check,
                            sig |-> overlay.sig, pub |-> overlay.pub]]
    /\ book' = IF book = "signed" /\ kernel' = kernel THEN "release" ELSE "built"
    /\ UNCHANGED <<board, overlay, keys, hcheck, hsig, hpc, mode, signed, byTheBook,
                   flashes, scripts, deploys>>

NewKeys == Key \ {s[1] : s \in signed}

(* scripts/keys is not under version control: another checkout has none.    *)
(* Bound: while another pair can be made. *)
LoseKeys ==
    /\ hpc = "idle" /\ keys # None /\ BoardAtRest /\ InTime /\ NewKeys # {}
    /\ keys' = None
    /\ UNCHANGED <<board, kernel, built, overlay, hcheck, hsig, hpc, mode, signed, book,
                   byTheBook, flashes, scripts, deploys>>

(* A run of a script has ended, with its options. *)
NextCommand(to) ==
    /\ hpc' = to
    /\ mode' = IF to = "idle" THEN NoMode ELSE mode

(* make_keys_and_sign.sh makes the missing keys, then runs the generator    *)
(* with them; the generator alone may run without a key.  Bound: no work on *)
(* the overlay that could not reach a card any more. *)
StartScript ==
    /\ hpc = "idle" /\ kernel # None /\ BoardAtRest
    /\ mode' \in Modes
    /\ \/ /\ mode'.target = "overlay" /\ flashes < MaxFlashes
          /\ scripts < MaxScripts /\ scripts' = scripts + 1 /\ UNCHANGED deploys
       \/ /\ mode'.target = "board" /\ pc = "up"
          /\ deploys < MaxDeploys /\ deploys' = deploys + 1 /\ UNCHANGED scripts
    /\ IF mode'.sign /\ keys = None
       THEN keys' \in NewKeys
       ELSE UNCHANGED keys
    /\ hpc' = "checksum"
    /\ book' = IF mode'.sign /\ mode'.target = "overlay" THEN "signing" ELSE "none"
    /\ UNCHANGED <<board, kernel, built, overlay, hcheck, hsig, signed, byTheBook, flashes>>

(* Mutant: a checksum file that is already there is left as it is. *)
WriteChecksum_Once ==
    /\ BoardAtRest /\ hpc = "checksum"
    /\ hcheck' = IF hcheck = None THEN kernel ELSE hcheck
    /\ hpc' = IF mode.sign THEN "sign" ELSE mode.target
    /\ UNCHANGED <<board, kernel, built, overlay, keys, hsig, mode, signed, book,
                   byTheBook, flashes, scripts, deploys>>

WriteChecksum ==
    /\ BoardAtRest /\ hpc = "checksum"
    /\ hcheck' = kernel
    /\ hpc' = IF mode.sign THEN "sign" ELSE mode.target
    /\ UNCHANGED <<board, kernel, built, overlay, keys, hsig, mode, signed, book,
                   byTheBook, flashes, scripts, deploys>>

(* Nobody sees the status of a sha256sum in a pipeline: the checksum is     *)
(* empty, and the script goes on to sign and copy it.                       *)
ChecksumFails ==
    /\ Sha256sumMayFail
    /\ BoardAtRest /\ hpc = "checksum"
    /\ hcheck' = Torn
    /\ hpc' = IF mode.sign THEN "sign" ELSE mode.target
    /\ book' = "none"
    /\ UNCHANGED <<board, kernel, built, overlay, keys, hsig, mode, signed, byTheBook,
                   flashes, scripts, deploys>>

SignChecksum ==
    /\ BoardAtRest /\ hpc = "sign"
    /\ hsig' = Sign(keys, hcheck)
    /\ signed' = signed \cup {<<keys, hcheck>>}
    /\ hpc' = mode.target
    /\ UNCHANGED <<board, kernel, built, overlay, keys, hcheck, mode, book, byTheBook,
                   flashes, scripts, deploys>>

(* The overlay has the names of the image that was signed; S03 and the      *)
(* verifier only know those of zImage. *)
IntoOverlay(f, content) ==
    overlay' = IF SignedImage = "zImage" THEN [overlay EXCEPT ![f] = content] ELSE overlay

CopyCheck ==
    /\ BoardAtRest /\ hpc = "overlay"
    /\ IntoOverlay("check", hcheck)
    /\ hpc' = "overlay sig"
    /\ UNCHANGED <<board, kernel, built, keys, hcheck, hsig, mode, signed, book, byTheBook,
                   flashes, scripts, deploys>>

CopySig ==
    /\ BoardAtRest /\ hpc = "overlay sig"
    /\ IF hsig # None THEN IntoOverlay("sig", hsig) ELSE UNCHANGED overlay
    /\ NextCommand(IF mode.sign THEN "overlay key" ELSE "idle")
    /\ UNCHANGED <<board, kernel, built, keys, hcheck, hsig, signed, book, byTheBook,
                   flashes, scripts, deploys>>

CopyKey ==
    /\ BoardAtRest /\ hpc = "overlay key"
    /\ overlay' = [overlay EXCEPT !.pub = keys]
    /\ NextCommand("idle")
    /\ book' = IF book = "signing" THEN "signed" ELSE "none"
    /\ UNCHANGED <<board, kernel, built, keys, hcheck, hsig, signed, byTheBook,
                   flashes, scripts, deploys>>

(* A command fails or the user interrupts: the script stops where it is. *)
StopScript ==
    /\ BoardAtRest /\ hpc # "idle"
    /\ NextCommand("idle")
    /\ book' = "built"
    /\ UNCHANGED <<board, kernel, built, overlay, keys, hcheck, hsig, signed,
                   byTheBook, flashes, scripts, deploys>>

-----------------------------------------------------------------------------
(* scp of one file into /boot of the running board: the connection or the   *)
(* disk may give up half way, and nothing is synced. *)
Scp(f, file, next) ==
    /\ pc = "up" /\ mnt # "ro"
    /\ \E content \in {file, Torn} :
          /\ IF mnt = "rw"
             THEN /\ fat' = [fat EXCEPT ![f] = content]
                  /\ dirty' = dirty \cup {<<"fat", f>>}
                  /\ UNCHANGED root
             ELSE /\ root' = [root EXCEPT ![f] = content]
                  /\ dirty' = dirty \cup {<<"root", f>>}
                  /\ UNCHANGED fat
          /\ NextCommand(IF content = file THEN next ELSE "idle")
    /\ byTheBook' = FALSE
    /\ UNCHANGED <<stash, mnt, pc, caller, env, n, restored, faults, kernel, built, overlay,
                   keys, hcheck, hsig, signed, book, flashes, scripts, deploys>>

ScpImage == hpc = "board" /\ Scp("img", kernel, "board check")

ScpCheck ==
    /\ hpc = "board check"
    /\ Scp("check", hcheck, IF hsig = None THEN "idle" ELSE "board sig")

ScpSig == hpc = "board sig" /\ Scp("sig", hsig, "idle")

(* The board's /boot is read-only until its administrator says otherwise. *)
AdminRemountRw ==
    /\ pc = "up" /\ mnt = "ro"
    /\ mnt' = "rw"
    /\ UNCHANGED <<card, stash, pc, caller, env, n, restored, faults, host>>

(* Writing the whole card, with the board off. *)
Flash ==
    /\ pc = "off" /\ hpc = "idle" /\ built # None
    /\ flashes < MaxFlashes
    /\ flashes' = flashes + 1
    /\ fat' = [NoFiles EXCEPT !.img = built.img]
    /\ root' = built.root
    /\ dirty' = {}
    /\ byTheBook' = (book = "release")
    /\ UNCHANGED <<stash, mnt, pc, caller, env, n, restored, faults, kernel, built, overlay,
                   keys, hcheck, hsig, hpc, mode, signed, book, scripts, deploys>>

Script ==
    \/ StartScript \/ WriteChecksum \/ ChecksumFails \/ SignChecksum \/ CopyCheck \/ CopySig \/ CopyKey
    \/ ScpImage \/ ScpCheck \/ ScpSig \/ StopScript

HostNext == Make \/ LoseKeys \/ Script \/ Flash

Next == HostNext \/ AdminRemountRw \/ (BoardNext /\ UNCHANGED host)

Spec == Init /\ [][Next]_vars

(* The board boots when it has power, and rcS runs its scripts to the end.  *)
FairSpec == Spec /\ WF_vars(Boots /\ UNCHANGED host)

-----------------------------------------------------------------------------
(* Every variable of the host and of the board keeps its type: in           *)
(* particular the script is at one of its commands and S03 at an artifact.  *)
TypeOK ==
    /\ BoardTypeOK
    /\ kernel \in Image \cup {None}
    /\ built = None \/ (built.img \in Image /\ built.root \in RootType)
    /\ overlay \in [check : CheckFile, sig : SigFile, pub : KeyFile]
    /\ keys \in KeyFile
    /\ hcheck \in CheckFile /\ hsig \in SigFile
    /\ hpc \in {"idle", "checksum", "sign", "overlay", "overlay sig", "overlay key",
                "board", "board check", "board sig"}
    /\ mode \in Modes \cup {NoMode}
    /\ signed \subseteq Key \X (Image \cup {Torn})
    /\ book \in {"none", "built", "signing", "signed", "release"}
    /\ byTheBook \in BOOLEAN
    /\ flashes \in 0..MaxFlashes /\ scripts \in 0..MaxScripts
    /\ deploys \in 0..MaxDeploys

(* etc/keys/README.txt:19-43, S05: a card made by the documented procedure  *)
(* (make, make_keys_and_sign.sh, make again, flash) is never rejected by    *)
(* the boot-time verification, as long as no command of it and no write     *)
(* fails and the power stays on, whatever stale files earlier runs left on  *)
(* the host.  (byTheBook: a failed sha256sum is a failed procedure, though  *)
(* the script does not notice.)                                             *)
ReleaseBoots == byTheBook /\ faults = 0 => pc # "rebooting"

(* S05 and verify_boot_image.sh: an enforcing boot that finds a key and a   *)
(* signature goes past S05 only with a kernel whose checksum the host       *)
(* signed with that key, whatever mixture of old and new files the card     *)
(* holds.  The size guard is the one exception.                             *)
AuthenticBoot ==
    [][(/\ pc = "verify" /\ pc' = "up" /\ Enforcing
        /\ Boot.img # None /\ Boot.sig # None /\ root.pub # None
        /\ (Boot.img \in Oversized => env = "1"))
       => <<root.pub, Boot.img>> \in signed]_vars

(* A card that needs nothing restored, is synced and verifies, mounted or    *)
(* not: a boot whose mount failed verifies what a deployment to a board      *)
(* without its FAT partition left in the /boot of the root filesystem.       *)
Sealed ==
    /\ dirty = {}
    /\ fat.img \in Image
    /\ \A f \in Artifacts : root[f] # None => fat[f] # None
    /\ VerifyRc(fat.img, fat.check, fat.sig, root.pub, TRUE) = 0
    /\ VerifyRc(root.img, root.check, root.sig, root.pub, TRUE) = 0

(* S03: power losses, failing writes, reboots and restarts of S03 at any    *)
(* point never spoil a sealed card; only a deploy or a new card does.       *)
SealedStays == [][Sealed /\ UNCHANGED host => Sealed']_vars

(* A sealed card always comes up again, whichever mounts fail, until a       *)
(* deployment or a new card changes it.                                      *)
SealedBoots == (pc = "off" /\ Sealed) ~> (pc = "up" \/ ~Sealed)
=============================================================================
