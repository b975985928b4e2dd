------------------------------ MODULE BootBoard ------------------------------
(****************************************************************************)
(* The board from power-on to the end of S05: etc/init.d/S03mount_boot      *)
(* stashes the checksum and signature the root filesystem carries in its    *)
(* own /boot, mounts the FAT partition over it and copies back what is      *)
(* missing there; etc/init.d/S05verify_image then verifies the kernel and   *)
(* reboots when it is wrong.                                                *)
(*                                                                          *)
(* fat and root are what the card holds.  A file of either that has been    *)
(* written and not synced is dirty: a power loss may keep it, tear it or    *)
(* lose it.                                                                 *)
(****************************************************************************)
EXTENDS VerifyImage, Naturals, Sequences

CONSTANTS
    EnforceEnv,   \* the values ENFORCE_VERIFY may have in rcS's environment
    MaxFaults     \* bound: power losses and failed writes

ASSUME BootAssumption ==
    /\ EnforceEnv \subseteq {"unset", "0", "1"}
    /\ MaxFaults \in Nat

VARIABLES
    fat,       \* the FAT partition: [img, check, sig]
    dirty,     \* <<"fat" or "root", file>>: written and not synced
    root,      \* the root filesystem: /boot/{zImage*} and /etc/keys/public.pem
    stash,     \* /run/boot-artifacts-stash: [check, sig]
    mnt,       \* is the FAT partition mounted on /boot, and how
    pc,        \* where the boot is
    caller,    \* who runs S03: rcS, or an administrator later
    env,       \* ENFORCE_VERIFY in rcS's environment
    n,         \* the artifact of ART_NAMES the loop is at
    restored,  \* S03's variable of that name
    faults     \* power losses, refused remounts and failed copies so far

card == <<fat, dirty, root>>
board == <<fat, dirty, root, stash, mnt, pc, caller, env, n, restored, faults>>

Artifacts == {"check", "sig"}
ART_NAMES == <<"check", "sig">>

NoStash == [f \in Artifacts |-> None]

(* What /boot shows. *)
Boot == IF mnt = "none" THEN root ELSE fat

BoardInit(f, r) ==
    /\ fat = f
    /\ root = r
    /\ dirty = {}
    /\ stash = NoStash
    /\ mnt = "none"
    /\ pc = "off"
    /\ caller = "rcS"
    /\ env = "unset"
    /\ n = 1
    /\ restored = FALSE
    /\ faults = 0

-----------------------------------------------------------------------------
(* u-boot loads the kernel from the FAT partition, whatever it is; the      *)
(* kernel command line may put ENFORCE_VERIFY in init's environment.        *)
PowerOn ==
    /\ pc = "off"
    /\ fat.img \in Image
    /\ pc' = "stash"
    /\ caller' = "rcS"
    /\ env' \in EnforceEnv
    /\ UNCHANGED <<card, stash, mnt, n, restored, faults>>

(* An administrator runs "S03mount_boot restart" on the running system. *)
RestartS03 ==
    /\ pc = "up"
    /\ pc' = "stash"
    /\ caller' = "admin"
    /\ UNCHANGED <<card, stash, mnt, env, n, restored, faults>>

(* The shell that ran S03 is gone, with its variables. *)
S03Exits ==
    /\ pc' = IF caller = "rcS" THEN "verify" ELSE "up"
    /\ caller' = "rcS" /\ n' = 1 /\ restored' = FALSE

StashArtifacts ==
    /\ pc = "stash"
    /\ stash' = [f \in Artifacts |-> IF Boot[f] # None THEN Boot[f] ELSE stash[f]]
    /\ pc' = "mount"
    /\ UNCHANGED <<card, mnt, caller, env, n, restored, faults>>

(* Mutant: the loop starts one too early. *)
Mount_FromZero ==
    /\ pc = "mount"
    /\ mnt = "none"
    /\ mnt' = "ro"
    /\ pc' = "restore"
    /\ n' = 0
    /\ restored' = FALSE
    /\ UNCHANGED <<card, stash, caller, env, faults>>

Mount ==
    /\ pc = "mount"
    /\ mnt = "none"
    /\ mnt' = "ro"
    /\ pc' = "restore"
    /\ n' = 1
    /\ restored' = FALSE
    /\ UNCHANGED <<card, stash, caller, env, faults>>

(* No device, or mount fails, or /boot is a mountpoint already. *)
MountFails ==
    /\ pc = "mount"
    /\ S03Exits
    /\ UNCHANGED <<card, stash, mnt, env, faults>>

(* Mutant: the artifacts are copied on every boot. *)
Missing_Always(f) == stash[f] # None

Missing(f) == stash[f] # None /\ Boot[f] = None

SkipArtifact ==
    /\ pc = "restore" /\ n <= Len(ART_NAMES)
    /\ ~Missing(ART_NAMES[n])
    /\ n' = n + 1
    /\ UNCHANGED <<card, stash, mnt, pc, caller, env, restored, faults>>

Fault == faults < MaxFaults /\ faults' = faults + 1

(* The remount that lets the copy write; "|| true" hides its failure. *)
RemountRw ==
    /\ pc = "restore" /\ n <= Len(ART_NAMES)
    /\ Missing(ART_NAMES[n])
    /\ \/ mnt' = "rw" /\ UNCHANGED faults
       \/ mnt' = mnt /\ mnt = "ro" /\ Fault
    /\ pc' = "copy"
    /\ UNCHANGED <<card, stash, caller, env, n, restored>>

CopyRefused ==
    /\ pc = "copy" /\ mnt = "ro"
    /\ pc' = "restore"
    /\ n' = n + 1
    /\ UNCHANGED <<card, stash, mnt, caller, env, restored, faults>>

CopyBegins ==
    /\ pc = "copy" /\ mnt = "rw"
    /\ fat' = [fat EXCEPT ![ART_NAMES[n]] = Torn]
    /\ dirty' = dirty \cup {<<"fat", ART_NAMES[n]>>}
    /\ pc' = "copying"
    /\ UNCHANGED <<root, stash, mnt, caller, env, n, restored, faults>>

CopyEnds ==
    /\ pc = "copying"
    /\ fat' = [fat EXCEPT ![ART_NAMES[n]] = stash[ART_NAMES[n]]]
    /\ restored' = TRUE
    /\ pc' = "restore"
    /\ n' = n + 1
    /\ UNCHANGED <<dirty, root, stash, mnt, caller, env, faults>>

CopyFails ==
    /\ pc = "copying"
    /\ Fault
    /\ pc' = "restore"
    /\ n' = n + 1
    /\ UNCHANGED <<card, stash, mnt, caller, env, restored>>

(* After the loop: sync and back to read-only when a copy succeeded. *)
EndRestore ==
    /\ pc = "restore" /\ n > Len(ART_NAMES)
    /\ \/ ~restored /\ UNCHANGED <<dirty, mnt, faults>>
       \/ restored /\ dirty' = {} /\ mnt' = "ro" /\ UNCHANGED faults
       \/ restored /\ dirty' = {} /\ UNCHANGED mnt /\ Fault
    /\ stash' = NoStash
    /\ S03Exits
    /\ UNCHANGED <<fat, root, env>>

-----------------------------------------------------------------------------
(* S05: ENFORCE defaults to 1 here; verify_boot_image.sh sees only the      *)
(* environment. *)
Enforcing == env # "0"

Verdict == VerifyRc(Boot.img, Boot.check, Boot.sig, root.pub, env = "1")

VerifyOk ==
    /\ pc = "verify"
    /\ Verdict = 0
    /\ pc' = "up"
    /\ UNCHANGED <<card, stash, mnt, caller, env, n, restored, faults>>

VerifyWarns ==
    /\ pc = "verify"
    /\ Verdict # 0 /\ ~Enforcing
    /\ pc' = "up"
    /\ UNCHANGED <<card, stash, mnt, caller, env, n, restored, faults>>

(* Mutant: the verdict is not the condition of the reboot. *)
VerifyRejects_Always ==
    /\ pc = "verify"
    /\ Enforcing
    /\ pc' = "rebooting"
    /\ UNCHANGED <<card, stash, mnt, caller, env, n, restored, faults>>

VerifyRejects ==
    /\ pc = "verify"
    /\ Verdict # 0 /\ Enforcing
    /\ pc' = "rebooting"
    /\ UNCHANGED <<card, stash, mnt, caller, env, n, restored, faults>>

(* Everything but the card is gone. *)
MemoryLost ==
    /\ pc' = "off"
    /\ dirty' = {}
    /\ stash' = NoStash
    /\ mnt' = "none"
    /\ caller' = "rcS" /\ env' = "unset" /\ n' = 1 /\ restored' = FALSE

(* reboot -f after 5 s, or an orderly reboot: the kernel syncs. *)
Reboot ==
    /\ pc \in {"rebooting", "up"}
    /\ MemoryLost
    /\ UNCHANGED <<fat, root, faults>>

(* What is left of the files of a filesystem. *)
Survivors(fs, files, fate) ==
    [f \in DOMAIN files |->
       IF <<fs, f>> \notin dirty \/ fate[<<fs, f>>] = "kept" THEN files[f]
       ELSE IF fate[<<fs, f>>] = "torn" THEN Torn ELSE None]

PowerLoss ==
    /\ pc # "off"
    /\ Fault
    /\ MemoryLost
    /\ \E fate \in [dirty -> {"kept", "torn", "lost"}] :
          /\ fat' = Survivors("fat", fat, fate)
          /\ root' = Survivors("root", root, fate)

S03 ==
    \/ StashArtifacts \/ Mount \/ MountFails \/ SkipArtifact \/ RemountRw
    \/ CopyRefused \/ CopyBegins \/ CopyEnds \/ CopyFails \/ EndRestore

S05 == VerifyOk \/ VerifyWarns \/ VerifyRejects

Boots == PowerOn \/ S03 \/ S05 \/ (pc = "rebooting" /\ Reboot)

BoardNext == Boots \/ RestartS03 \/ Reboot \/ PowerLoss

-----------------------------------------------------------------------------
FatType == [img : ImageFile, check : CheckFile, sig : SigFile]
RootType == [img : ImageFile, check : CheckFile, sig : SigFile, pub : KeyFile]

(* The types of the board's variables; n may be one past the last artifact. *)
BoardTypeOK ==
    /\ fat \in FatType
    /\ dirty \subseteq {"fat", "root"} \X {"img", "check", "sig"}
    /\ root \in RootType
    /\ stash.check \in CheckFile /\ stash.sig \in SigFile
    /\ DOMAIN stash = Artifacts
    /\ mnt \in {"none", "ro", "rw"}
    /\ pc \in {"off", "stash", "mount", "restore", "copy", "copying", "verify",
               "rebooting", "up"}
    /\ caller \in {"rcS", "admin"}
    /\ env \in {"unset", "0", "1"}
    /\ n \in 1..3
    /\ restored \in BOOLEAN
    /\ faults \in 0..MaxFaults
=============================================================================
