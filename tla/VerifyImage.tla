----------------------------- MODULE VerifyImage -----------------------------
(****************************************************************************)
(* usr/local/sbin/verify_boot_image.sh: the verdict on /boot/zImage.        *)
(*                                                                          *)
(* A checksum file is the image whose sha256 it holds, a signature file the *)
(* key and the checksum file it signs.  Torn is a file whose content was    *)
(* lost by an interrupted write: empty or garbage, the digest and signature *)
(* of nothing.  None is a file that is not there.                           *)
(****************************************************************************)
CONSTANTS
    Image,      \* the kernels built over time
    Key,        \* the RSA key pairs generated over time
    Oversized,  \* the images above VERIFY_MAX_MB
    None, Torn

ASSUME ImageAssumption ==
    /\ Oversized \subseteq Image
    /\ None # Torn
    /\ {None, Torn} \cap (Image \cup Key) = {}

Signature == [key : Key, of : Image \cup {Torn}]

ASSUME SignatureAssumption == {None, Torn} \cap Signature = {}

ImageFile == Image \cup {None, Torn}
CheckFile == Image \cup {None, Torn}
SigFile == Signature \cup {None, Torn}
KeyFile == Key \cup {None}

Sign(key, check) == [key |-> key, of |-> check]

(* Mutant: the signature is never looked at. *)
VerifyRc_ChecksumOnly(img, check, sig, pub, forced) ==
    IF img = None THEN 0
    ELSE IF check = None THEN 1
    ELSE IF img \in Oversized /\ ~forced THEN 0
    ELSE IF check = Torn THEN 1
    ELSE IF img = check THEN 0 ELSE 4

(* The exit code; "forced" is the script's own ENFORCE, which defaults to 0. *)
VerifyRc(img, check, sig, pub, forced) ==
    IF img = None THEN 0
    ELSE IF check = None THEN 1
    ELSE IF img \in Oversized /\ ~forced THEN 0
    ELSE IF check = Torn THEN 1
    ELSE IF sig # None /\ pub # None
    THEN IF sig # Sign(pub, check) THEN 3 ELSE IF img = check THEN 0 ELSE 2
    ELSE IF img = check THEN 0 ELSE 4
=============================================================================
