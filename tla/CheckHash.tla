------------------------------ MODULE CheckHash ------------------------------
(****************************************************************************)
(* support/download/check-hash: does a file match the hashes its package    *)
(* records for it?                                                          *)
(*                                                                          *)
(* A file is a member of Content (what a server holds under that name) or   *)
(* Partial, the torn copy an interrupted or failed write leaves: a hash     *)
(* tells two contents apart, and no recorded hash is that of a torn copy.   *)
(* A .hash file is the sequence of its non-comment lines; a line is for     *)
(* "this" file (its basename is $2) or for an"other" one.                   *)
(****************************************************************************)
LOCAL INSTANCE SequencesExt
LOCAL INSTANCE FiniteSetsExt
LOCAL INSTANCE Sequences

CONSTANTS
    Content,    \* the complete files
    Partial     \* a torn copy of one of them

ASSUME PartialAssumption == Partial \notin Content

File == Content \cup {Partial}

HashLine == [hashType : {"known", "unknown"}, hash : Content, name : {"this", "other"}]

HashFile == [exists : BOOLEAN, lines : Seq(HashLine)]

(* The lines about this file, in the order the two nested loops meet them. *)
HashEntries(hfiles) ==
    LET LinesOf(h) == IF h.exists THEN h.lines ELSE <<>>
        all == FlattenSeq([i \in DOMAIN hfiles |-> LinesOf(hfiles[i])])
    IN  SelectSeq(all, LAMBDA line : line.name = "this")

CheckOneHash(line, file) ==
    IF line.hashType = "unknown" THEN 4
    ELSE IF line.hash = file THEN 0 ELSE 2

(* The exit code: the first line that fails decides it.  "noCheck" is the  *)
(* presence of the name in BR_NO_CHECK_HASH_FOR.                            *)
CheckHash(file, hfiles, noCheck) ==
    LET entries == HashEntries(hfiles)
        failing == {i \in DOMAIN entries : CheckOneHash(entries[i], file) # 0}
    IN  IF \A i \in DOMAIN hfiles : ~hfiles[i].exists THEN 0
        ELSE IF entries = <<>> THEN (IF noCheck THEN 0 ELSE 3)
        ELSE IF failing = {} THEN 0
        ELSE CheckOneHash(entries[Min(failing)], file)
=============================================================================
