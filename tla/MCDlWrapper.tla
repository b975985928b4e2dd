----------------------------- MODULE MCDlWrapper -----------------------------
(* Instances of DlWrapper for TLC: two builds, two contents, two URIs.      *)
EXTENDS DlWrapper, TLC

CONSTANTS p1, p2, good, bad, primary, backup

Line(kind, content) == [hashType |-> kind, hash |-> content, name |-> "this"]
Pinned == <<[exists |-> TRUE, lines |-> <<Line("known", good)>>]>>
PinnedBad == <<[exists |-> TRUE, lines |-> <<Line("known", bad)>>]>>
Unlisted == <<[exists |-> FALSE, lines |-> <<>>],
              [exists |-> TRUE, lines |-> <<[Line("known", good) EXCEPT !.name = "other"]>>]>>
UnknownType == <<[exists |-> TRUE, lines |-> <<Line("known", good), Line("unknown", bad)>>]>>
NoHashFile == <<[exists |-> FALSE, lines |-> <<>>]>>

TwoUris == [p \in Proc |-> <<primary, backup>>]
CheckAll == [p \in Proc |-> FALSE]

(* Two builds of one tree; the primary site fails, or serves anything.      *)
SamePinned == [p \in Proc |-> Pinned]
BackupReliable == primary :> {Failure, Partial, bad} @@ backup :> {good}

(* Two trees that disagree: one pins good, the other has a .hash file that  *)
(* does not list the file.                                                  *)
OneUnlisted == p1 :> Pinned @@ p2 :> Unlisted
AnythingServed == primary :> {Failure, Partial, bad} @@ backup :> {Failure, good, bad}

(* No .hash file at all, and servers that only serve the complete file.     *)
AllUnhashed == [p \in Proc |-> NoHashFile]
OnlyGood == primary :> {Failure, good} @@ backup :> {good}
=============================================================================
