----------------------------- MODULE MCGitCache -----------------------------
(* An instance of GitCache for TLC: a short history, a tag of each kind and *)
(* a forge ref.                                                             *)
EXTENDS GitCache, TLC

CONSTANTS c1, c2, tag, light, pull

(* c1 is older than c2. *)
History == c1 :> {} @@ c2 :> {c1}

(* What runs are asked for. *)
Ask(cset, recurse, quiet) == [cset |-> cset, recurse |-> recurse, quiet |-> quiet]
AnyRequest == {Ask(c1, FALSE, TRUE), Ask(tag, TRUE, FALSE), Ask(light, TRUE, TRUE),
               Ask(pull, FALSE, FALSE)}

(* Every command whose failure the script sees may fail. *)
AnyStep == Steps \ {"special", "verify"}
=============================================================================
