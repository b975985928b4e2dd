------------------------------ MODULE KconfigSync ------------------------------
(***************************************************************************)
(* What conf_write_autoconf (support/kconfig/confdata.c) promises to a      *)
(* build: it compares the new values with auto.conf, touches the header of  *)
(* every symbol that differs, and only then replaces autoconf.h and, last,  *)
(* auto.conf, so that an object compiled with an old value depends on a     *)
(* touched header, wherever the run is interrupted.                         *)
(***************************************************************************)
CONSTANTS Names,    \* the symbols
          Settings  \* the values they may have

VARIABLES auto,     \* auto.conf
          header,   \* autoconf.h
          touched,  \* the headers touched since the last build
          built,    \* what each symbol's objects were compiled with
          want,     \* what this run writes, auto.conf's values between runs
          left,     \* the headers this run has still to touch
          stage,    \* how far this run is
          fresh     \* auto.conf is newer than .config

vars == <<auto, header, touched, built, want, left, stage, fresh>>

Init == /\ auto \in [Names -> Settings]
        /\ header = auto
        /\ built = auto
        /\ want = auto
        /\ touched = {}
        /\ left = {}
        /\ stage = "idle"
        /\ fresh = FALSE

Differing == {s \in Names : want'[s] # auto[s]}

(* make runs conf when auto.conf is older than .config.                     *)
Begin == /\ stage = "idle"
         /\ ~fresh
         /\ want' \in [Names -> Settings]
         /\ left' \in SUBSET Names
         /\ Differing \subseteq left'
         /\ stage' = "split"
         /\ UNCHANGED <<auto, header, touched, built, fresh>>

Touch(s) == /\ stage = "split"
            /\ s \in left
            /\ touched' = touched \cup {s}
            /\ left' = left \ {s}
            /\ UNCHANGED <<auto, header, built, want, stage, fresh>>

WriteHeader == /\ stage = "split"
               /\ left = {}
               /\ header' = want
               /\ stage' = "header"
               /\ UNCHANGED <<auto, touched, built, want, left, fresh>>

WriteAuto == /\ stage = "header"
             /\ auto' = want
             /\ fresh' = TRUE
             /\ stage' = "idle"
             /\ UNCHANGED <<header, touched, built, want, left>>

(* The run fails or is killed. *)
Stop == /\ stage # "idle"
        /\ stage' = "idle"
        /\ want' = auto
        /\ left' = {}
        /\ UNCHANGED <<auto, header, touched, built, fresh>>

(* .config is saved again. *)
Save == /\ stage = "idle"
        /\ fresh' = FALSE
        /\ UNCHANGED <<auto, header, touched, built, want, left, stage>>

(* make compiles again what depends on a touched header. *)
Build == /\ stage = "idle"
         /\ fresh
         /\ built' = [s \in Names |-> IF s \in touched THEN header[s] ELSE built[s]]
         /\ touched' = {}
         /\ UNCHANGED <<auto, header, want, left, stage, fresh>>

Next == \/ Begin
        \/ \E s \in Names : Touch(s)
        \/ WriteHeader
        \/ WriteAuto
        \/ Stop
        \/ Save
        \/ Build

Spec == Init /\ [][Next]_vars

(* Whatever the next build does not compile again was compiled with the     *)
(* value the header gives it now.                                           *)
NoStaleObject == stage = "idle" /\ fresh => \A s \in Names \ touched : built[s] = header[s]

(* Why it holds.  Objects that are not due were compiled with what auto.conf *)
(* says; while headers are touched, a change is touched or still to touch;  *)
(* when autoconf.h is new, every change has been touched; and when auto.conf *)
(* is fresh, it says what autoconf.h says, and nobody is at work.           *)
BuiltAsAuto == \A s \in Names \ touched : built[s] = auto[s]
NothingForgotten == stage = "split" => \A s \in Names : want[s] # auto[s] => s \in touched \cup left
AllTouched == stage = "header" => /\ header = want
                                  /\ \A s \in Names : want[s] # auto[s] => s \in touched
FreshIsDone == fresh => stage = "idle" /\ header = auto
IInv == BuiltAsAuto /\ NothingForgotten /\ AllTouched /\ FreshIsDone
================================================================================
