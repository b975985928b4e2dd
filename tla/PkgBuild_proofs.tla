---------------------------- MODULE PkgBuild_proofs ----------------------------
(****************************************************************************)
(* Theorems about PkgBuild: the stamps of a package say what is done, and   *)
(* what a step needs is there while it runs, for any packages, any          *)
(* dependencies, any number of jobs, any goals, edits and faults.           *)
(****************************************************************************)
EXTENDS PkgBuild, TLAPS

Stamps == {"absent", "current", "outdated"}
Plans == {"unseen", "maybe", "must", "running", "remade", "kept", "failed"}

Types ==
    /\ stamp \in [Targets -> Stamps]
    /\ out \in [Targets -> Nat \cup {None, Torn}]
    /\ plan \in [Targets -> Plans]
    /\ src \in [Pkg -> Nat]

(* A step that began found its prerequisites settled.                       *)
InOrder ==
    \A t \in Targets : plan[t] \in {"running", "remade", "kept", "failed"} => Finished(Prereqs[t])

(* A step that is to be made, or was begun and did not end, has no stamp    *)
(* that a later make would believe.                                         *)
Unstamped ==
    \A t \in Targets : plan[t] \in {"must", "running", "failed"} => stamp[t] # "current"

(* A step made again has outdated those after it until they are made.       *)
Outdates ==
    \A t \in Targets : \A u \in Older[t] :
        plan[u] = "remade" /\ plan[t] # "remade" => stamp[t] # "current"

(* What make takes for done in this run is done, even when its stamp has    *)
(* been removed since by a goal beside it.                                  *)
Settled ==
    \A t \in Targets : plan[t] \in {"maybe", "remade", "kept"} /\ t[1] \notin gone
                       => out[t] \notin {None, Torn}

(* No stamp is an older prerequisite of the configure step of a package     *)
(* with an overridden source.                                               *)
NeverOutdated == \A p \in Override : stamp[<<p, "configured">>] # "outdated"

IInv == Types /\ InOrder /\ Unstamped /\ Outdates /\ Settled /\ NeverOutdated /\ SoundStamps

------------------------------------------------------------------------------
(* The graph of the targets.                                                *)

LEMMA TargetParts ==
    \A t \in Targets : t[1] \in Pkg /\ t[2] \in Steps(t[1]) /\ t = <<t[1], t[2]>>
BY DEF Targets

LEMMA TargetOf == \A p \in Pkg : \A s \in Steps(p) : <<p, s>> \in Targets
BY DEF Targets

LEMMA InstallSteps ==
    \A p \in Pkg : Installs[p] \subseteq {"host", "staging", "images", "target"}
BY PkgAssumption

LEMMA StepNames ==
    \A p \in Pkg : Steps(p) \subseteq {"rsynced", "downloaded", "extracted", "patched", "configured",
                                       "built", "installed", "host", "staging", "images", "target"}
BY InstallSteps DEF Steps

LEMMA Always ==
    ASSUME NEW p \in Pkg
    PROVE  /\ <<p, "configured">> \in Targets
           /\ <<p, "built">> \in Targets
           /\ <<p, "installed">> \in Targets
           /\ <<p, SourceStep(p)>> \in Targets
<1>1. {"configured", "built", "installed", SourceStep(p)} \subseteq Steps(p)
    BY DEF Steps, SourceStep
<1>2. QED BY <1>1, TargetOf

LEMMA GraphTypes ==
    ASSUME NEW t \in Targets
    PROVE  /\ Older[t] = Normal(t) /\ Prereqs[t] = Normal(t) \cup OrderOnly(t)
           /\ Older[t] \subseteq Of(t[1]) /\ Older[t] \subseteq Prereqs[t]
           /\ Prereqs[t] \subseteq Targets
<1>1. Older[t] = Normal(t) /\ Prereqs[t] = Normal(t) \cup OrderOnly(t)
    BY DEF Older, Prereqs
<1>2. Normal(t) \subseteq Of(t[1]) /\ Of(t[1]) \subseteq Targets
    BY DEF Normal, Of
<1>3. OrderOnly(t) \subseteq Targets
  <2>1. \A d \in Pkg : <<d, "installed">> \in Targets /\ <<d, SourceStep(d)>> \in Targets
      BY Always
  <2>2. (IF t[2] \in Prepared THEN Needs[t[1]][t[2]] ELSE {}) \subseteq Pkg
      BY TargetParts, PkgAssumption
  <2>3. QED BY <2>1, <2>2, <1>2 DEF OrderOnly
<1>4. QED BY <1>1, <1>2, <1>3

(* No step comes before itself.                                             *)
LEMMA NotBeforeItself == \A t \in Targets : t \notin Older[t]
<1> SUFFICES ASSUME NEW t \in Targets PROVE t[2] \notin Before[t[2]]
    BY GraphTypes DEF Normal
<1>1. t[2] \in {"rsynced", "downloaded", "extracted", "patched", "configured",
                "built", "installed", "host", "staging", "images", "target"}
    BY TargetParts, StepNames
<1>2. QED BY <1>1 DEF Before

(* What is installed was compared with what was built.                      *)
LEMMA BuiltBefore ==
    ASSUME NEW t \in Targets, t[2] \in Installs[t[1]] \cup {"installed"}
    PROVE  <<t[1], "built">> \in Older[t]
<1>1. t[2] \in {"host", "staging", "images", "target", "installed"}
    BY TargetParts, InstallSteps
<1>2. "built" \in Before[t[2]]
    BY <1>1 DEF Before
<1>3. QED BY <1>2, Always, TargetParts, GraphTypes DEF Normal, Of

(* The output that a step carries on is of a prerequisite, or, of built, of *)
(* one of configured.                                                       *)
LEMMA CarriedFrom ==
    ASSUME NEW t \in Targets, t[2] \notin {"rsynced", "downloaded"}
    PROVE  LET u == <<t[1], Carried(t[1])[t[2]]>>
               c == <<t[1], "configured">>
           IN  /\ u \in Targets
               /\ \/ u \in Prereqs[t]
                  \/ t[2] = "built" /\ c \in Prereqs[t] /\ u \in Prereqs[c]
<1> DEFINE p == t[1]
           c == <<p, "configured">>
           s == <<p, SourceStep(p)>>
<1>1. p \in Pkg /\ t = <<p, t[2]>> /\ t[2] \in Steps(p)
    BY TargetParts
<1>2. c \in Targets /\ s \in Targets /\ <<p, "built">> \in Targets
    BY <1>1, Always
<1>3. s \in Prereqs[c]
  <2>1. CASE p \in Override
      BY <1>2, <2>1, GraphTypes DEF SourceStep, OrderOnly, Of
  <2>2. CASE p \notin Override
      BY <1>2, <2>2, GraphTypes DEF SourceStep, Normal, Of, Before
  <2>3. QED BY <2>1, <2>2
<1>4. CASE t[2] = "built"
  <2>1. c \in Prereqs[t]
      BY <1>2, <1>4, GraphTypes DEF Normal, Of, Before
  <2>2. Carried(p)[t[2]] = SourceStep(p)
      BY <1>4 DEF Carried
  <2>3. QED BY <1>2, <1>3, <1>4, <2>1, <2>2
<1>5. CASE t[2] = "configured"
  <2>1. Carried(p)[t[2]] = SourceStep(p)
      BY <1>5 DEF Carried
  <2>2. QED BY <1>1, <1>2, <1>3, <1>5, <2>1
<1>6. CASE t[2] \in Installs[p] \cup {"installed"}
  <2>1. t[2] \in {"host", "staging", "images", "target", "installed"}
      BY <1>1, <1>6, InstallSteps
  <2>2. Carried(p)[t[2]] = "built"
      BY <2>1 DEF Carried
  <2>3. QED BY <1>2, <1>6, <2>2, BuiltBefore, GraphTypes
<1>7. CASE t[2] \in {"extracted", "patched"}
  <2>1. p \notin Override /\ {"downloaded", "extracted"} \subseteq Steps(p)
      BY <1>1, <1>7, InstallSteps DEF Steps
  <2>2. <<p, "downloaded">> \in Targets /\ <<p, "extracted">> \in Targets
      BY <1>1, <2>1, TargetOf
  <2>3. Carried(p)[t[2]] = (IF t[2] = "patched" THEN "extracted" ELSE "downloaded")
      BY <1>7 DEF Carried
  <2>4. <<p, Carried(p)[t[2]]>> \in Normal(t)
      BY <1>7, <2>2, <2>3 DEF Normal, Of, Before
  <2>5. QED BY <2>2, <2>4, GraphTypes
<1>8. t[2] \in {"built", "configured", "extracted", "patched", "installed"} \cup Installs[p]
    BY <1>1 DEF Steps
<1>9. QED BY <1>4, <1>5, <1>6, <1>7, <1>8

(* The configure step of an overridden source is compared with nothing.     *)
LEMMA ConfiguredAlone == \A p \in Override : Older[<<p, "configured">>] = {}
<1> SUFFICES ASSUME NEW p \in Override PROVE Normal(<<p, "configured">>) = {}
    BY PkgAssumption, Always, GraphTypes
<1>1. "patched" \notin Steps(p)
    BY InstallSteps, PkgAssumption DEF Steps
<1>2. <<p, "patched">> \notin Targets
    BY <1>1, TargetParts
<1>3. QED BY <1>2, TargetParts DEF Normal, Of, Before

------------------------------------------------------------------------------
(* The steps.                                                               *)

LEMMA InitIInv == Init => IInv
<1> SUFFICES ASSUME Init PROVE IInv
    OBVIOUS
<1>1. Types
    BY DEF Init, Types, Stamps, Plans
<1>2. NeverOutdated
    BY PkgAssumption, Always DEF Init, NeverOutdated
<1>3. \A t \in Targets : plan[t] = "unseen" /\ stamp[t] = "absent" /\ Older[t] \subseteq Targets
    BY GraphTypes DEF Init
<1>4. InOrder /\ Unstamped /\ Outdates /\ Settled /\ SoundStamps
    BY <1>3 DEF InOrder, Unstamped, Outdates, Settled, SoundStamps, Trusted
<1>5. QED BY <1>1, <1>2, <1>4 DEF IInv

(* Most steps change no output and take stamps away at most.                *)
LEMMA Removing ==
    ASSUME IInv, Types', UNCHANGED <<out, plan, gone>>,
           \A t \in Targets : stamp'[t] = stamp[t] \/ stamp'[t] = "absent"
    PROVE  IInv'
<1>1. InOrder'
    BY DEF IInv, InOrder, Finished
<1>2. Unstamped' /\ Outdates' /\ Settled'
    BY GraphTypes DEF IInv, Unstamped, Outdates, Settled
<1>3. NeverOutdated'
    BY PkgAssumption, Always DEF IInv, NeverOutdated
<1>4. SoundStamps'
  <2> SUFFICES ASSUME NEW t \in Targets, Trusted(t)' PROVE
          /\ out[t] \notin {None, Torn}
          /\ t[2] \in Installs[t[1]] /\ stamp'[<<t[1], "built">>] = "current"
             => out[t] = out[<<t[1], "built">>]
      BY DEF SoundStamps
  <2>1. Trusted(t)
      BY DEF Trusted
  <2>2. stamp'[<<t[1], "built">>] = "current" => stamp[<<t[1], "built">>] = "current"
      BY TargetParts, Always
  <2>3. QED BY <2>1, <2>2 DEF IInv, SoundStamps
<1>5. QED BY <1>1, <1>2, <1>3, <1>4 DEF IInv

LEMMA EditStep == ASSUME IInv, NEW p \in Pkg, Edit(p) PROVE IInv'
<1>1. Types'
    BY DEF IInv, Types, Edit, state, make
<1>2. QED BY <1>1, Removing DEF Edit, state, make

LEMMA RemoveStampStep == ASSUME IInv, NEW i, RemoveStamp(i) PROVE IInv'
<1>1. Types'
    BY DEF IInv, Types, Stamps, RemoveStamp
<1>2. QED BY <1>1, Removing DEF RemoveStamp, IInv, Types

LEMMA WipeStampStep == ASSUME IInv, NEW i, WipeStamp(i) PROVE IInv'
<1>1. Types'
    BY DEF IInv, Types, Stamps, WipeStamp, make
<1>2. QED BY <1>1, Removing DEF WipeStamp, IInv, Types, make

LEMMA ExitStep == ASSUME IInv, MakeExits PROVE IInv'
<1>1. Types' /\ \A t \in Targets : plan'[t] = "unseen"
    BY DEF IInv, Types, Plans, MakeExits, state
<1>2. InOrder' /\ Unstamped' /\ Outdates' /\ Settled'
    BY <1>1, GraphTypes DEF InOrder, Unstamped, Outdates, Settled
<1>3. NeverOutdated' /\ SoundStamps'
    BY DEF IInv, NeverOutdated, SoundStamps, Trusted, MakeExits, state
<1>4. QED BY <1>1, <1>2, <1>3 DEF IInv

LEMMA BeginDircleanStep == ASSUME IInv, NEW i, BeginDirclean(i) PROVE IInv'
<1> DEFINE p == goals[i].pkg
<1>1. /\ UNCHANGED <<stamp, plan, src>> /\ gone' = gone \cup {p}
      /\ \A t \in Targets : out'[t] = (IF t[1] = p THEN Torn ELSE out[t])
      /\ Types'
    BY DEF BeginDirclean, IInv, Types
<1>2. InOrder' /\ Unstamped' /\ Outdates' /\ NeverOutdated'
    BY <1>1 DEF IInv, InOrder, Finished, Unstamped, Outdates, NeverOutdated
<1>3. Settled'
    BY <1>1 DEF IInv, Settled
<1>4. SoundStamps'
  <2> SUFFICES ASSUME NEW t \in Targets, Trusted(t)' PROVE
          /\ out'[t] \notin {None, Torn}
          /\ t[2] \in Installs[t[1]] /\ stamp[<<t[1], "built">>] = "current"
             => out'[t] = out'[<<t[1], "built">>]
      BY <1>1 DEF SoundStamps
  <2>1. Trusted(t) /\ t[1] # p
      BY <1>1 DEF Trusted
  <2>2. out'[t] = out[t] /\ out'[<<t[1], "built">>] = out[<<t[1], "built">>]
      BY <1>1, <2>1, TargetParts, Always
  <2>3. QED BY <2>1, <2>2 DEF IInv, SoundStamps
<1>5. QED BY <1>1, <1>2, <1>3, <1>4 DEF IInv

(* A package stops being gone only when it has no stamps and make has not   *)
(* looked at it.                                                            *)
LEMMA EndDircleanStep == ASSUME IInv, NEW i, EndDirclean(i) PROVE IInv'
<1> DEFINE p == goals[i].pkg
<1>1. /\ UNCHANGED <<stamp, plan, src>>
      /\ \A t \in Targets : out'[t] = (IF t[1] = p THEN None ELSE out[t])
      /\ Types'
    BY DEF EndDirclean, IInv, Types
<1>2. InOrder' /\ Unstamped' /\ Outdates' /\ NeverOutdated'
    BY <1>1 DEF IInv, InOrder, Finished, Unstamped, Outdates, NeverOutdated
<1>3. \A t \in Targets : t[1] = p => stamp[t] = "absent"
    BY DEF EndDirclean, Of
<1>4. \A t \in Targets : t[1] \notin gone' /\ t[1] # p => t[1] \notin gone
    BY DEF EndDirclean, Of
<1>5. \A t \in Targets : t[1] \notin gone' /\ plan[t] # "unseen" => t[1] # p
    BY DEF EndDirclean, Of
<1>6. Settled'
    BY <1>1, <1>4, <1>5 DEF IInv, Settled
<1>7. SoundStamps'
  <2> SUFFICES ASSUME NEW t \in Targets, Trusted(t)' PROVE
          /\ out'[t] \notin {None, Torn}
          /\ t[2] \in Installs[t[1]] /\ stamp[<<t[1], "built">>] = "current"
             => out'[t] = out'[<<t[1], "built">>]
      BY <1>1 DEF SoundStamps
  <2>1. t[1] # p
      BY <1>1, <1>3 DEF Trusted
  <2>2. Trusted(t)
      BY <1>1, <1>4, <2>1 DEF Trusted
  <2>3. out'[t] = out[t] /\ out'[<<t[1], "built">>] = out[<<t[1], "built">>]
      BY <1>1, <2>1, TargetParts, Always
  <2>4. QED BY <2>2, <2>3 DEF IInv, SoundStamps
<1>8. QED BY <1>1, <1>2, <1>6, <1>7 DEF IInv

LEMMA VisitStep == ASSUME IInv, NEW i, Visit(i) PROVE IInv'
<1>1. /\ UNCHANGED <<stamp, out, gone, src>>
      /\ \A t \in Targets :
            plan'[t] = plan[t] \/ (plan[t] = "unseen" /\ plan'[t] = Looked(t))
      /\ plan' \in [Targets -> Plans]
    BY DEF Visit, state, Looked, IInv, Types, Plans
<1>2. Types' /\ NeverOutdated' /\ SoundStamps'
    BY <1>1 DEF IInv, Types, NeverOutdated, SoundStamps, Trusted
<1>3. InOrder'
    BY <1>1, GraphTypes DEF IInv, InOrder, Finished, Looked
<1>4. Unstamped' /\ Outdates' /\ Settled'
    BY <1>1, GraphTypes DEF IInv, Unstamped, Outdates, Settled, Looked, SoundStamps, Trusted
<1>5. QED BY <1>1, <1>2, <1>3, <1>4 DEF IInv

LEMMA KeepStep == ASSUME IInv, Keep PROVE IInv'
<1>1. /\ UNCHANGED <<stamp, out, gone, src>>
      /\ \A t \in Targets :
            plan'[t] = IF t \in UpToDate THEN "kept" ELSE plan[t]
      /\ plan' \in [Targets -> Plans]
    BY DEF Keep, state, IInv, Types, Plans
<1>2. \A t \in UpToDate : plan[t] = "maybe" /\ Finished(Prereqs[t])
    BY DEF UpToDate
<1>3. Types' /\ NeverOutdated' /\ SoundStamps'
    BY <1>1 DEF IInv, Types, NeverOutdated, SoundStamps, Trusted
<1>4. InOrder'
    BY <1>1, <1>2, GraphTypes DEF IInv, InOrder, Finished
<1>5. Unstamped' /\ Settled'
    BY <1>1, <1>2 DEF IInv, Unstamped, Settled
<1>6. Outdates'
    BY <1>1, <1>2, GraphTypes DEF IInv, Outdates
<1>7. QED BY <1>1, <1>3, <1>4, <1>5, <1>6 DEF IInv

(* A step begins: its stamp, if it has one, is already outdated.            *)
LEMMA StartStep == ASSUME IInv, NEW t \in Targets, Start(t) PROVE IInv'
<1>1. /\ UNCHANGED <<stamp, gone, src>>
      /\ plan' = [plan EXCEPT ![t] = "running"]
      /\ out' = [out EXCEPT ![t] = Torn]
      /\ plan[t] \in {"must", "maybe"} /\ Finished(Prereqs[t])
      /\ plan[t] = "must" \/ \E u \in Older[t] : plan[u] = "remade"
    BY DEF Start
<1>2. Types' /\ NeverOutdated'
    BY <1>1 DEF IInv, Types, Plans, NeverOutdated
<1>3. stamp[t] # "current"
    BY <1>1 DEF IInv, Unstamped, Outdates
<1>4. \A u \in Targets \ {t} : plan'[u] = plan[u] /\ out'[u] = out[u]
    BY <1>1 DEF IInv, Types
<1>5. plan'[t] = "running"
    BY <1>1 DEF IInv, Types
<1>6. InOrder'
  <2> SUFFICES ASSUME NEW u \in Targets, plan'[u] \in {"running", "remade", "kept", "failed"}
               PROVE  Finished(Prereqs[u])'
      BY DEF InOrder
  <2>1. Finished(Prereqs[u])
      BY <1>1, <1>4 DEF IInv, InOrder
  <2>2. QED BY <2>1, <1>1, <1>4, GraphTypes DEF Finished
<1>7. Unstamped' /\ Settled'
    BY <1>1, <1>3, <1>4, <1>5 DEF IInv, Unstamped, Settled
<1>8. Outdates'
    BY <1>1, <1>3, <1>4, <1>5, GraphTypes DEF IInv, Outdates
<1>9. SoundStamps'
  <2> SUFFICES ASSUME NEW u \in Targets, Trusted(u)' PROVE
          /\ out'[u] \notin {None, Torn}
          /\ u[2] \in Installs[u[1]] /\ stamp[<<u[1], "built">>] = "current"
             => out'[u] = out'[<<u[1], "built">>]
      BY <1>1 DEF SoundStamps
  <2>1. Trusted(u) /\ u # t
      BY <1>1, <1>3 DEF Trusted
  <2>2. stamp[<<u[1], "built">>] = "current" => out'[<<u[1], "built">>] = out[<<u[1], "built">>]
      BY <1>3, <1>4, TargetParts, Always
  <2>3. QED BY <1>4, <2>1, <2>2 DEF IInv, SoundStamps
<1>10. QED BY <1>2, <1>6, <1>7, <1>8, <1>9 DEF IInv

LEMMA StepFailsStep == ASSUME IInv, NEW t \in Targets, StepFails(t) PROVE IInv'
<1>1. /\ UNCHANGED <<stamp, out, gone, src>>
      /\ plan' = [plan EXCEPT ![t] = "failed"]
      /\ plan[t] = "running"
    BY DEF StepFails, state
<1>2. Types' /\ NeverOutdated' /\ SoundStamps'
    BY <1>1 DEF IInv, Types, Plans, NeverOutdated, SoundStamps, Trusted
<1>3. InOrder'
    BY <1>1, GraphTypes DEF IInv, Types, InOrder, Finished
<1>4. Unstamped' /\ Settled'
    BY <1>1 DEF IInv, Types, Unstamped, Settled
<1>5. Outdates'
    BY <1>1, GraphTypes DEF IInv, Types, Outdates, Unstamped
<1>6. QED BY <1>1, <1>2, <1>3, <1>4, <1>5 DEF IInv

(* What a step leaves when it ends well: its own result, of complete        *)
(* prerequisites unless one of them is of a package that is gone.           *)
LEMMA GoodResult ==
    ASSUME IInv, NEW t \in Targets, plan[t] = "running"
    PROVE  /\ Result(t) \in Nat \cup {None, Torn}
           /\ (\A u \in Prereqs[t] : u[1] \notin gone) /\ t[1] \notin gone
              => /\ Result(t) \notin {None, Torn}
                 /\ t[2] \in Installs[t[1]] => Result(t) = out[<<t[1], "built">>]
<1> DEFINE p == t[1]
           u == <<p, Carried(p)[t[2]]>>
<1>1. p \in Pkg /\ t[2] \in Steps(p) /\ src[p] \in Nat
    BY TargetParts DEF IInv, Types
<1>2. CASE t[2] \in {"rsynced", "downloaded"}
  <2>1. Result(t) = (IF t[2] = "rsynced" THEN src[p] ELSE 0)
      BY <1>2 DEF Result
  <2>2. t[2] \notin Installs[p]
      BY <1>1, <1>2, InstallSteps
  <2>3. QED BY <1>1, <2>1, <2>2, PkgAssumption
<1>3. CASE t[2] \notin {"rsynced", "downloaded"}
  <2>1. u \in Targets /\ out[u] \in Nat \cup {None, Torn}
      BY <1>3, CarriedFrom DEF IInv, Types
  <2>2. Result(t) = IF \E v \in Prereqs[t] : out[v] = Torn THEN Torn ELSE out[u]
      BY <1>3 DEF Result
  <2>3. ASSUME \A v \in Prereqs[t] : v[1] \notin gone, p \notin gone
        PROVE  /\ Result(t) \notin {None, Torn}
               /\ t[2] \in Installs[p] => Result(t) = out[<<p, "built">>]
    <3>1. Prereqs[t] \subseteq Targets /\ Finished(Prereqs[t])
        BY GraphTypes DEF IInv, InOrder
    <3>2. \A v \in Prereqs[t] : out[v] \notin {None, Torn}
        BY <2>3, <3>1 DEF IInv, Settled, Finished
    <3>3. plan[u] \in {"remade", "kept"}
        BY <1>1, <1>3, <3>1, CarriedFrom, Always DEF IInv, InOrder, Finished
    <3>4. out[u] \notin {None, Torn}
        BY <2>1, <2>3, <3>3 DEF IInv, Settled
    <3>5. t[2] \in Installs[p] => Carried(p)[t[2]] = "built"
        BY <1>1, InstallSteps DEF Carried
    <3>6. QED BY <2>2, <3>2, <3>4, <3>5
  <2>4. QED BY <2>1, <2>2, <2>3
<1>4. QED BY <1>2, <1>3

(* A step ends well: it is stamped, and those after it are outdated.        *)
LEMMA FinishStep == ASSUME IInv, NEW t \in Targets, Finish(t) PROVE IInv'
<1>1. /\ UNCHANGED src
      /\ plan[t] = "running"
      /\ plan' = [plan EXCEPT ![t] = "remade"]
      /\ out' = [out EXCEPT ![t] = Result(t)]
      /\ gone \subseteq gone'
      /\ (\E u \in Prereqs[t] : u[1] \in gone) => t[1] \in gone'
    BY DEF Finish
<1>2. stamp' = Touched(t)
    BY DEF Finish
<1>3. plan'[t] = "remade" /\ stamp'[t] = "current" /\ out'[t] = Result(t)
    BY <1>1, <1>2 DEF IInv, Types, Touched
<1>4. \A u \in Targets \ {t} :
        /\ plan'[u] = plan[u] /\ out'[u] = out[u]
        /\ stamp'[u] = IF t \in Older[u] /\ stamp[u] = "current" THEN "outdated" ELSE stamp[u]
    BY <1>1, <1>2 DEF IInv, Types, Touched
<1>5. Types'
  <2>1. stamp' \in [Targets -> Stamps]
      BY <1>2 DEF IInv, Types, Stamps, Touched
  <2>2. QED BY <1>1, <2>1, GoodResult DEF IInv, Types, Plans
<1>6. InOrder'
  <2> SUFFICES ASSUME NEW u \in Targets, plan'[u] \in {"running", "remade", "kept", "failed"}
               PROVE  Finished(Prereqs[u])'
      BY DEF InOrder
  <2>1. Finished(Prereqs[u])
      BY <1>1, <1>4 DEF IInv, InOrder
  <2>2. QED BY <2>1, <1>3, <1>4, GraphTypes DEF Finished
<1>7. Unstamped'
    BY <1>3, <1>4 DEF IInv, Unstamped
<1>8. Outdates'
  <2> SUFFICES ASSUME NEW v \in Targets, NEW u \in Older[v], plan'[u] = "remade", plan'[v] # "remade"
               PROVE  stamp'[v] # "current"
      BY DEF Outdates
  <2>1. v # t /\ u \in Targets
      BY <1>3, GraphTypes
  <2>2. CASE u = t
      BY <1>4, <2>1, <2>2
  <2>3. CASE u # t
      BY <1>4, <2>1, <2>3 DEF IInv, Outdates
  <2>4. QED BY <2>2, <2>3
<1>9. t[1] \notin gone' =>
        /\ out'[t] \notin {None, Torn}
        /\ t[2] \in Installs[t[1]] => out'[t] = out[<<t[1], "built">>]
    BY <1>1, <1>3, GoodResult
<1>10. Settled'
  <2> SUFFICES ASSUME NEW u \in Targets, plan'[u] \in {"maybe", "remade", "kept"}, u[1] \notin gone'
               PROVE  out'[u] \notin {None, Torn}
      BY DEF Settled
  <2>1. CASE u = t
      BY <1>9, <2>1
  <2>2. CASE u # t
      BY <1>1, <1>4, <2>2 DEF IInv, Settled
  <2>3. QED BY <2>1, <2>2
<1>11. NeverOutdated'
    BY <1>3, <1>4, PkgAssumption, Always, ConfiguredAlone DEF IInv, NeverOutdated
<1>12. SoundStamps'
  <2> SUFFICES ASSUME NEW u \in Targets, Trusted(u)' PROVE
          /\ out'[u] \notin {None, Torn}
          /\ u[2] \in Installs[u[1]] /\ stamp'[<<u[1], "built">>] = "current"
             => out'[u] = out'[<<u[1], "built">>]
      BY DEF SoundStamps
  <2> DEFINE b == <<u[1], "built">>
  <2>1. b \in Targets /\ u[1] \in Pkg
      BY TargetParts, Always
  <2>2. u[2] \in Installs[u[1]] => b \in Older[u] /\ b # u
      BY BuiltBefore, NotBeforeItself
  <2>3. CASE u = t
    <3>1. t[1] \notin gone'
        BY <2>3 DEF Trusted
    <3>2. u[2] \in Installs[u[1]] => out'[b] = out[b]
        BY <1>4, <2>1, <2>2, <2>3
    <3>3. QED BY <1>9, <2>3, <3>1, <3>2
  <2>4. CASE u # t
    <3>1. Trusted(u) /\ t \notin Older[u] /\ out'[u] = out[u]
        BY <1>1, <1>4, <2>4 DEF Trusted
    <3>2. u[2] \in Installs[u[1]] => b # t
        BY <2>2, <3>1
    <3>3. u[2] \in Installs[u[1]] /\ stamp'[b] = "current" => stamp[b] = "current" /\ out'[b] = out[b]
        BY <1>4, <2>1, <3>2
    <3>4. QED BY <3>1, <3>3 DEF IInv, SoundStamps
  <2>5. QED BY <2>3, <2>4
<1>13. QED BY <1>5, <1>6, <1>7, <1>8, <1>10, <1>11, <1>12 DEF IInv

LEMMA StepIInv == IInv /\ [Next]_vars => IInv'
<1> SUFFICES ASSUME IInv, [Next]_vars PROVE IInv'
    OBVIOUS
<1> USE DEF state, make
<1>1. CASE UNCHANGED vars
  <2>1. Types'
      BY <1>1 DEF IInv, Types, vars
  <2>2. QED BY <1>1, <2>1, Removing DEF vars
<1>2. ASSUME NEW i, Goal(i) PROVE IInv'
  <2>1. CASE BeginClean(i)
    <3>1. Types'
        BY <2>1 DEF IInv, Types, BeginClean
    <3>2. QED BY <2>1, <3>1, Removing DEF BeginClean
  <2>2. CASE GoalEnds(i)
    <3>1. Types'
        BY <2>2 DEF IInv, Types, GoalEnds
    <3>2. QED BY <2>2, <3>1, Removing DEF GoalEnds
  <2>3. QED BY <1>2, <2>1, <2>2, RemoveStampStep, BeginDircleanStep, WipeStampStep,
               EndDircleanStep, VisitStep DEF Goal
<1>3. ASSUME NEW t \in Targets, Target(t) PROVE IInv'
    BY <1>3, StartStep, FinishStep, StepFailsStep DEF Target
<1>4. CASE Ends \/ Interrupt
    BY <1>4, ExitStep DEF Ends, Interrupt
<1>5. ASSUME NEW line \in GoalLines, Make(line) PROVE IInv'
  <2>1. Types'
      BY <1>5 DEF IInv, Types, Make
  <2>2. QED BY <1>5, <2>1, Removing DEF Make
<1>6. QED BY <1>1, <1>2, <1>3, <1>4, <1>5, KeepStep, EditStep DEF Next, MakeStep

(* The inductive invariant holds in every state of the build engine: what   *)
(* make knows of its targets, the stamps and the outputs fit together.      *)
THEOREM EngineInvariance == Spec => []IInv
<1>1. QED BY InitIInv, StepIInv, PTL DEF Spec

(* A step make would not run again is done, and what is installed is what   *)
(* was built (the stamps of pkg-generic.mk).                                *)
THEOREM StampsAreSound == Spec => []SoundStamps
<1>1. IInv => SoundStamps
    BY DEF IInv
<1>2. QED BY <1>1, EngineInvariance, PTL

------------------------------------------------------------------------------
(* From a running step to the packages it needs.                            *)

(* While a package is configured, compiled or installed, the prerequisites  *)
(* of its configure step are settled.                                       *)
LEMMA ConfigureSettled ==
    ASSUME IInv, NEW t \in Running,
           t[2] \in {"configured", "built", "installed"} \cup Installs[t[1]]
    PROVE  Finished(Prereqs[<<t[1], "configured">>])
<1> DEFINE c == <<t[1], "configured">>
           b == <<t[1], "built">>
<1>1. t \in Targets /\ plan[t] = "running" /\ c \in Targets /\ b \in Targets /\ t = <<t[1], t[2]>>
    BY TargetParts, Always DEF Running
<1>2. Finished(Prereqs[t])
    BY <1>1 DEF IInv, InOrder
<1>3. c \in Prereqs[b]
    BY <1>1, GraphTypes DEF Normal, Of, Before
<1>4. CASE t = c
    BY <1>2, <1>4
<1>5. CASE t = b
    BY <1>1, <1>2, <1>3, <1>5 DEF IInv, InOrder, Finished
<1>6. CASE t[2] \in Installs[t[1]] \cup {"installed"}
  <2>1. b \in Prereqs[t]
      BY <1>1, <1>6, BuiltBefore, GraphTypes
  <2>2. Finished(Prereqs[b])
      BY <1>1, <1>2, <2>1 DEF IInv, InOrder, Finished
  <2>3. QED BY <1>1, <1>3, <2>2 DEF IInv, InOrder, Finished
<1>7. QED BY <1>1, <1>4, <1>5, <1>6

(* A package that make takes for installed is settled in every step.        *)
LEMMA WholeSettled ==
    ASSUME IInv, NEW d \in Pkg, Finished({<<d, "installed">>})
    PROVE  Finished(Of(d))
<1> DEFINE T(s) == <<d, s>>
<1> SUFFICES ASSUME NEW s \in Steps(d) PROVE plan[T(s)] \in {"remade", "kept"}
    BY TargetParts DEF Finished, Of
<1>1. \A r \in Steps(d) : \A q \in Steps(d) :
        q \in Before[r] /\ plan[T(r)] \in {"remade", "kept"} => plan[T(q)] \in {"remade", "kept"}
  <2> SUFFICES ASSUME NEW r \in Steps(d), NEW q \in Steps(d), q \in Before[r],
                      plan[T(r)] \in {"remade", "kept"}
               PROVE  plan[T(q)] \in {"remade", "kept"}
      OBVIOUS
  <2>1. T(r) \in Targets /\ T(q) \in Targets
      BY TargetOf
  <2>2. T(q) \in Prereqs[T(r)]
      BY <2>1, GraphTypes DEF Normal, Of
  <2>3. QED BY <2>1, <2>2 DEF IInv, InOrder, Finished
<1>2. {"configured", "built", "installed"} \subseteq Steps(d) /\ plan[T("installed")] \in {"remade", "kept"}
    BY DEF Steps, Finished
<1>3. s \in {"built", "host", "staging", "images", "target"} => plan[T(s)] \in {"remade", "kept"}
    BY <1>1, <1>2 DEF Before
<1>4. plan[T("built")] \in {"remade", "kept"}
    BY <1>1, <1>2 DEF Before
<1>5. plan[T("configured")] \in {"remade", "kept"}
    BY <1>1, <1>2, <1>4 DEF Before
<1>6. s \in {"patched", "extracted", "downloaded"} => plan[T(s)] \in {"remade", "kept"}
  <2>1. s \in {"patched", "extracted", "downloaded"} => {"patched", "extracted", "downloaded"} \subseteq Steps(d)
      BY InstallSteps DEF Steps
  <2>2. "patched" \in Steps(d) => plan[T("patched")] \in {"remade", "kept"}
      BY <1>1, <1>2, <1>5 DEF Before
  <2>3. {"patched", "extracted"} \subseteq Steps(d) => plan[T("extracted")] \in {"remade", "kept"}
      BY <1>1, <2>2 DEF Before
  <2>4. {"patched", "extracted", "downloaded"} \subseteq Steps(d) => plan[T("downloaded")] \in {"remade", "kept"}
      BY <1>1, <2>3 DEF Before
  <2>5. QED BY <2>1, <2>2, <2>3, <2>4
<1>7. s = "rsynced" => plan[T(s)] \in {"remade", "kept"}
  <2>1. T("configured") \in Targets
      BY Always
  <2>2. s = "rsynced" => T(s) \in Prereqs[T("configured")]
      BY <2>1, TargetOf, GraphTypes DEF OrderOnly, Of
  <2>3. QED BY <1>5, <2>1, <2>2 DEF IInv, InOrder, Finished
<1>8. QED BY <1>2, <1>3, <1>5, <1>6, <1>7, StepNames

(* While a package is configured, compiled or installed, the packages it    *)
(* depends on are whole, whatever make does beside it.                      *)
THEOREM DependenciesStay == Spec => []DepsWhole
<1>1. IInv => DepsWhole
  <2> SUFFICES ASSUME IInv, NEW t \in Running,
                      t[2] \in {"configured", "built", "installed"} \cup Installs[t[1]],
                      NEW d \in Needs[t[1]]["configured"]
               PROVE  /\ Of(d) \cap Running = {}
                      /\ d \notin gone => out[<<d, "installed">>] \notin {None, Torn}
      BY DEF DepsWhole
  <2> DEFINE c == <<t[1], "configured">>
             e == <<d, "installed">>
  <2>1. t[1] \in Pkg /\ c \in Targets
      BY TargetParts, Always DEF Running
  <2>2. d \in Pkg /\ e \in Targets
    <3>1. Needs[t[1]] \in [Prepared -> SUBSET Pkg] /\ "configured" \in Prepared
        BY <2>1, PkgAssumption DEF Prepared
    <3>2. Needs[t[1]]["configured"] \subseteq Pkg
        BY <3>1
    <3>3. QED BY <3>2, Always
  <2>3. e \in Prereqs[c]
      BY <2>1, GraphTypes DEF OrderOnly, Prepared
  <2>4. plan[e] \in {"remade", "kept"}
      BY <2>3, ConfigureSettled DEF Finished
  <2>5. Finished(Of(d))
      BY <2>2, <2>4, WholeSettled DEF Finished
  <2>6. Of(d) \cap Running = {}
      BY <2>5 DEF Running, Finished
  <2>7. d \notin gone => out[e] \notin {None, Torn}
      BY <2>2, <2>4 DEF IInv, Settled
  <2>8. QED BY <2>6, <2>7
<1>2. QED BY <1>1, EngineInvariance, PTL

(* Copying the source of a package again never configures it again.         *)
THEOREM ConfigurationStays == Spec => KeepsConfiguration
<1> DEFINE Keeps == \A p \in Override : LET c == <<p, "configured">> IN
                       stamp[c] # "absent" /\ plan[c] # "running" => plan'[c] # "running"
<1>1. IInv /\ [Next]_vars => [Keeps]_vars
  <2> SUFFICES ASSUME IInv, Next PROVE Keeps
      OBVIOUS
  <2> SUFFICES ASSUME NEW p \in Override,
                      stamp[<<p, "configured">>] # "absent", plan[<<p, "configured">>] # "running",
                      plan'[<<p, "configured">>] = "running"
               PROVE  FALSE
      OBVIOUS
  <2> DEFINE c == <<p, "configured">>
  <2>1. c \in Targets /\ stamp[c] = "current"
      BY PkgAssumption, Always DEF IInv, Types, Stamps, NeverOutdated
  <2>2. Start(c)
    <3>1. plan[c] # plan'[c]
        OBVIOUS
    <3>2. ASSUME NEW i, Goal(i) PROVE FALSE
        BY <2>1, <3>1, <3>2 DEF Goal, BeginClean, RemoveStamp, BeginDirclean, WipeStamp, EndDirclean,
               Visit, GoalEnds, Looked, make
    <3>3. ASSUME NEW t \in Targets, Target(t) PROVE Start(c)
        BY <2>1, <3>1, <3>3 DEF Target, Start, Finish, StepFails, IInv, Types
    <3>4. ~Keep
        BY <2>1, <3>1 DEF Keep
    <3>5. ~Ends /\ ~Interrupt
        BY <2>1, <3>1 DEF Ends, Interrupt, MakeExits
    <3>6. QED BY <3>1, <3>2, <3>3, <3>4, <3>5 DEF Next, MakeStep, Edit, Make, make
  <2>3. plan[c] # "must"
      BY <2>1 DEF IInv, Unstamped
  <2>4. QED BY <2>2, <2>3, ConfiguredAlone DEF Start
<1>2. Spec => [][Keeps]_vars
    BY <1>1, EngineInvariance, PTL DEF Spec
<1>3. QED BY <1>2 DEF KeepsConfiguration

------------------------------------------------------------------------------
(* make <pkg>-rebuild all, with one target directory: the edit of the       *)
(* source arrives in the image when the rebuild is the line's first goal.   *)

RebuildFirst ==
    \A line \in GoalLines : \A i \in DOMAIN line :
        line[Len(line)].kind = "all" /\ line[i].kind \in {"rebuild", "reconfigure"} => i = 1

Values == Nat \cup {None, Torn}

LineTypes ==
    /\ goals = << >> \/ goals \in GoalLines
    /\ DOMAIN at = DOMAIN goals /\ DOMAIN left = DOMAIN goals
    /\ asked \in [Pkg -> Nat] /\ \A p \in Pkg : asked[p] <= src[p]
    /\ tree \in [{"target"} -> [Pkg -> Values]] /\ image \in [Pkg -> Values]
    /\ goals = << >> => \A t \in Targets : plan[t] = "unseen"

(* One goal at a time.                                                      *)
InTurn ==
    /\ \A i, j \in DOMAIN goals : j < i /\ at[i] # "todo" => at[j] = "done"
    /\ \A i \in DOMAIN goals : at[i] = "wiping" => goals[i].kind = "dirclean"

(* The line begins with a rebuild of p.                                     *)
Redoing(p) ==
    /\ goals # << >> /\ goals[1].kind \in {"rebuild", "reconfigure"} /\ goals[1].pkg = p
    /\ p \in Override /\ "target" \in Installs[p]

Rsynced(p) == <<p, "rsynced">>
Built(p) == <<p, "built">>
Placed(p) == <<p, "target">>
Redone(p) == {Rsynced(p), Built(p), Placed(p)}

(* make looks at nothing before the stamps are removed.                     *)
NotLooked ==
    \A p \in Pkg : Redoing(p) /\ at[1] \in {"todo", "cleaning"}
                   => \A t \in Targets : plan[t] = "unseen"

(* The stamps go one by one ...                                             *)
BeingRemoved ==
    \A p \in Pkg : Redoing(p) /\ at[1] = "cleaning"
                   => \A t \in Redone(p) : t[2] \in left[1] \/ stamp[t] = "absent"

(* ... and when they are gone, what they stood for is made again.           *)
MadeAgain ==
    \A p \in Pkg : Redoing(p) /\ at[1] \notin {"todo", "cleaning"}
                   => \A t \in Redone(p) : \/ plan[t] \in {"must", "running", "remade", "failed"}
                                           \/ plan[t] = "unseen" /\ stamp[t] = "absent"

(* The edit goes on from the copied source to the target directory ...      *)
Fresh(v, p) == v \in Nat /\ v >= asked[p]
Arrives ==
    \A p \in Pkg : Redoing(p) /\ p \notin gone
        => /\ plan[Rsynced(p)] = "remade" => Fresh(out[Rsynced(p)], p)
           /\ plan[Built(p)] = "remade" => Fresh(out[Built(p)], p)
           /\ plan[Placed(p)] = "remade" => Fresh(tree["target"][p], p)

(* ... and into the image, with which the line ends.                        *)
Imaged ==
    goals # << >> /\ at[Len(goals)] = "done" /\ goals[Len(goals)].kind = "all"
        => /\ Finished(Targets)
           /\ \A p \in Pkg : Redoing(p) /\ p \notin gone => Fresh(image[p], p)

EInv == IInv /\ LineTypes /\ InTurn /\ NotLooked /\ BeingRemoved /\ MadeAgain /\ Arrives /\ Imaged

LEMMA RedoneTargets ==
    ASSUME NEW p \in Override, "target" \in Installs[p] PROVE Redone(p) \subseteq Targets
<1>1. p \in Pkg /\ {"rsynced", "built", "target"} \subseteq Steps(p)
    BY PkgAssumption DEF Steps
<1>2. QED BY <1>1, TargetOf DEF Redone, Rsynced, Built, Placed

LEMMA Line ==
    ASSUME LineTypes, goals # << >>
    PROVE  /\ DOMAIN goals = 1 .. Len(goals) /\ Len(goals) \in Nat \ {0}
           /\ goals \in GoalLines /\ goals \in Seq([kind : Kinds, pkg : Pkg])
<1>1. goals \in Seq([kind : Kinds, pkg : Pkg]) /\ goals \in GoalLines
    BY PkgAssumption DEF LineTypes
<1>2. QED BY <1>1

LEMMA Serially == ASSUME ~PerPackage PROVE Serial /\ \A p : Dir(p) = "target"
BY DEF Serial, Dir

LEMMA EInit == ASSUME ~PerPackage PROVE Init => EInv
<1> SUFFICES ASSUME Init PROVE EInv
    OBVIOUS
<1>1. goals = << >> /\ Dirs = {"target"} /\ Nothing \in [Pkg -> Values]
    BY DEF Init, Dirs, Nothing, Values
<1>2. LineTypes
    BY <1>1, PkgAssumption DEF Init, LineTypes
<1>3. InTurn /\ NotLooked /\ BeingRemoved /\ MadeAgain /\ Arrives /\ Imaged
    BY <1>1 DEF InTurn, NotLooked, BeingRemoved, MadeAgain, Arrives, Imaged, Redoing
<1>4. QED BY <1>2, <1>3, InitIInv DEF EInv

(* Steps that leave the goals, the plan and the results alone and take      *)
(* stamps away at most.                                                     *)
LEMMA Beside ==
    ASSUME EInv, IInv', UNCHANGED <<goals, at, left, asked, plan, gone, out, tree, image>>,
           \A p \in Pkg : src[p] <= src'[p],
           \A t \in Targets : stamp'[t] = stamp[t] \/ stamp'[t] = "absent"
    PROVE  EInv'
<1>1. LineTypes'
  <2>1. \A p \in Pkg : asked[p] <= src'[p]
      BY DEF EInv, IInv, LineTypes, Types
  <2>2. QED BY <2>1 DEF EInv, LineTypes
<1>2. InTurn' /\ NotLooked' /\ Arrives' /\ Imaged'
    BY DEF EInv, InTurn, NotLooked, Arrives, Imaged, Fresh, Redoing, Finished
<1>3. BeingRemoved' /\ MadeAgain'
    BY RedoneTargets DEF EInv, BeingRemoved, MadeAgain, Redoing
<1>4. QED BY <1>1, <1>2, <1>3 DEF EInv

LEMMA EExit == ASSUME EInv, IInv', MakeExits PROVE EInv'
<1>1. goals' = << >> /\ UNCHANGED <<tree, image, src>> /\ \A t \in Targets : plan'[t] = "unseen"
    BY DEF MakeExits, state
<1>2. LineTypes'
  <2>1. asked' \in [Pkg -> Nat] /\ \A p \in Pkg : asked'[p] = 0 /\ src[p] \in Nat
      BY DEF MakeExits, EInv, IInv, Types
  <2>2. DOMAIN at' = DOMAIN goals' /\ DOMAIN left' = DOMAIN goals'
      BY DEF MakeExits
  <2>3. QED BY <1>1, <2>1, <2>2 DEF EInv, LineTypes
<1>3. InTurn' /\ NotLooked' /\ BeingRemoved' /\ MadeAgain' /\ Arrives' /\ Imaged'
    BY <1>1 DEF InTurn, NotLooked, BeingRemoved, MadeAgain, Arrives, Imaged, Redoing
<1>4. QED BY <1>2, <1>3 DEF EInv

LEMMA EMake == ASSUME EInv, IInv', NEW line \in GoalLines, Make(line) PROVE EInv'
<1>1. /\ goals = << >> /\ goals' = line /\ asked' = src
      /\ DOMAIN at' = DOMAIN line /\ DOMAIN left' = DOMAIN line
      /\ \A i \in DOMAIN line : at'[i] = "todo"
      /\ UNCHANGED <<stamp, out, gone, tree, image, src, plan>>
    BY DEF Make, state
<1>2. \A t \in Targets : plan[t] = "unseen"
    BY <1>1 DEF EInv, LineTypes
<1>3. LineTypes'
  <2>1. src \in [Pkg -> Nat] /\ \A p \in Pkg : src[p] <= src[p]
      BY DEF EInv, IInv, Types
  <2>2. QED BY <1>1, <1>2, <2>1 DEF EInv, LineTypes
<1>4. line # << >> => 1 \in DOMAIN line /\ Len(line) \in DOMAIN line
  <2>1. line \in Seq([kind : Kinds, pkg : Pkg])
      BY PkgAssumption
  <2>2. QED BY <2>1
<1>5. InTurn' /\ NotLooked'
    BY <1>1, <1>2 DEF InTurn, NotLooked
<1>6. BeingRemoved' /\ MadeAgain'
    BY <1>1, <1>4 DEF BeingRemoved, MadeAgain, Redoing
<1>7. Arrives'
  <2> SUFFICES ASSUME NEW p \in Pkg, Redoing(p)'
               PROVE  \A t \in Redone(p) : plan'[t] # "remade"
      BY DEF Arrives, Redone
  <2>1. Redone(p) \subseteq Targets
      BY RedoneTargets DEF Redoing
  <2>2. QED BY <1>1, <1>2, <2>1
<1>8. Imaged'
    BY <1>1, <1>4 DEF Imaged
<1>9. QED BY <1>3, <1>5, <1>6, <1>7, <1>8 DEF EInv

(* Steps of goals that plan nothing: what changes is how far the goal is.   *)
LEMMA InTurnStep ==
    ASSUME EInv, NEW i \in DOMAIN goals, UNCHANGED goals, DOMAIN at' = DOMAIN at,
           \A j \in DOMAIN goals \ {i} : at'[j] = at[j],
           at[i] = "todo" => Eligible(i), at[i] # "done", at'[i] # "todo", ~PerPackage,
           at'[i] = "wiping" => goals[i].kind = "dirclean"
    PROVE  InTurn'
<1>1. DOMAIN at = DOMAIN goals /\ DOMAIN goals \subseteq Nat
  <2>1. CASE goals = << >>
      BY <2>1
  <2>2. CASE goals # << >>
      BY <2>2, Line DEF EInv, LineTypes
  <2>3. QED BY <2>1, <2>2 DEF EInv, LineTypes
<1>2. at[i] = "todo" => \A j \in DOMAIN goals : j < i => at[j] = "done"
    BY <1>1, Serially DEF Eligible
<1>3. QED BY <1>1, <1>2 DEF EInv, InTurn

LEMMA FirstOrNot ==
    ASSUME EInv, NEW p \in Pkg, Redoing(p)
    PROVE  /\ 1 \in DOMAIN goals
           /\ \A i \in DOMAIN goals : i # 1 /\ at[i] # "todo" => at[1] = "done"
           /\ \A i \in DOMAIN goals : i # 1 /\ Eligible(i) /\ ~PerPackage => at[1] = "done"
<1>1. goals # << >>
    BY DEF Redoing
<1>2. DOMAIN goals = 1 .. Len(goals) /\ Len(goals) \in Nat \ {0} /\ DOMAIN at = DOMAIN goals
    BY <1>1, Line DEF EInv, LineTypes
<1>3. QED BY <1>2, Serially DEF Eligible, EInv, InTurn

(* A line whose last goal is done is done.                                  *)
LEMMA AfterLast ==
    ASSUME EInv, goals # << >>, at[Len(goals)] = "done", NEW i \in DOMAIN goals
    PROVE  at[i] = "done"
<1>1. DOMAIN goals = 1 .. Len(goals) /\ Len(goals) \in Nat \ {0}
    BY Line DEF EInv
<1>2. QED BY <1>1 DEF EInv, InTurn

LEMMA EBeginClean ==
    ASSUME EInv, IInv', ~PerPackage, NEW i \in DOMAIN goals, BeginClean(i)
    PROVE  EInv'
<1>1. /\ UNCHANGED <<stamp, out, gone, tree, image, src, goals, plan, asked>>
      /\ Eligible(i) /\ at[i] = "todo" /\ goals[i].kind \in Cleaning
      /\ at' = [at EXCEPT ![i] = "cleaning"]
      /\ left' = [left EXCEPT ![i] = ToRemove(goals[i])]
    BY DEF BeginClean, state
<1>2. DOMAIN at = DOMAIN goals /\ DOMAIN left = DOMAIN goals
    BY DEF EInv, LineTypes
<1>3. /\ DOMAIN at' = DOMAIN at /\ DOMAIN left' = DOMAIN left
      /\ at'[i] = "cleaning" /\ left'[i] = ToRemove(goals[i])
      /\ \A j \in DOMAIN goals \ {i} : at'[j] = at[j] /\ left'[j] = left[j]
    BY <1>1, <1>2
<1>4. LineTypes'
    BY <1>1, <1>3 DEF EInv, LineTypes
<1>5. InTurn'
    BY <1>1, <1>3, InTurnStep
<1>6. NotLooked'
    BY <1>1, <1>3, FirstOrNot DEF EInv, NotLooked, Redoing
<1>7. BeingRemoved'
  <2> SUFFICES ASSUME NEW p \in Pkg, Redoing(p), at'[1] = "cleaning", NEW t \in Redone(p)
               PROVE  t[2] \in left'[1] \/ stamp[t] = "absent"
      BY <1>1 DEF BeingRemoved, Redoing
  <2>1. CASE i = 1
    <3>1. t[2] \in Steps(p) /\ t[2] \in {"rsynced", "built", "target"}
        BY DEF Redoing, Steps, Redone, Rsynced, Built, Placed
    <3>2. t[2] \in ToRemove(goals[1])
        BY <3>1 DEF Redoing, ToRemove
    <3>3. QED BY <1>3, <2>1, <3>2
  <2>2. CASE i # 1
      BY <1>3, <2>2, FirstOrNot DEF EInv, BeingRemoved
  <2>3. QED BY <2>1, <2>2
<1>8. MadeAgain'
    BY <1>1, <1>3, FirstOrNot DEF EInv, MadeAgain, Redoing
<1>9. Arrives'
    BY <1>1 DEF EInv, Arrives, Redoing, Fresh
<1>10. Imaged'
  <2> SUFFICES ASSUME goals # << >>, at'[Len(goals)] = "done", goals[Len(goals)].kind = "all"
               PROVE  FALSE
      BY <1>1 DEF Imaged
  <2>1. Len(goals) \in DOMAIN goals
      BY Line DEF EInv
  <2>2. at[Len(goals)] = "done"
      BY <1>3, <2>1
  <2>3. QED BY <1>1, <2>2, AfterLast
<1>11. QED BY <1>4, <1>5, <1>6, <1>7, <1>8, <1>9, <1>10 DEF EInv

LEMMA ERemoveStamp ==
    ASSUME EInv, IInv', ~PerPackage, NEW i \in DOMAIN goals, RemoveStamp(i)
    PROVE  EInv'
<1> PICK k \in DOMAIN CleanOrder :
        LET s == CleanOrder[k] IN
          /\ s \in left[i]
          /\ stamp' = [stamp EXCEPT ![<<goals[i].pkg, s>>] = "absent"]
          /\ left' = [left EXCEPT ![i] = @ \ {s}]
          /\ at' = [at EXCEPT ![i] = IF left[i] = {s} THEN "cleaned" ELSE "cleaning"]
    BY DEF RemoveStamp
<1> DEFINE s == CleanOrder[k]
<1>1. /\ UNCHANGED <<out, gone, tree, image, src, goals, plan, asked>>
      /\ at[i] = "cleaning"
    BY DEF RemoveStamp
<1>2. DOMAIN at = DOMAIN goals /\ DOMAIN left = DOMAIN goals
    BY DEF EInv, LineTypes
<1>3. /\ DOMAIN at' = DOMAIN at /\ DOMAIN left' = DOMAIN left
      /\ at'[i] \in {"cleaning", "cleaned"} /\ left'[i] = left[i] \ {s}
      /\ at'[i] = "cleaned" => left[i] = {s}
      /\ \A j \in DOMAIN goals \ {i} : at'[j] = at[j] /\ left'[j] = left[j]
    BY <1>2
<1>4. \A t \in Targets : stamp'[t] = (IF t = <<goals[i].pkg, s>> THEN "absent" ELSE stamp[t])
    BY DEF EInv, IInv, Types
<1>5. LineTypes'
    BY <1>1, <1>3 DEF EInv, LineTypes
<1>6. InTurn'
    BY <1>1, <1>3, InTurnStep
<1>7. NotLooked'
  <2> SUFFICES ASSUME NEW p \in Pkg, Redoing(p), at'[1] \in {"todo", "cleaning"}, NEW t \in Targets
               PROVE  plan[t] = "unseen"
      BY <1>1 DEF NotLooked, Redoing
  <2>1. at[1] \in {"todo", "cleaning"}
      BY <1>1, <1>3, FirstOrNot
  <2>2. QED BY <2>1 DEF EInv, NotLooked
<1>8. ASSUME NEW p \in Pkg, Redoing(p), NEW t \in Redone(p), i = 1
      PROVE  t[2] \in left'[1] \/ stamp'[t] = "absent"
  <2>1. t \in Targets /\ t = <<goals[1].pkg, t[2]>>
    <3>1. p \in Override /\ "target" \in Installs[p] /\ goals[1].pkg = p
        BY <1>8 DEF Redoing
    <3>2. t[1] = p
        BY <1>8 DEF Redone, Rsynced, Built, Placed
    <3>3. t \in Targets
        BY <1>8, <3>1, RedoneTargets
    <3>4. QED BY <3>1, <3>2, <3>3, TargetParts
  <2>2. t[2] \in left[1] \/ stamp[t] = "absent"
      BY <1>1, <1>8 DEF EInv, BeingRemoved
  <2>3. QED BY <1>3, <1>4, <1>8, <2>1, <2>2
<1>9. BeingRemoved'
  <2> SUFFICES ASSUME NEW p \in Pkg, Redoing(p), at'[1] = "cleaning", NEW t \in Redone(p)
               PROVE  t[2] \in left'[1] \/ stamp'[t] = "absent"
      BY <1>1 DEF BeingRemoved, Redoing
  <2>1. CASE i # 1
      BY <1>1, <1>3, <2>1, FirstOrNot
  <2>2. QED BY <1>8, <2>1
<1>10. MadeAgain'
  <2> SUFFICES ASSUME NEW p \in Pkg, Redoing(p), at'[1] \notin {"todo", "cleaning"}, NEW t \in Redone(p)
               PROVE  \/ plan[t] \in {"must", "running", "remade", "failed"}
                      \/ plan[t] = "unseen" /\ stamp'[t] = "absent"
      BY <1>1 DEF MadeAgain, Redoing
  <2>1. t \in Targets
      BY RedoneTargets DEF Redoing
  <2>2. CASE i = 1
    <3>1. left'[1] = {}
        BY <1>3, <2>2, FirstOrNot
    <3>2. stamp'[t] = "absent"
        BY <1>8, <2>2, <3>1
    <3>3. plan[t] = "unseen"
        BY <1>1, <2>1, <2>2 DEF EInv, NotLooked
    <3>4. QED BY <3>2, <3>3
  <2>3. CASE i # 1
      BY <1>3, <1>4, <2>1, <2>3, FirstOrNot DEF EInv, MadeAgain
  <2>4. QED BY <2>2, <2>3
<1>11. Arrives'
    BY <1>1 DEF EInv, Arrives, Redoing, Fresh
<1>12. Imaged'
  <2> SUFFICES ASSUME goals # << >>, at'[Len(goals)] = "done" PROVE FALSE
      BY <1>1 DEF Imaged
  <2>1. Len(goals) \in DOMAIN goals
      BY Line DEF EInv
  <2>2. at[Len(goals)] = "done"
      BY <1>3, <2>1
  <2>3. QED BY <1>1, <2>2, AfterLast
<1>13. QED BY <1>5, <1>6, <1>7, <1>9, <1>10, <1>11, <1>12 DEF EInv

(* What a goal still being worked at means for the line.                    *)
LEMMA NotImagedYet ==
    ASSUME EInv, NEW i \in DOMAIN goals, at[i] # "done", UNCHANGED goals,
           \A j \in DOMAIN goals \ {i} : at'[j] = at[j],
           at'[i] = "done" => goals[i].kind # "all"
    PROVE  Imaged'
<1> SUFFICES ASSUME goals # << >>, at'[Len(goals)] = "done", goals[Len(goals)].kind = "all"
             PROVE  FALSE
    BY DEF Imaged
<1>1. Len(goals) \in DOMAIN goals
    BY Line DEF EInv
<1>2. at[Len(goals)] = "done"
    BY <1>1
<1>3. QED BY <1>2, AfterLast

(* rm takes files; a package that is whole afterwards is one make has not   *)
(* looked at.                                                               *)
LEMMA Dircleaning ==
    ASSUME EInv, IInv', ~PerPackage, NEW i \in DOMAIN goals, goals[i].kind = "dirclean",
           UNCHANGED <<goals, left, plan, stamp, tree, image, src, asked>>,
           DOMAIN at' = DOMAIN at, \A j \in DOMAIN goals \ {i} : at'[j] = at[j],
           at[i] # "done", at'[i] # "todo", at[i] = "todo" => Eligible(i),
           \A p \in Pkg : p \notin gone' =>
               \/ p \notin gone /\ \A t \in Of(p) : out'[t] = out[t]
               \/ \A t \in Of(p) : plan[t] = "unseen"
    PROVE  EInv'
<1>1. LineTypes' /\ InTurn' /\ Imaged'
    BY InTurnStep, NotImagedYet DEF EInv, LineTypes
<1>2. ASSUME NEW p \in Pkg, Redoing(p) PROVE i # 1 /\ at'[1] = at[1]
    BY <1>2, FirstOrNot DEF Redoing
<1>3. NotLooked' /\ BeingRemoved' /\ MadeAgain'
    BY <1>2 DEF EInv, NotLooked, BeingRemoved, MadeAgain, Redoing
<1>4. Arrives'
  <2> SUFFICES ASSUME NEW p \in Pkg, Redoing(p), p \notin gone'
               PROVE  /\ plan[Rsynced(p)] = "remade" => Fresh(out'[Rsynced(p)], p)
                      /\ plan[Built(p)] = "remade" => Fresh(out'[Built(p)], p)
                      /\ plan[Placed(p)] = "remade" => Fresh(tree["target"][p], p)
      BY DEF Arrives, Redoing, Fresh
  <2>1. \A t \in Redone(p) : t \in Of(p)
    <3>1. Redone(p) \subseteq Targets
        BY RedoneTargets DEF Redoing
    <3>2. QED BY <3>1 DEF Redone, Rsynced, Built, Placed, Of
  <2>2. Rsynced(p) \in Of(p) /\ Built(p) \in Of(p) /\ Placed(p) \in Of(p)
      BY <2>1 DEF Redone
  <2>3. QED BY <2>2 DEF EInv, Arrives
<1>5. QED BY <1>1, <1>3, <1>4 DEF EInv

LEMMA EBeginDirclean ==
    ASSUME EInv, IInv', ~PerPackage, NEW i \in DOMAIN goals, BeginDirclean(i)
    PROVE  EInv'
<1>1. DOMAIN at = DOMAIN goals
    BY DEF EInv, LineTypes
<1>2. /\ goals[i].kind = "dirclean" /\ at[i] = "todo" /\ Eligible(i)
      /\ UNCHANGED <<goals, left, plan, stamp, tree, image, src, asked>>
      /\ DOMAIN at' = DOMAIN at /\ at'[i] = "wiping"
      /\ \A j \in DOMAIN goals \ {i} : at'[j] = at[j]
    BY <1>1 DEF BeginDirclean
<1>3. ASSUME NEW p \in Pkg, p \notin gone'
      PROVE  p \notin gone /\ \A t \in Of(p) : out'[t] = out[t]
    BY <1>3 DEF BeginDirclean, Of
<1>4. QED BY <1>2, <1>3, Dircleaning

LEMMA EEndDirclean ==
    ASSUME EInv, IInv', ~PerPackage, NEW i \in DOMAIN goals, EndDirclean(i)
    PROVE  EInv'
<1>1. DOMAIN at = DOMAIN goals
    BY DEF EInv, LineTypes
<1>2. /\ at[i] = "wiping" /\ goals[i].kind = "dirclean"
      /\ UNCHANGED <<goals, left, plan, stamp, tree, image, src, asked>>
      /\ DOMAIN at' = DOMAIN at /\ at'[i] = "done"
      /\ \A j \in DOMAIN goals \ {i} : at'[j] = at[j]
    BY <1>1 DEF EndDirclean, EInv, InTurn
<1>3. ASSUME NEW p \in Pkg, p \notin gone'
      PROVE  \/ p \notin gone /\ \A t \in Of(p) : out'[t] = out[t]
             \/ \A t \in Of(p) : plan[t] = "unseen"
    BY <1>3 DEF EndDirclean, Of
<1>4. QED BY <1>2, <1>3, Dircleaning

(* make looks at the goal's targets: those whose stamps were removed must   *)
(* be made.                                                                 *)
LEMMA EVisit ==
    ASSUME EInv, IInv', ~PerPackage, NEW i \in DOMAIN goals, Visit(i)
    PROVE  EInv'
<1>1. DOMAIN at = DOMAIN goals
    BY DEF EInv, LineTypes
<1>2. /\ Eligible(i)
      /\ at[i] = "cleaned" \/ (at[i] = "todo" /\ goals[i].kind \notin Cleaning)
      /\ UNCHANGED <<stamp, out, gone, tree, image, src, goals, left, asked>>
      /\ DOMAIN at' = DOMAIN at /\ at'[i] = "walking"
      /\ \A j \in DOMAIN goals \ {i} : at'[j] = at[j]
  <2>1. at[i] = IF goals[i].kind \in Cleaning THEN "cleaned" ELSE "todo"
      BY DEF Visit
  <2>2. at[i] = "cleaned" \/ (at[i] = "todo" /\ goals[i].kind \notin Cleaning)
      BY <2>1
  <2>3. at' = [at EXCEPT ![i] = "walking"]
      BY DEF Visit
  <2>4. Eligible(i) /\ UNCHANGED <<stamp, out, gone, tree, image, src, goals, left, asked>>
      BY DEF Visit, state
  <2>5. QED BY <1>1, <2>2, <2>3, <2>4
<1>3. \A t \in Targets : \/ plan'[t] = plan[t]
                         \/ plan[t] = "unseen" /\ plan'[t] = Looked(t)
    BY DEF Visit
<1>4. goals # << >>
    BY <1>1, <1>2
<1>5. LineTypes' /\ InTurn' /\ Imaged'
    BY <1>2, <1>4, InTurnStep, NotImagedYet DEF EInv, LineTypes
<1>6. ASSUME NEW p \in Pkg, Redoing(p)
      PROVE  at[1] \notin {"todo", "cleaning"} /\ at'[1] \notin {"todo", "cleaning"}
  <2>1. CASE i = 1
      BY <1>2, <1>6, <2>1 DEF Redoing, Cleaning
  <2>2. CASE i # 1
    <3>1. 1 \in DOMAIN goals /\ at[1] = "done"
        BY <1>2, <1>6, <2>2, FirstOrNot
    <3>2. QED BY <1>2, <2>2, <3>1
  <2>3. QED BY <2>1, <2>2
<1>7. NotLooked' /\ BeingRemoved'
    BY <1>2, <1>6 DEF NotLooked, BeingRemoved, Redoing
<1>8. MadeAgain'
    BY <1>2, <1>3, <1>6, RedoneTargets DEF EInv, MadeAgain, Redoing, Looked
<1>9. Arrives'
  <2> SUFFICES ASSUME NEW p \in Pkg, Redoing(p), NEW t \in Redone(p), plan'[t] = "remade"
               PROVE  plan[t] = "remade"
      BY <1>2 DEF EInv, Arrives, Redoing, Redone, Fresh
  <2>1. t \in Targets
      BY RedoneTargets DEF Redoing
  <2>2. QED BY <1>3, <2>1 DEF Looked
<1>10. QED BY <1>5, <1>7, <1>8, <1>9 DEF EInv

(* Steps of the targets do not matter to the goals; the line is not at its  *)
(* end, nor at its beginning.                                               *)
LEMMA Working ==
    ASSUME EInv, IInv', NEW t \in Targets, plan[t] \notin {"unseen", "remade", "kept"},
           UNCHANGED <<goals, at, left, src, asked, image>>,
           tree' \in [{"target"} -> [Pkg -> Values]]
    PROVE  /\ LineTypes' /\ InTurn' /\ NotLooked' /\ BeingRemoved' /\ Imaged'
           /\ \A p \in Pkg : Redoing(p) => at[1] \notin {"todo", "cleaning"}
<1>1. goals # << >>
    BY DEF EInv, LineTypes
<1>2. LineTypes' /\ InTurn'
    BY <1>1 DEF EInv, LineTypes, InTurn
<1>3. \A p \in Pkg : Redoing(p) => at[1] \notin {"todo", "cleaning"}
    BY DEF EInv, NotLooked
<1>4. NotLooked' /\ BeingRemoved'
    BY <1>3 DEF NotLooked, BeingRemoved, Redoing
<1>5. Imaged'
    BY DEF EInv, Imaged, Finished
<1>6. QED BY <1>2, <1>3, <1>4, <1>5

LEMMA EStart ==
    ASSUME EInv, IInv', ~PerPackage, NEW t \in Targets, Start(t)
    PROVE  EInv'
<1>1. /\ UNCHANGED <<stamp, gone, image, src, goals, at, left, asked>>
      /\ plan[t] \in {"must", "maybe"}
      /\ \A u \in Targets : plan'[u] = (IF u = t THEN "running" ELSE plan[u])
      /\ \A u \in Targets \ {t} : out'[u] = out[u]
    BY DEF Start, EInv, IInv, Types
<1>2. tree' = IF t[2] = "target" THEN [tree EXCEPT !["target"][t[1]] = Torn] ELSE tree
    BY Serially DEF Start
<1>3. tree' \in [{"target"} -> [Pkg -> Values]]
    BY <1>2 DEF EInv, LineTypes, Values
<1>4. LineTypes' /\ InTurn' /\ NotLooked' /\ BeingRemoved' /\ Imaged'
    BY <1>1, <1>3, Working
<1>5. MadeAgain'
  <2> SUFFICES ASSUME NEW p \in Pkg, Redoing(p), at[1] \notin {"todo", "cleaning"}, NEW u \in Redone(p)
               PROVE  \/ plan'[u] \in {"must", "running", "remade", "failed"}
                      \/ plan'[u] = "unseen" /\ stamp[u] = "absent"
      BY <1>1 DEF MadeAgain, Redoing
  <2>1. u \in Targets
      BY RedoneTargets DEF Redoing
  <2>2. QED BY <1>1, <2>1 DEF EInv, MadeAgain
<1>6. Arrives'
  <2> SUFFICES ASSUME NEW p \in Pkg, Redoing(p), p \notin gone, NEW u \in Redone(p), plan'[u] = "remade"
               PROVE  /\ plan[u] = "remade" /\ out'[u] = out[u]
                      /\ u = Placed(p) => tree'["target"][p] = tree["target"][p]
      BY <1>1 DEF EInv, Arrives, Redoing, Redone, Fresh
  <2>1. u \in Targets /\ u # t
      BY <1>1, RedoneTargets DEF Redoing
  <2>2. plan[u] = "remade" /\ out'[u] = out[u]
      BY <1>1, <2>1
  <2>3. ASSUME u = Placed(p), t[2] = "target" PROVE t[1] # p
      BY <2>1, <2>3, TargetParts DEF Placed
  <2>4. u = Placed(p) => tree'["target"][p] = tree["target"][p]
      BY <1>2, <2>3 DEF EInv, LineTypes
  <2>5. QED BY <2>2, <2>4
<1>7. QED BY <1>4, <1>5, <1>6 DEF EInv

LEMMA EKeep == ASSUME EInv, IInv', Keep PROVE EInv'
<1>1. /\ UNCHANGED <<stamp, out, gone, tree, image, src, goals, at, left, asked>>
      /\ \A t \in Targets : plan'[t] = plan[t] \/ (plan[t] = "maybe" /\ plan'[t] = "kept")
  <2>1. plan' = [t \in Targets |-> IF t \in UpToDate THEN "kept" ELSE plan[t]]
      BY DEF Keep
  <2>2. \A t \in UpToDate : plan[t] = "maybe"
      BY DEF UpToDate
  <2>3. UNCHANGED <<stamp, out, gone, tree, image, src, goals, at, left, asked>>
      BY DEF Keep, state
  <2>4. QED BY <2>1, <2>2, <2>3
<1>2. PICK t \in Targets : plan[t] = "maybe"
    BY DEF Keep, UpToDate
<1>3. LineTypes' /\ InTurn' /\ NotLooked' /\ BeingRemoved' /\ Imaged'
    BY <1>1, <1>2, Working DEF EInv, LineTypes
<1>4. MadeAgain'
  <2> SUFFICES ASSUME NEW p \in Pkg, Redoing(p), at[1] \notin {"todo", "cleaning"}, NEW u \in Redone(p)
               PROVE  plan'[u] = plan[u]
      BY <1>1 DEF EInv, MadeAgain, Redoing
  <2>1. u \in Targets
      BY RedoneTargets DEF Redoing
  <2>2. QED BY <1>1, <2>1 DEF EInv, MadeAgain
<1>5. Arrives'
  <2> SUFFICES ASSUME NEW p \in Pkg, Redoing(p), NEW u \in Redone(p), plan'[u] = "remade"
               PROVE  plan[u] = "remade"
      BY <1>1 DEF EInv, Arrives, Redoing, Redone, Fresh
  <2>1. u \in Targets
      BY RedoneTargets DEF Redoing
  <2>2. QED BY <1>1, <2>1
<1>6. QED BY <1>3, <1>4, <1>5 DEF EInv

LEMMA EStepFails == ASSUME EInv, IInv', NEW t \in Targets, StepFails(t) PROVE EInv'
<1>1. /\ UNCHANGED <<stamp, out, gone, tree, image, src, goals, at, left, asked>>
      /\ plan[t] = "running"
      /\ \A u \in Targets : plan'[u] = (IF u = t THEN "failed" ELSE plan[u])
    BY DEF StepFails, state, EInv, IInv, Types
<1>2. LineTypes' /\ InTurn' /\ NotLooked' /\ BeingRemoved' /\ Imaged'
    BY <1>1, Working DEF EInv, LineTypes
<1>3. MadeAgain'
  <2> SUFFICES ASSUME NEW p \in Pkg, Redoing(p), at[1] \notin {"todo", "cleaning"}, NEW u \in Redone(p)
               PROVE  plan'[u] = plan[u] \/ plan'[u] = "failed"
      BY <1>1 DEF EInv, MadeAgain, Redoing
  <2>1. u \in Targets
      BY RedoneTargets DEF Redoing
  <2>2. QED BY <1>1, <2>1
<1>4. Arrives'
  <2> SUFFICES ASSUME NEW p \in Pkg, Redoing(p), NEW u \in Redone(p), plan'[u] = "remade"
               PROVE  plan[u] = "remade"
      BY <1>1 DEF EInv, Arrives, Redoing, Redone, Fresh
  <2>1. u \in Targets
      BY RedoneTargets DEF Redoing
  <2>2. QED BY <1>1, <2>1
<1>5. QED BY <1>2, <1>3, <1>4 DEF EInv

(* A step ends well: what rsync copied is as new as the developer asked,    *)
(* and what is built and placed carries it on.                              *)
LEMMA Prerequisites ==
    ASSUME NEW p \in Override, "target" \in Installs[p]
    PROVE  LET c == <<p, "configured">> IN
           /\ c \in Targets /\ Rsynced(p) \in Prereqs[c] /\ c \in Prereqs[Built(p)]
           /\ Built(p) \in Prereqs[Placed(p)]
<1> DEFINE c == <<p, "configured">>
<1>1. p \in Pkg /\ c \in Targets
    BY PkgAssumption, Always
<1>2. Redone(p) \subseteq Targets
    BY RedoneTargets
<1>3. Rsynced(p) \in Targets /\ Built(p) \in Targets /\ Placed(p) \in Targets
    BY <1>2 DEF Redone
<1>4. Rsynced(p) \in Prereqs[c]
    BY <1>1, <1>3, GraphTypes DEF OrderOnly, Of, Rsynced
<1>5. c \in Prereqs[Built(p)]
    BY <1>1, <1>3, GraphTypes DEF Normal, Of, Before, Built
<1>6. Built(p) \in Prereqs[Placed(p)]
    BY <1>3, GraphTypes DEF Normal, Of, Before, Built, Placed
<1>7. QED BY <1>1, <1>4, <1>5, <1>6

LEMMA EFinish ==
    ASSUME EInv, IInv', ~PerPackage, NEW t \in Targets, Finish(t)
    PROVE  EInv'
<1>1. /\ UNCHANGED <<image, src, goals, at, left, asked>>
      /\ plan[t] = "running" /\ gone \subseteq gone'
      /\ stamp' = Touched(t)
      /\ \A u \in Targets : plan'[u] = (IF u = t THEN "remade" ELSE plan[u])
      /\ \A u \in Targets \ {t} : out'[u] = out[u]
      /\ out'[t] = Result(t)
    BY DEF Finish, EInv, IInv, Types
<1>2. tree' = IF t[2] = "target" THEN [tree EXCEPT !["target"][t[1]] = Result(t)] ELSE tree
    BY Serially DEF Finish
<1>3. Result(t) \in Values
    BY <1>1, GoodResult DEF EInv, Values
<1>4. tree' \in [{"target"} -> [Pkg -> Values]]
    BY <1>2, <1>3 DEF EInv, LineTypes
<1>5. /\ LineTypes' /\ InTurn' /\ NotLooked' /\ BeingRemoved' /\ Imaged'
      /\ \A p \in Pkg : Redoing(p) => at[1] \notin {"todo", "cleaning"}
    BY <1>1, <1>4, Working
<1>6. MadeAgain'
  <2> SUFFICES ASSUME NEW p \in Pkg, Redoing(p), at[1] \notin {"todo", "cleaning"}, NEW u \in Redone(p)
               PROVE  \/ plan'[u] \in {"must", "running", "remade", "failed"}
                      \/ plan'[u] = "unseen" /\ stamp'[u] = "absent"
      BY <1>1 DEF MadeAgain, Redoing
  <2>1. u \in Targets
      BY RedoneTargets DEF Redoing
  <2>2. u = t \/ (stamp[u] = "absent" => stamp'[u] = "absent")
      BY <1>1, <2>1 DEF Touched
  <2>3. QED BY <1>1, <2>1, <2>2 DEF EInv, MadeAgain
<1>7. Arrives'
  <2> SUFFICES ASSUME NEW p \in Pkg, Redoing(p), p \notin gone'
               PROVE  /\ plan'[Rsynced(p)] = "remade" => Fresh(out'[Rsynced(p)], p)
                      /\ plan'[Built(p)] = "remade" => Fresh(out'[Built(p)], p)
                      /\ plan'[Placed(p)] = "remade" => Fresh(tree'["target"][p], p)
      BY <1>1 DEF Arrives, Redoing, Fresh
  <2> DEFINE c == <<p, "configured">>
  <2>1. p \in Override /\ "target" \in Installs[p] /\ p \notin gone
      BY <1>1 DEF Redoing
  <2>2. /\ c \in Targets /\ Rsynced(p) \in Targets /\ Built(p) \in Targets /\ Placed(p) \in Targets
        /\ Rsynced(p) \in Prereqs[c] /\ c \in Prereqs[Built(p)] /\ Built(p) \in Prereqs[Placed(p)]
      BY <2>1, RedoneTargets, Prerequisites DEF Redone
  <2>3. /\ plan[Rsynced(p)] \in {"remade", "kept"} => plan[Rsynced(p)] = "remade"
        /\ plan[Built(p)] \in {"remade", "kept"} => plan[Built(p)] = "remade"
      BY <1>5 DEF EInv, MadeAgain, Redone
  <2>4. /\ plan[Rsynced(p)] = "remade" => Fresh(out[Rsynced(p)], p)
        /\ plan[Built(p)] = "remade" => Fresh(out[Built(p)], p)
        /\ plan[Placed(p)] = "remade" => Fresh(tree["target"][p], p)
      BY <2>1 DEF EInv, Arrives
  <2>5. out'[t] # Torn \/ t[1] \in gone'
    <3>1. stamp'[t] = "current"
        BY <1>1 DEF Touched
    <3>2. QED BY <3>1 DEF IInv, SoundStamps, Trusted
  <2>6. plan'[Rsynced(p)] = "remade" => Fresh(out'[Rsynced(p)], p)
    <3>1. CASE t = Rsynced(p)
      <4>1. out'[t] = src[p]
          BY <1>1, <3>1 DEF Result, Rsynced
      <4>2. Fresh(src[p], p)
          BY DEF EInv, IInv, Types, LineTypes, Fresh
      <4>3. QED BY <3>1, <4>1, <4>2
    <3>2. CASE t # Rsynced(p)
        BY <1>1, <2>2, <2>4, <3>2
    <3>3. QED BY <3>1, <3>2
  <2>7. plan'[Built(p)] = "remade" => Fresh(out'[Built(p)], p)
    <3>1. CASE t = Built(p)
      <4>1. plan[c] \in {"remade", "kept"}
          BY <1>1, <2>2, <3>1 DEF EInv, IInv, InOrder, Finished
      <4>2. plan[Rsynced(p)] \in {"remade", "kept"}
          BY <2>2, <4>1 DEF EInv, IInv, InOrder, Finished
      <4>3. Fresh(out[Rsynced(p)], p)
          BY <2>3, <2>4, <4>2
      <4>4. Result(t) = Torn \/ Result(t) = out[Rsynced(p)]
          BY <2>1, <3>1 DEF Result, Built, Carried, SourceStep, Rsynced
      <4>5. t[1] = p
          BY <3>1 DEF Built
      <4>6. QED BY <1>1, <2>5, <3>1, <4>3, <4>4, <4>5
    <3>2. CASE t # Built(p)
        BY <1>1, <2>2, <2>4, <3>2
    <3>3. QED BY <3>1, <3>2
  <2>8. plan'[Placed(p)] = "remade" => Fresh(tree'["target"][p], p)
    <3>1. CASE t = Placed(p)
      <4>1. plan[Built(p)] \in {"remade", "kept"}
          BY <1>1, <2>2, <3>1 DEF EInv, IInv, InOrder, Finished
      <4>2. Fresh(out[Built(p)], p)
          BY <2>3, <2>4, <4>1
      <4>3. Result(t) = Torn \/ Result(t) = out[Built(p)]
          BY <3>1 DEF Result, Built, Carried, Placed
      <4>4. t[1] = p /\ t[2] = "target"
          BY <3>1 DEF Placed
      <4>5. tree'["target"][p] = Result(t)
          BY <1>2, <4>4 DEF EInv, LineTypes
      <4>6. QED BY <1>1, <2>5, <4>2, <4>3, <4>4, <4>5
    <3>2. CASE t # Placed(p)
      <4>1. t[2] = "target" => t[1] # p
          BY <3>2, TargetParts DEF Placed
      <4>2. tree'["target"][p] = tree["target"][p]
          BY <1>2, <4>1 DEF EInv, LineTypes
      <4>3. QED BY <1>1, <2>2, <2>4, <3>2, <4>2
    <3>3. QED BY <3>1, <3>2
  <2>9. QED BY <2>6, <2>7, <2>8
<1>8. QED BY <1>5, <1>6, <1>7 DEF EInv

(* all ends: the image is the target directory.                             *)
LEMMA EGoalEnds ==
    ASSUME EInv, IInv', ~PerPackage, NEW i \in DOMAIN goals, GoalEnds(i)
    PROVE  EInv'
<1>1. DOMAIN at = DOMAIN goals /\ goals # << >>
    BY DEF EInv, LineTypes
<1>2. /\ UNCHANGED <<stamp, out, gone, tree, src, goals, left, plan, asked>>
      /\ at[i] = "walking" /\ Finished(Walk(goals[i]))
      /\ DOMAIN at' = DOMAIN at /\ at'[i] = "done"
      /\ \A j \in DOMAIN goals \ {i} : at'[j] = at[j]
    BY <1>1 DEF GoalEnds
<1>3. image' = IF goals[i].kind = "all" THEN tree["target"] ELSE image
    BY DEF GoalEnds
<1>4. LineTypes'
    BY <1>1, <1>2, <1>3 DEF EInv, LineTypes
<1>5. InTurn'
    BY <1>2, InTurnStep
<1>6. ASSUME NEW p \in Pkg, Redoing(p)
      PROVE  at[1] \notin {"todo", "cleaning"} /\ at'[1] \notin {"todo", "cleaning"}
  <2>1. CASE i = 1
      BY <1>2, <2>1
  <2>2. CASE i # 1
    <3>1. 1 \in DOMAIN goals /\ at[1] = "done"
        BY <1>2, <1>6, <2>2, FirstOrNot
    <3>2. QED BY <1>2, <2>2, <3>1
  <2>3. QED BY <2>1, <2>2
<1>7. NotLooked' /\ BeingRemoved' /\ MadeAgain' /\ Arrives'
    BY <1>2, <1>6 DEF EInv, NotLooked, BeingRemoved, MadeAgain, Arrives, Redoing, Fresh
<1>8. Imaged'
  <2>1. CASE goals[i].kind # "all"
      BY <1>2, <2>1, NotImagedYet
  <2>2. CASE goals[i].kind = "all"
    <3>1. Finished(Targets)
        BY <1>2, <2>2 DEF Walk
    <3>2. ASSUME NEW p \in Pkg, Redoing(p), p \notin gone PROVE Fresh(image'[p], p)
      <4>1. Placed(p) \in Targets
          BY <3>2, RedoneTargets DEF Redone, Redoing
      <4>2. plan[Placed(p)] = "remade"
          BY <1>6, <3>1, <3>2, <4>1 DEF EInv, MadeAgain, Redone, Finished
      <4>3. QED BY <1>3, <2>2, <3>2, <4>2 DEF EInv, Arrives
    <3>3. QED BY <1>2, <3>1, <3>2 DEF Imaged, Redoing, Fresh, Finished
  <2>3. QED BY <2>1, <2>2
<1>9. QED BY <1>4, <1>5, <1>7, <1>8 DEF EInv

LEMMA StepEInv == ASSUME ~PerPackage PROVE EInv /\ [Next]_vars => EInv'
<1> SUFFICES ASSUME EInv, [Next]_vars PROVE EInv'
    OBVIOUS
<1>1. IInv'
    BY StepIInv DEF EInv
<1>2. ASSUME NEW i \in DOMAIN goals, Goal(i) PROVE EInv'
  <2>1. CASE WipeStamp(i)
    <3>1. /\ UNCHANGED <<goals, at, left, asked, plan, gone, out, tree, image, src>>
          /\ \A t \in Targets : stamp'[t] = stamp[t] \/ stamp'[t] = "absent"
        BY <2>1 DEF WipeStamp, make, EInv, IInv, Types
    <3>2. \A p \in Pkg : src[p] <= src'[p]
        BY <3>1 DEF EInv, IInv, Types
    <3>3. QED BY <1>1, <3>1, <3>2, Beside
  <2>2. QED BY <1>1, <1>2, <2>1, EBeginClean, ERemoveStamp, EBeginDirclean, EEndDirclean, EVisit,
               EGoalEnds DEF Goal
<1>3. ASSUME NEW t \in Targets, Target(t) PROVE EInv'
    BY <1>1, <1>3, EStart, EFinish, EStepFails DEF Target
<1>4. CASE Keep
    BY <1>1, <1>4, EKeep
<1>5. CASE Ends \/ Interrupt
    BY <1>1, <1>5, EExit DEF Ends, Interrupt
<1>6. ASSUME NEW p \in Pkg, Edit(p) PROVE EInv'
  <2>1. UNCHANGED <<stamp, goals, at, left, asked, plan, gone, out, tree, image>>
      BY <1>6 DEF Edit, state, make
  <2>2. \A q \in Pkg : src[q] <= src'[q]
      BY <1>6 DEF Edit, EInv, IInv, Types
  <2>3. QED BY <1>1, <2>1, <2>2, Beside
<1>7. ASSUME NEW line \in GoalLines, Make(line) PROVE EInv'
    BY <1>1, <1>7, EMake
<1>8. CASE UNCHANGED vars
  <2>1. \A q \in Pkg : src[q] <= src'[q]
      BY <1>8 DEF vars, EInv, IInv, Types
  <2>2. QED BY <1>1, <1>8, <2>1, Beside DEF vars, state, make
<1>9. QED BY <1>2, <1>3, <1>4, <1>5, <1>6, <1>7, <1>8 DEF Next, MakeStep

(* make <pkg>-rebuild all leaves the edit in the image, with one target     *)
(* directory: whatever other goals stand between, whatever was interrupted  *)
(* before, and whatever the developer edits meanwhile.                      *)
THEOREM EditArrives ==
    ASSUME ~PerPackage, RebuildFirst PROVE Spec => []ImageHasEdit
<1>1. Spec => []EInv
    BY EInit, StepEInv, PTL DEF Spec
<1>2. EInv => ImageHasEdit
  <2> SUFFICES ASSUME EInv, AllDone, goals[Len(goals)].kind = "all",
                      NEW i \in DOMAIN goals,
                      goals[i].pkg \notin gone, goals[i].kind \in {"rebuild", "reconfigure"},
                      goals[i].pkg \in Override, "target" \in Installs[goals[i].pkg]
               PROVE  Fresh(image[goals[i].pkg], goals[i].pkg)
      BY DEF ImageHasEdit, Fresh
  <2>1. goals # << >> /\ goals \in GoalLines /\ Len(goals) \in DOMAIN goals
      BY Line DEF AllDone, EInv
  <2>2. at[Len(goals)] = "done"
      BY <2>1 DEF AllDone, EInv, LineTypes
  <2>3. i = 1
      BY <2>1 DEF RebuildFirst
  <2>4. goals[1].pkg \in Pkg /\ Redoing(goals[1].pkg)
      BY <2>1, <2>3, PkgAssumption DEF Redoing
  <2>5. QED BY <2>1, <2>2, <2>3, <2>4 DEF EInv, Imaged
<1>3. QED BY <1>1, <1>2, PTL

================================================================================
