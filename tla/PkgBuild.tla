------------------------------ MODULE PkgBuild ------------------------------
(****************************************************************************)
(* The package build engine of buildroot/package/pkg-generic.mk: the stamp  *)
(* files that record the steps of each package, the make that runs steps    *)
(* until a goal's stamps are up to date, the <pkg>-rebuild family of goals  *)
(* that remove stamps, and the target directory and image they end in.      *)
(*                                                                          *)
(* A target is a package's step.  Its stamp is "outdated" when one of its   *)
(* normal prerequisites was touched after it: make compares time stamps     *)
(* only along those, so nothing more of the times is kept.                  *)
(****************************************************************************)
EXTENDS Naturals, FiniteSets, Sequences

CONSTANTS
    Pkg,         \* packages
    Order,       \* their names, sorted: the order $(sort ...) puts them in
    Override,    \* those with <pkg>_OVERRIDE_SRCDIR
    HasPatches,  \* those with patches to apply
    Installs,    \* [Pkg -> SUBSET {"host", "staging", "images", "target"}]
    Needs,       \* [Pkg -> [Prepared -> SUBSET Pkg]]: <pkg>_*_DEPENDENCIES
    PerPackage,  \* BR2_PER_PACKAGE_DIRECTORIES
    Jobs,        \* make -j
    GoalLines,   \* the goals the developer gives make: sequences of goals; make
                 \* runs a goal that is given twice once
    MaxEdits, MaxFaults,   \* bounds: edits of a source tree, interrupts
    None, Torn   \* no output; the output of commands that did not end

Prepared == {"downloaded", "extracted", "patched", "configured"}
Cleaning == {"reinstall", "rebuild", "reconfigure"}
Kinds == Cleaning \cup {"all", "build", "dirclean"}

ASSUME PkgAssumption ==
    /\ Override \subseteq Pkg /\ HasPatches \subseteq Pkg \ Override
    /\ \A p \in Pkg : \E i \in DOMAIN Order : Order[i] = p
    /\ Installs \in [Pkg -> SUBSET {"host", "staging", "images", "target"}]
    /\ Needs \in [Pkg -> [Prepared -> SUBSET Pkg]]
    /\ PerPackage \in BOOLEAN /\ Jobs \in Nat \ {0}
    /\ GoalLines \subseteq Seq([kind : Kinds, pkg : Pkg])
    /\ \A line \in GoalLines : \A i, j \in DOMAIN line : line[i] = line[j] => i = j
    /\ MaxEdits \in Nat /\ MaxFaults \in Nat
    /\ None \notin Nat /\ Torn \notin Nat /\ None # Torn

VARIABLES
    stamp,   \* [Targets -> {"absent", "current", "outdated"}]
    out,     \* [Targets -> version]: what the target's commands left
    applied, \* how often the patches of a package were begun: 0, 1, 2 = often
    gone,    \* packages a dirclean has half removed, or removed while make was at
             \* them, and those built with one of these (history)
    tree,    \* the target directories: [Dirs -> [Pkg -> version]]
    image,   \* the root filesystem image: [Pkg -> version]
    src,     \* the version of an override source tree
    goals,   \* the goals of the running make; << >> when none runs
    at,      \* how far make is with each goal
    left,    \* the stamps a goal's cleaning has yet to remove
    plan,    \* [Targets -> ...]: what make knows of each target
    failed,  \* a command of this make failed
    asked,   \* the source versions when make was started (history)
    faults

state == <<stamp, out, applied, gone, tree, image>>
make == <<goals, at, left, plan, failed, asked>>
vars == <<state, src, make, faults>>

(* -- Targets and their prerequisites --------------------------------------*)

Steps(p) ==
    (IF p \in Override THEN {"rsynced"} ELSE {"downloaded", "extracted", "patched"})
    \cup {"configured", "built", "installed"} \cup Installs[p]

Targets == UNION {{p} \X Steps(p) : p \in Pkg}
Of(p) == {t \in Targets : t[1] = p}

(* The steps whose stamps a step's stamp must not be older than.            *)
Before ==
    [extracted |-> {"downloaded"}, patched |-> {"extracted"},
     configured |-> {"patched"}, built |-> {"configured"},
     host |-> {"built"}, staging |-> {"built"}, images |-> {"built"},
     target |-> {"built", "staging"},
     installed |-> {"built", "host", "staging", "images", "target"},
     downloaded |-> {}, rsynced |-> {}]

(* Mutant: rsync is a normal prerequisite of configure.                     *)
Normal_Rsync(t) ==
    {u \in Of(t[1]) : \/ u[2] \in Before[t[2]]
                      \/ t[2] = "configured" /\ u[2] = "rsynced"}

Normal(t) == {u \in Of(t[1]) : u[2] \in Before[t[2]]}

(* <dep>-patch stops at the dependency's patches, or at its rsync.          *)
SourceStep(p) == IF p \in Override THEN "rsynced" ELSE "patched"

(* Mutant: configure does not wait for the packages it depends on.          *)
OrderOnly_NoDeps(t) ==
    {u \in Of(t[1]) : t[2] = "configured" /\ u[2] = "rsynced"}

OrderOnly(t) ==
    LET p == t[1]
        s == t[2]
        deps == IF s \in Prepared THEN Needs[p][s] ELSE {}
    IN {<<d, IF s = "patched" THEN SourceStep(d) ELSE "installed">> : d \in deps}
       \cup {u \in Of(p) : s = "configured" /\ u[2] = "rsynced"}

Older == [t \in Targets |-> Normal(t)]
Prereqs == [t \in Targets |-> Normal(t) \cup OrderOnly(t)]

(* What a target asks make for, itself included.                            *)
Demanded ==
    LET grown[n \in 0..Cardinality(Targets)] ==
            IF n = 0 THEN [t \in Targets |-> {t}]
            ELSE LET known == grown[n - 1]
                 IN [t \in Targets |-> {t} \cup UNION {known[u] : u \in Prereqs[t]}]
    IN grown[Cardinality(Targets)]

(* The targets of a goal: <pkg> is <pkg>-install; all is every package.     *)
Walk(g) ==
    CASE g.kind = "dirclean" -> {}
      [] g.kind = "all" -> Targets
      [] OTHER -> Demanded[<<g.pkg, "installed">>]

(* -- Directories ----------------------------------------------------------*)

Dirs == IF PerPackage THEN Pkg ELSE {"target"}
Dir(p) == IF PerPackage THEN p ELSE "target"
Nothing == [q \in Pkg |-> None]

(* per-package-rsync: of several directories with the same file, the one of *)
(* the package that sorts last is kept.                                     *)
Merged(onto, from) ==
    [q \in Pkg |->
        LET having == {i \in DOMAIN Order : Order[i] \in from /\ tree[Order[i]][q] # None}
        IN IF having = {} THEN onto[q]
           ELSE tree[Order[CHOOSE i \in having : \A j \in having : j <= i]][q]]

(* -- The developer --------------------------------------------------------*)

Init ==
    /\ stamp = [t \in Targets |-> "absent"]
    /\ out = [t \in Targets |-> None]
    /\ applied = [p \in Pkg |-> 0]
    /\ gone = {}
    /\ tree = [d \in Dirs |-> Nothing]
    /\ image = Nothing
    /\ src = [p \in Pkg |-> 0]
    /\ goals = << >> /\ at = << >> /\ left = << >>
    /\ plan = [t \in Targets |-> "unseen"]
    /\ failed = FALSE
    /\ asked = src
    /\ faults = 0

(* Between two copies by rsync, never during one.                           *)
Edit(p) ==
    /\ p \in Override
    /\ src[p] < MaxEdits
    /\ plan[<<p, "rsynced">>] # "running"
    /\ src' = [src EXCEPT ![p] = @ + 1]
    /\ UNCHANGED <<state, make, faults>>

Make(line) ==
    /\ goals = << >>
    /\ goals' = line
    /\ at' = [i \in DOMAIN line |-> "todo"]
    /\ left' = [i \in DOMAIN line |-> {}]
    /\ asked' = src
    /\ UNCHANGED <<state, src, plan, failed, faults>>

MakeExits ==
    /\ goals' = << >> /\ at' = << >> /\ left' = << >>
    /\ plan' = [t \in Targets |-> "unseen"]
    /\ failed' = FALSE
    /\ asked' = [p \in Pkg |-> 0]
    /\ UNCHANGED <<state, src>>

(* -- make -----------------------------------------------------------------*)

Running == {t \in Targets : plan[t] = "running"}
Busy == Cardinality(Running) + Cardinality({i \in DOMAIN at : at[i] \in {"cleaning", "wiping"}})

(* .NOTPARALLEL without per-package directories.  A serial make ends a goal *)
(* before it looks at the next; a parallel one goes on while jobs run.      *)
Serial == ~PerPackage \/ Jobs = 1
Slot == Busy < (IF Serial THEN 1 ELSE Jobs)

Eligible(i) ==
    /\ ~failed
    /\ \A j \in DOMAIN at : j < i =>
           IF Serial THEN at[j] = "done" ELSE at[j] # "todo"

(* Mutant: the rsync stamp stays.                                           *)
ToRemove_KeepsRsync(g) ==
    Steps(g.pkg) \cap {"installed", "staging", "target", "images", "host", "built"}

(* The stamps that the clean-for-* recipes remove, and their order.         *)
ToRemove(g) ==
    Steps(g.pkg) \cap
        ({"rsynced", "installed", "staging", "target", "images", "host"}
         \cup (IF g.kind \in {"rebuild", "reconfigure"} THEN {"built"} ELSE {})
         \cup (IF g.kind = "reconfigure" THEN {"configured"} ELSE {}))

CleanOrder ==
    <<"rsynced", "installed", "staging", "target", "images", "host", "built", "configured">>

BeginClean(i) ==
    /\ Eligible(i) /\ at[i] = "todo" /\ goals[i].kind \in Cleaning
    /\ Slot
    /\ at' = [at EXCEPT ![i] = "cleaning"]
    /\ left' = [left EXCEPT ![i] = ToRemove(goals[i])]
    /\ UNCHANGED <<state, src, goals, plan, failed, asked, faults>>

RemoveStamp(i) ==
    /\ at[i] = "cleaning"
    /\ \E k \in DOMAIN CleanOrder :
          LET s == CleanOrder[k] IN
          /\ s \in left[i] /\ \A j \in 1 .. k - 1 : CleanOrder[j] \notin left[i]
          /\ stamp' = [stamp EXCEPT ![<<goals[i].pkg, s>>] = "absent"]
          /\ left' = [left EXCEPT ![i] = @ \ {s}]
          /\ at' = [at EXCEPT ![i] = IF left[i] = {s} THEN "cleaned" ELSE "cleaning"]
    /\ UNCHANGED <<out, applied, gone, tree, image, src, goals, plan, failed, asked, faults>>

(* rm -Rf of the per-package directory, then of the build directory: its    *)
(* files and stamps go one by one, in no order of theirs.                   *)
BeginDirclean(i) ==
    /\ Eligible(i) /\ at[i] = "todo" /\ goals[i].kind = "dirclean"
    /\ Slot
    /\ at' = [at EXCEPT ![i] = "wiping"]
    /\ gone' = gone \cup {goals[i].pkg}
    /\ out' = [t \in Targets |-> IF t[1] = goals[i].pkg THEN Torn ELSE out[t]]
    /\ tree' = IF PerPackage THEN [tree EXCEPT ![goals[i].pkg] = Nothing] ELSE tree
    /\ UNCHANGED <<stamp, applied, image, src, goals, left, plan, failed, asked, faults>>

WipeStamp(i) ==
    /\ at[i] = "wiping"
    /\ \E t \in Of(goals[i].pkg) :
          /\ stamp[t] # "absent"
          /\ stamp' = [stamp EXCEPT ![t] = "absent"]
    /\ UNCHANGED <<out, applied, gone, tree, image, src, make, faults>>

EndDirclean(i) ==
    LET p == goals[i].pkg IN
    /\ at[i] = "wiping" /\ \A t \in Of(p) : stamp[t] = "absent"
    /\ at' = [at EXCEPT ![i] = "done"]
    /\ out' = [t \in Targets |-> IF t[1] = p THEN None ELSE out[t]]
    /\ applied' = [applied EXCEPT ![p] = 0]
    /\ gone' = IF \A t \in Of(p) : plan[t] = "unseen" THEN gone \ {p} ELSE gone \cup {p}
    /\ UNCHANGED <<stamp, tree, image, src, goals, left, plan, failed, asked, faults>>

(* make looks at the goal's targets and, once per make, at the time stamp   *)
(* of each; one that is missing or outdated must be made, another only if a *)
(* normal prerequisite is.                                                  *)
Looked(t) == IF stamp[t] = "current" THEN "maybe" ELSE "must"

Visit(i) ==
    /\ Eligible(i)
    /\ at[i] = IF goals[i].kind \in Cleaning THEN "cleaned" ELSE "todo"
    /\ goals[i].kind # "dirclean"
    /\ at' = [at EXCEPT ![i] = "walking"]
    /\ plan' = [t \in Targets |->
                  IF t \in Walk(goals[i]) /\ plan[t] = "unseen" THEN Looked(t) ELSE plan[t]]
    /\ UNCHANGED <<state, src, goals, left, failed, asked, faults>>

Finished(S) == \A t \in S : plan[t] \in {"remade", "kept"}

(* Found up to date, and so is all it is compared with.  make runs nothing  *)
(* while it can still settle targets by looking at them.                    *)
UpToDate ==
    {t \in Targets : /\ plan[t] = "maybe"
                     /\ Finished(Prereqs[t]) /\ \A u \in Older[t] : plan[u] = "kept"}

Keep ==
    /\ UpToDate # {}
    /\ plan' = [t \in Targets |-> IF t \in UpToDate THEN "kept" ELSE plan[t]]
    /\ UNCHANGED <<state, src, goals, at, left, failed, asked, faults>>

(* The commands of a step run: they overwrite what the step left before.    *)
(* The first steps copy the target directories of the dependencies into the *)
(* package's own (prepare-per-package-directory).                           *)
Start(t) ==
    LET p == t[1]
        prepared == IF PerPackage /\ t[2] \in Prepared \ {"patched"}
                    THEN [tree EXCEPT ![p] = Merged(@, Needs[p][t[2]])] ELSE tree
    IN
    /\ \/ plan[t] = "must"
       \/ plan[t] = "maybe" /\ \E u \in Older[t] : plan[u] = "remade"
    /\ Finished(Prereqs[t])
    /\ ~failed /\ Slot /\ UpToDate = {}
    /\ plan' = [plan EXCEPT ![t] = "running"]
    /\ out' = [out EXCEPT ![t] = Torn]
    /\ applied' = IF t[2] = "patched" /\ p \in HasPatches /\ applied[p] < 2
                  THEN [applied EXCEPT ![p] = @ + 1] ELSE applied
    /\ tree' = IF t[2] = "target" THEN [prepared EXCEPT ![Dir(p)][p] = Torn] ELSE prepared
    /\ UNCHANGED <<stamp, gone, image, src, goals, at, left, failed, asked, faults>>

(* apply-patches.sh refuses a patch that .applied_patches_list names.       *)
Refused(t) == t[2] = "patched" /\ applied[t[1]] = 2

(* The step whose output a step carries on.                                 *)
Carried(p) ==
    [extracted |-> "downloaded", patched |-> "extracted", configured |-> SourceStep(p),
     built |-> SourceStep(p), host |-> "built", staging |-> "built", images |-> "built",
     target |-> "built", installed |-> "built"]

Result(t) ==
    IF t[2] = "rsynced" THEN src[t[1]]
    ELSE IF t[2] = "downloaded" THEN 0
    ELSE IF \E u \in Prereqs[t] : out[u] = Torn THEN Torn
    ELSE out[<<t[1], Carried(t[1])[t[2]]>>]

(* Mutant: the stamp file is not written.                                   *)
Touched_Not(t) == stamp

(* touch $@: every stamp that has t for a normal prerequisite is now older. *)
Touched(t) ==
    [u \in Targets |->
        IF u = t THEN "current"
        ELSE IF t \in Older[u] /\ stamp[u] = "current" THEN "outdated"
        ELSE stamp[u]]

Finish(t) ==
    /\ plan[t] = "running" /\ ~Refused(t)
    /\ plan' = [plan EXCEPT ![t] = "remade"]
    /\ stamp' = Touched(t)
    /\ out' = [out EXCEPT ![t] = Result(t)]
    /\ tree' = IF t[2] = "target" THEN [tree EXCEPT ![Dir(t[1])][t[1]] = Result(t)] ELSE tree
    /\ gone' = gone \cup {p \in {t[1]} : \E u \in Prereqs[t] : u[1] \in gone}
    /\ UNCHANGED <<applied, image, src, goals, at, left, failed, asked, faults>>

(* Mutant: the failure of a command is ignored.                             *)
StepFails_Ignored(t) ==
    /\ plan[t] = "running" /\ faults < MaxFaults
    /\ plan' = [plan EXCEPT ![t] = "remade"]
    /\ stamp' = Touched(t)
    /\ faults' = faults + 1
    /\ UNCHANGED <<out, applied, gone, tree, image, src, goals, at, left, failed, asked>>

(* make starts nothing more, waits for the other jobs, and exits.           *)
StepFails(t) ==
    /\ plan[t] = "running"
    /\ \/ Refused(t) /\ UNCHANGED faults
       \/ ~Refused(t) /\ faults < MaxFaults /\ faults' = faults + 1
    /\ plan' = [plan EXCEPT ![t] = "failed"]
    /\ failed' = TRUE
    /\ UNCHANGED <<state, src, goals, at, left, asked>>

(* all ends with target-finalize and the filesystem images, remade always.  *)
GoalEnds(i) ==
    /\ at[i] = "walking" /\ ~failed
    /\ Finished(Walk(goals[i]))
    /\ at' = [at EXCEPT ![i] = "done"]
    /\ image' = IF goals[i].kind # "all" THEN image
                ELSE IF PerPackage THEN Merged(image, Pkg) ELSE tree["target"]
    /\ UNCHANGED <<stamp, out, applied, gone, tree, src, goals, left, plan, failed, asked, faults>>

AllDone == goals # << >> /\ \A i \in DOMAIN at : at[i] = "done"

Ends ==
    /\ AllDone \/ (failed /\ Running = {})
    /\ MakeExits
    /\ UNCHANGED faults

Interrupt ==
    /\ goals # << >> /\ faults < MaxFaults
    /\ MakeExits
    /\ faults' = faults + 1

Goal(i) ==
    \/ BeginClean(i) \/ RemoveStamp(i)
    \/ BeginDirclean(i) \/ WipeStamp(i) \/ EndDirclean(i)
    \/ Visit(i) \/ GoalEnds(i)

Target(t) ==
    \/ Start(t) \/ Finish(t) \/ StepFails(t)

MakeStep ==
    \/ \E i \in DOMAIN goals : Goal(i)
    \/ \E t \in Targets : Target(t)
    \/ Keep
    \/ Ends

Next ==
    \/ MakeStep
    \/ \E p \in Pkg : Edit(p)
    \/ \E line \in GoalLines : Make(line)
    \/ Interrupt

Spec == Init /\ [][Next]_vars

(* make runs on, and so do the commands it starts: each ends or fails.      *)
FairSpec == Spec /\ WF_vars(MakeStep)

(* -- Properties -----------------------------------------------------------*)

(* What make believes when it finds a target up to date; a package that a   *)
(* dirclean has half removed, or removed under make, is not counted.        *)
Trusted(t) == t[1] \notin gone /\ stamp[t] = "current"

(* A step make would not run again really is done, whatever was interrupted *)
(* before, and what is installed is what was built, if that would not be    *)
(* built again: the stamp is written after the last command, and a step     *)
(* made again outdates those after it.                                      *)
SoundStamps ==
    \A t \in Targets : Trusted(t) =>
        /\ out[t] \notin {None, Torn}
        /\ LET built == <<t[1], "built">>
           IN  t[2] \in Installs[t[1]] /\ stamp[built] = "current" => out[t] = out[built]

(* While a package is configured, compiled or installed, each package it    *)
(* depends on is installed as a whole and none of its steps is running: the *)
(* order-only prerequisites of the configure step hold in a parallel make   *)
(* and when stamps are being removed beside it; only a dirclean beside it   *)
(* takes the files away.                                                    *)
DepsWhole ==
    \A t \in Running : t[2] \in {"configured", "built", "installed"} \cup Installs[t[1]] =>
        \A d \in Needs[t[1]]["configured"] :
            /\ Of(d) \cap Running = {}
            /\ d \notin gone => out[<<d, "installed">>] \notin {None, Torn}

(* make <pkg>-rebuild all, when it succeeds, leaves the source as it was    *)
(* edited before in the root filesystem image.                              *)
ImageHasEdit ==
    AllDone /\ goals[Len(goals)].kind = "all" =>
        \A i \in DOMAIN goals :
            LET p == goals[i].pkg IN
            p \notin gone /\ goals[i].kind \in {"rebuild", "reconfigure"} /\ p \in Override /\ "target" \in Installs[p]
            => image[p] \in Nat /\ image[p] >= asked[p]

(* A package whose source is overridden is not configured again because its *)
(* source was copied again: only reconfigure and dirclean undo that step.   *)
KeepsConfiguration ==
    [][\A p \in Override : LET c == <<p, "configured">> IN
        stamp[c] # "absent" /\ plan[c] # "running" => plan'[c] # "running"]_vars

(* A make with no goal but all that meets no failure ends with every        *)
(* package built and installed, whatever earlier runs left behind, except   *)
(* for a package whose patches were once begun and interrupted, or whose    *)
(* directory a dirclean has half removed.                                   *)
Converges ==
    (/\ goals # << >> /\ \A i \in DOMAIN goals : goals[i].kind = "all"
     /\ \A i \in DOMAIN at : at[i] = "todo"
     /\ faults = MaxFaults /\ gone = {}
     /\ \A p \in HasPatches : applied[p] = 0 \/ stamp[<<p, "patched">>] = "current")
    ~> \A t \in Targets : Trusted(t)
=============================================================================
