----------------------------- MODULE KconfigValues -----------------------------
(***************************************************************************)
(* Kconfig at work: the configurators (conf and the menu front ends) read   *)
(* .config, change values, and save; the build asks conf for auto.conf and  *)
(* its headers.  Runs follow each other, the Kconfig sources may change     *)
(* between them, and every run may be killed at every step.  What that does *)
(* to the files is in KconfigFiles.                                         *)
(***************************************************************************)
EXTENDS KconfigAsk, KconfigFiles, TLC

CONSTANTS Fixed,      \* the file of fixed values for allyesconfig and its like
          Answers,    \* what users type: sets of pairs <<ans, pick>>
          Dice,       \* what chance gives
          Entered,    \* what a user enters for a text
          MaxRuns,    \* bound: runs of a configurator
          MaxEdits    \* bound: values set in the menu front ends

VARIABLES m,      \* the memory of the run
          runs, edits
vars == <<files, m, runs, edits>>

Init == FilesInit /\ m = Memory /\ runs = 0 /\ edits = 0

Stay == UNCHANGED <<runs, edits>>

Launch(t) ==
    /\ runs < MaxRuns
    /\ Opens(t)
    /\ m' = Memory'
    /\ runs' = runs + 1
    /\ UNCHANGED edits

SaveFrom(m1, then) == \E w \in {Write(m1)} : m' = w.m /\ Saves(w.out, then)
Hang(m1) == m' = m1 /\ Goes("hung")
Stop == m' = Memory /\ Ends

(***************************************************************************)
(* The modes of conf                                                        *)
(***************************************************************************)

Parsed == pc = "parsed" /\ Stay

OldConfig(mode, ans, pick) ==
    /\ Parsed
    /\ \E r \in {Update(Read(m, disk.config), mode, ans, pick)} :
           IF r.hung THEN Hang(r.m) ELSE SaveFrom(r.m, "none")

OldDefconfig == Parsed /\ SaveFrom(Read(m, disk.config), "none")

Defconfig == Parsed /\ IF disk.defconfig = Absent THEN Stop
                       ELSE SaveFrom(SetAllNew(Read(m, disk.defconfig), "default", <<>>).m, "none")

(* allyesconfig and its like, with or without a file of fixed values. *)
AllConfig(mode, file) ==
    /\ Parsed
    /\ SaveFrom(SetAllNew(IF file = Absent THEN m ELSE ReadSimple(m, file).m, mode, <<>>).m, "none")

RandConfig(dice) ==
    /\ Parsed
    /\ \E r \in {Randomize(m, dice, 3)} : IF r.changed THEN Hang(r.m) ELSE SaveFrom(r.m, "none")

SaveDefconfig == /\ Parsed
                 /\ SavesShort(WriteDefconfig(Read(m, disk.config)).out)
                 /\ m' = Memory

(* A mutant: what changed is not saved before auto.conf is written. *)
SyncConfig_Unsaved(ans, pick) ==
    /\ Parsed /\ ~disk.fresh
    /\ \E r \in {Update(Read(m, disk.config), "syncconfig", ans, pick)} :
           ~r.hung /\ m' = r.m /\ Goes("sync")

(* make: conf --syncconfig, when .config is newer than auto.conf. *)
SyncConfig(ans, pick) ==
    /\ Parsed /\ ~disk.fresh
    /\ \E r \in {Update(Read(m, disk.config), "syncconfig", ans, pick)} :
           CASE disk.config = Absent -> Stop
             [] disk.config # Absent /\ r.hung -> Hang(r.m)
             [] OTHER -> IF r.m.changes THEN SaveFrom(r.m, "sync") ELSE m' = r.m /\ Goes("sync")

(* KCONFIG_NOSILENTUPDATE: what would have to be saved is refused instead.  *)
SyncRefused == Parsed /\ ~disk.fresh /\ disk.config # Absent /\ Read(m, disk.config).changes /\ Stop

(***************************************************************************)
(* The menu front ends                                                      *)
(***************************************************************************)

OpenMenu == Parsed /\ m' = Read(m, disk.config) /\ Goes("edit")

Editing == pc = "edit" /\ UNCHANGED <<files, runs>>

Show(n) == /\ Editing /\ UNCHANGED edits
           /\ k.node[n].list # 0
           /\ m' = ShowBelow(m, n)

Shown(s) == s \in m.valid /\ m.vis[s] # no
Edit == Editing /\ edits < MaxEdits /\ edits' = edits + 1

Set(s, v) == /\ Edit /\ Shown(s) /\ k.ty[s] \in Logical
             /\ \E out \in {SetTri(m, s, v)} : out.ok /\ m' = out.m
Flip(s) == Edit /\ Shown(s) /\ k.ty[s] \in Logical /\ m' = Toggle(m, s)
Enter(s, x) == Edit /\ Shown(s) /\ k.ty[s] \notin Logical /\ m' = SetString(m, s, x).m

SaveMenu == pc = "edit" /\ Stay /\ SaveFrom(m, "edit")
Quit == pc = "edit" /\ Stay /\ Stop

(***************************************************************************)
(* The steps of the files                                                   *)
(***************************************************************************)

Saved == RenameNew /\ m' = (IF goal = "none" THEN Memory ELSE [m EXCEPT !.changes = FALSE]) /\ Stay
BeginSync == (\E m1 \in {Recalculated(m)} : SplitConfig(m1) /\ m' = m1) /\ Stay
Synced == RenameAuto /\ m' = Memory /\ Stay
Killed == Crash /\ m' = Memory /\ Stay

Next == \/ \E t \in DOMAIN sources : Launch(t)
        \/ \E mode \in {"oldconfig", "oldaskconfig"}, a \in Answers : OldConfig(mode, a[1], a[2])
        \/ OldDefconfig
        \/ Defconfig
        \/ \E mode \in {"yes", "mod", "no", "default"}, f \in {Absent, Fixed} : AllConfig(mode, f)
        \/ \E dice \in Dice : RandConfig(dice)
        \/ SaveDefconfig
        \/ \E a \in Answers : SyncConfig(a[1], a[2])
        \/ SyncRefused
        \/ OpenMenu
        \/ \E n \in DOMAIN k.node : Show(n)
        \/ \E s \in Symbols, v \in {no, mod, yes} : Set(s, v)
        \/ \E s \in Symbols : Flip(s)
        \/ \E s \in Symbols, x \in Entered : Enter(s, x)
        \/ SaveMenu \/ Quit
        \/ Saved \/ BeginSync \/ Synced \/ Killed
        \/ /\ RenameOld \/ TouchHeader \/ WriteFiles \/ RenameHeader \/ RenameTristate \/ Build
           /\ UNCHANGED <<m, runs, edits>>

Spec == Init /\ [][Next]_vars

(***************************************************************************)
(* What the values must be                                                  *)
(***************************************************************************)

Quiet == pc \in {"saving", "sync"} \/ (pc = "edit" /\ m.valid # {})
Members == Range(Table)
Forgotten(mm) == [mm EXCEPT !.valid = {}, !.curr = Memory.curr, !.vis = Memory.vis]
Fresh(mm) == CalcAll(Forgotten(mm), <<ModulesSym>> \o Table)

(* What a symbol is calculated from, and the symbols that are calculated    *)
(* from a number conf_read put aside, directly or through others.           *)
Operands(s) ==
    LET Of(i) == IF k.prop[i].type \in {"default", "range"} THEN {k.prop[i].visible, k.prop[i].expr}
                 ELSE {k.prop[i].visible}
    IN  UNION {Range(SymsOf(e)) : e \in {k.dir[s], k.rev[s], k.implied[s]}
                                        \cup UNION {Of(i) : i \in Range(PropsOf(k, s))}}
        \cup (IF IsChoiceValue(s) THEN {ChoiceOf(k, s)} ELSE {})
        \cup (IF IsChoice(s) THEN Range(ValuesOf(k, s)) ELSE {})
RECURSIVE UsersOf(_)
UsersOf(S) == LET T == {s \in Members : Operands(s) \cap S # {}}
              IN  IF T \subseteq S THEN T ELSE UsersOf(S \cup T)
Stale(mm) == IF mm.dropped = {} THEN {} ELSE UsersOf(mm.dropped)

(* What a run has cached is what it would calculate now: every change of a  *)
(* value forgets what may depend on it.  Excepted is what is Stale: conf_read *)
(* puts a number out of its range aside when the others are calculated from *)
(* the nearest number in the range, and forgets nothing but that number.    *)
(* Once a run saves, whatever symbol were asked for first, every symbol     *)
(* would get the same value; and once it writes auto.conf, what it has      *)
(* calculated is a memory the steps of the files take (KconfigFiles), with  *)
(* values that expressions are read by.                                     *)
CacheCoherent ==
    /\ Quiet => \A f \in {Fresh(m)} :
           /\ \A s \in (m.valid \cap Members) \ Stale(m) : f.curr[s] = m.curr[s]
           /\ pc = "saving" =>
                  \A g \in {CalcAll(Forgotten(m), <<s>> \o Table) : s \in Members} :
                      \A t \in Members : g.curr[t] = f.curr[t]
    /\ pc = "touch" => /\ m.write \subseteq Symbols /\ Settled(m)
                       /\ Calculated(k.ty, m.curr, m.curr[ModulesSym].tri)

(* A choice that is y has exactly one value that is on, a visible one, and  *)
(* a choice that is n has none.                                             *)
ChoiceHolds == Quiet => \A c \in k.choice \cap Members, f \in {Fresh(m)} :
    LET on == {v \in Range(ValuesOf(k, c)) : f.curr[v].tri = yes}
    IN  /\ f.curr[c].tri = yes /\ (\E v \in Range(ValuesOf(k, c)) : f.vis[v] # no)
               => on = {f.curr[c].val} /\ f.vis[f.curr[c].val] # no
        /\ f.curr[c].tri = no => on = {}

Same(m1, m2, S) == \A c \in {CalcAll(m1, Table)}, s \in S : Text(c, s) = Text(m2, s)

(* A saved .config gives back, to a run that knows nothing else, the values *)
(* it was saved with; that run has nothing to save, and nothing to ask.     *)
(* Excepted is what is Stale: it is saved beside the default of the number  *)
(* and comes back as what that default makes of it.  The shorter file of    *)
(* savedefconfig has no exception: it gives back what every symbol is once  *)
(* all is calculated again.                                                 *)
NothingTyped == [s \in Symbols |-> ""]
RoundTrip == pc = "saving" =>
    /\ \A r \in {Read(Memory, todo)} :
           /\ Same(r, m, Members \ Stale(m))
           /\ Stale(m) = {} => /\ ~r.changes
                               /\ Update(r, "listnewconfig", NothingTyped, NothingTyped).new = {}
    /\ Same(SetAllNew(Read(Memory, WriteDefconfig(m).out), "default", <<>>).m, Fresh(m), Members)

(* auto.conf gives the build the values of .config.                         *)
AutoMatches == [][disk'.fresh /\ ~disk.fresh
                  => LET r == Read(Memory, disk.config)
                     IN  Content(disk'.auto) = Content(AutoLines(Recalculated(r)))]_vars
================================================================================
