------------------------------ MODULE GitCache ------------------------------
(****************************************************************************)
(* support/download/git, the backend dl-wrapper runs for a git URI: it      *)
(* brings the git cache of a package up to date, checks the changeset out   *)
(* in it and archives the working tree.                                     *)
(*                                                                          *)
(* A failing command reaches the ERR trap, _on_error: the first time it     *)
(* removes the cache and the script executes itself again.  Under set -E    *)
(* the trap also runs in the subshells of $( ) and <( ): there it is the    *)
(* subshell that becomes a second run of the script, its output is what the *)
(* main shell reads, and BR_GIT_BACKEND_FIRST_FAULT is exported only there. *)
(* So there are two shells: "main", and "nested" inside a subshell of it,   *)
(* which starts with the variable set and so never nests again.             *)
(*                                                                          *)
(* git itself is outside the repository: its commands are modelled by what  *)
(* the script relies on (and by what they were seen to do, version 2.39).   *)
(* A commit is a model value; the working tree is the commit its tracked    *)
(* files are of, the one its submodule directory was updated for, the one   *)
(* its $Format$ hints were expanded for, and whether untracked files remain.*)
(* The flock of dl-wrapper leaves one run at a time for a package.  Branch  *)
(* names as changesets (which the manual excludes) and LFS are left out.    *)
(****************************************************************************)
EXTENDS Naturals, FiniteSets

CONSTANTS
    Commit,        \* commits, also a sha1 given as the changeset
    Annotated, Lightweight, Special,   \* names that may be changesets: two kinds of tags, and forge refs
    Before,        \* Before[c]: the commits c descends from
    WithSubmodule, \* the commits that have a submodule (at one path)
    MayFail,       \* the steps whose command may fail by itself
    Requests,      \* what runs are asked for: -c, -r, and -q (they and their nested runs print nothing)
    None, Garbage, Today,
    MaxNames,      \* bound: names the remote repository has at first
    MaxRuns,       \* bound: runs of the backend
    MaxMoves,      \* bound: changes of the remote repository
    MaxMishaps     \* bound: interrupted runs, and users who work in the cache

Ref == Annotated \cup Lightweight \cup Special
Tag == Annotated \cup Lightweight
Cset == Commit \cup Ref

(* The script's commands, in its order. *)
Steps == {"init", "origin", "fetch", "special", "verify", "dereg", "checkout", "clean",
          "date", "update", "paths", "attr", "format", "archive"}

(* Commands that take a lock file in .git: an interrupted one may leave it. *)
Locking == {"origin", "fetch", "special", "checkout", "update"}

ASSUME GitAssumption ==
    /\ Before \in [Commit -> SUBSET Commit]
    /\ WithSubmodule \subseteq Commit
    /\ MayFail \subseteq Steps \ {"special", "verify"}
    /\ Requests \subseteq [cset: Cset, recurse: BOOLEAN, quiet: BOOLEAN]
    /\ None \notin Commit /\ Garbage \notin Commit /\ Today \notin Commit
    /\ None # Garbage /\ None # Today /\ Garbage # Today
    /\ Annotated \cap (Lightweight \cup Special) = {} /\ Lightweight \cap Special = {}
    /\ Ref \cap Commit = {} /\ None \notin Ref
    /\ MaxNames \in Nat /\ MaxRuns \in Nat /\ MaxMoves \in Nat /\ MaxMishaps \in Nat

VARIABLES
    pushed, remote,  \* the remote repository: its commits, and what its names stand for
    cache,           \* "${git_cache}"
    main, nested,    \* where the two shells are, "idle" when they do not run
    want,            \* the options of the run: -c, -r and -q
    retried,         \* BR_GIT_BACKEND_FIRST_FAULT in the main shell
    gone,            \* the directory the main shell is in was removed under it
    date, nestedDate,\* "${date}" in each shell
    output,          \* the archive "${output}", or None
    result,          \* how the last run ended: "ok", "missing", "failed" or "killed"
    offered,         \* what the remote had for the changeset since the run began
    faulty,          \* what failed by itself in the run: a "command", or one of a "substitution"
    clones,          \* how often the run removed the cache to start from scratch, 2 for more
    runs, moves, mishaps

world == <<pushed, remote, moves>>
shells == <<main, nested, retried, gone, date, nestedDate>>
report == <<want, output, result, runs>>
vars == <<pushed, remote, cache, main, nested, want, retried, gone, date, nestedDate,
          output, result, offered, faulty, clones, runs, moves, mishaps>>

Opt(S) == S \cup {None}

NoCache ==
    [objects |-> {}, tag |-> [t \in Tag |-> None], ref |-> [r \in Ref |-> None], head |-> None,
     files |-> None, sub |-> None, expanded |-> None, junk |-> FALSE, broken |-> {}]

Init ==
    /\ pushed \in SUBSET Commit
    /\ remote \in [Ref -> Opt(pushed)]
    /\ Cardinality({r \in Ref : remote[r] # None}) <= MaxNames
    /\ cache = NoCache
    /\ main = "idle" /\ nested = "idle"
    /\ want \in Requests
    /\ retried = FALSE /\ gone = FALSE
    /\ date = None /\ nestedDate = None
    /\ output = None
    /\ result = "ok"
    /\ offered = {}
    /\ faulty = {}
    /\ clones = 0
    /\ runs = 0 /\ moves = 0 /\ mishaps = 0

-----------------------------------------------------------------------------
(* The remote repository. *)

Offer(c, commits, names) ==
    IF c \in Ref THEN names[c] ELSE IF c \in commits THEN c ELSE None

(* Somebody pushes a commit, or lets a name stand for another commit. *)
Push ==
    /\ moves < MaxMoves
    /\ \/ \E c \in Commit \ pushed : pushed' = pushed \cup {c} /\ UNCHANGED remote
       \/ /\ \E r \in Ref, c \in pushed : remote[r] # c /\ remote' = [remote EXCEPT ![r] = c]
          /\ UNCHANGED pushed
    /\ moves' = moves + 1
    /\ offered' = IF main = "idle" THEN offered
                  ELSE offered \cup {Offer(want.cset, pushed', remote')}
    /\ UNCHANGED <<cache, shells, report, faulty, clones, mishaps>>

-----------------------------------------------------------------------------
(* The two shells. *)

Shells == {"main", "nested"}

(* While a subshell runs the script, the main shell waits for its output. *)
At(s, step) ==
    /\ s = IF nested # "idle" THEN "nested" ELSE "main"
    /\ step = IF s = "nested" THEN nested ELSE main

Go(s, step) ==
    IF s = "main" THEN main' = step /\ UNCHANGED nested ELSE nested' = step /\ UNCHANGED main

(* A command does not work when an interrupted one left a lock it needs, or *)
(* when the directory it runs in is gone.                                   *)
Works(s, step) == step \notin cache.broken /\ ~(s = "main" /\ gone)

(* The command of the step succeeds: its effect, and the next step. *)
Done(s, step, next) ==
    /\ At(s, step)
    /\ Works(s, step)
    /\ Go(s, next)
    /\ UNCHANGED <<world, report, retried, gone, offered, faulty, clones, mishaps>>

Date(s) == IF s = "main" THEN date ELSE nestedDate

(* rm -rf "${git_cache}" *)
RemoveCache ==
    /\ cache' = NoCache
    /\ clones' = IF clones = 2 THEN 2 ELSE clones + 1

(* Mutant: the variable is not exported to the script that takes over. *)
OnError_Unexported(s) ==
    IF s = "main"
    THEN /\ RemoveCache
         /\ main' = "init" /\ retried' = FALSE /\ gone' = FALSE /\ date' = None
         /\ UNCHANGED <<nested, result>>
    ELSE nested' = "exit1" /\ UNCHANGED <<cache, clones, main, retried, gone, date, result>>

(* Mutant: the cache is left as it is. *)
OnError_Kept(s) ==
    IF s = "main" /\ ~retried
    THEN /\ UNCHANGED <<cache, clones>>
         /\ main' = "init" /\ retried' = TRUE /\ gone' = FALSE /\ date' = None
         /\ UNCHANGED <<nested, result>>
    ELSE IF s = "main"
    THEN main' = "idle" /\ result' = "failed"
         /\ UNCHANGED <<cache, clones, nested, retried, gone, date>>
    ELSE nested' = "exit1" /\ UNCHANGED <<cache, clones, main, retried, gone, date, result>>

(* _on_error, in the shell s itself: start over, or give up the second time. *)
OnError(s) ==
    \/ /\ s = "main" /\ ~retried
       /\ RemoveCache
       /\ main' = "init" /\ retried' = TRUE /\ gone' = FALSE /\ date' = None
       /\ UNCHANGED <<nested, result>>
    \/ /\ s = "main" /\ retried
       /\ main' = "idle" /\ result' = "failed"
       /\ UNCHANGED <<cache, clones, nested, retried, gone, date>>
    \/ /\ s = "nested"
       /\ nested' = "exit1"
       /\ UNCHANGED <<cache, clones, main, retried, gone, date, result>>

(* _on_error in a subshell of the main shell, which goes on waiting at the  *)
(* step given: the subshell becomes a run of its own.                       *)
Nest(waiting) ==
    /\ RemoveCache
    /\ main' = waiting
    /\ nested' = "init" /\ nestedDate' = None
    /\ gone' = (waiting # "mtime")
    /\ UNCHANGED <<retried, date, result>>

-----------------------------------------------------------------------------
(* One action per command that succeeds. *)

InitCache(s) == Done(s, "init", "origin") /\ UNCHANGED <<cache, date, nestedDate>>

(* Mutant: a cache that has commits is taken to be up to date. *)
SetOrigin_Skips(s) ==
    /\ Done(s, "origin", IF cache.objects = {} THEN "fetch" ELSE "special")
    /\ UNCHANGED <<cache, date, nestedDate>>

SetOrigin(s) == Done(s, "origin", "fetch") /\ UNCHANGED <<cache, date, nestedDate>>

(* fetch origin, then fetch origin -t -f: all commits, and the tags as they *)
(* are now.  A tag the remote lacks stays in the cache.                     *)
Fetch(s) ==
    /\ Done(s, "fetch", "special")
    /\ cache' = [cache EXCEPT !.objects = @ \cup pushed,
                              !.tag = [t \in Tag |-> IF remote[t] = None THEN @[t] ELSE remote[t]]]
    /\ UNCHANGED <<date, nestedDate>>

(* git creates or fast-forwards the local ref of the same name.  A tag's    *)
(* ref is a branch (refs/heads/<tag>): an annotated tag is no commit and is *)
(* refused, and so is an update of the branch that is checked out.          *)
Updates(r) ==
    /\ r \in Lightweight \cup Special
    /\ remote[r] # None
    /\ \/ cache.ref[r] = None
       \/ cache.ref[r] \in Before[remote[r]] /\ cache.head # r

(* fetch origin cset:cset, for a special ref; tested, so a failure (always  *)
(* possible) is ignored.                                                    *)
FetchSpecial(s) ==
    /\ At(s, "special")
    /\ Go(s, "verify")
    /\ \/ UNCHANGED cache
       \/ /\ Works(s, "special")
          /\ want.cset \in Ref /\ Updates(want.cset)
          /\ cache' = [cache EXCEPT !.ref[want.cset] = remote[want.cset]]
    /\ UNCHANGED <<world, report, retried, gone, date, nestedDate, offered, faulty, clones, mishaps>>

(* What rev-parse makes of the changeset. *)
Parsed(c) ==
    IF c \in Commit THEN IF c \in cache.objects THEN c ELSE None
    ELSE IF c \in Tag /\ cache.tag[c] # None THEN cache.tag[c] ELSE cache.ref[c]

Verify(s) ==
    /\ Parsed(want.cset) # None
    /\ Done(s, "verify", "dereg")
    /\ UNCHANGED <<cache, date, nestedDate>>

(* "does not exist in this repository": exit 1, past the trap. *)
Missing(s) ==
    /\ At(s, "verify")
    /\ Parsed(want.cset) = None
    /\ \/ s = "main" /\ main' = "idle" /\ result' = "missing" /\ UNCHANGED nested
       \/ s = "nested" /\ nested' = "exit1" /\ UNCHANGED <<main, result>>
    /\ UNCHANGED <<world, cache, want, output, runs, retried, gone, date, nestedDate,
                   offered, faulty, clones, mishaps>>

(* Mutant: submodules are not deregistered. *)
Deregister_Not(s) == Done(s, "dereg", "checkout") /\ UNCHANGED <<cache, date, nestedDate>>

(* submodule foreach: remove the working copies of those of the current index. *)
Deregister(s) ==
    /\ Done(s, "dereg", "checkout")
    /\ cache' = [cache EXCEPT !.sub = IF cache.files \in WithSubmodule THEN None ELSE @]
    /\ UNCHANGED <<date, nestedDate>>

(* Mutant: without -f, a file edited in the cache stays as it is. *)
Checkout_Kept(s) ==
    /\ Done(s, "checkout", "clean")
    /\ cache' = [cache EXCEPT !.head = Parsed(want.cset), !.files = Parsed(want.cset)]
    /\ UNCHANGED <<date, nestedDate>>

(* checkout -f: a branch of that name is preferred, and HEAD stays on it.   *)
Checkout(s) ==
    LET c == want.cset
        branch == c \in Lightweight /\ cache.ref[c] # None
        target == IF branch THEN cache.ref[c] ELSE Parsed(c)
    IN  /\ Done(s, "checkout", "clean")
        /\ cache' = [cache EXCEPT !.head = IF branch THEN c ELSE target,
                                  !.files = target, !.expanded = None]
        /\ UNCHANGED <<date, nestedDate>>

(* clean -ffdx: what is not tracked goes, a submodule that is not one any   *)
(* more included.                                                           *)
Clean(s) ==
    /\ Done(s, "clean", "date")
    /\ cache' = [cache EXCEPT !.junk = FALSE,
                              !.sub = IF cache.files \in WithSubmodule THEN @ ELSE None]
    /\ UNCHANGED <<date, nestedDate>>

AfterDate == IF want.recurse THEN "update" ELSE "attr"

(* date="$(git log -1)" *)
SetDate(s) ==
    /\ Done(s, "date", AfterDate)
    /\ \/ s = "main" /\ date' = cache.files /\ UNCHANGED nestedDate
       \/ s = "nested" /\ nestedDate' = cache.files /\ UNCHANGED date
    /\ UNCHANGED cache

(* submodule update --init --recursive *)
UpdateSubmodules(s) ==
    /\ Done(s, "update", "paths")
    /\ cache' = [cache EXCEPT !.sub = IF cache.files \in WithSubmodule THEN cache.files ELSE None]
    /\ UNCHANGED <<date, nestedDate>>

(* The loop over the submodules that makes their gitdir paths relative. *)
FixPaths(s) == Done(s, "paths", "attr") /\ UNCHANGED <<cache, date, nestedDate>>

(* find | check-attr: the files with export-subst ... *)
ListFiles(s) == Done(s, "attr", "format") /\ UNCHANGED <<cache, date, nestedDate>>

(* ... and their hints replaced. *)
Format(s) ==
    /\ Done(s, "format", "archive")
    /\ cache' = [cache EXCEPT !.expanded = IF @ = None THEN cache.files ELSE @]
    /\ UNCHANGED <<date, nestedDate>>

(* mk_tar_gz, outside the cache's directory; it needs a date that parses.   *)
Archive(s) ==
    /\ At(s, "archive")
    /\ Date(s) # Garbage
    /\ output' = [files |-> cache.files, sub |-> cache.sub, expanded |-> cache.expanded,
                  junk |-> cache.junk, date |-> Date(s)]
    /\ \/ s = "main" /\ main' = "idle" /\ result' = "ok" /\ UNCHANGED nested
       \/ s = "nested" /\ nested' = "exit0" /\ UNCHANGED <<main, result>>
    /\ UNCHANGED <<world, cache, want, runs, retried, gone, date, nestedDate,
                   offered, faulty, clones, mishaps>>

-----------------------------------------------------------------------------
(* Failures. *)

(* The steps whose command is in a $( ) or <( ), and the other ones the     *)
(* trap sees.                                                               *)
Substituted == {"date", "paths", "attr"}
Plain == Steps \ ({"special", "verify"} \cup Substituted)

(* The command of the step fails, because of its surroundings or by itself. *)
Fails(s, step) ==
    /\ At(s, step)
    /\ \/ ~Works(s, step) /\ step # "archive" /\ UNCHANGED faulty
       \/ step \in MayFail /\ faulty' = faulty \cup {IF step \in Substituted THEN "substitution" ELSE "command"}
    /\ UNCHANGED <<world, want, output, runs, offered, mishaps>>

PlainFails(s) ==
    /\ \E step \in Plain : Fails(s, step)
    /\ OnError(s)
    /\ UNCHANGED nestedDate

(* Mutant: the trap does not look at the variable. *)
DateFails_Again(s) ==
    /\ Fails(s, "date")
    /\ \/ s = "main" /\ Nest("date")
       \/ s = "nested" /\ OnError(s) /\ UNCHANGED nestedDate

(* git log fails in $( ): the subshell takes over, or the assignment fails  *)
(* too when the variable is set.                                            *)
DateFails(s) ==
    /\ Fails(s, "date")
    /\ \/ s = "main" /\ ~retried /\ Nest("date")
       \/ (s = "nested" \/ retried) /\ OnError(s) /\ UNCHANGED nestedDate

(* The status of $( ) in the words of a for loop is lost. *)
PathsFail(s) ==
    /\ Fails(s, "paths")
    /\ \/ s = "main" /\ ~retried /\ Nest("paths")
       \/ /\ s = "nested" \/ retried
          /\ Go(s, "attr")
          /\ UNCHANGED <<cache, clones, retried, gone, date, nestedDate, result>>

(* So is the one of <( ): without a list no file is changed. *)
AttrFails(s) ==
    /\ Fails(s, "attr")
    /\ \/ s = "main" /\ ~retried /\ Nest("attr")
       \/ /\ s = "nested" \/ retried
          /\ Go(s, "archive")
          /\ UNCHANGED <<cache, clones, retried, gone, date, nestedDate, result>>

(* date -d rejects what a nested run printed, in a $( ) of mk_tar_gz. *)
MtimeFails ==
    /\ At("main", "archive")
    /\ date = Garbage
    /\ Nest("mtime")
    /\ UNCHANGED <<world, want, output, runs, offered, faulty, mishaps>>

(* The nested run ends and the main shell goes on with what it printed.     *)
NestedEnds(codes, waiting) ==
    /\ nested \in codes
    /\ main = waiting
    /\ UNCHANGED <<world, want, output, runs, nestedDate, offered, faulty, mishaps>>

Continue(step) ==
    /\ nested' = "idle"
    /\ main' = step
    /\ UNCHANGED <<cache, clones, retried, gone, result>>

(* OnError("main"), with the nested shell gone. *)
Restart ==
    /\ RemoveCache
    /\ nested' = "idle"
    /\ main' = "init" /\ retried' = TRUE /\ gone' = FALSE /\ date' = None
    /\ UNCHANGED result

(* Its output becomes the date: nothing with -q, which date -d takes for    *)
(* today, and otherwise the commands it printed.                            *)
DateReturns ==
    \/ /\ NestedEnds({"exit0"}, "date")
       /\ Continue(AfterDate)
       /\ date' = IF want.quiet THEN Today ELSE Garbage
    \/ NestedEnds({"exit1"}, "date") /\ Restart

PathsReturn ==
    /\ NestedEnds({"exit0", "exit1"}, "paths")
    /\ Continue("attr")
    /\ UNCHANGED date

(* A failure of check-attr's own subshell fails the pipeline, whose shell   *)
(* runs the trap in turn.                                                   *)
AttrReturns ==
    \/ NestedEnds({"exit0"}, "attr") /\ Continue("archive") /\ UNCHANGED date
    \/ /\ nested = "exit1" /\ main = "attr"
       /\ Nest("substitution")
       /\ UNCHANGED <<world, want, output, runs, offered, faulty, mishaps>>

(* What it prints is read as the name of a file, which does not exist. *)
SubstitutionReturns ==
    /\ NestedEnds({"exit0", "exit1"}, "substitution")
    /\ \/ want.quiet /\ Continue("archive") /\ UNCHANGED date
       \/ ~want.quiet /\ Restart

MtimeReturns == NestedEnds({"exit0", "exit1"}, "mtime") /\ Restart

-----------------------------------------------------------------------------
(* Around the runs. *)

(* dl-wrapper runs the backend. *)
Start ==
    /\ main = "idle"
    /\ runs < MaxRuns
    /\ runs' = runs + 1
    /\ want' \in Requests
    /\ main' = "init"
    /\ retried' = FALSE /\ gone' = FALSE /\ date' = None /\ nestedDate' = None
    /\ output' = None /\ result' = "ok"
    /\ offered' = {Offer(want'.cset, pushed, remote)}
    /\ faulty' = {}
    /\ clones' = 0
    /\ UNCHANGED <<world, cache, nested, mishaps>>

(* The run is interrupted, subshell included: a lock file may remain, and   *)
(* while hints are replaced a .br-temp file.                                *)
Kill ==
    /\ main # "idle"
    /\ mishaps < MaxMishaps
    /\ mishaps' = mishaps + 1
    /\ main' = "idle" /\ nested' = "idle"
    /\ result' = "killed"
    /\ LET step == IF nested # "idle" THEN nested ELSE main
       IN  \E lock \in SUBSET (Locking \cap {step}) :
              cache' = [cache EXCEPT !.broken = @ \cup lock, !.junk = @ \/ step = "format"]
    /\ UNCHANGED <<world, want, output, runs, retried, gone, date, nestedDate,
                   offered, faulty, clones>>

(* "if the user manually mucked around in the git cache": untracked files,  *)
(* submodules checked out, edited files, another commit.                    *)
Muck ==
    /\ main = "idle"
    /\ mishaps < MaxMishaps
    /\ mishaps' = mishaps + 1
    /\ \E c \in cache.objects :
          cache' = [cache EXCEPT !.junk = TRUE, !.files = c, !.head = c, !.expanded = Garbage,
                                 !.sub = IF c \in WithSubmodule THEN c ELSE None]
    /\ UNCHANGED <<world, shells, report, offered, faulty, clones>>

Run(s) ==
    \/ InitCache(s) \/ SetOrigin(s) \/ Fetch(s) \/ FetchSpecial(s)
    \/ Verify(s) \/ Missing(s) \/ Deregister(s) \/ Checkout(s) \/ Clean(s)
    \/ SetDate(s) \/ UpdateSubmodules(s) \/ FixPaths(s)
    \/ ListFiles(s) \/ Format(s) \/ Archive(s)
    \/ PlainFails(s) \/ DateFails(s) \/ PathsFail(s) \/ AttrFails(s)

Return ==
    \/ MtimeFails \/ DateReturns \/ PathsReturn \/ AttrReturns
    \/ SubstitutionReturns \/ MtimeReturns

Next == (\E s \in Shells : Run(s)) \/ Return \/ Start \/ Kill \/ Muck \/ Push

(* The shells run until they end; the rest may happen or not. *)
Fairness == WF_vars((\E s \in Shells : Run(s)) \/ Return)

Spec == Init /\ [][Next]_vars /\ Fairness

-----------------------------------------------------------------------------
(* Properties. *)

CacheType ==
    [objects: SUBSET Commit, tag: [Tag -> Opt(Commit)], ref: [Ref -> Opt(Commit)],
     head: Opt(Commit) \cup Ref, files: Opt(Commit), sub: Opt(Commit),
     expanded: Opt(Commit) \cup {Garbage}, junk: BOOLEAN, broken: SUBSET Locking]

OutputType ==
    [files: Opt(Commit), sub: Opt(Commit), expanded: Opt(Commit) \cup {Garbage},
     junk: BOOLEAN, date: Opt(Commit) \cup {Today}]

ShellType ==
    /\ main \in Steps \cup {"idle", "substitution", "mtime"}
    /\ nested \in Steps \cup {"idle", "exit0", "exit1"}
    /\ nested # "idle" => main \in {"date", "paths", "attr", "substitution", "mtime"} /\ ~retried
    /\ nested # "idle" => gone \/ main = "mtime"
    /\ retried \in BOOLEAN /\ gone \in BOOLEAN
    /\ retried => date \notin {Garbage, Today}
    /\ date \in Opt(Commit) \cup {Garbage, Today} /\ nestedDate \in Opt(Commit)

(* Types: also, a nested run only exists inside a substitution of a main    *)
(* shell that has not started over yet, and only that shell can have read   *)
(* something else than a date.                                              *)
TypeOK ==
    /\ pushed \subseteq Commit /\ remote \in [Ref -> Opt(Commit)]
    /\ cache \in CacheType
    /\ ShellType
    /\ want \in Requests
    /\ output \in Opt(OutputType)
    /\ result \in {"ok", "missing", "failed", "killed"}
    /\ offered \subseteq Opt(Commit) /\ faulty \subseteq {"command", "substitution"}
    /\ clones \in 0 .. 2 /\ runs \in 0 .. MaxRuns /\ moves \in 0 .. MaxMoves /\ mishaps \in 0 .. MaxMishaps

Succeeded == main = "idle" /\ runs > 0 /\ result = "ok"

SubmoduleOf(c) == IF want.recurse /\ c \in WithSubmodule THEN c ELSE None

(* A changeset that always stands for the same commit unless the remote     *)
(* repository moves it: no forge ref, whose fetch may fail, and no          *)
(* lightweight tag, whose branch in the cache stays where it is.            *)
Exact == want.cset \in Commit \cup Annotated

(* A run that succeeds has archived the files of one commit the changeset   *)
(* stood for during the run (itself, for a sha1), its submodule when -r     *)
(* asked for it and only then, and nothing an earlier version, a killed run *)
(* or a user left in the cache, whatever failed.  With -q that only holds   *)
(* when nothing failed in a substitution.                                   *)
ArchivesChangeset ==
    Succeeded /\ Exact /\ ~(want.quiet /\ "substitution" \in faulty) =>
        /\ output.files \in offered \ {None}
        /\ output.sub = SubmoduleOf(output.files)
        /\ ~output.junk

(* The archive is the same whatever failed, was interrupted or was done to  *)
(* the cache before: its hints are expanded for the commit it is of, and it *)
(* is dated by it, unless a command failed in a substitution.               *)
ArchiveReproducible ==
    Succeeded /\ "substitution" \notin faulty =>
        output.expanded = output.files /\ output.date = output.files

(* A changeset is only reported missing when the remote repository did not  *)
(* have it at some time of the run; a forge ref also when its fetch failed. *)
MissingIsMissing ==
    main = "idle" /\ runs > 0 /\ result = "missing" /\ want.cset \notin Special
        => None \in offered

(* A run none of whose commands fails by itself does not fail, whatever     *)
(* earlier runs, interrupts and users did to the cache, and throws it away  *)
(* at most once; a missing commit never makes it do so when nothing was     *)
(* interrupted.                                                             *)
Recovers ==
    faulty = {} => /\ result # "failed"
                   /\ clones <= 1
                   /\ clones = 1 => mishaps > 0

(* Every run ends, also when commands go on failing. *)
Terminates == main # "idle" ~> main = "idle"
=============================================================================
