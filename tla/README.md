# A TLA+ model of the BeagleBone Buildroot tree

This directory holds TLA+ specifications of the parts of the repository that
carry control logic of their own, TLC configurations that check them on small
instances, and TLAPS proofs of what matters most for every instance. Paths
below are relative to the repository.

## The system

The repository is a Buildroot tree (`buildroot/`), an overlay for the root
filesystem of a BeagleBone (`overlays/beaglebone/rootfs-overlay/`) and host
scripts that sign, flash and deploy images (`scripts/`).

```
 developer ── make ──► package build engine ──► target/ ──► images/ ──► card ──► board
                        │   stamps, per-package dirs          ▲           ▲
                        ▼                                     │           │
                 download wrapper ◄─ flock ─► other builds    overlay ◄─ signing scripts
                        │  └─► git backend ─► git cache       (checksum, signature, key)
                 BR2_DL_DIR (shared)
 developer ── menuconfig, nconfig, conf ──► .config ── syncconfig ──► auto.conf, headers ──► make
 make ── compiles through ──► toolchain wrapper ──► gcc
 board: u-boot ─► S03mount_boot ─► S05verify_image ─► … ─► running system ◄─ scp (deploy)
```

### Inventory

| component | state it keeps | operations | what is hard | what makes it correct |
|---|---|---|---|---|
| download wrapper (`support/download/dl-wrapper`, `check-hash`, `package/pkg-download.mk`) | the file in `BR2_DL_DIR`, the flock, temporaries | link or copy the legacy file, check it, try each URI, publish by rename | builds of several trees in one directory, killed runs, mirrors that fail or lie, use outside the lock | a success means a verified file; a decided file is kept; nobody waits for ever; a good mirror suffices |
| package build engine (`package/pkg-generic.mk`, `pkg-utils.mk`) | stamp files, build and per-package directories, the image | the steps of a package, `<pkg>-{reinstall,rebuild,reconfigure,dirclean}`, `all` | interrupts between steps, parallel make, stamps removed while make reads them | a stamp tells the truth; no half-installed dependency; an edit reaches the image; make always completes what earlier runs left |
| boot artifacts and verification (`etc/init.d/S03mount_boot`, `S05verify_image`, `usr/local/sbin/verify_boot_image.sh`) | files of the FAT partition and of the root filesystem, the stash in `/run`, the mount | stash, mount, restore, remount, sync; verify; reboot | power losses, unsynced and torn writes, failing remounts, reboot loops | only a signed kernel is accepted; no crash spoils a complete card; a good card boots |
| signing and deployment (`scripts/make_keys_and_sign.sh`, `gen_and_deploy_artifacts.sh`) | key pair, checksum and signature files, the overlay | generate keys, write and sign the checksum, copy into the overlay, scp | interrupted scripts, stale files of earlier runs, regenerated keys, deployment file by file | the documented procedure makes a card that boots |
| git backend (`support/download/git`) | the git cache | init, fetch, checkout, archive; on any error remove the cache and start over once | the retry runs in subshells too, where its exit status or output is misread; refs and leftovers of earlier runs; kills | a success archives the changeset and nothing else; every run ends; what earlier runs left does not make one fail |
| web job runner (`www/cgi-bin/run_job.cgi`) | log file, background jobs | authorise, start, time out, log | concurrent requests, `set -e` in the background | every started job is logged to its end |
| init and network (`S20htpasswd`, `S41eth`, `S42wifi`, `S50lighttpd`) | credentials file, DHCP clients, daemons | create if missing; start clients; restart the server | unbounded wait, scripts that kill each other's processes, restart races | every script ends; one client per interface; the server is up |
| top-level make and images (`Makefile`, `fs/common.mk`) | `target/`, per-filesystem copies | finalize, overlays, one image per filesystem | partial finalization, parallel filesystems | an image is made of a complete target directory |
| dependency graph tools (`support/scripts/graph-depends`, `brpkgutil.py`) | none | transitive reduction, cycle check | recursion on graphs | equal to a reference definition |
| Kconfig core (`support/kconfig`: `expr.c`, `menu.c`, `symbol.c`, `confdata.c`, `conf.c`, the actions of `zconf.y`) | the menu tree, each symbol's user value and cached value, `.config`, `auto.conf` and the headers | parse and finalize; calculate; set; read, write; the modes of `conf`; syncconfig | rewriting of conditions, caches, choices, files that must read back as they were written, kills between renames | rewriting keeps meanings; no stale value; a saved file says what memory says; the build sees every change |
| text front ends (`mconf.c`, `nconf.c`, `nconf.gui.c`, `lxdialog/`) | open menus and boxes, cursor and window of each, the change count | keys, searches, resizes; load, save, exit, signals | what the screen shows against what a key acts on; several ways out of a session | a key acts on what is lit; no exit that looks successful loses a change |
| toolchain wrapper (`toolchain/toolchain-wrapper.c`) | none | find the compiler, refuse paths, add options, execute | a buffer sized before it is filled, options with joined or separate paths | no host path gets through, the caller's options win, the buffer suffices |
| external or data (graphical front ends, lexer, makedevs, package recipes, test tools, scanners, workflows) | | | | see *Not modelled* |

How they interact: make calls the wrapper while it makes `.stamp_downloaded`;
the wrapper shares `BR2_DL_DIR` with other makes by flock only, and the extract
step reads the file after the lock is released. For a git URI it runs the git
backend, which keeps a clone beside the file, under the same lock. The engine's `all` copies the
overlay, which the signing scripts write, into the root filesystem of the card.
On the board S03 restores what the overlay carried onto the FAT partition, and
S05 reads it. A deployment writes the same files on the running board. make
runs `conf --syncconfig` when `auto.conf` is older than `.config`; what the
engine builds is what these files select, and its compilers are the wrapper.

## Modules

| module | models |
|---|---|
| `CheckHash` | `check-hash` as an operator: the exit code for a file and a list of `.hash` files |
| `DownloadCache` | abstract specification: one cell, granted only while it holds an accepted file |
| `DlWrapper` | `dl-wrapper` under flock, `.stamp_downloaded` and the extraction, as concurrent builds |
| `DlWrapper_proofs` | theorems about `DlWrapper`, about `DownloadCache`, and that the one implements the other |
| `GitCache` | `support/download/git`: the cache, the two shells, the ERR trap, the remote repository |
| `GitCache_proofs` | theorems about `GitCache` |
| `VerifyImage` | `verify_boot_image.sh` as an operator |
| `BootBoard` | the board: S03, S05, power losses, reboots |
| `ImageRelease` | the host's scripts and make, composed with `BootBoard` |
| `ImageRelease_proofs` | theorems about the host and the board |
| `PkgBuild` | stamps, goals, make, per-package directories, the image |
| `PkgBuild_proofs` | theorems about `PkgBuild` |
| `KconfigTypes` | what every part shares: tristates, types, the text of a value |
| `KconfigOperands` | `expr.c` where nothing recurses: symbols and comparisons, their value, joining two of them |
| `KconfigExpr` | `expr.c`: expressions, their simplification, comparison, value and printing |
| `KconfigMenu` | `menu.c`: the calls of the parser, `menu_finalize`; the search for recursive dependencies |
| `KconfigTree` | the parser as a machine: any tree of given statements, then finalized and searched |
| `KconfigSymbol` | `symbol.c`: values, visibility, ranges, caching and setting |
| `KconfigLines` | `confdata.c`, line by line: reading a file, the lines of `auto.conf`, the comparison of the old with the new |
| `KconfigConf` | `confdata.c`: loading, saving `.config` and the defconfig, setting all new symbols |
| `KconfigFiles` | what the runs do to the files, whatever values they calculate: saves and syncconfig step by step, kills, the build |
| `KconfigAsk` | `conf.c`: the walk through the menus, the questions, choices |
| `KconfigValues` | runs of `conf` and of the menu front ends: the steps of `KconfigFiles` with the values they write |
| `KconfigSync` | abstract specification: what syncconfig promises make; `KconfigFiles` implements it |
| `Kconfig_proofs` | theorems about `KconfigLines` and `KconfigFiles`, that the files implement `KconfigSync`, and about `KconfigOperands` |
| `ListBoxes` | menu box, radio list and the nconfig window with its search |
| `EntryBoxes` | input boxes, yes/no boxes |
| `TextBoxes` | text box with jump keys, scrolled window |
| `MenuSession` | sessions of menuconfig and nconfig: menus, load, save, search, exit, signals |
| `FrontEnds_proofs` | theorems about the fields, the lists, the sessions and the windows over a text |
| `ToolchainWrapper` | one call of the compiler through the wrapper |
| `FiniteRecursion` | lemmas the proofs about loops share: recursive functions on a finite domain, loops over `1 .. n` |
| `ToolchainWrapper_proofs` | theorems about the wrapper's loops and what they let through |
| `MCDlWrapper`, `MCGitCache`, `MCImageRelease`, `MCPkgBuild`, `MCKconfigValues`, `MCTools` | instances for TLC |

### DlWrapper

One process per build. `pc` follows the script: `legacy` (59-70), `copying` (a
`cp` that has opened the final name), `exists` and `remove` (72-88), `uri`,
`backend` and `check` (the loop, 90-185), `save`, `cat`, `mv` (194-236) and
`exit`. `out` is the file under its final name, `tmpd` and `tmpo` the two
temporaries, `litter` what of them outlived a run, each with what ended it
(`Ends`). A file is a member of
`Content` or `Partial`, a torn copy: no recorded hash is that of a torn file,
but without a `.hash` file check-hash accepts anything, as the code does. Every
command that may fail (`ln`, `cp`, the two `mktemp`, `cat` and `mv`, whose status
the script looks at, and `chmod` and `rm`, which `set -e` ends it at) is an
action of its own when `MayFail` allows it; a `cp` that fails leaves nothing, a
torn file or a whole one. `Kill` ends a run at any command.
A backend is external: it delivers what `Served` allows, or fails.

### GitCache

One action per command of the script when it succeeds, in its order, from
`git init` (126) to the archive (299), and one per kind of failure. A failing
command runs `_on_error` (37-53): it removes the cache, sets
`BR_GIT_BACKEND_FIRST_FAULT` and executes the script again, or gives up. `set -E`
gives the trap to subshells: for a command of `$( )` or `<( )` (the date, 196; the
submodule paths, 210; `check-attr`, 239; `date -d` in `mk_tar_gz`) it is the
subshell that becomes a new run, whose output the main shell reads and whose
exported variable the main shell does not see. So `main` and `nested` say where
two shells are; `Nest` starts the second, the `…Returns` actions are what the
first makes of its end: the assignment of line 196 fails with it, the loop of
line 210 and the `mapfile` of line 239 do not. `gone` says that the directory the
main shell stands in was removed under it.

A commit is a model value. The working tree of the cache is the commit of its
files, that of its submodule, that its `$Format$` hints were expanded for, and
whether untracked files are there; `cache.tag` and `cache.ref` are the tags and
the local refs that `fetch origin cset:cset` makes. `broken` are the commands
that a lock file of a killed one stops. `Push` moves what the names of the remote
repository stand for, `Muck` is the user whom the comment of `_on_error`
mentions. git is external: its commands do what the script relies on; what it
does with a tag as a refspec, with locks and in a removed directory was observed
with git 2.39. `offered` (what the remote had for the changeset
during the run), `faulty` and `clones` are history.

Abstractions: one submodule path; a commit is fetched with all its files; LFS and
branch names (which the manual excludes) are left out; `rm -rf` succeeds;
`mk_tar_gz` works once it has a date; the directory stack of a nested run, which
is its own, is never empty.

### BootBoard, VerifyImage and ImageRelease

`fat` and `root` are the two partitions of the card; `root` has a directory
`/boot` of its own, which is what scp and the verifier see when the mount failed.
`dirty` are the files of both that are written
and not synced, which a power loss keeps, tears or loses (`Survivors`). `StashArtifacts`,
`Mount`/`MountFails`, the loop over `ART_NAMES` (`SkipArtifact`, `RemountRw`,
`CopyRefused`, `CopyBegins`, `CopyEnds`, `CopyFails`) and `EndRestore` are S03;
`VerifyOk`, `VerifyWarns`, `VerifyRejects` are S05 with the exit code of
`VerifyRc`. A checksum file is represented by the image whose digest it holds,
a signature by its key and checksum. The host runs one command of the script
per action and may stop after each (`StopScript`); a `sha256sum` that fails goes
unnoticed (`ChecksumFails`, allowed by `Sha256sumMayFail`); `scp` may tear a file. Host
and booting board share nothing, so the host moves only while the board is off
or up. `signed`, `book` and `byTheBook` are history: what was ever signed, and
whether a card was made by the documented procedure. A card is `Sealed` when its
FAT partition has a synced image, checksum and signature that pass, and what is in
the `/boot` of the root filesystem passes too, as far as it has an image: a boot
whose mount fails looks at that one.

Abstractions: a host-side `cp` or checksum is atomic, the script is interrupted
between commands; the two candidate devices of S03 are one partition; the
options `--copy-image` and `--out-dir` and the public key copied to the board
are left out.

### PkgBuild

A target is a package's step; `stamp` says whether its stamp file is absent,
current, or older than a normal prerequisite (`outdated`). That is all make
compares, so no clock is kept: touching a stamp outdates those that have it as
a normal prerequisite. `out` is the version of the source that the step's
commands left, `Torn` while they run or when they were interrupted; `tree` the
target directories, `image` the root filesystem. `plan` is what the running make
knows of each target: looked at once (`must`, `maybe`), `running`, `remade`,
`kept`. `at` is how far it is with each goal of its command line. make's own
rules (a target is looked at once per run; a serial make ends a goal before the
next; a parallel one goes on to the next goal while recipes of the first run;
after a failure nothing more is started) are external and modelled as GNU make
documents them; `.WAIT` is modelled as effective, as in make 4.4 and later.

Abstractions: an edit is copied by rsync as a whole or not at all; installing
replaces files, it does not write through hard links; target-finalize with the
image is one step; of the per-package directories only the target side is kept;
patches are counted, not named (`applied`: begun never, once, more often), and a
directory in which patching was begun twice refuses them all
(`apply-patches.sh:110` refuses the first that is in its list).
`gone` marks packages whose directory an interrupted dirclean half removed, or
that a dirclean removed after the same make had looked at some of their targets:
the code cannot tell such a directory from a good one, and the properties about
stamps are stated for the other packages.

### Kconfig

An expression is a record; the rewriting of `expr.c` (`Eliminate…`, `TransBool`,
`RewriteM`, `Compare`) is functions on it. `k` is everything the
parser has built: entries in `k.node` with the `next` and `list` pointers of the
C code, properties in `k.prop`, types, reverse dependencies and choices.
`KconfigTree` lets the statements come in any order the grammar allows, so the
run sees every tree of its bounds, then takes one step for `conf_parse` after the
file: `menu_finalize` and `sym_check_deps` on each symbol. `raw` is the tree
before that step: it is what the file says, and the properties compare the two.

`KconfigSymbol` gives a memory `m` the flags and values a run has: user values
(`def`), the old `auto.conf` (`old`), the calculated ones (`curr`, valid while in
`m.valid`), visibilities. Calculating is a function from memories to memories, as
in the code, where asking for a value stores it; a long C function is a chain of
small operators named for what its parts do, each taking what the former
returned. `m.dropped` is history: the numbers out of their range that a reading of
the file put aside since everything was last forgotten; `Stale` are the symbols
calculated from them.

The machine is in two parts. `KconfigFiles` has the files and how far a run is
with them: `Opens` (`conf_parse`, of any version of the sources), `Saves` up to the
temporary file, `RenameOld`, `RenameNew`; `SplitConfig`, one `TouchHeader` per
header, `WriteFiles`, `RenameHeader`, `RenameTristate`, `RenameAuto`; `Crash` at
every point, and `Build`, the make that follows. What is saved is any sequence of
lines, and what syncconfig writes any of the `Memories`: symbols with a type, none
at m while modules are off. `KconfigValues` is the same machine with the values: each
of its actions conjoins a step of `KconfigFiles` with what the run does to the
memory, for a run of `conf` (oldconfig, allyes, allmod, allno, alldef, random,
defconfig, savedefconfig, syncconfig, listing) or of a front end (set, flip, enter a
text, show a menu). So a behaviour of `KconfigValues` is one of `KconfigFiles` once
the memories it writes are `Memories`, which is the last part of `CacheCoherent`
and checked by its run. The modules of the files declare no `RECURSIVE` operator,
so the theorems can be about them.

Abstractions: a symbol and a text are values of small sets, compared and read as
numbers by tables (`Rank`, `Num`, `Number`, `Spell`); a file is its sequence of
lines; the escaping of strings, help texts, warnings and regular expressions are
left out, with the warnings about options given twice (`menu.c:210-216`); a line of
`.config` sets a symbol when the sources have it with a property (`Known`, for the
conditions of `confdata.c:325` and `359`); writing a temporary file is one step, for nobody reads it, and so is
`conf_write_defconfig`, which truncates its file in place (`confdata.c:673`);
`KCONFIG_OVERWRITECONFIG`, with which `.config` itself is written in place
(`confdata.c:776-783`), is left out, so `ConfigKept` says nothing of it.

### Front ends and toolchain wrapper

In `ListBoxes`, `EntryBoxes` and `TextBoxes` a box is a record of the locals of
the C function with what the screen shows (`rows`, `lit`, `drawn`): a key changes
both the way the code does, a resize restarts at `do_resize` with the locals
that survive it, and a caller may open the box again with what the former call
left (saved scroll, chosen item, page). `MenuSession` is the stack of open calls
over a small configuration with files: what each answer of a box does, load and
save under other names, exit dialogs, ESC twice, SIGINT. `ToolchainWrapper` goes
through `main` in four steps with every exit; an argument is an option with the
text joined to it.

Abstractions: a search in `MenuSession` offers menus and settings, not the values of
choices; a value is refused when its symbol is invisible, also where it is the one
the symbol has, which the code then notes as the user's; an entry without a visible prompt is not shown for the sake of its
children (`menu.c:657-663`). nconfig's case of an empty menu (`nconf.c:1089`, `1151`)
is left out. Backspace in an empty search of nconfig writes before the pattern
(`nconf.c:1052`); what that overwrites is not modelled. `IsUnsafe` is membership of a set of paths,
which stands for the comparison of prefixes (`toolchain-wrapper.c:171`).

## Runs

| run | instance | shows |
|---|---|---|
| `DlPinned` | 2 builds with the same hash, 2 URIs, a wrong legacy file whose `ln` and `cp` may fail, a lying primary and a good backup, 2 runs each, 1 kill; fairness | `TypeOK`, `UsedIsVerified`, `Answered`, `MirrorSaves`, and `CacheSpec`: the wrapper implements `DownloadCache` |
| `DlTrees` | one build pins the hash, the other lists none for the file; no legacy file; `mktemp`, `chmod`, `cat`, `mv` and `rm` may fail; 1 kill | `VerifiedAtExit`, `DlDirUncluttered`, `KeepsDecidedFile` |
| `DlFallback` | no `.hash` file, `cp` may fail | violation of `FallsBackToDownload` |
| `Git` | a commit (with `-q`), an annotated tag (with `-r`), a lightweight tag (with both) and a forge ref; 2 commits, one with a submodule; every command may fail; 2 runs, 1 push, 1 kill or edit of the cache; fairness | `TypeOK`, `ArchivesChangeset`, `ArchiveReproducible`, `MissingIsMissing`, `Recovers`, `Terminates` |
| `Release` | 2 kernels, 2 key pairs, 2 script runs, `sha256sum` may fail, 1 card, 1 fault, no deployment | `TypeOK`, `ReleaseBoots` |
| `Deploy` | 2 kernels (one above the size guard), 1 key pair, 1 script run, 1 card, 1 deployment, to a mounted `/boot` or not, 1 fault; fairness of the board | `AuthenticBoot`, `SealedStays`, `SealedBoots` |
| `ReleaseNamed` | as `Release`, the image named as in the documentation | violation of `ReleaseBoots` |
| `PkgShared` | shared target directory, serial; a patched library, an application with an overridden source, 1 edit, 1 fault; fairness of make | `ImageHasEdit`, `Converges` |
| `PkgParallel` | per-package directories, 2 jobs, 1 fault, goals that overlap | `SoundStamps`, `DepsWhole`, `KeepsConfiguration` |
| `PkgRace` | per-package directories, 2 jobs, `<pkg>-rebuild all` | violation of `ImageHasEdit` |
| `KconfigValues` | 2 versions of the sources with bool, tristate, choice, int with a range (its default and the nearest number in range differ) and a bool that depends on it, string, environment string, select; 2 runs, 1 edit, kills anywhere | `CacheCoherent`, `ChoiceHolds`, `RoundTrip`, `ConfigKept`, `AutoMatches`, and `SyncSpec`: its files implement `KconfigSync` |
| `Tools` | `KconfigTree`: 3 entries below the root with at most 1 block, over a bool, a tristate, a second bool and a choice; 4 dependencies (one of them none), 2 defaults, selects of each symbol and one `imply`; an optional choice has no dependency | `TreeKept`, `MeaningKept`, `SubmenuReachable`, `PrintedMeaning`, `RecursionReported` |
| | the front ends: lists of 0 to 5 items in windows of 1 to 3 rows; texts of up to 5 letters in 3 columns; texts of up to 7 lines in windows of 0 (a screen of eight lines), 2, 3 and 5 rows; a menu tree with each kind of entry, calls nested 4 deep, 2 edits | `ListShowsAnswer`, `CursorOnItsChar`, `TextFollows`, `ExitLosesNothing` |
| | every list of up to 2 of 12 arguments, and of 3 of the 6 that bear on paths, in 4 builds of the toolchain wrapper | `ExecutedIsSafe` |

Bounds. Two builds suffice for the flock: a third only waits longer, and the
proofs cover any number. Two runs per build let a run meet what an earlier one
left; one kill is what recovery is about, and it can fall at every command. Two
kernels and two key pairs are what a stale file needs: something to be stale
against. One fault per boot history reaches every torn or unsynced file; one
flashed card and one deployment reach every mixture of old and new files on
either partition. The host does nothing more once neither a card nor a deployment
could carry it to a board (`InTime`), and loses its keys only while it can make
another pair (`NewKeys`). `sha256sum` fails in `Release` only: in `Deploy` torn
checksums come from scp and the power losses. Two
packages with one dependency, one of each source kind, and one edit reach every
prerequisite of the sequencing rules; the goal lines are the goals of the
manual, alone, before `all`, and two of them together.

Two commits, one of them with a submodule, are what a stale cache of `GitCache`
needs, two runs let one find what the other left, and one push moves a name
under or between them; failures of commands are not counted, they may go on for
ever. `clones` counts to 2, which stands for more. The remote repository has any
of the commits and at most one name at first (`MaxNames`); the push may add
another or move it. The four requests have every kind of changeset and each of
`-q` and `-r` on and off, also between the two runs.

Three entries are what a rewriting of the tree needs: one above, one below and
one beside; one block of each kind is tried at each place, and every
assignment of n, m and y to the symbols is tried in every tree, so a rewriting
that changes a meaning shows. The two versions of the sources in
`KconfigValues` hold every type and every kind of property once (menu, prompt,
default, select, range, choice, `option env`, `option modules`), and differ in
symbols and types, which is what a stale file needs; two runs let a run find what
a killed one left. The windows of `Tools` are smaller and larger than their
texts by one, where the arithmetic of scrolling has its cases; three arguments
are an option, its path and what comes after it. The components of `Tools` share
no state: a behaviour of the run is one of one of them, so its states are their
sum and not their product.

`CHECK_DEADLOCK FALSE` stands in the configurations that end: the wrapper, the
git backend, the release and the runs of Kconfig stop when their bounds (runs, flashes, scripts,
entries) are used up, boxes are closed, and the toolchain wrapper becomes the
compiler.

Fairness. `DlPinned`: the commands of a wrapper end and make goes on to extract
(weak fairness per process; the flock is asked for at most `MaxRuns` times per
build, so weak fairness also grants it). `Git`: the commands of the
script end, successfully or not (weak fairness of the two shells together); that
one ever succeeds is not assumed. `Deploy`: with power, the
board runs u-boot, S03 and S05 to their end; nothing is assumed of the host, the
administrator or the power. `PkgShared`: make and the commands it starts go on;
a command may still fail. Kills, faults and interrupts are never fair.

### Findings

* `DlFallback`: `dl-wrapper:62` promises a download when linking and copying
  fail; a copy failing half way leaves a torn file that is taken for the file
  when there is no `.hash` file.
* `ReleaseNamed`: `etc/keys/README.txt:40` signs `sdcard.img`; the board looks
  for `zImage.sha256`, rejects the card and reboots for ever.
* `PkgRace`: the manual's `make <pkg>-rebuild all` may, with per-package
  directories and `-j`, rebuild nothing and ship the old files. (The option is
  marked experimental in `Config.in`.)

### Met while modelling

These are what the code does; the models have them, and where a property would
hold but for one of them it names the exception (`torn`, `forgot`, `gone`,
`Stale`, `OptionAsPath`, `Exact`, `faulty`).

* `dl-wrapper:196`: a `mktemp` that fails there leaves the temporary directory of
  line 117 behind, against the comment at lines 14-15.
* `dl-wrapper:211`: the `chmod` stands alone under `set -e`; where it fails (a network
  filesystem without permission bits) the script ends at once and leaves the
  temporary of line 196 in the download directory, which lines 4-6 promise not to
  clutter. So does a failing `rm` of line 224 or 234. `DlDirUncluttered` names
  these ends, and the kill.
* `git:239`: the status of `<( )` is lost; with `-q` (`make -s`), when `check-attr`
  fails once and the fetches of the run that replaces it fail, the script
  archives an empty directory and exits 0, against line 8 ("catch any
  unexpected failure"). Without `-q`, a failure in a substitution ends in a retry
  or in an archive whose hints are not expanded, never in another commit's
  files.
* `git:196`: with `-q`, when `git log` fails once, the run nested in the substitution
  prints nothing, the date is empty, which `date -d` takes for today, and the
  script exits 0; line 194 wants the date of the commit for a reproducible archive.
* `git:45`: the variable that remembers the "clone from scratch (only once!)" is
  exported in the subshell that failed only; the main shell clones again.
* `git:146`: for a lightweight tag this makes a branch of its name, and git
  refuses to update a branch that is checked out; when the tag has moved, the
  old commit is archived. With an annotated tag this does not happen.
* `git:142`: a forge ref that could not be fetched is expected to fail at the
  checkout; with the ref of an earlier run in the cache it does not, and the old
  commit is archived.
* These archives reach a build only when no hash is listed for the file:
  `dl-wrapper` checks what a backend delivers (`VerifiedAtExit`). All five were
  seen with the script itself and git 2.39.
* `pkg-generic.mk:392`: a dirclean on one command line with other goals removes
  outputs that make has already taken for done; what depends on them is then
  configured or built without them, and the stamps say nothing of it.
* `gen_and_deploy_artifacts.sh:82`: the status of a `sha256sum` in a pipeline is
  lost; when it fails, the script signs and copies an empty checksum and reports
  success, and the board rejects the card. `ReleaseBoots` is about runs in which it
  worked (`book`).
* `S03mount_boot:84`: a board whose mount failed goes on, and a deployment then
  writes into the root filesystem's `/boot`. If it is cut short, or unsigned, the
  card comes up as long as the mount works, and a boot without it is rejected
  and repeated for ever. `Sealed` therefore speaks of both directories.
* `S03mount_boot:37`: a copy torn by a full disk or a power loss exists, so no
  later boot restores it.
* `menubox.c:253-259`: the branch without a saved scroll keeps `first_item`;
  after a resize of a menu that was opened with one, the screen shows other items
  than the keys act on, or an item past the end is asked for. Every box
  of lxdialog draws button 0 after a resize and keeps the number of the button it
  was on.
* `nconf.c:497-522`: a search that starts past the last or before the first item
  and finds nothing never ends (the comment says that it returns -1), and one in
  an empty menu divides by zero.
* `confdata.c:413`: a failed load clears the change count; the front ends then
  exit without asking, and the changes are gone.
* `mconf.c`: saving under another name makes that the file the exit saves to;
  `nconf.c` ends with status 0 when the write failed.
* `textbox.c`: a last line without a newline is lost when scrolling sideways.
* `zconf.y:554-559`: a recursive dependency is reported, but the result of
  `sym_check_deps` is cleared on the way back (`symbol.c:1341`), so `conf_parse`
  never counts it and goes on.
* `confdata.c:464`: `conf_read` calculates every symbol, a number out of its range as
  the nearest one in it, then puts that number aside and clears its flag alone. The
  number becomes its default; what was calculated from the nearest number stays
  valid. With `range 1 3`, a default of 1 and 5 in the file, a symbol that depends on
  the number being 3 is on beside a number that is 1; `conf --olddefconfig`, or a
  menu front end that saves without setting anything, writes both, and reading that
  file back turns the symbol off. oldconfig and syncconfig ask for the number, and
  setting it clears everything; defconfig, savedefconfig and `auto.conf` calculate
  anew. `CacheCoherent` and `RoundTrip` except the symbols that are `Stale`, and no
  others; what savedefconfig writes they do not except.
* `confdata.c:905`: the comparison of the old `auto.conf` with the new values reads
  the old file with the types of the sources of now. A line they refuse (`=m` of a
  symbol that is no longer a tristate, a word of one that became a number, an
  empty number) and a quoted line of a symbol that is gone count as no value, so no
  header is touched when the new value is none as well; and a symbol that has become a
  choice or takes its value from the environment is passed over. The refinement is
  stated for the values that every version of the sources can tell from none
  (`Legible`, `Seen`).
* `expr.c:536`: `a = "1" && a != "m"` of a tristate is simplified to `a = "1"`; but the
  comparison reads m as the number 1, so at m the first is n and the second y.
  Nothing in Buildroot compares a tristate with a number; `JoinsKeepValue`
  leaves such words out. (The comment at line 561 says that `a != m && a != n` becomes
  `a = m`; the code below it makes `a = y`, which is right.)
* `conf.c`: a number without a valid default, or a choice without any value to
  offer, is asked for over and over (`hung`).
* A tristate choice that was y, with values at m, may come back as m from a
  defconfig, and an optional one as n; Buildroot has neither (modules are off, no
  choice is optional), and the instance has a bool choice. `conf --syncconfig`
  called by hand after a kill between two renames, with no change of `.config`,
  is outside `KconfigSync`: make does not call it then.
* `toolchain-wrapper.c:328`: in `-I -L -I/usr/include` the wrapper takes `-L` for
  the path of `-I` and then for an option, gcc only for the path; the constant
  `EXCLUSIVE_ARGS` is exactly enough because no target has both
  `-mfloat-abi` and `-mfp`.

## Proofs

The theorems hold for every value of the constants that satisfies the modules'
`ASSUME`s: any number of builds, locations, `.hash` files, contents, kernels,
keys, packages, goals, symbols, versions of the Kconfig sources, arguments, runs,
kills and faults. The assumptions say
that torn, absent and complete files are told apart and what the types of the
parameters are. Some say more. A box is opened on a text that fits its buffer
(`TextsAssumption`: `dialog_inputbox` copies it without looking). The words that
Buildroot itself puts before the compiler's arguments have no search path and no
build of the wrapper sets both `-mfloat-abi` and `-mfp` (`BuildsAssumption`). A command
line names a goal once (`PkgAssumption`; make drops the second). The places to jump
to stand in the order of the text (`PageTextsAssumption`: `search_conf` notes them
while it appends). The hash table of Kconfig has each symbol once
(`OrderAssumption`); a symbol with a type has a property, a choice is never in
`auto.conf` and each of its values belongs to one (`TreesAssumption`: what the parser and
`menu_finalize` make of any file); y, m and n are no numbers
(`ValidAssumption`, `NumAssumption`) and strcmp tells texts apart (`RankAssumption`);
and the first `auto.conf`, if there is one, was written by a run on one of the versions
(`StartsAssumption`). What a theorem
assumes beyond that is in its statement: `EditArrives` and `ReleasesBoot` have a
hypothesis, and a run that shows that without it they are false (`PkgRace`,
`ReleaseNamed`).

| theorem | states |
|---|---|
| `TypeCorrect`, `Invariance` (`DlWrapper_proofs`) | types; the inductive invariant below |
| `ExitsVerified` | `VerifiedAtExit` |
| `ExtractsVerified` | `UsedIsVerified` |
| `DecidedFileKept` | `KeepsDecidedFile` |
| `DlDirStaysClean` | `DlDirUncluttered` |
| `ImplementsCache` | `CacheSpec`: every step is one of `DownloadCache` or invisible there |
| `GrantStays` | a granted file stays good when the builds agree on the hashes |
| `Types` (`GitCache_proofs`) | `TypeOK` |
| `FoundIfThere` | `MissingIsMissing` |
| `ArchivesAreExact` | `ArchivesChangeset` |
| `ArchivesAreReproducible` | `ArchiveReproducible` |
| `RunsRecover` | `Recovers` |
| `ReleaseTypes` (`ImageRelease_proofs`) | `TypeOK` |
| `BootsAreAuthentic` | `AuthenticBoot` |
| `SealedCardsStay` | `SealedStays` |
| `ReleasesBoot` | `ReleaseBoots`, when the image that is signed is `zImage` |
| `EngineInvariance` (`PkgBuild_proofs`) | types; the inductive invariant below |
| `StampsAreSound` | `SoundStamps` |
| `DependenciesStay` | `DepsWhole` |
| `ConfigurationStays` | `KeepsConfiguration` |
| `EditArrives` | `ImageHasEdit`, with one target directory and the rebuild as the first goal of its line |
| `ConfigStays` (`Kconfig_proofs`) | `ConfigKept`: no kill loses the last complete `.config` |
| `FilesKeepSync` | `SyncSpec`: every step on the files is one of `KconfigSync` or invisible there |
| `ObjectsCurrent` | `NoStaleObject` of the files: what the next build does not compile again was compiled with the values of now |
| `JoinsKeepValue` | two operands that `expr_join_or` or `expr_join_and` joins are worth what the joined one is |
| `RewritesKeepValue` | so is a comparison of a bool, or a negated comparison, that `expr_transform` rewrites |
| `CursorStays` (`FrontEnds_proofs`) | `CursorOnItsChar` |
| `ListsShowAnswers` | `ListShowsAnswer` |
| `ExitsLoseNothing` | `ExitLosesNothing` |
| `TextsFollow` | `TextFollows` |
| `CommandsAreSafe` (`ToolchainWrapper_proofs`) | `ExecutedIsSafe` |

**The wrapper.** `VerifiedAtExit` is not inductive: it says nothing of the file
before the last line. `IInv` adds to the types that only the owner of the flock is
between `flock` and `exit` (`Exclusive`), and for each point of the script what
the run knows (`Phase`): in the loop there is no output file, after the check the
temporary passes it when the status is 0, and so on up to `exit`. A step of a build
preserves its own phase by the guards of the code (`OwnPhase`), and that of the
others because they are not under the lock, so know nothing, or hold it, so the
stepping build does not touch the file (`Others`, `PhasesStep`). The extraction
runs after the lock is gone; `Kept` is what survives there when the builds agree
on the hashes: nobody can refute the file, so nobody removes it. For the
refinement, `Cell` and `Status` map the wrapper to the shared cell; the phases
give each visible step its guard (`rm` has a refuted file, `mv` and the copy an
empty cell, `exit` with 0 an accepted one), all others leave the two unchanged.
Only the results of `check-hash` matter here, not how it computes them, which is
why the verdict is a parameter of `DownloadCache`. `DlDirUncluttered` needs one
more fact (`Tidy`): a run has a temporary in the download directory only between
the `mktemp` and the `mv`. A `cat` or `mv` that fails there removes it before the
run ends; a `chmod` or an `rm` that fails does not, and what ended the run is
noted with what it left.

**The git backend.** `TypeOK` is inductive: it says that a nested run exists
only in a substitution of a main shell that has not started over (`ShellType`).
`FoundIfThere` follows a changeset from the remote repository through the
fetch: what the remote has now was offered (`Offering`), and past the fetch either
the changeset can be parsed or it was not there (`Fetched`); a push in between
adds to what was offered, and a removed cache only exists before the fetch.
For a forge ref nothing can be said: its fetch may fail, which is ignored.
`ArchivesAreExact` rests on what the next command may rely on: the stages grow
from the fetch (the changeset's commit is there) over the checkout (the
files are its own), the clean (nothing else is) to the update (so is the
submodule), and `Staged` says that each shell has reached the stage of
its position. A nested run removes the cache under the main shell, whose next git
command then fails. The main shell archives without another git command only
behind a `check-attr` whose nested run ended well, so went through all the stages
for the same changeset; where a nested run gave up, what it printed is no file
name, and the main shell starts over. With `-q` it prints nothing and the main
shell goes on, which is why `ArchivesChangeset` leaves out runs with `-q` and a
failing substitution: `Blamed` says that nothing else leads there, since no lock
that a killed run left stops a command of a substitution. For lightweight tags and
forge refs the files may be an earlier commit's (`Exact`).
`ArchivesAreReproducible` has no such exception, for it compares the archive with
the commit that is in it: `Dated` says that no hint is expanded between the
checkout and the formatting, that all are after it, and that the date is that of
the files; only a fault in a substitution puts a second shell between them.
`RunsRecover` counts: a run that met no fault of its own can only be stopped by a
lock that an interrupted one left (`Locks`), starts over once, and then has a
cache without locks (`Recovering`).

**The release.** `IInv` adds to the types: what S03 knows between its steps
(`Restoring`: the artifact it copies was missing on the FAT partition and stashed
from the root filesystem, a file being copied is dirty, the stash is empty
without power), what the script has at hand at each command (`Scripting`: a key
when it signs, a checksum once it is written), and that every signature on the host,
in the image, on the card or in the stash was made by `SignChecksum`
(`AllGenuine`). `AuthenticBoot` follows: the verifier's 0 with a key and a
signature means that the signature is that of this key on this checksum, and of
the kernel; so the host made it. `SealedStays` follows from `Restoring`: a sealed
card has nothing missing, so S03 never starts to copy, and nothing dirty, so a
power loss takes nothing. `ReleasesBoot` follows the documented procedure in files
(`BInv`): while the script runs, what it has beside the image and in the overlay
is of one kernel and one key pair (`Paperwork`); when it has ended after `make`
the overlay vouches for the kernel, and after the second `make` so does the root
filesystem for the image on the card (`ByBook`); a card flashed then has, as long
as nothing fails, in each place of the FAT partition nothing or the file of the
root filesystem, up to the one S03 is copying, and all of them once S03 is done
(`Made`), which the verifier accepts. The files of `sdcard.img` have other names,
so S03 restores nothing of them; that is the run `ReleaseNamed`.

**The build engine.** `SoundStamps` speaks of a state between two commands of a make;
what makes it true is what the make has seen so far. `IInv` says, target by target:
a step that began or was passed over found its prerequisites settled (`InOrder`); a
step to be made, running or failed has no current stamp, so that a make that dies
leaves nothing to believe (`Unstamped`); a step that was made again has outdated
those behind it, until they are made too (`Outdates`); what this make takes for
done is done, also when a goal beside it has removed its stamp since (`Settled`);
and the rsync stamp outdates no configure step (`NeverOutdated`). Only a dirclean
takes outputs away: `gone` are the packages a dirclean interrupted, or removed
while make had already looked at some of their targets, and nothing is said of
their files. Each action keeps these by the order of the rules alone: the proof
uses which targets are older prerequisites and which order-only, never how deep the
graph is. `DependenciesStay` is `InOrder` and `Settled` at the configure step.
`EditArrives` adds what a rebuild that is the first goal goes through (`EInv`):
before its stamps are removed make has looked at nothing (`NotLooked`), they go one
by one (`BeingRemoved`), and then rsync, build and the installation are each made
again (`MadeAgain`) with what was there at the start or later (`Arrives`); the image
is made when all of it is finished (`Imaged`). With per-package directories and two
jobs, `all` may be looked at before: the run `PkgRace`.

**The configuration.** Syncconfig finds out what to compile again by reading the old
`auto.conf` back, so the first half is about reading. `ReadAuto` says what the loop
of `conf_read_simple` makes of a file with one line for a symbol, by induction over
the lines (`Iteration` in `FiniteRecursion`): a symbol holds the value of its line when the
sources of now accept it, has the flag of the file only if such a line is there, and
nothing that another line does (a choice combines its values) disturbs it.
`WriteAuto` says the same of the loop that writes: one line for each symbol
that has one, none twice. `Lost` and `Gained` compare the two for a value the file
gives and the memory does not, and the reverse; each is a case analysis over the
types the symbol had when the line was written and has now. `Coverage` joins them:
`Changed` has every symbol whose value is `Seen` to change.

The second half is the order of the steps. `FilesInv` adds to the types that
`auto.conf` always has lines a run has written, or is absent (`Written`), that between
the two renames there is no `.config`, that a sync runs only when make found
`auto.conf` out of date, and that headers are left only while they are
touched (`InOrder`). `ConfigStays` needs no more. `FilesKeepSync` maps the stages of a run
to those of `KconfigSync`, where `Begin` may touch any set that covers what
differs: `Coverage` is the step that begins, all others move the same files.
`NoStaleObject` then follows there, by the inductive `IInv`. It speaks of `autoconf.h`,
but a run compares with `auto.conf`, which is replaced last; so the invariant follows
a change between the two: an object not due was compiled with what `auto.conf` says
(`BuiltAsAuto`), while headers are touched a change is touched or still to touch
(`NothingForgotten`), when `autoconf.h` is new all are touched (`AllTouched`),
and a fresh `auto.conf` agrees with its header (`FreshIsDone`).

**The operands.** `MeaningKept` tries the simplification on the expressions of one
instance. What can be proved for every expression is the part that does not recurse:
the tables of `expr_join_or`, `expr_join_and` and `expr_transform` for operands. For
symbols that are `Calculated` (checked in the run, in `CacheCoherent`), `LetterTests`
and `Tests` give the value of a comparison of a bool or tristate with a constant, and
`OrJoins` and `AndJoins` go through the tables, one case for each; `Third` is the letter
that is left. `JoinsKeepValue` needs the hypothesis above for `&&` only. For the
negation of a comparison only that `Compare` yields an integer is needed, so it holds
for numbers and texts of any types. That the operands of larger expressions are put
back in their places is recursion and stays with the run.

**The boxes.** `CursorOnItsChar` relates the cursor's column, the first character
shown and the position in the text. For the input box it is inductive once the
fields have types (`InputInv`); every key of `inputbox.c` moves two of the three
together, by cases on the edge of the field. The nconf box keeps no first
character: its column may pass the edge within a key and is pulled back at its end
(`LooseForm`, `FormInv`).

**The lists.** `ListShowsAnswer` is not inductive: it says nothing of an empty list,
of what is open behind an answer, or of the place in the list while the drawing is
torn. `BoxInv` does. A menu box or radio list is `Listing` (its place, that is
`scroll` and `choice`, is within the list, and unless it is torn the rows agree
with the place and one row is lit), `Empty`, or `Lost`: `DrawRows` from a stale
`first_item` past the end reads through NULL, which only a torn menu box can do.
An nconfig window is `Held`: the current item is in it (a search only jumps to
items there are, `MatchIsItem`). A key takes the light off a row, scrolls
and puts it on another; the lemmas `Dimmed`, `Scrolled` and `Brightened` say what is
true after each of the three, so the rows need not agree in between. The page
keys repeat a step as often as there are rows: they are functions that refer to
themselves, and `Repetition` gives their equation. The
arithmetic of the first drawing (`InTheMiddle`, `MenuPlace`) is free of records:
the item is in the window whether the saved scroll is kept, the list is short or the
item is centred, for even and odd heights. That a menu without a torn drawing is
drawn from its place is not assumed: it follows from `first_item` being assigned in
each branch but one.

**The sessions.** `SessionInv` says it of every state, not only of the last one: while
the change count is zero the file of the current name holds the values in effect,
or a failed load dropped the count; and a session that ends as if all was well has
a count of zero. Each lemma takes one of the calls (`CallGoes`, `ChangedGoes`,
`WriteKeeps`, `LoadGoes`, `ExitKeeps`) from a session that goes on to one that does.
It holds whatever the menus list, so nothing is asked of the tree, and whatever
values the files hold.

**The windows over a text.** `print_page` of the search results walks ahead by the
rows of the window and back again, and the keys depend on where that ends; so the
loops are first given closed forms (`LinesAhead`, `LinesBack`, `PrintedLines`): a
page is counted in lines, except that at the final `\0` one step back only clears
`end_reached` (`Wasted`). From these, the page printed starts where it was asked to,
or as far up as fills the window (`FullPage`), and the lines between the two walks
are those on the screen (`Walks`). The places on a page follow each other
(`PlacesTogether`), so the first `JUMP_NB` of them have different remainders and
different keys (`Remainders`, `KeysOfPage`). The invariant (`TextInv`) keeps with the
page what going back by `page_length` needs to find its first line again
(`BackToTop`): the lines counted reach one past the text at most, and
`end_reached` says whether they do. That is why scrolling sideways and the saved
vertical position lose nothing, for texts that end in a newline.

**The toolchain wrapper.** The loops of `main` are functions that refer to
themselves on a finite domain: pairs of an argument and an option for the check of
paths, prefixes for the predefined words, and suffixes for the way the compiler
reads. `Recursion` proves that such a function exists when each value rests on
values of lower rank, so that each is what its equation says (`ScanEquation`,
`KeptEquation`, `ReadEquation`); what they compute is proved by induction on sets of
natural numbers (`LeastNat`, `UpTo`; the three are in `FiniteRecursion`). `Accepted` is the heart: when the two loops
come to an argument at an option other than the first one, they have just taken
that argument for a path; unless it is an option itself (`OptionAsPath`) none of
the options skipped can be its own, so every argument that takes a path has been
compared with all of them, and the path it takes is none of the build machine's.
`FrontShape` bounds what is put in front (1 + 2 + 3 + 2 + 2 options, as
`-mfloat-abi` and `-mfp` exclude each other, so `EXCLUSIVE_ARGS` is exact),
`PathsAreSafe` reads the whole command as the compiler does. The invariant
(`WrapperInv`) carries this through the four steps; where ccache is skipped, the tail
of a command is a command.

**What stays with TLC.** Liveness under fairness (`Answered`, `MirrorSaves`,
`Terminates`, `SealedBoots`, `Converges`), which the prover does not reach;
`ImageHasEdit` for other goal lines; and the values and trees of Kconfig, whose
operators recurse over expressions, menus and each other (`RECURSIVE`, but for the operands):
`CacheCoherent`, `ChoiceHolds`, `RoundTrip`, `AutoMatches` and the five properties of
`KconfigTree`. `AutoMatches` compares `auto.conf` with the values a run calculates, so
needs them. These are checked on the instances above and not proved; that the memories
of `KconfigValues` are among the `Memories` of the theorems is one of them. No
theorem says what `CheckHash` computes for a list of lines of any length.

## Not modelled

* The web job runner, the init and network scripts, the top-level
  finalization with `fs/common.mk`, and the dependency graph tools have control of
  their own and are planned (below).
* `qconf.cc` and `gconf.c`: the widget code of two graphical front ends. What they
  ask of the core is in `KconfigValues`; the rest is callbacks in the order of Qt
  and GTK, which no source here says.
* Kconfig's lexer, help texts, search by regular expression and
  `streamline_config.pl`, `merge_config.sh`: text in, text out.
* `makedevs.c`, package recipes, test tools, scanners, flashing scripts and
  workflows: single passes, data, or calls of external programs, with no
  interleaving or recovery of their own.

`PROJECT.json` lists each with its reason, and under `hazards` what each part is
exposed to.

## Plan

1. Extend the model.
   * `GitCache` under `DlWrapper` as one of its backends, with LFS; the wrapper's
     hash check then says from which of the archives of stale or empty
     trees a build is protected.
   * `JobRunner`: requests, authorisation, the background job, timeout and log.
   * `InitSequence`: S20, S41, S42, S50 with the DHCP clients, the server's port
     and an abstract specification "every script ends and each interface has
     its client".
   * `TargetFinalize`: finalize, overlays, per-filesystem copies; the composition
     with `PkgBuild` (replacing its atomic step) and with `ImageRelease`.
   * `PkgBuild`: an instance whose dependent sorts after its dependency, for the
     stale copies in per-package directories.
   * `MenuSession` over `KconfigValues`: the sessions on real symbol values.
   Bounds: two requests, two interfaces, two filesystems.
2. Prove more: that `EliminateDups` as a whole keeps the value of an expression, with
   `JoinsKeepValue` at its leaves and the recursion of `KconfigExpr` as functions on
   expressions of bounded height.
