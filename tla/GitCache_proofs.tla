--------------------------- MODULE GitCache_proofs ---------------------------
(****************************************************************************)
(* Proofs about GitCache, for any commits, names, requests and failures:    *)
(* its types, that a changeset the remote repository has all the time is    *)
(* never reported missing, and that a success means the changeset's files.  *)
(****************************************************************************)
EXTENDS GitCache, TLAPS

LEMMA OptFacts == \A S : None \in Opt(S) /\ S \subseteq Opt(S)
BY DEF Opt

LEMMA NoDate == None \notin {Garbage, Today} /\ Opt(Commit) \cap {Garbage, Today} = {}
BY GitAssumption DEF Opt

(* A removed cache is a cache. *)
LEMMA NoCacheType == NoCache \in CacheType
BY DEF NoCache, CacheType, Opt

LEMMA TypeInit == Init => TypeOK
<1> SUFFICES ASSUME Init PROVE TypeOK
    OBVIOUS
<1>1. pushed \subseteq Commit /\ remote \in [Ref -> Opt(Commit)]
    BY DEF Init, Opt
<1>2. ShellType
    BY OptFacts DEF Init, ShellType, Steps
<1>3. clones \in 0 .. 2 /\ runs \in 0 .. MaxRuns /\ moves \in 0 .. MaxMoves /\ mishaps \in 0 .. MaxMishaps
    BY GitAssumption DEF Init
<1>4. output \in Opt(OutputType)
    BY OptFacts DEF Init
<1> QED BY <1>1, <1>2, <1>3, <1>4, NoCacheType DEF Init, TypeOK

(* What _on_error and the nested runs do keeps the shells' types. *)
LEMMA ErrorTypes ==
    ASSUME TypeOK, NEW s \in Shells, NEW step, At(s, step), OnError(s), UNCHANGED nestedDate
    PROVE  cache' \in CacheType /\ ShellType' /\ clones' \in 0 .. 2
           /\ result' \in {"ok", "missing", "failed", "killed"}
<1>1. cache' \in CacheType /\ clones' \in 0 .. 2
    BY NoCacheType DEF TypeOK, OnError, RemoveCache
<1>2. ShellType'
    <2> SUFFICES ASSUME ShellType PROVE ShellType'
        BY DEF TypeOK
    <2>1. CASE s = "main" /\ ~retried
        BY <2>1, NoDate, OptFacts DEF ShellType, OnError, At, Steps
    <2>2. CASE s = "main" /\ retried
        BY <2>2 DEF ShellType, OnError, At, Steps
    <2>3. CASE s = "nested"
        BY <2>3 DEF ShellType, OnError, At, Steps
    <2> QED BY <2>1, <2>2, <2>3 DEF Shells
<1> QED BY <1>1, <1>2 DEF TypeOK, OnError

LEMMA NestTypes ==
    ASSUME TypeOK, ~retried, NEW w \in {"date", "paths", "attr", "substitution", "mtime"}, Nest(w)
    PROVE  cache' \in CacheType /\ ShellType' /\ clones' \in 0 .. 2
           /\ result' \in {"ok", "missing", "failed", "killed"}
<1>1. cache' \in CacheType /\ clones' \in 0 .. 2
    BY NoCacheType DEF TypeOK, Nest, RemoveCache
<1>2. ShellType'
    BY OptFacts DEF TypeOK, ShellType, Nest, Steps
<1> QED BY <1>1, <1>2 DEF TypeOK, Nest

(* A step of the order the script has its commands in. *)
LEMMA GoTypes ==
    ASSUME TypeOK, NEW s \in Shells, NEW from, At(s, from),
           NEW step \in Steps, Go(s, step), UNCHANGED <<retried, gone, date, nestedDate>>
    PROVE  ShellType'
BY DEF TypeOK, ShellType, At, Go, Shells, Steps

LEMMA DoneTypes ==
    ASSUME TypeOK, NEW s \in Shells, NEW from, NEW step \in Steps, Done(s, from, step),
           cache' \in CacheType, UNCHANGED <<date, nestedDate>>
    PROVE  TypeOK'
<1>1. ShellType'
    BY GoTypes DEF Done
<1> QED BY <1>1 DEF TypeOK, Done, world, report

(* A failing command. *)
LEMMA FailTypes ==
    ASSUME TypeOK, NEW s \in Shells, NEW step, Fails(s, step),
           cache' \in CacheType, ShellType', clones' \in 0 .. 2,
           result' \in {"ok", "missing", "failed", "killed"}
    PROVE  TypeOK'
BY DEF TypeOK, Fails, world

LEMMA RunTypes ==
    ASSUME TypeOK, NEW s \in Shells, Run(s)
    PROVE  TypeOK'
<1>1. CASE InitCache(s)
    BY <1>1, DoneTypes DEF InitCache, TypeOK, Steps
<1>2. CASE SetOrigin(s)
    BY <1>2, DoneTypes DEF SetOrigin, TypeOK, Steps
<1>3. CASE Fetch(s)
    <2>1. [t \in Tag |-> IF remote[t] = None THEN cache.tag[t] ELSE remote[t]]
              \in [Tag -> Opt(Commit)]
        BY DEF TypeOK, CacheType, Ref, Tag
    <2>2. cache.objects \cup pushed \in SUBSET Commit
        BY DEF TypeOK, CacheType
    <2>3. cache' \in CacheType
        BY <1>3, <2>1, <2>2 DEF Fetch, TypeOK, CacheType
    <2> QED BY <1>3, <2>3, DoneTypes DEF Fetch, Steps
<1>4. CASE FetchSpecial(s)
    <2>1. cache' \in CacheType
        <3>1. CASE UNCHANGED cache
            BY <3>1 DEF TypeOK
        <3>2. CASE /\ want.cset \in Ref
                   /\ cache' = [cache EXCEPT !.ref[want.cset] = remote[want.cset]]
            <4>1. remote[want.cset] \in Opt(Commit)
                BY <3>2 DEF TypeOK
            <4>2. [cache.ref EXCEPT ![want.cset] = remote[want.cset]] \in [Ref -> Opt(Commit)]
                BY <4>1 DEF TypeOK, CacheType
            <4> QED BY <3>2, <4>2 DEF TypeOK, CacheType
        <3> QED BY <1>4, <3>1, <3>2 DEF FetchSpecial
    <2>2. ShellType'
        BY <1>4, GoTypes DEF FetchSpecial, Steps
    <2> QED BY <1>4, <2>1, <2>2 DEF FetchSpecial, TypeOK, world, report
<1>5. CASE Verify(s)
    BY <1>5, DoneTypes DEF Verify, TypeOK, Steps
<1>6. CASE Missing(s)
    <2>1. ShellType'
        BY <1>6 DEF Missing, TypeOK, ShellType, At, Shells, Steps
    <2> QED BY <1>6, <2>1 DEF Missing, TypeOK, world
<1>7. CASE Deregister(s)
    <2>1. cache' \in CacheType
        BY <1>7, OptFacts DEF Deregister, TypeOK, CacheType
    <2> QED BY <1>7, <2>1, DoneTypes DEF Deregister, Steps
<1>8. CASE Checkout(s)
    <2> DEFINE branch == want.cset \in Lightweight /\ cache.ref[want.cset] # None
               target == IF branch THEN cache.ref[want.cset] ELSE Parsed(want.cset)
               head == IF branch THEN want.cset ELSE target
    <2>1. Parsed(want.cset) \in Opt(Commit)
        BY GitAssumption, OptFacts DEF Parsed, TypeOK, CacheType, Ref, Tag, Cset
    <2>2. target \in Opt(Commit)
        BY <2>1 DEF TypeOK, CacheType, Ref
    <2>3. head \in Opt(Commit) \cup Ref
        BY <2>2 DEF Ref
    <2>4. cache' = [cache EXCEPT !.head = head, !.files = target, !.expanded = None]
        BY <1>8 DEF Checkout
    <2> HIDE DEF target, head
    <2>5. cache' \in CacheType
        BY <2>2, <2>3, <2>4, OptFacts DEF TypeOK, CacheType
    <2> QED BY <1>8, <2>5, DoneTypes DEF Checkout, Steps
<1>9. CASE Clean(s)
    <2>1. cache' \in CacheType
        BY <1>9, OptFacts DEF Clean, TypeOK, CacheType
    <2> QED BY <1>9, <2>1, DoneTypes DEF Clean, Steps
<1>10. CASE SetDate(s)
    <2>1. cache.files \in Opt(Commit)
        BY DEF TypeOK, CacheType
    <2>2. ShellType'
        BY <1>10, <2>1, GitAssumption DEF Opt, SetDate, AfterDate, Done, At, Go, TypeOK, ShellType, Shells, Steps
    <2> QED BY <1>10, <2>2 DEF SetDate, Done, TypeOK, world, report
<1>11. CASE UpdateSubmodules(s)
    <2>1. cache' \in CacheType
        BY <1>11, OptFacts DEF UpdateSubmodules, TypeOK, CacheType
    <2> QED BY <1>11, <2>1, DoneTypes DEF UpdateSubmodules, Steps
<1>12. CASE FixPaths(s)
    BY <1>12, DoneTypes DEF FixPaths, TypeOK, Steps
<1>13. CASE ListFiles(s)
    BY <1>13, DoneTypes DEF ListFiles, TypeOK, Steps
<1>14. CASE Format(s)
    <2>1. cache' \in CacheType
        BY <1>14 DEF Format, TypeOK, CacheType
    <2> QED BY <1>14, <2>1, DoneTypes DEF Format, Steps
<1>15. CASE Archive(s)
    <2>1. /\ cache.files \in Opt(Commit) /\ cache.sub \in Opt(Commit)
          /\ cache.expanded \in Opt(Commit) \cup {Garbage} /\ cache.junk \in BOOLEAN
        BY DEF TypeOK, CacheType
    <2>2. Date(s) \in Opt(Commit) \cup {Today}
        BY <1>15 DEF Archive, Date, TypeOK, ShellType
    <2>3. output' \in OutputType
        BY <1>15, <2>1, <2>2 DEF Archive, OutputType
    <2>4. output' \in Opt(OutputType)
        BY <2>3, OptFacts
    <2>5. ShellType'
        BY <1>15 DEF Archive, TypeOK, ShellType, At, Shells, Steps
    <2> QED BY <1>15, <2>4, <2>5 DEF Archive, TypeOK, world
<1>16. CASE PlainFails(s)
    <2>1. PICK step \in Plain : Fails(s, step)
        BY <1>16 DEF PlainFails
    <2> QED BY <1>16, <2>1, ErrorTypes, FailTypes DEF PlainFails, Fails
<1>17. CASE DateFails(s)
    <2>1. CASE ~retried /\ Nest("date")
        BY <1>17, <2>1, NestTypes, FailTypes DEF DateFails
    <2>2. CASE OnError(s) /\ UNCHANGED nestedDate
        BY <1>17, <2>2, ErrorTypes, FailTypes DEF DateFails, Fails
    <2> QED BY <1>17, <2>1, <2>2 DEF DateFails
<1>18. CASE PathsFail(s)
    <2>1. CASE ~retried /\ Nest("paths")
        BY <1>18, <2>1, NestTypes, FailTypes DEF PathsFail
    <2>2. CASE /\ Go(s, "attr")
               /\ UNCHANGED <<cache, clones, retried, gone, date, nestedDate, result>>
        <3>1. ShellType'
            BY <1>18, <2>2, GoTypes DEF PathsFail, Fails, Steps
        <3> QED BY <1>18, <2>2, <3>1, FailTypes DEF PathsFail, TypeOK
    <2> QED BY <1>18, <2>1, <2>2 DEF PathsFail
<1>19. CASE AttrFails(s)
    <2>1. CASE ~retried /\ Nest("attr")
        BY <1>19, <2>1, NestTypes, FailTypes DEF AttrFails
    <2>2. CASE /\ Go(s, "archive")
               /\ UNCHANGED <<cache, clones, retried, gone, date, nestedDate, result>>
        <3>1. ShellType'
            BY <1>19, <2>2, GoTypes DEF AttrFails, Fails, Steps
        <3> QED BY <1>19, <2>2, <3>1, FailTypes DEF AttrFails, TypeOK
    <2> QED BY <1>19, <2>1, <2>2 DEF AttrFails
<1> QED BY <1>1, <1>2, <1>3, <1>4, <1>5, <1>6, <1>7, <1>8, <1>9, <1>10, <1>11,
           <1>12, <1>13, <1>14, <1>15, <1>16, <1>17, <1>18, <1>19 DEF Run

(* The end of a nested run. *)
LEMMA ReturnTypes ==
    ASSUME TypeOK, Return
    PROVE  TypeOK'
<1> DEFINE Rest == UNCHANGED <<world, want, output, runs, offered, faulty, mishaps>>
           Good == cache' \in CacheType /\ ShellType' /\ clones' \in 0 .. 2
                   /\ result' \in {"ok", "missing", "failed", "killed"}
<1>1. Rest /\ Good => TypeOK'
    BY DEF TypeOK, world
<1>2. Rest
    BY DEF Return, MtimeFails, DateReturns, PathsReturn, AttrReturns, SubstitutionReturns,
           MtimeReturns, NestedEnds
<1>3. ASSUME Restart, UNCHANGED nestedDate PROVE Good
    <2>1. cache' \in CacheType /\ clones' \in 0 .. 2
        BY <1>3, NoCacheType DEF TypeOK, Restart, RemoveCache
    <2>2. ShellType'
        BY <1>3, OptFacts, NoDate DEF TypeOK, ShellType, Restart, Steps
    <2> QED BY <1>3, <2>1, <2>2 DEF TypeOK, Restart
<1>4. ASSUME NEW step \in Steps, Continue(step), UNCHANGED nestedDate, nested # "idle",
             date' \in Opt(Commit) \cup {Garbage, Today}
      PROVE  Good
    BY <1>4 DEF TypeOK, ShellType, Continue
<1>5. nested # "idle" => ~retried
    BY DEF TypeOK, ShellType
<1>6. date \in Opt(Commit) \cup {Garbage, Today}
    BY DEF TypeOK, ShellType
<1>7. ASSUME ~retried, NEW w \in {"date", "paths", "attr", "substitution", "mtime"}, Nest(w)
      PROVE  Good
    BY <1>7, NestTypes
<1> HIDE DEF Rest, Good
<1>8. CASE MtimeFails
    <2>1. ~retried
        BY <1>8 DEF MtimeFails, TypeOK, ShellType
    <2> QED BY <1>1, <1>2, <1>7, <1>8, <2>1 DEF MtimeFails
<1>9. CASE DateReturns
    <2>1. AfterDate \in Steps
        BY DEF AfterDate, Steps
    <2> QED BY <1>1, <1>2, <1>3, <1>4, <1>9, <2>1 DEF DateReturns, NestedEnds
<1>10. CASE PathsReturn
    BY <1>1, <1>2, <1>4, <1>6, <1>10 DEF PathsReturn, NestedEnds, Steps
<1>11. CASE AttrReturns
    <2>1. CASE NestedEnds({"exit0"}, "attr") /\ Continue("archive") /\ UNCHANGED date
        BY <1>1, <1>2, <1>4, <1>6, <2>1 DEF NestedEnds, Steps
    <2>2. CASE nested = "exit1" /\ Nest("substitution")
        BY <1>1, <1>2, <1>5, <1>7, <2>2
    <2> QED BY <1>11, <2>1, <2>2 DEF AttrReturns
<1>12. CASE SubstitutionReturns
    BY <1>1, <1>2, <1>3, <1>4, <1>6, <1>12 DEF SubstitutionReturns, NestedEnds, Steps
<1>13. CASE MtimeReturns
    BY <1>1, <1>2, <1>3, <1>13 DEF MtimeReturns, NestedEnds
<1> QED BY <1>8, <1>9, <1>10, <1>11, <1>12, <1>13 DEF Return

LEMMA TypeStep == TypeOK /\ [Next]_vars => TypeOK'
<1> SUFFICES ASSUME TypeOK, [Next]_vars PROVE TypeOK'
    OBVIOUS
<1>3. CASE Start
    <2>1. \A c : Offer(c, pushed, remote) \in Opt(Commit)
        BY OptFacts DEF Offer, TypeOK
    <2>2. ShellType'
        BY <1>3, OptFacts, NoDate DEF Start, TypeOK, ShellType, Steps
    <2>3. runs' \in 0 .. MaxRuns
        BY <1>3, GitAssumption DEF Start, TypeOK
    <2>4. output' \in Opt(OutputType)
        BY <1>3, OptFacts DEF Start
    <2>5. offered' \subseteq Opt(Commit)
        BY <1>3, <2>1 DEF Start
    <2>6. want' \in Requests /\ faulty' = {} /\ clones' = 0
        BY <1>3 DEF Start
    <2>7. result' \in {"ok", "missing", "failed", "killed"}
        BY <1>3 DEF Start
    <2>8. UNCHANGED <<pushed, remote, moves, cache, mishaps>>
        BY <1>3 DEF Start, world
    <2>9. faulty' \subseteq {"command", "substitution"}
        BY <2>6
    <2>10. clones' \in 0 .. 2
        BY <2>6
    <2> QED BY <2>2, <2>3, <2>4, <2>5, <2>6, <2>7, <2>8, <2>9, <2>10 DEF TypeOK
<1>4. CASE Kill
    <2>1. cache' \in CacheType
        <3> DEFINE step == IF nested # "idle" THEN nested ELSE main
                   junk == cache.junk \/ step = "format"
        <3>1. PICK lock \in SUBSET (Locking \cap {step}) :
                  cache' = [cache EXCEPT !.broken = @ \cup lock, !.junk = junk]
            BY <1>4 DEF Kill
        <3> DEFINE broken == cache.broken \cup lock
        <3>2. broken \in SUBSET Locking /\ junk \in BOOLEAN
            BY DEF TypeOK, CacheType
        <3>3. cache' = [cache EXCEPT !.broken = broken, !.junk = junk]
            BY <3>1
        <3> HIDE DEF broken, junk
        <3> QED BY <3>2, <3>3 DEF TypeOK, CacheType
    <2>2. ShellType' /\ mishaps' \in 0 .. MaxMishaps
        BY <1>4, GitAssumption DEF Kill, TypeOK, ShellType
    <2> QED BY <1>4, <2>1, <2>2 DEF Kill, TypeOK, world
<1>5. CASE Muck
    <2>1. PICK c \in cache.objects :
              cache' = [cache EXCEPT !.junk = TRUE, !.files = c, !.head = c, !.expanded = Garbage,
                                     !.sub = IF c \in WithSubmodule THEN c ELSE None]
        BY <1>5 DEF Muck
    <2>2. c \in Opt(Commit)
        BY OptFacts DEF TypeOK, CacheType
    <2>3. cache' \in CacheType
        BY <2>1, <2>2, OptFacts DEF TypeOK, CacheType
    <2>4. mishaps' \in 0 .. MaxMishaps /\ ShellType'
        BY <1>5, GitAssumption DEF Muck, TypeOK, ShellType, shells
    <2> QED BY <1>5, <2>3, <2>4 DEF Muck, TypeOK, world, report
<1>6. CASE Push
    <2>1. pushed' \subseteq Commit /\ remote' \in [Ref -> Opt(Commit)]
        BY <1>6, OptFacts DEF Push, TypeOK
    <2>2. Offer(want.cset, pushed', remote') \in Opt(Commit)
        BY <2>1, OptFacts DEF Offer
    <2>3. ShellType' /\ moves' \in 0 .. MaxMoves
        BY <1>6, GitAssumption DEF Push, TypeOK, ShellType, shells
    <2> QED BY <1>6, <2>1, <2>2, <2>3 DEF Push, TypeOK, report
<1>7. CASE UNCHANGED vars
    <2>1. ShellType'
        BY <1>7 DEF vars, TypeOK, ShellType
    <2> QED BY <1>7, <2>1 DEF vars, TypeOK
<1> QED BY <1>3, <1>4, <1>5, <1>6, <1>7, RunTypes, ReturnTypes DEF Next

(* GitCache keeps its types; a nested run never outlives the substitution   *)
(* it runs in, nor nests again (line 42).                                   *)
THEOREM Types == Spec => []TypeOK
BY TypeInit, TypeStep, PTL DEF Spec
-----------------------------------------------------------------------------
(* A changeset that is there is found.  The invariant follows it from the   *)
(* remote repository (what it has now was offered) through the fetch (what  *)
(* was fetched can be parsed, or was not there) to the verification.        *)

Verifying == {"special", "verify"}

Offering == main # "idle" => Offer(want.cset, pushed, remote) \in offered

Fetched ==
    (main \in Verifying \/ nested \in Verifying) /\ want.cset \notin Special
        => Parsed(want.cset) # None \/ None \in offered

IInv == TypeOK /\ Offering /\ Fetched /\ MissingIsMissing

LEMMA InitFound == Init => IInv
<1> SUFFICES ASSUME Init PROVE IInv
    OBVIOUS
<1>1. Offering /\ Fetched /\ MissingIsMissing
    BY DEF Init, Offering, Fetched, MissingIsMissing, Verifying
<1> QED BY <1>1, TypeInit DEF IInv

(* A step of a shell that does not lead to the verification keeps the       *)
(* invariant, whatever it does to the cache.                                *)
LEMMA Elsewhere ==
    ASSUME IInv, TypeOK', main # "idle", UNCHANGED <<pushed, remote, want, offered>>,
           main' \notin Verifying, nested' \notin Verifying,
           main' = "idle" => result' # "missing"
    PROVE  IInv'
BY DEF IInv, Offering, Fetched, MissingIsMissing

LEMMA DoneElsewhere ==
    ASSUME IInv, TypeOK', NEW s \in Shells, NEW from \in Steps, NEW step \in Steps \ Verifying,
           Done(s, from, step)
    PROVE  IInv'
<1>1. main # "idle"
    BY DEF IInv, TypeOK, ShellType, Done, At, Steps
<1>2. main' \notin Verifying /\ nested' \notin Verifying /\ main' # "idle"
    BY DEF IInv, TypeOK, ShellType, Done, At, Go, Steps, Shells, Verifying
<1>3. UNCHANGED <<pushed, remote, want, offered>>
    BY DEF Done, world, report
<1> QED BY <1>1, <1>2, <1>3, Elsewhere

(* What a failing command or the end of a nested run leads to. *)
LEMMA ErrorElsewhere ==
    ASSUME IInv, TypeOK', NEW s \in Shells, NEW step \in Steps, Fails(s, step), OnError(s)
    PROVE  IInv'
<1>1. main # "idle"
    BY DEF IInv, TypeOK, ShellType, Fails, At, Steps
<1>2. UNCHANGED <<pushed, remote, want, offered>>
    BY DEF Fails, world
<1>3. /\ main' \notin Verifying /\ nested' \notin Verifying
      /\ main' = "idle" => result' # "missing"
    BY <1>1 DEF IInv, TypeOK, ShellType, Fails, OnError, At, Shells, Verifying
<1> QED BY <1>1, <1>2, <1>3, Elsewhere

LEMMA NestElsewhere ==
    ASSUME IInv, TypeOK', main # "idle", UNCHANGED <<world, want, offered>>,
           NEW w \in {"date", "paths", "attr", "substitution", "mtime"}, Nest(w)
    PROVE  IInv'
BY Elsewhere DEF Nest, world, Verifying

LEMMA RunFound ==
    ASSUME IInv, TypeOK', NEW s \in Shells, Run(s)
    PROVE  IInv'
<1> USE DEF Verifying
<1>1. CASE InitCache(s)
    BY <1>1, DoneElsewhere DEF InitCache, Steps
<1>2. CASE SetOrigin(s)
    BY <1>2, DoneElsewhere DEF SetOrigin, Steps
<1>3. CASE Fetch(s)
    <2> DEFINE c == want.cset
    <2>1. main # "idle" /\ main' # "idle" /\ UNCHANGED <<pushed, remote, want, offered>>
        BY <1>3 DEF Fetch, Done, At, Go, IInv, TypeOK, ShellType, Shells, world, report
    <2>2. Offer(c, pushed, remote) \in offered
        BY <2>1 DEF IInv, Offering
    <2>3. c \in Commit \/ c \in Tag \/ c \in Special
        BY GitAssumption DEF IInv, TypeOK, Cset, Ref, Tag
    <2>4. CASE c \in Commit
        <3>1. c \in pushed \/ None \in offered
            BY <2>2, <2>4, GitAssumption DEF Offer
        <3>2. c \in pushed => c \in cache'.objects
            BY <1>3 DEF Fetch, IInv, TypeOK, CacheType
        <3>3. c # None
            BY <2>4, GitAssumption
        <3>4. (Parsed(want.cset))' # None \/ None \in offered'
            BY <2>1, <2>4, <3>1, <3>2, <3>3 DEF Parsed
        <3> QED BY <2>1, <3>4 DEF IInv, Offering, Fetched, MissingIsMissing
    <2>5. CASE c \in Tag
        <3>1. remote[c] # None \/ None \in offered
            BY <2>2, <2>5 DEF Offer, Ref, Tag
        <3>2. remote[c] # None => cache'.tag[c] = remote[c]
            BY <1>3, <2>5 DEF Fetch, IInv, TypeOK, CacheType
        <3>3. c \notin Commit
            BY <2>5, GitAssumption DEF Tag, Ref
        <3>4. (Parsed(want.cset))' # None \/ None \in offered'
            BY <2>1, <2>5, <3>1, <3>2, <3>3 DEF Parsed
        <3> QED BY <2>1, <3>4 DEF IInv, Offering, Fetched, MissingIsMissing
    <2>6. CASE c \in Special
        BY <2>1, <2>6 DEF IInv, Offering, Fetched, MissingIsMissing
    <2> QED BY <2>3, <2>4, <2>5, <2>6
<1>4. CASE FetchSpecial(s)
    <2>1. main # "idle" /\ main' # "idle" /\ UNCHANGED <<pushed, remote, want, offered>>
        BY <1>4 DEF FetchSpecial, At, Go, IInv, TypeOK, ShellType, Shells, world, report
    <2>2. want.cset \in Special \/ Parsed(want.cset) # None \/ None \in offered
        BY <1>4 DEF FetchSpecial, At, Shells, IInv, Fetched
    <2>3. CASE UNCHANGED cache
        BY <2>1, <2>2, <2>3 DEF IInv, Offering, Fetched, MissingIsMissing, Parsed
    <2>4. CASE /\ want.cset \in Ref /\ Updates(want.cset)
               /\ cache' = [cache EXCEPT !.ref[want.cset] = remote[want.cset]]
        <3>1. cache'.tag = cache.tag /\ cache'.objects = cache.objects
            BY <2>4 DEF IInv, TypeOK, CacheType
        <3>2. cache'.ref[want.cset] = remote[want.cset]
            BY <2>4 DEF IInv, TypeOK, CacheType
        <3>3. remote[want.cset] # None
            BY <2>4 DEF Updates
        <3>4. want'.cset \in Special \/ (Parsed(want.cset))' # None \/ None \in offered'
            BY <2>1, <2>2, <3>1, <3>2, <3>3 DEF Parsed
        <3> QED BY <2>1, <3>4 DEF IInv, Offering, Fetched, MissingIsMissing
    <2> QED BY <1>4, <2>3, <2>4 DEF FetchSpecial
<1>5. CASE Verify(s)
    BY <1>5, DoneElsewhere DEF Verify, Steps
<1>6. CASE Missing(s)
    <2>1. want.cset \in Special \/ None \in offered
        BY <1>6 DEF Missing, At, Shells, IInv, Fetched
    <2>2. UNCHANGED <<pushed, remote, want, offered>> /\ main # "idle"
        BY <1>6 DEF Missing, At, IInv, TypeOK, ShellType, world
    <2> QED BY <1>6, <2>1, <2>2 DEF Missing, IInv, Offering, Fetched, MissingIsMissing
<1>7. CASE Deregister(s)
    BY <1>7, DoneElsewhere DEF Deregister, Steps
<1>8. CASE Checkout(s)
    BY <1>8, DoneElsewhere DEF Checkout, Steps
<1>9. CASE Clean(s)
    BY <1>9, DoneElsewhere DEF Clean, Steps
<1>10. CASE SetDate(s)
    BY <1>10, DoneElsewhere DEF SetDate, AfterDate, Steps
<1>11. CASE UpdateSubmodules(s)
    BY <1>11, DoneElsewhere DEF UpdateSubmodules, Steps
<1>12. CASE FixPaths(s)
    BY <1>12, DoneElsewhere DEF FixPaths, Steps
<1>13. CASE ListFiles(s)
    BY <1>13, DoneElsewhere DEF ListFiles, Steps
<1>14. CASE Format(s)
    BY <1>14, DoneElsewhere DEF Format, Steps
<1>15. CASE Archive(s)
    <2>1. main # "idle" /\ UNCHANGED <<pushed, remote, want, offered>>
        BY <1>15 DEF Archive, At, IInv, TypeOK, ShellType, world
    <2>2. /\ main' \notin Verifying /\ nested' \notin Verifying
          /\ main' = "idle" => result' # "missing"
        BY <1>15, <2>1 DEF Archive, At, Shells, IInv, TypeOK, ShellType
    <2> QED BY <2>1, <2>2, Elsewhere
<1>16. CASE PlainFails(s)
    <2>1. PICK step \in Plain : Fails(s, step)
        BY <1>16 DEF PlainFails
    <2> QED BY <1>16, <2>1, ErrorElsewhere DEF PlainFails, Plain
<1>17. ASSUME NEW step \in Steps, Fails(s, step),
              NEW w \in {"date", "paths", "attr"}, Nest(w)
       PROVE  IInv'
    <2>1. main # "idle" /\ UNCHANGED <<world, want, offered>>
        BY <1>17 DEF Fails, At, IInv, TypeOK, ShellType, Steps
    <2> QED BY <1>17, <2>1, NestElsewhere
<1>18. ASSUME NEW from \in {"paths", "attr"}, Fails(s, from),
              NEW step \in Steps \ Verifying, Go(s, step), UNCHANGED result
       PROVE  IInv'
    <2>1. main # "idle" /\ UNCHANGED <<pushed, remote, want, offered>>
        BY <1>18 DEF Fails, At, IInv, TypeOK, ShellType, world
    <2>2. main' \notin Verifying /\ nested' \notin Verifying /\ main' # "idle"
        BY <1>18 DEF Fails, At, Go, Shells, Steps, IInv, TypeOK, ShellType
    <2> QED BY <2>1, <2>2, Elsewhere
<1>19. CASE DateFails(s)
    <2>1. Fails(s, "date") /\ "date" \in Steps
        BY <1>19 DEF DateFails, Steps
    <2>2. Nest("date") \/ OnError(s)
        BY <1>19 DEF DateFails
    <2> QED BY <2>1, <2>2, <1>17, ErrorElsewhere
<1>20. CASE PathsFail(s)
    BY <1>20, <1>17, <1>18 DEF PathsFail, Steps
<1>21. CASE AttrFails(s)
    BY <1>21, <1>17, <1>18 DEF AttrFails, Steps
<1> QED BY <1>1, <1>2, <1>3, <1>4, <1>5, <1>6, <1>7, <1>8, <1>9, <1>10, <1>11, <1>12,
           <1>13, <1>14, <1>15, <1>16, <1>19, <1>20, <1>21 DEF Run

LEMMA ReturnFound ==
    ASSUME IInv, TypeOK', Return
    PROVE  IInv'
<1>1. main # "idle" /\ UNCHANGED <<world, want, offered>>
    BY DEF Return, MtimeFails, DateReturns, PathsReturn, AttrReturns, SubstitutionReturns,
           MtimeReturns, NestedEnds, At, IInv, TypeOK, ShellType
<1>2. ASSUME Restart PROVE IInv'
    BY <1>1, <1>2, Elsewhere DEF Restart, world, Verifying
<1>3. ASSUME NEW step \in Steps \ Verifying, Continue(step) PROVE IInv'
    BY <1>1, <1>3, Elsewhere DEF Continue, world, Verifying, Steps
<1>4. ASSUME NEW w \in {"date", "paths", "attr", "substitution", "mtime"}, Nest(w) PROVE IInv'
    BY <1>1, <1>4, NestElsewhere
<1> USE DEF Steps, Verifying
<1>5. CASE MtimeFails
    BY <1>4, <1>5 DEF MtimeFails
<1>6. CASE DateReturns
    BY <1>2, <1>3, <1>6 DEF DateReturns, AfterDate
<1>7. CASE PathsReturn
    BY <1>3, <1>7 DEF PathsReturn
<1>8. CASE AttrReturns
    BY <1>3, <1>4, <1>8 DEF AttrReturns
<1>9. CASE SubstitutionReturns
    BY <1>2, <1>3, <1>9 DEF SubstitutionReturns
<1>10. CASE MtimeReturns
    BY <1>2, <1>10 DEF MtimeReturns
<1> QED BY <1>5, <1>6, <1>7, <1>8, <1>9, <1>10 DEF Return

LEMMA StepFound ==
    ASSUME IInv, [Next]_vars
    PROVE  IInv'
<1>1. TypeOK'
    BY TypeStep DEF IInv
<1>2. CASE Start
    <2>1. main' # "idle" /\ main' \notin Verifying /\ nested' \notin Verifying
        BY <1>2 DEF Start, IInv, TypeOK, ShellType, Verifying
    <2>2. Offering'
        BY <1>2 DEF Start, Offering, world
    <2> QED BY <1>1, <2>1, <2>2 DEF IInv, Fetched, MissingIsMissing
<1>3. CASE Kill
    <2>1. main # "idle" /\ UNCHANGED <<pushed, remote, want, offered>>
        BY <1>3 DEF Kill, world
    <2>2. main' \notin Verifying /\ nested' \notin Verifying /\ result' # "missing"
        BY <1>3 DEF Kill, Verifying
    <2> QED BY <1>1, <2>1, <2>2, Elsewhere
<1>4. CASE Muck
    <2>1. UNCHANGED <<main, nested, want, result, runs, offered>> /\ main = "idle" /\ nested = "idle"
        BY <1>4 DEF Muck, shells, report, IInv, TypeOK, ShellType
    <2> QED BY <1>1, <2>1 DEF IInv, Offering, Fetched, MissingIsMissing, Verifying
<1>5. CASE Push
    <2>1. UNCHANGED <<cache, main, nested, want, result, runs>>
        BY <1>5 DEF Push, shells, report
    <2>2. /\ main = "idle" => offered' = offered
          /\ main # "idle" => offered' = offered \cup {Offer(want.cset, pushed', remote')}
        BY <1>5 DEF Push
    <2>3. nested # "idle" => main # "idle"
        BY DEF IInv, TypeOK, ShellType
    <2> QED BY <1>1, <2>1, <2>2, <2>3 DEF IInv, Offering, Fetched, MissingIsMissing, Parsed
<1>6. CASE UNCHANGED vars
    BY <1>1, <1>6 DEF vars, IInv, Offering, Fetched, MissingIsMissing, Parsed
<1> QED BY <1>1, <1>2, <1>3, <1>4, <1>5, <1>6, RunFound, ReturnFound DEF Next

(* A run for anything but a forge ref only reports "does not exist in this  *)
(* repository" (line 154) when the remote repository lacked the changeset   *)
(* at some time of the run, whatever failed, was interrupted or was done to *)
(* the cache before.                                                        *)
THEOREM FoundIfThere == Spec => []MissingIsMissing
<1>1. IInv /\ [Next]_vars => IInv'
    BY StepFound
<1>2. IInv => MissingIsMissing
    BY DEF IInv
<1> QED BY <1>1, <1>2, InitFound, PTL DEF Spec
-----------------------------------------------------------------------------
(* What is archived.  The cache is consistent at all times; what the next   *)
(* command of a shell may rely on grows from step to step, and is lost only *)
(* when the cache is removed, by a shell that starts from the beginning.    *)
(* What it holds is the changeset's only when that is Exact.                *)

Consistent ==
    /\ cache.objects \subseteq pushed
    /\ cache.sub # None => cache.files \in WithSubmodule
    /\ \A t \in Annotated : cache.ref[t] = None /\ (cache.tag[t] # None => remote[t] # None)
    /\ retried => ~gone

Stage(step) ==
    /\ step \in {"special", "verify"} /\ Exact => Parsed(want.cset) \in offered \cup {None}
    /\ step \in {"dereg", "checkout"} /\ Exact => Parsed(want.cset) \in offered \ {None}
    /\ step \in {"checkout", "clean", "date", "update"} => cache.sub = None
    /\ step \in {"clean", "date", "update", "paths", "attr", "format", "archive"} /\ Exact =>
          cache.files \in offered \ {None}
    /\ step \in {"date", "update", "paths", "attr", "format", "archive"} => ~cache.junk
    /\ step \in {"paths", "attr", "format", "archive"} => cache.sub = SubmoduleOf(cache.files)
    /\ step = "update" => want.recurse

(* While the main shell is in a removed directory, its next git command     *)
(* fails; nothing else is said of the cache then, nor of what a run with -q *)
(* archives from there.                                                     *)
Staged ==
    /\ nested # "idle" => Stage(IF nested = "exit0" THEN "archive" ELSE nested)
    /\ nested = "idle" /\ (gone => main = "archive" /\ ~want.quiet) => Stage(main)

(* A nested run, and what it leaves of the main shell, only comes from a    *)
(* command that failed by itself in a substitution: no lock stops these.    *)
Blamed == nested # "idle" \/ gone \/ date = Garbage => "substitution" \in faulty

SInv == TypeOK /\ Offering /\ Consistent /\ Blamed /\ Staged /\ ArchivesChangeset

LEMMA BlamedStep ==
    ASSUME TypeOK, Blamed, [Next]_vars
    PROVE  Blamed'
<1>1. ASSUME NEW s \in Shells, NEW step \in Steps, At(s, step), faulty \subseteq faulty',
             nested' = nested \/ s = "nested", gone' => gone,
             date' = date \/ date' # Garbage
      PROVE  Blamed'
    BY <1>1 DEF Blamed, At
<1>2. ASSUME NEW s \in Shells, NEW step \in Steps, NEW next, Done(s, step, next),
             date' = date \/ date' # Garbage
      PROVE  Blamed'
    BY <1>1, <1>2 DEF Done, Go, Shells
<1>3. cache.files # Garbage
    BY GitAssumption DEF TypeOK, CacheType, Opt
<1>4. ASSUME NEW s \in Shells, NEW step \in Steps, Fails(s, step), OnError(s)
      PROVE  Blamed'
    BY <1>1, <1>4, GitAssumption DEF Fails, OnError
<1>5. ASSUME NEW s \in Shells, NEW step \in Substituted, Fails(s, step), s = "main"
      PROVE  "substitution" \in faulty'
    <2>1. step \notin cache.broken
        BY DEF Substituted, Locking, TypeOK, CacheType
    <2> QED BY <1>5, <2>1 DEF Fails, Works, Blamed, Substituted
<1>6. ASSUME NEW s \in Shells, NEW step \in Steps, NEW next, Fails(s, step), Go(s, next),
             UNCHANGED <<gone, date>>
      PROVE  Blamed'
    BY <1>1, <1>6 DEF Fails, Go, Shells
<1>7. ASSUME NEW s \in Shells, Run(s) PROVE Blamed'
    <2> USE DEF Steps, Substituted, Plain
    <2>1. CASE InitCache(s) \/ SetOrigin(s) \/ Fetch(s) \/ Verify(s) \/ Deregister(s)
               \/ Checkout(s) \/ Clean(s) \/ UpdateSubmodules(s) \/ FixPaths(s)
               \/ ListFiles(s) \/ Format(s)
        BY <1>2, <2>1 DEF InitCache, SetOrigin, Fetch, Verify, Deregister, Checkout, Clean,
                          UpdateSubmodules, FixPaths, ListFiles, Format
    <2>2. CASE SetDate(s)
        BY <1>2, <1>3, <2>2 DEF SetDate
    <2>3. CASE FetchSpecial(s)
        BY <1>1, <2>3 DEF FetchSpecial, Go, Shells
    <2>4. CASE Missing(s) \/ Archive(s)
        BY <1>1, <2>4 DEF Missing, Archive
    <2>5. CASE PlainFails(s)
        BY <1>4, <2>5 DEF PlainFails
    <2>6. CASE DateFails(s)
        BY <1>4, <1>5, <2>6 DEF DateFails, Blamed
    <2>7. CASE PathsFail(s)
        BY <1>5, <1>6, <2>7 DEF PathsFail, Blamed
    <2>8. CASE AttrFails(s)
        BY <1>5, <1>6, <2>8 DEF AttrFails, Blamed
    <2> QED BY <1>7, <2>1, <2>2, <2>3, <2>4, <2>5, <2>6, <2>7, <2>8 DEF Run
<1>8. CASE Return
    BY <1>8 DEF Return, MtimeFails, DateReturns, PathsReturn, AttrReturns, SubstitutionReturns,
                MtimeReturns, NestedEnds, Blamed
<1>9. CASE Start
    BY <1>9, GitAssumption DEF Start, TypeOK, ShellType, Blamed
<1>10. CASE Kill \/ Muck \/ Push \/ UNCHANGED vars
    BY <1>10 DEF Kill, Muck, Push, vars, shells, Blamed
<1> QED BY <1>7, <1>8, <1>9, <1>10 DEF Next

LEMMA NoCacheConsistent ==
    ASSUME cache = NoCache, ~(retried /\ gone) PROVE Consistent
BY DEF Consistent, NoCache, Ref, Tag

LEMMA InitStaged == Init => SInv
<1> SUFFICES ASSUME Init PROVE SInv
    OBVIOUS
<1>1. Consistent
    BY NoCacheConsistent DEF Init
<1>2. Offering /\ Blamed /\ Staged /\ ArchivesChangeset
    BY GitAssumption DEF Init, Offering, Blamed, Staged, Stage, ArchivesChangeset, Succeeded, Exact
<1> QED BY <1>1, <1>2, TypeInit DEF SInv

(* The shell that runs a command that works has what the step relies on.    *)
LEMMA AtStage ==
    ASSUME SInv, NEW s \in Shells, NEW step \in Steps, At(s, step),
           Works(s, step)
    PROVE  Stage(step)
BY DEF SInv, Staged, At, Works, Shells, Steps

LEMMA DoneStaged ==
    ASSUME SInv, TypeOK', Blamed', NEW s \in Shells, NEW from \in Steps, NEW step \in Steps,
           Done(s, from, step), Consistent', Stage(step)'
    PROVE  SInv'
<1>1. main # "idle" /\ main' # "idle" /\ UNCHANGED <<pushed, remote, want, offered, gone>>
    BY DEF SInv, TypeOK, ShellType, Done, At, Go, Shells, Steps, world, report
<1>2. Offering'
    BY <1>1 DEF SInv, Offering
<1>3. Staged'
    <2>1. CASE s = "main"
        BY <2>1 DEF Staged, Done, At, Go
    <2>2. CASE s = "nested"
        BY <2>2 DEF Staged, Done, At, Go, Steps
    <2> QED BY <2>1, <2>2 DEF Shells
<1>4. ArchivesChangeset'
    BY <1>1 DEF ArchivesChangeset, Succeeded, Exact
<1> QED BY <1>2, <1>3, <1>4 DEF SInv

(* Starting from the beginning, or giving up. *)
LEMMA FreshStaged ==
    ASSUME SInv, TypeOK', Blamed', main # "idle", UNCHANGED <<pushed, remote, want, offered>>,
           cache' = NoCache, ~(retried' /\ gone'),
           \/ main' = "init" /\ nested' = "idle"
           \/ nested' = "init" /\ main' # "idle"
    PROVE  SInv'
<1>1. Consistent'
    BY NoCacheConsistent DEF Consistent, NoCache, Ref, Tag
<1>2. Staged' /\ Offering' /\ ArchivesChangeset'
    BY DEF SInv, Offering, Staged, Stage, ArchivesChangeset, Succeeded
<1> QED BY <1>1, <1>2 DEF SInv

LEMMA ErrorStaged ==
    ASSUME SInv, TypeOK', Blamed', NEW s \in Shells, NEW step \in Steps, Fails(s, step), OnError(s)
    PROVE  SInv'
<1>1. main # "idle" /\ UNCHANGED <<pushed, remote, want, offered>>
    BY DEF SInv, TypeOK, ShellType, Fails, At, Steps, world
<1>2. CASE s = "main" /\ ~retried
    BY <1>1, <1>2, FreshStaged DEF Fails, At, OnError, RemoveCache
<1>3. CASE s = "main" /\ retried
    <2>1. main' = "idle" /\ nested' = "idle" /\ result' = "failed"
        BY <1>3 DEF Fails, At, OnError
    <2>2. UNCHANGED <<cache, retried, gone>>
        BY <1>3 DEF OnError
    <2>3. Consistent'
        BY <1>1, <2>2 DEF SInv, Consistent
    <2>4. Offering' /\ Staged' /\ ArchivesChangeset'
        BY <2>1 DEF Offering, Staged, Stage, ArchivesChangeset, Succeeded, Exact
    <2> QED BY <2>3, <2>4 DEF SInv
<1>4. CASE s = "nested"
    <2>1. nested' = "exit1" /\ UNCHANGED <<cache, retried, gone, main>>
        BY <1>4 DEF OnError
    <2>2. Consistent'
        BY <1>1, <2>1 DEF SInv, Consistent
    <2>3. Offering' /\ Staged' /\ ArchivesChangeset'
        BY <1>1, <2>1 DEF SInv, Offering, Staged, Stage, ArchivesChangeset, Succeeded, Exact
    <2> QED BY <2>2, <2>3 DEF SInv
<1> QED BY <1>2, <1>3, <1>4 DEF Shells

LEMMA NestStaged ==
    ASSUME SInv, TypeOK', Blamed', main # "idle", ~retried, UNCHANGED <<world, want, offered>>,
           NEW w \in {"date", "paths", "attr", "substitution", "mtime"}, Nest(w)
    PROVE  SInv'
BY FreshStaged DEF Nest, RemoveCache, world

(* The changeset, once fetched. *)
LEMMA FetchedOffered ==
    ASSUME SInv, main # "idle", NEW s \in Shells, Fetch(s)
    PROVE  /\ Consistent'
           /\ Exact => (Parsed(want.cset) \in offered \cup {None})'
<1> DEFINE c == want.cset
<1>1. UNCHANGED <<pushed, remote, want, offered, retried, gone>>
    BY DEF Fetch, Done, world, report
<1>2. /\ cache'.objects = cache.objects \cup pushed
      /\ cache'.tag = [t \in Tag |-> IF remote[t] = None THEN cache.tag[t] ELSE remote[t]]
      /\ cache'.ref = cache.ref /\ cache'.sub = cache.sub /\ cache'.files = cache.files
    BY DEF Fetch, SInv, TypeOK, CacheType
<1>3. Offer(c, pushed, remote) \in offered
    BY DEF SInv, Offering
<1>4. cache'.objects = pushed
    BY <1>2 DEF SInv, Consistent
<1>5. Consistent'
    BY <1>1, <1>2, <1>4 DEF SInv, Consistent, Tag
<1>6. ASSUME c \in Commit PROVE (Parsed(want.cset) \in offered \cup {None})'
    <2>1. c \notin Ref
        BY <1>6, GitAssumption
    <2> QED BY <1>1, <1>3, <1>4, <1>6, <2>1 DEF Offer, Parsed
<1>7. ASSUME c \in Annotated PROVE (Parsed(want.cset) \in offered \cup {None})'
    <2>1. c \notin Commit /\ c \in Tag /\ c \in Ref
        BY <1>7, GitAssumption DEF Ref, Tag
    <2>2. remote[c] \in offered
        BY <1>3, <2>1 DEF Offer
    <2>3. cache'.ref[c] = None
        BY <1>2, <1>7 DEF SInv, Consistent
    <2>4. cache'.tag[c] \in {remote[c], None}
        BY <1>2, <1>7, <2>1 DEF SInv, Consistent
    <2>5. (Parsed(want.cset))' \in {remote[c], None}
        BY <1>1, <2>1, <2>3, <2>4 DEF Parsed
    <2> QED BY <1>1, <2>2, <2>5
<1> QED BY <1>1, <1>5, <1>6, <1>7 DEF Exact

(* A command that leaves the cache alone. *)
LEMMA SameStaged ==
    ASSUME SInv, TypeOK', Blamed', NEW s \in Shells, NEW from \in Steps, NEW step \in Steps,
           Done(s, from, step), UNCHANGED cache, Stage(from) => Stage(step)
    PROVE  SInv'
<1>1. UNCHANGED <<pushed, remote, want, offered, retried, gone>>
    BY DEF Done, world, report
<1>2. Consistent'
    BY <1>1 DEF SInv, Consistent
<1>3. Stage(from)
    BY AtStage DEF Done
<1>4. Stage(step)'
    BY <1>1, <1>3 DEF Stage, Parsed, SubmoduleOf, Exact
<1> QED BY <1>2, <1>4, DoneStaged

LEMMA RunStaged ==
    ASSUME SInv, TypeOK', Blamed', NEW s \in Shells, Run(s)
    PROVE  SInv'
<1>1. CASE InitCache(s)
    BY <1>1, SameStaged DEF InitCache, Steps, Stage, Exact
<1>2. CASE SetOrigin(s)
    BY <1>2, SameStaged DEF SetOrigin, Steps, Stage, Exact
<1>3. CASE Fetch(s)
    <2>1. main # "idle"
        BY <1>3 DEF Fetch, Done, At, SInv, TypeOK, ShellType
    <2>2. Consistent' /\ (Exact => (Parsed(want.cset) \in offered \cup {None})')
        BY <1>3, <2>1, FetchedOffered
    <2>3. UNCHANGED want
        BY <1>3 DEF Fetch, Done, report
    <2>4. Stage("special")'
        BY <2>2, <2>3 DEF Stage, Exact
    <2> QED BY <1>3, <2>2, <2>4, DoneStaged DEF Fetch, Steps
<1>4. CASE FetchSpecial(s)
    <2>1. main # "idle" /\ main' # "idle" /\ UNCHANGED <<pushed, remote, want, offered, retried, gone>>
        BY <1>4 DEF FetchSpecial, At, Go, SInv, TypeOK, ShellType, Shells, world, report
    <2>2. /\ cache'.objects = cache.objects /\ cache'.tag = cache.tag /\ cache'.sub = cache.sub
          /\ cache'.files = cache.files /\ cache'.junk = cache.junk
        BY <1>4 DEF FetchSpecial, SInv, TypeOK, CacheType
    <2>3. /\ \A t \in Annotated : cache'.ref[t] = cache.ref[t]
          /\ Exact => cache'.ref = cache.ref
        <3>1. CASE UNCHANGED cache
            BY <3>1
        <3>2. CASE /\ want.cset \in Ref /\ Updates(want.cset)
                   /\ cache' = [cache EXCEPT !.ref[want.cset] = remote[want.cset]]
            <4>1. want.cset \in Lightweight \cup Special
                BY <3>2 DEF Updates
            <4>2. want.cset \notin Annotated /\ want.cset \notin Commit
                BY <4>1, GitAssumption DEF Ref
            <4>3. cache'.ref = [cache.ref EXCEPT ![want.cset] = remote[want.cset]]
                BY <3>2 DEF SInv, TypeOK, CacheType
            <4>4. \A t \in Annotated : cache'.ref[t] = cache.ref[t]
                BY <4>2, <4>3 DEF SInv, TypeOK, CacheType, Ref
            <4> QED BY <4>2, <4>4 DEF Exact
        <3> QED BY <1>4, <3>1, <3>2 DEF FetchSpecial
    <2>4. Consistent' /\ Offering' /\ ArchivesChangeset'
        BY <2>1, <2>2, <2>3 DEF SInv, Consistent, Offering, ArchivesChangeset, Succeeded, Exact
    <2>5. Stage("special") => Stage("verify")'
        BY <2>1, <2>2, <2>3 DEF Stage, Parsed, Exact
    <2>6. Staged'
        <3>1. CASE s = "main"
            BY <1>4, <2>1, <2>5, <3>1 DEF FetchSpecial, At, Go, SInv, Staged
        <3>2. CASE s = "nested"
            BY <1>4, <2>1, <2>5, <3>2 DEF FetchSpecial, At, Go, SInv, Staged
        <3> QED BY <3>1, <3>2 DEF Shells
    <2> QED BY <2>4, <2>6 DEF SInv
<1>5. CASE Verify(s)
    BY <1>5, SameStaged DEF Verify, Steps, Stage, Exact
<1>6. CASE Missing(s)
    <2>1. main # "idle" /\ UNCHANGED <<pushed, remote, cache, want, offered, retried, gone>>
        BY <1>6 DEF Missing, At, SInv, TypeOK, ShellType, world
    <2>2. Consistent' /\ Offering'
        BY <2>1, <1>6 DEF SInv, Consistent, Offering, Missing
    <2>3. Staged' /\ ArchivesChangeset'
        BY <2>1, <1>6 DEF Missing, At, Shells, SInv, TypeOK, ShellType, Staged, Stage, Exact,
                          ArchivesChangeset, Succeeded
    <2> QED BY <2>2, <2>3 DEF SInv
<1>7. CASE Deregister(s)
    <2>1. /\ cache'.sub = IF cache.files \in WithSubmodule THEN None ELSE cache.sub
          /\ cache'.objects = cache.objects /\ cache'.tag = cache.tag /\ cache'.ref = cache.ref
          /\ cache'.files = cache.files
        BY <1>7 DEF Deregister, SInv, TypeOK, CacheType
    <2>2. UNCHANGED <<pushed, remote, want, offered, retried, gone>>
        BY <1>7 DEF Deregister, Done, world, report
    <2>3. Consistent' /\ cache'.sub = None
        BY <2>1, <2>2 DEF SInv, Consistent
    <2>4. Stage("dereg")
        BY <1>7, AtStage DEF Deregister, Done, Steps
    <2>5. Stage("checkout")'
        BY <2>1, <2>2, <2>3, <2>4 DEF Stage, Parsed, Exact
    <2> QED BY <1>7, <2>3, <2>5, DoneStaged DEF Deregister, Steps
<1>8. CASE Checkout(s)
    <2>1. Stage("checkout")
        BY <1>8, AtStage DEF Checkout, Done, Steps
    <2>2. Exact => want.cset \notin Lightweight
        BY GitAssumption DEF Exact, Ref
    <2>3. Exact => cache'.files = Parsed(want.cset)
        BY <1>8, <2>2 DEF Checkout, SInv, TypeOK, CacheType
    <2>4. /\ cache'.sub = cache.sub
          /\ cache'.objects = cache.objects /\ cache'.tag = cache.tag /\ cache'.ref = cache.ref
        BY <1>8 DEF Checkout, SInv, TypeOK, CacheType
    <2>5. UNCHANGED <<pushed, remote, want, offered, retried, gone>>
        BY <1>8 DEF Checkout, Done, world, report
    <2>6. Consistent'
        BY <2>1, <2>4, <2>5 DEF SInv, Consistent, Stage, Exact
    <2>7. Stage("clean")'
        BY <2>1, <2>3, <2>4, <2>5 DEF Stage, Exact
    <2> QED BY <1>8, <2>6, <2>7, DoneStaged DEF Checkout, Steps
<1>9. CASE Clean(s)
    <2>1. Stage("clean")
        BY <1>9, AtStage DEF Clean, Done, Steps
    <2>2. /\ cache'.sub = (IF cache.files \in WithSubmodule THEN cache.sub ELSE None)
          /\ cache'.junk = FALSE /\ cache'.files = cache.files
          /\ cache'.objects = cache.objects /\ cache'.tag = cache.tag /\ cache'.ref = cache.ref
        BY <1>9 DEF Clean, SInv, TypeOK, CacheType
    <2>3. UNCHANGED <<pushed, remote, want, offered, retried, gone>>
        BY <1>9 DEF Clean, Done, world, report
    <2>4. Consistent'
        BY <2>2, <2>3 DEF SInv, Consistent
    <2>5. Stage("date")'
        BY <2>1, <2>2, <2>3 DEF Stage, Exact
    <2> QED BY <1>9, <2>4, <2>5, DoneStaged DEF Clean, Steps
<1>10. CASE SetDate(s)
    <2>1. Stage("date") => Stage(AfterDate)
        BY DEF Stage, AfterDate, SubmoduleOf
    <2> QED BY <1>10, <2>1, SameStaged DEF SetDate, AfterDate, Steps
<1>11. CASE UpdateSubmodules(s)
    <2>1. Stage("update")
        BY <1>11, AtStage DEF UpdateSubmodules, Done, Steps
    <2>2. /\ cache'.sub = (IF cache.files \in WithSubmodule THEN cache.files ELSE None)
          /\ cache'.junk = cache.junk /\ cache'.files = cache.files
          /\ cache'.objects = cache.objects /\ cache'.tag = cache.tag /\ cache'.ref = cache.ref
        BY <1>11 DEF UpdateSubmodules, SInv, TypeOK, CacheType
    <2>3. UNCHANGED <<pushed, remote, want, offered, retried, gone>>
        BY <1>11 DEF UpdateSubmodules, Done, world, report
    <2>4. Consistent'
        BY <2>2, <2>3 DEF SInv, Consistent
    <2>5. Stage("paths")'
        BY <2>1, <2>2, <2>3 DEF Stage, SubmoduleOf, Exact
    <2> QED BY <1>11, <2>4, <2>5, DoneStaged DEF UpdateSubmodules, Steps
<1>12. CASE FixPaths(s)
    BY <1>12, SameStaged DEF FixPaths, Steps, Stage, Exact
<1>13. CASE ListFiles(s)
    BY <1>13, SameStaged DEF ListFiles, Steps, Stage, Exact
<1>14. CASE Format(s)
    <2>1. Stage("format")
        BY <1>14, AtStage DEF Format, Done, Steps
    <2>2. /\ cache'.sub = cache.sub /\ cache'.junk = cache.junk /\ cache'.files = cache.files
          /\ cache'.objects = cache.objects /\ cache'.tag = cache.tag /\ cache'.ref = cache.ref
        BY <1>14 DEF Format, SInv, TypeOK, CacheType
    <2>3. UNCHANGED <<pushed, remote, want, offered, retried, gone>>
        BY <1>14 DEF Format, Done, world, report
    <2>4. Consistent'
        BY <2>2, <2>3 DEF SInv, Consistent
    <2>5. Stage("archive")'
        BY <2>1, <2>2, <2>3 DEF Stage, SubmoduleOf, Exact
    <2> QED BY <1>14, <2>4, <2>5, DoneStaged DEF Format, Steps
<1>15. CASE Archive(s)
    <2>1. /\ main # "idle"
          /\ UNCHANGED <<pushed, remote, cache, want, offered, retried, gone, runs, faulty>>
        BY <1>15 DEF Archive, At, SInv, TypeOK, ShellType, world
    <2>2. Consistent' /\ Offering'
        BY <1>15, <2>1 DEF SInv, Consistent, Offering, Archive
    <2>3. output'.files = cache.files /\ output'.sub = cache.sub /\ output'.junk = cache.junk
        BY <1>15 DEF Archive
    <2>4. CASE s = "main" /\ gone /\ want.quiet
        <3>1. "substitution" \in faulty'
            BY <2>1, <2>4 DEF SInv, Blamed
        <3>2. ArchivesChangeset'
            BY <2>1, <2>4, <3>1 DEF ArchivesChangeset, Exact
        <3>3. Staged'
            BY <1>15, <2>1, <2>4 DEF Archive, At, Staged
        <3> QED BY <2>2, <3>2, <3>3 DEF SInv
    <2>5. CASE ~(s = "main" /\ gone /\ want.quiet)
        <3>1. Stage("archive")
            BY <1>15, <2>5 DEF Archive, At, Shells, SInv, Staged
        <3>2. ArchivesChangeset'
            BY <2>1, <2>3, <3>1 DEF Stage, ArchivesChangeset, SubmoduleOf, Exact
        <3>3. Staged'
            BY <1>15, <2>1, <3>1 DEF Archive, At, Shells, Staged, Stage, SubmoduleOf, Exact
        <3> QED BY <2>2, <3>2, <3>3 DEF SInv
    <2> QED BY <2>4, <2>5
<1>16. CASE PlainFails(s)
    <2>1. PICK step \in Plain : Fails(s, step)
        BY <1>16 DEF PlainFails
    <2> QED BY <1>16, <2>1, ErrorStaged DEF PlainFails, Plain
<1>17. ASSUME NEW step \in Steps, Fails(s, step), ~retried,
              NEW w \in {"date", "paths", "attr"}, Nest(w)
       PROVE  SInv'
    <2>1. main # "idle" /\ UNCHANGED <<world, want, offered>>
        BY <1>17 DEF Fails, At, SInv, TypeOK, ShellType, Steps
    <2> QED BY <1>17, <2>1, NestStaged
<1>18. ASSUME NEW from \in {"paths", "attr"}, Fails(s, from), s = "nested" \/ retried,
              NEW step \in {"attr", "archive"}, Go(s, step),
              UNCHANGED <<cache, retried, gone, result>>
       PROVE  SInv'
    <2>1. main # "idle" /\ main' # "idle" /\ UNCHANGED <<pushed, remote, want, offered>>
        BY <1>18 DEF Fails, At, Go, Shells, SInv, TypeOK, ShellType, world
    <2>2. Stage(from)
        BY <1>18 DEF SInv, Staged, Consistent, Fails, At, Shells
    <2>3. Stage(step)'
        BY <1>18, <2>1, <2>2 DEF Stage, SubmoduleOf, Exact
    <2>4. Consistent' /\ Offering' /\ ArchivesChangeset'
        BY <1>18, <2>1 DEF SInv, Consistent, Offering, ArchivesChangeset, Succeeded, Exact
    <2>5. Staged'
        BY <1>18, <2>3 DEF Staged, Fails, At, Go, Shells
    <2> QED BY <2>4, <2>5 DEF SInv
<1>19. CASE DateFails(s)
    <2>1. Fails(s, "date") /\ "date" \in Steps
        BY <1>19 DEF DateFails, Steps
    <2>2. (~retried /\ Nest("date")) \/ OnError(s)
        BY <1>19 DEF DateFails
    <2> QED BY <2>1, <2>2, <1>17, ErrorStaged
<1>20. CASE PathsFail(s)
    BY <1>20, <1>17, <1>18 DEF PathsFail, Steps
<1>21. CASE AttrFails(s)
    BY <1>21, <1>17, <1>18 DEF AttrFails, Steps
<1> QED BY <1>1, <1>2, <1>3, <1>4, <1>5, <1>6, <1>7, <1>8, <1>9, <1>10, <1>11, <1>12,
           <1>13, <1>14, <1>15, <1>16, <1>19, <1>20, <1>21 DEF Run

(* The main shell only archives what a complete nested run left, or, with   *)
(* -q, from a directory that is gone.                                       *)
LEMMA ReturnStaged ==
    ASSUME SInv, TypeOK', Blamed', Return
    PROVE  SInv'
<1>1. main # "idle" /\ UNCHANGED <<world, want, offered>>
    BY DEF Return, MtimeFails, DateReturns, PathsReturn, AttrReturns, SubstitutionReturns,
           MtimeReturns, NestedEnds, At, SInv, TypeOK, ShellType
<1>2. ASSUME Restart PROVE SInv'
    BY <1>1, <1>2, FreshStaged DEF Restart, RemoveCache, world
<1>3. ASSUME NEW w \in {"date", "paths", "attr", "substitution", "mtime"}, Nest(w), ~retried
      PROVE  SInv'
    BY <1>1, <1>3, NestStaged
<1>4. ASSUME NEW step \in Steps, Continue(step), step # "archive" \/ want.quiet => gone,
             step = "archive" => nested = "exit0" \/ want.quiet
      PROVE  SInv'
    <2>1. UNCHANGED <<pushed, remote, want, offered, cache, retried, gone>> /\ main' # "idle"
        BY <1>1, <1>4 DEF Continue, world, Steps
    <2>2. Consistent' /\ Offering' /\ ArchivesChangeset'
        BY <1>1, <2>1 DEF SInv, Consistent, Offering, ArchivesChangeset, Succeeded, Exact
    <2>3. Staged'
        BY <1>4, <2>1 DEF SInv, Staged, Stage, Continue, SubmoduleOf, Exact
    <2> QED BY <2>2, <2>3 DEF SInv
<1>5. nested # "idle" => ~retried
    BY DEF SInv, TypeOK, ShellType
<1> USE DEF Steps
<1>6. CASE MtimeFails
    <2>1. ~retried
        BY <1>6 DEF MtimeFails, SInv, TypeOK, ShellType
    <2> QED BY <1>3, <1>6, <2>1 DEF MtimeFails
<1>7. CASE DateReturns
    <2>1. gone
        BY <1>7 DEF DateReturns, NestedEnds, SInv, TypeOK, ShellType
    <2> QED BY <1>2, <1>4, <1>7, <2>1 DEF DateReturns, AfterDate, NestedEnds
<1>8. CASE PathsReturn
    <2>1. gone
        BY <1>8 DEF PathsReturn, NestedEnds, SInv, TypeOK, ShellType
    <2> QED BY <1>4, <1>8, <2>1 DEF PathsReturn, NestedEnds
<1>9. CASE AttrReturns
    <2>1. gone
        BY <1>9 DEF AttrReturns, NestedEnds, SInv, TypeOK, ShellType
    <2> QED BY <1>3, <1>4, <1>5, <1>9, <2>1 DEF AttrReturns, NestedEnds
<1>10. CASE SubstitutionReturns
    <2>1. gone
        BY <1>10 DEF SubstitutionReturns, NestedEnds, SInv, TypeOK, ShellType
    <2> QED BY <1>2, <1>4, <1>10, <2>1 DEF SubstitutionReturns, NestedEnds
<1>11. CASE MtimeReturns
    BY <1>2, <1>11 DEF MtimeReturns
<1> QED BY <1>6, <1>7, <1>8, <1>9, <1>10, <1>11 DEF Return

LEMMA StepStaged ==
    ASSUME SInv, [Next]_vars
    PROVE  SInv'
<1>1. TypeOK' /\ Blamed'
    BY TypeStep, BlamedStep DEF SInv
<1>2. CASE Start
    <2>1. main' = "init" /\ nested' = "idle" /\ nested = "idle"
        BY <1>2 DEF Start, SInv, TypeOK, ShellType
    <2>2. UNCHANGED <<pushed, remote, cache>> /\ gone' = FALSE
        BY <1>2 DEF Start, world
    <2>3. Offering'
        BY <1>2 DEF Start, Offering, world
    <2>4. Consistent' /\ Staged' /\ ArchivesChangeset'
        BY <2>1, <2>2 DEF SInv, Consistent, Staged, Stage, ArchivesChangeset, Succeeded, Exact
    <2> QED BY <1>1, <2>3, <2>4 DEF SInv
<1>3. CASE Kill
    <2>1. main' = "idle" /\ nested' = "idle" /\ result' = "killed"
        BY <1>3 DEF Kill
    <2>2. UNCHANGED <<pushed, remote, retried, gone>>
        BY <1>3 DEF Kill, world
    <2>3. /\ cache'.sub = cache.sub /\ cache'.files = cache.files
          /\ cache'.objects = cache.objects /\ cache'.tag = cache.tag /\ cache'.ref = cache.ref
        BY <1>3 DEF Kill, SInv, TypeOK, CacheType
    <2>4. Consistent'
        BY <2>2, <2>3 DEF SInv, Consistent
    <2>5. Offering' /\ Staged' /\ ArchivesChangeset'
        BY <2>1 DEF Offering, Staged, Stage, ArchivesChangeset, Succeeded, Exact
    <2> QED BY <1>1, <2>4, <2>5 DEF SInv
<1>4. CASE Muck
    <2>1. UNCHANGED <<pushed, remote, main, nested, retried, gone, want, output, result, runs,
                    offered, faulty>>
        BY <1>4 DEF Muck, world, shells, report
    <2>2. main = "idle" /\ nested = "idle"
        BY <1>4 DEF Muck, SInv, TypeOK, ShellType
    <2>3. PICK c \in cache.objects :
              cache' = [cache EXCEPT !.junk = TRUE, !.files = c, !.head = c, !.expanded = Garbage,
                                     !.sub = IF c \in WithSubmodule THEN c ELSE None]
        BY <1>4 DEF Muck
    <2>4. /\ cache'.sub = (IF c \in WithSubmodule THEN c ELSE None) /\ cache'.files = c
          /\ cache'.objects = cache.objects /\ cache'.tag = cache.tag /\ cache'.ref = cache.ref
        BY <2>3 DEF SInv, TypeOK, CacheType
    <2>5. Consistent'
        BY <2>1, <2>4 DEF SInv, Consistent
    <2>6. Offering' /\ Staged' /\ ArchivesChangeset'
        BY <2>1, <2>2 DEF SInv, Offering, Staged, Stage, ArchivesChangeset, Succeeded, SubmoduleOf, Exact
    <2> QED BY <1>1, <2>5, <2>6 DEF SInv
<1>5. CASE Push
    <2>1. UNCHANGED <<cache, main, nested, want, output, result, runs, retried, gone, faulty>>
        BY <1>5 DEF Push, shells, report
    <2>2. /\ main = "idle" => offered' = offered
          /\ main # "idle" => offered' = offered \cup {Offer(want.cset, pushed', remote')}
        BY <1>5 DEF Push
    <2>3. nested # "idle" => main # "idle"
        BY DEF SInv, TypeOK, ShellType
    <2>4. pushed \subseteq pushed' /\ \A r \in Ref : remote[r] # None => remote'[r] # None
        BY <1>5, GitAssumption DEF Push, SInv, TypeOK
    <2>5. Consistent'
        BY <2>1, <2>4 DEF SInv, Consistent, Ref
    <2>6. Offering' /\ ArchivesChangeset'
        BY <2>1, <2>2 DEF SInv, Offering, ArchivesChangeset, Succeeded, SubmoduleOf, Exact
    <2>7. offered \subseteq offered'
        BY <2>2
    <2>8. Staged'
        BY <2>1, <2>7 DEF SInv, Staged, Stage, Parsed, SubmoduleOf, Exact
    <2> QED BY <1>1, <2>5, <2>6, <2>8 DEF SInv
<1>6. CASE UNCHANGED vars
    <2>1. Consistent' /\ Offering' /\ ArchivesChangeset'
        BY <1>6 DEF vars, SInv, Consistent, Offering, ArchivesChangeset, Succeeded, SubmoduleOf, Exact
    <2>2. Staged'
        BY <1>6 DEF vars, SInv, Staged, Stage, Parsed, SubmoduleOf, Exact
    <2> QED BY <1>1, <2>1, <2>2 DEF SInv
<1> QED BY <1>1, <1>2, <1>3, <1>4, <1>5, <1>6, RunStaged, ReturnStaged DEF Next

(* For a commit or an annotated tag, a success always means the files of    *)
(* the changeset, its submodule as asked and no leftovers, whatever failed  *)
(* (with -q: outside of the substitutions), was interrupted or was done to  *)
(* the cache before (lines 126-299).                                        *)
THEOREM ArchivesAreExact == Spec => []ArchivesChangeset
<1>1. SInv /\ [Next]_vars => SInv'
    BY StepStaged
<1>2. SInv => ArchivesChangeset
    BY DEF SInv
<1> QED BY <1>1, <1>2, InitStaged, PTL DEF Spec

-----------------------------------------------------------------------------
(* The archive is the same whatever happened before.  While no command of a *)
(* substitution fails by itself there is one shell only; checkout -f has    *)
(* taken back every expanded hint, and the date is read from what was       *)
(* checked out.                                                             *)

Dated ==
    "substitution" \notin faulty =>
        /\ main \in {"clean", "date", "update", "paths", "attr", "format"} => cache.expanded = None
        /\ main = "archive" => cache.expanded = cache.files
        /\ main \in {"update", "paths", "attr", "format", "archive"} => date = cache.files

RInv == TypeOK /\ Blamed /\ Dated /\ ArchiveReproducible

(* Nothing but Start forgets a failure.                                     *)
LEMMA FaultsStay ==
    ASSUME [Next]_vars, ~Start PROVE faulty \subseteq faulty'
<1>1. ASSUME NEW s \in Shells, NEW step, NEW next, Done(s, step, next) PROVE faulty' = faulty
    BY <1>1 DEF Done
<1>2. ASSUME NEW s \in Shells, NEW step, Fails(s, step) PROVE faulty \subseteq faulty'
    BY <1>2 DEF Fails
<1>3. ASSUME NEW s \in Shells, Run(s) PROVE faulty \subseteq faulty'
    BY <1>1, <1>2, <1>3 DEF Run, InitCache, SetOrigin, Fetch, FetchSpecial, Verify, Missing, Deregister,
           Checkout, Clean, SetDate, UpdateSubmodules, FixPaths, ListFiles, Format, Archive,
           PlainFails, DateFails, PathsFail, AttrFails
<1>4. Return \/ Kill \/ Muck \/ Push \/ UNCHANGED vars => faulty' = faulty
    BY DEF Return, MtimeFails, DateReturns, PathsReturn, AttrReturns, SubstitutionReturns, MtimeReturns,
           NestedEnds, Kill, Muck, Push, vars
<1> QED BY <1>3, <1>4 DEF Next

(* Without a failure in a substitution there is no second shell.            *)
LEMMA Alone ==
    ASSUME TypeOK, Blamed, "substitution" \notin faulty
    PROVE  /\ nested = "idle" /\ ~gone /\ date # Garbage /\ ~Return
           /\ \A s \in Shells : \A step : At(s, step) => s = "main" /\ main = step
           /\ \A step \in Substituted : Works("main", step)
<1>1. nested = "idle" /\ ~gone /\ date # Garbage
    BY DEF Blamed
<1>2. ~Return
    BY <1>1 DEF Return, MtimeFails, DateReturns, PathsReturn, AttrReturns, SubstitutionReturns,
           MtimeReturns, NestedEnds
<1>3. \A s \in Shells : \A step : At(s, step) => s = "main" /\ main = step
    BY <1>1 DEF At
<1>4. \A step \in Substituted : Works("main", step)
    BY <1>1 DEF Works, Substituted, Locking, TypeOK, CacheType
<1> QED BY <1>1, <1>2, <1>3, <1>4

LEMMA DatedStep == RInv /\ [Next]_vars => RInv'
<1> SUFFICES ASSUME RInv, [Next]_vars PROVE Dated' /\ ArchiveReproducible'
    BY TypeStep, BlamedStep DEF RInv
<1>1. CASE Start
    BY <1>1 DEF Start, Dated, ArchiveReproducible, Succeeded
<1> SUFFICES ASSUME ~Start, "substitution" \notin faulty'
             PROVE  Dated' /\ ArchiveReproducible'
    BY <1>1 DEF Dated, ArchiveReproducible
<1>2. /\ "substitution" \notin faulty
      /\ nested = "idle" /\ ~gone /\ date # Garbage /\ ~Return
      /\ \A s \in Shells : \A step : At(s, step) => s = "main" /\ main = step
      /\ \A step \in Substituted : Works("main", step)
    BY FaultsStay, Alone DEF RInv
<1>3. CASE Muck \/ Kill \/ Push \/ UNCHANGED vars
    BY <1>2, <1>3 DEF Muck, Kill, Push, vars, shells, report, RInv, Dated, ArchiveReproducible, Succeeded
<1>4. ASSUME NEW s \in Shells, Run(s) PROVE Dated' /\ ArchiveReproducible'
    <2>1. ASSUME NEW step, NEW next \in Steps, Done(s, step, next)
          PROVE  main = step /\ main' = next /\ ArchiveReproducible'
        BY <1>2, <2>1 DEF Done, Go, ArchiveReproducible, Succeeded, Steps
    <2>2. CASE InitCache(s) \/ SetOrigin(s) \/ Fetch(s) \/ Verify(s) \/ Deregister(s)
        BY <2>1, <2>2 DEF InitCache, SetOrigin, Fetch, Verify, Deregister, Steps, Dated
    <2>3. CASE FetchSpecial(s)
        BY <1>2, <2>3 DEF FetchSpecial, Go, Dated, ArchiveReproducible, Succeeded
    <2>4. CASE Missing(s)
        BY <1>2, <2>4 DEF Missing, Dated, ArchiveReproducible, Succeeded
    <2>5. CASE Checkout(s)
        BY <2>1, <2>5 DEF Checkout, Steps, Dated, RInv, TypeOK, CacheType
    <2>6. CASE Clean(s) \/ UpdateSubmodules(s)
        BY <1>2, <2>1, <2>6 DEF Clean, UpdateSubmodules, Steps, Dated, RInv, TypeOK, CacheType
    <2>7. CASE SetDate(s)
        BY <1>2, <2>1, <2>7 DEF SetDate, Done, At, AfterDate, Steps, Dated, RInv
    <2>8. CASE FixPaths(s) \/ ListFiles(s)
        BY <1>2, <2>1, <2>8 DEF FixPaths, ListFiles, Steps, Dated, RInv
    <2>9. CASE Format(s)
        BY <1>2, <2>1, <2>9 DEF Format, Steps, Dated, RInv, TypeOK, CacheType
    <2>10. CASE Archive(s)
        BY <1>2, <2>10 DEF Archive, Date, Dated, ArchiveReproducible, Succeeded, RInv
    <2>11. CASE PlainFails(s)
        BY <1>2, <2>11 DEF PlainFails, Fails, OnError, Dated, ArchiveReproducible, Succeeded
    <2>12. ~DateFails(s) /\ ~PathsFail(s) /\ ~AttrFails(s)
        BY <1>2 DEF DateFails, PathsFail, AttrFails, Fails, Substituted
    <2> QED BY <1>4, <2>2, <2>3, <2>4, <2>5, <2>6, <2>7, <2>8, <2>9, <2>10, <2>11, <2>12 DEF Run
<1> QED BY <1>2, <1>3, <1>4 DEF Next

(* A success without a failed substitution leaves an archive whose hints    *)
(* and date are those of the commit it holds, whatever other commands       *)
(* failed, was interrupted or was done to the cache before.                 *)
THEOREM ArchivesAreReproducible == Spec => []ArchiveReproducible
<1>1. Init => RInv
    BY TypeInit, GitAssumption DEF Init, RInv, Blamed, Dated, ArchiveReproducible, Succeeded
<1>2. RInv => ArchiveReproducible
    BY DEF RInv
<1> QED BY <1>1, <1>2, DatedStep, PTL DEF Spec

-----------------------------------------------------------------------------
(* A run none of whose commands fails by itself can only meet the lock      *)
(* files of an interrupted run; it removes them with the cache, once.       *)

Locks == cache.broken # {} => mishaps > 0

Recovering ==
    faulty = {} =>
        /\ result # "failed"
        /\ IF retried THEN clones = 1 /\ mishaps > 0 ELSE clones = 0
        /\ main # "idle" /\ retried => cache.broken = {}

CInv == TypeOK /\ Blamed /\ Locks /\ Recovering

LEMMA LocksStep == ASSUME TypeOK, Locks, [Next]_vars PROVE Locks'
<1>1. ASSUME NEW s \in Shells, Run(s) PROVE mishaps' = mishaps
    <2>1. \A step, next : Done(s, step, next) \/ Fails(s, step) => mishaps' = mishaps
        BY DEF Done, Fails
    <2> QED BY <1>1, <2>1 DEF Run, InitCache, SetOrigin, Fetch, FetchSpecial, Verify, Missing, Deregister,
               Checkout, Clean, SetDate, UpdateSubmodules, FixPaths, ListFiles, Format, Archive,
               PlainFails, DateFails, PathsFail, AttrFails
<1>2. mishaps \in Nat /\ mishaps' \in Nat /\ mishaps' >= mishaps
    <2>1. mishaps \in Nat
        BY GitAssumption DEF TypeOK
    <2>2. Return \/ Start \/ Push \/ UNCHANGED vars => mishaps' = mishaps
        BY DEF Return, MtimeFails, DateReturns, PathsReturn, AttrReturns, SubstitutionReturns,
               MtimeReturns, NestedEnds, Start, Push, vars
    <2>3. Kill \/ Muck => mishaps' = mishaps + 1
        BY DEF Kill, Muck
    <2> QED BY <1>1, <2>1, <2>2, <2>3 DEF Next
<1>3. CASE Kill
    BY <1>2, <1>3 DEF Kill, Locks
<1>4. ASSUME ~Kill PROVE cache'.broken \in {cache.broken, {}}
    <2> DEFINE Kept == cache'.broken \in {cache.broken, {}}
    <2>1. RemoveCache => Kept
        BY DEF RemoveCache, NoCache
    <2>2. UNCHANGED cache => Kept
        OBVIOUS
    <2>3. ASSUME NEW s \in Shells, Run(s) PROVE Kept
        <3>1. CASE Fetch(s) \/ Deregister(s) \/ Checkout(s) \/ Clean(s) \/ UpdateSubmodules(s) \/ Format(s)
            BY <3>1 DEF Fetch, Deregister, Checkout, Clean, UpdateSubmodules, Format, TypeOK, CacheType
        <3>2. CASE FetchSpecial(s)
            BY <3>2 DEF FetchSpecial, TypeOK, CacheType
        <3>3. CASE InitCache(s) \/ SetOrigin(s) \/ Verify(s) \/ Missing(s) \/ SetDate(s) \/ FixPaths(s)
                   \/ ListFiles(s) \/ Archive(s)
            BY <3>3 DEF InitCache, SetOrigin, Verify, Missing, SetDate, FixPaths, ListFiles, Archive
        <3> HIDE DEF Kept
        <3>4. CASE PlainFails(s) \/ DateFails(s) \/ PathsFail(s) \/ AttrFails(s)
            BY <2>1, <2>2, <3>4 DEF PlainFails, DateFails, PathsFail, AttrFails, OnError, Nest
        <3> QED BY <2>3, <3>1, <3>2, <3>3, <3>4 DEF Run
    <2>4. ASSUME Return PROVE Kept
        BY <2>1, <2>2, <2>4 DEF Return, MtimeFails, DateReturns, PathsReturn, AttrReturns,
               SubstitutionReturns, MtimeReturns, Continue, Restart, Nest
    <2>5. CASE Muck
        BY <2>5 DEF Muck, TypeOK, CacheType
    <2>6. CASE Start \/ Push \/ UNCHANGED vars
        BY <2>6 DEF Start, Push, vars
    <2> QED BY <1>4, <2>3, <2>4, <2>5, <2>6 DEF Next
<1> QED BY <1>2, <1>3, <1>4 DEF Locks

LEMMA RecoveringStep == CInv /\ [Next]_vars => CInv'
<1> SUFFICES ASSUME CInv, [Next]_vars PROVE Recovering'
    BY TypeStep, BlamedStep, LocksStep DEF CInv
<1>1. CASE Start
    BY <1>1 DEF Start, Recovering
<1> SUFFICES ASSUME ~Start, faulty' = {} PROVE Recovering'
    BY <1>1 DEF Recovering
<1>2. /\ faulty = {}
      /\ nested = "idle" /\ ~gone /\ date # Garbage /\ ~Return
      /\ \A s \in Shells : \A step : At(s, step) => s = "main" /\ main = step
      /\ \A step \in Substituted : Works("main", step)
    BY FaultsStay, Alone DEF CInv
<1>3. mishaps \in Nat /\ main \in Steps \cup {"idle", "substitution", "mtime"}
    BY GitAssumption DEF CInv, TypeOK, ShellType
<1>4. CASE Muck
    BY <1>2, <1>3, <1>4 DEF Muck, shells, report, CInv, Recovering
<1>5. CASE Kill
    BY <1>2, <1>3, <1>5 DEF Kill, CInv, Recovering
<1>6. CASE Push \/ UNCHANGED vars
    BY <1>2, <1>6 DEF Push, vars, shells, report, CInv, Recovering
<1>7. ASSUME NEW s \in Shells, Run(s) PROVE Recovering'
    <2>1. ASSUME NEW step \in Steps, Fails(s, step)
          PROVE  /\ s = "main" /\ main = step /\ step \in cache.broken /\ ~retried
                 /\ step \notin Substituted /\ clones = 0 /\ mishaps > 0 /\ result # "failed"
        <3>1. s = "main" /\ main = step /\ ~Works("main", step)
            BY <1>2, <2>1 DEF Fails
        <3>2. step \in cache.broken /\ step \notin Substituted /\ main # "idle"
            BY <1>2, <3>1 DEF Works, Steps
        <3> QED BY <1>2, <3>1, <3>2 DEF CInv, Recovering, Locks
    <2>2. ASSUME /\ UNCHANGED <<faulty, result, retried, clones, mishaps>> \/ Missing(s)
                 /\ cache'.broken = cache.broken
                 /\ main # "idle"
          PROVE  Recovering'
        BY <1>2, <2>2 DEF Missing, CInv, Recovering
    <2>3. ASSUME NEW step \in Steps, NEW next, Done(s, step, next) PROVE main # "idle"
        BY <1>2, <2>3 DEF Done, Steps
    <2>4. ASSUME NEW step \in Steps, NEW next, Done(s, step, next), cache'.broken = cache.broken
          PROVE  Recovering'
        BY <2>2, <2>3, <2>4 DEF Done, report
    <2>5. CASE InitCache(s) \/ SetOrigin(s) \/ Fetch(s) \/ Verify(s) \/ Deregister(s) \/ Checkout(s)
               \/ Clean(s) \/ SetDate(s) \/ UpdateSubmodules(s) \/ FixPaths(s) \/ ListFiles(s) \/ Format(s)
        <3>1. cache'.broken = cache.broken
            BY <2>5 DEF InitCache, SetOrigin, Fetch, Verify, Deregister, Checkout, Clean, SetDate,
                   UpdateSubmodules, FixPaths, ListFiles, Format, CInv, TypeOK, CacheType
        <3>2. \E step \in Steps : \E next : Done(s, step, next)
            BY <2>5 DEF InitCache, SetOrigin, Fetch, Verify, Deregister, Checkout, Clean, SetDate,
                   UpdateSubmodules, FixPaths, ListFiles, Format, Steps
        <3> QED BY <2>4, <3>1, <3>2
    <2>6. CASE FetchSpecial(s) \/ Missing(s)
        BY <1>2, <2>2, <2>6 DEF FetchSpecial, Missing, report, CInv, TypeOK, CacheType
    <2>7. CASE Archive(s)
        BY <1>2, <2>7 DEF Archive, CInv, Recovering
    <2>8. CASE PlainFails(s)
        <3>1. PICK step \in Plain : Fails(s, step)
            BY <2>8 DEF PlainFails
        <3>2. s = "main" /\ ~retried /\ clones = 0 /\ mishaps > 0 /\ result # "failed"
            BY <2>1, <3>1 DEF Plain
        <3>3. /\ cache' = NoCache /\ clones' = 1 /\ retried' = TRUE /\ result' = result
              /\ mishaps' = mishaps
            BY <2>8, <3>1, <3>2 DEF PlainFails, OnError, RemoveCache, Fails
        <3> QED BY <3>2, <3>3 DEF Recovering, NoCache
    <2>9. ~DateFails(s) /\ ~PathsFail(s) /\ ~AttrFails(s)
        BY <2>1 DEF DateFails, PathsFail, AttrFails, Substituted, Steps
    <2> QED BY <1>7, <2>5, <2>6, <2>7, <2>8, <2>9 DEF Run
<1> QED BY <1>2, <1>4, <1>5, <1>6, <1>7 DEF Next

(* A run none of whose commands fails by itself succeeds or reports the     *)
(* changeset missing; it throws the cache away at most once, and only after *)
(* an interrupt or a user in the cache.                                     *)
THEOREM RunsRecover == Spec => []Recovers
<1>1. Init => CInv
    BY TypeInit, GitAssumption DEF Init, CInv, Blamed, Locks, Recovering, NoCache
<1>2. CInv => Recovers
    BY GitAssumption DEF CInv, Recovering, Recovers
<1> QED BY <1>1, <1>2, RecoveringStep, PTL DEF Spec
=============================================================================
