------------------------ MODULE ToolchainWrapper_proofs ------------------------
(* Proofs about the toolchain wrapper, for any build of it and any arguments. *)
(* Its loops are recursive functions of a finite domain: that each is what    *)
(* its equation says, and what it computes, rests on FiniteRecursion.         *)
EXTENDS ToolchainWrapper, FiniteRecursion, SequenceTheorems, TLAPS

--------------------------------------------------------------------------------
(* The loops of the check of search paths end: Scan is what its equation says.*)
Cells(args) == (1 .. Len(args) + 1) \X (1 .. Len(unsafe_opts) + 1)

ScanAt(args, from, i, k) ==
    IF i > Len(args) THEN FALSE
    ELSE IF k > Len(unsafe_opts) THEN from[<<i + 1, 1>>]
    ELSE IF args[i].opt # unsafe_opts[k] THEN from[<<i, k + 1>>]
    ELSE IF args[i].text # "" THEN args[i].text \in unsafe_paths \/ from[<<i, k + 1>>]
    ELSE i < Len(args) /\ (IsUnsafe(args[i + 1]) \/ from[<<i + 1, k + 1>>])

LEMMA FiveOptions == Len(unsafe_opts) = 5
BY DEF unsafe_opts

(* The rank of a comparison: those still to be made.                          *)
Left(n, i, k) == (n + 1 - i) * 6 + (6 - k)

LEMMA LeftFalls ==
    ASSUME NEW n \in Nat, NEW i \in 1 .. n + 1, NEW k \in 1 .. 6
    PROVE  /\ Left(n, i, k) \in 0 .. n * 6 + 5
           /\ i <= n => Left(n, i + 1, 1) < Left(n, i, k)
           /\ k <= 5 => Left(n, i, k + 1) < Left(n, i, k)
           /\ (i <= n /\ k <= 5) => Left(n, i + 1, k + 1) < Left(n, i, k)
<1>1. PICK d \in 0 .. n : d = n + 1 - i
  OBVIOUS
<1>2. n + 1 - (i + 1) = d - 1
  BY <1>1
<1>3. d * 6 <= n * 6 /\ d * 6 >= 0 /\ (d - 1) * 6 = d * 6 - 6
  BY <1>1
<1> QED BY <1>1, <1>2, <1>3 DEF Left

LEMMA ScanEquation ==
    ASSUME NEW args \in Seq(Argument)
    PROVE  \A i \in 1 .. Len(args) + 1, k \in 1 .. 6 :
              Scan(args)[<<i, k>>] = ScanAt(args, Scan(args), i, k)
<1> DEFINE n == Len(args)
           D == Cells(args)
           F == [D -> BOOLEAN]
           rank == [c \in D |-> Left(n, c[1], c[2])]
           Body == [c \in D |-> [f \in F |-> ScanAt(args, f, c[1], c[2])]]
<1>1. n \in Nat /\ n * 6 + 5 \in Nat
  OBVIOUS
<1>2. D = (1 .. n + 1) \X (1 .. 6)
  BY FiveOptions DEF Cells
<1>3. \A i \in 1 .. n + 1, k \in 1 .. 6 : <<i, k>> \in D /\ rank[<<i, k>>] = Left(n, i, k)
  BY <1>2
<1>4. ASSUME NEW c \in D
      PROVE  \E i \in 1 .. n + 1, k \in 1 .. 6 : c = <<i, k>> /\ c[1] = i /\ c[2] = k
  BY <1>2
<1>5. rank \in [D -> 0 .. n * 6 + 5]
  <2>1. ASSUME NEW c \in D
        PROVE  Left(n, c[1], c[2]) \in 0 .. n * 6 + 5
    <3>1. PICK i \in 1 .. n + 1, k \in 1 .. 6 : c[1] = i /\ c[2] = k
      BY <1>4
    <3> HIDE DEF n
    <3> QED BY <1>1, <3>1, LeftFalls
  <2> QED BY <2>1
<1>6. ASSUME NEW i \in 1 .. n + 1, NEW k \in 1 .. 6
      PROVE  /\ i <= n => <<i + 1, 1>> \in D /\ rank[<<i + 1, 1>>] < rank[<<i, k>>]
             /\ k <= 5 => <<i, k + 1>> \in D /\ rank[<<i, k + 1>>] < rank[<<i, k>>]
             /\ (i <= n /\ k <= 5) =>
                   <<i + 1, k + 1>> \in D /\ rank[<<i + 1, k + 1>>] < rank[<<i, k>>]
  <2>1. /\ i <= n => i + 1 \in 1 .. n + 1
        /\ k <= 5 => k + 1 \in 1 .. 6
        /\ 1 \in 1 .. 6
    BY <1>1
  <2> HIDE DEF n, D, rank
  <2> QED BY <1>1, <1>3, <2>1, LeftFalls
<1>7. ASSUME NEW c \in D, NEW f \in F
      PROVE  ScanAt(args, f, c[1], c[2]) \in BOOLEAN
  <2>1. PICK i \in 1 .. n + 1, k \in 1 .. 6 : c = <<i, k>> /\ c[1] = i /\ c[2] = k
    BY <1>4
  <2>2. \A d \in D : f[d] \in BOOLEAN
    OBVIOUS
  <2> HIDE DEF D, F, rank
  <2>3. /\ i <= n => f[<<i + 1, 1>>] \in BOOLEAN
        /\ k <= 5 => f[<<i, k + 1>>] \in BOOLEAN
    BY <1>6, <2>2
  <2>4. CASE i > n
    BY <2>1, <2>4, Zenon DEF ScanAt
  <2>5. CASE i <= n /\ k > 5
    <3>1. ~ (i > Len(args)) /\ k > Len(unsafe_opts)
      BY <1>1, <2>5, FiveOptions
    <3> QED BY <2>1, <2>3, <2>5, <3>1, Zenon DEF ScanAt
  <2>6. CASE i <= n /\ k <= 5
    <3>1. ~ (i > Len(args)) /\ ~ (k > Len(unsafe_opts))
      BY <1>1, <2>6, FiveOptions
    <3> QED BY <2>1, <2>3, <2>6, <3>1, Zenon DEF ScanAt
  <2> QED BY <1>1, <2>4, <2>5, <2>6
<1>8. Body \in [D -> [F -> BOOLEAN]]
  BY <1>7
<1>9. ASSUME NEW c \in D, NEW f \in F, NEW g \in F,
             \A e \in D : rank[e] < rank[c] => f[e] = g[e]
      PROVE  ScanAt(args, f, c[1], c[2]) = ScanAt(args, g, c[1], c[2])
  <2>1. PICK i \in 1 .. n + 1, k \in 1 .. 6 : c = <<i, k>> /\ c[1] = i /\ c[2] = k
    BY <1>4
  <2> HIDE DEF D, F, rank
  <2>2. /\ i <= n => f[<<i + 1, 1>>] = g[<<i + 1, 1>>]
        /\ k <= 5 => f[<<i, k + 1>>] = g[<<i, k + 1>>]
        /\ (i <= n /\ k <= 5) => f[<<i + 1, k + 1>>] = g[<<i + 1, k + 1>>]
    BY <1>6, <1>9, <2>1
  <2>3. CASE i > n
    BY <2>1, <2>3, Zenon DEF ScanAt
  <2>4. CASE i <= n /\ k > 5
    <3>1. ~ (i > Len(args)) /\ k > Len(unsafe_opts)
      BY <1>1, <2>4, FiveOptions
    <3> QED BY <2>1, <2>2, <2>4, <3>1, Zenon DEF ScanAt
  <2>5. CASE i <= n /\ k <= 5
    <3>1. ~ (i > Len(args)) /\ ~ (k > Len(unsafe_opts))
      BY <1>1, <2>5, FiveOptions
    <3> QED BY <2>1, <2>2, <2>5, <3>1, Zenon DEF ScanAt
  <2> QED BY <1>1, <2>3, <2>4, <2>5
<1>10. \A c \in D : \A f, g \in F :
         (\A e \in D : rank[e] < rank[c] => f[e] = g[e]) => Body[c][f] = Body[c][g]
  BY <1>9
<1>11. PICK h : Solves(h, D, BOOLEAN, Body)
  <2>1. BOOLEAN # {}
    OBVIOUS
  <2>2. Ranked(D, BOOLEAN, n * 6 + 5, rank, Body)
    <3> HIDE DEF D, rank, Body, n
    <3> QED BY <1>1, <1>5, <1>8, <1>10, <2>1 DEF Ranked
  <2> HIDE DEF D, rank, Body, n
  <2> QED BY <2>2, Recursion
<1>12. h = [c \in D |-> ScanAt(args, h, c[1], c[2])]
  BY <1>11 DEF Solves
<1>13. Scan(args) = [c \in D |-> ScanAt(args, Scan(args), c[1], c[2])]
  BY <1>12 DEF Scan, ScanAt, Cells
<1> HIDE DEF D
<1> QED BY <1>3, <1>13

(* The comparison of argument i with option k, and all that follow it, do not *)
(* refuse.                                                                    *)
Clear(args, i, k) == ~ Scan(args)[<<i, k>>]

LEMMA Compared ==
    ASSUME NEW args \in Seq(Argument), NEW i \in 1 .. Len(args), NEW k \in 1 .. 5,
           Clear(args, i, k)
    PROVE  /\ args[i].opt # unsafe_opts[k] => Clear(args, i, k + 1)
           /\ (args[i].opt = unsafe_opts[k] /\ args[i].text # "") =>
                 args[i].text \notin unsafe_paths /\ Clear(args, i, k + 1)
           /\ (args[i].opt = unsafe_opts[k] /\ args[i].text = "" /\ i < Len(args)) =>
                 ~ IsUnsafe(args[i + 1]) /\ Clear(args, i + 1, k + 1)
<1>1. i \in 1 .. Len(args) + 1 /\ k \in 1 .. 6
  OBVIOUS
<1>2. ~ ScanAt(args, Scan(args), i, k)
  BY <1>1, ScanEquation DEF Clear
<1>3. ~ (i > Len(args)) /\ ~ (k > Len(unsafe_opts))
  BY FiveOptions
<1> QED BY <1>2, <1>3, Zenon DEF ScanAt, Clear

LEMMA RowEnds ==
    ASSUME NEW args \in Seq(Argument), NEW i \in 1 .. Len(args), Clear(args, i, 6)
    PROVE  Clear(args, i + 1, 1)
<1>1. i \in 1 .. Len(args) + 1 /\ 6 \in 1 .. 6
  OBVIOUS
<1>2. ~ ScanAt(args, Scan(args), i, 6)
  BY <1>1, ScanEquation DEF Clear
<1>3. ~ (i > Len(args)) /\ 6 > Len(unsafe_opts)
  BY FiveOptions
<1> QED BY <1>2, <1>3, Zenon DEF ScanAt, Clear

LEMMA ListEnds ==
    ASSUME NEW args \in Seq(Argument), NEW k \in 1 .. 6
    PROVE  Clear(args, Len(args) + 1, k)
<1>1. Len(args) + 1 \in 1 .. Len(args) + 1 /\ Len(args) + 1 > Len(args)
  OBVIOUS
<1>2. ~ ScanAt(args, Scan(args), Len(args) + 1, k)
  BY <1>1, Zenon DEF ScanAt
<1> QED BY <1>1, <1>2, ScanEquation DEF Clear

LEMMA Steps ==
    ASSUME NEW k \in 1 .. 6, NEW to \in k .. 6
    PROVE  /\ to - k \in Nat /\ 0 \in 0 .. to - k /\ k + 0 = k
           /\ \A d \in 0 .. (to - k) - 1 :
                 /\ k + d \in 1 .. 5 /\ k <= k + d /\ k + d < to
                 /\ d + 1 \in 0 .. to - k /\ k + (d + 1) = (k + d) + 1
           /\ \A m \in 1 .. 6 :
                 (k <= m /\ m <= to) => m - k \in 0 .. to - k /\ k + (m - k) = m
OBVIOUS

(* The inner loop goes on over an option that does not match, and over one    *)
(* whose path is joined to it.                                                *)
LEMMA Walk ==
    ASSUME NEW args \in Seq(Argument), NEW i \in 1 .. Len(args), NEW k \in 1 .. 6,
           Clear(args, i, k), NEW to \in k .. 6,
           \A m \in 1 .. 5 : (k <= m /\ m < to) =>
              args[i].opt # unsafe_opts[m] \/ args[i].text # ""
    PROVE  \A m \in 1 .. 6 : (k <= m /\ m <= to) => Clear(args, i, m)
<1> DEFINE S == {m \in 0 .. to - k : Clear(args, i, k + m)}
<1>1. 0 \in S
  <2>1. 0 \in 0 .. to - k /\ k + 0 = k
    BY Steps
  <2> QED BY <2>1, Zenon
<1>2. ASSUME NEW d \in 0 .. (to - k) - 1, d \in S
      PROVE  d + 1 \in S
  <2>1. /\ k + d \in 1 .. 5 /\ k <= k + d /\ k + d < to /\ d + 1 \in 0 .. to - k
        /\ k + (d + 1) = (k + d) + 1
    BY Steps
  <2>2. PICK m \in 1 .. 5 : m = k + d
    BY <2>1
  <2>3. Clear(args, i, m)
    BY <1>2, <2>2
  <2>4. args[i].opt # unsafe_opts[m] \/ args[i].text # ""
    BY <2>1, <2>2
  <2>5. Clear(args, i, m + 1)
    BY <2>3, <2>4, Compared
  <2> QED BY <2>1, <2>2, <2>5
<1>3. S \in SUBSET (0 .. to - k)
  OBVIOUS
<1>4. S = 0 .. to - k
  <2> HIDE DEF S
  <2> QED BY <1>1, <1>2, <1>3, UpTo, Steps
<1> SUFFICES ASSUME NEW m \in 1 .. 6, k <= m, m <= to PROVE Clear(args, i, m)
  OBVIOUS
<1>5. m - k \in 0 .. to - k /\ k + (m - k) = m
  BY Steps
<1>6. Clear(args, i, k + (m - k))
  BY <1>4, <1>5
<1> QED BY <1>5, <1>6

LEMMA Options ==
    /\ \A k, m \in 1 .. 5 : k # m => unsafe_opts[k] # unsafe_opts[m]
    /\ \A k \in 1 .. 5 : unsafe_opts[k] # ""
    /\ DOMAIN unsafe_opts = 1 .. 5
<1>1. /\ unsafe_opts[1] = "-I" /\ unsafe_opts[2] = "-idirafter" /\ unsafe_opts[3] = "-iquote"
      /\ unsafe_opts[4] = "-isystem" /\ unsafe_opts[5] = "-L"
  BY DEF unsafe_opts
<1>2. \A k \in 1 .. 5 : k = 1 \/ k = 2 \/ k = 3 \/ k = 4 \/ k = 5
  OBVIOUS
<1>3. DOMAIN unsafe_opts = 1 .. 5
  BY DEF unsafe_opts
<1>4. \A k, m \in 1 .. 5 : k # m => unsafe_opts[k] # unsafe_opts[m]
  <2> SUFFICES ASSUME NEW k \in 1 .. 5, NEW m \in 1 .. 5, k # m
               PROVE  unsafe_opts[k] # unsafe_opts[m]
    OBVIOUS
  <2>1. CASE k = 1
    BY <1>1, <1>2, <2>1
  <2>2. CASE k = 2
    BY <1>1, <1>2, <2>2
  <2>3. CASE k = 3
    BY <1>1, <1>2, <2>3
  <2>4. CASE k = 4
    BY <1>1, <1>2, <2>4
  <2>5. CASE k = 5
    BY <1>1, <1>2, <2>5
  <2> QED BY <1>2, <2>1, <2>2, <2>3, <2>4, <2>5
<1>5. \A k \in 1 .. 5 : unsafe_opts[k] # ""
  <2>1. /\ unsafe_opts[1] # "" /\ unsafe_opts[2] # "" /\ unsafe_opts[3] # ""
        /\ unsafe_opts[4] # "" /\ unsafe_opts[5] # ""
    BY <1>1
  <2> QED BY <1>2, <2>1, Zenon
<1> QED BY <1>3, <1>4, <1>5

LEMMA WhichOption ==
    ASSUME NEW a, TakesPath(a)
    PROVE  \E o \in 1 .. 5 : a.opt = unsafe_opts[o]
BY Options DEF TakesPath

(* Arguments that pass the check, and have no option where a path is          *)
(* expected, have no search path of the build machine, joined or separate.    *)
PathIsSafe(args, i) ==
    TakesPath(args[i]) =>
        /\ args[i].text # "" => args[i].text \notin unsafe_paths
        /\ (args[i].text = "" /\ i < Len(args)) => ~ IsUnsafe(args[i + 1])

(* The inner loop reaches argument i at option k; after a separate path, k    *)
(* is not the first one and that path has no option.                          *)
Reached(args, i, k) ==
    Clear(args, i, k) /\ (k = 1 \/ i > Len(args) \/ args[i].opt = "")

LEMMA InList ==
    ASSUME NEW args \in Seq(Argument), NEW i \in 1 .. Len(args)
    PROVE  ~ (i > Len(args))
OBVIOUS

LEMMA AcceptedStep ==
    ASSUME NEW args \in Seq(Argument), ~ OptionAsPath(args),
           NEW i \in 1 .. Len(args), NEW k \in 1 .. 6, Reached(args, i, k)
    PROVE  PathIsSafe(args, i) /\ \E w \in 1 .. 6 : Reached(args, i + 1, w)
<1>1. CASE args[i].text # "" \/ ~ TakesPath(args[i])
  <2>1. 6 \in k .. 6 /\ 1 \in 1 .. 6 /\ 6 \in 1 .. 6 /\ k <= 6
    OBVIOUS
  <2>2. \A m \in 1 .. 5 : args[i].opt # unsafe_opts[m] \/ args[i].text # ""
    BY <1>1, Options, Zenon DEF TakesPath
  <2>3. \A m \in 1 .. 6 : (k <= m /\ m <= 6) => Clear(args, i, m)
    BY <2>1, <2>2, Walk DEF Reached
  <2>4. Clear(args, i, 6)
    BY <2>1, <2>3
  <2>5. Reached(args, i + 1, 1)
    BY <2>4, RowEnds DEF Reached
  <2>6. ASSUME TakesPath(args[i])
        PROVE  args[i].text # "" /\ args[i].text \notin unsafe_paths
    <3>1. PICK o \in 1 .. 5 : args[i].opt = unsafe_opts[o]
      BY <2>6, WhichOption
    <3>2. args[i].opt # ""
      BY <3>1, Options
    <3>3. k = 1
      BY <3>2, InList, Zenon DEF Reached
    <3>4. o \in 1 .. 6 /\ 1 <= o /\ o <= 6
      OBVIOUS
    <3>5. Clear(args, i, o)
      BY <2>3, <3>3, <3>4
    <3> QED BY <1>1, <2>6, <3>1, <3>5, Compared
  <2> QED BY <2>1, <2>5, <2>6, Zenon DEF PathIsSafe
<1>2. CASE args[i].text = "" /\ TakesPath(args[i])
  <2>1. PICK o \in 1 .. 5 : args[i].opt = unsafe_opts[o]
    BY <1>2, WhichOption
  <2>2. args[i].opt # ""
    BY <2>1, Options
  <2>3. k = 1
    BY <2>2, InList, Zenon DEF Reached
  <2>4. /\ \A m \in 1 .. 5 : m < o => m # o
        /\ o \in 1 .. 6 /\ 1 <= o /\ o <= o /\ o \in 1 .. 6 /\ o + 1 \in 1 .. 6
    OBVIOUS
  <2>5. \A m \in 1 .. 5 : (1 <= m /\ m < o) => args[i].opt # unsafe_opts[m] \/ args[i].text # ""
    BY <2>1, <2>4, Options
  <2>6. Clear(args, i, o)
    <3>1. Clear(args, i, 1) /\ 1 \in 1 .. 6 /\ o \in 1 .. 6
      BY <2>3, <2>4 DEF Reached
    <3> QED BY <2>4, <2>5, <3>1, Walk
  <2>7. CASE i < Len(args)
    <3>1. ~ IsUnsafe(args[i + 1]) /\ Clear(args, i + 1, o + 1)
      BY <1>2, <2>1, <2>6, <2>7, Compared
    <3>2. i \in 1 .. Len(args) - 1
      BY <2>7
    <3>3. args[i + 1].opt = ""
      BY <1>2, <3>2, Zenon DEF OptionAsPath
    <3>4. Reached(args, i + 1, o + 1)
      BY <3>1, <3>3 DEF Reached
    <3> QED BY <1>2, <2>4, <3>1, <3>4, Zenon DEF PathIsSafe
  <2>8. CASE ~ (i < Len(args))
    <3>1. i + 1 = Len(args) + 1 /\ 1 \in 1 .. 6
      BY <2>8
    <3>2. Reached(args, i + 1, 1)
      BY <3>1, ListEnds DEF Reached
    <3> QED BY <1>2, <2>8, <3>1, <3>2, Zenon DEF PathIsSafe
  <2> QED BY <2>7, <2>8
<1> QED BY <1>1, <1>2

LEMMA Accepted ==
    ASSUME NEW args \in Seq(Argument), ~ Refused(args), ~ OptionAsPath(args)
    PROVE  \A i \in 1 .. Len(args) : PathIsSafe(args, i)
<1> DEFINE n == Len(args)
           P == {i \in 0 .. n : /\ \E k \in 1 .. 6 : Reached(args, i + 1, k)
                                /\ i > 0 => PathIsSafe(args, i)}
<1>1. n \in Nat
  OBVIOUS
<1>2. 0 \in P
  <2>1. Reached(args, 1, 1)
    BY DEF Refused, Reached, Clear
  <2>2. 0 \in 0 .. n /\ 0 + 1 = 1 /\ 1 \in 1 .. 6 /\ ~ (0 > 0)
    BY <1>1
  <2> HIDE DEF n
  <2> QED BY <2>1, <2>2
<1>3. ASSUME NEW j \in 0 .. n - 1, j \in P
      PROVE  j + 1 \in P
  <2>1. j + 1 \in 1 .. Len(args) /\ j + 1 \in 0 .. n
    BY <1>1
  <2>2. PICK k \in 1 .. 6 : Reached(args, j + 1, k)
    BY <1>3
  <2>3. PathIsSafe(args, j + 1) /\ \E w \in 1 .. 6 : Reached(args, (j + 1) + 1, w)
    BY <2>1, <2>2, AcceptedStep
  <2> HIDE DEF n
  <2> QED BY <2>1, <2>3
<1>4. P = 0 .. n
  <2>1. P \in SUBSET (0 .. n)
    OBVIOUS
  <2> HIDE DEF P, n
  <2> QED BY <1>1, <1>2, <1>3, <2>1, UpTo
<1>5. ASSUME NEW i \in 1 .. n
      PROVE  PathIsSafe(args, i)
  <2>1. i \in 0 .. n /\ i > 0
    OBVIOUS
  <2>2. i \in P
    BY <1>4, <2>1
  <2> QED BY <2>1, <2>2
<1> QED BY <1>5

--------------------------------------------------------------------------------
(* The words the compiler is given: the caller's, the predefined ones and the *)
(* wrapper's own, none of which takes a path.                                 *)
Own ==
    {"-mfloat-abi=", "-mfp", "-march=", "-mcpu=", "-D__TIME__=", "-D__DATE__=",
     "-Wno-builtin-macro-redefined", "-fPIE", "-pie", "-Wl,-z,now", "-Wl,-z,relro"}
Word == Argument \cup {[opt |-> o, text |-> ""] : o \in Own}

LEMMA GivenWords == \A s \in Seq(Argument) : s \in Seq(Word)
<1>1. Argument \subseteq Word
  BY DEF Word
<1> QED BY <1>1

LEMMA OwnTakesNoPath == \A o \in Own : ~ TakesPath([opt |-> o, text |-> ""])
<1>1. /\ unsafe_opts[1] = "-I" /\ unsafe_opts[2] = "-idirafter" /\ unsafe_opts[3] = "-iquote"
      /\ unsafe_opts[4] = "-isystem" /\ unsafe_opts[5] = "-L"
  BY DEF unsafe_opts
<1>2. \A o \in Own : /\ o # "-I" /\ o # "-idirafter" /\ o # "-iquote"
                    /\ o # "-isystem" /\ o # "-L"
  BY DEF Own
<1>3. \A k \in 1 .. 5 : k = 1 \/ k = 2 \/ k = 3 \/ k = 4 \/ k = 5
  OBVIOUS
<1>4. \A o \in Own : \A k \in 1 .. 5 : o # unsafe_opts[k]
  BY <1>1, <1>2, <1>3, Zenon
<1> QED BY <1>4, Options DEF TakesPath

(* The search paths an argument list gives the compiler: the same induction,  *)
(* from the end of the list.                                                  *)
ReadAt(args, from, i) ==
    IF i > Len(args) THEN {}
    ELSE IF ~TakesPath(args[i]) THEN from[i + 1]
    ELSE IF args[i].text # "" THEN {[opt |-> "", text |-> args[i].text]} \cup from[i + 1]
    ELSE (IF i < Len(args) THEN {args[i + 1]} ELSE {}) \cup from[i + 2]

LEMMA ReadEquation ==
    ASSUME NEW args \in Seq(Word)
    PROVE  \A i \in 1 .. Len(args) + 2 :
              PathsFrom(args)[i] = ReadAt(args, PathsFrom(args), i)
<1> DEFINE n == Len(args)
           D == 1 .. n + 2
           W == {args[i] : i \in 1 .. n} \cup {[opt |-> "", text |-> args[i].text] : i \in 1 .. n}
           F == [D -> SUBSET W]
           rank == [i \in D |-> n + 2 - i]
           Body == [i \in D |-> [f \in F |-> ReadAt(args, f, i)]]
<1>1. n \in Nat /\ n + 1 \in Nat
  OBVIOUS
<1>2. /\ \A j \in 1 .. n : args[j] \in W
      /\ \A j \in 1 .. n : [opt |-> "", text |-> args[j].text] \in W
  OBVIOUS
<1>3. \A i \in D : i > n \/ i <= n
  BY <1>1
<1> HIDE DEF W
<1>4. rank \in [D -> 0 .. n + 1]
  BY <1>1
<1>5. ASSUME NEW i \in D, i <= n
      PROVE  i + 1 \in D /\ i + 2 \in D /\ rank[i + 1] < rank[i] /\ rank[i + 2] < rank[i]
  BY <1>1, <1>5
<1>6. ASSUME NEW i \in D, NEW f \in F
      PROVE  ReadAt(args, f, i) \in SUBSET W
  <2>1. CASE i > n
    BY <2>1 DEF ReadAt
  <2>2. CASE i <= n
    <3>1. f[i + 1] \subseteq W /\ f[i + 2] \subseteq W
      BY <1>5, <2>2
    <3>2. i < n => args[i + 1] \in W
      <4>1. i < n => i + 1 \in 1 .. n
        BY <1>1
      <4> QED BY <4>1, <1>2
    <3>3. [opt |-> "", text |-> args[i].text] \in W
      <4>1. i \in 1 .. n
        BY <1>1, <2>2
      <4> QED BY <4>1, <1>2
    <3> QED BY <3>1, <3>2, <3>3 DEF ReadAt
  <2> QED BY <1>3, <2>1, <2>2
<1>7. Body \in [D -> [F -> SUBSET W]]
  BY <1>6
<1>8. ASSUME NEW i \in D, NEW f \in F, NEW g \in F,
             \A e \in D : rank[e] < rank[i] => f[e] = g[e]
      PROVE  ReadAt(args, f, i) = ReadAt(args, g, i)
  <2>1. CASE i > n
    BY <2>1 DEF ReadAt
  <2>2. CASE i <= n
    <3>1. f[i + 1] = g[i + 1] /\ f[i + 2] = g[i + 2]
      BY <1>5, <1>8, <2>2
    <3> HIDE DEF D, F, rank
    <3> QED BY <3>1, Zenon DEF ReadAt
  <2> QED BY <1>3, <2>1, <2>2
<1>9. \A i \in D : \A f, g \in F :
         (\A e \in D : rank[e] < rank[i] => f[e] = g[e]) => Body[i][f] = Body[i][g]
  BY <1>8
<1>10. PICK h : Solves(h, D, SUBSET W, Body)
  <2>1. SUBSET W # {}
    OBVIOUS
  <2>2. Ranked(D, SUBSET W, n + 1, rank, Body)
    <3> HIDE DEF D, rank, Body, n
    <3> QED BY <1>1, <1>4, <1>7, <1>9, <2>1 DEF Ranked
  <2> HIDE DEF D, rank, Body, n
  <2> QED BY <2>2, Recursion
<1>11. h = [i \in D |-> ReadAt(args, h, i)]
  BY <1>10 DEF Solves
<1>12. PathsFrom(args) = [i \in D |-> ReadAt(args, PathsFrom(args), i)]
  BY <1>11 DEF PathsFrom, ReadAt
<1> QED BY <1>12

(* No path that PathIsSafe passes over is one of the build machine's.         *)
LEMMA PathsAreSafe ==
    ASSUME NEW args \in Seq(Word), \A i \in 1 .. Len(args) : PathIsSafe(args, i)
    PROVE  \A p \in Paths(args) : ~ IsUnsafe(p)
<1> DEFINE n == Len(args)
           Safe(i) == \A p \in PathsFrom(args)[i] : ~ IsUnsafe(p)
           P == {m \in 0 .. n + 1 : Safe(n + 2 - m) /\ (m > 0 => Safe(n + 3 - m))}
<1>1. n \in Nat /\ n + 1 \in Nat
  OBVIOUS
<1>2. ASSUME NEW i \in 1 .. n + 2, i > n
      PROVE  Safe(i)
  <2>1. PathsFrom(args)[i] = {}
    BY <1>2, ReadEquation DEF ReadAt
  <2> QED BY <2>1
<1>3. ASSUME NEW i \in 1 .. n, Safe(i + 1), Safe(i + 2)
      PROVE  Safe(i)
  <2>1. i \in 1 .. n + 2 /\ ~ (i > n)
    BY <1>1
  <2>2. PathsFrom(args)[i] = ReadAt(args, PathsFrom(args), i)
    BY <2>1, ReadEquation
  <2>3. PathIsSafe(args, i)
    BY <1>3
  <2>4. CASE ~ TakesPath(args[i])
    BY <1>3, <2>1, <2>2, <2>4 DEF ReadAt
  <2>5. CASE TakesPath(args[i]) /\ args[i].text # ""
    <3>1. ~ IsUnsafe([opt |-> "", text |-> args[i].text])
      BY <2>3, <2>5 DEF PathIsSafe, IsUnsafe
    <3> QED BY <1>3, <2>1, <2>2, <2>5, <3>1 DEF ReadAt
  <2>6. CASE TakesPath(args[i]) /\ args[i].text = ""
    BY <1>3, <2>1, <2>2, <2>3, <2>6 DEF ReadAt, PathIsSafe
  <2> QED BY <2>4, <2>5, <2>6
<1>4. 0 \in P
  <2>1. 0 \in 0 .. n + 1 /\ n + 2 - 0 = n + 2 /\ n + 2 \in 1 .. n + 2 /\ n + 2 > n /\ ~ (0 > 0)
    BY <1>1
  <2>2. Safe(n + 2 - 0)
    BY <1>2, <2>1
  <2> HIDE DEF n, Safe
  <2> QED BY <2>1, <2>2
<1>5. ASSUME NEW m \in 0 .. (n + 1) - 1, m \in P
      PROVE  m + 1 \in P
  <2> DEFINE i == n + 1 - m
  <2>1. /\ i \in 1 .. n + 2 /\ m + 1 \in 0 .. n + 1
        /\ n + 2 - (m + 1) = i /\ n + 3 - (m + 1) = i + 1 /\ n + 2 - m = i + 1
        /\ m > 0 => n + 3 - m = i + 2 /\ i \in 1 .. n
        /\ ~ (m > 0) => i > n
    BY <1>1
  <2> HIDE DEF n, Safe, i
  <2>2. Safe(i + 1) /\ (m > 0 => Safe(i + 2))
    BY <1>5, <2>1
  <2>3. Safe(i)
    BY <1>2, <1>3, <2>1, <2>2
  <2> QED BY <2>1, <2>2, <2>3
<1>6. P = 0 .. n + 1
  <2>1. P \in SUBSET (0 .. n + 1)
    OBVIOUS
  <2> HIDE DEF P, n
  <2> QED BY <1>1, <1>4, <1>5, <2>1, UpTo
<1>7. n + 1 \in P /\ n + 2 - (n + 1) = 1
  <2>1. n + 1 \in 0 .. n + 1 /\ n + 2 - (n + 1) = 1
    BY <1>1
  <2> HIDE DEF P, n
  <2> QED BY <1>6, <2>1
<1>8. Safe(1)
  <2> HIDE DEF Safe, n
  <2> QED BY <1>7
<1> QED BY <1>8 DEF Paths

(* The predefined words that are kept: some of the predefined words, in their *)
(* order, with the compiler in front.                                         *)
KeptAt(b, args, words, i) ==
    IF i = 0 THEN <<>>
    ELSE IF Linking(args) \/ b.predef[i].opt # "-Wl,"
    THEN Append(words[i - 1], b.predef[i]) ELSE words[i - 1]

LEMMA KeptEquation ==
    ASSUME NEW b \in Builds, NEW args
    PROVE  \A i \in 0 .. Len(b.predef) : Kept(b, args)[i] = KeptAt(b, args, Kept(b, args), i)
<1> DEFINE n == Len(b.predef)
           D == 0 .. n
           F == [D -> Seq(Word)]
           rank == [i \in D |-> i]
           Body == [i \in D |-> [f \in F |-> KeptAt(b, args, f, i)]]
<1>1. n \in Nat /\ b.predef \in Seq(Word)
  BY BuildsAssumption, GivenWords
<1>2. rank \in [D -> 0 .. n]
  OBVIOUS
<1>3. ASSUME NEW i \in D, i # 0
      PROVE  i - 1 \in D /\ rank[i - 1] < rank[i] /\ i \in 1 .. n
  BY <1>1, <1>3
<1>4. ASSUME NEW i \in D, NEW f \in F
      PROVE  KeptAt(b, args, f, i) \in Seq(Word)
  <2>1. CASE i = 0
    BY <2>1 DEF KeptAt
  <2>2. CASE i # 0
    <3>0. b.predef[i] \in Word
      <4>1. i \in 1 .. n
        BY <1>3, <2>2
      <4> QED BY <1>1, <4>1, ElementOfSeq DEF n
    <3>1. f[i - 1] \in Seq(Word) /\ b.predef[i] \in Word
      <4>1. i - 1 \in D
        BY <1>3, <2>2
      <4> HIDE DEF D, rank, Body
      <4> QED BY <3>0, <4>1
    <3>2. Append(f[i - 1], b.predef[i]) \in Seq(Word)
      BY <3>1
    <3> QED BY <2>2, <3>1, <3>2 DEF KeptAt
  <2> QED BY <2>1, <2>2
<1>5. Body \in [D -> [F -> Seq(Word)]]
  BY <1>4
<1>6. ASSUME NEW i \in D, NEW f \in F, NEW g \in F,
             \A e \in D : rank[e] < rank[i] => f[e] = g[e]
      PROVE  KeptAt(b, args, f, i) = KeptAt(b, args, g, i)
  <2>1. i # 0 => f[i - 1] = g[i - 1]
    BY <1>3, <1>6
  <2> HIDE DEF D, F, rank
  <2> QED BY <2>1, Zenon DEF KeptAt
<1>7. \A i \in D : \A f, g \in F :
         (\A e \in D : rank[e] < rank[i] => f[e] = g[e]) => Body[i][f] = Body[i][g]
  BY <1>6
<1>8. PICK h : Solves(h, D, Seq(Word), Body)
  <2>1. Seq(Word) # {}
    BY <1>1
  <2>2. Ranked(D, Seq(Word), n, rank, Body)
    <3> HIDE DEF D, rank, Body, n
    <3> QED BY <1>1, <1>2, <1>5, <1>7, <2>1 DEF Ranked
  <2> HIDE DEF D, rank, Body, n
  <2> QED BY <2>2, Recursion
<1>9. h = [i \in D |-> KeptAt(b, args, h, i)]
  BY <1>8 DEF Solves
<1>10. Kept(b, args) = [i \in D |-> KeptAt(b, args, Kept(b, args), i)]
  BY <1>9 DEF Kept, KeptAt
<1> QED BY <1>10

(* What the wrapper puts in front of the caller's arguments: words of which   *)
(* none is a search path, at most n of them, the compiler first.              *)
Plain(w, n) ==
    /\ w \in Seq(Word) /\ Len(w) <= n
    /\ \A j \in 1 .. Len(w) : ~ TakesPath(w[j])

LEMMA PlainAppend ==
    ASSUME NEW w, NEW n \in Nat, Plain(w, n), NEW a \in Word, ~ TakesPath(a)
    PROVE  Plain(Append(w, a), n + 1)
BY DEF Plain

LEMMA PlainConcat ==
    ASSUME NEW v, NEW m \in Nat, Plain(v, m), NEW w, NEW n \in Nat, Plain(w, n)
    PROVE  Plain(v \o w, m + n)
<1>1. v \in Seq(Word) /\ w \in Seq(Word)
  BY DEF Plain
<1>2. v \o w \in Seq(Word) /\ Len(v \o w) = Len(v) + Len(w)
  BY <1>1
<1>3. Len(v) \in Nat /\ Len(w) \in Nat
  BY <1>1
<1>4. ASSUME NEW j \in 1 .. Len(v) + Len(w)
      PROVE  ~ TakesPath((v \o w)[j])
  <2>1. CASE j <= Len(v)
    <3>1. (v \o w)[j] = v[j] /\ j \in 1 .. Len(v)
      BY <1>1, <2>1
    <3> QED BY <3>1 DEF Plain
  <2>2. CASE j > Len(v)
    <3>1. (v \o w)[j] = w[j - Len(v)] /\ j - Len(v) \in 1 .. Len(w)
      BY <1>1, <1>3, <2>2
    <3> QED BY <3>1 DEF Plain
  <2> QED BY <1>3, <2>1, <2>2
<1>5. Len(v) + Len(w) <= m + n
  BY <1>3 DEF Plain
<1> QED BY <1>2, <1>4, <1>5 DEF Plain

Starts(b, w) ==
    /\ Len(w) >= 1 /\ w[1] = b.predef[1]
    /\ b.ccache => Len(w) >= 2 /\ w[2] = b.predef[2]

LEMMA StartsConcat ==
    ASSUME NEW b, NEW v \in Seq(Word), NEW w \in Seq(Word), Starts(b, v)
    PROVE  Starts(b, v \o w)
<1>1. Len(v) \in Nat /\ Len(w) \in Nat /\ Len(v \o w) = Len(v) + Len(w)
  OBVIOUS
<1>2. Len(v) >= 1 => (v \o w)[1] = v[1]
  BY <1>1
<1>3. Len(v) >= 2 => (v \o w)[2] = v[2]
  BY <1>1
<1> QED BY <1>1, <1>2, <1>3 DEF Starts

LEMMA PredefinedShape ==
    ASSUME NEW b \in Builds, NEW args
    PROVE  Plain(Predefined(b, args), Len(b.predef)) /\ Starts(b, Predefined(b, args))
<1> DEFINE n == Len(b.predef)
           K(i) == Kept(b, args)[i]
           Front(i) == /\ i >= 1 => Len(K(i)) >= 1 /\ K(i)[1] = b.predef[1]
                       /\ (i >= 2 /\ b.ccache) => Len(K(i)) >= 2 /\ K(i)[2] = b.predef[2]
           P == {i \in 0 .. n : Plain(K(i), i) /\ Front(i)}
<1>1. /\ n \in Nat /\ b.predef \in Seq(Word)
      /\ n >= IF b.ccache THEN 2 ELSE 1
      /\ b.predef[1].opt = IF b.ccache THEN "ccache" ELSE "gcc"
      /\ b.ccache => b.predef[2].opt = "gcc"
      /\ \A i \in 1 .. n : ~ TakesPath(b.predef[i])
  BY BuildsAssumption, GivenWords
<1>2. 0 \in P
  <2>1. K(0) = <<>>
    <3>1. 0 \in 0 .. n
      BY <1>1
    <3>2. K(0) = KeptAt(b, args, Kept(b, args), 0)
      BY <3>1, KeptEquation
    <3> QED BY <3>2, Zenon DEF KeptAt
  <2>2. Plain(<<>>, 0)
    BY DEF Plain
  <2> QED BY <1>1, <2>1, <2>2
<1>3. ASSUME NEW i \in 0 .. n - 1, i \in P
      PROVE  i + 1 \in P
  <2>1. /\ i + 1 \in 0 .. n /\ i + 1 \in 1 .. n /\ (i + 1) - 1 = i /\ i + 1 # 0 /\ i \in Nat
        /\ i + 1 >= 1 /\ (i >= 1 <=> i + 1 >= 2) /\ (i >= 1 \/ i = 0) /\ (i >= 2 \/ i = 0 \/ i = 1)
    BY <1>1
  <2> DEFINE w == K(i)
             a == b.predef[i + 1]
  <2>2. Plain(w, i) /\ Front(i) /\ a \in Word /\ ~ TakesPath(a)
    BY <1>1, <1>3, <2>1
  <2>3. K(i + 1) = IF Linking(args) \/ a.opt # "-Wl," THEN Append(w, a) ELSE w
    <3>1. K(i + 1) = KeptAt(b, args, Kept(b, args), i + 1)
      BY <2>1, KeptEquation
    <3> QED BY <2>1, <3>1 DEF KeptAt
  <2>4. Plain(Append(w, a), i + 1) /\ Plain(w, i + 1)
    <3>1. Plain(Append(w, a), i + 1)
      <4> HIDE DEF w, a
      <4> QED BY <2>1, <2>2, PlainAppend
    <3>2. Plain(w, i + 1)
      <4> HIDE DEF w, a
      <4> QED BY <2>1, <2>2 DEF Plain
    <3> QED BY <3>1, <3>2
  <2>5. Plain(K(i + 1), i + 1)
    <3> HIDE DEF w, a, K
    <3> QED BY <2>3, <2>4, Zenon
  <2>6. w \in Seq(Word) /\ Len(w) \in Nat /\ Len(w) <= i
    BY <2>2 DEF Plain
  <2>7. /\ Len(Append(w, a)) = Len(w) + 1
        /\ Append(w, a)[Len(w) + 1] = a
        /\ \A j \in 1 .. Len(w) : Append(w, a)[j] = w[j]
    <3> HIDE DEF w, a
    <3> QED BY <2>2, <2>6
  <2>8. /\ i = 0 => a.opt # "-Wl,"
        /\ (i = 1 /\ b.ccache) => a.opt # "-Wl,"
    <3>1. "gcc" # "-Wl," /\ "ccache" # "-Wl,"
      OBVIOUS
    <3>2. b.predef[1].opt # "-Wl," /\ (b.ccache => b.predef[2].opt # "-Wl,")
      BY <1>1, <3>1, Zenon
    <3>3. (i = 0 => i + 1 = 1) /\ (i = 1 => i + 1 = 2)
      OBVIOUS
    <3> QED BY <3>2, <3>3, Zenon
  <2>9. Front(i + 1)
    <3>1. CASE K(i + 1) = w /\ i >= 1 /\ ~ (i = 1 /\ b.ccache)
      BY <2>1, <2>2, <3>1
    <3>2. CASE K(i + 1) = Append(w, a)
      <4>1. CASE i = 0
        BY <2>1, <2>6, <2>7, <3>2, <4>1
      <4>2. CASE i = 1
        BY <2>1, <2>2, <2>6, <2>7, <3>2, <4>2
      <4>3. CASE i >= 2
        BY <2>1, <2>2, <2>6, <2>7, <3>2, <4>3
      <4> QED BY <2>1, <4>1, <4>2, <4>3
    <3> QED BY <2>1, <2>3, <2>8, <3>1, <3>2
  <2> QED BY <2>1, <2>5, <2>9
<1>4. P = 0 .. n
  <2>1. P \in SUBSET (0 .. n)
    OBVIOUS
  <2> HIDE DEF P, n
  <2> QED BY <1>1, <1>2, <1>3, <2>1, UpTo
<1>5. n \in P
  <2>1. n \in 0 .. n
    BY <1>1
  <2> HIDE DEF P, n
  <2> QED BY <1>4, <2>1
<1>6. Plain(K(n), n) /\ Front(n)
  BY <1>5
<1>7. n >= 1 /\ (b.ccache => n >= 2)
  BY <1>1
<1> QED BY <1>6, <1>7 DEF Predefined, Starts

LEMMA PlainNone == Plain(NoOpt, 0)
BY DEF Plain, NoOpt

LEMMA PlainOpt == \A o \in Own : Plain(Opt(o), 1)
<1> SUFFICES ASSUME NEW o \in Own PROVE Plain(Opt(o), 1)
  OBVIOUS
<1> DEFINE a == [opt |-> o, text |-> ""]
<1>1. a \in Word
  BY DEF Word
<1>2. ~ TakesPath(a)
  BY OwnTakesNoPath
<1>3. Opt(o) = <<a>>
  BY DEF Opt
<1> HIDE DEF a
<1>4. <<a>> \in Seq(Word) /\ Len(<<a>>) = 1 /\ <<a>>[1] = a
  BY <1>1
<1>5. \A j \in 1 .. Len(<<a>>) : j = 1
  BY <1>4
<1> QED BY <1>2, <1>3, <1>4, <1>5 DEF Plain

LEMMA PlainMore ==
    ASSUME NEW w, NEW m \in Nat, Plain(w, m), NEW n \in Nat, m <= n
    PROVE  Plain(w, n)
<1>1. Len(w) \in Nat
  BY DEF Plain
<1> QED BY <1>1 DEF Plain

LEMMA OneOrOther ==
    ASSUME NEW b \in Builds, NEW args
    PROVE  \/ Plain(FloatAbi(b, args), 1) /\ Plain(Fp32(b, args), 0)
           \/ Plain(FloatAbi(b, args), 0) /\ Plain(Fp32(b, args), 1)
<1>1. Plain(Opt("-mfloat-abi="), 1) /\ Plain(Opt("-mfp"), 1)
  <2>1. "-mfloat-abi=" \in Own /\ "-mfp" \in Own
    BY DEF Own
  <2> QED BY <2>1, PlainOpt
<1>2. ~ (b.float_abi /\ b.fp32)
  BY BuildsAssumption
<1>3. Plain(NoOpt, 1)
  BY PlainNone, PlainMore
<1>4. /\ FloatAbi(b, args) = NoOpt \/ (b.float_abi /\ FloatAbi(b, args) = Opt("-mfloat-abi="))
      /\ Fp32(b, args) = NoOpt \/ (b.fp32 /\ Fp32(b, args) = Opt("-mfp"))
  BY Zenon DEF FloatAbi, Fp32
<1> QED BY <1>1, <1>2, <1>3, <1>4, PlainNone, Zenon

LEMMA OthersAdded ==
    ASSUME NEW b \in Builds, NEW args, NEW env
    PROVE  /\ Plain(ArchCpu(b, args), 2) /\ Plain(Epoch(b, env), 3)
           /\ Plain(Pie(b, args), 2) /\ Plain(Relro(b, args), 2)
<1>1. \A o \in Own : Plain(Opt(o), 1)
  BY PlainOpt
<1>2. /\ Plain(NoOpt, 0) /\ Plain(NoOpt, 1) /\ Plain(NoOpt, 2) /\ Plain(NoOpt, 3)
  BY PlainNone, PlainMore
<1>3. /\ 0 \in Nat /\ 1 \in Nat /\ 2 \in Nat /\ 1 + 1 = 2 /\ 2 + 1 = 3
      /\ 1 <= 2
  OBVIOUS
<1>4. /\ "-march=" \in Own /\ "-mcpu=" \in Own /\ "-D__TIME__=" \in Own
      /\ "-D__DATE__=" \in Own /\ "-Wno-builtin-macro-redefined" \in Own
      /\ "-fPIE" \in Own /\ "-pie" \in Own /\ "-Wl,-z,now" \in Own /\ "-Wl,-z,relro" \in Own
  BY DEF Own
<1>5. ASSUME NEW v, NEW w, Plain(v, 1), Plain(w, 1)
      PROVE  Plain(v \o w, 2)
  BY <1>3, <1>5, PlainConcat
<1>6. Plain(ArchCpu(b, args), 2)
  BY <1>1, <1>2, <1>4, <1>5, Zenon DEF ArchCpu
<1>7. Plain(Epoch(b, env), 3)
  <2>1. Plain(Opt("-D__TIME__=") \o Opt("-D__DATE__="), 2)
    BY <1>1, <1>4, <1>5
  <2>2. Plain(Opt("-D__TIME__=") \o Opt("-D__DATE__=") \o Opt("-Wno-builtin-macro-redefined"), 3)
    BY <1>1, <1>3, <1>4, <2>1, PlainConcat
  <2> QED BY <1>2, <2>2, Zenon DEF Epoch
<1>8. Plain(Pie(b, args), 2)
  BY <1>1, <1>2, <1>4, <1>5, Zenon DEF Pie
<1>9. Plain(Relro(b, args), 2)
  <2>1. Plain(Opt("-Wl,-z,relro"), 2)
    BY <1>1, <1>3, <1>4, PlainMore
  <2>2. Plain(Opt("-Wl,-z,now") \o Opt("-Wl,-z,relro"), 2)
    BY <1>1, <1>4, <1>5
  <2>3. b.relro = "none" \/ b.relro = "partial" \/ b.relro = "full"
    BY BuildsAssumption
  <2> QED BY <1>2, <2>1, <2>2, <2>3 DEF Relro
<1> QED BY <1>6, <1>7, <1>8, <1>9

(* The command: at most as many words as there is room for, the compiler      *)
(* first, and the caller's arguments at the end.                              *)
Front(b, args, env) ==
    Predefined(b, args) \o FloatAbi(b, args) \o Fp32(b, args) \o ArchCpu(b, args)
        \o Epoch(b, env) \o Pie(b, args) \o Relro(b, args)

LEMMA FrontShape ==
    ASSUME NEW b \in Builds, NEW args, NEW env
    PROVE  /\ Plain(Front(b, args, env), Len(b.predef) + EXCLUSIVE_ARGS)
           /\ Starts(b, Front(b, args, env))
<1> DEFINE n == Len(b.predef)
           f0 == Predefined(b, args)
           f1 == f0 \o FloatAbi(b, args)
           f2 == f1 \o Fp32(b, args)
           f3 == f2 \o ArchCpu(b, args)
           f4 == f3 \o Epoch(b, env)
           f5 == f4 \o Pie(b, args)
           f6 == f5 \o Relro(b, args)
<1>1. n \in Nat
  BY BuildsAssumption
<1>2. /\ 0 \in Nat /\ 1 \in Nat /\ 2 \in Nat /\ 3 \in Nat
      /\ n + 1 \in Nat /\ n + 3 \in Nat /\ n + 6 \in Nat /\ n + 8 \in Nat
      /\ n + 0 = n /\ (n + 1) + 0 = n + 1 /\ (n + 1) + 2 = n + 3 /\ (n + 3) + 3 = n + 6
      /\ (n + 6) + 2 = n + 8 /\ (n + 8) + 2 = n + 10
  BY <1>1
<1>3. Plain(f0, n) /\ Starts(b, f0)
  BY PredefinedShape
<1> HIDE DEF n, f0
<1>4. Plain(f2, n + 1)
  <2>1. CASE Plain(FloatAbi(b, args), 1) /\ Plain(Fp32(b, args), 0)
    <3>1. Plain(f1, n + 1)
      BY <1>1, <1>2, <1>3, <2>1, PlainConcat
    <3> HIDE DEF f1
    <3>2. Plain(f2, (n + 1) + 0)
      BY <1>2, <2>1, <3>1, PlainConcat
    <3> HIDE DEF f2
    <3> QED BY <1>2, <3>2
  <2>2. CASE Plain(FloatAbi(b, args), 0) /\ Plain(Fp32(b, args), 1)
    <3>1. Plain(f1, n + 0)
      BY <1>1, <1>2, <1>3, <2>2, PlainConcat
    <3> HIDE DEF f1
    <3>2. Plain(f1, n)
      BY <1>2, <3>1
    <3> QED BY <1>1, <1>2, <2>2, <3>2, PlainConcat
  <2> QED BY <2>1, <2>2, OneOrOther
<1>5. /\ f0 \in Seq(Word) /\ FloatAbi(b, args) \in Seq(Word) /\ Fp32(b, args) \in Seq(Word)
  BY <1>3, OneOrOther DEF Plain
<1>6. Starts(b, f2) /\ f2 \in Seq(Word)
  <2>1. Starts(b, f1) /\ f1 \in Seq(Word)
    BY <1>3, <1>5, StartsConcat
  <2> HIDE DEF f1
  <2> QED BY <1>5, <2>1, StartsConcat
<1> HIDE DEF f2
<1>7. /\ Plain(ArchCpu(b, args), 2) /\ Plain(Epoch(b, env), 3)
      /\ Plain(Pie(b, args), 2) /\ Plain(Relro(b, args), 2)
  BY OthersAdded
<1>8. /\ ArchCpu(b, args) \in Seq(Word) /\ Epoch(b, env) \in Seq(Word)
      /\ Pie(b, args) \in Seq(Word) /\ Relro(b, args) \in Seq(Word)
  BY <1>7 DEF Plain
<1>9. Plain(f3, n + 3) /\ Starts(b, f3) /\ f3 \in Seq(Word)
  <2>1. Plain(f3, (n + 1) + 2)
    BY <1>2, <1>4, <1>7, PlainConcat
  <2>2. Starts(b, f3) /\ f3 \in Seq(Word)
    BY <1>6, <1>8, StartsConcat
  <2> QED BY <1>2, <2>1, <2>2
<1> HIDE DEF f3
<1>10. Plain(f4, n + 6) /\ Starts(b, f4) /\ f4 \in Seq(Word)
  <2>1. Plain(f4, (n + 3) + 3)
    BY <1>2, <1>7, <1>9, PlainConcat
  <2>2. Starts(b, f4) /\ f4 \in Seq(Word)
    BY <1>8, <1>9, StartsConcat
  <2> QED BY <1>2, <2>1, <2>2
<1> HIDE DEF f4
<1>11. Plain(f5, n + 8) /\ Starts(b, f5) /\ f5 \in Seq(Word)
  <2>1. Plain(f5, (n + 6) + 2)
    BY <1>2, <1>7, <1>10, PlainConcat
  <2>2. Starts(b, f5) /\ f5 \in Seq(Word)
    BY <1>8, <1>10, StartsConcat
  <2> QED BY <1>2, <2>1, <2>2
<1> HIDE DEF f5
<1>12. Plain(f6, n + 10) /\ Starts(b, f6)
  <2>1. Plain(f6, (n + 8) + 2)
    BY <1>2, <1>7, <1>11, PlainConcat
  <2>2. Starts(b, f6)
    BY <1>8, <1>11, StartsConcat
  <2> QED BY <1>2, <2>1, <2>2
<1> QED BY <1>12 DEF Front, n, f0, f1, f2, f3, f4, f5, f6, EXCLUSIVE_ARGS

--------------------------------------------------------------------------------
(* What may be executed: at most the words there is room for, the compiler    *)
(* first, then the caller's arguments.                                        *)
Command(b, args, exec) ==
    \E w : /\ Plain(w, Len(b.predef) + EXCLUSIVE_ARGS)
           /\ Len(w) >= 1 /\ w[1].opt \in {"ccache", "gcc"}
           /\ exec = w \o args

(* No search path comes with the words in front, and they end before the      *)
(* caller's arguments, of which no path is missing.                           *)
LEMMA CommandPaths ==
    ASSUME NEW args \in Seq(Argument), ~ Refused(args), ~ OptionAsPath(args),
           NEW n, NEW w, Plain(w, n)
    PROVE  \A p \in Paths(w \o args) : ~ IsUnsafe(p)
<1> DEFINE e == w \o args
<1>1. w \in Seq(Word) /\ args \in Seq(Word)
  BY GivenWords DEF Plain
<1>2. e \in Seq(Word) /\ Len(e) = Len(w) + Len(args) /\ Len(w) \in Nat /\ Len(args) \in Nat
  BY <1>1
<1>3. ASSUME NEW i \in 1 .. Len(e)
      PROVE  PathIsSafe(e, i)
  <2>1. CASE i <= Len(w)
    <3>1. e[i] = w[i] /\ i \in 1 .. Len(w)
      BY <1>1, <2>1
    <3> HIDE DEF e
    <3> QED BY <3>1 DEF Plain, PathIsSafe
  <2>2. CASE i > Len(w)
    <3> DEFINE j == i - Len(w)
    <3>1. j \in 1 .. Len(args) /\ (i < Len(e) => j < Len(args)) /\ j + 1 = (i + 1) - Len(w)
      BY <1>2, <2>2
    <3>2. e[i] = args[j]
      BY <1>1, <2>2
    <3>3. i < Len(e) => e[i + 1] = args[j + 1]
      <4>1. i < Len(e) => i + 1 \in 1 .. Len(w) + Len(args) /\ i + 1 > Len(w)
        BY <1>2, <2>2
      <4> HIDE DEF j
      <4> QED BY <1>1, <3>1, <4>1, ConcatProperties
    <3>4. PathIsSafe(args, j)
      BY <3>1, Accepted
    <3> HIDE DEF e, j
    <3> QED BY <3>1, <3>2, <3>3, <3>4, Zenon DEF PathIsSafe
  <2> QED BY <1>2, <2>1, <2>2
<1> HIDE DEF e
<1>4. \A p \in Paths(e) : ~ IsUnsafe(p)
  BY <1>2, <1>3, PathsAreSafe
<1> QED BY <1>4 DEF e

(* The command that was built, and the one without its first word.            *)
LEMMA BuiltIsCommand ==
    ASSUME NEW b \in Builds, NEW args \in Seq(Argument), NEW env
    PROVE  /\ Built(b, args, env) \in Seq(Word)
           /\ Command(b, args, Built(b, args, env))
           /\ b.ccache => Command(b, args, Tail(Built(b, args, env)))
<1> DEFINE w == Front(b, args, env)
           n == Len(b.predef) + EXCLUSIVE_ARGS
<1>1. Built(b, args, env) = w \o args
  BY DEF Built, Front
<1>2. Plain(w, n) /\ Starts(b, w)
  BY FrontShape
<1>3. w \in Seq(Word) /\ args \in Seq(Word) /\ Len(w) >= 1 /\ Len(w) \in Nat
  BY <1>2, GivenWords DEF Plain, Starts
<1>4. n \in Nat
  BY BuildsAssumption DEF EXCLUSIVE_ARGS
<1>5. /\ b.predef[1].opt \in {"ccache", "gcc"}
      /\ b.ccache => b.predef[2].opt \in {"ccache", "gcc"}
  BY BuildsAssumption
<1>6. w[1].opt \in {"ccache", "gcc"}
  BY <1>2, <1>5 DEF Starts
<1> HIDE DEF w, n
<1>7. Command(b, args, w \o args)
  BY <1>2, <1>3, <1>6 DEF Command, n
<1>8. ASSUME b.ccache
      PROVE  Command(b, args, Tail(w \o args))
  <2>1. Len(w) >= 2 /\ w[2] = b.predef[2]
    BY <1>2, <1>8 DEF Starts
  <2> DEFINE t == Tail(w)
  <2>2. /\ t \in Seq(Word) /\ Len(t) = Len(w) - 1
        /\ \A j \in 1 .. Len(t) : t[j] = w[j + 1] /\ j + 1 \in 1 .. Len(w)
    BY <1>3, <2>1
  <2>3. 1 \in 1 .. Len(t) /\ 1 + 1 = 2 /\ Len(t) >= 1
    BY <1>3, <2>1, <2>2
  <2>4. t[1].opt \in {"ccache", "gcc"}
    BY <1>5, <1>8, <2>1, <2>2, <2>3
  <2>5. Plain(t, n)
    <3>1. Len(t) <= n
      BY <1>2, <1>3, <1>4, <2>2 DEF Plain
    <3>2. \A j \in 1 .. Len(t) : ~ TakesPath(t[j])
      BY <1>2, <2>2 DEF Plain
    <3> HIDE DEF t
    <3> QED BY <2>2, <3>1, <3>2 DEF Plain
  <2>6. Tail(w \o args) = t \o args
    BY <1>3, <2>1
  <2> HIDE DEF t
  <2> QED BY <2>3, <2>4, <2>5, <2>6 DEF Command, n
<1>9. w \o args \in Seq(Word)
  BY <1>3
<1> QED BY <1>1, <1>7, <1>8, <1>9

LEMMA CommandIsSafe ==
    ASSUME NEW b \in Builds, NEW args \in Seq(Argument), ~ Refused(args),
           NEW exec, Command(b, args, exec)
    PROVE  /\ Len(exec) + 1 <= Capacity(b, args)
           /\ LET k == Len(exec) - Len(args)
              IN  k >= 0 /\ SubSeq(exec, k + 1, Len(exec)) = args
           /\ exec[1].opt \in {"ccache", "gcc"}
           /\ OptionAsPath(args) \/ \A p \in Paths(exec) : ~ IsUnsafe(p)
<1>1. PICK w : /\ Plain(w, Len(b.predef) + EXCLUSIVE_ARGS)
               /\ Len(w) >= 1 /\ w[1].opt \in {"ccache", "gcc"}
               /\ exec = w \o args
  BY DEF Command
<1>2. /\ w \in Seq(Word) /\ args \in Seq(Word) /\ Len(w) <= Len(b.predef) + EXCLUSIVE_ARGS
      /\ Len(w) \in Nat /\ Len(args) \in Nat /\ Len(b.predef) \in Nat
  BY <1>1, GivenWords, BuildsAssumption DEF Plain
<1>3. Len(exec) = Len(w) + Len(args) /\ exec \in Seq(Word)
  BY <1>1, <1>2
<1>4. Len(exec) + 1 <= Capacity(b, args)
  <2>1. EXCLUSIVE_ARGS \in Nat
    BY DEF EXCLUSIVE_ARGS
  <2>2. \A l, a, n, x \in Nat : l <= n + x => (l + a) + 1 <= n + (a + 1) + x
    OBVIOUS
  <2>3. (Len(w) + Len(args)) + 1 <= Len(b.predef) + (Len(args) + 1) + EXCLUSIVE_ARGS
    BY <1>2, <2>1, <2>2
  <2> QED BY <1>3, <2>3, Zenon DEF Capacity
<1>5. Len(exec) - Len(args) = Len(w)
  BY <1>2, <1>3
<1>6. SubSeq(exec, Len(w) + 1, Len(exec)) = args
  BY <1>1, <1>2, <1>3
<1>7. exec[1] = w[1]
  BY <1>1, <1>2
<1>8. OptionAsPath(args) \/ \A p \in Paths(exec) : ~ IsUnsafe(p)
  BY <1>1, CommandPaths
<1>9. Len(w) >= 0
  BY <1>2
<1> QED BY <1>1, <1>4, <1>5, <1>6, <1>7, <1>8, <1>9, Zenon

--------------------------------------------------------------------------------
Phases == {"called", "located", "checked", "built", "executed", "failed"}
Wrappers ==
    [phase : Phases, build : Builds, args : ArgLists, env : {"unset", "valid", "invalid"},
     exec : Seq(Word), code : 0 .. 3]

(* Past the check, the arguments have passed it; what was built is what       *)
(* Built says, and what is executed is that command or its tail.              *)
WrapperInv ==
    /\ wrapper \in Wrappers
    /\ wrapper.phase \in {"checked", "built", "executed"} => ~ Refused(wrapper.args)
    /\ wrapper.phase = "built" => wrapper.exec = Built(wrapper.build, wrapper.args, wrapper.env)
    /\ wrapper.phase = "executed" => Command(wrapper.build, wrapper.args, wrapper.exec)

LEMMA ArgsTyped == \A args \in ArgLists : args \in Seq(Argument)
BY ArgListsAssumption

LEMMA WrapperInvInit == WrapperInit => WrapperInv
<1>1. <<>> \in Seq(Word) /\ 0 \in 0 .. 3
  OBVIOUS
<1> QED BY <1>1 DEF WrapperInit, WrapperInv, Wrappers, Phases

LEMMA WrapperInvStep == WrapperInv /\ [WrapperNext]_wrapper => WrapperInv'
<1> SUFFICES ASSUME WrapperInv, [WrapperNext]_wrapper PROVE WrapperInv'
  OBVIOUS
<1>1. /\ wrapper \in Wrappers /\ wrapper.build \in Builds /\ wrapper.args \in ArgLists
      /\ wrapper.args \in Seq(Argument)
  BY ArgsTyped DEF WrapperInv, Wrappers
<1>2. ASSUME NEW code \in 0 .. 3, Fails(code)
      PROVE  WrapperInv'
  <2>1. wrapper' \in Wrappers /\ wrapper'.phase = "failed"
    BY <1>1, <1>2 DEF Fails, Wrappers, Phases
  <2> QED BY <2>1 DEF WrapperInv
<1>3. 1 \in 0 .. 3 /\ 2 \in 0 .. 3 /\ 3 \in 0 .. 3
  OBVIOUS
<1>4. CASE Locate
  <2>1. CASE wrapper' = [wrapper EXCEPT !.phase = "located"]
    <3>1. wrapper' \in Wrappers /\ wrapper'.phase = "located"
      BY <1>1, <2>1 DEF Wrappers, Phases
    <3> QED BY <3>1 DEF WrapperInv
  <2> QED BY <1>2, <1>3, <1>4, <2>1 DEF Locate
<1>5. CASE CheckPaths
  <2>1. CASE ~ Refused(wrapper.args) /\ wrapper' = [wrapper EXCEPT !.phase = "checked"]
    <3>1. wrapper' \in Wrappers /\ wrapper'.phase = "checked" /\ wrapper'.args = wrapper.args
      BY <1>1, <2>1 DEF Wrappers, Phases
    <3> QED BY <2>1, <3>1 DEF WrapperInv
  <2> QED BY <1>2, <1>3, <1>5, <2>1 DEF CheckPaths
<1>6. CASE BuildArgs
  <2>1. ~ Refused(wrapper.args)
    BY <1>6 DEF BuildArgs, At, WrapperInv
  <2> DEFINE made == Built(wrapper.build, wrapper.args, wrapper.env)
  <2>2. made \in Seq(Word)
    BY <1>1, BuiltIsCommand
  <2> HIDE DEF made
  <2>3. CASE wrapper' = [wrapper EXCEPT !.phase = "built", !.exec = made]
    <3>1. /\ wrapper' \in Wrappers /\ wrapper'.phase = "built" /\ wrapper'.exec = made
          /\ wrapper'.args = wrapper.args /\ wrapper'.build = wrapper.build
          /\ wrapper'.env = wrapper.env
      BY <1>1, <2>2, <2>3 DEF Wrappers, Phases
    <3> QED BY <2>1, <3>1 DEF WrapperInv, made
  <2>4. Fails(1) \/ Fails(2) \/ Fails(3)
            \/ wrapper' = [wrapper EXCEPT !.phase = "built", !.exec = made]
    BY <1>6, Zenon DEF BuildArgs, made
  <2> QED BY <1>2, <1>3, <2>3, <2>4
<1>7. CASE Execute
  <2>1. /\ ~ Refused(wrapper.args)
        /\ wrapper.exec = Built(wrapper.build, wrapper.args, wrapper.env)
    BY <1>7 DEF Execute, At, WrapperInv
  <2> DEFINE b == wrapper.build
             e == wrapper.exec
  <2>2. /\ Command(b, wrapper.args, e) /\ e \in Seq(Word)
        /\ b.ccache => Command(b, wrapper.args, Tail(e))
    BY <1>1, <2>1, BuiltIsCommand
  <2>3. e # <<>>
    <3>1. PICK w : Plain(w, Len(b.predef) + EXCLUSIVE_ARGS) /\ Len(w) >= 1 /\ e = w \o wrapper.args
      BY <2>2 DEF Command
    <3>2. w \in Seq(Word) /\ wrapper.args \in Seq(Word) /\ Len(wrapper.args) \in Nat
      BY <1>1, <3>1, GivenWords DEF Plain
    <3>3. Len(w \o wrapper.args) = Len(w) + Len(wrapper.args) /\ Len(w) \in Nat
      BY <3>2
    <3> HIDE DEF e, b
    <3> QED BY <3>1, <3>2, <3>3
  <2>4. ASSUME NEW x \in Seq(Word), Command(b, wrapper.args, x),
               wrapper' = [wrapper EXCEPT !.phase = "executed", !.exec = x]
        PROVE  WrapperInv'
    <3>1. /\ wrapper' \in Wrappers /\ wrapper'.phase = "executed" /\ wrapper'.exec = x
          /\ wrapper'.args = wrapper.args /\ wrapper'.build = wrapper.build
      BY <1>1, <2>4 DEF Wrappers, Phases
    <3> QED BY <2>1, <2>4, <3>1 DEF WrapperInv
  <2>5. Tail(e) \in Seq(Word)
    <3> HIDE DEF e
    <3> QED BY <2>2, <2>3
  <2>6. \/ Fails(2) \/ Fails(3)
        \/ wrapper' = [wrapper EXCEPT !.phase = "executed", !.exec = e]
        \/ b.ccache /\ wrapper' = [wrapper EXCEPT !.phase = "executed", !.exec = Tail(e)]
    BY <1>7 DEF Execute
  <2> HIDE DEF b, e
  <2> QED BY <1>2, <1>3, <2>2, <2>4, <2>5, <2>6
<1>8. CASE UNCHANGED wrapper
  BY <1>8 DEF WrapperInv, Wrappers
<1> QED BY <1>4, <1>5, <1>6, <1>7, <1>8 DEF WrapperNext

(* Whatever the wrapper was compiled for and whatever it is called with: the  *)
(* command it builds and executes fits the buffer, puts the compiler first    *)
(* and the caller's arguments last, and has no search path of the build       *)
(* machine unless an option stands where a path is expected.                  *)
THEOREM CommandsAreSafe == WrapperSpec => []ExecutedIsSafe
<1>1. WrapperInv => ExecutedIsSafe
  <2> SUFFICES ASSUME WrapperInv, wrapper.phase \in {"built", "executed"}
               PROVE  ExecutedIsSafe
    BY DEF ExecutedIsSafe
  <2>1. wrapper.build \in Builds /\ wrapper.args \in Seq(Argument) /\ ~ Refused(wrapper.args)
    BY ArgsTyped DEF WrapperInv, Wrappers
  <2>2. Command(wrapper.build, wrapper.args, wrapper.exec)
    BY <2>1, BuiltIsCommand DEF WrapperInv
  <2> QED BY <2>1, <2>2, CommandIsSafe DEF ExecutedIsSafe
<1> QED BY <1>1, WrapperInvInit, WrapperInvStep, PTL DEF WrapperSpec
================================================================================
