------------------------------ MODULE Kconfig_proofs ------------------------------
(***************************************************************************)
(* What the runs of Kconfig leave on the disk, for any sources, values and  *)
(* interruptions: the user's configuration is never lost, and no change of  *)
(* a value is hidden from the build.  And what the operands of a dependency *)
(* are worth once they are simplified.                                      *)
(***************************************************************************)
EXTENDS KconfigFiles, KconfigOperands, FiniteRecursion, SequenceTheorems

(***************************************************************************)
(* Reading a line of auto.conf                                              *)
(***************************************************************************)

Values == [tri : Tri, val : Texts \cup Symbols]
Reads == [has : SUBSET Symbols, val : [Symbols -> Values],
          changes : BOOLEAN, warned : BOOLEAN, taken : BOOLEAN]

(* The sources in use are one of the versions. *)
InUse == sources = Trees /\ tree \in DOMAIN Trees

(* What is known of s is the same. *)
Alike(q, r, s) == (s \in q.has <=> s \in r.has) /\ q.val[s] = r.val[s]

(* The value of the line l is there. *)
Holds(r, l) == /\ l.s \in r.has
               /\ IF k.ty[l.s] \in Logical THEN r.val[l.s].tri = TriOfText(l.x) ELSE r.val[l.s].val = l.x

(* What the line l makes of r, for all but the choices. *)
Heeds(q, r, l) ==
    /\ \A s \in Symbols \ k.choice : s # l.s => Alike(q, r, s)
    /\ l.s \notin k.choice /\ Defined("auto", l.s) =>
           IF Accepts(k.ty[l.s], l) THEN Holds(q, l) ELSE Alike(q, r, l.s)
    /\ l.s \notin k.choice /\ ~Defined("auto", l.s) /\ l.kind = "set" => l.s \in q.has

LEMMA TheTree ==
    ASSUME InUse
    PROVE  /\ k.choice \subseteq k.auto \cap Symbols
           /\ \A s \in k.choiceval : ChoiceOf(k, s) \in k.choice
           /\ \A s \in Symbols : k.ty[s] # "unknown" => Known(s)
BY TreesAssumption DEF InUse, k, Known

LEMMA TakeRead ==
    ASSUME NEW r \in Reads, NEW s \in Symbols, NEW v \in Values
    PROVE  /\ Take(r, s, v) \in Reads
           /\ Take(r, s, v).has = r.has \cup {s}
           /\ Take(r, s, v).val[s] = v
           /\ \A t \in Symbols \ {s} : Alike(Take(r, s, v), r, t)
BY DEF Take, Reads, Alike

LEMMA FlagsRead ==
    ASSUME NEW r \in Reads, NEW b \in BOOLEAN, NEW c \in BOOLEAN
    PROVE  LET q == [r EXCEPT !.taken = b, !.warned = @ \/ c]
           IN  q \in Reads /\ q.has = r.has /\ q.val = r.val
BY DEF Reads

LEMMA SetSymValRead ==
    ASSUME NEW r \in Reads, NEW l \in AutoLine
    PROVE  LET q == SetSymVal(r, "auto", l)
           IN  /\ q \in Reads
               /\ \A s \in Symbols \ {l.s} : Alike(q, r, s)
               /\ IF Accepts(k.ty[l.s], l) THEN Holds(q, l) ELSE Alike(q, r, l.s)
<1> DEFINE q == SetSymVal(r, "auto", l)
<1>1. l.s \in Symbols /\ l.x \in Texts
    BY DEF AutoLine
<1>2. CASE TakesTri(k.ty[l.s], l)
    <2> DEFINE v == [tri |-> TriOfText(l.x), val |-> Unset]
    <2>1. v \in Values /\ v.tri = TriOfText(l.x)
        BY TextsAssumption DEF Values, TriOfText, Tri, yes, mod, no
    <2>2. q = Take(r, l.s, v)
        <3>1. ~TakesText(k.ty[l.s], l)
            BY <1>2 DEF TakesTri, TakesText, Logical
        <3> QED BY <1>2, <3>1 DEF SetSymVal
    <2>3. Accepts(k.ty[l.s], l) /\ k.ty[l.s] \in Logical
        BY <1>2 DEF Accepts, TakesTri
    <2> HIDE DEF v, q
    <2> QED BY <1>1, <2>1, <2>2, <2>3, TakeRead DEF Holds, q
<1>3. CASE ~TakesTri(k.ty[l.s], l) /\ TakesText(k.ty[l.s], l)
    <2> DEFINE v == [tri |-> no, val |-> l.x]
    <2>1. v \in Values /\ v.val = l.x
        BY <1>1 DEF Values, Tri, yes, mod, no
    <2>2. q = Take(r, l.s, v)
        BY <1>3 DEF SetSymVal
    <2>3. Accepts(k.ty[l.s], l) /\ k.ty[l.s] \notin Logical
        BY <1>3 DEF Accepts, TakesText, Logical
    <2> HIDE DEF v, q
    <2> QED BY <1>1, <2>1, <2>2, <2>3, TakeRead DEF Holds, q
<1>4. CASE ~TakesTri(k.ty[l.s], l) /\ ~TakesText(k.ty[l.s], l)
    <2>1. q = r \/ q = [r EXCEPT !.taken = FALSE, !.warned = @ \/ FALSE]
        BY <1>4 DEF SetSymVal
    <2>2. q \in Reads /\ q.has = r.has /\ q.val = r.val
        BY <2>1, FlagsRead
    <2> QED BY <1>4, <2>2 DEF Accepts, Alike
<1> QED BY <1>2, <1>3, <1>4

LEMMA ChooseRead ==
    ASSUME InUse, NEW r \in Reads, NEW s \in Symbols
    PROVE  /\ Choose(r, s) \in Reads
           /\ \A t \in Symbols \ k.choice : Alike(Choose(r, s), r, t)
<1>1. CASE r.taken /\ s \in k.choiceval
    <2> DEFINE c == ChoiceOf(k, s)
               v == MostOf(r.val[c], r.val[s].tri, s)
    <2>1. c \in k.choice /\ c \in Symbols
        BY <1>1, TheTree
    <2>2. v \in Values
        BY <2>1 DEF Values, MostOf, Reads, TriMax
    <2>3. PICK odd \in BOOLEAN, twice \in BOOLEAN : Choose(r, s) = Combine(r, c, v, odd, twice)
        BY <1>1 DEF Choose, SetChoice, GiveChoice
    <2> HIDE DEF c, v
    <2>4. Combine(r, c, v, odd, twice) \in Reads
        BY <2>1, <2>2 DEF Combine, Reads
    <2>5. \A t \in Symbols \ {c} : Alike(Combine(r, c, v, odd, twice), r, t)
        BY <2>1, <2>2 DEF Combine, Reads, Alike
    <2> QED BY <2>1, <2>3, <2>4, <2>5
<1>2. CASE ~ (r.taken /\ s \in k.choiceval)
    BY <1>2 DEF Choose, Alike
<1> QED BY <1>1, <1>2

LEMMA LineRead ==
    ASSUME InUse, NEW r \in Reads, NEW l \in AutoLine
    PROVE  ReadLine(r, "auto", l) \in Reads /\ Heeds(ReadLine(r, "auto", l), r, l)
<1> DEFINE q == ReadLine(r, "auto", l)
<1>1. l.s \in Symbols /\ l.kind \in {"set", "quoted"}
    BY DEF AutoLine
<1>2. CASE ~Defined("auto", l.s)
    <2>1. q = ReadGone(r, "auto", l)
        BY <1>1, <1>2 DEF ReadLine
    <2>2. CASE l.kind = "quoted"
        <3>1. q = r
            BY <2>1, <2>2 DEF ReadGone
        <3> QED BY <1>2, <2>2, <3>1 DEF Heeds, Alike
    <2>3. CASE l.kind = "set"
        <3>1. q = [r EXCEPT !.has = @ \cup {l.s}]
            BY <2>1, <2>3 DEF ReadGone
        <3>2. q \in Reads /\ q.has = r.has \cup {l.s} /\ q.val = r.val
            BY <1>1, <3>1 DEF Reads
        <3> QED BY <1>2, <3>2 DEF Heeds, Alike
    <2> QED BY <1>1, <2>2, <2>3
<1>3. CASE Defined("auto", l.s)
    <2> DEFINE r1 == [r EXCEPT !.taken = TRUE, !.warned = @ \/ l.s \in r.has]
               r2 == SetSymVal(r1, "auto", l)
    <2>1. r1 \in Reads /\ r1.has = r.has /\ r1.val = r.val
        BY FlagsRead
    <2>2. q = Choose(r2, l.s)
        BY <1>1, <1>3 DEF ReadLine, ReadKnown
    <2> HIDE DEF r1, q
    <2>3. /\ r2 \in Reads
          /\ \A s \in Symbols \ {l.s} : Alike(r2, r1, s)
          /\ IF Accepts(k.ty[l.s], l) THEN Holds(r2, l) ELSE Alike(r2, r1, l.s)
        BY <2>1, SetSymValRead
    <2> HIDE DEF r2
    <2>4. q \in Reads /\ \A s \in Symbols \ k.choice : Alike(q, r2, s)
        BY <1>1, <2>2, <2>3, ChooseRead
    <2>5. \A s \in Symbols \ k.choice : s # l.s => Alike(q, r, s)
        BY <2>1, <2>3, <2>4 DEF Alike
    <2>6. l.s \notin k.choice => IF Accepts(k.ty[l.s], l) THEN Holds(q, l) ELSE Alike(q, r, l.s)
        BY <1>1, <2>1, <2>3, <2>4 DEF Alike, Holds
    <2> QED BY <1>3, <2>4, <2>5, <2>6 DEF Heeds, q
<1> QED BY <1>2, <1>3

(***************************************************************************)
(* Reading auto.conf                                                        *)
(***************************************************************************)

(* What is known of s after the first n lines, where a symbol has one line. *)
Told(r, lines, n, s) ==
    /\ Defined("auto", s) =>
           /\ \A i \in 1 .. n : lines[i].s = s /\ Accepts(k.ty[s], lines[i]) => Holds(r, lines[i])
           /\ s \in r.has => \E i \in 1 .. n : lines[i].s = s /\ Accepts(k.ty[s], lines[i])
    /\ ~Defined("auto", s) =>
           \A i \in 1 .. n : lines[i].s = s /\ lines[i].kind = "set" => s \in r.has

LEMMA ToldOneMore ==
    ASSUME NEW lines, AutoConf(lines), NEW n \in Nat, n + 1 \in DOMAIN lines,
           NEW q, NEW r, NEW s \in Symbols \ k.choice,
           Told(r, lines, n, s), Heeds(q, r, lines[n + 1])
    PROVE  Told(q, lines, n + 1, s)
<1> DEFINE l == lines[n + 1]
<1>1. \A i \in 1 .. n + 1 : i \in 1 .. n \/ i = n + 1
    OBVIOUS
<1>2. n + 1 \in 1 .. n + 1 /\ \A i \in 1 .. n : i \in 1 .. n + 1
    OBVIOUS
<1>3. \A i \in 1 .. n : i \in DOMAIN lines /\ i # n + 1
    BY DEF AutoConf
<1>4. CASE l.s # s
    <2>1. Alike(q, r, s)
        BY <1>4 DEF Heeds
    <2>2. \A i \in 1 .. n : lines[i].s = s => (Holds(q, lines[i]) <=> Holds(r, lines[i]))
        BY <2>1 DEF Alike, Holds
    <2> QED BY <1>1, <1>2, <1>4, <2>1, <2>2 DEF Told, Alike
<1>5. CASE l.s = s
    <2>1. \A i \in 1 .. n : lines[i].s # s
        BY <1>3, <1>5 DEF AutoConf
    <2>2. CASE Defined("auto", s)
        <3>1. IF Accepts(k.ty[s], l) THEN Holds(q, l) ELSE Alike(q, r, s)
            BY <1>5, <2>2 DEF Heeds
        <3>2. s \notin r.has
            BY <2>1, <2>2 DEF Told
        <3> QED BY <1>1, <1>2, <1>5, <2>1, <2>2, <3>1, <3>2 DEF Told, Alike
    <2>3. CASE ~Defined("auto", s)
        BY <1>1, <1>5, <2>1, <2>3 DEF Told, Heeds
    <2> QED BY <2>2, <2>3
<1> QED BY <1>4, <1>5

LEMMA ReadAuto ==
    ASSUME InUse, NEW lines, AutoConf(lines)
    PROVE  \A s \in Symbols \ k.choice : Told(Old(lines), lines, Len(lines), s)
<1> DEFINE n == Len(lines)
           v == [has |-> k.choice, val |-> [s \in Symbols |-> IF Known(s) THEN Blank ELSE NoValues[s]],
                 changes |-> FALSE, warned |-> FALSE, taken |-> TRUE]
           F == [i \in 1 .. n |-> [r \in Reads |-> ReadLine(r, "auto", lines[i])]]
           after == CHOOSE f : f = [i \in 0 .. n |-> IF i = 0 THEN v ELSE ReadLine(f[i - 1], "auto", lines[i])]
<1>1. n \in Nat /\ DOMAIN lines = 1 .. n /\ \A i \in 1 .. n : lines[i] \in AutoLine
    BY DEF AutoConf
<1>2. v \in Reads /\ v.has = k.choice
    BY TheTree, TextsAssumption DEF Reads, Values, Blank, NoValues, Tri
<1>3. lines # Absent
    <2>1. "" \notin Symbols
        BY OrderAssumption
    <2>2. Line("", "absent", "").s = ""
        BY DEF Line
    <2> HIDE DEF n, v, F, after
    <2>3. ASSUME lines = Absent PROVE FALSE
        <3> DEFINE l == Line("", "absent", "")
        <3>1. lines = <<l>>
            BY <2>3 DEF Absent
        <3> HIDE DEF l
        <3>2. 1 \in DOMAIN lines /\ lines[1] = l
            BY <3>1
        <3>3. lines[1].s \in Symbols
            BY <1>1, <3>2 DEF AutoLine
        <3> QED BY <2>1, <2>2, <3>2, <3>3 DEF l
    <2> QED BY <2>3
<1>4. Old(lines) = after[n]
    BY <1>3 DEF Old, ReadLines
<1> HIDE DEF n, v
<1>5. F \in [1 .. n -> [Reads -> Reads]]
    BY <1>1, LineRead
<1>6. PICK h : Passes(h, Reads, v, F, n)
    BY <1>1, <1>2, <1>5, Iteration
<1>7. \A i \in 0 .. n : i # 0 => i - 1 \in 0 .. n /\ i \in 1 .. n
    BY <1>1
<1>8. h = [i \in 0 .. n |-> IF i = 0 THEN v ELSE ReadLine(h[i - 1], "auto", lines[i])]
    BY <1>6, <1>7 DEF Passes
<1>9. after = [i \in 0 .. n |-> IF i = 0 THEN v ELSE ReadLine(after[i - 1], "auto", lines[i])]
    BY <1>8
<1> HIDE DEF F, after
<1> DEFINE P == {i \in 0 .. n : /\ after[i] \in Reads
                               /\ \A s \in Symbols \ k.choice : Told(after[i], lines, i, s)}
<1>10. 0 \in P
    <2>1. 0 \in 0 .. n /\ after[0] = v
        BY <1>1, <1>9
    <2>2. \A i \in 1 .. 0 : FALSE
        OBVIOUS
    <2> QED BY <1>2, <2>1, <2>2 DEF Told
<1>11. ASSUME NEW i \in 0 .. n - 1, i \in P
       PROVE  i + 1 \in P
    <2>1. i \in Nat /\ i + 1 \in 0 .. n /\ i + 1 \in 1 .. n /\ i + 1 # 0 /\ (i + 1) - 1 = i
        BY <1>1
    <2>2. after[i + 1] = ReadLine(after[i], "auto", lines[i + 1])
        BY <1>9, <2>1
    <2>3. after[i + 1] \in Reads /\ Heeds(after[i + 1], after[i], lines[i + 1])
        BY <1>1, <1>11, <2>1, <2>2, LineRead
    <2>4. \A s \in Symbols \ k.choice : Told(after[i + 1], lines, i + 1, s)
        BY <1>1, <1>11, <2>1, <2>3, ToldOneMore
    <2> QED BY <2>1, <2>3, <2>4
<1>12. P \in SUBSET (0 .. n) /\ n \in 0 .. n
    BY <1>1
<1> HIDE DEF P
<1>13. n \in P
    BY <1>1, <1>10, <1>11, <1>12, UpTo
<1> QED BY <1>4, <1>13 DEF P, n

(***************************************************************************)
(* Writing auto.conf                                                        *)
(***************************************************************************)

(* The lines of the symbols up to the n-th of the table.                    *)
Wrote(m, lines, n) ==
    /\ lines \in Seq(AutoLine)
    /\ \A i, j \in DOMAIN lines : lines[i].s = lines[j].s => i = j
    /\ \A i \in DOMAIN lines : \E j \in 1 .. n : /\ InAuto(m, Order[j])
                                              /\ lines[i] = ValueLine(Order[j], Text(m, Order[j]))
    /\ \A j \in 1 .. n : InAuto(m, Order[j]) => \E i \in DOMAIN lines : lines[i].s = Order[j]

LEMMA TheOrder ==
    /\ Len(Order) \in Nat
    /\ DOMAIN Order = 1 .. Len(Order)
    /\ \A i \in DOMAIN Order : Order[i] \in Symbols
    /\ \A i, j \in DOMAIN Order : Order[i] = Order[j] => i = j
    /\ \A s \in Symbols : \E i \in DOMAIN Order : Order[i] = s
<1>1. Order \in Seq(Symbols)
    BY OrderAssumption
<1>2. DOMAIN Order = 1 .. Len(Order) /\ Len(Order) \in Nat
    BY <1>1
<1>3. \A i \in DOMAIN Order : Order[i] \in Symbols
    BY <1>1, <1>2
<1> QED BY <1>2, <1>3, OrderAssumption

LEMMA ValueLineFields ==
    ASSUME NEW s \in Symbols, NEW x \in Texts
    PROVE  /\ ValueLine(s, x) \in AutoLine
           /\ ValueLine(s, x).s = s /\ ValueLine(s, x).x = x
           /\ ValueLine(s, x).kind = IF k.ty[s] = "string" THEN "quoted" ELSE "set"
BY DEF ValueLine, Quote, Assign, Line, AutoLine

LEMMA TextOf ==
    ASSUME NEW m \in Memories, NEW s \in Symbols
    PROVE  Text(m, s) \in Texts
<1>1. m.curr[s].val \in Texts
    BY DEF Memories, Settled
<1>2. "y" \in Texts /\ "m" \in Texts /\ "n" \in Texts
    BY TextsAssumption DEF YMN
<1>3. Text(m, s) \in {"y", "m", "n", m.curr[s].val}
    BY DEF Text, StringValue
<1> QED BY <1>1, <1>2, <1>3

LEMMA WroteOneMore ==
    ASSUME NEW m \in Memories, NEW lines, NEW n \in Nat, n + 1 \in DOMAIN Order, Wrote(m, lines, n)
    PROVE  Wrote(m, IF InAuto(m, Order[n + 1])
                    THEN Append(lines, ValueLine(Order[n + 1], Text(m, Order[n + 1]))) ELSE lines, n + 1)
<1> DEFINE s == Order[n + 1]
           l == ValueLine(s, Text(m, s))
<1>1. \A j \in 1 .. n + 1 : j \in 1 .. n \/ j = n + 1
    OBVIOUS
<1>2. n + 1 \in 1 .. n + 1 /\ \A j \in 1 .. n : j \in 1 .. n + 1
    OBVIOUS
<1>3. /\ s \in Symbols
      /\ \A j \in 1 .. n : Order[j] \in Symbols /\ Order[j] # s
    <2>1. \A j \in 1 .. n : j \in DOMAIN Order /\ j # n + 1
        BY TheOrder
    <2> QED BY <2>1, TheOrder
<1>4. l \in AutoLine /\ l.s = s
    BY <1>3, TextOf, ValueLineFields
<1>5. CASE ~InAuto(m, s)
    <2> HIDE DEF l, s
    <2> QED BY <1>1, <1>2, <1>5 DEF Wrote, s
<1>6. CASE InAuto(m, s)
    <2> DEFINE more == Append(lines, l)
    <2>1. /\ lines \in Seq(AutoLine) /\ more \in Seq(AutoLine)
          /\ DOMAIN lines = 1 .. Len(lines) /\ DOMAIN more = 1 .. Len(lines) + 1
          /\ Len(lines) \in Nat
          /\ \A i \in DOMAIN lines : i \in DOMAIN more /\ more[i] = lines[i]
          /\ more[Len(lines) + 1] = l
        BY <1>4, AppendProperties DEF Wrote
    <2> HIDE DEF more
    <2>2. \A i \in DOMAIN more : i \in DOMAIN lines \/ i = Len(lines) + 1
        BY <2>1
    <2>3. \A i \in DOMAIN lines : more[i].s # s
        <3>1. \A j \in 1 .. n : ValueLine(Order[j], Text(m, Order[j])).s = Order[j]
            BY <1>3, TextOf, ValueLineFields
        <3> QED BY <1>3, <2>1, <3>1 DEF Wrote
    <2>4. \A i, j \in DOMAIN more : more[i].s = more[j].s => i = j
        BY <1>4, <2>1, <2>2, <2>3 DEF Wrote
    <2>5. \A i \in DOMAIN more : \E j \in 1 .. n + 1 : /\ InAuto(m, Order[j])
                                                    /\ more[i] = ValueLine(Order[j], Text(m, Order[j]))
        <3>1. ASSUME NEW i \in DOMAIN lines
              PROVE  \E j \in 1 .. n + 1 : InAuto(m, Order[j]) /\ more[i] = ValueLine(Order[j], Text(m, Order[j]))
            BY <1>2, <2>1 DEF Wrote
        <3>2. InAuto(m, Order[n + 1]) /\ more[Len(lines) + 1] = ValueLine(Order[n + 1], Text(m, Order[n + 1]))
            BY <1>6, <2>1
        <3> QED BY <1>2, <2>2, <3>1, <3>2
    <2>6. \A j \in 1 .. n + 1 : InAuto(m, Order[j]) => \E i \in DOMAIN more : more[i].s = Order[j]
        <3>1. Len(lines) + 1 \in DOMAIN more
            BY <2>1
        <3>2. ASSUME NEW j \in 1 .. n, InAuto(m, Order[j])
              PROVE  \E i \in DOMAIN more : more[i].s = Order[j]
            <4>1. PICK i \in DOMAIN lines : lines[i].s = Order[j]
                BY <3>2 DEF Wrote
            <4> QED BY <2>1, <4>1
        <3> QED BY <1>1, <1>4, <2>1, <3>1, <3>2
    <2>7. Wrote(m, more, n + 1)
        BY <2>1, <2>4, <2>5, <2>6 DEF Wrote
    <2> QED BY <1>6, <2>7 DEF more
<1> QED BY <1>5, <1>6

LEMMA WriteAuto ==
    ASSUME NEW m \in Memories
    PROVE  Wrote(m, AutoLines(m), Len(Order))
<1> DEFINE n == Len(Order)
           V == Seq(AutoLine)
           Step(w, i) == IF InAuto(m, Order[i])
                         THEN Append(w, ValueLine(Order[i], Text(m, Order[i]))) ELSE w
           F == [i \in 1 .. n |-> [w \in V |-> Step(w, i)]]
           lines == CHOOSE f : f = [i \in 0 .. n |-> IF i = 0 THEN <<>> ELSE Step(f[i - 1], i)]
<1>1. n \in Nat /\ DOMAIN Order = 1 .. n /\ \A i \in 1 .. n : Order[i] \in Symbols
    BY TheOrder
<1>2. AutoLines(m) = lines[n]
    BY DEF AutoLines
<1> HIDE DEF n
<1>3. ASSUME NEW i \in 1 .. n, NEW w \in V PROVE Step(w, i) \in V
    <2>1. ValueLine(Order[i], Text(m, Order[i])) \in AutoLine
        BY <1>1, TextOf, ValueLineFields
    <2> QED BY <2>1, AppendProperties
<1> HIDE DEF Step
<1>4. F \in [1 .. n -> [V -> V]]
    BY <1>3
<1>5. <<>> \in V
    OBVIOUS
<1> HIDE DEF V
<1>6. PICK h : Passes(h, V, <<>>, F, n)
    BY <1>1, <1>4, <1>5, Iteration
<1>7. \A i \in 0 .. n : i # 0 => i - 1 \in 0 .. n /\ i \in 1 .. n
    BY <1>1
<1>8. h = [i \in 0 .. n |-> IF i = 0 THEN <<>> ELSE Step(h[i - 1], i)]
    BY <1>6, <1>7 DEF Passes
<1>9. lines = [i \in 0 .. n |-> IF i = 0 THEN <<>> ELSE Step(lines[i - 1], i)]
    BY <1>8
<1> HIDE DEF F, lines
<1> DEFINE P == {i \in 0 .. n : Wrote(m, lines[i], i)}
<1>10. 0 \in P
    <2>1. 0 \in 0 .. n /\ lines[0] = <<>>
        BY <1>1, <1>9
    <2>2. \A i \in 1 .. 0 : FALSE
        OBVIOUS
    <2>3. <<>> \in Seq(AutoLine) /\ DOMAIN <<>> = {}
        OBVIOUS
    <2>4. Wrote(m, <<>>, 0)
        BY <2>2, <2>3 DEF Wrote
    <2> QED BY <2>1, <2>4
<1>11. ASSUME NEW i \in 0 .. n - 1, i \in P
       PROVE  i + 1 \in P
    <2>1. i \in Nat /\ i + 1 \in 0 .. n /\ i + 1 \in 1 .. n /\ i + 1 # 0 /\ (i + 1) - 1 = i
        BY <1>1
    <2>2. lines[i + 1] = Step(lines[i], i + 1)
        BY <1>9, <2>1
    <2>3. Wrote(m, lines[i + 1], i + 1)
        BY <1>1, <1>11, <2>1, <2>2, WroteOneMore DEF Step
    <2> QED BY <2>1, <2>3
<1>12. P \in SUBSET (0 .. n) /\ n \in 0 .. n
    BY <1>1
<1> HIDE DEF P
<1>13. n \in P
    BY <1>1, <1>10, <1>11, <1>12, UpTo
<1> QED BY <1>2, <1>13 DEF P, n

(* What auto.conf says of a symbol. *)
LEMMA ContentOf ==
    ASSUME NEW lines, AutoConf(lines), NEW s \in Symbols
    PROVE  /\ Content(lines)[s] \in Texts
           /\ \A i \in DOMAIN lines : lines[i].s = s => Content(lines)[s] = lines[i].x
           /\ (\A i \in DOMAIN lines : lines[i].s # s) => Content(lines)[s] = Unset
<1>1. \A i \in DOMAIN lines : lines[i] \in AutoLine
    BY DEF AutoConf
<1>2. CASE \E i \in DOMAIN lines : lines[i].s = s
    <2>1. PICK i \in DOMAIN lines : lines[i].s = s
        BY <1>2
    <2>2. i = CHOOSE j \in DOMAIN lines : lines[j].s = s
        BY <2>1 DEF AutoConf
    <2>3. Content(lines)[s] = lines[i].x
        BY <2>1, <2>2 DEF Content
    <2> QED BY <1>1, <2>1, <2>3 DEF AutoConf, AutoLine
<1>3. CASE \A i \in DOMAIN lines : lines[i].s # s
    BY <1>3, TextsAssumption DEF Content
<1> QED BY <1>2, <1>3

LEMMA WrittenContent ==
    ASSUME InUse, NEW m \in Memories
    PROVE  /\ AutoConf(AutoLines(m))
           /\ \A s \in Symbols : Content(AutoLines(m))[s] = IF InAuto(m, s) THEN Text(m, s) ELSE Unset
<1> DEFINE lines == AutoLines(m)
           n == Len(Order)
<1>1. Wrote(m, lines, n)
    BY WriteAuto
<1>2. DOMAIN Order = 1 .. n /\ \A j \in 1 .. n : Order[j] \in Symbols
    BY TheOrder
<1> HIDE DEF lines, n
<1>3. ASSUME NEW i \in DOMAIN lines
      PROVE  \E s \in Symbols : InAuto(m, s) /\ lines[i].s = s /\ lines[i].x = Text(m, s) /\ Writes(k, lines[i])
    <2>1. PICK j \in 1 .. n : InAuto(m, Order[j]) /\ lines[i] = ValueLine(Order[j], Text(m, Order[j]))
        BY <1>1 DEF Wrote
    <2> DEFINE s == Order[j]
    <2>2. s \in Symbols /\ InAuto(m, s) /\ lines[i] = ValueLine(s, Text(m, s))
        BY <1>2, <2>1
    <2> HIDE DEF s
    <2>3. /\ lines[i].s = s /\ lines[i].x = Text(m, s)
          /\ lines[i].kind = IF k.ty[s] = "string" THEN "quoted" ELSE "set"
        BY <2>2, TextOf, ValueLineFields
    <2>4. Writes(k, lines[i])
        BY <2>2, <2>3 DEF Writes, InAuto
    <2> QED BY <2>2, <2>3, <2>4
<1>4. AutoConf(lines)
    BY <1>1, <1>3 DEF AutoConf, Wrote, InUse, k
<1>5. ASSUME NEW s \in Symbols
      PROVE  Content(lines)[s] = IF InAuto(m, s) THEN Text(m, s) ELSE Unset
    <2>1. CASE InAuto(m, s)
        <3>1. PICK j \in 1 .. n : Order[j] = s
            BY <1>2, TheOrder
        <3>2. PICK i \in DOMAIN lines : lines[i].s = s
            BY <1>1, <2>1, <3>1 DEF Wrote
        <3> QED BY <1>3, <1>4, <2>1, <3>2, ContentOf
    <2>2. CASE ~InAuto(m, s)
        <3>1. \A i \in DOMAIN lines : lines[i].s # s
            BY <1>3, <2>2
        <3> QED BY <1>4, <2>2, <3>1, ContentOf
    <2> QED BY <2>1, <2>2
<1> QED BY <1>4, <1>5 DEF lines

(***************************************************************************)
(* The comparison of conf_split_config                                      *)
(***************************************************************************)

OldFile(lines) == lines = Absent \/ AutoConf(lines)

LEMMA AbsentSays ==
    ASSUME NEW s \in Symbols
    PROVE  Content(Absent)[s] = Unset
<1> DEFINE l == Line("", "absent", "")
<1>1. Absent = <<l>> /\ l.s = ""
    BY DEF Absent, Line
<1>2. "" \notin Symbols
    BY OrderAssumption
<1> HIDE DEF l
<1>3. DOMAIN Absent = {1} /\ Absent[1] = l
    <2>1. Len(<<l>>) = 1 /\ <<l>>[1] = l
        OBVIOUS
    <2>2. DOMAIN <<l>> = 1 .. 1
        OBVIOUS
    <2>3. DOMAIN <<l>> = {1} /\ <<l>>[1] = l
        BY <2>1, <2>2
    <2> QED BY <1>1, <2>3, Zenon
<1>4. \A i \in DOMAIN Absent : Absent[i].s # s
    BY <1>1, <1>2, <1>3
<1> QED BY <1>4 DEF Content

(* The old line l of s, and what the run that compares makes of it.         *)
OldLine(lines, s, l) ==
    /\ l.s = s /\ l.x = Content(lines)[s]
    /\ \E t \in DOMAIN Trees : Writes(Trees[t], l)
    /\ Defined("auto", s) /\ Accepts(k.ty[s], l) => Holds(Old(lines), l)
    /\ ~Defined("auto", s) /\ l.kind = "set" => s \in Old(lines).has

(* What the run that compares knows of a symbol, and where it has it from.  *)
LEMMA OldSays ==
    ASSUME InUse, NEW lines, OldFile(lines), NEW s \in Symbols \ k.choice
    PROVE  /\ Content(lines)[s] \in Texts
           /\ s \in Old(lines).has /\ Defined("auto", s) =>
                  \E l \in AutoLine : /\ l.s = s /\ l.x = Content(lines)[s]
                                     /\ Accepts(k.ty[s], l) /\ Holds(Old(lines), l)
           /\ Content(lines)[s] # Unset => \E l \in AutoLine : OldLine(lines, s, l)
<1>1. CASE lines = Absent
    <2>1. Content(Absent)[s] = Unset
        BY AbsentSays
    <2>2. Old(Absent).has = {}
        BY DEF Old
    <2> QED BY <1>1, <2>1, <2>2, TextsAssumption
<1>2. CASE AutoConf(lines)
    <2>1. Told(Old(lines), lines, Len(lines), s)
        BY <1>2, ReadAuto
    <2>2. DOMAIN lines = 1 .. Len(lines) /\ \A i \in DOMAIN lines : lines[i] \in AutoLine
        BY <1>2 DEF AutoConf
    <2>3. ASSUME s \in Old(lines).has, Defined("auto", s)
          PROVE  \E l \in AutoLine : /\ l.s = s /\ l.x = Content(lines)[s]
                                    /\ Accepts(k.ty[s], l) /\ Holds(Old(lines), l)
        <3>1. PICK i \in DOMAIN lines : lines[i].s = s /\ Accepts(k.ty[s], lines[i])
            BY <2>1, <2>2, <2>3 DEF Told
        <3>2. lines[i].x = Content(lines)[s]
            BY <1>2, <3>1, ContentOf
        <3>3. Holds(Old(lines), lines[i])
            BY <2>1, <2>2, <2>3, <3>1 DEF Told
        <3> QED BY <2>2, <3>1, <3>2, <3>3
    <2>4. ASSUME Content(lines)[s] # Unset
          PROVE  \E l \in AutoLine : OldLine(lines, s, l)
        <3>1. PICK i \in DOMAIN lines : lines[i].s = s
            BY <1>2, <2>4, ContentOf
        <3>2. lines[i].x = Content(lines)[s]
            BY <1>2, <3>1, ContentOf
        <3>3. \E t \in DOMAIN Trees : Writes(Trees[t], lines[i])
            BY <1>2, <3>1 DEF AutoConf
        <3>4. /\ Defined("auto", s) /\ Accepts(k.ty[s], lines[i]) => Holds(Old(lines), lines[i])
              /\ ~Defined("auto", s) /\ lines[i].kind = "set" => s \in Old(lines).has
            BY <2>1, <2>2, <3>1 DEF Told
        <3> QED BY <2>2, <3>1, <3>2, <3>3, <3>4 DEF OldLine
    <2>5. Content(lines)[s] \in Texts
        BY <1>2, ContentOf
    <2> QED BY <2>3, <2>4, <2>5
<1> QED BY <1>1, <1>2 DEF OldFile

(* The text of a symbol that is on. *)
LEMMA TextOn ==
    ASSUME NEW m \in Memories, NEW s \in Symbols, k.ty[s] \in Logical
    PROVE  /\ m.curr[s].tri = no => Text(m, s) = "n"
           /\ m.curr[s].tri = mod => Text(m, s) = "m"
           /\ m.curr[s].tri = yes => Text(m, s) = "y"
<1>1. m.curr[s].tri = mod => m.curr[ModulesSym].tri # no
    BY DEF Memories, Settled
<1> QED BY <1>1 DEF Text, StringValue, no, mod, yes

LEMMA TextPlain ==
    ASSUME NEW m, NEW s, k.ty[s] \notin Logical
    PROVE  Text(m, s) = m.curr[s].val
BY DEF Text, StringValue

(* A value of s that auto.conf gives and the new memory does not.           *)
LEMMA Lost ==
    ASSUME InUse, NEW m \in Memories, NEW lines, OldFile(lines), NEW s \in Symbols,
           Content(lines)[s] # Unset, Legible(s, Content(lines)[s]),
           Content(lines)[s] # (IF InAuto(m, s) THEN Text(m, s) ELSE Unset)
    PROVE  s \in Changed(m, Old(lines))
<1> DEFINE o == Content(lines)[s]
           old == Old(lines)
           ty == k.ty[s]
<1>1. s \notin k.auto /\ s \notin k.choice
    BY TheTree DEF Legible, InUse, k
<1>2. PICK l \in AutoLine : OldLine(lines, s, l)
    BY <1>1, OldSays
<1>3. /\ l.s = s /\ l.x = o
      /\ \E t \in DOMAIN Trees : Writes(Trees[t], l)
      /\ Defined("auto", s) /\ Accepts(ty, l) => Holds(old, l)
      /\ ~Defined("auto", s) /\ l.kind = "set" => s \in old.has
    BY <1>2 DEF OldLine
<1>4. PICK u \in DOMAIN Trees : Writes(Trees[u], l)
    BY <1>3
<1>5. Defined("auto", s) <=> ty # "unknown"
    BY TheTree DEF Defined
<1>6. s \in m.write => ty # "unknown"
    BY DEF Memories, Settled
<1>7. m.curr[s].tri \in Tri
    BY DEF Memories, Settled
<1> HIDE DEF o, old, ty
<1>8. \/ \A t \in DOMAIN Trees : Trees[t].ty[s] # "unknown" => Accepts(Trees[t].ty[s], Assign(s, o))
      \/ \A t \in DOMAIN Trees : Accepts(Trees[t].ty[s], Quote(s, o))
    BY DEF Legible, InUse, o
<1>9. CASE \A t \in DOMAIN Trees : Trees[t].ty[s] # "unknown" => Accepts(Trees[t].ty[s], Assign(s, o))
    <2>1. Accepts(Trees[u].ty[s], Assign(s, o)) /\ Trees[u].ty[s] # "unknown"
        BY <1>3, <1>4, <1>9 DEF Writes
    <2>2. Assign(s, o).kind = "set" /\ Assign(s, o).x = o
        BY DEF Assign, Line
    <2>3. Trees[u].ty[s] # "string"
        BY <2>1, <2>2 DEF Accepts, TakesTri, TakesText, Logical
    <2>4. l.kind = "set"
        BY <1>3, <1>4, <2>3 DEF Writes
    <2>5. \A t \in {ty, Trees[u].ty[s]} : Accepts(t, Assign(s, o)) <=> Accepts(t, l)
        BY <1>3, <2>2, <2>4 DEF Accepts, TakesTri, TakesText
    <2>6. CASE ty = "unknown"
        BY <1>1, <1>3, <1>5, <1>6, <2>4, <2>6 DEF Changed, Differs, old
    <2>7. CASE ty # "unknown"
        <3>1. Accepts(ty, l)
            BY <1>9, <2>5, <2>7 DEF InUse, k, ty
        <3>2. Holds(old, l)
            BY <1>3, <1>5, <2>7, <3>1
        <3>3. CASE s \notin m.write
            BY <1>1, <1>3, <3>2, <3>3 DEF Changed, Differs, Holds, old
        <3>4. CASE s \in m.write /\ ty \in Logical
            <4>1. o \in YMN
                BY <1>3, <3>1, <3>4 DEF Accepts, TakesTri, TakesText, YMN, Logical
            <4>2. Trees[u].ty[s] \in Logical
                <5>1. Accepts(Trees[u].ty[s], l)
                    BY <2>1, <2>5
                <5> QED BY <1>3, <2>4, <4>1, <5>1, ValidAssumption DEF Accepts, TakesTri, TakesText
            <4>3. o \in {"y", "m"}
                BY <1>3, <1>4, <4>1, <4>2 DEF Writes, YMN
            <4>4. m.curr[s].tri # TriOfText(o)
                <5> SUFFICES ASSUME m.curr[s].tri = TriOfText(o) PROVE FALSE
                    OBVIOUS
                <5>1. Text(m, s) = o
                    BY <3>4, <4>3, TextOn DEF TriOfText, ty
                <5>2. InAuto(m, s)
                    BY <1>1, <2>7, <3>4, <4>3, <5>1 DEF InAuto, ty
                <5> QED BY <5>1, <5>2 DEF o
            <4> QED BY <1>1, <1>3, <3>2, <3>4, <4>4 DEF Changed, Differs, Holds, old, ty
        <3>5. CASE s \in m.write /\ ty \notin Logical
            <4>1. InAuto(m, s)
                BY <1>1, <2>7, <3>5 DEF InAuto, ty
            <4>2. Text(m, s) # o
                BY <4>1 DEF o
            <4> QED BY <1>1, <1>3, <3>2, <3>5, <4>2 DEF Changed, Differs, Holds, old, ty
        <3> QED BY <3>3, <3>4, <3>5
    <2> QED BY <2>6, <2>7
<1>10. CASE \A t \in DOMAIN Trees : Accepts(Trees[t].ty[s], Quote(s, o))
    <2>1. Quote(s, o).kind = "quoted" /\ Quote(s, o).x = o
        BY DEF Quote, Line
    <2>2. \A t \in DOMAIN Trees : Trees[t].ty[s] = "string"
        BY <1>10, <2>1 DEF Accepts, TakesTri, TakesText
    <2>3. ty = "string"
        BY <2>2 DEF InUse, k, ty
    <2>4. l.kind = "quoted"
        BY <1>3, <1>4, <2>2 DEF Writes
    <2>5. Accepts(ty, l)
        BY <2>3, <2>4 DEF Accepts, TakesText
    <2>6. Holds(old, l)
        BY <1>3, <1>5, <2>3, <2>5
    <2>7. ty \notin Logical
        BY <2>3 DEF Logical
    <2>8. CASE s \notin m.write
        BY <1>1, <1>3, <2>6, <2>8 DEF Changed, Differs, Holds, old
    <2>9. CASE s \in m.write
        <3>1. InAuto(m, s)
            BY <1>1, <2>3, <2>7, <2>9 DEF InAuto, ty
        <3>2. Text(m, s) # o
            BY <3>1 DEF o
        <3> QED BY <1>1, <1>3, <2>6, <2>7, <2>9, <3>2 DEF Changed, Differs, Holds, old, ty
    <2> QED BY <2>8, <2>9
<1> QED BY <1>8, <1>9, <1>10

(* A value of s that auto.conf does not give and the new memory does.       *)
LEMMA Gained ==
    ASSUME InUse, NEW m \in Memories, NEW lines, OldFile(lines), NEW s \in Symbols,
           InAuto(m, s), Content(lines)[s] # Text(m, s), s \notin k.auto
    PROVE  s \in Changed(m, Old(lines))
<1> DEFINE old == Old(lines)
<1>1. s \in Symbols \ k.choice
    BY TheTree
<1>2. s \in m.write /\ k.ty[s] # "unknown" /\ Defined("auto", s)
    BY TheTree DEF InAuto, Defined
<1>3. m.curr[s].tri \in Tri
    BY DEF Memories, Settled
<1>4. k.ty[s] \in Logical => m.curr[s].tri # no
    BY TextOn DEF InAuto
<1> HIDE DEF old
<1>5. CASE s \notin old.has
    BY <1>2, <1>4, <1>5 DEF Changed, Differs, old
<1>6. CASE s \in old.has
    <2>1. PICK l \in AutoLine : /\ l.s = s /\ l.x = Content(lines)[s]
                               /\ Accepts(k.ty[s], l) /\ Holds(old, l)
        BY <1>1, <1>2, <1>6, OldSays DEF old
    <2>2. CASE k.ty[s] \in Logical
        <3>1. l.x \in YMN /\ old.val[s].tri = TriOfText(l.x)
            BY <2>1, <2>2 DEF Accepts, TakesTri, TakesText, Logical, YMN, Holds
        <3>2. m.curr[s].tri # TriOfText(l.x)
            <4> SUFFICES ASSUME m.curr[s].tri = TriOfText(l.x) PROVE FALSE
                OBVIOUS
            <4>1. Text(m, s) = l.x
                BY <1>4, <2>2, <3>1, TextOn DEF TriOfText, YMN
            <4> QED BY <2>1, <4>1
        <3> QED BY <1>2, <1>6, <2>2, <3>1, <3>2 DEF Changed, Differs, old
    <2>3. CASE k.ty[s] \notin Logical
        BY <1>2, <1>6, <2>1, <2>3 DEF Changed, Differs, Holds, old
    <2> QED BY <2>2, <2>3
<1> QED BY <1>5, <1>6

(* conf_split_config touches the header of every symbol whose value the     *)
(* build would otherwise see change behind its back.                        *)
LEMMA Coverage ==
    ASSUME InUse, NEW m \in Memories, NEW lines, OldFile(lines), NEW s \in Symbols,
           Seen(Content(AutoLines(m)))[s] # Seen(Content(lines))[s]
    PROVE  s \in Changed(m, Old(lines))
<1> DEFINE o == Content(lines)[s]
           w == Content(AutoLines(m))[s]
<1>1. w = IF InAuto(m, s) THEN Text(m, s) ELSE Unset
    BY WrittenContent
<1>2. Seen(Content(AutoLines(m)))[s] = IF Legible(s, w) THEN w ELSE Unset
    BY DEF Seen
<1>3. Seen(Content(lines))[s] = IF Legible(s, o) THEN o ELSE Unset
    BY DEF Seen
<1> HIDE DEF o, w
<1>4. w # o
    BY <1>2, <1>3
<1>5. CASE Legible(s, o) /\ o # Unset
    BY <1>1, <1>4, <1>5, Lost DEF o
<1>6. CASE Legible(s, w) /\ w # Unset
    <2>1. s \notin k.auto
        BY <1>6 DEF Legible, InUse, k
    <2> QED BY <1>1, <1>4, <1>6, <2>1, Gained DEF o
<1> QED BY <1>2, <1>3, <1>5, <1>6

(***************************************************************************)
(* The files                                                                *)
(***************************************************************************)

Lines == AnyLines \cup {Absent}
Disks == [config : Lines, old : Lines, defconfig : Lines, auto : Seq(AutoLine) \cup {Absent},
          header : [Symbols -> Texts], tristate : [Symbols -> Texts],
          touched : SUBSET Symbols, built : [Symbols -> Texts], fresh : BOOLEAN]

TypeOK == /\ InUse
          /\ disk \in Disks
          /\ todo \in Lines
          /\ left \in SUBSET Symbols
          /\ goal \in {"none", "edit", "sync"}

(* auto.conf, the old one and the one that is written, is what some version *)
(* of the sources writes.                                                   *)
Written == /\ OldFile(disk.auto)
           /\ pc \in {"touch", "files", "header", "tristate"} => AutoConf(want)

(* .config is missing only while it is saved, auto.conf is compared only    *)
(* when it is out of date, and headers are left only while they are touched. *)
InOrder == /\ pc = "renamed" => disk.config = Absent
           /\ pc = "sync" => ~disk.fresh
           /\ left # {} => pc = "touch"

FilesInv == TypeOK /\ Written /\ InOrder

LEMMA ContentType ==
    ASSUME NEW lines, OldFile(lines)
    PROVE  Content(lines) \in [Symbols -> Texts]
<1>1. \A s \in Symbols : Content(lines)[s] \in Texts
    <2>1. CASE AutoConf(lines)
        BY <2>1, ContentOf
    <2>2. CASE lines = Absent
        BY <2>2, AbsentSays, TextsAssumption
    <2> QED BY <2>1, <2>2 DEF OldFile
<1> QED BY <1>1 DEF Content

LEMMA FilesStart == FilesInit => FilesInv
<1> SUFFICES ASSUME FilesInit PROVE FilesInv
    OBVIOUS
<1>1. PICK st \in Starts :
           disk = [config |-> st[1], old |-> Absent, defconfig |-> Absent,
                   auto |-> st[2], header |-> Content(st[2]), tristate |-> Nothing,
                   touched |-> {}, built |-> Content(st[2]), fresh |-> FALSE]
    BY DEF FilesInit
<1>2. OldFile(st[2]) /\ st[1] \in Lines
    BY StartsAssumption DEF OldFile, Lines
<1>3. Content(st[2]) \in [Symbols -> Texts] /\ Nothing \in [Symbols -> Texts]
    BY <1>2, ContentType, TextsAssumption DEF Nothing
<1>4. st[2] \in Seq(AutoLine) \cup {Absent}
    BY <1>2 DEF OldFile, AutoConf
<1>5. disk \in Disks /\ disk.auto = st[2]
    BY <1>1, <1>2, <1>3, <1>4 DEF Disks, Lines
<1>6. <<>> \in Lines
    BY DEF Lines, AnyLines
<1> QED BY <1>2, <1>5, <1>6 DEF FilesInit, FilesInv, TypeOK, Written, InOrder, InUse

LEMMA SomeLines == <<>> \in Lines /\ Absent \in Lines /\ AnyLines \subseteq Lines
<1>1. <<>> \in AnyLines
    BY DEF AnyLines
<1> QED BY <1>1 DEF Lines

LEMMA FilesStep == FilesInv /\ [FilesNext]_files => FilesInv'
<1> SUFFICES ASSUME FilesInv, [FilesNext]_files PROVE FilesInv'
    OBVIOUS
<1> USE DEF FilesInv, TypeOK, Written, InOrder
<1>1. CASE \E t \in DOMAIN sources : Opens(t)
    BY <1>1 DEF Opens, InUse, OldFile
<1>2. ASSUME NEW p \in {"hung", "edit", "sync"}, pc = "parsed", Goes(p), p = "sync" => ~disk.fresh
      PROVE  FilesInv'
    BY <1>2 DEF Goes, SameSources, InUse
<1>3. ASSUME NEW lines \in AnyLines, NEW then \in {"none", "edit", "sync"},
             pc \in {"parsed", "edit"}, Saves(lines, then)
      PROVE  FilesInv'
    BY <1>3 DEF Saves, SameSources, InUse, Lines
<1>4. ASSUME NEW lines \in AnyLines, SavesShort(lines)
      PROVE  FilesInv'
    <2>1. disk' \in Disks /\ disk'.auto = disk.auto
        BY <1>4, SomeLines DEF SavesShort, Disks
    <2> QED BY <1>4, <2>1, SomeLines DEF SavesShort, Forgets, SameSources, InUse
<1>5. CASE RenameOld
    <2>1. disk' \in Disks /\ disk'.auto = disk.auto /\ disk'.config = Absent
        BY <1>5, SomeLines DEF RenameOld, Disks
    <2> QED BY <1>5, <2>1 DEF RenameOld, SameSources, InUse
<1>6. CASE RenameNew
    <2>1. disk' \in Disks /\ disk'.auto = disk.auto /\ disk'.fresh = FALSE
        BY <1>6 DEF RenameNew, Disks
    <2> QED BY <1>6, <2>1, SomeLines DEF RenameNew, SameSources, InUse
<1>7. ASSUME NEW m \in Memories, SplitConfig(m)
      PROVE  FilesInv'
    <2>1. AutoConf(AutoLines(m))
        BY WrittenContent
    <2>2. Changed(m, Old(disk.auto)) \in SUBSET Symbols
        BY DEF Changed
    <2> QED BY <1>7, <2>1, <2>2 DEF SplitConfig, SameSources, InUse
<1>8. CASE TouchHeader
    <2>1. disk' \in Disks /\ disk'.auto = disk.auto /\ disk'.config = disk.config
        BY <1>8 DEF TouchHeader, Disks
    <2> QED BY <1>8, <2>1 DEF TouchHeader, SameSources, InUse
<1>9. CASE WriteFiles
    BY <1>9 DEF WriteFiles, SameSources, InUse
<1>10. CASE RenameHeader
    <2>1. Content(want) \in [Symbols -> Texts]
        BY <1>10, ContentType DEF RenameHeader, OldFile
    <2>2. disk' \in Disks /\ disk'.auto = disk.auto /\ disk'.config = disk.config
        BY <1>10, <2>1 DEF RenameHeader, Disks
    <2> QED BY <1>10, <2>2 DEF RenameHeader, SameSources, InUse
<1>11. CASE RenameTristate
    <2>1. [s \in Symbols |-> IF k.ty[s] = "tristate" THEN Content(want)[s] ELSE Unset] \in [Symbols -> Texts]
        BY <1>11, ContentType, TextsAssumption DEF RenameTristate, OldFile
    <2>2. disk' \in Disks /\ disk'.auto = disk.auto /\ disk'.config = disk.config
        BY <1>11, <2>1 DEF RenameTristate, Disks
    <2> QED BY <1>11, <2>2 DEF RenameTristate, SameSources, InUse
<1>12. CASE RenameAuto
    <2>1. want \in Seq(AutoLine)
        BY <1>12 DEF RenameAuto, AutoConf
    <2>2. disk' \in Disks /\ disk'.auto = want
        BY <1>12, <2>1 DEF RenameAuto, Disks
    <2> QED BY <1>12, <2>2, SomeLines DEF RenameAuto, Forgets, SameSources, InUse, OldFile
<1>13. CASE Crash
    BY <1>13, SomeLines DEF Crash, Ends, Forgets, SameSources, InUse
<1>14. CASE Build
    <2>1. disk' \in Disks /\ disk'.auto = disk.auto
        BY <1>14 DEF Build, Disks
    <2> QED BY <1>14, <2>1 DEF Build, SameSources, InUse
<1>15. CASE UNCHANGED files
    BY <1>15 DEF files, InUse
<1> QED BY <1>1, <1>2, <1>3, <1>4, <1>5, <1>6, <1>7, <1>8, <1>9, <1>10, <1>11, <1>12, <1>13, <1>14, <1>15
        DEF FilesNext

(* The file the user's configuration is in is replaced by a rename, and     *)
(* only once the old one has its own name (conf_write), so that no kill of  *)
(* any run, whatever it saves, loses the last complete configuration.       *)
THEOREM ConfigStays == FilesSpec => ConfigKept
<1>1. FilesInv /\ [FilesNext]_files => [disk.config # Absent => disk.config \in {disk'.config, disk'.old}]_files
    <2> SUFFICES ASSUME FilesInv, FilesNext, disk.config # Absent
                 PROVE  disk.config \in {disk'.config, disk'.old}
        BY DEF files
    <2> USE DEF FilesInv, TypeOK, InOrder, Disks
    <2>1. CASE RenameOld
        BY <2>1 DEF RenameOld
    <2>2. CASE RenameNew
        BY <2>2 DEF RenameNew
    <2>3. CASE ~RenameOld /\ ~RenameNew
        <3>1. disk'.config = disk.config
            BY <2>3 DEF FilesNext, Opens, Goes, Saves, SavesShort, SplitConfig, TouchHeader, WriteFiles,
                        RenameHeader, RenameTristate, RenameAuto, Crash, Ends, Build
        <3> QED BY <3>1
    <2> QED BY <2>1, <2>2, <2>3
<1> QED BY FilesStart, FilesStep, <1>1, PTL DEF FilesSpec, ConfigKept

(***************************************************************************)
(* The promise to the build                                                 *)
(***************************************************************************)

LEMMA SeenType ==
    ASSUME NEW f \in [Symbols -> Texts]
    PROVE  Seen(f) \in [Symbols -> Texts]
BY TextsAssumption DEF Seen

(* What is seen of a file depends on its lines and on the versions only.    *)
LEMMA SeenNext ==
    ASSUME sources' = sources
    PROVE  /\ AutoSeen' = Seen(Content(disk'.auto))
           /\ Seen(disk.header)' = Seen(disk'.header)
           /\ Seen(disk.built)' = Seen(disk'.built)
           /\ WantSeen' = IF pc' \in {"touch", "files", "header", "tristate"}
                          THEN Seen(Content(want')) ELSE Seen(Content(disk'.auto))
<1>1. AutoSeen' = Seen(Content(disk'.auto))
    BY DEF AutoSeen, Seen, Legible, Content
<1>2. Seen(disk.header)' = Seen(disk'.header)
    BY DEF Seen, Legible
<1>3. Seen(disk.built)' = Seen(disk'.built)
    BY DEF Seen, Legible
<1>4. Seen(Content(want))' = Seen(Content(want'))
    BY DEF Seen, Legible, Content
<1> QED BY <1>1, <1>2, <1>3, <1>4 DEF WantSeen

LEMMA SyncStart == FilesInit => Sync!Init
<1> SUFFICES ASSUME FilesInit PROVE Sync!Init
    OBVIOUS
<1>1. FilesInv
    BY FilesStart
<1>2. AutoSeen \in [Symbols -> Texts]
    BY <1>1, ContentType, SeenType DEF FilesInv, Written, AutoSeen
<1>3. /\ disk.header = Content(disk.auto) /\ disk.built = Content(disk.auto)
      /\ disk.touched = {} /\ disk.fresh = FALSE /\ left = {} /\ pc = "none"
    BY DEF FilesInit
<1> QED BY <1>2, <1>3 DEF Sync!Init, AutoSeen, WantSeen, Stage

LEMMA SyncBegins ==
    ASSUME FilesInv, NEW m \in Memories, SplitConfig(m)
    PROVE  Sync!Begin
<1> USE DEF SplitConfig
<1>1. InUse /\ OldFile(disk.auto) /\ ~disk.fresh
    BY DEF FilesInv, TypeOK, Written, InOrder
<1>2. sources' = sources /\ disk' = disk /\ want' = AutoLines(m) /\ left' = Changed(m, Old(disk.auto))
    BY DEF SameSources
<1>3. Stage = "idle" /\ Stage' = "split"
    BY DEF Stage
<1>4. WantSeen' = Seen(Content(AutoLines(m)))
    BY <1>2, SeenNext
<1>5. WantSeen' \in [Symbols -> Texts]
    BY <1>1, <1>4, WrittenContent, ContentType, SeenType DEF OldFile
<1>6. Sync!Differing \subseteq left'
    BY <1>1, <1>2, <1>4, Coverage DEF Sync!Differing, AutoSeen
<1>7. left' \in SUBSET Symbols
    BY <1>2 DEF Changed
<1>8. /\ AutoSeen' = AutoSeen /\ Seen(disk.header)' = Seen(disk.header) /\ Seen(disk.built)' = Seen(disk.built)
      /\ disk'.touched = disk.touched /\ disk'.fresh = disk.fresh
    BY <1>2, SeenNext DEF AutoSeen
<1> QED BY <1>1, <1>3, <1>5, <1>6, <1>7, <1>8 DEF Sync!Begin

(* The steps that touch none of the build's files.                          *)
LEMMA SyncIdles ==
    ASSUME FilesInv, sources' = sources, disk' = disk \/ disk' = [disk EXCEPT !.old = disk'.old, !.config = disk'.config]
                                    \/ disk' = [disk EXCEPT !.defconfig = disk'.defconfig]
                                    \/ disk' = [disk EXCEPT !.tristate = disk'.tristate],
           want' = want \/ Stage = "idle", left' = left, Stage' = Stage
    PROVE  UNCHANGED Sync!vars
<1>1. /\ disk'.auto = disk.auto /\ disk'.header = disk.header /\ disk'.built = disk.built
      /\ disk'.touched = disk.touched /\ disk'.fresh = disk.fresh
    BY DEF FilesInv, TypeOK, Disks
<1>2. /\ AutoSeen' = AutoSeen /\ Seen(disk.header)' = Seen(disk.header) /\ Seen(disk.built)' = Seen(disk.built)
    BY <1>1, SeenNext DEF AutoSeen
<1>3. WantSeen' = WantSeen
    BY <1>1, <1>2, SeenNext DEF WantSeen, Stage, AutoSeen
<1> QED BY <1>1, <1>2, <1>3 DEF Sync!vars

LEMMA SyncSteps == FilesInv /\ [FilesNext]_files => [Sync!Next]_Sync!vars
<1> SUFFICES ASSUME FilesInv, [FilesNext]_files PROVE Sync!Next \/ UNCHANGED Sync!vars
    OBVIOUS
<1> USE DEF Stage
<1>0. disk \in Disks /\ left \in SUBSET Symbols /\ (left # {} => pc = "touch")
      /\ goal \in {"none", "edit", "sync"}
    BY DEF FilesInv, TypeOK, InOrder
<1>1. CASE \E t \in DOMAIN sources : Opens(t)
    <2>1. sources' = sources /\ disk' = disk /\ left' = left /\ want' = want /\ Stage' = Stage
        BY <1>1 DEF Opens
    <2> QED BY <2>1, SyncIdles
<1>2. ASSUME NEW p \in {"hung", "edit", "sync"}, pc = "parsed", Goes(p)
      PROVE  UNCHANGED Sync!vars
    <2>1. sources' = sources /\ disk' = disk /\ left' = left /\ want' = want /\ Stage' = Stage
        BY <1>2 DEF Goes, SameSources
    <2> QED BY <2>1, SyncIdles
<1>3. ASSUME NEW lines \in AnyLines, NEW then \in {"none", "edit", "sync"},
             pc \in {"parsed", "edit"}, Saves(lines, then)
      PROVE  UNCHANGED Sync!vars
    <2>1. sources' = sources /\ disk' = disk /\ left' = left /\ want' = want /\ Stage' = Stage
        BY <1>3 DEF Saves, SameSources
    <2> QED BY <2>1, SyncIdles
<1>4. ASSUME NEW lines \in AnyLines, pc = "parsed", SavesShort(lines)
      PROVE  UNCHANGED Sync!vars
    <2>1. /\ sources' = sources /\ disk' = [disk EXCEPT !.defconfig = disk'.defconfig]
          /\ left' = left /\ Stage = "idle" /\ Stage' = "idle"
        BY <1>0, <1>4 DEF SavesShort, Forgets, SameSources, Disks
    <2> QED BY <2>1, SyncIdles
<1>5. CASE RenameOld
    <2>1. /\ sources' = sources /\ disk' = [disk EXCEPT !.old = disk'.old, !.config = disk'.config]
          /\ left' = left /\ want' = want /\ Stage' = Stage
        BY <1>0, <1>5 DEF RenameOld, SameSources, Disks
    <2> QED BY <2>1, SyncIdles
<1>6. CASE RenameNew
    <2>1. /\ sources' = sources /\ left' = left /\ Stage = "idle" /\ Stage' = "idle"
          /\ disk'.auto = disk.auto /\ disk'.header = disk.header /\ disk'.built = disk.built
          /\ disk'.touched = disk.touched /\ disk'.fresh = FALSE
        BY <1>0, <1>6 DEF RenameNew, SameSources, Disks
    <2>2. /\ AutoSeen' = AutoSeen /\ Seen(disk.header)' = Seen(disk.header)
          /\ Seen(disk.built)' = Seen(disk.built)
        BY <2>1, SeenNext DEF AutoSeen
    <2>3. WantSeen' = WantSeen
        BY <2>1, SeenNext DEF WantSeen, AutoSeen
    <2>4. Sync!Save
        BY <2>1, <2>2, <2>3 DEF Sync!Save
    <2> QED BY <2>4 DEF Sync!Next
<1>7. ASSUME NEW m \in Memories, SplitConfig(m)
      PROVE  Sync!Next
    BY <1>7, SyncBegins DEF Sync!Next
<1>8. CASE TouchHeader
    <2>1. PICK s \in left : disk' = [disk EXCEPT !.touched = @ \cup {s}] /\ left' = left \ {s}
        BY <1>8 DEF TouchHeader
    <2>2. /\ sources' = sources /\ want' = want /\ pc' = pc /\ Stage = "split" /\ Stage' = "split"
          /\ disk'.auto = disk.auto /\ disk'.header = disk.header /\ disk'.built = disk.built
          /\ disk'.touched = disk.touched \cup {s} /\ disk'.fresh = disk.fresh
        BY <1>0, <1>8, <2>1 DEF TouchHeader, SameSources, Disks
    <2>3. /\ AutoSeen' = AutoSeen /\ Seen(disk.header)' = Seen(disk.header)
          /\ Seen(disk.built)' = Seen(disk.built) /\ WantSeen' = WantSeen
        BY <2>2, SeenNext DEF AutoSeen, WantSeen
    <2>4. Sync!Touch(s)
        BY <2>1, <2>2, <2>3 DEF Sync!Touch
    <2> QED BY <1>0, <2>1, <2>4 DEF Sync!Next
<1>9. CASE WriteFiles
    <2>1. sources' = sources /\ disk' = disk /\ left' = left /\ want' = want /\ Stage' = Stage
        BY <1>9 DEF WriteFiles, SameSources
    <2> QED BY <2>1, SyncIdles
<1>10. CASE RenameHeader
    <2>1. /\ sources' = sources /\ want' = want /\ Stage = "split" /\ Stage' = "header"
          /\ left = {} /\ left' = left
          /\ disk'.auto = disk.auto /\ disk'.header = Content(want) /\ disk'.built = disk.built
          /\ disk'.touched = disk.touched /\ disk'.fresh = disk.fresh
          /\ pc = "files" /\ pc' = "header"
        BY <1>0, <1>10 DEF RenameHeader, SameSources, Disks
    <2>2. /\ AutoSeen' = AutoSeen /\ Seen(disk.header)' = WantSeen
          /\ Seen(disk.built)' = Seen(disk.built) /\ WantSeen' = WantSeen
        BY <2>1, SeenNext DEF AutoSeen, WantSeen
    <2>3. Sync!WriteHeader
        BY <2>1, <2>2 DEF Sync!WriteHeader
    <2> QED BY <2>3 DEF Sync!Next
<1>11. CASE RenameTristate
    <2>1. /\ sources' = sources /\ disk' = [disk EXCEPT !.tristate = disk'.tristate]
          /\ left' = left /\ want' = want /\ Stage' = Stage
        BY <1>0, <1>11 DEF RenameTristate, SameSources, Disks
    <2> QED BY <2>1, SyncIdles
<1>12. CASE RenameAuto
    <2>1. /\ sources' = sources /\ Stage = "header" /\ Stage' = "idle" /\ left' = left
          /\ disk'.auto = want /\ disk'.header = disk.header /\ disk'.built = disk.built
          /\ disk'.touched = disk.touched /\ disk'.fresh = TRUE
          /\ pc = "tristate" /\ pc' = "none"
        BY <1>0, <1>12 DEF RenameAuto, Forgets, SameSources, Disks
    <2>2. /\ AutoSeen' = WantSeen /\ WantSeen' = WantSeen /\ Seen(disk.header)' = Seen(disk.header)
          /\ Seen(disk.built)' = Seen(disk.built)
        BY <2>1, SeenNext DEF WantSeen
    <2>3. Sync!WriteAuto
        BY <2>1, <2>2 DEF Sync!WriteAuto
    <2> QED BY <2>3 DEF Sync!Next
<1>13. CASE Crash
    <2>1. /\ sources' = sources /\ disk' = disk /\ left' = {} /\ Stage' = "idle" /\ pc' = "none"
        BY <1>13 DEF Crash, Ends, Forgets, SameSources
    <2>2. CASE Stage = "idle"
        <3>1. left' = left
            BY <1>0, <2>1, <2>2
        <3> QED BY <2>1, <2>2, <3>1, SyncIdles
    <2>3. CASE Stage # "idle"
        <3>1. /\ AutoSeen' = AutoSeen /\ Seen(disk.header)' = Seen(disk.header)
              /\ Seen(disk.built)' = Seen(disk.built) /\ WantSeen' = AutoSeen
            BY <2>1, SeenNext DEF AutoSeen
        <3>2. Sync!Stop
            BY <2>1, <2>3, <3>1 DEF Sync!Stop
        <3> QED BY <3>2 DEF Sync!Next
    <2> QED BY <2>2, <2>3
<1>14. CASE Build
    <2>1. /\ sources' = sources /\ want' = want /\ left' = left /\ pc = "none" /\ pc' = "none"
          /\ disk'.auto = disk.auto /\ disk'.header = disk.header
          /\ disk'.built = [s \in Symbols |-> IF s \in disk.touched THEN disk.header[s] ELSE disk.built[s]]
          /\ disk'.touched = {} /\ disk'.fresh = disk.fresh /\ disk.fresh
        BY <1>0, <1>14 DEF Build, SameSources, Disks
    <2>2. /\ AutoSeen' = AutoSeen /\ WantSeen' = WantSeen /\ Seen(disk.header)' = Seen(disk.header)
        BY <2>1, SeenNext DEF AutoSeen, WantSeen
    <2>3. Seen(disk.built)' = [s \in Symbols |-> IF s \in disk.touched THEN Seen(disk.header)[s]
                                                ELSE Seen(disk.built)[s]]
        <3>1. Seen(disk.built)' = Seen(disk'.built)
            BY <2>1, SeenNext
        <3> QED BY <2>1, <3>1 DEF Seen
    <2>4. Sync!Build
        BY <2>1, <2>2, <2>3 DEF Sync!Build
    <2> QED BY <2>4 DEF Sync!Next
<1>15. CASE UNCHANGED files
    <2>1. sources' = sources /\ disk' = disk /\ left' = left /\ want' = want /\ Stage' = Stage
        BY <1>15 DEF files
    <2> QED BY <2>1, SyncIdles
<1> QED BY <1>1, <1>2, <1>3, <1>4, <1>5, <1>6, <1>7, <1>8, <1>9, <1>10, <1>11, <1>12, <1>13, <1>14, <1>15
        DEF FilesNext

(* Whatever values the runs calculate from whatever versions of the sources, *)
(* and wherever they are killed, conf_write_autoconf touches the header of  *)
(* every symbol whose value the build would see change, before autoconf.h   *)
(* and auto.conf are replaced, in this order.                               *)
THEOREM FilesKeepSync == FilesSpec => SyncSpec
<1>1. FilesInv /\ [FilesNext]_files => [Sync!Next]_Sync!vars
    BY SyncSteps
<1> QED BY FilesStart, FilesStep, SyncStart, <1>1, PTL DEF FilesSpec, SyncSpec, Sync!Spec

(***************************************************************************)
(* What the build may rely on                                               *)
(***************************************************************************)

LEMMA SyncInvStarts == Sync!Init => Sync!IInv
<1> SUFFICES ASSUME Sync!Init PROVE Sync!IInv
    OBVIOUS
<1>1. Sync!BuiltAsAuto
    BY DEF Sync!Init, Sync!BuiltAsAuto
<1>2. Sync!NothingForgotten /\ Sync!AllTouched /\ Sync!FreshIsDone
    BY DEF Sync!Init, Sync!NothingForgotten, Sync!AllTouched, Sync!FreshIsDone
<1> QED BY <1>1, <1>2 DEF Sync!IInv

LEMMA SyncInvStays == Sync!IInv /\ [Sync!Next]_Sync!vars => Sync!IInv'
<1> SUFFICES ASSUME Sync!IInv, [Sync!Next]_Sync!vars PROVE Sync!IInv'
    OBVIOUS
<1> USE DEF Sync!IInv, Sync!BuiltAsAuto, Sync!NothingForgotten, Sync!AllTouched, Sync!FreshIsDone
<1>1. CASE Sync!Begin
    BY <1>1 DEF Sync!Begin, Sync!Differing
<1>2. ASSUME NEW s \in Symbols, Sync!Touch(s) PROVE Sync!IInv'
    BY <1>2 DEF Sync!Touch
<1>3. CASE Sync!WriteHeader
    BY <1>3 DEF Sync!WriteHeader
<1>4. CASE Sync!WriteAuto
    <2>1. Sync!BuiltAsAuto'
        BY <1>4 DEF Sync!WriteAuto
    <2>2. Sync!NothingForgotten' /\ Sync!AllTouched' /\ Sync!FreshIsDone'
        BY <1>4 DEF Sync!WriteAuto
    <2> QED BY <2>1, <2>2
<1>5. CASE Sync!Stop
    BY <1>5 DEF Sync!Stop
<1>6. CASE Sync!Save
    BY <1>6 DEF Sync!Save
<1>7. CASE Sync!Build
    <2>1. \A s \in Symbols : Seen(disk.built)'[s] = AutoSeen'[s]
        BY <1>7 DEF Sync!Build
    <2> QED BY <2>1, <1>7 DEF Sync!Build
<1>8. CASE UNCHANGED Sync!vars
    BY <1>8 DEF Sync!vars
<1> QED BY <1>1, <1>2, <1>3, <1>4, <1>5, <1>6, <1>7, <1>8 DEF Sync!Next

(* An object that the next make does not compile again was compiled with    *)
(* the value that autoconf.h gives it now, whatever the runs calculated and *)
(* wherever they were killed.                                               *)
THEOREM ObjectsCurrent == FilesSpec => []Sync!NoStaleObject
<1>1. Sync!IInv => Sync!NoStaleObject
    BY DEF Sync!IInv, Sync!BuiltAsAuto, Sync!FreshIsDone, Sync!NoStaleObject
<1>2. SyncSpec => []Sync!NoStaleObject
    BY SyncInvStarts, SyncInvStays, <1>1, PTL DEF SyncSpec, Sync!Spec
<1> QED BY <1>2, FilesKeepSync

(***************************************************************************)
(* What a simplified operand is worth                                       *)
(***************************************************************************)

Atoms == [op : {"sym"}, s : AllSymbols] \cup [op : Relations, s : AllSymbols, t : AllSymbols]
Operands == Atoms \cup [op : {"not"}, l : Atoms]

OperandValue(ty, v, modules, e) ==
    IF e.op = "not" THEN yes - AtomValue(ty, v, modules, e.l) ELSE AtomValue(ty, v, modules, e)

LEMMA ConstantTexts ==
    ASSUME NEW ty, NEW v, NEW modules, Calculated(ty, v, modules), NEW c \in ConstSymbols
    PROVE  /\ ty[c] = "unknown" /\ StringValue(ty, v, modules, c) = c
           /\ OperandValue(ty, v, modules, Sym("y")) = yes
           /\ OperandValue(ty, v, modules, Sym("n")) = no
<1>1. \A d \in ConstSymbols : ty[d] = "unknown" /\ v[d] = ConstValue(d)
    BY DEF Calculated
<1>2. \A d : /\ ConstValue(d).val = d
              /\ ConstValue(d).tri = CASE d = "y" -> yes [] d = "m" -> mod [] OTHER -> no
    BY DEF ConstValue
<1>3. StringValue(ty, v, modules, c) = c
    BY <1>1, <1>2 DEF StringValue, Logical
<1>4. "y" \in ConstSymbols /\ "n" \in ConstSymbols
    BY DEF ConstSymbols, YMN
<1>5. ConstValue("y").tri = yes /\ ConstValue("n").tri = no
    BY <1>2
<1>6. v["y"].tri = yes /\ v["n"].tri = no
    BY <1>1, <1>4, <1>5
<1> QED BY <1>1, <1>3, <1>6 DEF OperandValue, AtomValue, Sym

LEMMA LetterTexts ==
    ASSUME NEW ty, NEW v, NEW modules, Calculated(ty, v, modules),
           NEW s \in AllSymbols, ty[s] \in Logical
    PROVE  \/ v[s].tri = no /\ StringValue(ty, v, modules, s) = "n"
           \/ v[s].tri = mod /\ StringValue(ty, v, modules, s) = "m" /\ ty[s] = "tristate"
           \/ v[s].tri = yes /\ StringValue(ty, v, modules, s) = "y"
BY DEF Calculated, StringValue, Tri, no, mod, yes

(* A symbol that is tested for a constant. *)
LEMMA Tests ==
    ASSUME NEW ty, NEW v, NEW modules, Calculated(ty, v, modules),
           NEW s \in AllSymbols, ty[s] \in Logical,
           NEW c \in ConstSymbols, c \notin DOMAIN Num[0]
    PROVE  /\ AtomValue(ty, v, modules, Cmp("eq", s, c))
                  = IF StringValue(ty, v, modules, s) = c THEN yes ELSE no
           /\ AtomValue(ty, v, modules, Cmp("ne", s, c))
                  = IF StringValue(ty, v, modules, s) = c THEN no ELSE yes
<1> DEFINE x == StringValue(ty, v, modules, s)
<1>1. ty[c] = "unknown" /\ StringValue(ty, v, modules, c) = c
    BY ConstantTexts
<1>2. x \in DOMAIN Rank /\ c \in DOMAIN Rank
    BY RankAssumption DEF Calculated
<1>3. ~HasNumber("unknown", c)
    BY DEF HasNumber, Base, Logical
<1>4. Compare(<<ty[s], "unknown">>, <<x, c>>) = Rank[x] - Rank[c]
    BY <1>3 DEF Compare, StrCmp
<1>5. (Rank[x] - Rank[c] = 0) <=> (x = c)
    BY <1>2, RankAssumption
<1>6. \A op \in {"eq", "ne"} : /\ Cmp(op, s, c).op = op
                               /\ Compared(ty, v, modules, Cmp(op, s, c)) = Rank[x] - Rank[c]
    BY <1>1, <1>4 DEF Cmp, Compared
<1>7. AtomValue(ty, v, modules, Cmp("eq", s, c)) = IF Rank[x] - Rank[c] = 0 THEN yes ELSE no
    BY <1>6 DEF AtomValue, Satisfies
<1>8. AtomValue(ty, v, modules, Cmp("ne", s, c)) = IF Rank[x] - Rank[c] = 0 THEN no ELSE yes
    BY <1>6 DEF AtomValue, Satisfies
<1> QED BY <1>5, <1>7, <1>8

LEMMA LetterTests ==
    ASSUME NEW ty, NEW v, NEW modules, Calculated(ty, v, modules),
           NEW s \in AllSymbols, ty[s] \in Logical, NEW c \in YMN
    PROVE  /\ c \in ConstSymbols /\ c \notin DOMAIN Num[0]
           /\ OperandValue(ty, v, modules, Cmp("eq", s, c))
                  = IF StringValue(ty, v, modules, s) = c THEN yes ELSE no
           /\ OperandValue(ty, v, modules, Cmp("ne", s, c))
                  = IF StringValue(ty, v, modules, s) = c THEN no ELSE yes
<1>1. c \in ConstSymbols /\ c \notin DOMAIN Num[0]
    BY NumAssumption DEF ConstSymbols
<1>2. Cmp("eq", s, c).op = "eq" /\ Cmp("ne", s, c).op = "ne"
    BY DEF Cmp
<1> QED BY <1>1, <1>2, Tests DEF OperandValue

LEMMA ThirdLetter ==
    ASSUME NEW c \in YMN, NEW d \in YMN, c # d
    PROVE  /\ Third(c, d) \in YMN \ {c, d}
           /\ \A u \in YMN : u \in {c, d, Third(c, d)}
<1>1. \E u \in YMN : u \notin {c, d}
    BY DEF YMN
<1>2. Third(c, d) \in YMN \ {c, d}
    BY <1>1 DEF Third
<1> QED BY <1>2 DEF YMN

LEMMA Shape ==
    ASSUME NEW a \in Operands, NEW s
    PROVE  /\ a.op = "sym" /\ a.s = s => a = Sym(s)
           /\ a.op \in {"eq", "ne"} /\ a.s = s => a = Cmp(a.op, s, a.t)
           /\ a.op \in {"sym", "eq", "ne"} => \A S : About(a, S) = a.s
<1>1. CASE a \in [op : {"sym"}, s : AllSymbols]
    BY <1>1 DEF Sym, About, Joinable
<1>2. CASE a \in [op : Relations, s : AllSymbols, t : AllSymbols]
    BY <1>2 DEF Cmp, About, Joinable, Relations
<1>3. CASE a \in [op : {"not"}, l : Atoms]
    BY <1>3
<1> QED BY <1>1, <1>2, <1>3 DEF Operands, Atoms

LEMMA OrJoins ==
    ASSUME NEW ty, NEW v, NEW modules, Calculated(ty, v, modules),
           NEW s \in AllSymbols, ty[s] \in Logical,
           NEW a \in Operands, NEW b \in Operands, a # b,
           About(a, Joinable) = s, About(b, {"sym"}) = s,
           JoinOr(ty[s], s, a, b) # Nil
    PROVE  OperandValue(ty, v, modules, JoinOr(ty[s], s, a, b))
               = TriMax(OperandValue(ty, v, modules, a), OperandValue(ty, v, modules, b))
<1> DEFINE V(e) == OperandValue(ty, v, modules, e)
           x == StringValue(ty, v, modules, s)
<1>1. \/ v[s].tri = no /\ x = "n"
      \/ v[s].tri = mod /\ x = "m" /\ ty[s] = "tristate"
      \/ v[s].tri = yes /\ x = "y"
    BY LetterTexts
<1>2. x \in YMN
    BY <1>1 DEF YMN
<1>3. CASE ty[s] = "tristate" /\ a.op = "eq" /\ b.op = "eq" /\ {a.t, b.t} \subseteq YMN
    <2>1. JoinOr(ty[s], s, a, b) = Cmp("ne", s, Third(a.t, b.t))
        BY <1>3 DEF JoinOr
    <2>2. a = Cmp("eq", s, a.t) /\ b = Cmp("eq", s, b.t)
        BY <1>3, Shape
    <2>3. a.t # b.t /\ a.t \in YMN /\ b.t \in YMN
        BY <1>3, <2>2
    <2>4. Third(a.t, b.t) \in YMN \ {a.t, b.t} /\ x \in {a.t, b.t, Third(a.t, b.t)}
        BY <1>2, <2>3, ThirdLetter
    <2>5. V(a) = IF x = a.t THEN yes ELSE no
        BY <2>2, <2>3, LetterTests
    <2>6. V(b) = IF x = b.t THEN yes ELSE no
        BY <2>2, <2>3, LetterTests
    <2>7. V(Cmp("ne", s, Third(a.t, b.t))) = IF x = Third(a.t, b.t) THEN no ELSE yes
        BY <2>4, LetterTests
    <2> QED BY <2>1, <2>3, <2>4, <2>5, <2>6, <2>7 DEF TriMax, no, yes
<1>4. CASE ty[s] = "bool" /\ {a, b} = {Sym(s), Not(Sym(s))}
    <2>1. JoinOr(ty[s], s, a, b) = Sym("y")
        BY <1>4 DEF JoinOr
    <2>2. V(Sym("y")) = yes
        BY ConstantTexts DEF ConstSymbols, YMN
    <2>3. V(Sym(s)) = v[s].tri /\ V(Not(Sym(s))) = yes - v[s].tri
        BY DEF OperandValue, AtomValue, Sym, Not
    <2>4. TriMax(V(a), V(b)) = TriMax(V(Sym(s)), V(Not(Sym(s))))
                \/ TriMax(V(a), V(b)) = TriMax(V(Not(Sym(s))), V(Sym(s)))
        BY <1>4
    <2>5. v[s].tri = no \/ v[s].tri = yes
        BY <1>1, <1>4
    <2> QED BY <2>1, <2>2, <2>3, <2>4, <2>5 DEF TriMax, no, yes
<1> QED BY <1>3, <1>4 DEF JoinOr

LEMMA AndJoins ==
    ASSUME NEW ty, NEW v, NEW modules, Calculated(ty, v, modules),
           NEW s \in AllSymbols, ty[s] \in Logical,
           NEW a \in Operands, NEW b \in Operands, a # b,
           About(a, Joinable) = s, About(b, {"sym"}) = s,
           \A e \in {a, b} : e.op \in {"eq", "ne"} => e.t \notin DOMAIN Num[0],
           JoinAnd(ty[s], s, a, b) # Nil
    PROVE  OperandValue(ty, v, modules, JoinAnd(ty[s], s, a, b))
               = TriMin(OperandValue(ty, v, modules, a), OperandValue(ty, v, modules, b))
<1> DEFINE V(e) == OperandValue(ty, v, modules, e)
           x == StringValue(ty, v, modules, s)
           Is(c) == IF x = c THEN yes ELSE no
           Isnt(c) == IF x = c THEN no ELSE yes
<1>1. \/ v[s].tri = no /\ x = "n"
      \/ v[s].tri = mod /\ x = "m" /\ ty[s] = "tristate"
      \/ v[s].tri = yes /\ x = "y"
    BY LetterTexts
<1>2. \A c \in YMN : V(Cmp("eq", s, c)) = Is(c) /\ V(Cmp("ne", s, c)) = Isnt(c)
    BY LetterTests
<1>3. V(Sym(s)) = v[s].tri
    BY DEF OperandValue, AtomValue, Sym
<1>4. "y" \in YMN /\ "m" \in YMN /\ "n" \in YMN /\ x \in YMN
    BY <1>1 DEF YMN
<1>5. \A p, q : {a, b} = {p, q} => /\ {V(a), V(b)} = {V(p), V(q)}
                                    /\ TriMin(V(a), V(b)) \in {TriMin(V(p), V(q)), TriMin(V(q), V(p))}
    OBVIOUS
<1>6. /\ {Sym(s), Cmp("eq", s, "y")} # {Sym(s), Cmp("ne", s, "n")}
      /\ {Sym(s), Cmp("ne", s, "m")} # {Sym(s), Cmp("ne", s, "n")}
    <2>1. /\ Sym(s).op = "sym" /\ Cmp("eq", s, "y").op = "eq" /\ Cmp("ne", s, "n").op = "ne"
          /\ Cmp("ne", s, "n").t = "n" /\ Cmp("ne", s, "m").t = "m"
        BY DEF Sym, Cmp
    <2>2. Cmp("ne", s, "n") \notin {Sym(s), Cmp("eq", s, "y"), Cmp("ne", s, "m")}
        BY <2>1
    <2> QED BY <2>2
<1>7. \A p : {a, b} = {Sym(s), p} => {a.op, b.op} # {"eq", "ne"} /\ ~(a.op = "ne" /\ b.op = "ne")
    BY DEF Sym
<1>8. CASE {a, b} = {Sym(s), Cmp("eq", s, "y")}
    <2>1. JoinAnd(ty[s], s, a, b) = Cmp("eq", s, "y")
        BY <1>8, <1>6, <1>7 DEF JoinAnd
    <2> QED BY <1>1, <1>2, <1>3, <1>4, <1>5, <1>8, <2>1 DEF TriMin, no, mod, yes
<1>9. CASE {a, b} = {Sym(s), Cmp("ne", s, "m")}
    <2>1. JoinAnd(ty[s], s, a, b) = Cmp("eq", s, "y")
        BY <1>9, <1>6, <1>7 DEF JoinAnd
    <2> QED BY <1>1, <1>2, <1>3, <1>4, <1>5, <1>9, <2>1 DEF TriMin, no, mod, yes
<1>10. CASE {a, b} = {Sym(s), Cmp("ne", s, "n")}
    <2>1. JoinAnd(ty[s], s, a, b) = Sym(s)
        BY <1>10, <1>6, <1>7 DEF JoinAnd
    <2> QED BY <1>1, <1>2, <1>3, <1>4, <1>5, <1>10, <2>1 DEF TriMin, no, mod, yes
<1>11. CASE ty[s] = "tristate" /\ {a.op, b.op} = {"eq", "ne"} /\ {a.t, b.t} \subseteq ConstSymbols
    <2> DEFINE e == IF a.op = "eq" THEN a ELSE b
               d == IF a.op = "eq" THEN b ELSE a
    <2>1. e.op = "eq" /\ d.op = "ne" /\ {a, b} = {e, d} /\ {e.t, d.t} \subseteq ConstSymbols
        BY <1>11
    <2>2. a.op # "sym" /\ b.op # "sym" /\ Sym(s).op = "sym"
        BY <1>11 DEF Sym
    <2>3. JoinAnd(ty[s], s, a, b) = JoinEqNe(e, d)
        <3>1. \A p : {a, b} # {Sym(s), p}
            BY <2>2
        <3> QED BY <1>11, <3>1 DEF JoinAnd
    <2>4. e \in Operands /\ d \in Operands /\ e.s = s /\ d.s = s
        BY <1>11, Shape
    <2>5. e = Cmp("eq", s, e.t) /\ d = Cmp("ne", s, d.t)
        BY <2>1, <2>4, Shape
    <2>6. e.t \notin DOMAIN Num[0] /\ d.t \notin DOMAIN Num[0]
        BY <2>1
    <2>7. V(e) = Is(e.t)
        <3> HIDE DEF e, d
        <3> QED BY <2>1, <2>5, <2>6, Tests DEF OperandValue
    <2>8. V(d) = Isnt(d.t)
        <3> HIDE DEF e, d
        <3> QED BY <2>1, <2>5, <2>6, Tests DEF OperandValue
    <2>9. V(Sym("n")) = no
        BY ConstantTexts DEF ConstSymbols, YMN
    <2>10. V(JoinEqNe(e, d)) = TriMin(V(e), V(d)) /\ V(JoinEqNe(e, d)) = TriMin(V(d), V(e))
        <3> HIDE DEF e, d
        <3> QED BY <2>7, <2>8, <2>9 DEF JoinEqNe, TriMin, no, yes
    <2> QED BY <1>5, <2>1, <2>3, <2>10
<1>12. CASE ty[s] = "tristate" /\ a.op = "ne" /\ b.op = "ne" /\ {a.t, b.t} \subseteq YMN
    <2>1. a = Cmp("ne", s, a.t) /\ b = Cmp("ne", s, b.t)
        BY <1>12, Shape
    <2>2. a.t # b.t /\ a.t \in YMN /\ b.t \in YMN
        BY <1>12, <2>1
    <2>3. JoinAnd(ty[s], s, a, b) = Cmp("eq", s, Third(a.t, b.t))
        <3>1. \A p : {a, b} # {Sym(s), p}
            BY <1>12 DEF Sym
        <3>2. {a.op, b.op} # {"eq", "ne"}
            BY <1>12
        <3> QED BY <1>12, <3>1, <3>2 DEF JoinAnd
    <2>4. Third(a.t, b.t) \in YMN \ {a.t, b.t} /\ x \in {a.t, b.t, Third(a.t, b.t)}
        BY <1>4, <2>2, ThirdLetter
    <2>5. V(a) = Isnt(a.t) /\ V(b) = Isnt(b.t)
        BY <1>2, <2>1, <2>2
    <2>6. V(Cmp("eq", s, Third(a.t, b.t))) = Is(Third(a.t, b.t))
        BY <1>2, <2>4
    <2> QED BY <2>2, <2>3, <2>4, <2>5, <2>6 DEF TriMin, no, yes
<1> QED BY <1>8, <1>9, <1>10, <1>11, <1>12 DEF JoinAnd

(* Two operands that the simplification joins are worth, together, what     *)
(* the one it leaves is worth (expr_join_or, expr_join_and), for every       *)
(* value their symbol can have.  Operands that are equal are joined before   *)
(* (expr_eq).  In a && no word may be read as a number: a = "1" && a != "m"  *)
(* becomes a = "1", and m is compared with "1" as the number 1.             *)
THEOREM JoinsKeepValue ==
    ASSUME NEW ty, NEW v, NEW modules, Calculated(ty, v, modules),
           NEW op \in {"or", "and"}, NEW a \in Operands, NEW b \in Operands, a # b,
           op = "and" => \A e \in {a, b} : e.op \in {"eq", "ne"} => e.t \notin DOMAIN Num[0],
           JoinAbout(ty, About(a, Joinable), op, a, b) # Nil
    PROVE  LET V(e) == OperandValue(ty, v, modules, e)
           IN  V(JoinAbout(ty, About(a, Joinable), op, a, b))
                   = IF op = "or" THEN TriMax(V(a), V(b)) ELSE TriMin(V(a), V(b))
<1> DEFINE s == About(a, Joinable)
<1>1. s # "none" /\ About(b, {"sym"}) = s /\ ty[s] \in Logical
    BY DEF JoinAbout
<1>2. s \in AllSymbols
    <2>1. CASE a \in Atoms
        BY <1>1, <2>1 DEF Atoms, About, Relations
    <2>2. CASE a \in [op : {"not"}, l : Atoms]
        BY <1>1, <2>2 DEF Atoms, About, Joinable, Relations
    <2> QED BY <2>1, <2>2 DEF Operands
<1>3. CASE op = "or"
    <2>1. JoinAbout(ty, s, op, a, b) = JoinOr(ty[s], s, a, b)
        BY <1>1, <1>3 DEF JoinAbout
    <2> HIDE DEF s
    <2> QED BY <1>1, <1>2, <1>3, <2>1, OrJoins DEF s
<1>4. CASE op = "and"
    <2>1. JoinAbout(ty, s, op, a, b) = JoinAnd(ty[s], s, a, b)
        BY <1>1, <1>4 DEF JoinAbout
    <2> HIDE DEF s
    <2> QED BY <1>1, <1>2, <1>4, <2>1, AndJoins DEF s
<1> QED BY <1>3, <1>4

LEMMA ComparesIntegers ==
    ASSUME NEW ty, NEW v, NEW modules, Calculated(ty, v, modules),
           NEW e, e.s \in AllSymbols, e.t \in AllSymbols
    PROVE  Compared(ty, v, modules, e) \in Int
<1> DEFINE x == StringValue(ty, v, modules, e.s)
           y == StringValue(ty, v, modules, e.t)
<1>1. x \in DOMAIN Rank /\ y \in DOMAIN Rank
    BY DEF Calculated
<1>2. StrCmp(x, y) \in Int
    BY <1>1, RankAssumption DEF StrCmp
<1>3. \A u, i, j : NumCmp(u, i, j) \in Int
    BY DEF NumCmp
<1> HIDE DEF x, y
<1>4. Compare(<<ty[e.s], ty[e.t]>>, <<x, y>>) \in Int
    BY <1>2, <1>3 DEF Compare
<1> QED BY <1>4 DEF Compared, x, y

(* The two rewritings of expr_transform that change an operand: a bool that *)
(* is compared with y, m or n becomes the symbol, its negation or a         *)
(* constant, and the negation of a comparison the opposite comparison.      *)
THEOREM RewritesKeepValue ==
    ASSUME NEW ty, NEW v, NEW modules, Calculated(ty, v, modules),
           NEW e \in Atoms, e.op \in Relations
    PROVE  LET V(x) == OperandValue(ty, v, modules, x)
           IN  /\ TestsBool(ty, e) => V(BoolTest(e)) = V(e)
               /\ V(Cmp(Negation[e.op], e.s, e.t)) = V(Not(e))
<1> DEFINE V(x) == OperandValue(ty, v, modules, x)
<1>1. e \in [op : Relations, s : AllSymbols, t : AllSymbols]
    BY DEF Atoms, Relations
<1>2. e.s \in AllSymbols /\ e.t \in AllSymbols /\ e = Cmp(e.op, e.s, e.t)
    BY <1>1 DEF Cmp
<1>3. ASSUME TestsBool(ty, e) PROVE V(BoolTest(e)) = V(e)
    <2>1. e.op \in {"eq", "ne"} /\ ty[e.s] = "bool" /\ e.t \in YMN
        BY <1>3 DEF TestsBool
    <2> DEFINE x == StringValue(ty, v, modules, e.s)
    <2>2. \/ v[e.s].tri = no /\ x = "n"
          \/ v[e.s].tri = yes /\ x = "y"
        BY <1>2, <2>1, LetterTexts DEF Logical
    <2>3. V(e) = IF (x = e.t) = (e.op = "eq") THEN yes ELSE no
        <3>1. CASE e.op = "eq"
            BY <1>2, <2>1, <3>1, LetterTests DEF Logical
        <3>2. CASE e.op = "ne"
            BY <1>2, <2>1, <3>2, LetterTests DEF Logical
        <3> QED BY <2>1, <3>1, <3>2
    <2>4. /\ V(Sym("y")) = yes /\ V(Sym("n")) = no
          /\ V(Sym(e.s)) = v[e.s].tri /\ V(Not(Sym(e.s))) = yes - v[e.s].tri
        <3>1. V(Sym("y")) = yes /\ V(Sym("n")) = no
            BY ConstantTexts DEF ConstSymbols, YMN
        <3> QED BY <3>1 DEF OperandValue, AtomValue, Sym, Not
    <2>5. CASE e.t = "m"
        <3>1. BoolTest(e) = Sym(IF e.op = "eq" THEN "n" ELSE "y")
            BY <2>5 DEF BoolTest
        <3> QED BY <2>1, <2>2, <2>3, <2>4, <2>5, <3>1
    <2>6. CASE e.t # "m" /\ (e.t = "y") = (e.op = "eq")
        <3>1. BoolTest(e) = Sym(e.s)
            BY <2>6 DEF BoolTest
        <3> QED BY <2>1, <2>2, <2>3, <2>4, <2>6, <3>1 DEF YMN
    <2>7. CASE e.t # "m" /\ (e.t = "y") # (e.op = "eq")
        <3>1. BoolTest(e) = Not(Sym(e.s))
            BY <2>7 DEF BoolTest
        <3> QED BY <2>1, <2>2, <2>3, <2>4, <2>7, <3>1 DEF YMN, no, yes
    <2> QED BY <2>5, <2>6, <2>7
<1>4. V(Cmp(Negation[e.op], e.s, e.t)) = V(Not(e))
    <2> DEFINE r == Compared(ty, v, modules, e)
               n == Cmp(Negation[e.op], e.s, e.t)
    <2>1. r \in Int
        BY <1>2, ComparesIntegers
    <2>2. Negation[e.op] \in Relations /\ (Satisfies(Negation[e.op], r) <=> ~Satisfies(e.op, r))
        <3>1. /\ Negation["eq"] = "ne" /\ Negation["ne"] = "eq" /\ Negation["lt"] = "ge"
              /\ Negation["ge"] = "lt" /\ Negation["le"] = "gt" /\ Negation["gt"] = "le"
            BY DEF Negation
        <3>2. /\ Satisfies("eq", r) <=> (r = 0)
              /\ Satisfies("ne", r) <=> (r # 0)
              /\ Satisfies("lt", r) <=> (r < 0)
              /\ Satisfies("ge", r) <=> (r >= 0)
              /\ Satisfies("le", r) <=> (r <= 0)
              /\ Satisfies("gt", r) <=> (r > 0)
            BY DEF Satisfies
        <3> HIDE DEF r
        <3>3. /\ Satisfies("ne", r) <=> ~Satisfies("eq", r)
              /\ Satisfies("ge", r) <=> ~Satisfies("lt", r)
              /\ Satisfies("gt", r) <=> ~Satisfies("le", r)
              /\ Satisfies("eq", r) <=> ~Satisfies("ne", r)
              /\ Satisfies("lt", r) <=> ~Satisfies("ge", r)
              /\ Satisfies("le", r) <=> ~Satisfies("gt", r)
            BY <2>1, <3>2
        <3> QED BY <3>1, <3>3 DEF Relations
    <2>3. n.op = Negation[e.op] /\ Compared(ty, v, modules, n) = r
        BY DEF Cmp, Compared
    <2>4. V(n) = IF Satisfies(e.op, r) THEN no ELSE yes
        BY <2>2, <2>3 DEF OperandValue, AtomValue, Relations
    <2>5. V(e) = IF Satisfies(e.op, r) THEN yes ELSE no
        BY DEF OperandValue, AtomValue, Relations
    <2>6. V(Not(e)) = yes - V(e)
        BY DEF OperandValue, Not, Relations
    <2> QED BY <2>4, <2>5, <2>6 DEF no, yes
<1> QED BY <1>3, <1>4
================================================================================
