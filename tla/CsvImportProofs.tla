---------------------------- MODULE CsvImportProofs ----------------------------
(***************************************************************************)
(* Proofs about CsvImport, for any files, chunk size, number of uploads    *)
(* and faults.  The library's induction theorems cannot be instantiated    *)
(* here; the sums are followed through the least counterexample instead,   *)
(* which the well-foundedness of the naturals provides.                    *)
(***************************************************************************)
EXTENDS CsvImport, TLAPS, FiniteSetTheorems, FunctionTheorems, SequenceTheorems,
        NaturalsInduction, WellFoundedInduction

-----------------------------------------------------------------------------
(* Least numbers, and sums of functions. *)

\* A set of numbers that is not empty has a least element.
LEMMA LeastNumber ==
    ASSUME NEW S, S \subseteq Nat, S # {}
    PROVE  \E n \in S : \A m \in S : n <= m
<1> DEFINE Less == {ss \in Nat \X Nat : ss[1] < ss[2]}
<1>1. IsWellFoundedOn(Less, Nat)
  BY NatLessThanWellFounded DEF OpToRel
<1>2. \E x \in S : \A y \in S : ~ (<<y, x>> \in Less)
  <2> HIDE DEF Less
  <2> QED
    BY <1>1, WFMin
<1>3. PICK n \in S : \A m \in S : <<m, n>> \notin Less
  BY <1>2
<1>4. ASSUME NEW m \in S PROVE n <= m
  <2>1. m \in Nat /\ n \in Nat
    OBVIOUS
  <2>2. m < n => <<m, n>> \in Less
    BY <2>1
  <2> QED
    BY <1>3, <2>1, <2>2
<1> QED
  BY <1>4

\* A set of numbers that has 0 and all successors of its elements is all of Nat.
LEMMA AllNumbers ==
    ASSUME NEW S, 0 \in S, \A n \in Nat : n \in S => n + 1 \in S
    PROVE  \A n \in Nat : n \in S
<1> DEFINE Rest == {n \in Nat : n \notin S}
<1> SUFFICES ASSUME Rest # {} PROVE FALSE
  OBVIOUS
<1>1. PICK n \in Rest : \A m \in Rest : n <= m
  <2> HIDE DEF Rest
  <2>1. Rest \subseteq Nat
    BY DEF Rest
  <2> QED
    BY <2>1, LeastNumber
<1>2. n # 0 /\ n - 1 \in Nat
  BY <1>1
<1>3. n - 1 \in S
  BY <1>1, <1>2
<1> QED
  BY <1>1, <1>2, <1>3

\* A set of subsets of S that has {}, and each subset that has an element whose
\* removal leaves one of them, has all.
LEMMA AllSubsets ==
    ASSUME NEW S, IsFiniteSet(S), NEW G, {} \in G,
           \A s \in SUBSET S : s # {} => \E x \in s : s \ {x} \in G => s \in G
    PROVE  \A s \in SUBSET S : s \in G
<1> DEFINE Sizes == {n \in Nat : \A s \in SUBSET S : Cardinality(s) = n => s \in G}
<1>0. ASSUME NEW s \in SUBSET S
      PROVE  /\ IsFiniteSet(s) /\ Cardinality(s) \in Nat /\ (Cardinality(s) = 0 <=> s = {})
             /\ \A x \in s : Cardinality(s \ {x}) = Cardinality(s) - 1
  BY FS_Subset, FS_CardinalityType, FS_EmptySet, FS_RemoveElement
<1>1. 0 \in Sizes
  BY <1>0
<1>2. ASSUME NEW n \in Nat, n \in Sizes PROVE n + 1 \in Sizes
  <2> SUFFICES ASSUME NEW s \in SUBSET S, Cardinality(s) = n + 1 PROVE s \in G
    OBVIOUS
  <2>1. s # {}
    BY <1>0
  <2>2. PICK x \in s : s \ {x} \in G => s \in G
    BY <2>1
  <2>3. s \ {x} \in SUBSET S /\ Cardinality(s \ {x}) = n
    BY <1>0
  <2> QED
    BY <1>2, <2>2, <2>3
<1>3. \A n \in Nat : n \in Sizes
  <2> HIDE DEF Sizes
  <2> QED
    BY <1>1, <1>2, AllNumbers
<1> QED
  BY <1>0, <1>3

\* SumFunctionOnSet by its recursion: g is the sum over each subset.
Pick(s) == CHOOSE x \in s : TRUE
IsSum(g, f, S) ==
    g = [s \in SUBSET S |-> IF s = {} THEN 0 ELSE f[Pick(s)] + g[s \ {Pick(s)}]]
Sums(f, S) == CHOOSE g : IsSum(g, f, S)

LEMMA SumIs ==
    ASSUME NEW f, NEW S
    PROVE  SumFunctionOnSet(f, S) = Sums(f, S)[S]
BY DEF SumFunctionOnSet, FoldFunctionOnSet, MapThenFoldSet, IsSum, Pick, Sums

\* The recursion has a solution on a finite set.
LEMMA SumExists ==
    ASSUME NEW f, NEW S, IsFiniteSet(S)
    PROVE  IsSum(Sums(f, S), f, S)
<1> DEFINE Entry(g, s) == IF s = {} THEN 0 ELSE f[Pick(s)] + g[s \ {Pick(s)}]
           UpTo(g, n) == \A s \in SUBSET S : Cardinality(s) <= n => g[s] = Entry(g, s)
           Solved == {n \in Nat : \E g : DOMAIN g = SUBSET S /\ UpTo(g, n)}
<1>0. ASSUME NEW s \in SUBSET S
      PROVE  /\ Cardinality(s) \in Nat /\ Cardinality(s) <= Cardinality(S)
             /\ s # {} => s \ {Pick(s)} \in SUBSET S /\ Cardinality(s \ {Pick(s)}) = Cardinality(s) - 1
             /\ Cardinality(s) = 0 <=> s = {}
  <2>1. s # {} => Pick(s) \in s
    BY DEF Pick
  <2> QED
    BY <2>1, FS_Subset, FS_CardinalityType, FS_EmptySet, FS_RemoveElement
<1>1. 0 \in Solved
  <2> DEFINE z == [s \in SUBSET S |-> 0]
  <2>1. ASSUME NEW s \in SUBSET S, Cardinality(s) <= 0 PROVE z[s] = Entry(z, s)
    <3>1. Cardinality(s) \in Nat /\ (Cardinality(s) = 0 <=> s = {})
      BY <1>0
    <3>2. s = {}
      BY <2>1, <3>1
    <3> QED
      BY <3>2
  <2>2. DOMAIN z = SUBSET S /\ UpTo(z, 0)
    BY <2>1
  <2> HIDE DEF z, UpTo
  <2> QED
    BY <2>2
<1>2. ASSUME NEW n \in Nat, n \in Solved PROVE n + 1 \in Solved
  <2>1. PICK g : DOMAIN g = SUBSET S /\ UpTo(g, n)
    BY <1>2
  <2> DEFINE h == [s \in SUBSET S |-> IF Cardinality(s) <= n THEN g[s] ELSE Entry(g, s)]
  <2>2. ASSUME NEW s \in SUBSET S, Cardinality(s) <= n + 1 PROVE h[s] = Entry(h, s)
    <3>1. h[s] = Entry(g, s)
      BY <2>1
    <3>2. s # {} => h[s \ {Pick(s)}] = g[s \ {Pick(s)}]
      BY <1>0, <2>2
    <3> QED
      BY <3>1, <3>2
  <2>3. DOMAIN h = SUBSET S /\ UpTo(h, n + 1)
    BY <2>2
  <2> HIDE DEF h, UpTo
  <2> QED
    BY <2>3
<1>3. Cardinality(S) \in Solved
  <2>1. \A n \in Nat : n \in Solved
    <3> HIDE DEF Solved
    <3> QED
      BY <1>1, <1>2, AllNumbers
  <2> QED
    BY <2>1, FS_CardinalityType
<1>4. PICK g : DOMAIN g = SUBSET S /\ \A s \in SUBSET S : g[s] = Entry(g, s)
  BY <1>0, <1>3
<1>5. IsSum([s \in SUBSET S |-> g[s]], f, S)
  <2>1. ASSUME NEW s \in SUBSET S, s # {} PROVE s \ {Pick(s)} \in SUBSET S
    OBVIOUS
  <2> QED
    BY <1>4, <2>1 DEF IsSum
<1> QED
  BY <1>5 DEF Sums

\* The recursion, and what follows from it by induction on the subset.
LEMMA SumSteps ==
    ASSUME NEW S, IsFiniteSet(S)
    PROVE  \A f : /\ Sums(f, S)[{}] = 0
                  /\ \A s \in SUBSET S : s # {} =>
                       Pick(s) \in s /\ Sums(f, S)[s] = f[Pick(s)] + Sums(f, S)[s \ {Pick(s)}]
<1> SUFFICES ASSUME NEW f
             PROVE  /\ Sums(f, S)[{}] = 0
                    /\ \A s \in SUBSET S : s # {} =>
                         Pick(s) \in s /\ Sums(f, S)[s] = f[Pick(s)] + Sums(f, S)[s \ {Pick(s)}]
  OBVIOUS
<1>1. IsSum(Sums(f, S), f, S)
  BY SumExists
<1>2. \A s : s # {} => Pick(s) \in s
  BY DEF Pick
<1>3. \A s \in SUBSET S :
         Sums(f, S)[s] = IF s = {} THEN 0 ELSE f[Pick(s)] + Sums(f, S)[s \ {Pick(s)}]
  BY <1>1 DEF IsSum
<1>4. {} \in SUBSET S
  OBVIOUS
<1> QED
  BY <1>2, <1>3, <1>4

LEMMA SumIsNat ==
    ASSUME NEW S, IsFiniteSet(S), NEW f \in [S -> Nat]
    PROVE  \A s \in SUBSET S : Sums(f, S)[s] \in Nat
<1> DEFINE G == {s \in SUBSET S : Sums(f, S)[s] \in Nat}
<1>1. {} \in G
  <2>1. Sums(f, S)[{}] = 0
    BY SumSteps
  <2> QED
    BY <2>1
<1>2. ASSUME NEW s \in SUBSET S, s # {} PROVE \E x \in s : s \ {x} \in G => s \in G
  <2>1. Pick(s) \in s /\ Sums(f, S)[s] = f[Pick(s)] + Sums(f, S)[s \ {Pick(s)}]
    <3> HIDE DEF G
    <3> QED
      BY <1>2, SumSteps
  <2>2. s \ {Pick(s)} \in G => s \in G
    BY <2>1
  <2> QED
    BY <2>1, <2>2
<1>3. \A s \in SUBSET S : s \in G
  <2> HIDE DEF G
  <2> QED
    BY <1>1, <1>2, AllSubsets
<1> QED
  BY <1>3

\* A function of zeros adds up to zero.
LEMMA SumOfZeros ==
    ASSUME NEW S, IsFiniteSet(S), NEW f, \A x \in S : f[x] = 0
    PROVE  SumFunctionOnSet(f, S) = 0
<1> DEFINE G == {s \in SUBSET S : Sums(f, S)[s] = 0}
<1>1. {} \in G
  <2>1. Sums(f, S)[{}] = 0
    BY SumSteps
  <2> QED
    BY <2>1
<1>2. ASSUME NEW s \in SUBSET S, s # {} PROVE \E x \in s : s \ {x} \in G => s \in G
  <2>1. Pick(s) \in s /\ Sums(f, S)[s] = f[Pick(s)] + Sums(f, S)[s \ {Pick(s)}]
    <3> HIDE DEF G
    <3> QED
      BY <1>2, SumSteps
  <2>2. s \ {Pick(s)} \in G => s \in G
    BY <2>1
  <2> QED
    BY <2>1, <2>2
<1>3. \A s \in SUBSET S : s \in G
  <2> HIDE DEF G
  <2> QED
    BY <1>1, <1>2, AllSubsets
<1> QED
  BY <1>3, SumIs

\* A sum grows by as much as one of its terms.
LEMMA SumGrows ==
    ASSUME NEW S, IsFiniteSet(S), NEW f \in [S -> Nat], NEW x \in S, NEW d \in Nat,
           NEW h \in [S -> Nat], h[x] = f[x] + d, \A y \in S \ {x} : h[y] = f[y]
    PROVE  /\ SumFunctionOnSet(f, S) \in Nat
           /\ SumFunctionOnSet(h, S) = SumFunctionOnSet(f, S) + d
<1> DEFINE More(s) == IF x \in s THEN d ELSE 0
           G == {s \in SUBSET S : Sums(h, S)[s] = Sums(f, S)[s] + More(s)}
<1>0. \A s \in SUBSET S : Sums(f, S)[s] \in Nat /\ Sums(h, S)[s] \in Nat
  BY SumIsNat
<1>s. ASSUME NEW k
      PROVE  /\ Sums(k, S)[{}] = 0
             /\ \A s \in SUBSET S : s # {} =>
                  Pick(s) \in s /\ Sums(k, S)[s] = k[Pick(s)] + Sums(k, S)[s \ {Pick(s)}]
  BY SumSteps
<1>1. {} \in G
  <2>1. Sums(f, S)[{}] = 0
    BY <1>s
  <2>2. Sums(h, S)[{}] = 0
    BY <1>s
  <2> QED
    BY <2>1, <2>2
<1>2. ASSUME NEW s \in SUBSET S, s # {} PROVE \E y \in s : s \ {y} \in G => s \in G
  <2> DEFINE p == Pick(s)
  <2>1. /\ p \in s /\ Sums(h, S)[s] = h[p] + Sums(h, S)[s \ {p}]
        /\ Sums(f, S)[s] = f[p] + Sums(f, S)[s \ {p}]
    <3> HIDE DEF G, More
    <3>1. p \in s /\ Sums(f, S)[s] = f[p] + Sums(f, S)[s \ {p}]
      BY <1>2, <1>s
    <3>2. Sums(h, S)[s] = h[p] + Sums(h, S)[s \ {p}]
      BY <1>2, <1>s
    <3> QED
      BY <3>1, <3>2
  <2> HIDE DEF p
  <2>2. Sums(f, S)[s \ {p}] \in Nat /\ f[p] \in Nat
    BY <1>0, <2>1
  <2>3. h[p] + More(s \ {p}) = f[p] + More(s) /\ More(s) \in Nat /\ More(s \ {p}) \in Nat
    BY <2>1
  <2>4. s \ {p} \in G => s \in G
    <3> HIDE DEF More
    <3> QED
      BY <2>1, <2>2, <2>3
  <2> QED
    BY <2>1, <2>4
<1>3. \A s \in SUBSET S : s \in G
  <2> HIDE DEF G
  <2> QED
    BY <1>1, <1>2, AllSubsets
<1> QED
  BY <1>0, <1>3, SumIs

-----------------------------------------------------------------------------
(* Lines, files and chunks. *)

LEMMA ReasonsFacts ==
    /\ ToSet(Reasons) = {Reasons[i] : i \in 1 .. 5}
    /\ ToSet(Reasons) = {"malformed_row", "missing_fields", "invalid_gender", "invalid_age",
                         "invalid_country"}
    /\ Counted = ToSet(Reasons) \cup {"duplicate_name"}
    /\ Flaw = ToSet(Reasons) \cup {"refused"}
    /\ IsFiniteSet(Counted)
<1>1. /\ ToSet(Reasons) = {Reasons[i] : i \in 1 .. 5}
      /\ ToSet(Reasons) = {"malformed_row", "missing_fields", "invalid_gender", "invalid_age",
                           "invalid_country"}
  BY DEF ToSet, Reasons
<1>2. Counted = {} \cup {"malformed_row"} \cup {"missing_fields"} \cup {"invalid_gender"}
               \cup {"invalid_age"} \cup {"invalid_country"} \cup {"duplicate_name"}
  BY <1>1 DEF Counted
<1>3. IsFiniteSet({} \cup {"malformed_row"} \cup {"missing_fields"} \cup {"invalid_gender"}
               \cup {"invalid_age"} \cup {"invalid_country"} \cup {"duplicate_name"})
  BY FS_EmptySet, FS_AddElement
<1> QED
  BY <1>1, <1>2, <1>3 DEF Counted, Flaw

\* The reason given is one that the line has.
LEMMA ReasonIsFlaw ==
    ASSUME NEW line \in Line
    PROVE  /\ reason(line) = NONE => line.flaws \cap ToSet(Reasons) = {}
           /\ reason(line) # NONE => reason(line) \in line.flaws \cap ToSet(Reasons)
<1> DEFINE failed == {i \in 1 .. 5 : Reasons[i] \in line.flaws}
<1>1. reason(line) = IF failed = {} THEN NONE
                     ELSE Reasons[CHOOSE i \in failed : \A j \in failed : i <= j]
  BY DEF reason
<1>2. failed = {} => line.flaws \cap ToSet(Reasons) = {}
  BY ReasonsFacts
<1>3. failed # {} => (CHOOSE i \in failed : \A j \in failed : i <= j) \in failed
  <2>1. failed \subseteq Nat
    OBVIOUS
  <2> HIDE DEF failed
  <2> QED
    BY <2>1, LeastNumber
<1>4. failed # {} => reason(line) \in line.flaws \cap ToSet(Reasons)
  BY <1>1, <1>3, ReasonsFacts
<1> QED
  BY <1>1, <1>2, <1>4, ConstantsAssumption

LEMMA LineFacts ==
    /\ HOLE \in Line /\ HOLE \notin Sent /\ BLANK \in Sent /\ Sent \subseteq Line
    /\ \A l \in Sent : [l EXCEPT !.flaws = @ \cup {"refused"}] \in Sent
    /\ \A l \in Sent : reason(l) = NONE => l \in Checked
    /\ \A l \in Checked : l.name \in Names /\ l.flaws \subseteq {"refused"}
<1> USE ReasonsFacts
<1>1. HOLE \in Line /\ HOLE \notin Sent /\ BLANK \in Sent /\ Sent \subseteq Line
  BY DEF HOLE, BLANK, Sent, Line
<1>2. ASSUME NEW l \in Sent PROVE [l EXCEPT !.flaws = @ \cup {"refused"}] \in Sent
  BY DEF Sent, Line
<1>3. ASSUME NEW l \in Sent, reason(l) = NONE PROVE l \in Checked
  <2>1. l \in Line /\ l.flaws \cap ToSet(Reasons) = {}
    BY <1>1, <1>3, ReasonIsFlaw
  <2> QED
    BY <2>1 DEF Sent, Line, Checked
<1>4. \A l \in Checked : l.name \in Names /\ l.flaws \subseteq {"refused"}
  BY DEF Checked, Line
<1> QED
  BY <1>1, <1>2, <1>3, <1>4

\* What may be in a file: its last line is whole.
Content == {c \in Seq(Sent \cup {HOLE}) : c # <<>> => c[Len(c)] # HOLE}

\* The next line of a file that has one.
LEMMA NextFacts ==
    ASSUME NEW c \in Content, NEW from \in Nat \ {0}, from <= Len(c)
    PROVE  /\ NextLine(c, from).to \in from .. Len(c)
           /\ NextLine(c, from).line \in Sent
           /\ c[from] # HOLE => NextLine(c, from).to = from /\ NextLine(c, from).line = c[from]
<1> DEFINE Ends(i) == i \in from .. Len(c) /\ c[i] # HOLE /\ \A j \in from .. i - 1 : c[j] = HOLE
           whole == {i \in from .. Len(c) : c[i] # HOLE}
           to == CHOOSE i \in from .. Len(c) : c[i] # HOLE /\ \A j \in from .. i - 1 : c[j] = HOLE
<1>1. Len(c) \in Nat /\ c \in Seq(Sent \cup {HOLE}) /\ c # <<>> /\ c[Len(c)] # HOLE
  BY DEF Content
<1>2. PICK n \in whole : \A m \in whole : n <= m
  <2>1. whole \subseteq Nat /\ Len(c) \in whole
    BY <1>1
  <2> HIDE DEF whole
  <2> QED
    BY <2>1, LeastNumber
<1>3. Ends(n)
  BY <1>1, <1>2
<1>4. Ends(to)
  BY <1>3
<1>5. c[to] \in Sent
  BY <1>1, <1>4
<1>6. c[from] # HOLE => to = from
  BY <1>1, <1>4
<1>7. NextLine(c, from) = [line |-> IF to = from THEN c[to] ELSE [c[to] EXCEPT !.flaws = @ \cup {"refused"}],
                           to |-> to]
  BY DEF NextLine
<1> HIDE DEF to
<1> QED
  BY <1>4, <1>5, <1>6, <1>7, LineFacts

\* A line written after the first k.
LEMMA WrittenFacts ==
    ASSUME NEW c \in Content, NEW k \in Nat \ {0}, NEW line \in Sent
    PROVE  /\ Written(c, k, line) \in Content
           /\ \A f \in Seq(Sent) : k <= Len(f) /\ c = SubSeq(f, 1, k - 1) /\ line = f[k] =>
                Written(c, k, line) = SubSeq(f, 1, k)
<1> DEFINE n == IF Len(c) > k THEN Len(c) ELSE k
           w == [i \in 1 .. n |-> IF i = k THEN line ELSE IF i <= Len(c) THEN c[i] ELSE HOLE]
<1>1. /\ c \in Seq(Sent \cup {HOLE}) /\ Len(c) \in Nat /\ n \in Nat /\ k \in 1 .. n
      /\ \A i \in 1 .. Len(c) : c[i] \in Sent \cup {HOLE}
      /\ Len(c) # 0 => c[Len(c)] # HOLE
  BY DEF Content
<1>2. Written(c, k, line) = w
  BY DEF Written
<1>3. w \in Seq(Sent \cup {HOLE}) /\ Len(w) = n
  <2>1. \A i \in 1 .. n : w[i] \in Sent \cup {HOLE}
    BY <1>1
  <2> QED
    BY <1>1, <2>1
<1>4. w[n] # HOLE
  BY <1>1, LineFacts
<1>5. ASSUME NEW f \in Seq(Sent), k <= Len(f), c = SubSeq(f, 1, k - 1), line = f[k]
      PROVE  w = SubSeq(f, 1, k)
  <2>1. Len(c) = k - 1 /\ \A i \in 1 .. k - 1 : c[i] = f[i]
    BY <1>5
  <2>2. n = k /\ \A i \in 1 .. k : w[i] = f[i]
    BY <1>5, <2>1
  <2>3. SubSeq(f, 1, k) = [i \in 1 .. k |-> f[i]]
    BY <1>5
  <2> QED
    BY <2>2, <2>3
<1> HIDE DEF w, n
<1> QED
  BY <1>1, <1>2, <1>3, <1>4, <1>5 DEF Content

\* The names of a chunk: what createMany inserts, and how many of them are new.
Gathered(c) == {c[i].name : i \in DOMAIN c}

LEMMA ChunkFacts ==
    ASSUME NEW c \in Seq(Checked), NEW P, IsFiniteSet(P)
    PROVE  /\ Gathered(c) \subseteq Names
           /\ IsFiniteSet(P \cup Gathered(c))
           /\ Cardinality(Gathered(c) \ P) \in Nat /\ Cardinality(Gathered(c) \ P) <= Len(c)
           /\ Cardinality(P \cup Gathered(c)) = Cardinality(P) + Cardinality(Gathered(c) \ P)
<1>1. Gathered(c) \subseteq Names
  BY LineFacts DEF Gathered
<1>2. IsFiniteSet(Gathered(c)) /\ Cardinality(Gathered(c)) <= Len(c)
  <2> DEFINE g == [i \in 1 .. Len(c) |-> c[i].name]
  <2>1. g \in [1 .. Len(c) -> Gathered(c)] /\ \A t \in Gathered(c) : \E i \in 1 .. Len(c) : g[i] = t
    BY DEF Gathered
  <2>2. g \in Surjection(1 .. Len(c), Gathered(c))
    <3> HIDE DEF g
    <3> QED
      BY <2>1, Fun_IsSurj
  <2>3. IsFiniteSet(1 .. Len(c)) /\ Cardinality(1 .. Len(c)) = Len(c)
    <3>1. Len(c) \in Nat /\ Len(c) \in Int /\ 1 \in Int
      OBVIOUS
    <3>2. IsFiniteSet(1 .. Len(c)) /\ Cardinality(1 .. Len(c)) = IF 1 > Len(c) THEN 0 ELSE Len(c) - 1 + 1
      BY <3>1, FS_Interval
    <3> QED
      BY <3>1, <3>2
  <2> HIDE DEF g
  <2> QED
    BY <2>2, <2>3, FS_Surjection
<1>3. /\ IsFiniteSet(Gathered(c) \ P) /\ Cardinality(Gathered(c) \ P) \in Nat
      /\ Cardinality(Gathered(c) \ P) <= Len(c)
  BY <1>2, FS_Subset, FS_CardinalityType
<1>4. P \cup Gathered(c) = P \cup (Gathered(c) \ P) /\ P \cap (Gathered(c) \ P) = {}
  OBVIOUS
<1>5. /\ IsFiniteSet(P \cup (Gathered(c) \ P))
      /\ Cardinality(P \cup (Gathered(c) \ P)) =
           Cardinality(P) + Cardinality(Gathered(c) \ P) - Cardinality(P \cap (Gathered(c) \ P))
  BY <1>3, FS_Union
<1>6. Cardinality(P \cap (Gathered(c) \ P)) = 0 /\ Cardinality(P) \in Nat
  BY <1>4, FS_EmptySet, FS_CardinalityType
<1>7. Cardinality(P \cup Gathered(c)) = Cardinality(P) + Cardinality(Gathered(c) \ P)
  <2> DEFINE N == Gathered(c) \ P
  <2>1. /\ P \cup Gathered(c) = P \cup N /\ Cardinality(P \cap N) = 0
        /\ Cardinality(P \cup N) = Cardinality(P) + Cardinality(N) - Cardinality(P \cap N)
        /\ Cardinality(P) \in Nat /\ Cardinality(N) \in Nat
    BY <1>3, <1>4, <1>5, <1>6
  <2> HIDE DEF N
  <2>2. Cardinality(P \cup N) = Cardinality(P) + Cardinality(N)
    BY <2>1
  <2> QED
    BY <2>1, <2>2 DEF N
<1>8. IsFiniteSet(P \cup Gathered(c))
  BY <1>4, <1>5
<1> QED
  BY <1>1, <1>3, <1>7, <1>8

-----------------------------------------------------------------------------
(* Types. *)

LEMMA InitFits == Init => TypeOK /\ Inv
<1> SUFFICES ASSUME Init PROVE TypeOK /\ Inv
  OBVIOUS
<1> USE ConstantsAssumption
<1>1. TypeOK
  <2>1. NoStats \in Stats
    BY ReasonsFacts DEF NoStats, Stats
  <2>2. IsFiniteSet(profiles) /\ profiles \subseteq Names
    BY DEF Init
  <2>3. clock \in Time /\ clock <= MaxTime + faults
    BY DEF Init, Time
  <2>4. \A u \in Upload : pc[u] = "idle" /\ answer[u] = NONE /\ chunk[u] = <<>>
    BY DEF Init
  <2>5. \A u \in Upload : Len(chunk[u]) <= CHUNK_SIZE /\ (pc[u] = "done" <=> answer[u] # NONE)
    BY <2>4
  <2>6. /\ disk \in [Upload -> Seq(Sent \cup {HOLE})] /\ chunk \in [Upload -> Seq(Checked)]
        /\ stats \in [Upload -> Stats] /\ directory \in [Time -> Upload \cup {NONE}]
    BY <2>1 DEF Init
  <2> QED
    BY <2>2, <2>3, <2>5, <2>6 DEF Init, TypeOK, Location
<1>2. \A u \in Upload : /\ pc[u] = "idle" /\ answer[u] = NONE /\ path[u] = 0 /\ stats[u] = NoStats
                        /\ chunk[u] = <<>> /\ ~headed[u] /\ at[u] = 0 /\ disk[u] = <<>>
  BY DEF Init
<1>3. \A u \in Upload : ~Finished(u) /\ ~Live(u) /\ answer[u] # 500
  BY <1>2 DEF Finished, Live
<1>4. FilesHaveOnePath /\ ChunkIsFlushed /\ AloneReadsItsOwn /\ FailureHasCause
  BY <1>2, <1>3 DEF Init, FilesHaveOnePath, ChunkIsFlushed, AloneReadsItsOwn, FailureHasCause
<1>5. RowsAreCounted
  <2>1. ASSUME NEW u \in Upload
        PROVE  /\ stats[u].total_rows = stats[u].inserted + stats[u].skipped + Len(chunk[u])
               /\ stats[u].skipped = SumFunctionOnSet(stats[u].reasons, Counted)
    <3>1. SumFunctionOnSet(NoStats.reasons, Counted) = 0
      <4>1. \A r \in Counted : NoStats.reasons[r] = 0
        BY DEF NoStats
      <4> QED
        BY <4>1, ReasonsFacts, SumOfZeros
    <3> QED
      BY <1>2, <3>1 DEF NoStats
  <2>2. SumFunctionOnSet([u \in Upload |-> stats[u].inserted], Upload) = 0
    <3>1. \A u \in Upload : [v \in Upload |-> stats[v].inserted][u] = 0
      BY <1>2 DEF NoStats
    <3> QED
      BY <3>1, SumOfZeros
  <2>3. lost = 0 /\ Cardinality(profiles) - Cardinality(Existing) = 0
    BY FS_CardinalityType DEF Init
  <2> QED
    BY <2>1, <2>2, <2>3 DEF RowsAreCounted
<1>6. RowsAreLookedAt /\ TempFileGone
  BY <1>2, <1>3 DEF Init, RowsAreLookedAt, TempFileGone
<1> QED
  BY <1>1, <1>4, <1>5, <1>6 DEF Inv

\* A row that is skipped is counted with its reason.
LEMMA BumpFacts ==
    ASSUME NEW s \in Stats, NEW r \in Counted, NEW n \in Nat
    PROVE  /\ Bump(s, r, n) \in Stats
           /\ Bump(s, r, n).total_rows = s.total_rows /\ Bump(s, r, n).inserted = s.inserted
           /\ Bump(s, r, n).skipped = s.skipped + n
           /\ Bump(s, r, n).reasons[r] = s.reasons[r] + n
           /\ \A q \in Counted \ {r} : Bump(s, r, n).reasons[q] = s.reasons[q]
           /\ s.skipped = SumFunctionOnSet(s.reasons, Counted) =>
                Bump(s, r, n).skipped = SumFunctionOnSet(Bump(s, r, n).reasons, Counted)
<1> DEFINE b == Bump(s, r, n)
<1>1. /\ b \in Stats /\ b.total_rows = s.total_rows /\ b.inserted = s.inserted
      /\ b.skipped = s.skipped + n /\ b.reasons[r] = s.reasons[r] + n
      /\ \A q \in Counted \ {r} : b.reasons[q] = s.reasons[q]
  <2> DEFINE h == [s.reasons EXCEPT ![r] = s.reasons[r] + n]
  <2>1. s.reasons \in [Counted -> Nat] /\ s.skipped + n \in Nat
    BY DEF Stats
  <2>2. /\ h \in [Counted -> Nat] /\ h[r] = s.reasons[r] + n
        /\ \A q \in Counted \ {r} : h[q] = s.reasons[q]
    BY <2>1
  <2>3. b = [s EXCEPT !.skipped = s.skipped + n, !.reasons = h]
    BY DEF Bump, Stats
  <2> HIDE DEF b, h
  <2>4. b \in Stats /\ b.total_rows = s.total_rows /\ b.inserted = s.inserted
    BY <2>1, <2>2, <2>3 DEF Stats
  <2>5. b.skipped = s.skipped + n /\ b.reasons = h
    BY <2>1, <2>2, <2>3 DEF Stats
  <2> QED
    BY <2>2, <2>4, <2>5
<1> HIDE DEF b
<1>2. SumFunctionOnSet(b.reasons, Counted) = SumFunctionOnSet(s.reasons, Counted) + n
  <2>1. s.reasons \in [Counted -> Nat] /\ b.reasons \in [Counted -> Nat]
    BY <1>1 DEF Stats
  <2>2. PICK f, h : f = s.reasons /\ h = b.reasons
    OBVIOUS
  <2>3. /\ f \in [Counted -> Nat] /\ h \in [Counted -> Nat] /\ h[r] = f[r] + n
        /\ \A q \in Counted \ {r} : h[q] = f[q]
    BY <1>1, <2>1, <2>2
  <2>4. SumFunctionOnSet(h, Counted) = SumFunctionOnSet(f, Counted) + n
    <3>1. PICK S : S = Counted
      OBVIOUS
    <3>2. IsFiniteSet(S) /\ r \in S
      BY <3>1, ReasonsFacts
    <3>3. f \in [S -> Nat] /\ h \in [S -> Nat] /\ \A q \in S \ {r} : h[q] = f[q]
      BY <2>3, <3>1
    <3>4. SumFunctionOnSet(h, S) = SumFunctionOnSet(f, S) + n
      BY <2>3, <3>2, <3>3, SumGrows
    <3> QED
      BY <3>1, <3>4
  <2> QED
    BY <2>2, <2>4
<1> QED
  BY <1>1, <1>2 DEF b

\* One turn of the loop: the line it takes, and what it does with it.
Turn(u) == NextLine(disk[handle[u]], at[u] + 1)
PassesOver(u) ==
    /\ \/ Turn(u).line = BLANK /\ UNCHANGED headed
       \/ Turn(u).line # BLANK /\ ~headed[u] /\ headed' = [headed EXCEPT ![u] = TRUE]
    /\ UNCHANGED <<stats, chunk, pc>>
Skips(u) ==
    /\ Turn(u).line # BLANK /\ headed[u] /\ UNCHANGED <<headed, chunk, pc>>
    /\ reason(Turn(u).line) \in Turn(u).line.flaws \cap ToSet(Reasons)
    /\ stats' = [stats EXCEPT ![u] = Bump([stats[u] EXCEPT !.total_rows = @ + 1],
                                          reason(Turn(u).line), 1)]
Gathers(u) ==
    /\ Turn(u).line # BLANK /\ headed[u] /\ UNCHANGED headed
    /\ Turn(u).line \in Checked
    /\ stats' = [stats EXCEPT ![u] = [stats[u] EXCEPT !.total_rows = @ + 1]]
    /\ chunk' = [chunk EXCEPT ![u] = Append(chunk[u], Turn(u).line)]
    /\ IF full(u) THEN Goto(u, "flush") ELSE UNCHANGED pc

LEMMA ReadFacts ==
    ASSUME TypeOK, FilesHaveOnePath, NEW u \in Upload, ReadLine(u)
    PROVE  /\ disk[handle[u]] \in Content /\ at[u] < Len(disk[handle[u]])
           /\ Turn(u).to \in at[u] + 1 .. Len(disk[handle[u]]) /\ Turn(u).line \in Sent
           /\ disk[handle[u]][at[u] + 1] # HOLE =>
                Turn(u).to = at[u] + 1 /\ Turn(u).line = disk[handle[u]][at[u] + 1]
           /\ at' = [at EXCEPT ![u] = Turn(u).to]
           /\ PassesOver(u) \/ Skips(u) \/ Gathers(u)
           /\ UNCHANGED <<storage, clock, file, path, handle, answer, faults, history>>
<1>1. disk[handle[u]] \in Content /\ at[u] < Len(disk[handle[u]]) /\ at[u] \in Nat
  BY DEF ReadLine, TypeOK, FilesHaveOnePath, Content
<1>2. at[u] + 1 \in Nat \ {0} /\ at[u] + 1 <= Len(disk[handle[u]])
  BY <1>1 DEF Content
<1>3. /\ Turn(u).to \in at[u] + 1 .. Len(disk[handle[u]]) /\ Turn(u).line \in Sent
      /\ disk[handle[u]][at[u] + 1] # HOLE =>
           Turn(u).to = at[u] + 1 /\ Turn(u).line = disk[handle[u]][at[u] + 1]
  BY <1>1, <1>2, NextFacts DEF Turn
<1>4. /\ reason(Turn(u).line) = NONE => Turn(u).line \in Checked
      /\ reason(Turn(u).line) # NONE =>
           reason(Turn(u).line) \in Turn(u).line.flaws \cap ToSet(Reasons)
  BY <1>3, LineFacts, ReasonIsFlaw
<1>5. /\ at' = [at EXCEPT ![u] = Turn(u).to]
      /\ PassesOver(u) \/ Skips(u) \/ Gathers(u)
  BY <1>4 DEF ReadLine, Turn, PassesOver, Skips, Gathers
<1> QED
  BY <1>1, <1>3, <1>5 DEF ReadLine

\* A statement that the database executes.
Inserts(u) ==
    /\ profiles' = profiles \cup Gathered(chunk[u])
    /\ Cardinality(profiles') = Cardinality(profiles) + count(u)
    /\ profiles' \subseteq Names /\ IsFiniteSet(profiles')

LEMMA InsertFacts ==
    ASSUME TypeOK, NEW u \in Upload
    PROVE  /\ count(u) \in Nat /\ count(u) <= Len(chunk[u])
           /\ profiles' = profiles \cup {chunk[u][i].name : i \in DOMAIN chunk[u]} => Inserts(u)
<1>1. chunk[u] \in Seq(Checked) /\ IsFiniteSet(profiles) /\ profiles \subseteq Names
  BY DEF TypeOK
<1>2. count(u) = Cardinality(Gathered(chunk[u]) \ profiles)
  BY DEF count, Gathered
<1>3. /\ Gathered(chunk[u]) \subseteq Names
      /\ IsFiniteSet(profiles \cup Gathered(chunk[u]))
      /\ Cardinality(Gathered(chunk[u]) \ profiles) \in Nat
      /\ Cardinality(Gathered(chunk[u]) \ profiles) <= Len(chunk[u])
      /\ Cardinality(profiles \cup Gathered(chunk[u])) =
           Cardinality(profiles) + Cardinality(Gathered(chunk[u]) \ profiles)
  BY <1>1, ChunkFacts
<1> QED
  BY <1>1, <1>2, <1>3 DEF Inserts, Gathered


\* Which operations write which variables.
LEMMA Changes ==
    ASSUME [Next]_vars
    PROVE  /\ \/ UNCHANGED <<profiles, lost>>
              \/ \E u \in Upload : FlushChunk(u) \/ FlushFails(u)
           /\ \/ UNCHANGED disk
              \/ \E u \in Upload : OpenToWrite(u) \/ Write(u)
           /\ \/ UNCHANGED directory
              \/ \E u \in Upload : OpenToWrite(u) \/ Unlink(u)
           /\ \/ UNCHANGED <<chunk, headed, stats>>
              \/ \E u \in Upload : ReadLine(u) \/ FlushChunk(u)
           /\ \/ UNCHANGED <<path, shared>>
              \/ \E u \in Upload : OpenToWrite(u)
           /\ \/ UNCHANGED handle
              \/ \E u \in Upload : OpenToWrite(u) \/ OpenToRead(u)
           /\ \/ UNCHANGED at
              \/ \E u \in Upload : Write(u) \/ OpenToRead(u) \/ ReadLine(u)
           /\ \/ UNCHANGED <<answer, faults, hit>>
              \/ Crash
              \/ \E u \in Upload : Unlink(u) \/ WriteFails(u) \/ FlushFails(u) \/ InvalidateFails(u)
           /\ file' = file
<1> USE DEF vars, storage, reader, history
<1>1. CASE vars' = vars
  BY <1>1
<1>2. CASE Tick
  BY <1>2 DEF Tick
<1>3. CASE Crash
  BY <1>3 DEF Crash
<1>4. ASSUME NEW u \in Upload, OpenToWrite(u) \/ Write(u) \/ WriteEnds(u) \/ OpenToRead(u) \/ Missing(u)
      PROVE  /\ UNCHANGED <<profiles, lost, chunk, headed, stats, answer, faults, hit, file>>
             /\ UNCHANGED disk \/ OpenToWrite(u) \/ Write(u)
             /\ UNCHANGED <<directory, path, shared>> \/ OpenToWrite(u)
             /\ UNCHANGED handle \/ OpenToWrite(u) \/ OpenToRead(u)
             /\ UNCHANGED at \/ Write(u) \/ OpenToRead(u)
  BY <1>4 DEF OpenToWrite, Write, WriteEnds, OpenToRead, Missing
<1>5. ASSUME NEW u \in Upload, ReadLine(u) \/ ReadEnds(u) \/ FlushChunk(u) \/ Invalidate(u)
      PROVE  /\ UNCHANGED <<disk, directory, path, shared, handle, answer, faults, hit, file>>
             /\ UNCHANGED <<profiles, lost>> \/ FlushChunk(u)
             /\ UNCHANGED <<chunk, headed, stats>> \/ ReadLine(u) \/ FlushChunk(u)
             /\ UNCHANGED at \/ ReadLine(u)
  BY <1>5 DEF ReadLine, ReadEnds, FlushChunk, Invalidate
<1>6. ASSUME NEW u \in Upload, Unlink(u) \/ WriteFails(u) \/ FlushFails(u) \/ InvalidateFails(u)
      PROVE  /\ UNCHANGED <<disk, path, shared, handle, at, chunk, headed, stats, file>>
             /\ UNCHANGED <<profiles, lost>> \/ FlushFails(u)
             /\ UNCHANGED directory \/ Unlink(u)
  BY <1>6 DEF Unlink, WriteFails, FlushFails, InvalidateFails, Fault
<1>7. \/ vars' = vars \/ Tick \/ Crash
      \/ \E u \in Upload :
            \/ OpenToWrite(u) \/ Write(u) \/ WriteEnds(u) \/ OpenToRead(u) \/ Missing(u)
            \/ ReadLine(u) \/ ReadEnds(u) \/ FlushChunk(u) \/ Invalidate(u)
            \/ Unlink(u) \/ WriteFails(u) \/ FlushFails(u) \/ InvalidateFails(u)
  BY DEF Next
<1> QED
  <2>1. ASSUME NEW u \in Upload,
               OpenToWrite(u) \/ Write(u) \/ WriteEnds(u) \/ OpenToRead(u) \/ Missing(u)
        PROVE  /\ UNCHANGED <<profiles, lost, chunk, headed, stats, answer, faults, hit, file>>
               /\ UNCHANGED disk \/ \E v \in Upload : OpenToWrite(v) \/ Write(v)
               /\ UNCHANGED <<directory, path, shared>> \/ \E v \in Upload : OpenToWrite(v)
               /\ UNCHANGED handle \/ \E v \in Upload : OpenToWrite(v) \/ OpenToRead(v)
               /\ UNCHANGED at \/ \E v \in Upload : Write(v) \/ OpenToRead(v)
    BY <1>4, <2>1
  <2> QED
    BY <1>1, <1>2, <1>3, <2>1, <1>5, <1>6, <1>7

\* The conjuncts of the type invariant, by the operations that write them.
ProfilesFit == profiles \subseteq Names /\ IsFiniteSet(profiles) /\ lost \in Nat
FilesFit == disk \in [Upload -> Seq(Sent \cup {HOLE})] /\ directory \in [Time -> Upload \cup {NONE}]
RowsFit ==
    /\ chunk \in [Upload -> Seq(Checked)] /\ \A u \in Upload : Len(chunk[u]) <= CHUNK_SIZE
    /\ headed \in [Upload -> BOOLEAN] /\ stats \in [Upload -> Stats]
PlacesFit ==
    /\ path \in [Upload -> Time \cup {0}] /\ handle \in [Upload -> Upload] /\ at \in [Upload -> Nat]
    /\ shared \subseteq Upload
AnswersFit ==
    /\ pc \in [Upload -> Location] /\ answer \in [Upload -> {NONE, 0, 201, 500}]
    /\ \A u \in Upload : pc[u] = "done" <=> answer[u] # NONE
ClockFits ==
    /\ clock \in Time /\ clock <= MaxTime + faults /\ faults \in 0 .. MaxFaults
    /\ hit \subseteq Upload

LEMMA ProfilesStayFit ==
    ASSUME TypeOK, [Next]_vars
    PROVE  ProfilesFit'
<1>1. CASE UNCHANGED <<profiles, lost>>
  BY <1>1 DEF TypeOK, ProfilesFit
<1>2. ASSUME NEW u \in Upload, FlushChunk(u) \/ FlushFails(u) PROVE ProfilesFit'
  <2>1. count(u) \in Nat /\ lost \in Nat /\ profiles \subseteq Names /\ IsFiniteSet(profiles)
    BY InsertFacts DEF TypeOK
  <2>2. lost' = lost \/ lost' = lost + count(u)
    BY <1>2 DEF FlushChunk, FlushFails, history
  <2>3. \/ profiles' = profiles
        \/ profiles' = profiles \cup {chunk[u][i].name : i \in DOMAIN chunk[u]}
    BY <1>2 DEF FlushChunk, FlushFails
  <2>4. profiles' \subseteq Names /\ IsFiniteSet(profiles')
    BY <2>1, <2>3, InsertFacts DEF Inserts
  <2> QED
    BY <2>1, <2>2, <2>4 DEF ProfilesFit
<1> QED
  BY <1>1, <1>2, Changes

LEMMA FilesStayFit ==
    ASSUME TypeOK, FilesHaveOnePath, [Next]_vars
    PROVE  FilesFit'
<1> USE ConstantsAssumption
<1>1. disk' \in [Upload -> Seq(Sent \cup {HOLE})]
  <2>1. ASSUME NEW u \in Upload, OpenToWrite(u) PROVE disk' \in [Upload -> Seq(Sent \cup {HOLE})]
    <3>1. <<>> \in Seq(Sent \cup {HOLE})
      OBVIOUS
    <3>2. PICK v : disk' = [disk EXCEPT ![v] = <<>>]
      BY <2>1 DEF OpenToWrite
    <3> QED
      BY <3>1, <3>2 DEF TypeOK
  <2>2. ASSUME NEW u \in Upload, Write(u) PROVE disk' \in [Upload -> Seq(Sent \cup {HOLE})]
    <3>1. handle[u] \in Upload /\ at[u] \in Nat /\ file[u] \in Seq(Sent) /\ at[u] < Len(file[u])
      BY <2>2 DEF Write, TypeOK
    <3>2. disk[handle[u]] \in Content /\ at[u] + 1 \in Nat \ {0} /\ file[u][at[u] + 1] \in Sent
      BY <3>1 DEF TypeOK, FilesHaveOnePath, Content
    <3>3. Written(disk[handle[u]], at[u] + 1, file[u][at[u] + 1]) \in Seq(Sent \cup {HOLE})
      BY <3>2, WrittenFacts DEF Content
    <3>4. disk' = [disk EXCEPT ![handle[u]] = Written(disk[handle[u]], at[u] + 1, file[u][at[u] + 1])]
      BY <2>2 DEF Write
    <3> QED
      BY <3>3, <3>4 DEF TypeOK
  <2>3. CASE UNCHANGED disk
    BY <2>3 DEF TypeOK
  <2> QED
    BY <2>1, <2>2, <2>3, Changes
<1>2. directory' \in [Time -> Upload \cup {NONE}]
  <2>1. ASSUME NEW u \in Upload, OpenToWrite(u) PROVE directory' \in [Time -> Upload \cup {NONE}]
    <3>1. directory \in [Time -> Upload \cup {NONE}] /\ directory[clock] \in Upload \cup {NONE}
      BY DEF TypeOK
    <3>2. \E v \in Upload \cup {NONE} : directory' = [directory EXCEPT ![clock] = v]
      BY <2>1, <3>1 DEF OpenToWrite
    <3> QED
      BY <3>1, <3>2
  <2>2. ASSUME NEW u \in Upload, Unlink(u) PROVE directory' \in [Time -> Upload \cup {NONE}]
    BY <2>2 DEF Unlink, withoutFile, TypeOK
  <2>3. CASE UNCHANGED directory
    BY <2>3 DEF TypeOK
  <2> QED
    BY <2>1, <2>2, <2>3, Changes
<1> QED
  BY <1>1, <1>2 DEF FilesFit

LEMMA RowsStayFit ==
    ASSUME TypeOK, FilesHaveOnePath, ChunkIsFlushed, [Next]_vars
    PROVE  RowsFit'
<1> USE ConstantsAssumption
<1>0. /\ chunk \in [Upload -> Seq(Checked)] /\ \A u \in Upload : Len(chunk[u]) <= CHUNK_SIZE
      /\ headed \in [Upload -> BOOLEAN] /\ stats \in [Upload -> Stats]
  BY DEF TypeOK
<1>1. CASE UNCHANGED <<chunk, headed, stats>>
  BY <1>0, <1>1 DEF RowsFit
<1>2. ASSUME NEW u \in Upload, ReadLine(u) PROVE RowsFit'
  <2>1. pc[u] = "read" /\ Len(chunk[u]) < CHUNK_SIZE
    BY <1>2 DEF ReadLine, ChunkIsFlushed
  <2>2. [stats[u] EXCEPT !.total_rows = @ + 1] \in Stats
    <3>1. \A s \in Stats : [s EXCEPT !.total_rows = @ + 1] \in Stats
      BY DEF Stats
    <3> QED
      BY <1>0, <3>1
  <2>3. ASSUME PassesOver(u) PROVE RowsFit'
    BY <1>0, <2>3 DEF PassesOver, RowsFit
  <2>4. ASSUME Skips(u) PROVE RowsFit'
    <3> DEFINE s == Bump([stats[u] EXCEPT !.total_rows = @ + 1], reason(Turn(u).line), 1)
    <3>1. s \in Stats
      <4>1. reason(Turn(u).line) \in Counted
        BY <2>4, ReasonsFacts DEF Skips
      <4> QED
        BY <2>2, <4>1, BumpFacts
    <3>2. stats' = [stats EXCEPT ![u] = s] /\ UNCHANGED <<headed, chunk>>
      BY <2>4 DEF Skips
    <3> HIDE DEF s
    <3> QED
      BY <1>0, <3>1, <3>2 DEF RowsFit
  <2>5. ASSUME Gathers(u) PROVE RowsFit'
    <3>1. /\ Append(chunk[u], Turn(u).line) \in Seq(Checked)
          /\ Len(Append(chunk[u], Turn(u).line)) <= CHUNK_SIZE
      BY <1>0, <2>1, <2>5 DEF Gathers
    <3>2. /\ chunk' \in [Upload -> Seq(Checked)] /\ stats' \in [Upload -> Stats]
          /\ \A v \in Upload : Len(chunk'[v]) <= CHUNK_SIZE
      BY <1>0, <2>2, <2>5, <3>1 DEF Gathers
    <3> QED
      BY <1>0, <2>5, <3>2 DEF Gathers, RowsFit
  <2> QED
    BY <1>2, <2>3, <2>4, <2>5, ReadFacts
<1>3. ASSUME NEW u \in Upload, FlushChunk(u) PROVE RowsFit'
  <2> DEFINE s == Bump([stats[u] EXCEPT !.inserted = @ + count(u)], "duplicate_name",
                       Len(chunk[u]) - count(u))
  <2>1. s \in Stats
    <3>1. count(u) \in Nat /\ Len(chunk[u]) - count(u) \in Nat
      BY <1>0, InsertFacts
    <3>2. \A t \in Stats, n \in Nat : [t EXCEPT !.inserted = @ + n] \in Stats
      BY DEF Stats
    <3> QED
      BY <1>0, <3>1, <3>2, BumpFacts, ReasonsFacts
  <2>2. \/ stats' = stats /\ chunk' = chunk
        \/ stats' = [stats EXCEPT ![u] = s] /\ chunk' = [chunk EXCEPT ![u] = <<>>]
    <3>1. CASE Accepted(u)
      BY <1>3, <3>1 DEF FlushChunk
    <3>2. CASE ~Accepted(u)
      BY <1>3, <3>2 DEF FlushChunk
    <3> QED
      BY <3>1, <3>2
  <2>3. headed' = headed
    BY <1>3 DEF FlushChunk
  <2> HIDE DEF s
  <2>4. stats' \in [Upload -> Stats] /\ chunk' \in [Upload -> Seq(Checked)]
    <3>1. <<>> \in Seq(Checked)
      OBVIOUS
    <3> QED
      BY <1>0, <2>1, <2>2, <3>1
  <2>5. \A v \in Upload : Len(chunk'[v]) <= CHUNK_SIZE
    <3>1. Len(<<>>) <= CHUNK_SIZE
      OBVIOUS
    <3> QED
      BY <1>0, <2>2, <3>1
  <2> QED
    BY <1>0, <2>3, <2>4, <2>5 DEF RowsFit
<1> QED
  BY <1>1, <1>2, <1>3, Changes

LEMMA PlacesStayFit ==
    ASSUME TypeOK, FilesHaveOnePath, [Next]_vars
    PROVE  PlacesFit'
<1> USE ConstantsAssumption
<1>0. /\ path \in [Upload -> Time \cup {0}] /\ handle \in [Upload -> Upload] /\ at \in [Upload -> Nat]
      /\ shared \subseteq Upload /\ clock \in Time
      /\ directory \in [Time -> Upload \cup {NONE}]
  BY DEF TypeOK
<1>1. path' \in [Upload -> Time \cup {0}] /\ shared' \subseteq Upload
  <2>1. CASE UNCHANGED <<path, shared>>
    BY <1>0, <2>1
  <2>2. ASSUME NEW u \in Upload, OpenToWrite(u)
        PROVE  path' \in [Upload -> Time \cup {0}] /\ shared' \subseteq Upload
    BY <1>0, <2>2 DEF OpenToWrite
  <2> QED
    BY <2>1, <2>2, Changes
<1>2. handle' \in [Upload -> Upload]
  <2>1. ASSUME NEW u \in Upload, OpenToWrite(u) PROVE handle' \in [Upload -> Upload]
    <3>1. \E v \in Upload : handle' = [handle EXCEPT ![u] = v]
      BY <1>0, <2>1 DEF OpenToWrite
    <3> QED
      BY <1>0, <3>1
  <2>2. ASSUME NEW u \in Upload, OpenToRead(u) PROVE handle' \in [Upload -> Upload]
    <3>1. path[u] \in Time
      BY <1>0, <2>2 DEF OpenToRead, FilesHaveOnePath
    <3>2. \E v \in Upload : handle' = [handle EXCEPT ![u] = v]
      BY <1>0, <2>2, <3>1 DEF OpenToRead
    <3> QED
      BY <1>0, <3>2
  <2> QED
    BY <1>0, <2>1, <2>2, Changes
<1>3. at' \in [Upload -> Nat]
  <2>1. ASSUME NEW u \in Upload, Write(u) \/ OpenToRead(u) \/ ReadLine(u) PROVE at' \in [Upload -> Nat]
    <3>1. CASE Write(u)
      BY <1>0, <3>1 DEF Write
    <3>2. CASE OpenToRead(u)
      BY <1>0, <3>2 DEF OpenToRead
    <3>3. CASE ReadLine(u)
      <4>1. /\ at' = [at EXCEPT ![u] = Turn(u).to] /\ Turn(u).to \in at[u] + 1 .. Len(disk[handle[u]])
            /\ disk[handle[u]] \in Content
        BY <3>3, ReadFacts
      <4>2. Turn(u).to \in Nat
        BY <1>0, <4>1 DEF Content
      <4> QED
        BY <1>0, <4>1, <4>2
    <3> QED
      BY <2>1, <3>1, <3>2, <3>3
  <2> QED
    BY <1>0, <2>1, Changes
<1> QED
  BY <1>1, <1>2, <1>3 DEF PlacesFit

LEMMA AnswersStayFit ==
    ASSUME TypeOK, [Next]_vars
    PROVE  AnswersFit' /\ ClockFits'
<1> USE ConstantsAssumption DEF Location
<1>0. /\ AnswersFit /\ ClockFits
      /\ clock \in 1 .. MaxTime + MaxFaults
  BY DEF TypeOK, AnswersFit, ClockFits, Time
<1>1. CASE vars' = vars
  BY <1>0, <1>1 DEF vars, history, AnswersFit, ClockFits
<1>2. CASE Tick
  BY <1>0, <1>2 DEF Tick, history, AnswersFit, ClockFits, Time
<1>3. CASE Crash
  <2>1. AnswersFit'
    BY <1>0, <1>3 DEF Crash, AnswersFit, Live
  <2>2. ClockFits'
    BY <1>0, <1>3 DEF Crash, ClockFits, Time
  <2> QED
    BY <2>1, <2>2
<1>4. ASSUME NEW u \in Upload, NEW l \in Location \ {"done"}, pc[u] # "done", Goto(u, l) \/ UNCHANGED pc,
             UNCHANGED answer
      PROVE  AnswersFit'
  BY <1>0, <1>4 DEF Goto, AnswersFit
<1>6. ASSUME UNCHANGED clock,
             UNCHANGED <<faults, hit>> \/ \E u \in Upload : Fault(u)
      PROVE  ClockFits'
  BY <1>0, <1>6 DEF Fault, ClockFits
<1>7. ASSUME NEW u \in Upload,
             OpenToWrite(u) \/ Write(u) \/ WriteEnds(u) \/ OpenToRead(u) \/ Missing(u)
      PROVE  AnswersFit' /\ ClockFits'
  <2>1. /\ pc[u] # "done" /\ UNCHANGED <<answer, clock, faults, hit>>
        /\ UNCHANGED pc \/ \E l \in Location \ {"done"} : Goto(u, l)
    BY <1>7 DEF OpenToWrite, Write, WriteEnds, OpenToRead, Missing, history, storage, reader
  <2> QED
    BY <1>4, <1>6, <2>1
<1>8. ASSUME NEW u \in Upload, ReadLine(u) \/ ReadEnds(u) \/ FlushChunk(u) \/ Invalidate(u)
      PROVE  AnswersFit' /\ ClockFits'
  <2>1. /\ pc[u] # "done" /\ UNCHANGED <<answer, clock, faults, hit>>
        /\ UNCHANGED pc \/ \E l \in Location \ {"done"} : Goto(u, l)
    BY <1>8 DEF ReadLine, ReadEnds, FlushChunk, Invalidate, history, storage, reader
  <2> QED
    BY <1>4, <1>6, <2>1
<1>9. ASSUME NEW u \in Upload, Unlink(u) \/ WriteFails(u) PROVE AnswersFit' /\ ClockFits'
  <2>1. /\ pc[u] # "done" /\ Goto(u, "done") /\ UNCHANGED clock
        /\ UNCHANGED <<faults, hit>> \/ Fault(u)
    BY <1>9 DEF Unlink, WriteFails, history
  <2>2. PICK a \in {201, 500} : answer' = [answer EXCEPT ![u] = a]
    BY <1>9 DEF Unlink, WriteFails
  <2>3. AnswersFit'
    BY <1>0, <2>1, <2>2 DEF Goto, AnswersFit
  <2>4. ClockFits'
    BY <1>6, <2>1
  <2> QED
    BY <2>3, <2>4
<1>10. ASSUME NEW u \in Upload, FlushFails(u) \/ InvalidateFails(u) PROVE AnswersFit' /\ ClockFits'
  <2>1. /\ pc[u] # "done" /\ UNCHANGED <<answer, clock>> /\ Fault(u)
        /\ \E l \in Location \ {"done"} : Goto(u, l)
    BY <1>10 DEF FlushFails, InvalidateFails
  <2> QED
    BY <1>4, <1>6, <2>1
<1> QED
  BY <1>1, <1>2, <1>3, <1>7, <1>8, <1>9, <1>10 DEF Next

\* An upload is given up by a fault, for good.
LEMMA Abandons ==
    ASSUME TypeOK, [Next]_vars
    PROVE  abandoned' \subseteq hit' /\ abandoned \subseteq abandoned'
<1>0. abandoned \subseteq hit
  BY DEF TypeOK
<1>1. CASE UNCHANGED vars \/ Tick
  BY <1>0, <1>1 DEF vars, Tick, history
<1>2. CASE Crash
  BY <1>0, <1>2 DEF Crash
<1>3. ASSUME NEW u \in Upload,
             OpenToWrite(u) \/ Write(u) \/ WriteEnds(u) \/ OpenToRead(u) \/ Missing(u)
      PROVE  abandoned' = abandoned /\ hit' = hit
  BY <1>3 DEF OpenToWrite, Write, WriteEnds, OpenToRead, Missing, history
<1>4. ASSUME NEW u \in Upload,
             ReadLine(u) \/ ReadEnds(u) \/ FlushChunk(u) \/ Invalidate(u) \/ Unlink(u)
      PROVE  abandoned' = abandoned /\ hit' = hit
  BY <1>4 DEF ReadLine, ReadEnds, FlushChunk, Invalidate, Unlink, history
<1>5. ASSUME NEW u \in Upload, WriteFails(u)
      PROVE  abandoned' \subseteq hit' /\ abandoned \subseteq abandoned'
  BY <1>0, <1>5 DEF WriteFails, Fault
<1>6. ASSUME NEW u \in Upload, FlushFails(u) \/ InvalidateFails(u)
      PROVE  abandoned' \subseteq hit' /\ abandoned' = abandoned
  BY <1>0, <1>6 DEF FlushFails, InvalidateFails, Fault
<1> QED
  BY <1>0, <1>1, <1>2, <1>3, <1>4, <1>5, <1>6 DEF Next

LEMMA NextFits ==
    ASSUME TypeOK, FilesHaveOnePath, ChunkIsFlushed, [Next]_vars
    PROVE  TypeOK'
<1>1. /\ ProfilesFit' /\ FilesFit' /\ RowsFit' /\ PlacesFit' /\ AnswersFit' /\ ClockFits'
  BY ProfilesStayFit, FilesStayFit, RowsStayFit, PlacesStayFit, AnswersStayFit
<1>2. file' \in [Upload -> Files]
  BY Changes DEF TypeOK
<1>3. abandoned' \subseteq hit'
  BY Abandons
<1> QED
  BY <1>1, <1>2, <1>3 DEF TypeOK, ProfilesFit, FilesFit, RowsFit, PlacesFit, AnswersFit, ClockFits

-----------------------------------------------------------------------------
(* Paths and files. *)

\* The place of an upload changes by its own operations, or by a crash.
Moved(u) ==
    \/ WriteEnds(u) \/ OpenToRead(u) \/ Missing(u) \/ ReadLine(u) \/ ReadEnds(u) \/ FlushChunk(u)
    \/ Invalidate(u) \/ Unlink(u) \/ WriteFails(u) \/ FlushFails(u) \/ InvalidateFails(u)

LEMMA Moves ==
    ASSUME TypeOK, [Next]_vars, NEW u \in Upload
    PROVE  pc'[u] = pc[u] \/ OpenToWrite(u) \/ Moved(u) \/ (Crash /\ Live(u) /\ pc'[u] = "done")
<1>0. pc \in [Upload -> Location]
  BY DEF TypeOK
<1>1. CASE vars' = vars
  BY <1>1 DEF vars
<1>2. CASE Tick
  BY <1>2 DEF Tick
<1>3. CASE Crash
  BY <1>0, <1>3 DEF Crash
<1>4. ASSUME NEW v \in Upload, UNCHANGED pc \/ \E l \in Location : Goto(v, l)
      PROVE  v = u \/ pc'[u] = pc[u]
  BY <1>0, <1>4 DEF Goto
<1>5. ASSUME NEW v \in Upload,
             OpenToWrite(v) \/ Write(v) \/ WriteEnds(v) \/ OpenToRead(v) \/ Missing(v)
      PROVE  UNCHANGED pc \/ \E l \in Location : Goto(v, l)
  BY <1>5 DEF OpenToWrite, Write, WriteEnds, OpenToRead, Missing, Location
<1>6. ASSUME NEW v \in Upload, ReadLine(v) \/ ReadEnds(v) \/ FlushChunk(v) \/ Invalidate(v)
      PROVE  UNCHANGED pc \/ \E l \in Location : Goto(v, l)
  BY <1>6 DEF ReadLine, ReadEnds, FlushChunk, Invalidate, Location
<1>7. ASSUME NEW v \in Upload, Unlink(v) \/ WriteFails(v) \/ FlushFails(v) \/ InvalidateFails(v)
      PROVE  UNCHANGED pc \/ \E l \in Location : Goto(v, l)
  BY <1>7 DEF Unlink, WriteFails, FlushFails, InvalidateFails, Location
<1>8. ASSUME NEW v \in Upload, Write(v) PROVE UNCHANGED pc
  BY <1>8 DEF Write
<1> QED
  BY <1>1, <1>2, <1>3, <1>4, <1>5, <1>6, <1>7, <1>8 DEF Next, Moved

\* Nobody comes back to the start, and what is hit has started.
LEMMA Started ==
    ASSUME TypeOK, [Next]_vars
    PROVE  /\ \A u \in Upload : pc'[u] = "idle" => pc[u] = "idle"
           /\ \A u \in Upload : pc[u] = "idle" /\ pc'[u] # "idle" => OpenToWrite(u)
           /\ \A u \in hit' \ hit : pc[u] # "idle"
<1>0. pc \in [Upload -> Location]
  BY DEF TypeOK
<1>1. ASSUME NEW u \in Upload, Moved(u) PROVE pc[u] # "idle" /\ pc'[u] # "idle"
  <2>1. CASE WriteEnds(u) \/ OpenToRead(u) \/ Missing(u)
    BY <1>0, <2>1 DEF WriteEnds, OpenToRead, Missing, Goto
  <2>2. CASE ReadLine(u) \/ ReadEnds(u) \/ FlushChunk(u) \/ Invalidate(u)
    BY <1>0, <2>2 DEF ReadLine, ReadEnds, FlushChunk, Invalidate, Goto
  <2>3. CASE Unlink(u) \/ WriteFails(u) \/ FlushFails(u) \/ InvalidateFails(u)
    BY <1>0, <2>3 DEF Unlink, WriteFails, FlushFails, InvalidateFails, Goto
  <2> QED
    BY <1>1, <2>1, <2>2, <2>3 DEF Moved
<1>2. ASSUME NEW u \in Upload, OpenToWrite(u) PROVE pc'[u] # "idle"
  BY <1>0, <1>2 DEF OpenToWrite, Goto
<1>3. ASSUME NEW u \in hit' \ hit PROVE pc[u] # "idle"
  <2>1. CASE Crash
    BY <2>1 DEF Crash, Live
  <2>2. ASSUME NEW v \in Upload, Unlink(v) \/ WriteFails(v) \/ FlushFails(v) \/ InvalidateFails(v)
        PROVE  pc[u] # "idle"
    BY <2>2 DEF Unlink, WriteFails, FlushFails, InvalidateFails, Fault, history
  <2> QED
    BY <2>1, <2>2, Changes
<1> QED
  BY <1>1, <1>2, <1>3, Moves DEF Live

LEMMA NextFilesHaveOnePath ==
    ASSUME TypeOK, FilesHaveOnePath, [Next]_vars
    PROVE  FilesHaveOnePath'
<1> USE ConstantsAssumption
<1>0. /\ path \in [Upload -> Time \cup {0}] /\ handle \in [Upload -> Upload]
      /\ directory \in [Time -> Upload \cup {NONE}] /\ clock \in Time /\ 0 \notin Time
      /\ pc \in [Upload -> Location]
  BY DEF TypeOK, Time
<1>1. ASSUME NEW u \in Upload, disk'[u] # <<>> PROVE disk'[u][Len(disk'[u])] # HOLE
  <2>1. CASE UNCHANGED disk
    BY <1>1, <2>1 DEF FilesHaveOnePath
  <2>2. ASSUME NEW v \in Upload, OpenToWrite(v) PROVE disk'[u][Len(disk'[u])] # HOLE
    <3>1. disk'[u] = disk[u] \/ disk'[u] = <<>>
      BY <2>2 DEF OpenToWrite, TypeOK
    <3> QED
      BY <1>1, <3>1 DEF FilesHaveOnePath
  <2>3. ASSUME NEW v \in Upload, Write(v) PROVE disk'[u][Len(disk'[u])] # HOLE
    <3>1. handle[v] \in Upload /\ at[v] \in Nat /\ file[v] \in Seq(Sent) /\ at[v] < Len(file[v])
      BY <2>3 DEF Write, TypeOK
    <3>2. at[v] + 1 \in Nat \ {0} /\ at[v] + 1 \in 1 .. Len(file[v])
      BY <3>1
    <3>7. file[v][at[v] + 1] \in Sent
      BY <3>1, <3>2
    <3>8. disk[handle[v]] \in Content
      BY <3>1 DEF TypeOK, FilesHaveOnePath, Content
    <3>3. Written(disk[handle[v]], at[v] + 1, file[v][at[v] + 1]) \in Content
      BY <3>2, <3>7, <3>8, WrittenFacts
    <3>4. disk' = [disk EXCEPT ![handle[v]] = Written(disk[handle[v]], at[v] + 1, file[v][at[v] + 1])]
      BY <2>3 DEF Write
    <3>5. disk[u] \in Content
      BY DEF TypeOK, FilesHaveOnePath, Content
    <3>6. disk'[u] \in Content
      BY <3>1, <3>3, <3>4, <3>5 DEF TypeOK
    <3> QED
      BY <1>1, <3>6 DEF Content
  <2> QED
    BY <2>1, <2>2, <2>3, Changes
<1>2. ASSUME NEW u \in Upload, OpenToWrite(u) PROVE FilesHaveOnePath'
  <2>1. pc[u] = "idle" /\ path[u] = 0 /\ path' = [path EXCEPT ![u] = clock] /\ hit' = hit
        /\ pc' = [pc EXCEPT ![u] = "write"]
    BY <1>2 DEF OpenToWrite, Goto, FilesHaveOnePath
  <2>2. PICK v \in Upload : /\ path'[v] = clock
                            /\ directory' = [directory EXCEPT ![clock] = v]
                            /\ handle' = [handle EXCEPT ![u] = v]
    <3> DEFINE v == IF directory[clock] = NONE THEN u ELSE directory[clock]
    <3>1. v \in Upload
      BY <1>0
    <3>2. path'[v] = clock
      BY <1>0, <2>1 DEF FilesHaveOnePath
    <3>3. directory' = [directory EXCEPT ![clock] = v] /\ handle' = [handle EXCEPT ![u] = v]
      BY <1>2 DEF OpenToWrite
    <3> QED
      BY <3>1, <3>2, <3>3
  <2>3. ASSUME NEW t \in Time, directory'[t] # NONE PROVE path'[directory'[t]] = t
    <3>1. CASE t = clock
      BY <1>0, <2>2, <3>1
    <3>2. CASE t # clock
      <4>1. directory'[t] = directory[t] /\ path[directory[t]] = t /\ directory[t] \in Upload
        BY <1>0, <2>2, <2>3, <3>2 DEF FilesHaveOnePath
      <4>2. directory[t] # u
        BY <1>0, <2>1, <4>1
      <4> QED
        BY <1>0, <2>1, <4>1, <4>2
    <3> QED
      BY <3>1, <3>2
  <2>4. ASSUME NEW w \in Upload, pc'[w] # "idle" PROVE path'[handle'[w]] = path'[w]
    <3>1. CASE w = u
      BY <1>0, <2>1, <2>2, <3>1
    <3>2. CASE w # u
      <4>1. pc[w] # "idle" /\ path[handle[w]] = path[w] /\ path[w] # 0 /\ handle'[w] = handle[w]
        BY <1>0, <2>1, <2>2, <2>4, <3>2 DEF FilesHaveOnePath
      <4>2. handle[w] # u
        BY <2>1, <4>1
      <4> QED
        BY <1>0, <2>1, <3>2, <4>1, <4>2
    <3> QED
      BY <3>1, <3>2
  <2>5. ASSUME NEW w \in Upload PROVE pc'[w] = "idle" <=> path'[w] = 0
    BY <1>0, <2>1 DEF FilesHaveOnePath
  <2>6. ASSUME NEW w \in Upload, pc'[w] = "idle" PROVE w \notin hit' \cup shared'
    <3>1. w # u /\ pc[w] = "idle" /\ ~Live(w)
      BY <1>0, <2>1, <2>6 DEF Live
    <3> QED
      BY <1>2, <2>1, <3>1 DEF OpenToWrite, FilesHaveOnePath
  <2> QED
    BY <1>1, <2>3, <2>4, <2>5, <2>6 DEF FilesHaveOnePath
<1>3. ASSUME UNCHANGED <<path, shared>> PROVE FilesHaveOnePath' \/ \E u \in Upload : OpenToWrite(u)
  <2> SUFFICES ASSUME ~ \E u \in Upload : OpenToWrite(u) PROVE FilesHaveOnePath'
    OBVIOUS
  <2>1. ASSUME NEW t \in Time, directory'[t] # NONE PROVE path'[directory'[t]] = t
    <3>1. directory'[t] = directory[t]
      <4>1. CASE UNCHANGED directory
        BY <4>1
      <4>2. ASSUME NEW u \in Upload, Unlink(u) PROVE directory'[t] = directory[t]
        BY <1>0, <2>1, <4>2 DEF Unlink, withoutFile
      <4> QED
        BY <4>1, <4>2, Changes
    <3> QED
      BY <1>3, <2>1, <3>1 DEF FilesHaveOnePath
  <2>2. ASSUME NEW w \in Upload PROVE pc'[w] = "idle" <=> pc[w] = "idle"
    BY Started
  <2>3. ASSUME NEW w \in Upload, pc'[w] # "idle" PROVE path'[handle'[w]] = path'[w]
    <3>1. CASE UNCHANGED handle
      BY <1>3, <2>2, <2>3, <3>1 DEF FilesHaveOnePath
    <3>2. ASSUME NEW u \in Upload, OpenToRead(u) PROVE path'[handle'[w]] = path'[w]
      <4>1. path[u] \in Time /\ path[directory[path[u]]] = path[u]
        BY <1>0, <3>2 DEF OpenToRead, FilesHaveOnePath
      <4>2. handle' = [handle EXCEPT ![u] = directory[path[u]]]
        BY <3>2 DEF OpenToRead
      <4>3. w # u => path[handle[w]] = path[w]
        BY <2>2, <2>3 DEF FilesHaveOnePath
      <4> QED
        BY <1>0, <1>3, <4>1, <4>2, <4>3
    <3> QED
      BY <3>1, <3>2, Changes
  <2>4. ASSUME NEW w \in Upload, pc'[w] = "idle" PROVE w \notin hit' \cup shared'
    BY <1>3, <2>2, <2>4, Started DEF FilesHaveOnePath
  <2>5. ASSUME NEW w \in Upload PROVE pc'[w] = "idle" <=> path'[w] = 0
    BY <1>3, <2>2 DEF FilesHaveOnePath
  <2> QED
    BY <1>1, <2>1, <2>3, <2>4, <2>5 DEF FilesHaveOnePath
<1> QED
  BY <1>2, <1>3, Changes

-----------------------------------------------------------------------------
(* Chunks. *)

\* What belongs to an upload changes by its own operations, or by a crash.
LEMMA OwnChanges ==
    ASSUME TypeOK, [Next]_vars, NEW u \in Upload
    PROVE  /\ UNCHANGED <<chunk[u], headed[u], stats[u]>> \/ ReadLine(u) \/ FlushChunk(u)
           /\ UNCHANGED at[u] \/ Write(u) \/ OpenToRead(u) \/ ReadLine(u)
           /\ UNCHANGED handle[u] \/ OpenToWrite(u) \/ OpenToRead(u)
           /\ UNCHANGED path[u] \/ OpenToWrite(u)
           /\ \/ UNCHANGED answer[u] \/ WriteFails(u) \/ Unlink(u)
              \/ Crash /\ Live(u) /\ answer'[u] = 0 /\ pc'[u] = "done"
           /\ UNCHANGED file[u]
<1>0. /\ path \in [Upload -> Time \cup {0}] /\ handle \in [Upload -> Upload] /\ at \in [Upload -> Nat]
      /\ RowsFit /\ AnswersFit
  BY DEF TypeOK, RowsFit, AnswersFit
<1>1. UNCHANGED <<chunk[u], headed[u], stats[u]>> \/ ReadLine(u) \/ FlushChunk(u)
  <2>1. ASSUME NEW v \in Upload, ReadLine(v)
        PROVE  u = v \/ UNCHANGED <<chunk[u], headed[u], stats[u]>>
    <3>1. /\ UNCHANGED chunk \/ \E c : chunk' = [chunk EXCEPT ![v] = c]
          /\ UNCHANGED headed \/ \E h : headed' = [headed EXCEPT ![v] = h]
          /\ UNCHANGED stats \/ \E s : stats' = [stats EXCEPT ![v] = s]
      BY <2>1 DEF ReadLine
    <3> QED
      BY <1>0, <3>1 DEF RowsFit
  <2>2. ASSUME NEW v \in Upload, FlushChunk(v)
        PROVE  u = v \/ UNCHANGED <<chunk[u], headed[u], stats[u]>>
    <3>1. CASE Accepted(v)
      BY <1>0, <2>2, <3>1 DEF FlushChunk, RowsFit
    <3>2. CASE ~Accepted(v)
      BY <2>2, <3>2 DEF FlushChunk
    <3> QED
      BY <3>1, <3>2
  <2> QED
    BY <2>1, <2>2, Changes
<1>2. UNCHANGED at[u] \/ Write(u) \/ OpenToRead(u) \/ ReadLine(u)
  <2>1. ASSUME NEW v \in Upload, Write(v) \/ OpenToRead(v) \/ ReadLine(v)
        PROVE  u = v \/ UNCHANGED at[u]
    BY <1>0, <2>1 DEF Write, OpenToRead, ReadLine
  <2> QED
    BY <2>1, Changes
<1>3. UNCHANGED handle[u] \/ OpenToWrite(u) \/ OpenToRead(u)
  <2>1. ASSUME NEW v \in Upload, OpenToWrite(v) \/ OpenToRead(v)
        PROVE  u = v \/ UNCHANGED handle[u]
    BY <1>0, <2>1 DEF OpenToWrite, OpenToRead
  <2> QED
    BY <2>1, Changes
<1>4. UNCHANGED path[u] \/ OpenToWrite(u)
  <2>1. ASSUME NEW v \in Upload, OpenToWrite(v) PROVE u = v \/ UNCHANGED path[u]
    BY <1>0, <2>1 DEF OpenToWrite
  <2> QED
    BY <2>1, Changes
<1>5. \/ UNCHANGED answer[u] \/ WriteFails(u) \/ Unlink(u)
      \/ Crash /\ Live(u) /\ answer'[u] = 0 /\ pc'[u] = "done"
  <2>1. ASSUME NEW v \in Upload, Unlink(v) \/ WriteFails(v)
        PROVE  u = v \/ UNCHANGED answer[u]
    BY <1>0, <2>1 DEF Unlink, WriteFails, AnswersFit
  <2>2. ASSUME NEW v \in Upload, FlushFails(v) \/ InvalidateFails(v) PROVE UNCHANGED answer[u]
    BY <2>2 DEF FlushFails, InvalidateFails
  <2>3. ASSUME Crash
        PROVE  UNCHANGED answer[u] \/ (Live(u) /\ answer'[u] = 0 /\ pc'[u] = "done")
    BY <1>0, <2>3 DEF Crash, AnswersFit
  <2> QED
    BY <2>1, <2>2, <2>3, Changes
<1>6. UNCHANGED file[u]
  BY Changes
<1> QED
  BY <1>1, <1>2, <1>3, <1>4, <1>5, <1>6

LEMMA NextChunkIsFlushed ==
    ASSUME TypeOK, FilesHaveOnePath, ChunkIsFlushed, [Next]_vars
    PROVE  ChunkIsFlushed'
<1> USE ConstantsAssumption
<1> SUFFICES ASSUME NEW u \in Upload
             PROVE  /\ pc'[u] = "idle" => at'[u] = 0
                    /\ pc'[u] \in {"idle", "write", "open"} =>
                         chunk'[u] = <<>> /\ ~headed'[u] /\ stats'[u] = NoStats
                    /\ pc'[u] = "read" => Len(chunk'[u]) < CHUNK_SIZE
                    /\ Finished(u)' => chunk'[u] = <<>>
  BY DEF ChunkIsFlushed
<1>0. AnswersFit /\ RowsFit
  BY DEF TypeOK, AnswersFit, RowsFit
<1>1. pc'[u] = "idle" => at'[u] = 0
  <2>1. pc[u] = "idle" => UNCHANGED at[u]
    BY OwnChanges DEF Write, OpenToRead, ReadLine
  <2> QED
    BY <2>1, Started DEF ChunkIsFlushed
<1>2. CASE ReadLine(u)
  <2>1. pc[u] = "read" /\ UNCHANGED answer /\ answer[u] = NONE
    BY <1>0, <1>2 DEF ReadLine, AnswersFit
  <2>2. PassesOver(u) \/ Skips(u) \/ Gathers(u)
    BY <1>2, ReadFacts
  <2>3. CASE PassesOver(u) \/ Skips(u)
    BY <1>1, <2>1, <2>3 DEF PassesOver, Skips, ChunkIsFlushed, Finished
  <2>4. CASE Gathers(u)
    <3>1. chunk'[u] = Append(chunk[u], Turn(u).line) /\ chunk[u] \in Seq(Checked)
          /\ Turn(u).line \in Checked
      BY <1>0, <2>4 DEF Gathers, RowsFit
    <3>2. Len(chunk'[u]) = Len(chunk[u]) + 1 /\ Len(chunk[u]) \in Nat
      BY <3>1
    <3>3. \/ pc'[u] = "flush"
          \/ pc'[u] = "read" /\ ~(Len(chunk[u]) + 1 >= CHUNK_SIZE)
      BY <1>0, <2>1, <2>4 DEF Gathers, full, Goto, AnswersFit
    <3> QED
      BY <1>1, <2>1, <3>2, <3>3 DEF Finished
  <2> QED
    BY <2>2, <2>3, <2>4
<1>3. CASE FlushChunk(u)
  <2>1. pc[u] \in {"flush", "last"} /\ UNCHANGED answer /\ answer[u] = NONE
    BY <1>0, <1>3 DEF FlushChunk, AnswersFit
  <2>2. CASE Accepted(u)
    BY <1>0, <1>3, <2>1, <2>2 DEF FlushChunk, Goto, AnswersFit, RowsFit, Finished
  <2>3. CASE ~Accepted(u)
    BY <1>0, <1>3, <2>1, <2>3 DEF FlushChunk, Goto, AnswersFit, RowsFit, Finished
  <2> QED
    BY <2>2, <2>3
<1>4. ASSUME ~ReadLine(u), ~FlushChunk(u)
      PROVE  /\ UNCHANGED <<chunk[u], headed[u], stats[u]>>
             /\ pc'[u] \in {"idle", "write", "open"} => pc[u] \in {"idle", "write", "open"}
             /\ pc'[u] = "read" => pc[u] \in {"read", "open"}
             /\ Finished(u)' => chunk[u] = <<>>
  <2>1. UNCHANGED <<chunk[u], headed[u], stats[u]>>
    BY <1>4, OwnChanges
  <2>2. CASE pc'[u] = pc[u]
    <3>1. UNCHANGED answer[u]
      BY <1>0, <2>2, OwnChanges DEF WriteFails, Unlink, Goto, AnswersFit, Live
    <3> QED
      BY <2>1, <2>2, <3>1 DEF Finished, ChunkIsFlushed
  <2>3. CASE OpenToWrite(u)
    BY <1>0, <2>1, <2>3 DEF OpenToWrite, Goto, AnswersFit, Finished, ChunkIsFlushed
  <2>4. CASE Crash /\ Live(u) /\ pc'[u] = "done"
    <3>1. answer'[u] = 0
      BY <2>4 DEF Crash
    <3> QED
      BY <2>1, <2>4, <3>1 DEF Finished
  <2>5. CASE WriteEnds(u) \/ OpenToRead(u) \/ Missing(u) \/ FlushFails(u) \/ InvalidateFails(u)
    <3>1. pc[u] # "done" /\ pc'[u] \in {"open", "read", "failed"} /\ UNCHANGED answer
          /\ (pc'[u] = "open" => pc[u] = "write") /\ (pc'[u] = "read" => pc[u] = "open")
      BY <1>0, <2>5 DEF WriteEnds, OpenToRead, Missing, FlushFails, InvalidateFails, Goto, AnswersFit
    <3> QED
      BY <1>0, <2>1, <3>1 DEF AnswersFit, Finished
  <2>6. CASE ReadEnds(u) \/ Invalidate(u) \/ Unlink(u) \/ WriteFails(u)
    <3>1. CASE ReadEnds(u)
      BY <1>0, <2>1, <3>1 DEF ReadEnds, Goto, AnswersFit, Finished
    <3>2. CASE Invalidate(u)
      BY <1>0, <2>1, <3>2 DEF Invalidate, Goto, AnswersFit, Finished, ChunkIsFlushed
    <3>3. CASE Unlink(u)
      BY <1>0, <2>1, <3>3 DEF Unlink, Goto, AnswersFit, Finished, ChunkIsFlushed
    <3>4. CASE WriteFails(u)
      BY <1>0, <2>1, <3>4 DEF WriteFails, Goto, AnswersFit, Finished, ChunkIsFlushed
    <3> QED
      BY <2>6, <3>1, <3>2, <3>3, <3>4
  <2> QED
    BY <1>4, <2>2, <2>3, <2>4, <2>5, <2>6, Moves DEF Moved
<1>5. ASSUME ~ReadLine(u), ~FlushChunk(u), pc'[u] = "read" PROVE Len(chunk'[u]) < CHUNK_SIZE
  BY <1>4, <1>5 DEF ChunkIsFlushed
<1> QED
  BY <1>1, <1>2, <1>3, <1>4, <1>5 DEF ChunkIsFlushed

-----------------------------------------------------------------------------
(* An upload that is alone on its path. *)

\* The stages of an upload come one after another.
LEMMA Stages ==
    ASSUME TypeOK, [Next]_vars, NEW u \in Upload
    PROVE  /\ Live(u)' => Live(u) \/ OpenToWrite(u)
           /\ pc'[u] = "write" => pc[u] = "write" \/ OpenToWrite(u)
           /\ pc'[u] \in {"open", "read", "flush", "last"} =>
                pc[u] \in {"open", "read", "flush", "last"} \/ WriteEnds(u)
           /\ pc'[u] = "write" /\ pc[u] = "write" => UNCHANGED at[u] \/ Write(u)
<1>0. pc \in [Upload -> Location]
  BY DEF TypeOK
<1>1. CASE pc'[u] = pc[u]
  BY <1>1, OwnChanges DEF Live, OpenToRead, ReadLine
<1>2. CASE OpenToWrite(u)
  BY <1>0, <1>2 DEF OpenToWrite, Goto
<1>3. CASE Crash /\ Live(u) /\ pc'[u] = "done"
  BY <1>3 DEF Live
<1>4. CASE WriteEnds(u) \/ OpenToRead(u) \/ Missing(u)
  BY <1>0, <1>4 DEF WriteEnds, OpenToRead, Missing, Goto, Live
<1>5. CASE ReadLine(u) \/ ReadEnds(u) \/ FlushChunk(u) \/ Invalidate(u)
  BY <1>0, <1>5 DEF ReadLine, ReadEnds, FlushChunk, Invalidate, Goto, Live
<1>6. CASE Unlink(u) \/ WriteFails(u) \/ FlushFails(u) \/ InvalidateFails(u)
  BY <1>0, <1>6 DEF Unlink, WriteFails, FlushFails, InvalidateFails, Goto, Live
<1> QED
  BY <1>1, <1>2, <1>3, <1>4, <1>5, <1>6, Moves DEF Moved

\* What being alone gives an upload.
Alone(u) ==
    /\ \A v \in Upload \ {u} : Live(v) => path[v] # path[u]
    /\ directory[path[u]] = handle[u]
    /\ pc[u] = "write" => /\ at[u] <= Len(file[u])
                          /\ disk[handle[u]] = SubSeq(file[u], 1, at[u])
    /\ pc[u] \in {"open", "read", "flush", "last"} => disk[handle[u]] = file[u]

\* Opening a file: the one who opens it, and any other upload that stays alone.
LEMMA OpenKeepsAlone ==
    ASSUME TypeOK, FilesHaveOnePath, ChunkIsFlushed, AloneReadsItsOwn,
           NEW w \in Upload, OpenToWrite(w), NEW u \in Upload, Live(u)', u \notin shared'
    PROVE  Alone(u)'
<1> USE ConstantsAssumption
<1> DEFINE there == directory[clock]
           opened == IF there = NONE THEN w ELSE there
           others == {v \in Upload : Live(v) /\ path[v] = clock}
<1>0. /\ path \in [Upload -> Time \cup {0}] /\ handle \in [Upload -> Upload]
      /\ directory \in [Time -> Upload \cup {NONE}] /\ clock \in Time /\ 0 \notin Time
      /\ pc \in [Upload -> Location] /\ disk \in [Upload -> Seq(Sent \cup {HOLE})]
      /\ at \in [Upload -> Nat] /\ file[u] \in Seq(Sent)
  BY DEF TypeOK, Time
<1>o. opened \in Upload
  BY <1>0
<1>1. /\ pc[w] = "idle" /\ path[w] = 0 /\ path' = [path EXCEPT ![w] = clock] /\ at[w] = 0
      /\ pc' = [pc EXCEPT ![w] = "write"] /\ at' = at /\ file' = file
      /\ handle' = [handle EXCEPT ![w] = opened]
      /\ disk' = [disk EXCEPT ![opened] = <<>>]
      /\ directory' = [directory EXCEPT ![clock] = opened]
      /\ shared' = IF others # {} THEN shared \cup others \cup {w} ELSE shared
  BY DEF OpenToWrite, Goto, FilesHaveOnePath, ChunkIsFlushed
<1>2. /\ path[opened] = clock \/ opened = w
      /\ \A v \in Upload : Live(v) => v # w /\ path[handle[v]] = path[v] /\ path[v] # 0
  BY <1>0, <1>1 DEF FilesHaveOnePath, Live
<1>3. \A v \in Upload \ {w} : Live(v)' <=> Live(v)
  BY <1>0, <1>1 DEF Live
<1> HIDE DEF there, opened
<1>4. CASE u = w
  <2>1. others = {}
    BY <1>1, <1>4
  <2>2. /\ \A v \in Upload \ {u} : Live(v)' => path'[v] # path'[u]
        /\ directory'[path'[u]] = handle'[u] /\ pc'[u] = "write" /\ at'[u] = 0
        /\ disk'[handle'[u]] = <<>>
    BY <1>0, <1>o, <1>1, <1>3, <1>4, <2>1
  <2>3. SubSeq(file'[u], 1, 0) = <<>> /\ 0 <= Len(file'[u])
    BY <1>0, <1>1
  <2> QED
    BY <2>2, <2>3 DEF Alone
<1>5. CASE u # w
  <2>1. Live(u) /\ u \notin shared /\ path[u] # clock
    BY <1>1, <1>3, <1>5
  <2>2. Alone(u)
    BY <2>1 DEF AloneReadsItsOwn, Alone
  <2>3. handle[u] # opened
    BY <1>1, <1>2, <2>1
  <2>4. path[u] \in Time /\ handle[u] \in Upload
    BY <1>0, <1>2, <2>1
  <2>5. /\ \A v \in Upload \ {u} : Live(v)' => path'[v] # path'[u]
        /\ directory'[path'[u]] = directory[path[u]] /\ pc'[u] = pc[u] /\ at'[u] = at[u]
        /\ handle'[u] = handle[u] /\ disk'[handle'[u]] = disk[handle[u]]
    BY <1>0, <1>o, <1>1, <1>3, <1>5, <2>1, <2>2, <2>3, <2>4 DEF Alone
  <2> QED
    BY <1>1, <2>2, <2>5 DEF Alone
<1> QED
  BY <1>4, <1>5

LEMMA NextAloneReadsItsOwn ==
    ASSUME TypeOK, FilesHaveOnePath, ChunkIsFlushed, AloneReadsItsOwn, [Next]_vars
    PROVE  AloneReadsItsOwn'
<1> USE ConstantsAssumption
<1> SUFFICES ASSUME NEW u \in Upload, Live(u)', u \notin shared' PROVE Alone(u)'
  BY DEF AloneReadsItsOwn, Alone
<1>1. CASE \E w \in Upload : OpenToWrite(w)
  BY <1>1, OpenKeepsAlone
<1>2. CASE ~ \E w \in Upload : OpenToWrite(w)
  <2>0. /\ path \in [Upload -> Time \cup {0}] /\ handle \in [Upload -> Upload]
        /\ directory \in [Time -> Upload \cup {NONE}] /\ at \in [Upload -> Nat]
        /\ pc \in [Upload -> Location] /\ disk \in [Upload -> Seq(Sent \cup {HOLE})]
        /\ file[u] \in Seq(Sent)
    BY DEF TypeOK
  <2>1. UNCHANGED <<path, shared>> /\ file'[u] = file[u] /\ \A v \in Upload : Live(v)' => Live(v)
    BY <1>2, Changes, Stages
  <2>2. Live(u) /\ u \notin shared /\ Alone(u)
    BY <2>1 DEF AloneReadsItsOwn, Alone
  <2>3. path[u] \in Time /\ path[handle[u]] = path[u]
    BY <2>0, <2>2 DEF Live, FilesHaveOnePath
  <2>4. handle'[u] = handle[u]
    <3>1. CASE OpenToRead(u)
      BY <2>0, <2>2, <3>1 DEF OpenToRead, Alone
    <3> QED
      BY <1>2, <3>1, OwnChanges
  <2>5. directory'[path[u]] = directory[path[u]]
    <3>1. ASSUME NEW w \in Upload, Unlink(w) PROVE directory'[path[u]] = directory[path[u]]
      <4>1. w # u
        BY <2>0, <3>1 DEF Unlink, Goto, Live
      <4>2. path[w] # path[u]
        BY <2>2, <3>1, <4>1 DEF Unlink, Live, Alone
      <4> QED
        BY <2>0, <2>3, <3>1, <4>2 DEF Unlink, withoutFile
    <3> QED
      BY <1>2, <3>1, Changes
  <2>6. \A v \in Upload \ {u} : Live(v)' => path'[v] # path'[u]
    BY <2>1, <2>2 DEF Alone
  <2>7. CASE \E w \in Upload : Write(w)
    <3>1. PICK w \in Upload : Write(w)
      BY <2>7
    <3>2. CASE w = u
      <4>1. /\ disk[handle[u]] = SubSeq(file[u], 1, at[u]) /\ at[u] < Len(file[u]) /\ at[u] \in Nat
            /\ disk[handle[u]] \in Content
        BY <2>0, <2>2, <3>1, <3>2 DEF Write, Alone, FilesHaveOnePath, Content
      <4>2. Written(disk[handle[u]], at[u] + 1, file[u][at[u] + 1]) = SubSeq(file[u], 1, at[u] + 1)
        <5> DEFINE k == at[u] + 1
        <5>1. k \in Nat \ {0} /\ k <= Len(file[u]) /\ k - 1 = at[u]
          BY <2>0, <4>1
        <5>2. file[u][k] \in Sent /\ disk[handle[u]] = SubSeq(file[u], 1, k - 1)
          BY <2>0, <4>1, <5>1
        <5> HIDE DEF k
        <5>3. Written(disk[handle[u]], k, file[u][k]) = SubSeq(file[u], 1, k)
          <6>1. PICK c, f, line : c = disk[handle[u]] /\ f = file[u] /\ line = file[u][k]
            OBVIOUS
          <6>2. c \in Content /\ f \in Seq(Sent) /\ line \in Sent
            BY <2>0, <4>1, <5>2, <6>1
          <6>3. k <= Len(f) /\ c = SubSeq(f, 1, k - 1) /\ line = f[k]
            BY <5>1, <5>2, <6>1
          <6>4. Written(c, k, line) = SubSeq(f, 1, k)
            BY <5>1, <6>2, <6>3, WrittenFacts
          <6> QED
            BY <6>1, <6>4
        <5> QED
          BY <5>3 DEF k
      <4>3. /\ disk' = [disk EXCEPT ![handle[u]] = Written(disk[handle[u]], at[u] + 1, file[u][at[u] + 1])]
            /\ at' = [at EXCEPT ![u] = at[u] + 1] /\ pc'[u] = "write"
        BY <3>1, <3>2 DEF Write
      <4>4. disk'[handle'[u]] = SubSeq(file[u], 1, at[u] + 1) /\ at'[u] = at[u] + 1
        BY <2>0, <2>4, <4>2, <4>3
      <4>5. at'[u] <= Len(file'[u])
        BY <2>0, <2>1, <4>1, <4>4
      <4> QED
        BY <2>1, <2>2, <2>4, <2>5, <2>6, <4>3, <4>4, <4>5 DEF Alone
    <3>3. CASE w # u
      <4>1. handle[w] # handle[u]
        BY <2>2, <2>3, <3>1, <3>3 DEF Write, Live, Alone, FilesHaveOnePath
      <4>2. disk'[handle'[u]] = disk[handle[u]] /\ at'[u] = at[u] /\ pc'[u] = pc[u]
        BY <2>0, <2>4, <3>1, <3>3, <4>1 DEF Write
      <4> QED
        BY <2>1, <2>2, <2>4, <2>5, <2>6, <4>2 DEF Alone
    <3> QED
      BY <3>2, <3>3
  <2>8. CASE ~ \E w \in Upload : Write(w)
    <3>1. disk' = disk
      BY <1>2, <2>8, Changes
    <3>2. pc'[u] = "write" => pc[u] = "write" /\ at'[u] = at[u]
      BY <1>2, <2>8, Stages
    <3>3. WriteEnds(u) => disk[handle[u]] = file[u]
      <4>1. SubSeq(file[u], 1, Len(file[u])) = file[u]
        BY <2>0
      <4> QED
        BY <2>2, <4>1 DEF WriteEnds, Alone
    <3>4. pc'[u] \in {"open", "read", "flush", "last"} => disk[handle[u]] = file[u]
      BY <2>2, <3>3, Stages DEF Alone
    <3> QED
      BY <2>1, <2>2, <2>4, <2>5, <2>6, <3>1, <3>2, <3>4 DEF Alone
  <2> QED
    BY <2>7, <2>8
<1> QED
  BY <1>1, <1>2

-----------------------------------------------------------------------------
(* Counts. *)

\* A row that is read waits in the chunk or is skipped with its reason.
LEMMA ReadCounts ==
    ASSUME TypeOK, FilesHaveOnePath, NEW u \in Upload, ReadLine(u),
           stats[u].skipped = SumFunctionOnSet(stats[u].reasons, Counted)
    PROVE  /\ \A v \in Upload : stats'[v].inserted = stats[v].inserted
           /\ stats'[u].skipped = SumFunctionOnSet(stats'[u].reasons, Counted)
           /\ \/ stats'[u] = stats[u] /\ chunk'[u] = chunk[u]
              \/ /\ stats'[u].total_rows = stats[u].total_rows + 1
                 /\ stats'[u].skipped = stats[u].skipped + 1 /\ chunk'[u] = chunk[u]
              \/ /\ stats'[u].total_rows = stats[u].total_rows + 1
                 /\ stats'[u].skipped = stats[u].skipped
                 /\ Len(chunk'[u]) = Len(chunk[u]) + 1
<1> DEFINE s == [stats[u] EXCEPT !.total_rows = @ + 1]
<1>0. RowsFit
  BY DEF TypeOK, RowsFit
<1>1. /\ s \in Stats /\ s.total_rows = stats[u].total_rows + 1 /\ s.inserted = stats[u].inserted
      /\ s.skipped = stats[u].skipped /\ s.reasons = stats[u].reasons
      /\ stats[u].total_rows \in Nat /\ stats[u].skipped \in Nat /\ stats \in [Upload -> Stats]
  <2>1. \A t \in Stats : LET q == [t EXCEPT !.total_rows = @ + 1]
                         IN  /\ q \in Stats /\ q.total_rows = t.total_rows + 1
                             /\ q.inserted = t.inserted /\ q.skipped = t.skipped
                             /\ q.reasons = t.reasons /\ t.total_rows \in Nat /\ t.skipped \in Nat
    BY DEF Stats
  <2> QED
    BY <1>0, <2>1 DEF RowsFit
<1>2. CASE PassesOver(u)
  BY <1>0, <1>1, <1>2 DEF PassesOver, RowsFit
<1>3. CASE Skips(u)
  <2> DEFINE r == reason(Turn(u).line)
             b == Bump(s, r, 1)
  <2>1. r \in Counted
    BY <1>3, ReasonsFacts DEF Skips
  <2> HIDE DEF s, r
  <2>2. /\ b.total_rows = s.total_rows /\ b.inserted = s.inserted /\ b.skipped = s.skipped + 1
        /\ b.skipped = SumFunctionOnSet(b.reasons, Counted)
    <3>1. PICK t, q : t = s /\ q = r
      OBVIOUS
    <3>2. t \in Stats /\ q \in Counted /\ t.skipped = SumFunctionOnSet(t.reasons, Counted)
      BY <1>1, <2>1, <3>1
    <3>3. /\ Bump(t, q, 1).total_rows = t.total_rows /\ Bump(t, q, 1).inserted = t.inserted
          /\ Bump(t, q, 1).skipped = t.skipped + 1
          /\ Bump(t, q, 1).skipped = SumFunctionOnSet(Bump(t, q, 1).reasons, Counted)
      BY <3>2, BumpFacts
    <3> QED
      BY <3>1, <3>3
  <2>3. stats' = [stats EXCEPT ![u] = b] /\ chunk' = chunk
    BY <1>3 DEF Skips, s, r
  <2> HIDE DEF b
  <2>4. stats'[u] = b /\ \A v \in Upload \ {u} : stats'[v] = stats[v]
    BY <1>1, <2>3
  <2>5. \A v \in Upload : stats'[v].inserted = stats[v].inserted
    BY <1>1, <2>2, <2>4
  <2> QED
    BY <1>1, <2>2, <2>3, <2>4, <2>5
<1>4. CASE Gathers(u)
  <2>1. stats'[u] = s /\ \A v \in Upload \ {u} : stats'[v] = stats[v]
    BY <1>1, <1>4 DEF Gathers
  <2>2. chunk[u] \in Seq(Checked) /\ chunk'[u] = Append(chunk[u], Turn(u).line)
    BY <1>0, <1>4 DEF Gathers, RowsFit
  <2>3. Len(chunk'[u]) = Len(chunk[u]) + 1
    BY <2>2
  <2> HIDE DEF s
  <2>4. \A v \in Upload : stats'[v].inserted = stats[v].inserted
    BY <1>1, <2>1
  <2> QED
    BY <1>1, <2>1, <2>3, <2>4
<1> QED
  BY <1>2, <1>3, <1>4, ReadFacts

\* What a statement has inserted, and what it has skipped as duplicates.
LEMMA FlushCounts ==
    ASSUME TypeOK, NEW u \in Upload, FlushChunk(u), Accepted(u),
           stats[u].skipped = SumFunctionOnSet(stats[u].reasons, Counted)
    PROVE  /\ Inserts(u) /\ count(u) \in Nat /\ chunk'[u] = <<>>
           /\ stats'[u].total_rows = stats[u].total_rows
           /\ stats'[u].inserted = stats[u].inserted + count(u)
           /\ \A v \in Upload \ {u} : stats'[v] = stats[v]
           /\ stats'[u].skipped = stats[u].skipped + (Len(chunk[u]) - count(u))
           /\ stats'[u].skipped = SumFunctionOnSet(stats'[u].reasons, Counted)
           /\ \A r \in ToSet(Reasons) : stats'[u].reasons[r] = stats[u].reasons[r]
<1> DEFINE s == [stats[u] EXCEPT !.inserted = @ + count(u)]
           n == Len(chunk[u]) - count(u)
           b == Bump(s, "duplicate_name", n)
<1>0. RowsFit
  BY DEF TypeOK, RowsFit
<1>1. count(u) \in Nat /\ n \in Nat /\ Inserts(u)
  BY <1>0, InsertFacts DEF FlushChunk, RowsFit
<1>2. /\ s \in Stats /\ s.total_rows = stats[u].total_rows
      /\ s.inserted = stats[u].inserted + count(u)
      /\ s.skipped = stats[u].skipped /\ s.reasons = stats[u].reasons
      /\ stats \in [Upload -> Stats]
  <2>1. \A t \in Stats, k \in Nat :
           LET q == [t EXCEPT !.inserted = @ + k]
           IN  /\ q \in Stats /\ q.total_rows = t.total_rows
               /\ q.inserted = t.inserted + k /\ q.skipped = t.skipped
               /\ q.reasons = t.reasons
    BY DEF Stats
  <2> QED
    BY <1>0, <1>1, <2>1 DEF RowsFit
<1>3. stats' = [stats EXCEPT ![u] = b] /\ chunk' = [chunk EXCEPT ![u] = <<>>]
  BY DEF FlushChunk
<1> HIDE DEF s, n
<1>4. /\ b.total_rows = s.total_rows /\ b.inserted = s.inserted /\ b.skipped = s.skipped + n
      /\ b.skipped = SumFunctionOnSet(b.reasons, Counted)
      /\ \A r \in ToSet(Reasons) : b.reasons[r] = s.reasons[r]
  <2>1. PICK t, k : t = s /\ k = n
    OBVIOUS
  <2>2. /\ t \in Stats /\ k \in Nat /\ "duplicate_name" \in Counted
        /\ t.skipped = SumFunctionOnSet(t.reasons, Counted)
    BY <1>1, <1>2, <2>1, ReasonsFacts
  <2>3. LET q == Bump(t, "duplicate_name", k)
        IN  /\ q.total_rows = t.total_rows /\ q.inserted = t.inserted
            /\ q.skipped = t.skipped + k
            /\ q.skipped = SumFunctionOnSet(q.reasons, Counted)
            /\ \A r \in Counted \ {"duplicate_name"} : q.reasons[r] = t.reasons[r]
    BY <2>2, BumpFacts
  <2>4. ToSet(Reasons) \subseteq Counted \ {"duplicate_name"}
    BY ReasonsFacts
  <2> QED
    BY <2>1, <2>3, <2>4
<1> HIDE DEF b
<1>5. /\ stats'[u] = b /\ \A v \in Upload \ {u} : stats'[v] = stats[v]
      /\ chunk'[u] = <<>>
  BY <1>0, <1>2, <1>3 DEF RowsFit
<1> QED
  BY <1>1, <1>2, <1>4, <1>5 DEF n

\* What is inserted is counted on both sides.
LEMMA BothSidesGrow ==
    ASSUME NEW a \in Int, NEW b \in Int, NEW p \in Int, NEW e \in Int, NEW n \in Int,
           a + b = p - e
    PROVE  (a + n) + b = (p + n) - e /\ a + (b + n) = (p + n) - e
OBVIOUS

LEMMA NextRowsAreCounted ==
    ASSUME TypeOK, FilesHaveOnePath, RowsAreCounted, [Next]_vars
    PROVE  RowsAreCounted'
<1> USE ConstantsAssumption
<1> DEFINE Of(s) == [u \in Upload |-> s[u].inserted]
<1>0. /\ RowsFit /\ lost \in Nat /\ stats \in [Upload -> Stats]
      /\ \A u \in Upload : /\ stats[u].total_rows \in Nat /\ stats[u].inserted \in Nat
                           /\ stats[u].skipped \in Nat /\ Len(chunk[u]) \in Nat
                           /\ count(u) \in Nat /\ count(u) <= Len(chunk[u])
  <2>1. \A s \in Stats : s.total_rows \in Nat /\ s.inserted \in Nat /\ s.skipped \in Nat
    BY DEF Stats
  <2>2. RowsFit /\ lost \in Nat
    BY DEF TypeOK, RowsFit
  <2> QED
    BY <2>1, <2>2, InsertFacts DEF RowsFit
<1>1. /\ SumFunctionOnSet(Of(stats), Upload) + lost = Cardinality(profiles) - Cardinality(Existing)
      /\ \A u \in Upload :
           /\ stats[u].total_rows = stats[u].inserted + stats[u].skipped + Len(chunk[u])
           /\ stats[u].skipped = SumFunctionOnSet(stats[u].reasons, Counted)
  BY DEF RowsAreCounted
<1>k. Cardinality(profiles) \in Nat /\ Cardinality(Existing) \in Nat
  BY FS_CardinalityType DEF TypeOK
<1>2. ASSUME NEW u \in Upload
      PROVE  /\ stats'[u].total_rows = stats'[u].inserted + stats'[u].skipped + Len(chunk'[u])
             /\ stats'[u].skipped = SumFunctionOnSet(stats'[u].reasons, Counted)
  <2>1. CASE UNCHANGED <<chunk[u], headed[u], stats[u]>>
    BY <1>1, <2>1
  <2>2. CASE ReadLine(u)
    <3> HIDE DEF Of
    <3>1. /\ stats'[u].inserted = stats[u].inserted
          /\ stats'[u].skipped = SumFunctionOnSet(stats'[u].reasons, Counted)
          /\ \/ stats'[u] = stats[u] /\ chunk'[u] = chunk[u]
             \/ /\ stats'[u].total_rows = stats[u].total_rows + 1
                /\ stats'[u].skipped = stats[u].skipped + 1 /\ chunk'[u] = chunk[u]
             \/ /\ stats'[u].total_rows = stats[u].total_rows + 1
                /\ stats'[u].skipped = stats[u].skipped
                /\ Len(chunk'[u]) = Len(chunk[u]) + 1
      BY <1>1, <2>2, ReadCounts
    <3>2. stats'[u].total_rows = stats'[u].inserted + stats'[u].skipped + Len(chunk'[u])
      <4>1. PICK a, i, k, l : a = stats[u].total_rows /\ i = stats[u].inserted
                              /\ k = stats[u].skipped /\ l = Len(chunk[u])
        OBVIOUS
      <4>2. a \in Nat /\ i \in Nat /\ k \in Nat /\ l \in Nat /\ a = i + k + l
        BY <1>0, <1>1, <4>1
      <4>3. a + 1 = i + (k + 1) + l /\ a + 1 = i + k + (l + 1)
        BY <4>2
      <4>4. CASE stats'[u] = stats[u] /\ chunk'[u] = chunk[u]
        BY <1>1, <4>4
      <4>5. CASE /\ stats'[u].total_rows = stats[u].total_rows + 1
                 /\ stats'[u].skipped = stats[u].skipped + 1 /\ chunk'[u] = chunk[u]
        <5>1. stats'[u].total_rows = a + 1 /\ stats'[u].inserted = i /\ stats'[u].skipped = k + 1
              /\ Len(chunk'[u]) = l
          BY <3>1, <4>1, <4>5
        <5> QED
          BY <4>3, <5>1
      <4>6. CASE /\ stats'[u].total_rows = stats[u].total_rows + 1
                 /\ stats'[u].skipped = stats[u].skipped
                 /\ Len(chunk'[u]) = Len(chunk[u]) + 1
        <5>1. stats'[u].total_rows = a + 1 /\ stats'[u].inserted = i /\ stats'[u].skipped = k
              /\ Len(chunk'[u]) = l + 1
          BY <3>1, <4>1, <4>6
        <5> QED
          BY <4>3, <5>1
      <4> QED
        BY <3>1, <4>4, <4>5, <4>6
    <3> QED
      BY <3>1, <3>2
  <2>3. CASE FlushChunk(u)
    <3>1. CASE Accepted(u)
      <4>1. /\ stats'[u].total_rows = stats[u].total_rows
            /\ stats'[u].inserted = stats[u].inserted + count(u)
            /\ stats'[u].skipped = stats[u].skipped + (Len(chunk[u]) - count(u))
            /\ stats'[u].skipped = SumFunctionOnSet(stats'[u].reasons, Counted)
            /\ chunk'[u] = <<>>
        <5> HIDE DEF Of
        <5> QED
          BY <1>0, <1>1, <2>3, <3>1, FlushCounts
      <4>2. PICK a, i, k, l, n : /\ a = stats[u].total_rows /\ i = stats[u].inserted
                                 /\ k = stats[u].skipped /\ l = Len(chunk[u]) /\ n = count(u)
        OBVIOUS
      <4>3. a \in Nat /\ i \in Nat /\ k \in Nat /\ l \in Nat /\ n \in Nat /\ a = i + k + l
        BY <1>0, <1>1, <4>2
      <4>4. a = (i + n) + (k + (l - n)) + 0
        BY <4>3
      <4>5. stats'[u].total_rows = a /\ stats'[u].inserted = i + n
            /\ stats'[u].skipped = k + (l - n) /\ Len(chunk'[u]) = 0
        <5>1. Len(<<>>) = 0
          OBVIOUS
        <5> QED
          BY <4>1, <4>2, <5>1
      <4> QED
        BY <4>1, <4>4, <4>5
    <3>2. CASE ~Accepted(u)
      BY <1>1, <2>3, <3>2 DEF FlushChunk
    <3> QED
      BY <3>1, <3>2
  <2> QED
    BY <2>1, <2>2, <2>3, OwnChanges
<1>3. SumFunctionOnSet(Of(stats'), Upload) + lost' = Cardinality(profiles') - Cardinality(Existing)
  <2>1. ASSUME UNCHANGED <<profiles, lost>>, \A v \in Upload : stats'[v].inserted = stats[v].inserted
        PROVE  SumFunctionOnSet(Of(stats'), Upload) + lost' = Cardinality(profiles') - Cardinality(Existing)
    <3>1. Of(stats') = Of(stats)
      BY <2>1
    <3> HIDE DEF Of
    <3> QED
      BY <1>1, <2>1, <3>1
  <2>2. ASSUME NEW u \in Upload, FlushChunk(u)
        PROVE  SumFunctionOnSet(Of(stats'), Upload) + lost' = Cardinality(profiles') - Cardinality(Existing)
    <3>1. CASE Accepted(u)
      <4>1. /\ Inserts(u) /\ stats'[u].inserted = stats[u].inserted + count(u)
            /\ \A v \in Upload \ {u} : stats'[v] = stats[v]
        <5> HIDE DEF Of
        <5> QED
          BY <1>1, <2>2, <3>1, FlushCounts
      <4>2. PICK f, h : f = Of(stats) /\ h = Of(stats')
        OBVIOUS
      <4>3. /\ f \in [Upload -> Nat] /\ h \in [Upload -> Nat] /\ h[u] = f[u] + count(u)
            /\ \A v \in Upload \ {u} : h[v] = f[v]
        <5>1. /\ \A v \in Upload : f[v] = stats[v].inserted /\ h[v] = stats'[v].inserted
              /\ DOMAIN f = Upload /\ DOMAIN h = Upload
              /\ f = [v \in Upload |-> f[v]] /\ h = [v \in Upload |-> h[v]]
          BY <4>2
        <5>2. \A v \in Upload : stats[v].inserted \in Nat /\ stats'[v].inserted \in Nat
          BY <1>0, <4>1
        <5> HIDE DEF Of
        <5> QED
          BY <4>1, <5>1, <5>2
      <4>4. /\ SumFunctionOnSet(f, Upload) \in Nat
            /\ SumFunctionOnSet(h, Upload) = SumFunctionOnSet(f, Upload) + count(u)
        <5> HIDE DEF Of
        <5>1. PICK n : n = count(u)
          OBVIOUS
        <5>2. n \in Nat /\ h[u] = f[u] + n /\ IsFiniteSet(Upload)
          BY <1>0, <4>3, <5>1
        <5>3. /\ SumFunctionOnSet(f, Upload) \in Nat
              /\ SumFunctionOnSet(h, Upload) = SumFunctionOnSet(f, Upload) + n
          BY <4>3, <5>2, SumGrows
        <5> QED
          BY <5>1, <5>3
      <4>5. lost' = lost
        BY <2>2 DEF FlushChunk, history
      <4>6. Cardinality(profiles') = Cardinality(profiles) + count(u)
        BY <4>1 DEF Inserts
      <4>7. SumFunctionOnSet(f, Upload) + lost = Cardinality(profiles) - Cardinality(Existing)
        BY <1>1, <4>2
      <4> HIDE DEF Of
      <4>8. SumFunctionOnSet(h, Upload) + lost' = Cardinality(profiles') - Cardinality(Existing)
        <5>1. PICK a, b, p, e, n : /\ a = SumFunctionOnSet(f, Upload) /\ b = lost
                                   /\ p = Cardinality(profiles) /\ e = Cardinality(Existing)
                                   /\ n = count(u)
          OBVIOUS
        <5>2. a \in Int /\ b \in Int /\ p \in Int /\ e \in Int /\ n \in Int
          BY <1>0, <1>k, <4>4, <5>1
        <5>3. a + b = p - e
          BY <4>7, <5>1
        <5>4. (a + n) + b = (p + n) - e
          BY <5>2, <5>3, BothSidesGrow
        <5>5. SumFunctionOnSet(h, Upload) = a + n /\ lost' = b /\ Cardinality(profiles') = p + n
          BY <4>4, <4>5, <4>6, <5>1
        <5> QED
          BY <5>1, <5>4, <5>5
      <4> QED
        BY <4>2, <4>8
    <3>2. CASE ~Accepted(u)
      <4>1. UNCHANGED <<profiles, lost>> /\ stats' = stats
        BY <2>2, <3>2 DEF FlushChunk, history
      <4> HIDE DEF Of
      <4> QED
        BY <1>1, <4>1
    <3> QED
      BY <3>1, <3>2
  <2>3. ASSUME NEW u \in Upload, FlushFails(u)
        PROVE  SumFunctionOnSet(Of(stats'), Upload) + lost' = Cardinality(profiles') - Cardinality(Existing)
    <3>1. /\ stats' = stats
          /\ \/ UNCHANGED <<profiles, lost>>
             \/ /\ profiles' = profiles \cup {chunk[u][i].name : i \in DOMAIN chunk[u]}
                /\ lost' = lost + count(u)
      BY <2>3 DEF FlushFails, reader
    <3>2. CASE UNCHANGED <<profiles, lost>>
      <4> HIDE DEF Of
      <4> QED
        BY <1>1, <3>1, <3>2
    <3>3. CASE /\ profiles' = profiles \cup {chunk[u][i].name : i \in DOMAIN chunk[u]}
               /\ lost' = lost + count(u)
      <4>1. Cardinality(profiles') = Cardinality(profiles) + count(u)
        BY <3>3, InsertFacts DEF Inserts
      <4>2. Of(stats) \in [Upload -> Nat]
        BY <1>0
      <4>3. SumFunctionOnSet(Of(stats), Upload) \in Nat
        <5> HIDE DEF Of
        <5>1. PICK f : f = Of(stats)
          OBVIOUS
        <5>2. SumFunctionOnSet(f, Upload) \in Nat
          BY <4>2, <5>1, SumIs, SumIsNat
        <5> QED
          BY <5>1, <5>2
      <4> HIDE DEF Of
      <4> QED
        <5>1. PICK a, b, p, e, n : /\ a = SumFunctionOnSet(Of(stats), Upload) /\ b = lost
                                   /\ p = Cardinality(profiles) /\ e = Cardinality(Existing)
                                   /\ n = count(u)
          OBVIOUS
        <5>2. a \in Int /\ b \in Int /\ p \in Int /\ e \in Int /\ n \in Int
          BY <1>0, <1>k, <4>3, <5>1
        <5>3. a + b = p - e
          BY <1>1, <5>1
        <5>4. a + (b + n) = (p + n) - e
          BY <5>2, <5>3, BothSidesGrow
        <5>5. SumFunctionOnSet(Of(stats'), Upload) = a
          BY <3>1, <5>1
        <5>6. lost' = b + n /\ Cardinality(profiles') = p + n
          BY <3>3, <4>1, <5>1
        <5> QED
          BY <5>1, <5>4, <5>5, <5>6
    <3> QED
      BY <3>1, <3>2, <3>3
  <2>4. CASE ~ \E u \in Upload : FlushChunk(u) \/ FlushFails(u)
    <3>1. ASSUME NEW u \in Upload, ReadLine(u)
          PROVE  \A v \in Upload : stats'[v].inserted = stats[v].inserted
      <4> HIDE DEF Of
      <4> QED
        BY <1>1, <3>1, ReadCounts
    <3>2. \A v \in Upload : stats'[v].inserted = stats[v].inserted
      BY <2>4, <3>1, Changes
    <3> QED
      BY <2>1, <2>4, <3>2, Changes
  <2> QED
    BY <2>2, <2>3, <2>4
<1> QED
  BY <1>2, <1>3 DEF RowsAreCounted

-----------------------------------------------------------------------------
(* Rows that have been looked at. *)

\* LookedAt, of the values of the variables: a file, the lines read, the chunk,
\* whether a line has been skipped, the counts and the table.
SeenOf(f, a) == {i \in Rows(f) : i <= a}
Looked(f, a, c, h, s, P) ==
    /\ a <= Len(f)
    /\ h <=> \E j \in 1 .. a : f[j] # BLANK
    /\ s.total_rows = Cardinality(SeenOf(f, a))
    /\ \A i \in SeenOf(f, a) : f[i].flaws = {} =>
         f[i].name \in P \/ \E j \in DOMAIN c : c[j] = f[i]
    /\ \A r \in ToSet(Reasons) :
         s.reasons[r] >= Cardinality({i \in SeenOf(f, a) : f[i].flaws = {r}})
    /\ \A j \in DOMAIN c : \E i \in DOMAIN f : c[j] = f[i]

LEMMA LookedIs ==
    ASSUME NEW u \in Upload
    PROVE  /\ LookedAt(u) <=> Looked(file[u], at[u], chunk[u], headed[u], stats[u], profiles)
           /\ LookedAt(u)' <=> Looked(file'[u], at'[u], chunk'[u], headed'[u], stats'[u], profiles')
BY DEF LookedAt, Looked, Seen, SeenOf

\* The rows among the first lines are finitely many; one more line is one more
\* row unless it is blank or the first that is not.
LEMMA SeenFacts ==
    ASSUME NEW f \in Seq(Sent), NEW a \in Nat
    PROVE  /\ \A T \in SUBSET SeenOf(f, a) : IsFiniteSet(T) /\ Cardinality(T) \in Nat
           /\ a + 1 \notin SeenOf(f, a)
           /\ a + 1 <= Len(f) =>
                /\ f[a + 1] = BLANK \/ ~(\E j \in 1 .. a : f[j] # BLANK) =>
                     SeenOf(f, a + 1) = SeenOf(f, a)
                /\ f[a + 1] # BLANK /\ (\E j \in 1 .. a : f[j] # BLANK) =>
                     SeenOf(f, a + 1) = SeenOf(f, a) \cup {a + 1}
<1>1. SeenOf(f, a) \subseteq 1 .. a
  BY DEF SeenOf, Rows
<1>2. IsFiniteSet(1 .. a)
  BY FS_Interval
<1>3. \A T \in SUBSET SeenOf(f, a) : IsFiniteSet(T) /\ Cardinality(T) \in Nat
  BY <1>1, <1>2, FS_Subset, FS_CardinalityType
<1>4. a + 1 \notin SeenOf(f, a)
  BY <1>1
<1>5. \A i \in Rows(f) : i \in 1 .. Len(f)
  BY DEF Rows
<1>6. a + 1 \in Rows(f) <=> a + 1 \in DOMAIN f /\ f[a + 1] # BLANK /\ \E j \in 1 .. a : f[j] # BLANK
  BY DEF Rows
<1>7. SeenOf(f, a + 1) = IF a + 1 \in Rows(f) THEN SeenOf(f, a) \cup {a + 1} ELSE SeenOf(f, a)
  BY <1>5 DEF SeenOf
<1> QED
  BY <1>3, <1>4, <1>6, <1>7

\* A blank line, and the line that is skipped as the header.
LEMMA PassesLooked ==
    ASSUME NEW f \in Seq(Sent), NEW a \in Nat, a + 1 <= Len(f), NEW c, NEW h \in BOOLEAN, NEW s, NEW P,
           Looked(f, a, c, h, s, P), NEW g \in BOOLEAN,
           \/ f[a + 1] = BLANK /\ g = h
           \/ f[a + 1] # BLANK /\ ~h /\ g
    PROVE  Looked(f, a + 1, c, g, s, P)
<1>1. SeenOf(f, a + 1) = SeenOf(f, a)
  BY SeenFacts DEF Looked
<1>2. g <=> \E j \in 1 .. a + 1 : f[j] # BLANK
  <2>1. \A j \in 1 .. a + 1 : j \in 1 .. a \/ j = a + 1
    OBVIOUS
  <2>2. \A j \in 1 .. a : j \in 1 .. a + 1
    OBVIOUS
  <2>3. a + 1 \in 1 .. a + 1
    OBVIOUS
  <2> QED
    BY <2>1, <2>2, <2>3 DEF Looked
<1> QED
  BY <1>1, <1>2 DEF Looked

\* A row: it is counted, and so is its reason if it is skipped, or it is in the chunk.
LEMMA RowLooked ==
    ASSUME NEW f \in Seq(Sent), NEW a \in Nat, a + 1 <= Len(f), NEW c \in Seq(Checked), NEW s \in Stats, NEW P,
           Looked(f, a, c, TRUE, s, P), f[a + 1] # BLANK,
           NEW d \in Seq(Checked), NEW t \in Stats, t.total_rows = s.total_rows + 1,
           \/ /\ d = c
              /\ \E r \in f[a + 1].flaws \cap ToSet(Reasons) :
                   /\ t.reasons[r] = s.reasons[r] + 1
                   /\ \A q \in ToSet(Reasons) \ {r} : t.reasons[q] = s.reasons[q]
           \/ d = Append(c, f[a + 1]) /\ f[a + 1] \in Checked /\ t.reasons = s.reasons
    PROVE  Looked(f, a + 1, d, TRUE, t, P)
<1> DEFINE k == a + 1
           With(r, n) == {i \in SeenOf(f, n) : f[i].flaws = {r}}
<1>1. /\ SeenOf(f, k) = SeenOf(f, a) \cup {k} /\ k \notin SeenOf(f, a)
      /\ \A T \in SUBSET SeenOf(f, a) : IsFiniteSet(T) /\ Cardinality(T) \in Nat
  BY SeenFacts DEF Looked
<1>2. \A T \in SUBSET SeenOf(f, a) : Cardinality(T \cup {k}) = Cardinality(T) + 1
  BY <1>1, FS_AddElement
<1>3. k \in 1 .. Len(f) /\ k \in DOMAIN f
  OBVIOUS
<1>4. \E j \in 1 .. k : f[j] # BLANK
  <2>1. k \in 1 .. k
    OBVIOUS
  <2> QED
    BY <2>1
<1>5. t.total_rows = Cardinality(SeenOf(f, k))
  BY <1>1, <1>2 DEF Looked
<1>6. \A j \in DOMAIN d : \E i \in DOMAIN f : d[j] = f[i]
  <2>1. CASE d = c
    BY <2>1 DEF Looked
  <2>2. CASE d = Append(c, f[k])
    <3>1. \A j \in DOMAIN d : (j \in DOMAIN c /\ d[j] = c[j]) \/ d[j] = f[k]
      BY <2>2
    <3> QED
      BY <1>3, <3>1 DEF Looked
  <2> QED
    BY <2>1, <2>2
<1>7. ASSUME NEW i \in SeenOf(f, k), f[i].flaws = {}
      PROVE  f[i].name \in P \/ \E j \in DOMAIN d : d[j] = f[i]
  <2>1. CASE i = k
    <3>1. d = Append(c, f[k])
      BY <1>7, <2>1
    <3>2. Len(c) + 1 \in DOMAIN d /\ d[Len(c) + 1] = f[k]
      BY <3>1
    <3> QED
      BY <2>1, <3>2
  <2>2. CASE i \in SeenOf(f, a)
    <3>1. f[i].name \in P \/ \E j \in DOMAIN c : c[j] = f[i]
      BY <1>7, <2>2 DEF Looked
    <3>2. \A j \in DOMAIN c : j \in DOMAIN d /\ d[j] = c[j]
      OBVIOUS
    <3> QED
      BY <3>1, <3>2
  <2> QED
    BY <1>1, <2>1, <2>2
<1>8. ASSUME NEW r \in ToSet(Reasons) PROVE t.reasons[r] >= Cardinality(With(r, k))
  <2>1. /\ s.reasons[r] >= Cardinality(With(r, a)) /\ s.reasons[r] \in Nat
        /\ Cardinality(With(r, a)) \in Nat /\ With(r, a) \in SUBSET SeenOf(f, a)
    <3>1. s.reasons[r] \in Nat
      BY ReasonsFacts DEF Stats
    <3> QED
      BY <1>1, <3>1 DEF Looked
  <2>2. With(r, k) = IF f[k].flaws = {r} THEN With(r, a) \cup {k} ELSE With(r, a)
    BY <1>1
  <2>3. f[k].flaws = {r} => t.reasons[r] = s.reasons[r] + 1
    BY ReasonsFacts DEF Checked
  <2>4. t.reasons[r] \in {s.reasons[r], s.reasons[r] + 1}
    OBVIOUS
  <2> HIDE DEF With, k
  <2>5. CASE f[k].flaws = {r}
    <3>1. Cardinality(With(r, k)) = Cardinality(With(r, a)) + 1
      BY <1>2, <2>1, <2>2, <2>5
    <3> QED
      BY <2>1, <2>3, <2>5, <3>1
  <2>6. CASE f[k].flaws # {r}
    BY <2>1, <2>2, <2>4, <2>6
  <2> QED
    BY <2>5, <2>6
<1> QED
  BY <1>3, <1>4, <1>5, <1>6, <1>7, <1>8 DEF Looked

\* The chunk is in the table: nothing waits any more.
LEMMA FlushLooked ==
    ASSUME NEW f \in Seq(Sent), NEW a \in Nat, NEW c \in Seq(Checked), NEW h \in BOOLEAN, NEW s \in Stats, NEW P,
           Looked(f, a, c, h, s, P), NEW t \in Stats, t.total_rows = s.total_rows,
           \A r \in ToSet(Reasons) : t.reasons[r] = s.reasons[r]
    PROVE  Looked(f, a, <<>>, h, t, P \cup Gathered(c))
<1>1. \A i \in SeenOf(f, a) : f[i].flaws = {} => f[i].name \in P \cup Gathered(c)
  BY DEF Looked, Gathered
<1>2. \A j \in DOMAIN <<>> : FALSE
  OBVIOUS
<1>3. \A r \in ToSet(Reasons) :
         t.reasons[r] >= Cardinality({i \in SeenOf(f, a) : f[i].flaws = {r}})
  BY DEF Looked
<1> QED
  BY <1>1, <1>2, <1>3 DEF Looked

LEMMA NothingLooked ==
    ASSUME NEW f \in Seq(Sent), NEW P
    PROVE  Looked(f, 0, <<>>, FALSE, NoStats, P)
<1>1. SeenOf(f, 0) = {}
  BY DEF SeenOf, Rows
<1>2. \A r \in ToSet(Reasons) : {i \in SeenOf(f, 0) : f[i].flaws = {r}} = {}
  BY <1>1
<1>3. Cardinality({}) = 0
  BY FS_EmptySet
<1>4. NoStats.total_rows = 0 /\ \A r \in ToSet(Reasons) : NoStats.reasons[r] = 0
  BY ReasonsFacts DEF NoStats
<1>5. /\ \A j \in DOMAIN <<>> : FALSE
      /\ \A j \in 1 .. 0 : FALSE
      /\ 0 <= Len(f)
  OBVIOUS
<1>6. ASSUME NEW r \in ToSet(Reasons)
      PROVE  NoStats.reasons[r] >= Cardinality({i \in SeenOf(f, 0) : f[i].flaws = {r}})
  <2> DEFINE T == {i \in SeenOf(f, 0) : f[i].flaws = {r}}
  <2>1. T = {} /\ NoStats.reasons[r] = 0
    BY <1>2, <1>4
  <2> HIDE DEF T
  <2>2. NoStats.reasons[r] >= Cardinality(T)
    BY <1>3, <2>1
  <2> QED
    BY <2>2 DEF T
<1> QED
  BY <1>1, <1>3, <1>4, <1>5, <1>6 DEF Looked

\* The table only grows, and nothing that has happened to an upload is forgotten.
LEMMA Grows ==
    ASSUME [Next]_vars
    PROVE  profiles \subseteq profiles' /\ shared \subseteq shared' /\ hit \subseteq hit'
<1>1. ASSUME NEW u \in Upload, FlushChunk(u) \/ FlushFails(u) PROVE profiles \subseteq profiles'
  BY <1>1 DEF FlushChunk, FlushFails
<1>2. ASSUME NEW u \in Upload, OpenToWrite(u) PROVE shared \subseteq shared'
  BY <1>2 DEF OpenToWrite
<1>3. ASSUME Crash PROVE hit \subseteq hit'
  BY <1>3 DEF Crash
<1>4. ASSUME NEW v \in Upload, Unlink(v) \/ WriteFails(v) \/ FlushFails(v) \/ InvalidateFails(v)
      PROVE  hit \subseteq hit'
  BY <1>4 DEF Unlink, WriteFails, FlushFails, InvalidateFails, Fault, history
<1>5. profiles \subseteq profiles' /\ shared \subseteq shared'
  BY <1>1, <1>2, Changes
<1>6. hit \subseteq hit'
  BY <1>3, <1>4, Changes
<1> QED
  BY <1>5, <1>6

\* One turn of the loop of an upload that is alone, and the statement for its chunk.
LEMMA ReadLooked ==
    ASSUME TypeOK, FilesHaveOnePath, AloneReadsItsOwn, RowsFit', NEW u \in Upload, u \notin shared,
           LookedAt(u), ReadLine(u)
    PROVE  LookedAt(u)' /\ pc'[u] \in {"read", "flush"}
<1> USE ConstantsAssumption
<1> DEFINE f == file[u]
           k == at[u] + 1
           s == [stats[u] EXCEPT !.total_rows = @ + 1]
<1>0. /\ f \in Seq(Sent) /\ RowsFit /\ at \in [Upload -> Nat] /\ pc \in [Upload -> Location]
  BY DEF TypeOK, RowsFit
<1>1. disk[handle[u]] = f /\ pc[u] = "read"
  BY DEF ReadLine, Live, AloneReadsItsOwn
<1>2. /\ at[u] + 1 <= Len(f) /\ at[u] \in Nat /\ f[k] # HOLE
      /\ at' = [at EXCEPT ![u] = Turn(u).to] /\ Turn(u).to = k /\ Turn(u).line = f[k]
      /\ PassesOver(u) \/ Skips(u) \/ Gathers(u)
      /\ file' = file /\ profiles' = profiles
  <2>1. at[u] < Len(f) /\ at[u] \in Nat /\ Len(f) \in Nat
    BY <1>0, <1>1 DEF ReadLine
  <2>2. f[k] \in Sent /\ f[k] # HOLE
    BY <1>0, <2>1, LineFacts
  <2> QED
    BY <1>1, <2>1, <2>2, ReadFacts DEF storage
<1>3. at'[u] = at[u] + 1
  BY <1>0, <1>2
<1>4. Looked(f, at[u], chunk[u], headed[u], stats[u], profiles)
  BY LookedIs
<1>5. /\ chunk[u] \in Seq(Checked) /\ stats[u] \in Stats /\ headed[u] \in BOOLEAN
      /\ chunk'[u] \in Seq(Checked) /\ stats'[u] \in Stats /\ headed'[u] \in BOOLEAN
  BY <1>0 DEF RowsFit
<1>6. /\ s \in Stats /\ s.total_rows = stats[u].total_rows + 1 /\ s.reasons = stats[u].reasons
  <2>1. \A t \in Stats : LET q == [t EXCEPT !.total_rows = @ + 1]
                         IN  q \in Stats /\ q.total_rows = t.total_rows + 1 /\ q.reasons = t.reasons
    BY DEF Stats
  <2> QED
    BY <1>5, <2>1
<1>7. CASE PassesOver(u)
  <2>1. /\ \/ f[at[u] + 1] = BLANK /\ headed'[u] = headed[u]
           \/ f[at[u] + 1] # BLANK /\ ~headed[u] /\ headed'[u]
        /\ stats'[u] = stats[u] /\ chunk'[u] = chunk[u] /\ pc'[u] = "read"
    BY <1>0, <1>1, <1>2, <1>7 DEF PassesOver, RowsFit
  <2> HIDE DEF s
  <2>2. PICK g, a, h, t, d, P : /\ g = f /\ a = at[u] /\ h = headed[u] /\ t = stats[u] /\ d = chunk[u]
                                /\ P = profiles
    OBVIOUS
  <2>3. PICK h2 : h2 = headed'[u]
    OBVIOUS
  <2>4. Looked(g, a + 1, d, h2, t, P)
    BY <1>0, <1>2, <1>4, <1>5, <2>1, <2>2, <2>3, PassesLooked
  <2>5. LookedAt(u)'
    BY <1>2, <1>3, <2>1, <2>2, <2>3, <2>4, LookedIs
  <2> QED
    BY <2>1, <2>5
<1>8. ASSUME f[k] # BLANK, headed[u], headed'[u] = headed[u],
             stats'[u].total_rows = stats[u].total_rows + 1,
             \/ /\ chunk'[u] = chunk[u]
                /\ \E r \in f[k].flaws \cap ToSet(Reasons) :
                     /\ stats'[u].reasons[r] = stats[u].reasons[r] + 1
                     /\ \A q \in ToSet(Reasons) \ {r} : stats'[u].reasons[q] = stats[u].reasons[q]
             \/ /\ chunk'[u] = Append(chunk[u], f[k]) /\ f[k] \in Checked
                /\ stats'[u].reasons = stats[u].reasons
      PROVE  LookedAt(u)'
  <2> HIDE DEF s
  <2>1. PICK g, a, c, t, P : g = f /\ a = at[u] /\ c = chunk[u] /\ t = stats[u] /\ P = profiles
    OBVIOUS
  <2>2. PICK c2, t2 : c2 = chunk'[u] /\ t2 = stats'[u]
    OBVIOUS
  <2>3. /\ g \in Seq(Sent) /\ a \in Nat /\ a + 1 <= Len(g) /\ c \in Seq(Checked) /\ t \in Stats
        /\ Looked(g, a, c, TRUE, t, P) /\ g[a + 1] # BLANK /\ c2 \in Seq(Checked) /\ t2 \in Stats
        /\ t2.total_rows = t.total_rows + 1
    BY <1>0, <1>2, <1>4, <1>5, <1>8, <2>1, <2>2
  <2>4. \/ /\ c2 = c
           /\ \E r \in g[a + 1].flaws \cap ToSet(Reasons) :
                /\ t2.reasons[r] = t.reasons[r] + 1
                /\ \A q \in ToSet(Reasons) \ {r} : t2.reasons[q] = t.reasons[q]
        \/ c2 = Append(c, g[a + 1]) /\ g[a + 1] \in Checked /\ t2.reasons = t.reasons
    BY <1>8, <2>1, <2>2
  <2>5. Looked(g, a + 1, c2, TRUE, t2, P)
    BY <2>3, <2>4, RowLooked
  <2>6. headed'[u] = TRUE
    BY <1>5, <1>8
  <2> QED
    BY <1>2, <1>3, <2>1, <2>2, <2>5, <2>6, LookedIs
<1>9. CASE Skips(u)
  <2> DEFINE r == reason(f[k])
             b == Bump(s, r, 1)
  <2>1. /\ f[k] # BLANK /\ headed[u] /\ UNCHANGED <<headed, chunk, pc>>
        /\ r \in f[k].flaws \cap ToSet(Reasons) /\ stats' = [stats EXCEPT ![u] = b]
    BY <1>2, <1>9 DEF Skips
  <2>2. stats'[u] = b
    BY <1>0, <2>1 DEF RowsFit
  <2> HIDE DEF s, r, k
  <2>3. /\ b.total_rows = s.total_rows /\ b.reasons[r] = s.reasons[r] + 1
        /\ \A q \in Counted \ {r} : b.reasons[q] = s.reasons[q]
    <3>1. PICK t, q : t = s /\ q = r
      OBVIOUS
    <3>2. t \in Stats /\ q \in Counted
      BY <1>6, <2>1, <3>1, ReasonsFacts
    <3>3. /\ Bump(t, q, 1).total_rows = t.total_rows /\ Bump(t, q, 1).reasons[q] = t.reasons[q] + 1
          /\ \A p \in Counted \ {q} : Bump(t, q, 1).reasons[p] = t.reasons[p]
      BY <3>2, BumpFacts
    <3> QED
      BY <3>1, <3>3
  <2> HIDE DEF b
  <2>4. /\ stats'[u].total_rows = stats[u].total_rows + 1
        /\ stats'[u].reasons[r] = stats[u].reasons[r] + 1
        /\ \A q \in ToSet(Reasons) \ {r} : stats'[u].reasons[q] = stats[u].reasons[q]
    BY <1>6, <2>2, <2>3, ReasonsFacts
  <2> QED
    BY <1>1, <1>8, <2>1, <2>4
<1>10. CASE Gathers(u)
  <2>1. /\ f[k] # BLANK /\ headed[u] /\ headed' = headed /\ f[k] \in Checked
        /\ stats'[u] = s /\ chunk'[u] = Append(chunk[u], f[k])
        /\ pc'[u] \in {"read", "flush"}
    BY <1>0, <1>1, <1>2, <1>10 DEF Gathers, RowsFit, Goto
  <2> HIDE DEF s
  <2> QED
    BY <1>6, <1>8, <2>1
<1> QED
  BY <1>2, <1>7, <1>9, <1>10

\* What has been looked at stays so while the upload waits.
LEMMA WaitingLooked ==
    ASSUME [Next]_vars, NEW u \in Upload, LookedAt(u),
           UNCHANGED <<at[u], chunk[u], headed[u], stats[u]>>
    PROVE  LookedAt(u)'
<1>1. Looked(file[u], at[u], chunk[u], headed[u], stats[u], profiles)
  BY LookedIs
<1>2. Looked(file[u], at[u], chunk[u], headed[u], stats[u], profiles')
  BY <1>1, Grows DEF Looked
<1>3. file' = file
  BY Changes
<1>4. Looked(file'[u], at'[u], chunk'[u], headed'[u], stats'[u], profiles')
  BY <1>2, <1>3
<1> QED
  BY <1>4, LookedIs

LEMMA FlushedLooked ==
    ASSUME TypeOK, RowsAreCounted, RowsFit', NEW u \in Upload, LookedAt(u), FlushChunk(u), Accepted(u)
    PROVE  LookedAt(u)'
<1> USE ConstantsAssumption
<1>0. RowsFit /\ file[u] \in Seq(Sent) /\ at[u] \in Nat
  BY DEF TypeOK, RowsFit
<1>1. Looked(file[u], at[u], chunk[u], headed[u], stats[u], profiles)
  BY LookedIs
<1>2. /\ profiles' = profiles \cup Gathered(chunk[u]) /\ chunk'[u] = <<>>
      /\ stats'[u].total_rows = stats[u].total_rows
      /\ \A r \in ToSet(Reasons) : stats'[u].reasons[r] = stats[u].reasons[r]
  <2>1. stats[u].skipped = SumFunctionOnSet(stats[u].reasons, Counted)
    BY DEF RowsAreCounted
  <2> QED
    BY <2>1, FlushCounts DEF Inserts
<1>3. file' = file /\ at' = at /\ headed' = headed
  BY DEF FlushChunk
<1>4. PICK g, a, c, h, t, P, t2 : /\ g = file[u] /\ a = at[u] /\ c = chunk[u] /\ h = headed[u]
                                  /\ t = stats[u] /\ P = profiles /\ t2 = stats'[u]
  OBVIOUS
<1>5. /\ g \in Seq(Sent) /\ a \in Nat /\ c \in Seq(Checked) /\ h \in BOOLEAN /\ t \in Stats
      /\ t2 \in Stats /\ Looked(g, a, c, h, t, P) /\ t2.total_rows = t.total_rows
      /\ \A r \in ToSet(Reasons) : t2.reasons[r] = t.reasons[r]
  BY <1>0, <1>1, <1>2, <1>4 DEF RowsFit
<1>6. Looked(g, a, <<>>, h, t2, P \cup Gathered(c))
  BY <1>5, FlushLooked
<1>7. Looked(file'[u], at'[u], chunk'[u], headed'[u], stats'[u], profiles')
  BY <1>2, <1>3, <1>4, <1>6
<1> QED
  BY <1>7, LookedIs

LEMMA NextRowsAreLookedAt ==
    ASSUME TypeOK, TypeOK', FilesHaveOnePath, ChunkIsFlushed, AloneReadsItsOwn, RowsAreCounted,
           RowsAreLookedAt, [Next]_vars
    PROVE  RowsAreLookedAt'
<1> USE ConstantsAssumption
<1> DEFINE Goal(u) == /\ pc'[u] \in {"read", "flush", "last"} \/ Finished(u)' => LookedAt(u)'
                      /\ pc'[u] = "last" \/ Finished(u)' => at'[u] = Len(file'[u])
<1> SUFFICES ASSUME NEW u \in Upload, u \notin shared' PROVE Goal(u)
  BY DEF RowsAreLookedAt
<1>0. /\ AnswersFit /\ RowsFit /\ RowsFit' /\ file[u] \in Seq(Sent) /\ at \in [Upload -> Nat]
      /\ file' = file
  BY Changes DEF TypeOK, AnswersFit, RowsFit
<1>1. /\ u \notin shared
      /\ pc[u] \in {"read", "flush", "last"} \/ Finished(u) => LookedAt(u)
      /\ pc[u] = "last" \/ Finished(u) => at[u] = Len(file[u])
  BY Grows DEF RowsAreLookedAt
<1>2. CASE ReadLine(u)
  <2>1. pc[u] = "read" /\ answer'[u] = NONE
    BY <1>0, <1>2 DEF ReadLine, AnswersFit
  <2>2. LookedAt(u)' /\ pc'[u] \in {"read", "flush"}
    BY <1>0, <1>1, <1>2, <2>1, ReadLooked
  <2> QED
    BY <2>1, <2>2 DEF Finished
<1>3. CASE FlushChunk(u)
  <2>1. pc[u] \in {"flush", "last"} /\ answer'[u] = NONE /\ at' = at
    BY <1>0, <1>3 DEF FlushChunk, AnswersFit
  <2>2. CASE Accepted(u)
    <3>1. LookedAt(u)'
      BY <1>0, <1>1, <1>3, <2>1, <2>2, FlushedLooked
    <3>2. pc'[u] = "read" \/ (pc'[u] = "invalidate" /\ pc[u] = "last")
      BY <1>0, <1>3, <2>1, <2>2 DEF FlushChunk, Goto, AnswersFit
    <3> QED
      BY <1>0, <1>1, <2>1, <3>1, <3>2 DEF Finished
  <2>3. CASE ~Accepted(u)
    <3>1. pc'[u] = "failed"
      BY <1>0, <1>3, <2>3 DEF FlushChunk, Goto, AnswersFit
    <3> QED
      BY <2>1, <3>1 DEF Finished
  <2> QED
    BY <2>2, <2>3
<1>4. CASE OpenToRead(u)
  <2>1. /\ pc[u] = "open" /\ pc'[u] = "read" /\ answer'[u] = NONE
        /\ at'[u] = 0 /\ chunk' = chunk /\ headed' = headed /\ stats' = stats
    BY <1>0, <1>4 DEF OpenToRead, Goto, AnswersFit
  <2>2. chunk[u] = <<>> /\ headed[u] = FALSE /\ stats[u] = NoStats
    BY <1>0, <2>1 DEF ChunkIsFlushed, RowsFit
  <2>3. Looked(file[u], 0, <<>>, FALSE, NoStats, profiles')
    BY <1>0, NothingLooked
  <2>4. Looked(file'[u], at'[u], chunk'[u], headed'[u], stats'[u], profiles')
    BY <1>0, <2>1, <2>2, <2>3
  <2>5. LookedAt(u)'
    BY <2>4, LookedIs
  <2> QED
    BY <2>1, <2>5 DEF Finished
<1>5. CASE OpenToWrite(u) \/ WriteEnds(u) \/ Missing(u) \/ WriteFails(u) \/ FlushFails(u) \/ InvalidateFails(u)
  <2>1. CASE OpenToWrite(u) \/ WriteEnds(u) \/ Missing(u)
    BY <1>0, <2>1 DEF OpenToWrite, WriteEnds, Missing, Goto, AnswersFit, Finished
  <2>2. CASE WriteFails(u) \/ FlushFails(u) \/ InvalidateFails(u)
    BY <1>0, <2>2 DEF WriteFails, FlushFails, InvalidateFails, Goto, AnswersFit, Finished
  <2> QED
    BY <1>5, <2>1, <2>2
<1>6. CASE Crash /\ Live(u) /\ pc'[u] = "done"
  <2>1. answer'[u] = 0
    BY <1>6 DEF Crash
  <2> QED
    BY <1>6, <2>1 DEF Finished
<1>7. ASSUME ~ReadLine(u), ~FlushChunk(u), ~OpenToRead(u), ~Write(u), LookedAt(u) PROVE LookedAt(u)'
  BY <1>7, OwnChanges, WaitingLooked
<1>8. CASE Write(u)
  BY <1>0, <1>8 DEF Write, AnswersFit, Finished
<1>9. CASE ReadEnds(u)
  <2>1. pc[u] = "read" /\ pc'[u] \in {"last", "invalidate"} /\ at' = at
    BY <1>0, <1>9 DEF ReadEnds, Goto, AnswersFit, reader
  <2>2. disk[handle[u]] = file[u] /\ at[u] \in Nat /\ Len(file[u]) \in Nat
    BY <1>0, <1>1, <2>1 DEF Live, AloneReadsItsOwn
  <2>3. at[u] >= Len(file[u]) /\ at[u] <= Len(file[u]) /\ ~ReadLine(u)
    BY <1>1, <1>9, <2>1, <2>2 DEF ReadEnds, ReadLine, LookedAt
  <2>4. LookedAt(u)'
    BY <1>1, <1>7, <2>1, <2>3 DEF FlushChunk, OpenToRead, Write
  <2>5. at'[u] = Len(file'[u])
    BY <1>0, <2>1, <2>2, <2>3
  <2> QED
    BY <2>4, <2>5
<1>10. CASE Invalidate(u) \/ Unlink(u)
  <2>1. /\ at' = at /\ pc'[u] \in {"succeeded", "done"}
        /\ Finished(u)' => Finished(u)
    BY <1>0, <1>10 DEF Invalidate, Unlink, Goto, AnswersFit, Finished, reader
  <2>2. Finished(u) => LookedAt(u)'
    BY <1>1, <1>7, <1>10 DEF Invalidate, Unlink, ReadLine, FlushChunk, OpenToRead, Write
  <2> QED
    BY <1>0, <1>1, <2>1, <2>2
<1>11. CASE /\ pc'[u] = pc[u] /\ ~ReadLine(u) /\ ~FlushChunk(u) /\ ~OpenToRead(u) /\ ~Write(u)
            /\ ~Unlink(u) /\ ~WriteFails(u)
  <2>1. UNCHANGED <<answer[u], at[u]>>
    BY <1>11, OwnChanges DEF Live
  <2> QED
    BY <1>0, <1>1, <1>7, <1>11, <2>1 DEF Finished
<1> QED
  BY <1>2, <1>3, <1>4, <1>5, <1>6, <1>8, <1>9, <1>10, <1>11, Moves DEF Moved

-----------------------------------------------------------------------------
(* Failures, and the files that are left. *)

LEMMA NextFailureHasCause ==
    ASSUME TypeOK, FilesHaveOnePath, AloneReadsItsOwn, RowsAreLookedAt, FailureHasCause, [Next]_vars
    PROVE  FailureHasCause'
<1> USE ConstantsAssumption
<1> SUFFICES ASSUME NEW u \in Upload, pc'[u] = "failed" \/ answer'[u] = 500,
                    u \notin hit' \cup shared'
             PROVE  RefusedRow(file'[u])
  BY DEF FailureHasCause
<1>0. AnswersFit /\ file' = file /\ hit \in SUBSET Upload
  BY Changes DEF TypeOK, AnswersFit
<1>1. u \notin hit \cup shared
  <2>1. hit \subseteq hit'
    BY Grows
  <2> QED
    BY <2>1, Grows
<1>2. pc[u] = "failed" \/ answer[u] = 500 => RefusedRow(file[u])
  BY <1>1 DEF FailureHasCause
<1>3. CASE Missing(u)
  <2>1. directory[path[u]] = handle[u] /\ handle[u] \in Upload
    <3>1. Live(u) /\ u \notin shared
      BY <1>1, <1>3 DEF Missing, Live
    <3>2. handle[u] \in Upload
      BY DEF TypeOK
    <3> QED
      BY <3>1, <3>2 DEF AloneReadsItsOwn
  <2> QED
    BY <1>3, <2>1 DEF Missing
<1>4. CASE FlushChunk(u)
  <2>1. pc[u] \in {"flush", "last"} /\ answer'[u] = NONE
    BY <1>0, <1>4 DEF FlushChunk, AnswersFit
  <2>2. ~Accepted(u)
    BY <1>0, <1>4, <2>1 DEF FlushChunk, Goto, AnswersFit
  <2>3. PICK j \in DOMAIN chunk[u] : "refused" \in chunk[u][j].flaws
    BY <2>2 DEF Accepted
  <2>4. chunk[u][j].flaws = {"refused"}
    <3>1. chunk[u] \in Seq(Checked)
      BY DEF TypeOK
    <3>2. chunk[u][j] \in Checked
      BY <3>1
    <3> QED
      BY <2>3, <3>2, LineFacts
  <2>5. PICK i \in DOMAIN file[u] : chunk[u][j] = file[u][i]
    BY <1>1, <2>1 DEF RowsAreLookedAt, LookedAt
  <2> QED
    BY <1>0, <2>4, <2>5 DEF RefusedRow
<1>5. CASE WriteFails(u) \/ FlushFails(u) \/ InvalidateFails(u)
  BY <1>5 DEF WriteFails, FlushFails, InvalidateFails, Fault
<1>6. CASE Crash /\ Live(u) /\ pc'[u] = "done"
  <2>1. u \in hit'
    BY <1>6 DEF Crash
  <2> QED
    BY <2>1
<1>7. CASE OpenToWrite(u) \/ WriteEnds(u) \/ OpenToRead(u)
  BY <1>0, <1>7 DEF OpenToWrite, WriteEnds, OpenToRead, Goto, AnswersFit
<1>8. CASE ReadLine(u) \/ ReadEnds(u) \/ Invalidate(u)
  BY <1>0, <1>8 DEF ReadLine, ReadEnds, Invalidate, Goto, AnswersFit
<1>9. CASE Unlink(u)
  <2>1. pc[u] = "failed"
    BY <1>0, <1>9 DEF Unlink, Goto, AnswersFit
  <2> QED
    BY <1>0, <1>2, <2>1
<1>10. CASE pc'[u] = pc[u] /\ ~Unlink(u) /\ ~WriteFails(u)
  BY <1>0, <1>2, <1>10, OwnChanges DEF Live
<1> QED
  BY <1>3, <1>4, <1>5, <1>6, <1>7, <1>8, <1>9, <1>10, Moves DEF Moved

LEMMA NextTempFileGone ==
    ASSUME TypeOK, FilesHaveOnePath, TempFileGone, [Next]_vars
    PROVE  TempFileGone'
<1> USE ConstantsAssumption
<1>0. /\ path \in [Upload -> Time \cup {0}] /\ directory \in [Time -> Upload \cup {NONE}]
      /\ DOMAIN directory' = Time /\ 0 \notin Time /\ clock \in Time /\ pc \in [Upload -> Location]
  <2>1. DOMAIN directory' = Time
    BY FilesStayFit DEF FilesFit
  <2> QED
    BY <2>1 DEF TypeOK, Time
<1> SUFFICES ASSUME NEW t \in Time, directory'[t] # NONE
             PROVE  \E u \in Upload : path'[u] = t /\ (Live(u)' \/ u \in abandoned')
  BY <1>0 DEF TempFileGone
<1>1. ASSUME NEW u \in Upload, Live(u) \/ u \in abandoned, ~Unlink(u)
      PROVE  path'[u] = path[u] /\ (Live(u)' \/ u \in abandoned')
  <2>1. pc[u] # "idle"
    BY <1>1 DEF Live, FilesHaveOnePath, TypeOK
  <2>2. path'[u] = path[u]
    BY <2>1, OwnChanges DEF OpenToWrite
  <2>3. abandoned \subseteq abandoned'
    BY Abandons
  <2>4. CASE Crash /\ Live(u)
    BY <2>2, <2>4 DEF Crash
  <2>5. CASE WriteFails(u) \/ FlushFails(u) \/ InvalidateFails(u)
    <3>1. CASE WriteFails(u)
      BY <2>2, <3>1 DEF WriteFails
    <3>2. CASE FlushFails(u) \/ InvalidateFails(u)
      BY <1>0, <2>2, <3>2 DEF FlushFails, InvalidateFails, Goto, Live
    <3> QED
      BY <2>5, <3>1, <3>2
  <2>6. CASE WriteEnds(u) \/ OpenToRead(u) \/ Missing(u)
    BY <1>0, <2>2, <2>6 DEF WriteEnds, OpenToRead, Missing, Goto, Live
  <2>7. CASE ReadLine(u) \/ ReadEnds(u) \/ FlushChunk(u) \/ Invalidate(u)
    BY <1>0, <2>2, <2>7 DEF ReadLine, ReadEnds, FlushChunk, Invalidate, Goto, Live
  <2>8. CASE pc'[u] = pc[u]
    BY <1>1, <2>2, <2>3, <2>8 DEF Live
  <2> QED
    BY <1>1, <2>1, <2>4, <2>5, <2>6, <2>7, <2>8, Moves DEF Moved, OpenToWrite
<1>2. ASSUME NEW w \in Upload, OpenToWrite(w)
      PROVE  \E u \in Upload : path'[u] = t /\ (Live(u)' \/ u \in abandoned')
  <2>1. /\ path' = [path EXCEPT ![w] = clock] /\ pc' = [pc EXCEPT ![w] = "write"]
        /\ \E v : directory' = [directory EXCEPT ![clock] = v]
    BY <1>2 DEF OpenToWrite, Goto
  <2>2. CASE t = clock
    BY <1>0, <2>1, <2>2 DEF Live
  <2>3. CASE t # clock
    <3>1. directory[t] # NONE
      BY <1>0, <2>1, <2>3
    <3>2. PICK u \in Upload : path[u] = t /\ (Live(u) \/ u \in abandoned)
      BY <1>0, <3>1 DEF TempFileGone
    <3>3. ~Unlink(u)
      <4>1. ASSUME Unlink(u) PROVE FALSE
        <5>1. u # w /\ pc'[u] = "done" /\ pc[u] # "done"
          BY <1>0, <1>2, <4>1 DEF OpenToWrite, Unlink, Goto
        <5> QED
          BY <1>0, <2>1, <5>1
      <4> QED
        BY <4>1
    <3> QED
      BY <1>1, <3>2, <3>3
  <2> QED
    BY <2>2, <2>3
<1>3. ASSUME NEW w \in Upload, Unlink(w)
      PROVE  \E u \in Upload : path'[u] = t /\ (Live(u)' \/ u \in abandoned')
  <2>1. directory' = [directory EXCEPT ![path[w]] = NONE]
    BY <1>3 DEF Unlink, withoutFile
  <2>2. directory[t] # NONE /\ t # path[w]
    BY <1>0, <2>1
  <2>3. PICK u \in Upload : path[u] = t /\ (Live(u) \/ u \in abandoned)
    BY <1>0, <2>2 DEF TempFileGone
  <2>4. ~Unlink(u)
    <3>1. u # w
      BY <2>2, <2>3
    <3>2. pc' = [pc EXCEPT ![w] = "done"]
      BY <1>3 DEF Unlink, Goto
    <3> QED
      BY <1>0, <3>1, <3>2 DEF Unlink, Goto
  <2> QED
    BY <1>1, <2>3, <2>4
<1>4. CASE ~ \E w \in Upload : OpenToWrite(w) \/ Unlink(w)
  <2>1. directory[t] # NONE
    BY <1>4, Changes
  <2>2. PICK u \in Upload : path[u] = t /\ (Live(u) \/ u \in abandoned)
    BY <1>0, <2>1 DEF TempFileGone
  <2> QED
    BY <1>1, <1>4, <2>2
<1> QED
  BY <1>2, <1>3, <1>4

-----------------------------------------------------------------------------
(* The theorems. *)

\* For any files, number of uploads, chunk size and faults, the variables keep
\* their types and the inductive invariant holds: who has which file open under
\* which path, what waits in a chunk, and what is known of the rows looked at.
THEOREM Invariance == Spec => [](TypeOK /\ Inv)
<1>1. Init => TypeOK /\ Inv
  BY InitFits
<1>2. TypeOK /\ Inv /\ [Next]_vars => (TypeOK /\ Inv)'
  <2> SUFFICES ASSUME TypeOK, Inv, [Next]_vars PROVE (TypeOK /\ Inv)'
    OBVIOUS
  <2>1. /\ FilesHaveOnePath /\ ChunkIsFlushed /\ AloneReadsItsOwn /\ RowsAreCounted
        /\ RowsAreLookedAt /\ FailureHasCause /\ TempFileGone
    BY DEF Inv
  <2>2. TypeOK'
    BY <2>1, NextFits
  <2>3. FilesHaveOnePath' /\ ChunkIsFlushed' /\ AloneReadsItsOwn' /\ RowsAreCounted'
    BY <2>1, NextFilesHaveOnePath, NextChunkIsFlushed, NextAloneReadsItsOwn, NextRowsAreCounted
  <2>4. RowsAreLookedAt' /\ FailureHasCause' /\ TempFileGone'
    BY <2>1, <2>2, NextRowsAreLookedAt, NextFailureHasCause, NextTempFileGone
  <2> QED
    BY <2>2, <2>3, <2>4 DEF Inv
<1> QED
  BY <1>1, <1>2, PTL DEF Spec

\* The state of an import keeps its types: a chunk never has more rows than one
\* statement takes, and an upload is done exactly when it has its answer.
THEOREM TypeCorrect == Spec => []TypeOK
BY Invariance, PTL

\* The counts of a successful import add up, reason by reason, and all of them
\* together are what the table has gained, also when uploads share a file, bring
\* the same names or lose the answer of a statement.
THEOREM CountsAlwaysAddUp == Spec => []CountsAddUp
<1>1. TypeOK /\ Inv => CountsAddUp
  <2> SUFFICES ASSUME TypeOK, ChunkIsFlushed, RowsAreCounted PROVE CountsAddUp
    BY DEF Inv
  <2>1. ASSUME NEW u \in Upload, Succeeded(u)
        PROVE  /\ stats[u].total_rows = stats[u].inserted + stats[u].skipped
               /\ stats[u].skipped = SumFunctionOnSet(stats[u].reasons, Counted)
    <3>1. chunk[u] = <<>>
      BY <2>1 DEF Succeeded, ChunkIsFlushed, Finished
    <3>2. Len(chunk[u]) = 0
      BY <3>1
    <3>3. \A s \in Stats : s.inserted \in Nat /\ s.skipped \in Nat
      BY DEF Stats
    <3>4. stats[u].inserted \in Nat /\ stats[u].skipped \in Nat
      BY <3>3 DEF TypeOK
    <3> QED
      BY <3>2, <3>4 DEF RowsAreCounted
  <2> QED
    BY <2>1 DEF CountsAddUp, RowsAreCounted
<1> QED
  BY <1>1, Invariance, PTL

\* A successful import of an upload that was alone on its path has looked at
\* every row of its file, and every good row is in the table.
THEOREM ImportsAreWhole == Spec => []ImportIsWhole
<1>1. TypeOK /\ Inv => ImportIsWhole
  <2> SUFFICES ASSUME TypeOK, ChunkIsFlushed, RowsAreLookedAt,
                      NEW u \in Upload, Succeeded(u), u \notin shared
               PROVE  LET rows == Rows(file[u])
                      IN  /\ stats[u].total_rows = Cardinality(rows)
                          /\ \A i \in rows : file[u][i].flaws = {} => file[u][i].name \in profiles
                          /\ \A r \in ToSet(Reasons) :
                                stats[u].reasons[r] >= Cardinality({i \in rows : file[u][i].flaws = {r}})
    BY DEF Inv, ImportIsWhole
  <2>1. chunk[u] = <<>> /\ LookedAt(u) /\ at[u] = Len(file[u])
    BY DEF Succeeded, Finished, ChunkIsFlushed, RowsAreLookedAt
  <2>2. Seen(u) = Rows(file[u])
    <3>1. file[u] \in Seq(Sent)
      BY ConstantsAssumption DEF TypeOK
    <3>2. \A i \in Rows(file[u]) : i <= Len(file[u])
      BY <3>1 DEF Rows
    <3> QED
      BY <2>1, <3>2 DEF Seen
  <2>3. \A j \in DOMAIN <<>> : FALSE
    OBVIOUS
  <2> QED
    BY <2>1, <2>2, <2>3 DEF LookedAt
<1> QED
  BY <1>1, Invariance, PTL

\* No temporary file outlives its upload, but for those of a crash and of
\* uploads broken off while they were written.
THEOREM TempFilesGo == Spec => []TempFileGone
<1>1. Inv => TempFileGone
  BY DEF Inv
<1> QED
  BY <1>1, Invariance, PTL

\* An import fails only for a fault, for another upload on its path or for a row
\* that the database refuses, which must be in the file that was sent.
THEOREM FailuresAreExplained == Spec => []FailureIsExplained
<1>1. Inv => FailureIsExplained
  BY DEF Inv, FailureHasCause, FailureIsExplained, RefusedRow
<1> QED
  BY <1>1, Invariance, PTL

-----------------------------------------------------------------------------
(* Names through an export and an import. *)

Char == {"quote", "comma", "space", "broken", "letter"}
\* What the export makes of a character.
Twice(c) == IF c = "quote" THEN <<"quote", "quote">> ELSE <<c>>

\* FlattenSeq puts one sequence after the other.
LEMMA FlattenSteps ==
    ASSUME NEW s, s \in Seq(Text), Len(s) > 0
    PROVE  \E d : /\ d = [i \in 1 .. Len(s) |-> IF i = 1 THEN s[i] ELSE d[i - 1] \o s[i]]
                  /\ FlattenSeq(s) = d[Len(s)]
<1> DEFINE G(f, n) == f = [i \in 1 .. n |-> IF i = 1 THEN s[i] ELSE f[i - 1] \o s[i]]
           S == {n \in Nat : n <= Len(s) => \E f : G(f, n)}
<1>1. 0 \in S
  <2>1. G([i \in 1 .. 0 |-> 0], 0)
    OBVIOUS
  <2> QED
    BY <2>1
<1>2. ASSUME NEW n \in Nat, n \in S PROVE n + 1 \in S
  <2>1. ASSUME n + 1 <= Len(s), NEW f, G(f, n) PROVE \E g : G(g, n + 1)
    <3> DEFINE g == [i \in 1 .. n + 1 |-> IF i <= n THEN f[i]
                                          ELSE IF i = 1 THEN s[i] ELSE f[i - 1] \o s[i]]
    <3>1. \A i \in 1 .. n : f[i] = IF i = 1 THEN s[i] ELSE f[i - 1] \o s[i]
      BY <2>1
    <3>2. \A i \in 1 .. n + 1 : g[i] = IF i = 1 THEN s[i] ELSE g[i - 1] \o s[i]
      BY <3>1
    <3>3. G(g, n + 1)
      BY <3>2
    <3> QED
      BY <3>3
  <2> HIDE DEF G
  <2>2. n + 1 <= Len(s) => \E f : G(f, n)
    BY <1>2
  <2> QED
    BY <2>1, <2>2
<1>3. Len(s) \in S
  <2> HIDE DEF S
  <2> QED
    BY <1>1, <1>2, AllNumbers
<1>4. \E f : G(f, Len(s))
  <2> HIDE DEF G
  <2> QED
    BY <1>3
<1>5. G(CHOOSE f : G(f, Len(s)), Len(s))
  BY <1>4, Zenon
<1>6. FlattenSeq(s) = (CHOOSE f : G(f, Len(s)))[Len(s)]
  BY DEF FlattenSeq
<1> QED
  BY <1>5, <1>6

\* The parts of a text, one after the other: d[k] is what the first k parts make.
Joins(d, x) ==
    /\ d \in [0 .. Len(x) -> Text] /\ d[0] = <<>>
    /\ \A k \in 1 .. Len(x) : d[k] = d[k - 1] \o x[k]

LEMMA TextFacts == Text = Seq(Char) /\ <<>> \in Text
BY DEF Text, Char

LEMMA Joined ==
    ASSUME NEW a \in Text, NEW b \in Text, NEW c, c = a \o b
    PROVE  /\ c \in Text /\ Len(a) \in Nat /\ Len(b) \in Nat /\ Len(c) = Len(a) + Len(b)
           /\ \A j \in 1 .. Len(a) : c[j] = a[j]
           /\ \A j \in 1 .. Len(b) : c[Len(a) + j] = b[j]
BY DEF Text

LEMMA FlattenJoins ==
    ASSUME NEW s, s \in Seq(Text)
    PROVE  \E d : Joins(d, s) /\ FlattenSeq(s) = d[Len(s)]
<1> DEFINE n == Len(s)
<1>1. n \in Nat /\ DOMAIN s = 1 .. n /\ (\A i \in 1 .. n : s[i] \in Text) /\ <<>> \in Text
  BY TextFacts
<1>4. CASE n = 0
  <2>1. FlattenSeq(s) = <<>>
    BY <1>1, <1>4 DEF FlattenSeq
  <2>2. Joins([k \in 0 .. n |-> <<>>], s)
    BY <1>1, <1>4 DEF Joins
  <2> QED
    BY <1>4, <2>1, <2>2
<1>5. CASE n > 0
  <2>1. PICK f : /\ f = [i \in 1 .. n |-> IF i = 1 THEN s[i] ELSE f[i - 1] \o s[i]]
                 /\ FlattenSeq(s) = f[n]
    BY <1>5, FlattenSteps
  <2>2. \A k \in 1 .. n : f[k] = IF k = 1 THEN s[k] ELSE f[k - 1] \o s[k]
    BY <2>1
  <2>3. PICK d : d = [k \in 0 .. n |-> IF k = 0 THEN <<>> ELSE f[k]]
    OBVIOUS
  <2>4. d[0] = <<>> /\ DOMAIN d = 0 .. n /\ d = [k \in 0 .. n |-> d[k]] /\ \A k \in 1 .. n : d[k] = f[k]
    BY <1>1, <2>3
  <2>5. ASSUME NEW k \in 1 .. n PROVE d[k] = d[k - 1] \o s[k] /\ s[k] \in Text
    <3>1. s[k] \in Text
      BY <1>1
    <3>2. <<>> \o s[k] = s[k]
      BY <3>1 DEF Text
    <3>3. CASE k = 1
      <4>0. k - 1 = 0
        BY <3>3
      <4>1. d[k - 1] = <<>> /\ d[k] = s[k]
        <5>1. f[k] = s[k]
          BY <2>2, <3>3
        <5>2. d[k] = f[k] /\ d[k - 1] = d[0]
          BY <2>4, <4>0
        <5> QED
          BY <2>4, <5>1, <5>2
      <4> QED
        BY <3>1, <3>2, <4>1
    <3>4. CASE k # 1
      <4>1. k - 1 \in 1 .. n
        BY <1>1, <3>4
      <4>2. f[k] = f[k - 1] \o s[k]
        BY <2>2, <3>4
      <4> QED
        BY <2>4, <3>1, <4>1, <4>2
    <3> QED
      BY <3>3, <3>4
  <2> DEFINE S == {k \in Nat : k <= n => d[k] \in Text}
  <2>6. 0 \in S
    BY <1>1, <2>4
  <2>7. ASSUME NEW k \in Nat, k \in S PROVE k + 1 \in S
    <3> SUFFICES ASSUME k + 1 <= n PROVE d[k + 1] \in Text
      OBVIOUS
    <3>1. PICK m \in 1 .. n : m = k + 1 /\ m - 1 = k
      BY <1>1
    <3>2. d[m - 1] \in Text
      BY <1>1, <2>7, <3>1
    <3>3. d[m] = d[m - 1] \o s[m] /\ s[m] \in Text
      BY <2>5
    <3>4. d[m] \in Text
      BY <3>2, <3>3, Joined
    <3> QED
      BY <3>1, <3>4
  <2>8. \A k \in Nat : k \in S
    <3> HIDE DEF S
    <3> QED
      BY <2>6, <2>7, AllNumbers
  <2>9. d \in [0 .. n -> Text]
    BY <1>1, <2>4, <2>8
  <2>10. Joins(d, s)
    BY <1>1, <2>4, <2>5, <2>9 DEF Joins
  <2>11. FlattenSeq(s) = d[n]
    <3>1. FlattenSeq(s) = f[n]
      BY <2>1
    <3>2. n \in 1 .. n
      BY <1>1, <1>5
    <3> HIDE DEF n
    <3> QED
      BY <2>4, <3>1, <3>2
  <2> QED
    BY <2>10, <2>11
<1>6. n = 0 \/ n > 0
  BY <1>1
<1> QED
  BY <1>4, <1>5, <1>6

\* What is made is a text all along.
LEMMA JoinsFacts ==
    ASSUME NEW s, s \in Seq(Text), NEW d, Joins(d, s)
    PROVE  /\ Len(s) \in Nat /\ d[0] = <<>> /\ Len(d[0]) = 0
           /\ \A k \in 0 .. Len(s) : d[k] \in Text /\ Len(d[k]) \in Nat
<1>1. Len(s) \in Nat
  OBVIOUS
<1>2. \A k \in 0 .. Len(s) : d[k] \in Text
  BY DEF Joins
<1>3. \A t \in Text : Len(t) \in Nat
  BY DEF Text
<1>4. d[0] = <<>>
  BY DEF Joins
<1> QED
  BY <1>1, <1>2, <1>3, <1>4

\* One part more.
LEMMA JoinsOn ==
    ASSUME NEW s, s \in Seq(Text), NEW d, Joins(d, s),
           NEW k \in Nat, NEW m \in 1 .. Len(s), m = k + 1
    PROVE  /\ d[m] = d[k] \o s[m] /\ s[m] \in Text /\ d[k] \in Text
           /\ Len(d[m]) = Len(d[k]) + Len(s[m])
<1>1. d[m] = d[m - 1] \o s[m]
  BY DEF Joins
<1>2. m - 1 = k /\ k \in 0 .. Len(s)
  OBVIOUS
<1>3. d[k] \in Text
  BY <1>2, JoinsFacts
<1>4. s[m] \in Text
  OBVIOUS
<1>5. d[m] = d[k] \o s[m]
  BY <1>1, <1>2
<1>6. Len(d[k] \o s[m]) = Len(d[k]) + Len(s[m])
  BY <1>3, <1>4, Joined
<1> QED
  BY <1>3, <1>4, <1>5, <1>6

\* The whole text begins with each of them.
LEMMA JoinsFromPrefixes ==
    ASSUME NEW s, s \in Seq(Text), NEW d, Joins(d, s)
    PROVE  \A k \in 0 .. Len(s) :
               /\ Len(d[k]) <= Len(d[Len(s)])
               /\ \A j \in 1 .. Len(d[k]) : d[Len(s)][j] = d[k][j]
<1> DEFINE n == Len(s)
           Begins(k, m) == /\ Len(d[k]) <= Len(d[m])
                           /\ \A j \in 1 .. Len(d[k]) : d[m][j] = d[k][j]
           S == {m \in Nat : m <= n => \A k \in 0 .. m : Begins(k, m)}
<1>1. n \in Nat /\ \A k \in 0 .. n : Len(d[k]) \in Nat
  BY JoinsFacts
<1>2. \A k \in 0 .. n : Begins(k, k)
  BY <1>1
<1>3. 0 \in S
  BY <1>2
<1>4. ASSUME NEW m \in Nat, m \in S PROVE m + 1 \in S
  <2> SUFFICES ASSUME m + 1 <= n, NEW k \in 0 .. m + 1 PROVE Begins(k, m + 1)
    OBVIOUS
  <2>1. PICK q \in 1 .. n : q = m + 1
    BY <1>1
  <2>2. CASE k = q
    BY <1>1, <1>2, <2>1, <2>2
  <2>3. CASE k # q
    <3>1. Begins(k, m) /\ k \in 0 .. n /\ m \in 0 .. n
      BY <1>1, <1>4, <2>1, <2>3
    <3>2. PICK x, y : x = d[m] /\ y = s[q]
      OBVIOUS
    <3>3. d[q] = x \o y /\ x \in Text /\ y \in Text
      BY <2>1, <3>2, JoinsOn
    <3>4. PICK z : z = d[q]
      OBVIOUS
    <3>5. Len(z) = Len(x) + Len(y) /\ Len(x) \in Nat /\ Len(y) \in Nat
      BY <3>3, <3>4, Joined
    <3>6. \A j \in 1 .. Len(x) : z[j] = x[j]
      BY <3>3, <3>4, Joined
    <3>7. PICK w : w = d[k]
      OBVIOUS
    <3>8. Len(w) \in Nat /\ Len(w) <= Len(x)
      BY <1>1, <3>1, <3>2, <3>7
    <3>9. \A j \in 1 .. Len(w) : x[j] = w[j]
      BY <3>1, <3>2, <3>7
    <3>10. Len(w) <= Len(z)
      BY <3>5, <3>8
    <3>11. \A j \in 1 .. Len(w) : z[j] = w[j]
      BY <3>5, <3>6, <3>8, <3>9
    <3>12. Begins(k, q)
      BY <3>4, <3>7, <3>10, <3>11
    <3> QED
      BY <2>1, <3>12
  <2> QED
    BY <2>2, <2>3
<1>5. n \in S
  <2> HIDE DEF S
  <2> QED
    BY <1>1, <1>3, <1>4, AllNumbers
<1> QED
  BY <1>1, <1>5

\* Where a part is in the whole text.
LEMMA PartFits ==
    ASSUME NEW s, s \in Seq(Text), NEW d, Joins(d, s),
           NEW k \in Nat, NEW m \in 1 .. Len(s), m = k + 1
    PROVE  Len(d[m]) = Len(d[k]) + Len(s[m])
BY JoinsOn

LEMMA PartsHaveLengths ==
    ASSUME NEW s, s \in Seq(Text), NEW d, Joins(d, s),
           NEW k \in Nat, NEW m \in 1 .. Len(s), m = k + 1
    PROVE  Len(d[k]) \in Nat /\ Len(s[m]) \in Nat
<1>1. PICK a, b : a = d[k] /\ b = s[m]
  OBVIOUS
<1>2. a \in Text /\ b \in Text
  BY <1>1, JoinsOn
<1> QED
  BY <1>1, <1>2 DEF Text

LEMMA PartIsThere ==
    ASSUME NEW s, s \in Seq(Text), NEW d, Joins(d, s), NEW t, t = d[Len(s)],
           NEW k \in Nat, NEW m \in 1 .. Len(s), m = k + 1
    PROVE  \A j \in 1 .. Len(s[m]) : t[Len(d[k]) + j] = s[m][j]
<1>1. PICK a, b, c : a = d[k] /\ b = s[m] /\ c = d[m]
  OBVIOUS
<1>2. c = a \o b /\ a \in Text /\ b \in Text
  BY <1>1, JoinsOn
<1>3. Len(a) \in Nat /\ Len(b) \in Nat /\ Len(c) = Len(a) + Len(b)
  BY <1>2, Joined
<1>4. \A j \in 1 .. Len(b) : c[Len(a) + j] = b[j]
  BY <1>2, Joined
<1>5. m \in 0 .. Len(s)
  BY JoinsFacts
<1>6. \A j \in 1 .. Len(c) : t[j] = c[j]
  BY <1>1, <1>5, JoinsFromPrefixes
<1>7. ASSUME NEW j \in 1 .. Len(b) PROVE t[Len(a) + j] = b[j]
  <2>1. Len(a) + j \in 1 .. Len(c)
    BY <1>3
  <2> QED
    BY <1>4, <1>6, <2>1
<1> QED
  BY <1>1, <1>7

\* The states of the loop of parseCsvLine over the first n characters.
Loop(f, line, n) ==
    f = [i \in 0 .. n |-> IF i = 0 THEN Start ELSE Advance(line, i, f[i - 1])]

LEMMA LoopGoesOn ==
    ASSUME NEW line, NEW n \in Nat, NEW f, Loop(f, line, n)
    PROVE  \E g : Loop(g, line, n + 1)
<1> DEFINE g == [i \in 0 .. n + 1 |-> IF i <= n THEN f[i] ELSE Advance(line, i, f[i - 1])]
<1>1. \A i \in 0 .. n : f[i] = IF i = 0 THEN Start ELSE Advance(line, i, f[i - 1])
  BY DEF Loop
<1>2. \A i \in 0 .. n + 1 : g[i] = IF i = 0 THEN Start ELSE Advance(line, i, g[i - 1])
  BY <1>1
<1>3. Loop(g, line, n + 1)
  BY <1>2 DEF Loop
<1> QED
  BY <1>3

\* What parseCsvLine returns for the fields at the end of the line.
Columns(fields) == [k \in DOMAIN fields |-> trim(fields[k])]
Returned(fields) ==
    IF Len(Columns(fields)) < 5 \/ \E k \in DOMAIN Columns(fields) : "broken" \in ToSet(Columns(fields)[k])
      THEN NONE ELSE Columns(fields)

\* The states of a run over the line.
Runs(s, line) == s[0] = Start /\ \A i \in 1 .. Len(line) : s[i] = Advance(line, i, s[i - 1])

\* The loop of parseCsvLine goes from state to state.
LEMMA ParserStates ==
    ASSUME NEW line, line \in Text
    PROVE  \E s : Runs(s, line) /\ parseCsvLine(line) = Returned(s[Len(line)].fields)
<1> DEFINE S == {n \in Nat : \E f : Loop(f, line, n)}
<1>0. Len(line) \in Nat
  BY DEF Text
<1>1. 0 \in S
  <2>1. Loop([i \in 0 .. 0 |-> Start], line, 0)
    BY DEF Loop
  <2> QED
    BY <2>1
<1>2. \A n \in Nat : n \in S => n + 1 \in S
  BY LoopGoesOn
<1>3. \E f : Loop(f, line, Len(line))
  <2>1. Len(line) \in S
    <3> HIDE DEF S
    <3> QED
      BY <1>0, <1>1, <1>2, AllNumbers
  <2> QED
    BY <2>1
<1>4. PICK f : f = CHOOSE g : g = [i \in 0 .. Len(line) |->
                                     IF i = 0 THEN Start ELSE Advance(line, i, g[i - 1])]
  OBVIOUS
<1>5. f = CHOOSE g : Loop(g, line, Len(line))
  BY <1>4 DEF Loop
<1>6. Loop(f, line, Len(line))
  BY <1>3, <1>5, Zenon
<1>7. parseCsvLine(line) = Returned(f[Len(line)].fields)
  BY <1>4 DEF parseCsvLine, Returned, Columns
<1>8. Runs(f, line)
  BY <1>0, <1>6 DEF Loop, Runs
<1> QED
  BY <1>7, <1>8

\* Between quotes and not, with the fields F and one more, or with the fields F.
Inside(F, f) == [fields |-> Append(F, f), inQuotes |-> TRUE, skip |-> FALSE]
Outside(F) == [fields |-> F, inQuotes |-> FALSE, skip |-> FALSE]

LEMMA PushLast ==
    ASSUME NEW F, F \in Seq(Text), NEW f, f \in Text, NEW c \in Char
    PROVE  /\ Push(Append(F, f), c) = Append(F, Append(f, c))
           /\ Append(F, f) \in Seq(Text) /\ Append(f, c) \in Text
<1>1. PICK n, p, h : n = Len(F) /\ p = Append(F, f) /\ h = Append(f, c)
  OBVIOUS
<1>2. f \in Seq(Char) /\ h \in Seq(Char) /\ h \in Text
  BY <1>1, TextFacts
<1>3. n \in Nat /\ p \in Seq(Text) /\ Len(p) = n + 1 /\ p[n + 1] = f /\ \A i \in 1 .. n : p[i] = F[i]
  BY <1>1, AppendProperties
<1>4. Push(p, c) = [p EXCEPT ![n + 1] = h]
  BY <1>1, <1>3 DEF Push
<1>5. PICK q, r : q = [p EXCEPT ![n + 1] = h] /\ r = Append(F, h)
  OBVIOUS
<1>6. r \in Seq(Text) /\ Len(r) = n + 1 /\ r[n + 1] = h /\ \A i \in 1 .. n : r[i] = F[i]
  BY <1>1, <1>2, <1>5, AppendProperties
<1>7. q \in Seq(Text) /\ Len(q) = n + 1 /\ \A i \in 1 .. n + 1 : q[i] = IF i = n + 1 THEN h ELSE p[i]
  <2>1. DOMAIN p = 1 .. n + 1
    BY <1>3
  <2>2. q = [i \in 1 .. n + 1 |-> IF i = n + 1 THEN h ELSE p[i]]
    BY <1>5, <2>1
  <2>3. \A i \in 1 .. n + 1 : (IF i = n + 1 THEN h ELSE p[i]) \in Text
    BY <1>2, <1>3
  <2>4. n + 1 \in Nat
    BY <1>3
  <2>5. q \in [1 .. n + 1 -> Text] /\ DOMAIN q = 1 .. n + 1
    BY <2>2, <2>3
  <2>6. q \in Seq(Text)
    BY <2>4, <2>5
  <2>7. Len(q) = n + 1
    BY <2>4, <2>5, <2>6, LenProperties
  <2> QED
    BY <2>2, <2>6, <2>7
<1>8. ASSUME NEW i \in 1 .. n + 1 PROVE q[i] = r[i]
  <2>1. CASE i = n + 1
    <3>1. r[i] = h
      BY <1>6, <2>1
    <3> QED
      BY <1>7, <2>1, <3>1
  <2>2. CASE i # n + 1
    <3>1. i \in 1 .. n
      BY <1>3, <2>2
    <3>2. p[i] = F[i] /\ r[i] = F[i]
      BY <1>3, <1>6, <3>1
    <3> QED
      BY <1>7, <2>2, <3>2
  <2> QED
    BY <2>1, <2>2
<1>9. q = r
  BY <1>6, <1>7, <1>8, SeqEqual
<1> QED
  BY <1>1, <1>2, <1>3, <1>4, <1>5, <1>9

\* The quote a name begins with.
LEMMA Opens ==
    ASSUME NEW line, NEW i, line[i] = "quote", NEW F
    PROVE  Advance(line, i, Outside(Append(F, <<>>))) = Inside(F, <<>>)
<1>1. PICK s : s = Outside(Append(F, <<>>))
  OBVIOUS
<1>2. ~s.skip /\ ~s.inQuotes
  BY <1>1 DEF Outside
<1>3. Advance(line, i, s) = [s EXCEPT !.inQuotes = ~s.inQuotes]
  BY <1>2 DEF Advance
<1>4. Advance(line, i, s) = Inside(F, <<>>)
  BY <1>1, <1>3 DEF Outside, Inside
<1> QED
  BY <1>1, <1>4

\* A character that is no quote, and two quotes.
LEMMA ReadsOne ==
    ASSUME NEW line, NEW i, NEW F, F \in Seq(Text), NEW f, f \in Text,
           NEW c \in Char, line[i] = c, c # "quote"
    PROVE  Advance(line, i, Inside(F, f)) = Inside(F, Append(f, c))
<1>1. PICK s : s = Inside(F, f)
  OBVIOUS
<1>2. ~s.skip /\ s.inQuotes /\ s.fields = Append(F, f)
  BY <1>1 DEF Inside
<1>3. Advance(line, i, s) = [s EXCEPT !.fields = Push(s.fields, c)]
  BY <1>2 DEF Advance
<1>4. Push(s.fields, c) = Append(F, Append(f, c))
  BY <1>2, PushLast
<1>5. Advance(line, i, s) = Inside(F, Append(f, c))
  BY <1>1, <1>3, <1>4 DEF Inside
<1> QED
  BY <1>1, <1>5

LEMMA ReadsTwo ==
    ASSUME NEW line, NEW i \in Nat, NEW j \in Nat, NEW F, F \in Seq(Text), NEW f, f \in Text,
           i < Len(line), j = i + 1, line[i] = "quote", line[j] = "quote",
           NEW a, a = Advance(line, i, Inside(F, f)), NEW b, b = Advance(line, j, a)
    PROVE  b = Inside(F, Append(f, "quote"))
<1>1. PICK s, g : s = Inside(F, f) /\ g = Append(F, Append(f, "quote"))
  OBVIOUS
<1>2. ~s.skip /\ s.inQuotes /\ s.fields = Append(F, f)
  BY <1>1 DEF Inside
<1>3. isEscape(line, i)
  BY DEF isEscape
<1>4. Advance(line, i, s) = [s EXCEPT !.fields = Push(s.fields, "quote"), !.skip = TRUE]
  BY <1>2, <1>3 DEF Advance
<1>5. Push(s.fields, "quote") = g
  <2>1. "quote" \in Char
    BY DEF Char
  <2> QED
    BY <1>1, <1>2, <2>1, PushLast
<1>6. PICK t : t = [s EXCEPT !.fields = g, !.skip = TRUE]
  OBVIOUS
<1>7. Advance(line, i, s) = t
  BY <1>4, <1>5, <1>6
<1>8. t.skip
  BY <1>1, <1>6 DEF Inside
<1>9. Advance(line, j, t) = [t EXCEPT !.skip = FALSE]
  BY <1>8 DEF Advance
<1>10. Advance(line, j, t) = Inside(F, Append(f, "quote"))
  BY <1>1, <1>6, <1>9 DEF Inside
<1>11. a = t
  BY <1>1, <1>7
<1> QED
  BY <1>10, <1>11

\* The quote a name ends with, before a comma or at the end of the line.
LEMMA Closes ==
    ASSUME NEW line, NEW i, NEW F, NEW f, line[i] = "quote",
           i < Len(line) => line[i + 1] = "comma"
    PROVE  Advance(line, i, Inside(F, f)) = Outside(Append(F, f))
<1>1. PICK s : s = Inside(F, f)
  OBVIOUS
<1>2. ~s.skip /\ s.inQuotes /\ ~isEscape(line, i)
  BY <1>1 DEF Inside, isEscape
<1>3. Advance(line, i, s) = [s EXCEPT !.inQuotes = ~s.inQuotes]
  BY <1>2 DEF Advance
<1>4. Advance(line, i, s) = Outside(Append(F, f))
  BY <1>1, <1>3 DEF Inside, Outside
<1> QED
  BY <1>1, <1>4

\* The comma after a field, and a field of one letter.
LEMMA Separates ==
    ASSUME NEW line, NEW i, NEW F, line[i] = "comma"
    PROVE  Advance(line, i, Outside(F)) = Outside(Append(F, <<>>))
<1>1. PICK s : s = Outside(F)
  OBVIOUS
<1>2. ~s.skip /\ ~s.inQuotes
  BY <1>1 DEF Outside
<1>3. Advance(line, i, s) = [s EXCEPT !.fields = Append(s.fields, <<>>)]
  BY <1>2 DEF Advance
<1>4. Advance(line, i, s) = Outside(Append(F, <<>>))
  BY <1>1, <1>3 DEF Outside
<1> QED
  BY <1>1, <1>4

LEMMA ReadsLetter ==
    ASSUME NEW line, NEW i, NEW F, F \in Seq(Text), line[i] = "letter"
    PROVE  Advance(line, i, Outside(Append(F, <<>>))) = Outside(Append(F, <<"letter">>))
<1>1. PICK s : s = Outside(Append(F, <<>>))
  OBVIOUS
<1>2. ~s.skip /\ ~s.inQuotes /\ s.fields = Append(F, <<>>)
  BY <1>1 DEF Outside
<1>3. Advance(line, i, s) = [s EXCEPT !.fields = Push(s.fields, "letter")]
  BY <1>2 DEF Advance
<1>4. Push(s.fields, "letter") = Append(F, Append(<<>>, "letter"))
  <2>1. "letter" \in Char /\ <<>> \in Text
    BY TextFacts DEF Char
  <2> QED
    BY <1>2, <2>1, PushLast
<1>5. Append(<<>>, "letter") = <<"letter">>
  OBVIOUS
<1>6. Advance(line, i, s) = Outside(Append(F, <<"letter">>))
  BY <1>1, <1>3, <1>4, <1>5 DEF Outside
<1> QED
  BY <1>1, <1>6

LEMMA TwiceFacts ==
    ASSUME NEW c \in Char
    PROVE  /\ Twice(c) \in Text
           /\ c = "quote" => Len(Twice(c)) = 2 /\ Twice(c)[1] = "quote" /\ Twice(c)[2] = "quote"
           /\ c # "quote" => Len(Twice(c)) = 1 /\ Twice(c)[1] = c
<1>1. CASE c = "quote"
  <2>1. Twice(c) = <<c, c>>
    BY <1>1 DEF Twice
  <2>2. <<c, c>> \in Seq(Char) /\ Len(<<c, c>>) = 2 /\ <<c, c>>[1] = c /\ <<c, c>>[2] = c
    OBVIOUS
  <2> QED
    BY <1>1, <2>1, <2>2, TextFacts
<1>2. CASE c # "quote"
  <2>1. Twice(c) = <<c>>
    BY <1>2 DEF Twice
  <2> QED
    BY <1>2, <2>1, TextFacts
<1> QED
  BY <1>1, <1>2

\* Where the characters of a quoted name are: between two quotes.
LEMMA QuotedIs ==
    ASSUME NEW x, x \in Text, NEW w,
           w = <<"quote">> \o x \o <<"quote">>
    PROVE  /\ w \in Text /\ Len(x) \in Nat /\ Len(w) = Len(x) + 2
           /\ w[1] = "quote" /\ w[Len(x) + 2] = "quote"
           /\ \A j \in 1 .. Len(x) : w[1 + j] = x[j]
<1>1. PICK q : q = <<"quote">>
  OBVIOUS
<1>2. PICK e : e = Len(x)
  OBVIOUS
<1>3. q \in Text
  BY <1>1 DEF Text
<1>4. Len(q) = 1 /\ q[1] = "quote"
  BY <1>1
<1>5. e \in Nat
  BY <1>2 DEF Text
<1>6. PICK a : a = q \o x
  OBVIOUS
<1>7. a \in Text /\ Len(a) = Len(q) + Len(x)
  BY <1>3, <1>6, Joined
<1>8. \A j \in 1 .. Len(q) : a[j] = q[j]
  BY <1>3, <1>6, Joined
<1>9. \A j \in 1 .. Len(x) : a[Len(q) + j] = x[j]
  BY <1>3, <1>6, Joined
<1>10. w = a \o q
  BY <1>1, <1>6
<1>11. a \in Text
  BY <1>7
<1>12. w \in Text /\ Len(w) = Len(a) + Len(q)
  BY <1>3, <1>10, <1>11, Joined
<1>13. \A j \in 1 .. Len(a) : w[j] = a[j]
  BY <1>3, <1>10, <1>11, Joined
<1>14. \A j \in 1 .. Len(q) : w[Len(a) + j] = q[j]
  BY <1>3, <1>10, <1>11, Joined
<1>15. Len(a) = e + 1 /\ Len(w) = e + 2
  BY <1>2, <1>4, <1>5, <1>7, <1>12
<1>16. w[e + 2] = "quote"
  <2>1. 1 \in 1 .. Len(q) /\ Len(a) + 1 = e + 2
    BY <1>4, <1>5, <1>15
  <2>2. w[Len(a) + 1] = q[1]
    BY <1>14, <2>1
  <2> QED
    BY <1>4, <2>1, <2>2
<1>17. w[1] = "quote"
  <2>1. 1 \in 1 .. Len(q) /\ 1 \in 1 .. Len(a)
    BY <1>4, <1>5, <1>15
  <2> QED
    BY <1>4, <1>8, <1>13, <2>1
<1>18. ASSUME NEW j \in 1 .. Len(x) PROVE w[1 + j] = x[j]
  <2>1. 1 + j \in 1 .. Len(a) /\ Len(q) + j = 1 + j
    BY <1>2, <1>4, <1>5, <1>15
  <2> QED
    BY <1>9, <1>13, <2>1
<1> QED
  BY <1>2, <1>5, <1>12, <1>15, <1>16, <1>17, <1>18

\* The text w stands in the line after its first q characters, before a comma or at
\* the end.
Stands(w, line, q) ==
    /\ q + Len(w) <= Len(line)
    /\ \A j \in 1 .. Len(w) : line[q + j] = w[j]
    /\ q + Len(w) < Len(line) => line[q + Len(w) + 1] = "comma"

\* profiles.controller.ts:156 and parseCsvLine: a quoted name is read as that name,
\* whatever its characters.
LEMMA QuotedIsRead ==
    ASSUME NEW line, line \in Text, NEW s, Runs(s, line), NEW F, F \in Seq(Text),
           NEW name, name \in Text, NEW q \in Nat, Stands(quoted(name), line, q),
           s[q] = Outside(Append(F, <<>>))
    PROVE  s[q + Len(quoted(name))] = Outside(Append(F, name))
<1> DEFINE parts == [i \in DOMAIN name |-> Twice(name[i])]
<1>1. PICK n, x, w, end : /\ n = Len(name) /\ x = parts /\ w = quoted(name)
                          /\ end = Len(line)
  OBVIOUS
<1>2. n \in Nat /\ DOMAIN name = 1 .. n /\ name \in Seq(Char) /\ end \in Nat
  BY <1>1 DEF Text, Char
<1>3. \A i \in 1 .. n : name[i] \in Char /\ Twice(name[i]) \in Text
  BY <1>2, TwiceFacts
<1>4. x \in Seq(Text) /\ Len(x) = n /\ \A i \in 1 .. n : x[i] = Twice(name[i])
  BY <1>1, <1>2, <1>3
<1>5. PICK d : Joins(d, x) /\ FlattenSeq(x) = d[Len(x)]
  BY <1>4, FlattenJoins
<1>6. PICK t, e : t = d[n] /\ e = Len(t)
  OBVIOUS
<1>7. t \in Text /\ t = d[Len(x)]
  <2>1. Len(x) \in 0 .. Len(x)
    BY <1>2, <1>4
  <2> QED
    BY <1>4, <1>5, <1>6, <2>1, JoinsFacts
<1>8. w = <<"quote">> \o t \o <<"quote">>
  BY <1>1, <1>5, <1>7 DEF quoted, Twice
<1>9. /\ e \in Nat /\ Len(w) = e + 2 /\ w[1] = "quote" /\ w[e + 2] = "quote"
      /\ \A j \in 1 .. e : w[1 + j] = t[j]
  BY <1>6, <1>7, <1>8, QuotedIs
<1>10. /\ q + e + 2 <= end /\ line[q + 1] = "quote" /\ line[q + e + 2] = "quote"
       /\ q + e + 2 < end => line[q + e + 3] = "comma"
  <2>1. /\ q + Len(w) <= end /\ \A j \in 1 .. Len(w) : line[q + j] = w[j]
        /\ q + Len(w) < end => line[q + Len(w) + 1] = "comma"
    BY <1>1 DEF Stands
  <2>2. 1 \in 1 .. Len(w) /\ e + 2 \in 1 .. Len(w)
    BY <1>9
  <2>3. line[q + 1] = "quote" /\ line[q + (e + 2)] = "quote"
    BY <1>9, <2>1, <2>2
  <2>4. q + (e + 2) = q + e + 2 /\ q + Len(w) = q + e + 2 /\ q + Len(w) + 1 = q + e + 3
    BY <1>9
  <2> QED
    BY <2>1, <2>3, <2>4
<1>11. ASSUME NEW j \in 1 .. e PROVE line[q + 1 + j] = t[j]
  <2>1. 1 + j \in 1 .. Len(w) /\ q + (1 + j) = q + 1 + j
    BY <1>9
  <2>2. line[q + (1 + j)] = w[1 + j]
    BY <1>1, <2>1 DEF Stands
  <2> QED
    BY <1>9, <2>1, <2>2
<1>12. ASSUME NEW i \in Nat, NEW j, j = i + 1, j <= end PROVE s[j] = Advance(line, j, s[i])
  <2>1. j \in 1 .. Len(line) /\ j - 1 = i
    BY <1>1, <1>2, <1>12
  <2> QED
    BY <2>1 DEF Runs
<1> DEFINE Read == {k \in Nat : k <= n => s[q + 1 + Len(d[k])] = Inside(F, SubSeq(name, 1, k))}
<1>13. 0 \in Read
  <2>1. s[q + 1] = Advance(line, q + 1, s[q])
    BY <1>2, <1>9, <1>10, <1>12
  <2>2. s[q + 1] = Inside(F, <<>>)
    BY <1>10, <2>1, Opens
  <2>3. SubSeq(name, 1, 0) = <<>>
    BY <1>2
  <2>4. q + 1 + Len(d[0]) = q + 1
    <3>1. Len(d[0]) = 0
      BY <1>4, <1>5, JoinsFacts
    <3> QED
      BY <3>1
  <2> QED
    BY <2>2, <2>3, <2>4
<1>14. ASSUME NEW k \in Nat, k \in Read, k + 1 <= n
       PROVE  s[q + 1 + Len(d[k + 1])] = Inside(F, SubSeq(name, 1, k + 1))
  <2>1. PICK m \in 1 .. n : m = k + 1
    BY <1>2, <1>14
  <2>2. PICK p, c, f : p = q + 1 + Len(d[k]) /\ c = name[m] /\ f = SubSeq(name, 1, k)
    OBVIOUS
  <2>3. c \in Char /\ f \in Text /\ SubSeq(name, 1, m) = Append(f, c)
    <3>1. f \in Seq(Char) /\ SubSeq(name, 1, m) = Append(f, c)
      BY <1>1, <1>2, <2>1, <2>2
    <3> QED
      BY <1>3, <2>2, <3>1, TextFacts
  <2>4. s[p] = Inside(F, f)
    <3>1. k <= n => s[q + 1 + Len(d[k])] = Inside(F, SubSeq(name, 1, k))
      BY <1>14
    <3>2. k <= n
      BY <1>2, <1>14
    <3> QED
      BY <2>2, <3>1, <3>2
  <2>5. x[m] = Twice(c)
    BY <1>4, <2>2
  <2>6. /\ Len(d[k]) \in Nat /\ Len(x[m]) \in Nat
        /\ Len(d[m]) = Len(d[k]) + Len(x[m]) /\ Len(d[m]) <= e
        /\ \A j \in 1 .. Len(x[m]) : t[Len(d[k]) + j] = x[m][j]
    <3>1. m \in 1 .. Len(x)
      BY <1>4
    <3>2. x \in Seq(Text) /\ Joins(d, x)
      BY <1>4, <1>5
    <3>3. Len(d[m]) = Len(d[k]) + Len(x[m])
      BY <2>1, <3>1, <3>2, PartFits
    <3>6. Len(d[k]) \in Nat /\ Len(x[m]) \in Nat
      BY <2>1, <3>1, <3>2, PartsHaveLengths
    <3>4. Len(d[m]) <= Len(t)
      <4>1. m \in 0 .. Len(x)
        BY <1>2, <1>4
      <4> QED
        BY <1>7, <3>2, <4>1, JoinsFromPrefixes
    <3>5. \A j \in 1 .. Len(x[m]) : t[Len(d[k]) + j] = x[m][j]
      <4>1. t = d[Len(x)]
        BY <1>7
      <4> QED
        BY <2>1, <3>1, <3>2, <4>1, PartIsThere
    <3> QED
      BY <1>6, <3>3, <3>4, <3>5, <3>6
  <2>7. /\ p \in Nat /\ p + Len(Twice(c)) <= q + 1 + e
        /\ q + 1 + Len(d[m]) = p + Len(Twice(c))
    <3>1. PICK a, b, z : a = Len(d[k]) /\ b = Len(Twice(c)) /\ z = Len(d[m])
      OBVIOUS
    <3>2. a \in Nat /\ b \in Nat /\ z = a + b /\ z <= e /\ p = q + 1 + a /\ e \in Nat
      BY <1>9, <2>2, <2>5, <2>6, <3>1
    <3>3. p \in Nat /\ p + b <= q + 1 + e /\ q + 1 + z = p + b
      BY <3>2
    <3> QED
      BY <3>1, <3>3
  <2>8. ASSUME NEW j \in 1 .. Len(Twice(c)) PROVE line[p + j] = Twice(c)[j]
    <3>1. Len(d[k]) + j \in 1 .. e /\ q + 1 + (Len(d[k]) + j) = p + j
      <4>1. PICK a, b : a = Len(d[k]) /\ b = Len(Twice(c))
        OBVIOUS
      <4>2. a \in Nat /\ b \in Nat /\ a + b <= e /\ p = q + 1 + a /\ e \in Nat /\ j \in 1 .. b
        BY <1>9, <2>2, <2>5, <2>6, <4>1
      <4>3. a + j \in 1 .. e /\ q + 1 + (a + j) = p + j
        BY <4>2
      <4> QED
        BY <4>1, <4>3
    <3>2. line[p + j] = t[Len(d[k]) + j]
      BY <1>11, <3>1
    <3> QED
      BY <2>5, <2>6, <3>2
  <2>9. CASE c = "quote"
    <3>1. Len(Twice(c)) = 2 /\ Twice(c)[1] = "quote" /\ Twice(c)[2] = "quote"
      BY <2>3, <2>9, TwiceFacts
    <3>2. line[p + 1] = "quote" /\ line[p + 2] = "quote"
      BY <2>8, <3>1
    <3>3. p + 2 <= q + 1 + e /\ p + 2 <= end /\ p + 1 < Len(line) /\ p + 2 = p + 1 + 1
      BY <1>1, <1>2, <1>9, <1>10, <2>7, <3>1
    <3>4. s[p + 1] = Advance(line, p + 1, s[p]) /\ s[p + 2] = Advance(line, p + 2, s[p + 1])
      <4>1. p + 1 \in Nat /\ p + 1 <= end
        BY <1>2, <2>7, <3>3
      <4> QED
        BY <1>12, <2>7, <3>3, <4>1
    <3>5. s[p + 2] = Inside(F, Append(f, "quote"))
      <4>1. PICK u, v : u = p + 1 /\ v = p + 2
        OBVIOUS
      <4>6. u \in Nat /\ v \in Nat
        BY <2>7, <4>1
      <4>2. u < Len(line) /\ v = u + 1 /\ line[u] = "quote" /\ line[v] = "quote"
        BY <3>2, <3>3, <4>1
      <4>0. f \in Text
        BY <2>3
      <4>3. PICK a, b : a = s[p + 1] /\ b = s[p + 2]
        OBVIOUS
      <4>4. a = Advance(line, u, Inside(F, f)) /\ b = Advance(line, v, a)
        BY <2>4, <3>4, <4>1, <4>3
      <4>5. b = Inside(F, Append(f, "quote"))
        BY <4>0, <4>2, <4>4, <4>6, ReadsTwo
      <4> QED
        BY <4>3, <4>5
    <3> QED
      BY <2>1, <2>3, <2>7, <2>9, <3>1, <3>5
  <2>10. CASE c # "quote"
    <3>1. Len(Twice(c)) = 1 /\ Twice(c)[1] = c
      BY <2>3, <2>10, TwiceFacts
    <3>2. line[p + 1] = c
      BY <2>8, <3>1
    <3>3. p + 1 <= end
      BY <1>2, <1>9, <1>10, <2>7, <3>1
    <3>4. s[p + 1] = Advance(line, p + 1, s[p])
      BY <1>12, <2>7, <3>3
    <3>5. s[p + 1] = Inside(F, Append(f, c))
      <4>1. PICK u : u = p + 1
        OBVIOUS
      <4>2. line[u] = c
        BY <3>2, <4>1
      <4>0. f \in Text /\ c \in Char
        BY <2>3
      <4>3. Advance(line, u, Inside(F, f)) = Inside(F, Append(f, c))
        BY <2>10, <4>0, <4>2, ReadsOne
      <4> QED
        BY <2>4, <3>4, <4>1, <4>3
    <3> QED
      BY <2>1, <2>3, <2>7, <3>1, <3>5
  <2> QED
    BY <2>9, <2>10
<1>15. ASSUME NEW k \in Nat, k \in Read PROVE k + 1 \in Read
  <2>1. k + 1 \in Nat
    OBVIOUS
  <2>2. CASE k + 1 <= n
    <3>1. s[q + 1 + Len(d[k + 1])] = Inside(F, SubSeq(name, 1, k + 1))
      BY <1>14, <1>15, <2>2
    <3> QED
      BY <2>1, <3>1
  <2>3. CASE ~(k + 1 <= n)
    BY <2>1, <2>3
  <2> QED
    BY <2>2, <2>3
<1>16. s[q + 1 + e] = Inside(F, name)
  <2>1. n \in Read
    <3> HIDE DEF Read
    <3> QED
      BY <1>2, <1>13, <1>15, AllNumbers
  <2>2. SubSeq(name, 1, n) = name
    BY <1>1, <1>2
  <2>3. n <= n
    BY <1>2
  <2> QED
    BY <1>6, <2>1, <2>2, <2>3
<1>17. PICK i : i = q + e + 2
  OBVIOUS
<1>18. s[i] = Advance(line, i, s[q + 1 + e])
  <2>1. q + 1 + e \in Nat /\ i = q + 1 + e + 1 /\ i <= end
    BY <1>9, <1>10, <1>17
  <2> QED
    BY <1>12, <2>1
<1>19. line[i] = "quote" /\ (i < Len(line) => line[i + 1] = "comma")
  <2>1. i + 1 = q + e + 3
    BY <1>9, <1>17
  <2> QED
    BY <1>1, <1>10, <1>17, <2>1
<1>20. s[i] = Outside(Append(F, name))
  BY <1>16, <1>18, <1>19, Closes
<1>21. q + Len(w) = i
  BY <1>9, <1>17
<1> QED
  BY <1>1, <1>20, <1>21

LEMMA QuotedIsText ==
    ASSUME NEW name, name \in Text
    PROVE  quoted(name) \in Text
<1>1. PICK n, x : n = Len(name) /\ x = [i \in DOMAIN name |-> Twice(name[i])]
  OBVIOUS
<1>2. n \in Nat /\ DOMAIN name = 1 .. n /\ \A i \in 1 .. n : name[i] \in Char
  BY <1>1 DEF Text, Char
<1>3. x \in Seq(Text)
  BY <1>1, <1>2, TwiceFacts
<1>4. PICK d : Joins(d, x) /\ FlattenSeq(x) = d[Len(x)]
  BY <1>3, FlattenJoins
<1>5. PICK t : t = d[Len(x)]
  OBVIOUS
<1>6. t \in Text
  <2>1. Len(x) \in 0 .. Len(x)
    BY <1>3
  <2> QED
    BY <1>3, <1>4, <1>5, <2>1, JoinsFacts
<1>7. quoted(name) = <<"quote">> \o t \o <<"quote">>
  BY <1>1, <1>4, <1>5 DEF quoted, Twice
<1> QED
  BY <1>6, <1>7, QuotedIs

\* A column of the export: the text v written as w.
Cell(w, v) == v \in Text /\ w \in Text /\ (w = quoted(v) \/ (w = <<"letter">> /\ v = <<"letter">>))

LEMMA CellIsRead ==
    ASSUME NEW line, line \in Text, NEW s, Runs(s, line), NEW F, F \in Seq(Text),
           NEW v, NEW w, Cell(w, v), NEW q \in Nat, Stands(w, line, q),
           s[q] = Outside(Append(F, <<>>))
    PROVE  s[q + Len(w)] = Outside(Append(F, v))
<1>1. CASE w = quoted(v)
  <2>1. v \in Text /\ Stands(quoted(v), line, q)
    BY <1>1 DEF Cell
  <2>2. s[q + Len(quoted(v))] = Outside(Append(F, v))
    BY <2>1, QuotedIsRead
  <2> QED
    BY <1>1, <2>2
<1>2. CASE w = <<"letter">> /\ v = <<"letter">>
  <2>1. Len(w) = 1 /\ w[1] = "letter"
    BY <1>2
  <2>2. q + 1 <= Len(line) /\ line[q + 1] = "letter"
    BY <2>1 DEF Stands
  <2>3. s[q + 1] = Advance(line, q + 1, s[q])
    <3>1. q + 1 \in 1 .. Len(line) /\ q + 1 - 1 = q
      BY <2>2 DEF Text
    <3> QED
      BY <3>1 DEF Runs
  <2>4. PICK i : i = q + 1
    OBVIOUS
  <2>5. Advance(line, i, Outside(Append(F, <<>>))) = Outside(Append(F, <<"letter">>))
    BY <2>2, <2>4, ReadsLetter
  <2> QED
    BY <1>2, <2>1, <2>3, <2>4, <2>5
<1> QED
  BY <1>1, <1>2 DEF Cell

\* A line of n columns.
Row(V, W, P, n) ==
    /\ n \in Nat \ {0}
    /\ V \in Seq(Text) /\ Len(V) = n /\ P \in Seq(Text) /\ Len(P) = n
    /\ \A k \in 1 .. n : Cell(W[k], V[k])
    /\ P[1] = W[1] /\ \A k \in 2 .. n : P[k] = <<"comma">> \o W[k]

LEMMA CommaStarts ==
    ASSUME NEW V, NEW W, NEW P, NEW n, Row(V, W, P, n), NEW k \in 2 .. n
    PROVE  /\ Len(W[k]) \in Nat /\ Len(P[k]) = 1 + Len(W[k]) /\ P[k][1] = "comma"
           /\ \A j \in 1 .. Len(W[k]) : P[k][1 + j] = W[k][j]
<1>1. PICK c, w, p : c = <<"comma">> /\ w = W[k] /\ p = P[k]
  OBVIOUS
<1>2. w \in Text /\ p = c \o w
  BY <1>1 DEF Row, Cell
<1>3. c \in Text /\ Len(c) = 1 /\ c[1] = "comma"
  BY <1>1 DEF Text
<1>4. c \in Text
  BY <1>3
<1>5. Len(w) \in Nat /\ Len(p) = Len(c) + Len(w)
  BY <1>2, <1>4, Joined
<1>6. \A j \in 1 .. Len(c) : p[j] = c[j]
  BY <1>2, <1>4, Joined
<1>7. \A j \in 1 .. Len(w) : p[Len(c) + j] = w[j]
  BY <1>2, <1>4, Joined
<1>8. Len(p) = 1 + Len(w) /\ p[1] = "comma" /\ \A j \in 1 .. Len(w) : p[1 + j] = w[j]
  BY <1>3, <1>5, <1>6, <1>7
<1> QED
  BY <1>1, <1>5, <1>8

\* After each column is a comma or the end.
LEMMA CommaFollows ==
    ASSUME NEW V, NEW W, NEW P, NEW n, Row(V, W, P, n), NEW d, Joins(d, P),
           NEW line, line = d[Len(P)], NEW k \in 1 .. n, NEW e, e = Len(d[k])
    PROVE  /\ e \in Nat /\ e <= Len(line)
           /\ e < Len(line) => line[e + 1] = "comma"
<1>1. n \in Nat /\ P \in Seq(Text) /\ Len(P) = n /\ k \in Nat
  BY DEF Row
<1>2. k \in 0 .. Len(P)
  BY <1>1
<1>3. e \in Nat
  BY <1>1, <1>2, JoinsFacts
<1>4. e <= Len(line)
  BY <1>1, <1>2, JoinsFromPrefixes
<1>5. CASE k = n
  <2>1. e = Len(line)
    BY <1>1, <1>5
  <2> QED
    BY <1>3, <1>4, <2>1
<1>6. CASE k # n
  <2>1. PICK m \in 1 .. Len(P) : m = k + 1
    BY <1>1, <1>6
  <2>2. m \in 2 .. n
    BY <1>1, <2>1
  <2>3. \A j \in 1 .. Len(P[m]) : line[Len(d[k]) + j] = P[m][j]
    BY <1>1, <2>1, PartIsThere
  <2>4. Len(W[m]) \in Nat /\ Len(P[m]) = 1 + Len(W[m])
    BY <2>2, CommaStarts
  <2>5. P[m][1] = "comma"
    BY <2>2, CommaStarts
  <2>6. 1 \in 1 .. Len(P[m])
    BY <2>4
  <2>7. line[e + 1] = "comma"
    BY <2>3, <2>5, <2>6
  <2> QED
    BY <1>3, <1>4, <2>7
<1> QED
  BY <1>5, <1>6

LEMMA OneMore ==
    ASSUME NEW V, V \in Seq(Text), NEW k \in Nat, NEW m \in 1 .. Len(V), m = k + 1
    PROVE  SubSeq(V, 1, m) = Append(SubSeq(V, 1, k), V[m])
OBVIOUS

\* The state after k columns.
LEMMA RowIsRead ==
    ASSUME NEW V, NEW W, NEW P, NEW n, Row(V, W, P, n), NEW d, Joins(d, P),
           NEW line, line \in Text, line = d[Len(P)], NEW s, Runs(s, line)
    PROVE  \A k \in 1 .. n : s[Len(d[k])] = Outside(SubSeq(V, 1, k))
<1> DEFINE R == {k \in Nat : k + 1 <= n => s[Len(d[k + 1])] = Outside(SubSeq(V, 1, k + 1))}
<1>1. n \in Nat /\ n >= 1 /\ P \in Seq(Text) /\ Len(P) = n /\ V \in Seq(Text) /\ Len(V) = n
  BY DEF Row
<1>2. \A k \in 1 .. n : Cell(W[k], V[k])
  BY DEF Row
<1>3. 0 \in R
  <2>1. PICK w, v, e : w = W[1] /\ v = V[1] /\ e = Len(d[1])
    OBVIOUS
  <2>2. Cell(w, v)
    BY <1>1, <1>2, <2>1
  <2>3. P[1] = w
    BY <2>1 DEF Row
  <2>4. 1 \in 1 .. Len(P) /\ 1 \in 1 .. n /\ 0 \in Nat /\ 1 = 0 + 1
    BY <1>1
  <2>5. Len(d[0]) = 0
    BY <1>1, JoinsFacts
  <2>6. \A j \in 1 .. Len(P[1]) : line[Len(d[0]) + j] = P[1][j]
    BY <1>1, <2>4, PartIsThere
  <2>7. Len(w) \in Nat
    BY <2>2 DEF Cell, Text
  <2>8. e = Len(w)
    <3>1. Len(d[1]) = Len(d[0]) + Len(P[1])
      BY <1>1, <2>4, PartFits
    <3> QED
      BY <2>1, <2>3, <2>5, <2>7, <3>1
  <2>9. e <= Len(line) /\ (e < Len(line) => line[e + 1] = "comma")
    BY <2>1, <2>4, CommaFollows
  <2>10. \A j \in 1 .. Len(w) : line[0 + j] = w[j]
    BY <2>3, <2>5, <2>6
  <2>11. Stands(w, line, 0)
    BY <2>7, <2>8, <2>9, <2>10 DEF Stands
  <2>12. PICK F : F = <<>>
    OBVIOUS
  <2>13. F \in Seq(Text) /\ Append(F, <<>>) = << <<>> >>
    BY <2>12
  <2>14. s[0] = Outside(Append(F, <<>>))
    BY <2>13 DEF Runs, Start, Outside
  <2>15. F \in Seq(Text)
    BY <2>13
  <2>16. s[0 + Len(w)] = Outside(Append(F, v))
    BY <2>2, <2>11, <2>14, <2>15, CellIsRead
  <2>17. SubSeq(V, 1, 1) = Append(F, v)
    <3>1. V \in Seq(Text) /\ Len(V) = n /\ n \in Nat /\ 1 <= n
      BY <1>1
    <3>2. SubSeq(V, 1, 0) = <<>>
      BY <3>1
    <3>3. 1 \in 1 .. Len(V) /\ 1 = 0 + 1 /\ 0 \in Nat
      BY <3>1
    <3>4. SubSeq(V, 1, 1) = Append(SubSeq(V, 1, 0), V[1])
      BY <3>1, <3>3, OneMore
    <3> QED
      BY <2>1, <2>12, <3>2, <3>4
  <2>18. s[e] = Outside(SubSeq(V, 1, 1))
    <3>1. 0 + Len(w) = e
      BY <2>7, <2>8
    <3> QED
      BY <2>16, <2>17, <3>1
  <2> QED
    BY <2>1, <2>18
<1>4. ASSUME NEW k \in 1 .. n, NEW m \in 1 .. n, m = k + 1,
             s[Len(d[k])] = Outside(SubSeq(V, 1, k))
      PROVE  s[Len(d[m])] = Outside(SubSeq(V, 1, m))
  <2>1. PICK w, v, e, q, F : /\ w = W[m] /\ v = V[m] /\ e = Len(d[m]) /\ q = Len(d[k])
                             /\ F = SubSeq(V, 1, k)
    OBVIOUS
  <2>2. Cell(w, v)
    BY <1>2, <2>1
  <2>3. F \in Seq(Text) /\ SubSeq(V, 1, m) = Append(F, v)
    BY <1>1, <1>4, <2>1
  <2>4. m \in 2 .. n /\ m \in 1 .. Len(P) /\ k \in Nat
    BY <1>1, <1>4
  <2>5. Len(w) \in Nat /\ Len(P[m]) = 1 + Len(w)
    BY <2>1, <2>4, CommaStarts
  <2>6. \A j \in 1 .. Len(w) : P[m][1 + j] = w[j]
    BY <2>1, <2>4, CommaStarts
  <2>7. \A j \in 1 .. Len(P[m]) : line[q + j] = P[m][j]
    <3>0. m \in 1 .. Len(P) /\ k \in Nat /\ P \in Seq(Text)
      BY <1>1, <2>4
    <3>1. \A j \in 1 .. Len(P[m]) : line[Len(d[k]) + j] = P[m][j]
      BY <1>4, <3>0, PartIsThere
    <3> QED
      BY <2>1, <3>1
  <2>8. q \in Nat /\ q <= Len(line) /\ (q < Len(line) => line[q + 1] = "comma")
    BY <2>1, CommaFollows
  <2>9. e \in Nat /\ e <= Len(line) /\ (e < Len(line) => line[e + 1] = "comma")
    BY <2>1, CommaFollows
  <2>10. e = q + 1 + Len(w)
    <3>0. m \in 1 .. Len(P) /\ k \in Nat /\ P \in Seq(Text)
      BY <1>1, <2>4
    <3>1. Len(d[m]) = Len(d[k]) + Len(P[m])
      BY <1>4, <3>0, PartFits
    <3>2. PICK a : a = Len(w)
      OBVIOUS
    <3>3. e = q + (1 + a) /\ a \in Nat /\ q \in Nat
      BY <2>1, <2>5, <2>8, <3>1, <3>2
    <3>4. e = q + 1 + a
      BY <3>3
    <3> QED
      BY <3>2, <3>4
  <2>11. q + 1 \in 1 .. Len(line) /\ line[q + 1] = "comma"
    BY <2>5, <2>8, <2>9, <2>10
  <2>12. s[q + 1] = Advance(line, q + 1, Outside(F))
    <3>2. s[q] = Outside(F)
      BY <1>4, <2>1
    <3>3. PICK j \in 1 .. Len(line) : j = q + 1
      BY <2>11
    <3>4. s[j] = Advance(line, j, s[j - 1])
      BY DEF Runs
    <3>5. j - 1 = q
      BY <2>8, <3>3
    <3>6. s[j] = Advance(line, j, Outside(F))
      BY <3>2, <3>4, <3>5
    <3> QED
      BY <3>3, <3>6
  <2>13. PICK i : i = q + 1
    OBVIOUS
  <2>14. s[i] = Outside(Append(F, <<>>))
    <3>1. line[i] = "comma"
      BY <2>11, <2>13
    <3>2. Advance(line, i, Outside(F)) = Outside(Append(F, <<>>))
      BY <3>1, Separates
    <3> QED
      BY <2>12, <2>13, <3>2
  <2>15. i \in Nat /\ i + Len(w) = e
    BY <2>5, <2>8, <2>10, <2>13
  <2>16. ASSUME NEW j \in 1 .. Len(w) PROVE line[i + j] = w[j]
    <3>1. 1 + j \in 1 .. Len(P[m]) /\ q + (1 + j) = i + j
      BY <2>5, <2>8, <2>13
    <3>2. line[q + (1 + j)] = P[m][1 + j]
      BY <2>7, <3>1
    <3> QED
      BY <2>6, <3>1, <3>2
  <2>17. Stands(w, line, i)
    <3>1. \A j \in 1 .. Len(w) : line[i + j] = w[j]
      BY <2>16
    <3> QED
      BY <2>9, <2>15, <3>1 DEF Stands
  <2>18. F \in Seq(Text) /\ i \in Nat
    BY <2>3, <2>15
  <2>19. s[i + Len(w)] = Outside(Append(F, v))
    BY <2>2, <2>14, <2>17, <2>18, CellIsRead
  <2>20. s[e] = Outside(SubSeq(V, 1, m))
    BY <2>3, <2>15, <2>19
  <2> QED
    BY <2>1, <2>20
<1>5. ASSUME NEW k \in Nat, k \in R PROVE k + 1 \in R
  <2> SUFFICES ASSUME k + 1 + 1 <= n
               PROVE  s[Len(d[k + 1 + 1])] = Outside(SubSeq(V, 1, k + 1 + 1))
    OBVIOUS
  <2>1. PICK i \in 1 .. n, m \in 1 .. n : i = k + 1 /\ m = i + 1
    BY <1>1
  <2>2. s[Len(d[i])] = Outside(SubSeq(V, 1, i))
    BY <1>1, <1>5, <2>1
  <2>3. s[Len(d[m])] = Outside(SubSeq(V, 1, m))
    BY <1>4, <2>1, <2>2
  <2> QED
    BY <2>1, <2>3
<1>6. \A k \in Nat : k \in R
  <2> HIDE DEF R
  <2> QED
    BY <1>3, <1>5, AllNumbers
<1>7. ASSUME NEW k \in 1 .. n PROVE s[Len(d[k])] = Outside(SubSeq(V, 1, k))
  <2>1. PICK i \in Nat : k = i + 1
    <3>1. k - 1 \in Nat /\ k = k - 1 + 1
      OBVIOUS
    <3> QED
      BY <3>1
  <2>2. i \in R
    BY <1>6
  <2> QED
    BY <1>1, <2>1, <2>2
<1> QED
  BY <1>7

LEMMA RowIsParsed ==
    ASSUME NEW V, NEW W, NEW P, NEW n, Row(V, W, P, n)
    PROVE  parseCsvLine(FlattenSeq(P)) = Returned(V)
<1>1. n \in Nat /\ n >= 1 /\ P \in Seq(Text) /\ Len(P) = n /\ V \in Seq(Text) /\ Len(V) = n
  BY DEF Row
<1>2. PICK d : Joins(d, P) /\ FlattenSeq(P) = d[Len(P)]
  BY <1>1, FlattenJoins
<1>3. PICK line : line = d[Len(P)]
  OBVIOUS
<1>4. line \in Text
  <2>1. Len(P) \in 0 .. Len(P)
    BY <1>1
  <2> QED
    BY <1>1, <1>2, <1>3, <2>1, JoinsFacts
<1>5. PICK s : Runs(s, line) /\ parseCsvLine(line) = Returned(s[Len(line)].fields)
  BY <1>4, ParserStates
<1>6. \A k \in 1 .. n : s[Len(d[k])] = Outside(SubSeq(V, 1, k))
  BY <1>2, <1>3, <1>4, <1>5, RowIsRead
<1>7. n \in 1 .. n /\ SubSeq(V, 1, n) = V
  BY <1>1
<1>8. s[Len(line)] = Outside(V)
  BY <1>1, <1>3, <1>6, <1>7
<1>9. s[Len(line)].fields = V
  BY <1>8 DEF Outside
<1> QED
  BY <1>2, <1>3, <1>5, <1>9

\* No character comes with a trim.
Clean(t) == t \in Text /\ \A i \in DOMAIN t : t[i] # "broken"

LEMMA TrimIsClean ==
    ASSUME NEW t, Clean(t)
    PROVE  "broken" \notin ToSet(trim(t))
<1>1. PICK n, K : n = Len(t) /\ K = {i \in DOMAIN t : t[i] # "space"}
  OBVIOUS
<1>2. n \in Nat /\ DOMAIN t = 1 .. n /\ K \subseteq 1 .. n /\ \A i \in 1 .. n : t[i] # "broken"
  BY <1>1 DEF Clean, Text
<1>3. CASE K = {}
  <2>1. trim(t) = <<>>
    BY <1>1, <1>3 DEF trim
  <2> QED
    BY <2>1 DEF ToSet
<1>4. CASE K # {}
  <2>1. PICK a, b : a = Min(K) /\ b = Max(K)
    OBVIOUS
  <2>2. a \in K
    <3>1. K \subseteq Nat
      BY <1>2
    <3>2. \E x \in K : \A y \in K : x <= y
      BY <1>4, <3>1, LeastNumber
    <3> QED
      BY <2>1, <3>2 DEF Min
  <2>3. b \in K
    <3> DEFINE D == {n - i : i \in K}
    <3>0. \A i \in K : i \in 1 .. n
      BY <1>2
    <3>4. \A i \in K : n - i \in Nat
      BY <1>2, <3>0
    <3>1. D \subseteq Nat /\ D # {}
      BY <1>4, <3>4
    <3>2. \E x \in D : \A y \in D : x <= y
      <4> HIDE DEF D
      <4> QED
        BY <3>1, LeastNumber
    <3>3. \E x \in K : \A y \in K : x >= y
      <4>1. PICK x \in K : \A y \in K : n - x <= n - y
        BY <3>2
      <4>2. \A y \in K : x >= y
        BY <1>2, <4>1
      <4> QED
        BY <4>2
    <3> QED
      BY <2>1, <3>3 DEF Max
  <2>4. trim(t) = SubSeq(t, a, b)
    BY <1>1, <1>4, <2>1 DEF trim
  <2>5. a \in 1 .. n /\ b \in 1 .. n
    BY <1>2, <2>2, <2>3
  <2>6. PICK w : w = SubSeq(t, a, b)
    OBVIOUS
  <2>7. /\ DOMAIN w = 1 .. Len(w) /\ Len(w) = (IF a <= b THEN b - a + 1 ELSE 0)
        /\ \A i \in 1 .. b - a + 1 : w[i] = t[a + i - 1]
    <3>1. t \in Seq(Char)
      BY TextFacts DEF Clean
    <3> QED
      BY <1>1, <2>5, <2>6, <3>1, SubSeqProperties
  <2>8. ASSUME NEW i \in DOMAIN w PROVE w[i] # "broken"
    <3>1. i \in 1 .. b - a + 1 /\ w[i] = t[a + i - 1]
      <4>1. i \in 1 .. b - a + 1
        BY <1>2, <2>5, <2>7, <2>8
      <4> QED
        BY <2>7, <4>1
    <3>2. a + i - 1 \in 1 .. n
      BY <1>2, <2>5, <3>1
    <3> QED
      BY <1>2, <3>1, <3>2
  <2>9. "broken" \notin {w[i] : i \in DOMAIN w}
    BY <2>8
  <2> QED
    BY <2>4, <2>6, <2>9 DEF ToSet
<1> QED
  BY <1>3, <1>4

LEMMA ReturnedIs ==
    ASSUME NEW V, V \in Seq(Text), Len(V) = 10, \A k \in 1 .. 10 : Clean(V[k])
    PROVE  Returned(V) = [k \in 1 .. 10 |-> trim(V[k])]
<1>1. PICK C : C = Columns(V)
  OBVIOUS
<1>2. DOMAIN V = 1 .. 10
  OBVIOUS
<1>3. C = [k \in 1 .. 10 |-> trim(V[k])]
  BY <1>1, <1>2 DEF Columns
<1>4. DOMAIN C = 1 .. 10 /\ Len(C) = 10
  BY <1>3
<1>5. ASSUME NEW k \in DOMAIN C PROVE "broken" \notin ToSet(C[k])
  <2>1. C[k] = trim(V[k]) /\ Clean(V[k])
    BY <1>3, <1>4
  <2>2. PICK t : t = V[k]
    OBVIOUS
  <2>3. "broken" \notin ToSet(trim(t))
    BY <2>1, <2>2, TrimIsClean
  <2> QED
    BY <2>1, <2>2, <2>3
<1>6. Returned(V) = IF Len(C) < 5 \/ \E k \in DOMAIN C : "broken" \in ToSet(C[k]) THEN NONE ELSE C
  BY <1>1 DEF Returned
<1>7. ~(Len(C) < 5) /\ ~ \E k \in DOMAIN C : "broken" \in ToSet(C[k])
  <2>1. ~(Len(C) < 5)
    BY <1>4
  <2> QED
    BY <1>5, <2>1
<1>8. Returned(V) = C
  BY <1>6, <1>7, Zenon
<1> QED
  BY <1>3, <1>8

\* The ten columns of a profile.
LEMMA Ten ==
    ASSUME NEW p, p \in Text, NEW x, x \in Text, NEW y, y \in Text,
           NEW s, s = <<p, x, p, p, p, p, p, y, p, p>>
    PROVE  /\ s \in Seq(Text) /\ Len(s) = 10 /\ s[2] = x /\ s[8] = y
           /\ \A k \in 1 .. 10 : k \notin {2, 8} => s[k] = p
OBVIOUS

LEMMA ExportIsRow ==
    ASSUME NEW name, NEW country, Clean(name), Clean(country)
    PROVE  parseCsvLine(exported(name, country)) = [k \in 1 .. 10 |-> trim(Stored(name, country)[k])]
<1>1. PICK p, V, W, P :
        /\ p = Plain /\ V = Stored(name, country) /\ W = written(name, country)
        /\ P = [k \in 1 .. 10 |-> IF k = 1 THEN W[1] ELSE <<"comma">> \o W[k]]
  OBVIOUS
<1>2. PICK x, y : x = quoted(name) /\ y = quoted(country)
  OBVIOUS
<1>3. name \in Text /\ country \in Text
  BY DEF Clean
<1>4. x \in Text /\ y \in Text
  BY <1>2, <1>3, QuotedIsText
<1>5. p = <<"letter">> /\ p \in Text /\ Clean(p)
  BY <1>1 DEF Plain, Text, Clean
<1>6. /\ V = <<p, name, p, p, p, p, p, country, p, p>>
      /\ W = <<p, x, p, p, p, p, p, y, p, p>>
  BY <1>1, <1>2 DEF Stored, written
<1>7. p \in Text
  BY <1>5
<1>8. V \in Seq(Text) /\ Len(V) = 10 /\ V[2] = name /\ V[8] = country
  BY <1>3, <1>6, <1>7, Ten
<1>9. \A k \in 1 .. 10 : k \notin {2, 8} => V[k] = p
  BY <1>3, <1>6, <1>7, Ten
<1>10. W \in Seq(Text) /\ Len(W) = 10 /\ W[2] = x /\ W[8] = y
  BY <1>4, <1>6, <1>7, Ten
<1>11. \A k \in 1 .. 10 : k \notin {2, 8} => W[k] = p
  BY <1>4, <1>6, <1>7, Ten
<1>12. ASSUME NEW k \in 1 .. 10 PROVE Cell(W[k], V[k]) /\ Clean(V[k])
  <2>1. CASE k = 2
    BY <1>2, <1>3, <1>4, <1>8, <1>10, <2>1 DEF Cell
  <2>2. CASE k = 8
    BY <1>2, <1>3, <1>4, <1>8, <1>10, <2>2 DEF Cell
  <2>3. CASE k \notin {2, 8}
    BY <1>5, <1>9, <1>11, <2>3 DEF Cell
  <2> QED
    BY <2>1, <2>2, <2>3
<1>13. \A k \in 1 .. 10 : W[k] \in Text
  BY <1>12 DEF Cell
<1>14. ASSUME NEW k \in 1 .. 10 PROVE <<"comma">> \o W[k] \in Text
  <2>1. PICK c, w : c = <<"comma">> /\ w = W[k]
    OBVIOUS
  <2>2. c \in Text
    BY <2>1 DEF Text
  <2>3. w \in Text
    BY <1>13, <2>1
  <2>4. c \o w \in Text
    BY <2>2, <2>3, Joined
  <2> QED
    BY <2>1, <2>4
<1>15. P \in Seq(Text) /\ Len(P) = 10
  BY <1>1, <1>13, <1>14
<1>16. P[1] = W[1] /\ \A k \in 2 .. 10 : P[k] = <<"comma">> \o W[k]
  <2>1. \A k \in 2 .. 10 : k \in 1 .. 10 /\ k # 1
    OBVIOUS
  <2>2. \A k \in 1 .. 10 : P[k] = IF k = 1 THEN W[1] ELSE <<"comma">> \o W[k]
    BY <1>1
  <2>3. P[1] = W[1]
    BY <2>2
  <2> QED
    BY <2>1, <2>2, <2>3
<1>17. Row(V, W, P, 10)
  <2>1. \A k \in 1 .. 10 : Cell(W[k], V[k])
    BY <1>12
  <2>2. V \in Seq(Text) /\ Len(V) = 10 /\ 10 \in Nat \ {0}
    BY <1>8
  <2> QED
    BY <1>15, <1>16, <2>1, <2>2 DEF Row
<1>18. exported(name, country) = FlattenSeq(P)
  BY <1>1 DEF exported
<1>19. parseCsvLine(FlattenSeq(P)) = Returned(V)
  BY <1>17, RowIsParsed
<1>20. Returned(V) = [k \in 1 .. 10 |-> trim(V[k])]
  BY <1>8, <1>12, ReturnedIs
<1> QED
  BY <1>1, <1>18, <1>19, <1>20

\* profiles.controller.ts:149-165 (the export quotes the names of people and of
\* countries and doubles their quotes) and parseCsvLine: whatever the table comes to
\* hold, a line of the export is read as its ten columns, each but for the spaces
\* around it, and none of them moves into another.
THEOREM ExportedLinesAreReadBack == Spec => []ExportedLineIsReadBack
<1>1. TypeOK => ExportedLineIsReadBack
  <2> SUFFICES ASSUME TypeOK, NEW name \in profiles, NEW country \in Countries
               PROVE  ReadBack[name][country] = [k \in 1 .. 10 |-> trim(Stored(name, country)[k])]
    BY DEF ExportedLineIsReadBack
  <2>1. name \in Names
    BY DEF TypeOK
  <2>2. Clean(name) /\ Clean(country)
    BY <2>1, TextsAssumption DEF Clean
  <2>3. ReadBack[name][country] = parseCsvLine(exported(name, country))
    BY <2>1 DEF ReadBack
  <2> QED
    BY <2>2, <2>3, ExportIsRow
<1> QED
  BY <1>1, TypeCorrect, PTL

=============================================================================
