--------------------------- MODULE FunctionProofs ---------------------------
(***************************************************************************)
(* Theorems about the modules that are functions, for every input: the     *)
(* chunks of a document, the forecasts and alerts of readings, the tools   *)
(* of a question.  What a recursive function computes is proved by         *)
(* induction over the natural numbers.  The library states induction with  *)
(* an operator for a parameter, which the provers cannot instantiate, so   *)
(* it is stated of sets here, and derived from the theorem that a          *)
(* well-founded order has minimal elements.                                *)
(***************************************************************************)
EXTENDS Chunker, Statistics, AgentCalls, FiniteSetTheorems, SequenceTheorems,
        WellFoundedInduction, TLAPS

-----------------------------------------------------------------------------
(* Induction and recursion over the natural numbers, stated of sets        *)

\* The order of the natural numbers is well-founded, as a set of pairs.
LEMMA OrderOfNat ==
  \E R : IsWellFoundedOn(R, Nat) /\ \A x, y \in Nat : x < y => <<x, y>> \in R
<1>1. IsWellFoundedOn({p \in Nat \X Nat : p[1] < p[2]}, Nat)
  BY NatLessThanWellFounded DEF OpToRel
<1>2. \A x, y \in Nat : x < y => <<x, y>> \in {p \in Nat \X Nat : p[1] < p[2]}
  OBVIOUS
<1> QED BY <1>1, <1>2

\* The theorem of the library on minimal elements, with nothing else in sight.
LEMMA LeastOf ==
  ASSUME NEW R, IsWellFoundedOn(R, Nat), NEW T, T \subseteq Nat, T # {}
  PROVE  \E x \in T : \A y \in T : ~ (<<y, x>> \in R)
  BY WFMin

\* Every set of natural numbers that is not empty has a least one.
LEMMA LeastNumber ==
  ASSUME NEW T, T \subseteq Nat, T # {}
  PROVE  \E x \in T : \A y \in T : x <= y
<1>1. PICK R : IsWellFoundedOn(R, Nat) /\ \A x, y \in Nat : x < y => <<x, y>> \in R
  BY OrderOfNat
<1>2. PICK x \in T : \A y \in T : ~ (<<y, x>> \in R)
  BY <1>1, LeastOf
<1>3. ASSUME NEW y \in T PROVE x <= y
  <2>1. x \in Nat /\ y \in Nat
    OBVIOUS
  <2>2. ~ (y < x)
    BY <1>1, <1>2, <2>1
  <2> QED BY <2>1, <2>2
<1> QED BY <1>3

\* Induction: a set with 0 and the successor of each of its numbers has them all.
LEMMA EveryNatural ==
  ASSUME NEW S, 0 \in S, \A n \in Nat : n \in S => n + 1 \in S
  PROVE  Nat \subseteq S
<1> SUFFICES ASSUME Nat \ S # {} PROVE FALSE
  OBVIOUS
<1>1. PICK x \in Nat \ S : \A y \in Nat \ S : x <= y
  BY LeastNumber
<1>2. x # 0 /\ x - 1 \in Nat
  BY <1>1
<1>3. x - 1 \in S
  BY <1>1, <1>2
<1> QED BY <1>1, <1>2, <1>3

\* What a function defined by recursion over 0 .. n goes through
Rules(n, St) == [1 .. n -> [St -> St]]
IsRun(g, n, St, a, rule) ==
  g \in [0 .. n -> St] /\ g[0] = a /\ \A i \in 1 .. n : g[i] = rule[i][g[i - 1]]

\* There is a run of any rules: the recursive definitions below define something.
LEMMA RunExists ==
  ASSUME NEW n \in Nat, NEW St, NEW a \in St, NEW rule \in Rules(n, St)
  PROVE  \E g : IsRun(g, n, St, a, rule)
<1> DEFINE Goes(g, m) == g \in [0 .. m -> St] /\ g[0] = a /\ \A i \in 1 .. m : g[i] = rule[i][g[i - 1]]
           S == {m \in Nat : m <= n => \E g : Goes(g, m)}
<1>1. 0 \in S
  <2> DEFINE g == [i \in 0 .. 0 |-> a]
  <2>1. Goes(g, 0)
    OBVIOUS
  <2> HIDE DEF g, Goes
  <2> QED BY <2>1
<1>2. ASSUME NEW m \in Nat, m \in S PROVE m + 1 \in S
  <2> SUFFICES ASSUME m + 1 <= n PROVE \E g : Goes(g, m + 1)
    OBVIOUS
  <2>1. PICK g : Goes(g, m)
    BY <1>2
  <2> DEFINE h == [i \in 0 .. m + 1 |-> IF i = m + 1 THEN rule[m + 1][g[m]] ELSE g[i]]
  <2>2. rule[m + 1][g[m]] \in St
    <3>1. m + 1 \in 1 .. n /\ g[m] \in St
      BY <2>1
    <3>2. rule[m + 1] \in [St -> St]
      BY <3>1 DEF Rules
    <3> QED BY <3>1, <3>2
  <2>3. h \in [0 .. m + 1 -> St]
    <3>1. ASSUME NEW i \in 0 .. m + 1 PROVE h[i] \in St
      BY <2>1, <2>2
    <3> QED BY <3>1
  <2>4. h[0] = a
    BY <2>1
  <2>5. ASSUME NEW i \in 1 .. m + 1 PROVE h[i] = rule[i][h[i - 1]]
    <3>1. CASE i = m + 1
      <4>1. h[i] = rule[i][g[m]] /\ h[i - 1] = g[m]
        BY <3>1
      <4> QED BY <4>1
    <3>2. CASE i # m + 1
      <4>1. i \in 1 .. m
        BY <3>2
      <4>2. h[i] = g[i] /\ h[i - 1] = g[i - 1]
        BY <4>1
      <4> QED BY <2>1, <4>1, <4>2
    <3> QED BY <3>1, <3>2
  <2> HIDE DEF h
  <2>6. Goes(h, m + 1)
    BY <2>3, <2>4, <2>5
  <2> HIDE DEF Goes
  <2> QED BY <2>6
<1>3. n \in S
  <2> HIDE DEF S
  <2> QED BY <1>1, <1>2, EveryNatural
<1> QED BY <1>3 DEF IsRun

\* A function with the equations of a run is one
LEMMA RunOfEquations ==
  ASSUME NEW n \in Nat, NEW St, NEW a \in St, NEW rule \in Rules(n, St), NEW f,
         f = [i \in 0 .. n |-> f[i]], f[0] = a,
         \A i \in 1 .. n : f[i - 1] \in St => f[i] = rule[i][f[i - 1]]
  PROVE  IsRun(f, n, St, a, rule)
<1> DEFINE S == {i \in Nat : i <= n => f[i] \in St}
<1>1. 0 \in S
  OBVIOUS
<1>2. ASSUME NEW i \in Nat, i \in S PROVE i + 1 \in S
  <2> SUFFICES ASSUME i + 1 <= n PROVE f[i + 1] \in St
    OBVIOUS
  <2>1. i + 1 \in 1 .. n /\ f[i] \in St /\ (i + 1) - 1 = i
    BY <1>2
  <2>2. rule[i + 1] \in [St -> St]
    BY <2>1 DEF Rules
  <2>3. f[i + 1] = rule[i + 1][f[i]]
    BY <2>1
  <2> QED BY <2>1, <2>2, <2>3
<1>3. Nat \subseteq S
  <2> HIDE DEF S
  <2> QED BY <1>1, <1>2, EveryNatural
<1>4. \A i \in 0 .. n : f[i] \in St
  BY <1>3
<1>5. f \in [0 .. n -> St]
  BY <1>4
<1>6. ASSUME NEW i \in 1 .. n PROVE f[i] = rule[i][f[i - 1]]
  <2>1. i - 1 \in 0 .. n
    OBVIOUS
  <2>2. f[i - 1] \in St
    BY <1>4, <2>1
  <2> QED BY <2>2
<1> QED BY <1>5, <1>6 DEF IsRun

-----------------------------------------------------------------------------
(* Tokens                                                                  *)

Sentence == [page : Nat, at : Nat, size : Nat]
Sizes(s) == [i \in 1 .. Len(s) |-> [x \in Nat |-> x + s[i].size]]

\* The sizes of sentences are numbers.
LEMMA SizesAreNumbers ==
  ASSUME NEW s \in Seq(Sentence)
  PROVE  Len(s) \in Nat /\ \A i \in 1 .. Len(s) : s[i].size \in Nat
<1>1. \A i \in 1 .. Len(s) : s[i] \in Sentence
  OBVIOUS
<1> QED BY <1>1 DEF Sentence

\* The sum is the one the definition writes down
LEMMA TokensSum ==
  ASSUME NEW s \in Seq(Sentence)
  PROVE  \E g : IsRun(g, Len(s), Nat, 0, Sizes(s)) /\ Tokens(s) = g[Len(s)]
<1> DEFINE Sums(g) == g = [i \in 0 .. Len(s) |-> IF i = 0 THEN 0 ELSE g[i - 1] + s[i].size]
<1>0. Len(s) \in Nat /\ \A i \in 1 .. Len(s) : s[i].size \in Nat
  BY SizesAreNumbers
<1>1. Sizes(s) \in Rules(Len(s), Nat)
  BY <1>0 DEF Sizes, Rules
<1>2. PICK g : IsRun(g, Len(s), Nat, 0, Sizes(s))
  BY <1>0, <1>1, RunExists, Zenon
<1>3. ASSUME NEW i \in 0 .. Len(s), i # 0 PROVE g[i] = g[i - 1] + s[i].size
  <2>1. i \in 1 .. Len(s) /\ g[i - 1] \in Nat
    BY <1>0, <1>2, <1>3 DEF IsRun
  <2> QED BY <1>2, <2>1 DEF IsRun, Sizes
<1>4. Sums(g)
  BY <1>2, <1>3 DEF IsRun
<1> DEFINE f == CHOOSE h : Sums(h)
<1>5. Sums(f)
  <2> HIDE DEF Sums
  <2> QED BY <1>4
<1>6. Tokens(s) = f[Len(s)]
  BY DEF Tokens
<1> HIDE DEF f
<1>7. f[0] = 0 /\ \A i \in 1 .. Len(s) : f[i] = f[i - 1] + s[i].size
  BY <1>0, <1>5
<1>8. \A i \in 1 .. Len(s) : f[i - 1] \in Nat => f[i] = Sizes(s)[i][f[i - 1]]
  BY <1>0, <1>7 DEF Sizes
<1>9. f = [i \in 0 .. Len(s) |-> f[i]]
  BY <1>5
<1>10. IsRun(f, Len(s), Nat, 0, Sizes(s))
  BY <1>0, <1>1, <1>7, <1>8, <1>9, RunOfEquations, Zenon
<1> QED BY <1>6, <1>10

\* A sum of sizes is a number.
LEMMA TokensAreNumbers ==
  ASSUME NEW s \in Seq(Sentence)
  PROVE  Tokens(s) \in Nat
<1>1. PICK g : IsRun(g, Len(s), Nat, 0, Sizes(s)) /\ Tokens(s) = g[Len(s)]
  BY TokensSum
<1> QED BY <1>1, SizesAreNumbers DEF IsRun

\* Nothing collected has no tokens.
LEMMA NoTokens == Tokens(<< >>) = 0
<1>1. << >> \in Seq(Sentence) /\ Len(<< >>) = 0
  OBVIOUS
<1>2. PICK g : IsRun(g, Len(<< >>), Nat, 0, Sizes(<< >>)) /\ Tokens(<< >>) = g[Len(<< >>)]
  BY <1>1, TokensSum
<1> QED BY <1>1, <1>2 DEF IsRun

\* A sentence more adds its size
LEMMA TokensAppend ==
  ASSUME NEW s \in Seq(Sentence), NEW t \in Sentence
  PROVE  Tokens(Append(s, t)) = Tokens(s) + t.size
<1> DEFINE u == Append(s, t)
<1>0. /\ u \in Seq(Sentence) /\ Len(u) = Len(s) + 1 /\ u[Len(s) + 1] = t
      /\ Len(s) \in Nat /\ \A i \in 1 .. Len(s) : u[i] = s[i]
  OBVIOUS
<1> HIDE DEF u
<1>1. PICK g : IsRun(g, Len(s), Nat, 0, Sizes(s)) /\ Tokens(s) = g[Len(s)]
  BY TokensSum
<1>2. PICK h : IsRun(h, Len(u), Nat, 0, Sizes(u)) /\ Tokens(u) = h[Len(u)]
  BY <1>0, TokensSum
<1>3. /\ \A i \in 1 .. Len(s) : g[i] = g[i - 1] + s[i].size
      /\ \A i \in 1 .. Len(s) + 1 : h[i] = h[i - 1] + u[i].size
  <2>1. ASSUME NEW i \in 1 .. Len(s) PROVE g[i] = g[i - 1] + s[i].size
    <3>1. g[i - 1] \in Nat
      BY <1>0, <1>1 DEF IsRun
    <3> QED BY <1>1, <3>1 DEF IsRun, Sizes
  <2>2. ASSUME NEW i \in 1 .. Len(s) + 1 PROVE h[i] = h[i - 1] + u[i].size
    <3>1. i \in 1 .. Len(u) /\ i - 1 \in 0 .. Len(u)
      BY <1>0
    <3>2. h[i - 1] \in Nat /\ h[i] = Sizes(u)[i][h[i - 1]]
      BY <1>2, <3>1 DEF IsRun
    <3> QED BY <3>1, <3>2 DEF Sizes
  <2> QED BY <2>1, <2>2
<1> DEFINE S == {i \in Nat : i <= Len(s) => g[i] = h[i]}
<1>4. 0 \in S
  BY <1>1, <1>2 DEF IsRun
<1>5. ASSUME NEW i \in Nat, i \in S PROVE i + 1 \in S
  <2> SUFFICES ASSUME i + 1 <= Len(s) PROVE g[i + 1] = h[i + 1]
    OBVIOUS
  <2>1. i + 1 \in 1 .. Len(s) /\ i + 1 \in 1 .. Len(s) + 1 /\ (i + 1) - 1 = i /\ g[i] = h[i]
    BY <1>0, <1>5
  <2>2. g[i + 1] = g[i] + s[i + 1].size /\ h[i + 1] = h[i] + s[i + 1].size
    BY <1>0, <1>3, <2>1
  <2> QED BY <2>1, <2>2
<1>6. Nat \subseteq S
  <2> HIDE DEF S
  <2> QED BY <1>4, <1>5, EveryNatural
<1>7. g[Len(s)] = h[Len(s)]
  BY <1>0, <1>6
<1>8. h[Len(s) + 1] = h[Len(s)] + t.size
  <2>1. Len(s) + 1 \in 1 .. Len(s) + 1 /\ (Len(s) + 1) - 1 = Len(s)
    BY <1>0
  <2> QED BY <1>0, <1>3, <2>1
<1> QED BY <1>0, <1>1, <1>2, <1>7, <1>8 DEF u

-----------------------------------------------------------------------------
(* The carry                                                               *)

IsTail(tail, s) ==
  \E d \in 0 .. Len(s) :
    Len(tail) = Len(s) - d /\ \A i \in 1 .. Len(tail) : tail[i] = s[i + d]

\* What SubSeq returns up to the end is a tail.
LEMMA TailsOf ==
  ASSUME NEW s \in Seq(Sentence), NEW i \in 1 .. Len(s) + 1
  PROVE  /\ SubSeq(s, i, Len(s)) \in Seq(Sentence)
         /\ Len(SubSeq(s, i, Len(s))) = Len(s) + 1 - i
         /\ IsTail(SubSeq(s, i, Len(s)), s)
<1>1. Len(s) \in Nat /\ i \in Nat
  OBVIOUS
<1>2. /\ SubSeq(s, i, Len(s)) \in Seq(Sentence)
      /\ Len(SubSeq(s, i, Len(s))) = IF i <= Len(s) THEN Len(s) - i + 1 ELSE 0
      /\ \A j \in 1 .. Len(s) - i + 1 : SubSeq(s, i, Len(s))[j] = s[i + j - 1]
  BY <1>1, SubSeqProperties
<1>3. Len(SubSeq(s, i, Len(s))) = Len(s) + 1 - i
  BY <1>1, <1>2
<1>4. i - 1 \in 0 .. Len(s) /\ Len(SubSeq(s, i, Len(s))) = Len(s) - (i - 1)
  BY <1>1, <1>3
<1>5. ASSUME NEW j \in 1 .. Len(SubSeq(s, i, Len(s)))
      PROVE  SubSeq(s, i, Len(s))[j] = s[j + (i - 1)]
  BY <1>1, <1>2, <1>3
<1> QED BY <1>2, <1>3, <1>4, <1>5 DEF IsTail

\* The carry exists: it is a tail of the chunk, and within the overlap.
LEMMA CarryIsTail ==
  ASSUME NEW s \in Seq(Sentence)
  PROVE  Carry(s) \in Seq(Sentence) /\ IsTail(Carry(s), s) /\ Tokens(Carry(s)) <= Overlap
<1>0. Overlap \in Nat /\ Len(s) \in Nat
  BY ChunkerAssumption
<1>1. CASE s = << >> \/ Tokens(s) <= Overlap
  <2>1. Carry(s) = s
    BY <1>1 DEF Carry
  <2>2. Tokens(s) <= Overlap
    BY <1>0, <1>1, NoTokens
  <2>3. IsTail(s, s)
    BY <1>0 DEF IsTail
  <2> QED BY <2>1, <2>2, <2>3
<1>2. CASE s # << >> /\ ~ (Tokens(s) <= Overlap)
  <2> DEFINE From(i) == SubSeq(s, i, Len(s))
             T == {i \in 2 .. Len(s) + 1 : Tokens(From(i)) <= Overlap}
             Tails == {From(i) : i \in 2 .. Len(s) + 1}
             Fits(tail) == /\ Tokens(tail) <= Overlap
                           /\ Tokens(SubSeq(s, Len(s) - Len(tail), Len(s))) > Overlap
  <2>1. Len(s) + 1 \in T
    <3>1. Len(s) + 1 \in 2 .. Len(s) + 1 /\ Len(s) + 1 \in 1 .. Len(s) + 1
      BY <1>0, <1>2
    <3>2. From(Len(s) + 1) \in Seq(Sentence) /\ Len(From(Len(s) + 1)) = 0
      BY <1>0, <3>1, TailsOf
    <3>3. From(Len(s) + 1) = << >>
      BY <3>2
    <3>4. Tokens(From(Len(s) + 1)) = 0
      <4> HIDE DEF From
      <4> QED BY <3>3, NoTokens, Zenon
    <3> QED BY <1>0, <3>1, <3>4
  <2>2. PICK i \in T : \A j \in T : i <= j
    <3>1. T \subseteq Nat
      BY <1>0
    <3> HIDE DEF T
    <3> QED BY <2>1, <3>1, LeastNumber
  <2>3. i \in 2 .. Len(s) + 1 /\ Tokens(From(i)) <= Overlap
    OBVIOUS
  <2>4. Len(s) - Len(From(i)) = i - 1
    BY <1>0, <2>3, TailsOf
  <2>5. Tokens(From(i - 1)) > Overlap
    <3>1. i - 1 \in 1 .. Len(s) + 1
      BY <1>0, <2>3
    <3>2. Tokens(From(i - 1)) \in Nat
      BY <3>1, TailsOf, TokensAreNumbers
    <3>3. CASE i - 1 = 1
      <4>1. From(1) = s
        BY <1>0
      <4>2. Tokens(s) \in Nat
        BY TokensAreNumbers
      <4>3. Tokens(From(i - 1)) = Tokens(s)
        <5> HIDE DEF From
        <5> QED BY <3>3, <4>1, Zenon
      <4> HIDE DEF From
      <4> QED BY <1>0, <1>2, <4>2, <4>3
    <3>4. CASE i - 1 # 1
      <4>1. i - 1 \in 2 .. Len(s) + 1 /\ i - 1 \notin T
        BY <1>0, <2>2, <2>3, <3>1, <3>4
      <4> QED BY <1>0, <3>2, <4>1
    <3> QED BY <3>3, <3>4
  <2>6. From(i) \in Tails /\ Fits(From(i))
    BY <2>3, <2>4, <2>5
  <2>7. Carry(s) = CHOOSE tail \in Tails : Fits(tail)
    BY <1>2 DEF Carry
  <2>8. Carry(s) \in Tails /\ Fits(Carry(s))
    <3> HIDE DEF Tails, Fits
    <3> QED BY <2>6, <2>7
  <2>9. PICK j \in 2 .. Len(s) + 1 : Carry(s) = From(j)
    BY <2>8
  <2> QED BY <1>0, <2>8, <2>9, TailsOf
<1> QED BY <1>1, <1>2

-----------------------------------------------------------------------------
(* Chunks                                                                  *)

Chunk == [index : Nat, sentences : Seq(Sentence)]
Bound == ChunkSize + Max({Overlap, 1})

InOrder(s) ==
  \A i, j \in DOMAIN s : s[i].page = s[j].page /\ (i < j => s[i].at < s[j].at)
Fits(s) == Len(s) > 1 => Tokens(s) < Bound
GoodChunks(chunks) ==
  /\ chunks \in Seq(Chunk)
  /\ \A n \in DOMAIN chunks :
       chunks[n].index = n - 1 /\ InOrder(chunks[n].sentences) /\ Fits(chunks[n].sentences)
Held(x, chunks) == \E n \in DOMAIN chunks : x \in ToSet(chunks[n].sentences)

\* The bound is above the size of a chunk, and a carry and one sentence fit it.
LEMMA BoundIsEnough ==
  /\ ChunkSize \in Nat \ {0} /\ Overlap \in Nat /\ Bound \in Nat
  /\ ChunkSize < Bound /\ ChunkSize + Overlap <= Bound
<1>1. ChunkSize \in Nat \ {0} /\ Overlap \in Nat
  BY ChunkerAssumption
<1>2. Max({Overlap, 1}) \in {Overlap, 1} /\ \A y \in {Overlap, 1} : Max({Overlap, 1}) >= y
  <2> DEFINE IsMax(x) == \A y \in {Overlap, 1} : x >= y
  <2>1. \E x \in {Overlap, 1} : IsMax(x)
    BY <1>1
  <2>2. Max({Overlap, 1}) = CHOOSE x \in {Overlap, 1} : IsMax(x)
    BY DEF Max
  <2>3. Max({Overlap, 1}) \in {Overlap, 1} /\ IsMax(Max({Overlap, 1}))
    <3> HIDE DEF IsMax
    <3> QED BY <2>1, <2>2
  <2> QED BY <2>3
<1> QED BY <1>1, <1>2 DEF Bound

\* A good chunk more leaves good chunks, and loses nothing.
LEMMA AppendedChunks ==
  ASSUME NEW chunks, GoodChunks(chunks), NEW s \in Seq(Sentence), InOrder(s), Fits(s)
  PROVE  /\ GoodChunks(Appended(chunks, s))
         /\ \A x : Held(x, chunks) \/ x \in ToSet(s) => Held(x, Appended(chunks, s))
<1>0. chunks \in Seq(Chunk) /\ Len(chunks) \in Nat
  BY DEF GoodChunks
<1>1. CASE s = << >>
  <2>1. Appended(chunks, s) = chunks /\ ToSet(s) = {}
    BY <1>1 DEF Appended, ToSet
  <2> QED BY <2>1
<1>2. CASE s # << >>
  <2> DEFINE c == [index |-> Len(chunks), sentences |-> s]
             more == Append(chunks, c)
  <2>1. Appended(chunks, s) = more
    BY <1>2 DEF Appended
  <2>2. c \in Chunk
    BY <1>0 DEF Chunk
  <2>3. /\ more \in Seq(Chunk) /\ DOMAIN more = 1 .. Len(chunks) + 1
        /\ more[Len(chunks) + 1] = c
        /\ \A n \in 1 .. Len(chunks) : more[n] = chunks[n]
        /\ DOMAIN chunks = 1 .. Len(chunks)
    <3> HIDE DEF c
    <3> QED BY <1>0, <2>2
  <2>4. c.index = Len(chunks) /\ c.sentences = s
    OBVIOUS
  <2> HIDE DEF c, more
  <2>5. ASSUME NEW n \in DOMAIN more
        PROVE  more[n].index = n - 1 /\ InOrder(more[n].sentences) /\ Fits(more[n].sentences)
    <3>1. CASE n = Len(chunks) + 1
      BY <1>0, <2>3, <2>4, <3>1
    <3>2. CASE n # Len(chunks) + 1
      <4>1. n \in DOMAIN chunks /\ more[n] = chunks[n]
        BY <1>0, <2>3, <3>2
      <4> QED BY <4>1 DEF GoodChunks
    <3> QED BY <3>1, <3>2
  <2>6. GoodChunks(more)
    BY <2>3, <2>5 DEF GoodChunks
  <2>7. ASSUME NEW x, Held(x, chunks) PROVE Held(x, more)
    <3>1. PICK n \in DOMAIN chunks : x \in ToSet(chunks[n].sentences)
      BY <2>7 DEF Held
    <3>2. n \in DOMAIN more /\ more[n] = chunks[n]
      BY <1>0, <2>3
    <3> QED BY <3>1, <3>2 DEF Held
  <2>8. ASSUME NEW x \in ToSet(s) PROVE Held(x, more)
    <3>1. Len(chunks) + 1 \in DOMAIN more
      BY <1>0, <2>3
    <3>2. x \in ToSet(more[Len(chunks) + 1].sentences)
      BY <2>3, <2>4
    <3> QED BY <3>1, <3>2 DEF Held
  <2> QED BY <2>1, <2>6, <2>7, <2>8
<1> QED BY <1>1, <1>2

\* What has been collected of page p when i of its sentences are taken
Collected(s, p, i) ==
  /\ s \in Seq(Sentence)
  /\ Tokens(s) < Bound
  /\ \A k \in 1 .. Len(s) : s[k].page = p /\ s[k].at \in Nat /\ s[k].at <= i
  /\ \A j, k \in 1 .. Len(s) : j < k => s[j].at < s[k].at

\* What is collected may be flushed as a chunk.
LEMMA CollectedIsAChunk ==
  ASSUME NEW s, NEW p, NEW i, Collected(s, p, i)
  PROVE  InOrder(s) /\ Fits(s)
<1>1. s \in Seq(Sentence) /\ DOMAIN s = 1 .. Len(s)
  BY DEF Collected
<1> QED BY <1>1 DEF Collected, InOrder, Fits

\* The carry may go on being collected.
LEMMA CarryIsCollected ==
  ASSUME NEW s, NEW p, NEW i \in Nat, Collected(s, p, i)
  PROVE  Collected(Carry(s), p, i)
<1>1. s \in Seq(Sentence) /\ Len(s) \in Nat
  BY DEF Collected
<1>2. Carry(s) \in Seq(Sentence) /\ Tokens(Carry(s)) <= Overlap /\ IsTail(Carry(s), s)
  BY <1>1, CarryIsTail
<1>3. PICK d \in 0 .. Len(s) :
        Len(Carry(s)) = Len(s) - d /\ \A k \in 1 .. Len(Carry(s)) : Carry(s)[k] = s[k + d]
  BY <1>2 DEF IsTail
<1>4. Tokens(Carry(s)) < Bound
  <2>1. Tokens(Carry(s)) \in Nat
    BY <1>2, TokensAreNumbers
  <2> QED BY <1>2, <2>1, BoundIsEnough
<1>5. ASSUME NEW k \in 1 .. Len(Carry(s)) PROVE k + d \in 1 .. Len(s) /\ Carry(s)[k] = s[k + d]
  BY <1>1, <1>3
<1>6. ASSUME NEW k \in 1 .. Len(Carry(s))
      PROVE  Carry(s)[k].page = p /\ Carry(s)[k].at \in Nat /\ Carry(s)[k].at <= i
  BY <1>5 DEF Collected
<1>7. ASSUME NEW j \in 1 .. Len(Carry(s)), NEW k \in 1 .. Len(Carry(s)), j < k
      PROVE  Carry(s)[j].at < Carry(s)[k].at
  <2>1. j + d < k + d
    BY <1>3, <1>7
  <2> QED BY <1>5, <2>1 DEF Collected
<1> QED BY <1>2, <1>4, <1>6, <1>7 DEF Collected

\* So may the next sentence of the page.
LEMMA NextIsCollected ==
  ASSUME NEW s, NEW p, NEW i \in Nat, Collected(s, p, i),
         NEW t \in Sentence, t.page = p, t.at = i + 1, Tokens(s) + t.size < Bound
  PROVE  /\ Collected(Append(s, t), p, i + 1)
         /\ ToSet(Append(s, t)) = ToSet(s) \cup {t}
<1> DEFINE u == Append(s, t)
<1>1. s \in Seq(Sentence) /\ Len(s) \in Nat
  BY DEF Collected
<1>2. /\ u \in Seq(Sentence) /\ Len(u) = Len(s) + 1 /\ u[Len(s) + 1] = t
      /\ \A k \in 1 .. Len(s) : u[k] = s[k]
      /\ DOMAIN u = 1 .. Len(s) + 1 /\ DOMAIN s = 1 .. Len(s)
  BY <1>1
<1>3. Tokens(u) < Bound
  BY <1>1, TokensAppend
<1> HIDE DEF u
<1>4. ASSUME NEW k \in 1 .. Len(u), k # Len(s) + 1
      PROVE  k \in 1 .. Len(s) /\ u[k] = s[k]
  <2>1. k \in 1 .. Len(s)
    BY <1>1, <1>2, <1>4
  <2> QED BY <1>2, <2>1
<1>5. ASSUME NEW k \in 1 .. Len(u)
      PROVE  u[k].page = p /\ u[k].at \in Nat /\ u[k].at <= i + 1
  <2>1. CASE k = Len(s) + 1
    BY <1>2, <2>1
  <2>2. CASE k # Len(s) + 1
    BY <1>4, <2>2 DEF Collected
  <2> QED BY <2>1, <2>2
<1>6. ASSUME NEW j \in 1 .. Len(u), NEW k \in 1 .. Len(u), j < k PROVE u[j].at < u[k].at
  <2>1. j # Len(s) + 1
    BY <1>1, <1>2, <1>6
  <2>2. j \in 1 .. Len(s) /\ u[j] = s[j]
    BY <1>4, <2>1
  <2>3. CASE k = Len(s) + 1
    BY <1>2, <2>2, <2>3 DEF Collected
  <2>4. CASE k # Len(s) + 1
    BY <1>4, <1>6, <2>2, <2>4 DEF Collected
  <2> QED BY <2>3, <2>4
<1>7. Collected(u, p, i + 1)
  BY <1>2, <1>3, <1>5, <1>6 DEF Collected
<1>8. ToSet(u) = ToSet(s) \cup {t}
  <2>1. ASSUME NEW x \in ToSet(u) PROVE x \in ToSet(s) \cup {t}
    <3>1. PICK k \in 1 .. Len(u) : x = u[k]
      BY <1>2 DEF ToSet
    <3>2. CASE k = Len(s) + 1
      BY <1>2, <3>1, <3>2
    <3>3. CASE k # Len(s) + 1
      BY <1>2, <1>4, <3>1, <3>3 DEF ToSet
    <3> QED BY <3>2, <3>3
  <2>2. ASSUME NEW x \in ToSet(s) PROVE x \in ToSet(u)
    <3>1. PICK k \in 1 .. Len(s) : x = s[k]
      BY <1>2 DEF ToSet
    <3>2. k \in DOMAIN u /\ u[k] = x
      BY <1>1, <1>2, <3>1
    <3> QED BY <3>2 DEF ToSet
  <2>3. t \in ToSet(u)
    <3>1. Len(s) + 1 \in DOMAIN u
      BY <1>1, <1>2
    <3> QED BY <1>2, <3>1 DEF ToSet
  <2> QED BY <2>1, <2>2, <2>3
<1> QED BY <1>7, <1>8 DEF u

-----------------------------------------------------------------------------
(* The sentences of a page, one after the other                            *)

State == [chunks : Seq(Chunk), cur : Seq(Sentence)]

Going(state, p, i) ==
  /\ state = [chunks |-> state.chunks, cur |-> state.cur]
  /\ GoodChunks(state.chunks)
  /\ Collected(state.cur, p, i)
Told(x, state) == Held(x, state.chunks) \/ x \in ToSet(state.cur)

\* Flushing loses nothing that was told.
LEMMA FlushedIsGood ==
  ASSUME NEW state, NEW p, NEW i, Going(state, p, i)
  PROVE  GoodChunks(Flushed(state)) /\ \A x : Told(x, state) => Held(x, Flushed(state))
<1>1. /\ GoodChunks(state.chunks) /\ state.cur \in Seq(Sentence)
      /\ InOrder(state.cur) /\ Fits(state.cur)
  BY CollectedIsAChunk DEF Going, Collected
<1> QED BY <1>1, AppendedChunks DEF Flushed, Told

\* Taking the next sentence loses none, and leaves good chunks
LEMMA TakeGoesOn ==
  ASSUME NEW state, NEW p, NEW i \in Nat, Going(state, p, i),
         NEW t \in Sentence, t.page = p, t.at = i + 1
  PROVE  /\ Going(Take(state, t), p, i + 1)
         /\ \A x : Told(x, state) \/ x = t => Told(x, Take(state, t))
<1> DEFINE next == Take(state, t)
<1>0. /\ GoodChunks(state.chunks) /\ Collected(state.cur, p, i) /\ state.cur \in Seq(Sentence)
      /\ t.size \in Nat /\ ChunkSize \in Nat
  BY BoundIsEnough DEF Going, Collected, Sentence
<1>1. /\ GoodChunks(Flushed(state))
      /\ \A x : Told(x, state) => Held(x, Flushed(state))
  BY FlushedIsGood
<1>2. /\ Collected(Carry(state.cur), p, i) /\ Carry(state.cur) \in Seq(Sentence)
      /\ Tokens(Carry(state.cur)) <= Overlap /\ Tokens(Carry(state.cur)) \in Nat
  BY <1>0, CarryIsCollected, CarryIsTail, TokensAreNumbers
<1>3. CASE t.size >= ChunkSize
  <2>1. next.chunks = Appended(Flushed(state), <<t>>) /\ next.cur = Carry(state.cur)
        /\ next = [chunks |-> next.chunks, cur |-> next.cur]
    BY <1>3 DEF Take
  <2>2. <<t>> \in Seq(Sentence) /\ InOrder(<<t>>) /\ Fits(<<t>>) /\ ToSet(<<t>>) = {t}
    <3>1. <<t>> \in Seq(Sentence) /\ Len(<<t>>) = 1 /\ DOMAIN <<t>> = {1} /\ <<t>>[1] = t
      OBVIOUS
    <3> QED BY <3>1 DEF InOrder, Fits, ToSet
  <2>3. /\ GoodChunks(next.chunks)
        /\ \A x : Held(x, Flushed(state)) \/ x = t => Held(x, next.chunks)
    <3> HIDE DEF next
    <3> QED BY <1>1, <2>1, <2>2, AppendedChunks
  <2>4. Collected(next.cur, p, i + 1)
    <3>1. Collected(Carry(state.cur), p, i + 1)
      BY <1>2 DEF Collected
    <3> QED BY <2>1, <3>1
  <2> HIDE DEF next
  <2>5. Going(next, p, i + 1)
    BY <2>1, <2>3, <2>4 DEF Going
  <2>6. \A x : Told(x, state) \/ x = t => Told(x, next)
    BY <1>1, <2>3 DEF Told
  <2> QED BY <2>5, <2>6 DEF next
<1>4. CASE ~ (t.size >= ChunkSize) /\ Tokens(state.cur) + t.size > ChunkSize
  <2>1. next.chunks = Flushed(state) /\ next.cur = Append(Carry(state.cur), t)
        /\ next = [chunks |-> next.chunks, cur |-> next.cur]
    BY <1>4 DEF Take
  <2>2. Tokens(Carry(state.cur)) + t.size < Bound
    BY <1>0, <1>2, <1>4, BoundIsEnough
  <2>3. Collected(next.cur, p, i + 1) /\ ToSet(next.cur) = ToSet(Carry(state.cur)) \cup {t}
    <3> HIDE DEF next
    <3> QED BY <1>2, <2>1, <2>2, NextIsCollected
  <2> HIDE DEF next
  <2>4. Going(next, p, i + 1)
    BY <1>1, <2>1, <2>3 DEF Going
  <2>5. \A x : Told(x, state) \/ x = t => Told(x, next)
    BY <1>1, <2>1, <2>3 DEF Told
  <2> QED BY <2>4, <2>5 DEF next
<1>5. CASE ~ (t.size >= ChunkSize) /\ ~ (Tokens(state.cur) + t.size > ChunkSize)
  <2>1. next.chunks = state.chunks /\ next.cur = Append(state.cur, t)
        /\ next = [chunks |-> next.chunks, cur |-> next.cur]
    <3>1. next = [state EXCEPT !.cur = Append(@, t)]
      BY <1>5 DEF Take
    <3> QED BY <3>1 DEF Going
  <2>2. Tokens(state.cur) + t.size < Bound
    <3>1. Tokens(state.cur) \in Nat
      BY <1>0, TokensAreNumbers
    <3> QED BY <1>0, <1>5, <3>1, BoundIsEnough
  <2>3. Collected(next.cur, p, i + 1) /\ ToSet(next.cur) = ToSet(state.cur) \cup {t}
    <3> HIDE DEF next
    <3> QED BY <1>0, <2>1, <2>2, NextIsCollected
  <2> HIDE DEF next
  <2>4. Going(next, p, i + 1)
    BY <1>0, <2>1, <2>3 DEF Going
  <2>5. \A x : Told(x, state) \/ x = t => Told(x, next)
    BY <2>1, <2>3 DEF Told
  <2> QED BY <2>4, <2>5 DEF next
<1> QED BY <1>3, <1>4, <1>5

\* The state keeps its type, whatever the sentences.
LEMMA AppendedTyped ==
  ASSUME NEW chunks \in Seq(Chunk), NEW s \in Seq(Sentence)
  PROVE  Appended(chunks, s) \in Seq(Chunk)
<1>1. [index |-> Len(chunks), sentences |-> s] \in Chunk
  BY DEF Chunk
<1> HIDE DEF Chunk
<1> QED BY <1>1 DEF Appended

LEMMA TakeTyped ==
  ASSUME NEW state \in State, NEW t \in Sentence
  PROVE  Take(state, t) \in State
<1>1. state.chunks \in Seq(Chunk) /\ state.cur \in Seq(Sentence) /\ state = [chunks |-> state.chunks, cur |-> state.cur]
  BY DEF State
<1>2. Flushed(state) \in Seq(Chunk) /\ Carry(state.cur) \in Seq(Sentence) /\ <<t>> \in Seq(Sentence)
  BY <1>1, AppendedTyped, CarryIsTail DEF Flushed
<1>3. Appended(Flushed(state), <<t>>) \in Seq(Chunk)
  BY <1>2, AppendedTyped
<1>4. Append(Carry(state.cur), t) \in Seq(Sentence) /\ Append(state.cur, t) \in Seq(Sentence)
  BY <1>1, <1>2
<1> QED BY <1>1, <1>2, <1>3, <1>4 DEF Take, State

Takes(sentences) == [i \in 1 .. Len(sentences) |-> [st \in State |-> Take(st, sentences[i])]]
Fresh(chunks) == [chunks |-> chunks, cur |-> << >>]

\* The state after each sentence of a page is a run of Take.
LEMMA PageRun ==
  ASSUME NEW chunks \in Seq(Chunk), NEW ss \in Seq(Sentence)
  PROVE  \E g : /\ IsRun(g, Len(ss), State, Fresh(chunks), Takes(ss))
                /\ ChunkText(chunks, ss) = Flushed(g[Len(ss)])
<1> DEFINE After(g) == g = [i \in 0 .. Len(ss) |->
                              IF i = 0 THEN [chunks |-> chunks, cur |-> << >>] ELSE Take(g[i - 1], ss[i])]
<1>0. Len(ss) \in Nat /\ \A i \in 1 .. Len(ss) : ss[i] \in Sentence
  OBVIOUS
<1>1. Fresh(chunks) \in State
  BY DEF Fresh, State
<1>2. Takes(ss) \in Rules(Len(ss), State)
  <2>1. \A i \in 1 .. Len(ss) : [st \in State |-> Take(st, ss[i])] \in [State -> State]
    BY <1>0, TakeTyped
  <2> QED BY <2>1 DEF Takes, Rules
<1>3. PICK g : IsRun(g, Len(ss), State, Fresh(chunks), Takes(ss))
  BY <1>0, <1>1, <1>2, RunExists, Zenon
<1>4. ASSUME NEW i \in 0 .. Len(ss), i # 0 PROVE g[i] = Take(g[i - 1], ss[i])
  <2>1. i \in 1 .. Len(ss) /\ g[i - 1] \in State
    BY <1>0, <1>3, <1>4 DEF IsRun
  <2> QED BY <1>3, <2>1 DEF IsRun, Takes
<1>5. After(g)
  BY <1>3, <1>4 DEF IsRun, Fresh
<1> DEFINE f == CHOOSE h : After(h)
<1>6. After(f)
  <2> HIDE DEF After
  <2> QED BY <1>5
<1>7. ChunkText(chunks, ss) = Flushed(f[Len(ss)])
  BY DEF ChunkText
<1> HIDE DEF f
<1>8. f[0] = Fresh(chunks) /\ \A i \in 1 .. Len(ss) : f[i] = Take(f[i - 1], ss[i])
  BY <1>0, <1>6 DEF Fresh
<1>9. \A i \in 1 .. Len(ss) : f[i - 1] \in State => f[i] = Takes(ss)[i][f[i - 1]]
  BY <1>0, <1>8 DEF Takes
<1>10. f = [i \in 0 .. Len(ss) |-> f[i]]
  BY <1>6
<1>11. IsRun(f, Len(ss), State, Fresh(chunks), Takes(ss))
  BY <1>0, <1>1, <1>2, <1>8, <1>9, <1>10, RunOfEquations, Zenon
<1> QED BY <1>7, <1>11

LEMMA PageTyped ==
  ASSUME NEW chunks \in Seq(Chunk), NEW ss \in Seq(Sentence)
  PROVE  ChunkText(chunks, ss) \in Seq(Chunk)
<1>1. PICK g : /\ IsRun(g, Len(ss), State, Fresh(chunks), Takes(ss))
               /\ ChunkText(chunks, ss) = Flushed(g[Len(ss)])
  BY PageRun
<1>2. g[Len(ss)] \in State
  BY <1>1 DEF IsRun
<1> QED BY <1>1, <1>2, AppendedTyped DEF Flushed, State

\* A page leaves good chunks, which hold what was held and all of the page
LEMMA PageIsHeld ==
  ASSUME NEW chunks, GoodChunks(chunks), NEW p, NEW ss \in Seq(Sentence),
         \A i \in 1 .. Len(ss) : ss[i].page = p /\ ss[i].at = i
  PROVE  /\ GoodChunks(ChunkText(chunks, ss))
         /\ \A x : Held(x, chunks) => Held(x, ChunkText(chunks, ss))
         /\ \A i \in 1 .. Len(ss) : Held(ss[i], ChunkText(chunks, ss))
<1>0. /\ chunks \in Seq(Chunk) /\ Len(ss) \in Nat
      /\ \A i \in 1 .. Len(ss) : ss[i] \in Sentence
  BY DEF GoodChunks
<1>1. PICK g : /\ IsRun(g, Len(ss), State, Fresh(chunks), Takes(ss))
               /\ ChunkText(chunks, ss) = Flushed(g[Len(ss)])
  BY <1>0, PageRun
<1>2. ASSUME NEW i \in 1 .. Len(ss) PROVE g[i] = Take(g[i - 1], ss[i])
  <2>1. i - 1 \in 0 .. Len(ss)
    BY <1>0
  <2>2. g[i - 1] \in State
    BY <1>1, <2>1 DEF IsRun
  <2> QED BY <1>1, <2>2 DEF IsRun, Takes
<1> DEFINE Fine(i) ==
      /\ Going(g[i], p, i)
      /\ \A x : Held(x, chunks) => Told(x, g[i])
      /\ \A k \in 1 .. i : Told(ss[k], g[i])
    S == {i \in Nat : i <= Len(ss) => Fine(i)}
<1>3. 0 \in S
  <2>1. g[0] = Fresh(chunks)
    BY <1>1 DEF IsRun
  <2>2. Collected(<< >>, p, 0)
    <3>1. << >> \in Seq(Sentence) /\ Len(<< >>) = 0
      OBVIOUS
    <3> QED BY <3>1, NoTokens, BoundIsEnough DEF Collected
  <2>3. Going(g[0], p, 0)
    BY <2>1, <2>2 DEF Going, Fresh
  <2>4. \A x : Held(x, chunks) => Told(x, g[0])
    BY <2>1 DEF Fresh, Told
  <2> QED BY <2>3, <2>4
<1>4. ASSUME NEW i \in Nat, i \in S PROVE i + 1 \in S
  <2> SUFFICES ASSUME i + 1 <= Len(ss) PROVE Fine(i + 1)
    OBVIOUS
  <2>1. i + 1 \in 1 .. Len(ss) /\ (i + 1) - 1 = i /\ Fine(i)
    BY <1>0, <1>4
  <2>2. g[i + 1] = Take(g[i], ss[i + 1])
    BY <1>2, <2>1
  <2>3. ss[i + 1] \in Sentence /\ ss[i + 1].page = p /\ ss[i + 1].at = i + 1
    BY <1>0, <2>1
  <2>4. /\ Going(g[i + 1], p, i + 1)
        /\ \A x : Told(x, g[i]) \/ x = ss[i + 1] => Told(x, g[i + 1])
    BY <2>1, <2>2, <2>3, TakeGoesOn
  <2>5. ASSUME NEW k \in 1 .. i + 1 PROVE Told(ss[k], g[i + 1])
    <3>1. k = i + 1 \/ k \in 1 .. i
      OBVIOUS
    <3> QED BY <2>1, <2>4, <3>1
  <2> QED BY <2>1, <2>4, <2>5
<1>5. Nat \subseteq S
  <2> HIDE DEF S
  <2> QED BY <1>3, <1>4, EveryNatural
<1>6. Fine(Len(ss))
  BY <1>0, <1>5
<1>7. /\ GoodChunks(Flushed(g[Len(ss)]))
      /\ \A x : Told(x, g[Len(ss)]) => Held(x, Flushed(g[Len(ss)]))
  BY <1>6, FlushedIsGood
<1> QED BY <1>1, <1>6, <1>7

-----------------------------------------------------------------------------
(* The document, page after page                                           *)

Pages(text) == [p \in 1 .. Len(text) |-> [c \in Seq(Chunk) |-> ChunkText(c, Sentences(text, p))]]

\* The sentences of a page carry its number and their places.
LEMMA SentencesOfAPage ==
  ASSUME NEW text \in Seq(Seq(Nat)), NEW p \in 1 .. Len(text)
  PROVE  /\ Sentences(text, p) \in Seq(Sentence)
         /\ Len(Sentences(text, p)) = Len(text[p])
         /\ \A i \in 1 .. Len(Sentences(text, p)) :
              Sentences(text, p)[i].page = p /\ Sentences(text, p)[i].at = i
<1>1. text[p] \in Seq(Nat) /\ p \in Nat
  OBVIOUS
<1>2. Len(text[p]) \in Nat /\ DOMAIN text[p] = 1 .. Len(text[p])
      /\ \A i \in 1 .. Len(text[p]) : text[p][i] \in Nat
  BY <1>1
<1>3. Sentences(text, p) = [i \in 1 .. Len(text[p]) |-> [page |-> p, at |-> i, size |-> text[p][i]]]
  BY <1>2 DEF Sentences
<1>4. \A i \in 1 .. Len(text[p]) : [page |-> p, at |-> i, size |-> text[p][i]] \in Sentence
  BY <1>1, <1>2 DEF Sentence
<1>5. Sentences(text, p) \in Seq(Sentence) /\ Len(Sentences(text, p)) = Len(text[p])
  <2> HIDE DEF Sentence
  <2> QED BY <1>2, <1>3, <1>4
<1> QED BY <1>2, <1>3, <1>5

PageKept(text, p, before, after) ==
  /\ GoodChunks(after)
  /\ \A x : Held(x, before) => Held(x, after)
  /\ \A i \in 1 .. Len(Sentences(text, p)) : Held(Sentences(text, p)[i], after)

\* A page of the document, after those before it.
LEMMA PageAdds ==
  ASSUME NEW text \in Seq(Seq(Nat)), NEW p \in 1 .. Len(text), NEW before, GoodChunks(before),
         NEW after, after = ChunkText(before, Sentences(text, p))
  PROVE  PageKept(text, p, before, after)
<1> DEFINE ss == Sentences(text, p)
<1>1. ss \in Seq(Sentence) /\ \A i \in 1 .. Len(ss) : ss[i].page = p /\ ss[i].at = i
  BY SentencesOfAPage
<1> HIDE DEF ss
<1>2. /\ GoodChunks(ChunkText(before, ss))
      /\ \A x : Held(x, before) => Held(x, ChunkText(before, ss))
      /\ \A i \in 1 .. Len(ss) : Held(ss[i], ChunkText(before, ss))
  BY <1>1, PageIsHeld
<1> QED BY <1>2 DEF ss, PageKept

\* The chunks after each page are a run of ChunkText.
LEMMA DocumentRun ==
  ASSUME NEW text \in Seq(Seq(Nat))
  PROVE  \E g : /\ IsRun(g, Len(text), Seq(Chunk), << >>, Pages(text))
                /\ ChunkDocument(text) = g[Len(text)]
<1> DEFINE Upto(g) == g = [p \in 0 .. Len(text) |->
                             IF p = 0 THEN << >> ELSE ChunkText(g[p - 1], Sentences(text, p))]
<1>0. Len(text) \in Nat /\ << >> \in Seq(Chunk)
  OBVIOUS
<1>1. Pages(text) \in Rules(Len(text), Seq(Chunk))
  <2>1. \A p \in 1 .. Len(text) :
          [c \in Seq(Chunk) |-> ChunkText(c, Sentences(text, p))] \in [Seq(Chunk) -> Seq(Chunk)]
    BY SentencesOfAPage, PageTyped
  <2> QED BY <2>1 DEF Pages, Rules
<1>2. PICK g : IsRun(g, Len(text), Seq(Chunk), << >>, Pages(text))
  BY <1>0, <1>1, RunExists, Zenon
<1>3. ASSUME NEW p \in 0 .. Len(text), p # 0 PROVE g[p] = ChunkText(g[p - 1], Sentences(text, p))
  <2>1. p \in 1 .. Len(text) /\ p - 1 \in 0 .. Len(text)
    BY <1>0, <1>3
  <2>2. g[p - 1] \in Seq(Chunk)
    BY <1>2, <2>1 DEF IsRun
  <2> QED BY <1>2, <2>1, <2>2 DEF IsRun, Pages
<1>4. Upto(g)
  BY <1>2, <1>3 DEF IsRun
<1> DEFINE f == CHOOSE h : Upto(h)
<1>5. Upto(f)
  <2> HIDE DEF Upto
  <2> QED BY <1>4
<1>6. ChunkDocument(text) = f[Len(text)]
  BY DEF ChunkDocument
<1> HIDE DEF f
<1>7. f[0] = << >> /\ \A p \in 1 .. Len(text) : f[p] = ChunkText(f[p - 1], Sentences(text, p))
  <2>1. 0 \in 0 .. Len(text) /\ f[0] = << >>
    BY <1>0, <1>5
  <2>2. ASSUME NEW p \in 1 .. Len(text) PROVE f[p] = ChunkText(f[p - 1], Sentences(text, p))
    <3>1. p \in 0 .. Len(text) /\ p # 0
      BY <1>0
    <3> QED BY <1>5, <3>1
  <2> QED BY <2>1, <2>2
<1>8. \A p \in 1 .. Len(text) : f[p - 1] \in Seq(Chunk) => f[p] = Pages(text)[p][f[p - 1]]
  BY <1>0, <1>7 DEF Pages
<1>9. f = [p \in 0 .. Len(text) |-> f[p]]
  BY <1>5
<1>10. IsRun(f, Len(text), Seq(Chunk), << >>, Pages(text))
  BY <1>0, <1>1, <1>7, <1>8, <1>9, RunOfEquations, Zenon
<1> QED BY <1>6, <1>10

\* Every document is cut without loss, whatever its pages and sentences and for
\* every chunk size and overlap: each sentence is in a chunk, a chunk is of one
\* page and in its order, chunks are numbered from 0, and none of several
\* sentences is longer than the configured size and overlap (chunker.py).
THEOREM ChunksHoldEveryDocument ==
  \A text \in Seq(Seq(Nat)) : ChunksHoldTheDocument(text)
<1> SUFFICES ASSUME NEW text \in Seq(Seq(Nat)) PROVE ChunksHoldTheDocument(text)
  OBVIOUS
<1>0. Len(text) \in Nat /\ DOMAIN text = 1 .. Len(text)
  OBVIOUS
<1>1. PICK g : /\ IsRun(g, Len(text), Seq(Chunk), << >>, Pages(text))
               /\ ChunkDocument(text) = g[Len(text)]
  BY DocumentRun
<1>2. ASSUME NEW p \in 1 .. Len(text) PROVE g[p] = ChunkText(g[p - 1], Sentences(text, p))
  <2>1. p - 1 \in 0 .. Len(text)
    BY <1>0
  <2>2. g[p - 1] \in Seq(Chunk)
    BY <1>1, <2>1 DEF IsRun
  <2> QED BY <1>1, <2>2 DEF IsRun, Pages
<1> DEFINE HoldsPage(q, p) ==
      \A i \in 1 .. Len(Sentences(text, q)) : Held(Sentences(text, q)[i], g[p])
    Fine(p) == GoodChunks(g[p]) /\ \A q \in 1 .. p : HoldsPage(q, p)
    S == {p \in Nat : p <= Len(text) => Fine(p)}
<1>3. 0 \in S
  <2>1. g[0] = << >>
    BY <1>1 DEF IsRun
  <2>2. << >> \in Seq(Chunk) /\ DOMAIN << >> = {}
    OBVIOUS
  <2>3. GoodChunks(g[0])
    BY <2>1, <2>2 DEF GoodChunks
  <2> QED BY <2>3
<1>4. ASSUME NEW p \in Nat, p \in S PROVE p + 1 \in S
  <2> SUFFICES ASSUME p + 1 <= Len(text) PROVE Fine(p + 1)
    OBVIOUS
  <2>1. p + 1 \in 1 .. Len(text) /\ (p + 1) - 1 = p /\ Fine(p)
    BY <1>0, <1>4
  <2>2. g[p + 1] = ChunkText(g[p], Sentences(text, p + 1))
    BY <1>2, <2>1
  <2>3. /\ GoodChunks(g[p + 1])
        /\ \A x : Held(x, g[p]) => Held(x, g[p + 1])
        /\ \A i \in 1 .. Len(Sentences(text, p + 1)) : Held(Sentences(text, p + 1)[i], g[p + 1])
    <3>1. GoodChunks(g[p])
      BY <2>1
    <3>2. p + 1 \in 1 .. Len(text)
      BY <2>1
    <3> HIDE DEF Fine, S
    <3>3. PageKept(text, p + 1, g[p], g[p + 1])
      BY <2>2, <3>1, <3>2, PageAdds, Zenon
    <3> QED BY <3>3 DEF PageKept
  <2>4. ASSUME NEW q \in 1 .. p + 1 PROVE HoldsPage(q, p + 1)
    <3>1. CASE q = p + 1
      BY <2>3, <3>1
    <3>2. CASE q # p + 1
      <4>1. q \in 1 .. p
        BY <3>2
      <4>2. HoldsPage(q, p)
        BY <2>1, <4>1
      <4> QED BY <2>3, <4>2
    <3> QED BY <3>1, <3>2
  <2> QED BY <2>3, <2>4
<1>5. Nat \subseteq S
  <2> HIDE DEF S
  <2> QED BY <1>3, <1>4, EveryNatural
<1>6. Fine(Len(text))
  BY <1>0, <1>5
<1> DEFINE chunks == ChunkDocument(text)
<1>7. ASSUME NEW p \in DOMAIN text, NEW s \in ToSet(Sentences(text, p))
      PROVE  \E n \in DOMAIN chunks : s \in ToSet(chunks[n].sentences)
  <2>1. p \in 1 .. Len(text) /\ Sentences(text, p) \in Seq(Sentence)
    BY <1>0, SentencesOfAPage
  <2>2. PICK i \in 1 .. Len(Sentences(text, p)) : s = Sentences(text, p)[i]
    <3>1. DOMAIN Sentences(text, p) = 1 .. Len(Sentences(text, p))
      BY <2>1
    <3> QED BY <3>1 DEF ToSet
  <2>3. Held(s, g[Len(text)])
    BY <1>6, <2>1, <2>2
  <2> QED BY <1>1, <2>3 DEF Held
<1>8. ASSUME NEW n \in DOMAIN chunks
      PROVE  /\ chunks[n].index = n - 1
             /\ InOrder(chunks[n].sentences) /\ Fits(chunks[n].sentences)
  BY <1>1, <1>6 DEF GoodChunks
<1> HIDE DEF chunks
<1>9. /\ \A p \in DOMAIN text : \A s \in ToSet(Sentences(text, p)) :
           \E n \in DOMAIN chunks : s \in ToSet(chunks[n].sentences)
      /\ \A n \in DOMAIN chunks :
           /\ chunks[n].index = n - 1
           /\ \A i, j \in DOMAIN chunks[n].sentences :
                LET s == chunks[n].sentences[i] t == chunks[n].sentences[j] IN
                s.page = t.page /\ (i < j => s.at < t.at)
           /\ Len(chunks[n].sentences) > 1 =>
                Tokens(chunks[n].sentences) < ChunkSize + Max({Overlap, 1})
  BY <1>7, <1>8 DEF InOrder, Fits, Bound
<1> QED BY <1>9 DEF ChunksHoldTheDocument, chunks

-----------------------------------------------------------------------------
(* Forecasts and alerts                                                    *)

\* Every finite set of whole numbers that is not empty has a greatest one,
LEMMA GreatestOf ==
  ASSUME NEW S, S \subseteq Int, IsFiniteSet(S), S # {}
  PROVE  \E x \in S : \A y \in S : x >= y
<1> DEFINE Has(T) == \E x \in T : \A y \in T : x >= y
           Sized(n) == {T \in SUBSET Int : IsFiniteSet(T) /\ T # {} /\ Cardinality(T) = n}
           N == {n \in Nat : \A T \in Sized(n) : Has(T)}
<1>1. 0 \in N
  BY FS_EmptySet
<1>2. ASSUME NEW n \in Nat, n \in N PROVE n + 1 \in N
  <2> SUFFICES ASSUME NEW T \in Sized(n + 1) PROVE Has(T)
    OBVIOUS
  <2>1. PICK z \in T : TRUE
    OBVIOUS
  <2>2. T \subseteq Int /\ z \in Int /\ IsFiniteSet(T) /\ Cardinality(T) = n + 1
    OBVIOUS
  <2> DEFINE R == T \ {z}
  <2>3. IsFiniteSet(R) /\ Cardinality(R) = n /\ R \subseteq Int /\ T = R \cup {z}
    <3>1. IsFiniteSet(R) /\ Cardinality(R) = IF z \in T THEN Cardinality(T) - 1 ELSE Cardinality(T)
      <4> HIDE DEF Sized, N, Has
      <4> QED BY <2>2, FS_RemoveElement
    <3> QED BY <2>2, <3>1
  <2>4. CASE R = {}
    <3>1. T = {z}
      BY <2>3, <2>4
    <3> QED BY <2>2, <3>1
  <2>5. CASE R # {}
    <3>1. R \in Sized(n)
      BY <2>3, <2>5
    <3>2. PICK x \in R : \A y \in R : x >= y
      BY <1>2, <3>1
    <3>3. x \in Int /\ x \in T /\ z \in T
      BY <2>2, <2>3
    <3>4. CASE x >= z
      <4>1. \A y \in T : x >= y
        BY <2>3, <3>2, <3>4
      <4> QED BY <3>3, <4>1
    <3>5. CASE ~ (x >= z)
      <4>1. ASSUME NEW y \in T PROVE z >= y
        <5>1. y \in Int /\ (y = z \/ y \in R)
          BY <2>2
        <5> QED BY <2>2, <3>2, <3>3, <3>5, <5>1
      <4> QED BY <3>3, <4>1
    <3> QED BY <3>4, <3>5
  <2> QED BY <2>4, <2>5
<1>3. Nat \subseteq N
  <2> HIDE DEF N
  <2> QED BY <1>1, <1>2, EveryNatural
<1>4. Cardinality(S) \in Nat
  BY FS_CardinalityType
<1>5. S \in Sized(Cardinality(S))
  OBVIOUS
<1>6. Has(S)
  <2> HIDE DEF Has, Sized
  <2> QED BY <1>3, <1>4, <1>5
<1> QED BY <1>6

\* and Max returns it.
LEMMA MaxOf ==
  ASSUME NEW S, S \subseteq Int, IsFiniteSet(S), S # {}
  PROVE  Max(S) \in S /\ \A y \in S : Max(S) >= y
<1> DEFINE IsMax(x) == \A y \in S : x >= y
<1>1. \E x \in S : IsMax(x)
  BY GreatestOf
<1>2. Max(S) = CHOOSE x \in S : IsMax(x)
  BY DEF Max
<1>3. Max(S) \in S /\ IsMax(Max(S))
  <2> HIDE DEF IsMax
  <2> QED BY <1>1, <1>2
<1> QED BY <1>3

\* Readings whose days are whole numbers; the other fields do not matter
Dated(hub) ==
  IsFiniteSet(DOMAIN hub) /\ \A i \in DOMAIN hub : hub[i].day = None \/ hub[i].day \in Int

\* A row of the trend has the day of a reading.
LEMMA TrendRow ==
  ASSUME NEW hub, NEW t \in ComputeDailyTrend(hub)
  PROVE  \E i \in {j \in DOMAIN hub : hub[j].day # None} : t.day = hub[i].day
<1> DEFINE same(k) == {i \in ReadingsOf(hub, hub[k]) : hub[i].day = hub[k].day}
           count(k) == Cardinality(same(k))
           sum(k) == SumOf(hub, same(k))
           avg(k) == AverageOf(hub, same(k))
           row(k) == [dataset |-> hub[k].dataset, metric |-> hub[k].metric, day |-> hub[k].day,
                      rows |-> count(k), sum |-> sum(k), avg |-> avg(k)]
           J == {j \in DOMAIN hub : hub[j].day # None}
<1>1. ComputeDailyTrend(hub) = {row(k) : k \in J}
  BY Zenon DEF ComputeDailyTrend
<1> HIDE DEF count, sum, avg
<1>2. \A k \in J : row(k).day = hub[k].day
  OBVIOUS
<1> HIDE DEF row, J
<1>3. PICK k \in J : t = row(k)
  BY <1>1
<1> QED BY <1>2, <1>3 DEF J

\* The days of a trend are finitely many whole numbers.
LEMMA DaysOfATrend ==
  ASSUME NEW hub, Dated(hub)
  PROVE  /\ \A t \in ComputeDailyTrend(hub) : t.day # None /\ t.day \in Int
         /\ IsFiniteSet({t.day : t \in ComputeDailyTrend(hub)})
<1> DEFINE trend == ComputeDailyTrend(hub)
           J == {i \in DOMAIN hub : hub[i].day # None}
           f == [i \in J |-> hub[i].day]
           D == {hub[i].day : i \in J}
<1>1. ASSUME NEW t \in trend PROVE \E i \in J : t.day = hub[i].day
  BY TrendRow
<1>2. IsFiniteSet(J)
  BY FS_Subset DEF Dated
<1>3. f \in Surjection(J, D)
  BY DEF Surjection
<1>4. IsFiniteSet(D)
  <2> HIDE DEF f, D, J
  <2> QED BY <1>2, <1>3, FS_Surjection
<1>5. {t.day : t \in trend} \in SUBSET D
  <2> HIDE DEF trend
  <2> QED BY <1>1
<1>6. IsFiniteSet({t.day : t \in trend})
  <2> HIDE DEF trend, D
  <2> QED BY <1>4, <1>5, FS_Subset
<1> QED BY <1>1, <1>6 DEF Dated

\* A series has the forecasts of the seven days after its last one, or none
LEMMA ForecastRow ==
  ASSUME NEW trend, NEW smoothed, NEW f \in Forecasts(trend, smoothed)
  PROVE  \E k \in SeriesKeys(trend) :
           LET last == Max({t.day : t \in SeriesOf(trend, k)}) IN
           /\ f.dataset = k.dataset /\ f.metric = k.metric
           /\ f.day \in last + 1 .. last + 7
           /\ \A d \in last + 1 .. last + 7 :
                \E e \in Forecasts(trend, smoothed) :
                  e.dataset = k.dataset /\ e.metric = k.metric /\ e.day = d
<1> DEFINE days(k) == {t.day : t \in SeriesOf(trend, k)}
           last(k) == Max(days(k))
           points(k) == Max(days(k)) - Min(days(k)) + 1
           model(k) == IF points(k) >= 6 /\ smoothed THEN "holt_winters" ELSE "linear_trend"
           row(k, d) == [dataset |-> k.dataset, metric |-> k.metric, day |-> d, model |-> model(k)]
           rows(k) == {row(k, d) : d \in last(k) + 1 .. last(k) + 7}
           ahead(k) == IF points(k) < 3 THEN {} ELSE rows(k)
<1>1. Forecasts(trend, smoothed) = UNION {ahead(k) : k \in SeriesKeys(trend)}
  BY Zenon DEF Forecasts, HORIZON
<1> HIDE DEF model
<1>2. \A k, d : row(k, d).dataset = k.dataset /\ row(k, d).metric = k.metric /\ row(k, d).day = d
  OBVIOUS
<1> HIDE DEF row, points, last
<1>3. PICK k \in SeriesKeys(trend) : f \in ahead(k)
  BY <1>1
<1>4. ahead(k) = rows(k)
  BY <1>3
<1>5. rows(k) \subseteq Forecasts(trend, smoothed)
  BY <1>1, <1>3, <1>4
<1>6. PICK d \in last(k) + 1 .. last(k) + 7 : f = row(k, d)
  BY <1>3, <1>4
<1>7. f.dataset = k.dataset /\ f.metric = k.metric /\ f.day \in last(k) + 1 .. last(k) + 7
  BY <1>2, <1>6
<1>8. ASSUME NEW x \in last(k) + 1 .. last(k) + 7
      PROVE  \E e \in Forecasts(trend, smoothed) :
               e.dataset = k.dataset /\ e.metric = k.metric /\ e.day = x
  <2>1. row(k, x) \in rows(k)
    OBVIOUS
  <2> QED BY <1>2, <1>5, <2>1
<1> HIDE DEF ahead, rows, days
<1> QED BY <1>7, <1>8 DEF last, days

\* Whatever was read, unless a series without a value ends the job, the forecasts
\* of a series begin on the day after its last one and leave no day of the horizon
\* out, smoothed or not (ml/jobs/forecasting.py).
THEOREM ForecastsFollowEverySeries ==
  ASSUME NEW in, Dated(in.hub)
  PROVE  ForecastsFollowTheSeries(in)
<1> DEFINE trend == ComputeDailyTrend(in.hub)
           ahead == Forecasts(trend, in.smoothed)
           DaysOf(k) == {t.day : t \in SeriesOf(trend, k)}
<1>1. /\ \A t \in trend : t.day # None /\ t.day \in Int
      /\ IsFiniteSet({t.day : t \in trend})
  BY DaysOfATrend
<1>2. ASSUME NEW k, DaysOf(k) # {}
      PROVE  Max(DaysOf(k)) \in DaysOf(k) /\ Max(DaysOf(k)) \in Int /\ \A d \in DaysOf(k) : Max(DaysOf(k)) >= d
  <2>1. DaysOf(k) \in SUBSET {t.day : t \in trend} /\ DaysOf(k) \subseteq Int
    <3> HIDE DEF trend
    <3> QED BY <1>1 DEF SeriesOf
  <2>2. IsFiniteSet(DaysOf(k))
    <3> HIDE DEF DaysOf, trend
    <3> QED BY <1>1, <2>1, FS_Subset
  <2> HIDE DEF DaysOf
  <2> QED BY <1>2, <2>1, <2>2, MaxOf
<1> HIDE DEF trend
<1>3. ASSUME NEW f \in ahead
      PROVE  \E k \in SeriesKeys(trend) :
               /\ f.dataset = k.dataset /\ f.metric = k.metric
               /\ f.day \in Max(DaysOf(k)) + 1 .. Max(DaysOf(k)) + 7
               /\ \A d \in Max(DaysOf(k)) + 1 .. Max(DaysOf(k)) + 7 :
                    \E e \in ahead : e.dataset = k.dataset /\ e.metric = k.metric /\ e.day = d
  BY ForecastRow
<1>4. ASSUME NEW f \in ahead, NEW t \in trend, t.dataset = f.dataset, t.metric = f.metric
      PROVE  /\ f.day > t.day
             /\ f.day = t.day + 1 \/ \E e \in trend \cup ahead :
                   e.dataset = f.dataset /\ e.metric = f.metric /\ e.day = f.day - 1
  <2>1. PICK k \in SeriesKeys(trend) :
               /\ f.dataset = k.dataset /\ f.metric = k.metric
               /\ f.day \in Max(DaysOf(k)) + 1 .. Max(DaysOf(k)) + 7
               /\ \A d \in Max(DaysOf(k)) + 1 .. Max(DaysOf(k)) + 7 :
                    \E e \in ahead : e.dataset = k.dataset /\ e.metric = k.metric /\ e.day = d
    BY <1>3
  <2> HIDE DEF ahead
  <2>2. t.day \in DaysOf(k)
    BY <1>4, <2>1 DEF SeriesOf
  <2> DEFINE last == Max(DaysOf(k))
  <2>3. last \in DaysOf(k) /\ last \in Int /\ last >= t.day /\ t.day \in Int
    BY <1>1, <1>2, <2>2
  <2>4. PICK u \in trend : u.dataset = k.dataset /\ u.metric = k.metric /\ u.day = last
    BY <2>3 DEF SeriesOf
  <2>5. f.day \in Int /\ f.day > last /\ f.day <= last + 7
    <3> HIDE DEF DaysOf
    <3> QED BY <2>1, <2>3
  <2>6. CASE f.day = last + 1
    <3>1. u.day = f.day - 1
      BY <2>3, <2>4, <2>5, <2>6
    <3> HIDE DEF last
    <3> QED BY <2>1, <2>3, <2>4, <2>5, <3>1
  <2>7. CASE f.day # last + 1
    <3>1. f.day - 1 \in last + 1 .. last + 7
      <4> HIDE DEF last
      <4> QED BY <2>3, <2>5, <2>7
    <3>2. \E e \in ahead : e.dataset = k.dataset /\ e.metric = k.metric /\ e.day = f.day - 1
      BY <2>1, <3>1
    <3> HIDE DEF last
    <3> QED BY <2>1, <2>3, <2>5, <3>2
  <2> QED BY <2>6, <2>7
<1>5. Forecasting(trend, in.smoothed) # Fails => Forecasting(trend, in.smoothed) = ahead
  BY Zenon DEF Forecasting
<1> HIDE DEF ahead
<1>6. CASE Forecasting(trend, in.smoothed) = Fails
  BY <1>6 DEF ForecastsFollowTheSeries, trend
<1>7. CASE Forecasting(trend, in.smoothed) # Fails
  BY <1>4, <1>5, <1>7 DEF ForecastsFollowTheSeries, trend
<1> QED BY <1>6, <1>7

\* Only what is compared is found to be far.
LEMMA FarAreOfTheSet ==
  ASSUME NEW values, NEW I
  PROVE  DetectZscore(values, I) \subseteq I
  BY Zenon DEF DetectZscore

\* What is reported of a series, and of the entities' last values
LEMMA GroupRows ==
  ASSUME NEW series, NEW entity, NEW forest, NEW r \in RowsFromGroup(series, entity, forest)
  PROVE  r.entity = entity /\ \E t \in series : t.day = r.day /\ t.avg = r.observed
<1> DEFINE days == {t.day : t \in series}
           day == [d \in days |-> (CHOOSE t \in series : t.day = d).avg]
           found == {g \in forest : g.day \in DOMAIN day}
           bucket(f) == BucketLevel(f.score, 40, 70)
           ofForest(f) == [entity |-> entity, day |-> f.day, observed |-> day[f.day],
                           method |-> "isolation_forest", severity |-> bucket(f)]
           level(d) == ZscoreSeverity(day, DOMAIN day, d)
           ofZscore(d) == [entity |-> entity, day |-> d, observed |-> day[d],
                           method |-> "zscore", severity |-> level(d)]
           far == DetectZscore(day, DOMAIN day)
<1>1. RowsFromGroup(series, entity, forest)
        = IF Cardinality(series) >= 8 /\ forest # Fails
          THEN {ofForest(f) : f \in found} ELSE {ofZscore(d) : d \in far}
  BY Zenon DEF RowsFromGroup
<1>2. DOMAIN day = days
  OBVIOUS
<1>3. far \subseteq days
  BY <1>2, FarAreOfTheSet
<1>4. ASSUME NEW d \in days PROVE \E t \in series : t.day = d /\ t.avg = day[d]
  <2> DEFINE first == CHOOSE t \in series : t.day = d
  <2>1. first \in series /\ first.day = d
    OBVIOUS
  <2>2. day[d] = first.avg
    OBVIOUS
  <2> HIDE DEF first, day
  <2> QED BY <2>1, <2>2
<1> HIDE DEF bucket, level, far, day
<1>5. \A f : ofForest(f).entity = entity /\ ofForest(f).day = f.day /\ ofForest(f).observed = day[f.day]
  OBVIOUS
<1>6. \A d : ofZscore(d).entity = entity /\ ofZscore(d).day = d /\ ofZscore(d).observed = day[d]
  OBVIOUS
<1> HIDE DEF ofForest, ofZscore, days
<1>7. \E d \in days : r.entity = entity /\ r.day = d /\ r.observed = day[d]
  <2>1. CASE Cardinality(series) >= 8 /\ forest # Fails
    <3>1. PICK f \in found : r = ofForest(f)
      BY <1>1, <2>1
    <3>2. f.day \in days
      BY <1>2
    <3> QED BY <1>5, <3>1, <3>2
  <2>2. CASE ~ (Cardinality(series) >= 8 /\ forest # Fails)
    <3>1. PICK d \in far : r = ofZscore(d)
      BY <1>1, <2>2
    <3> QED BY <1>3, <1>6, <3>1
  <2> QED BY <2>1, <2>2
<1> QED BY <1>4, <1>7

LEMMA FeatureRows ==
  ASSUME NEW features, NEW k, NEW seen, NEW r \in RowsFromFeatures(features, k, seen)
  PROVE  /\ r.day = None /\ r.entity \notin seen
         /\ \E f \in SeriesOf(features, k) : f.entity = r.entity /\ f.last = r.observed
<1> DEFINE own == SeriesOf(features, k)
           entities == {f.entity : f \in own}
           last == [e \in entities |-> (CHOOSE f \in own : f.entity = e).last]
           level(e) == ZscoreSeverity(last, DOMAIN last, e)
           row(e) == [entity |-> e, day |-> None, observed |-> last[e], method |-> "zscore",
                      severity |-> level(e)]
           far == DetectZscore(last, DOMAIN last)
<1>1. RowsFromFeatures(features, k, seen) = {row(e) : e \in far \ seen}
  BY Zenon DEF RowsFromFeatures
<1>2. DOMAIN last = entities
  OBVIOUS
<1>3. far \subseteq entities
  BY <1>2, FarAreOfTheSet
<1>4. ASSUME NEW e \in entities PROVE \E f \in own : f.entity = e /\ f.last = last[e]
  <2> DEFINE first == CHOOSE f \in own : f.entity = e
  <2>1. first \in own /\ first.entity = e
    OBVIOUS
  <2>2. last[e] = first.last
    OBVIOUS
  <2> HIDE DEF first, last
  <2> QED BY <2>1, <2>2
<1> HIDE DEF level, far, last
<1>5. \A e : row(e).entity = e /\ row(e).day = None /\ row(e).observed = last[e]
  OBVIOUS
<1> HIDE DEF row, entities
<1>6. PICK e \in far \ seen : r = row(e)
  BY <1>1
<1> QED BY <1>3, <1>4, <1>5, <1>6

\* What is looked up and reported depends on the series alone
LEMMA SameSeries ==
  ASSUME NEW features, NEW a, NEW k, SeriesOf(features, a) = SeriesOf(features, k)
  PROVE  /\ \A order : EntityLookup(features, order, a) = EntityLookup(features, order, k)
         /\ \A seen : RowsFromFeatures(features, a, seen) = RowsFromFeatures(features, k, seen)
<1>1. ASSUME NEW order
      PROVE  EntityLookup(features, order, a) = EntityLookup(features, order, k)
  <2> DEFINE has(own) == {j \in DOMAIN order : \E f \in own : f.entity = order[j]}
             look(own) == IF has(own) = {} THEN None ELSE order[Min(has(own))]
  <2>1. \A x : EntityLookup(features, order, x) = look(SeriesOf(features, x))
    BY Zenon DEF EntityLookup
  <2> HIDE DEF look
  <2> QED BY <2>1
<1>2. ASSUME NEW seen
      PROVE  RowsFromFeatures(features, a, seen) = RowsFromFeatures(features, k, seen)
  <2> DEFINE last(own) == [e \in {f.entity : f \in own} |-> (CHOOSE f \in own : f.entity = e).last]
             rows(own) == {[entity |-> e, day |-> None, observed |-> last(own)[e], method |-> "zscore",
                            severity |-> ZscoreSeverity(last(own), DOMAIN last(own), e)] :
                             e \in DetectZscore(last(own), DOMAIN last(own)) \ seen}
  <2>1. \A x : RowsFromFeatures(features, x, seen) = rows(SeriesOf(features, x))
    BY Zenon DEF RowsFromFeatures
  <2> HIDE DEF rows
  <2> QED BY <2>1
<1> QED BY <1>1, <1>2

\* An alert is a row of its own dataset and metric
LEMMA AlertRow ==
  ASSUME NEW trend, NEW features, NEW order, NEW forest,
         NEW a \in Anomalies(trend, features, order, forest)
  PROVE  LET group == RowsFromGroup(SeriesOf(trend, a), EntityLookup(features, order, a), forest)
             seen == {r.entity : r \in group}
         IN  \E r \in group \cup RowsFromFeatures(features, a, seen) :
               a.entity = r.entity /\ a.day = r.day /\ a.observed = r.observed
<1> DEFINE group(k) == RowsFromGroup(SeriesOf(trend, k), EntityLookup(features, order, k), forest)
           seen(k) == {r.entity : r \in group(k)}
           found(k) == group(k) \cup RowsFromFeatures(features, k, seen(k))
           row(k, r) == [dataset |-> k.dataset, metric |-> k.metric, entity |-> r.entity,
                         day |-> r.day, observed |-> r.observed, method |-> r.method,
                         severity |-> r.severity]
           rows(k) == {row(k, r) : r \in found(k)}
           keys == SeriesKeys(trend) \cup SeriesKeys(features)
<1>1. Anomalies(trend, features, order, forest) = UNION {rows(k) : k \in keys}
  BY Zenon DEF Anomalies
<1>2. \A k, r : /\ row(k, r).dataset = k.dataset /\ row(k, r).metric = k.metric
                /\ row(k, r).entity = r.entity /\ row(k, r).day = r.day
                /\ row(k, r).observed = r.observed
  OBVIOUS
<1> HIDE DEF row, found, keys
<1>3. PICK k \in keys : a \in rows(k)
  BY <1>1
<1>4. PICK r \in found(k) : a = row(k, r)
  BY <1>3
<1>5. a.dataset = k.dataset /\ a.metric = k.metric
  BY <1>2, <1>4
<1>6. /\ SeriesOf(trend, a) = SeriesOf(trend, k)
      /\ SeriesOf(features, a) = SeriesOf(features, k)
  BY <1>5 DEF SeriesOf
<1>7. found(a) = found(k)
  <2>1. EntityLookup(features, order, a) = EntityLookup(features, order, k)
    BY <1>6, SameSeries
  <2>2. group(a) = group(k)
    BY <1>6, <2>1
  <2>3. seen(a) = seen(k)
    <3> HIDE DEF group
    <3> QED BY <2>2
  <2>4. RowsFromFeatures(features, a, seen(a)) = RowsFromFeatures(features, k, seen(k))
    <3> HIDE DEF seen
    <3> QED BY <1>6, <2>3, SameSeries
  <2> HIDE DEF seen, group
  <2> QED BY <2>2, <2>4 DEF found
<1>8. r \in found(a) /\ a.entity = r.entity /\ a.day = r.day /\ a.observed = r.observed
  BY <1>2, <1>4, <1>7
<1> HIDE DEF group, seen
<1> QED BY <1>8, Zenon DEF found, group, seen

\* Whatever was read and whatever the forest finds, an alert shows an average of
\* the trend or a last value of an entity, of its own dataset and metric, and
\* what the series has told of an entity is not told again
\* (ml/jobs/anomaly_detection.py).
THEOREM AlertsTellEveryReading ==
  ASSUME NEW in
  PROVE  AlertsTellTheReadings(in)
<1> DEFINE trend == ComputeDailyTrend(in.hub)
           features == ComputeEntityFeatures(in.hub)
           alerts == Anomalies(trend, features, in.order, in.forest)
           group(k) == RowsFromGroup(SeriesOf(trend, k), EntityLookup(features, in.order, k), in.forest)
           seen(k) == {r.entity : r \in group(k)}
<1>1. \A t \in trend : t.day # None
  <2>1. ASSUME NEW t \in trend PROVE t.day # None
    <3>1. PICK i \in {j \in DOMAIN in.hub : in.hub[j].day # None} : t.day = in.hub[i].day
      BY <2>1, TrendRow
    <3> HIDE DEF trend
    <3> QED BY <3>1
  <2> QED BY <2>1
<1> HIDE DEF trend, features
<1>2. ASSUME NEW a \in alerts
      PROVE  \E r \in group(a) \cup RowsFromFeatures(features, a, seen(a)) :
               a.entity = r.entity /\ a.day = r.day /\ a.observed = r.observed
  BY AlertRow
<1> HIDE DEF alerts
<1>3. ASSUME NEW k, NEW r \in group(k)
      PROVE  r.day # None /\ \E t \in SeriesOf(trend, k) : t.day = r.day /\ t.avg = r.observed
  <2>1. PICK t \in SeriesOf(trend, k) : t.day = r.day /\ t.avg = r.observed
    BY <1>3, GroupRows
  <2> QED BY <1>1, <2>1 DEF SeriesOf
<1>4. ASSUME NEW k, NEW r \in RowsFromFeatures(features, k, seen(k))
      PROVE  /\ r.day = None /\ r.entity \notin seen(k)
             /\ \E f \in SeriesOf(features, k) : f.entity = r.entity /\ f.last = r.observed
  <2> HIDE DEF seen
  <2> QED BY FeatureRows
<1>5. ASSUME NEW a \in alerts, NEW b \in SeriesOf(alerts, a), b.day # None
      PROVE  b.entity \in seen(a)
  <2>1. b \in alerts /\ b.dataset = a.dataset /\ b.metric = a.metric
    BY DEF SeriesOf
  <2>2. PICK r \in group(b) \cup RowsFromFeatures(features, b, seen(b)) :
          b.entity = r.entity /\ b.day = r.day
    BY <1>2, <2>1
  <2>3. r \in group(b)
    BY <1>4, <1>5, <2>2
  <2>4. group(a) = group(b)
    <3>1. \A table : SeriesOf(table, a) = SeriesOf(table, b)
      BY <2>1 DEF SeriesOf
    <3>2. EntityLookup(features, in.order, a) = EntityLookup(features, in.order, b)
      BY <3>1, SameSeries
    <3> QED BY <3>1, <3>2
  <2> QED BY <2>2, <2>3, <2>4
<1>6. ASSUME NEW a \in alerts
      PROVE  /\ a.day # None => \E t \in SeriesOf(trend, a) : t.day = a.day /\ t.avg = a.observed
             /\ a.day = None =>
                  /\ \E f \in SeriesOf(features, a) : f.entity = a.entity /\ f.last = a.observed
                  /\ ~ \E b \in SeriesOf(alerts, a) : b.day # None /\ b.entity = a.entity
  <2>1. PICK r \in group(a) \cup RowsFromFeatures(features, a, seen(a)) :
          a.entity = r.entity /\ a.day = r.day /\ a.observed = r.observed
    BY <1>2
  <2>2. CASE r \in group(a)
    <3> HIDE DEF group, seen
    <3> QED BY <1>3, <2>1, <2>2
  <2>3. CASE r \in RowsFromFeatures(features, a, seen(a))
    <3> HIDE DEF group, seen
    <3>1. r.day = None /\ r.entity \notin seen(a)
      BY <1>4, <2>3
    <3>2. \E f \in SeriesOf(features, a) : f.entity = r.entity /\ f.last = r.observed
      BY <1>4, <2>3
    <3> QED BY <1>5, <2>1, <3>1, <3>2
  <2> HIDE DEF group, seen
  <2> QED BY <2>1, <2>2, <2>3
<1> QED BY <1>6 DEF AlertsTellTheReadings, alerts, features, trend

-----------------------------------------------------------------------------
(* The tools of a question                                                 *)

\* Whatever is asked, and whether the selection is switched on or off, the tools
\* that find a dataset are offered; and whenever graph._is_causal holds the
\* answer to the standard of a cause, select_tools has brought the predictions
\* and the cross-domain engine, although the two cut a question into words in
\* their own ways.
THEOREM EveryCausalQuestionGetsItsTools ==
  ASSUME NEW in
  PROVE  CausalQuestionsGetTheirTools(in)
<1> DEFINE asked == in.question
           chosen == SelectTools(asked)
           causal == WordsAsked(asked) \cap CausalWords # {}
<1>0. /\ CausalQuestionWords \subseteq CausalWords
      /\ {"hub", "analytics", "ml", "intelligence"} \subseteq DOMAIN Groups
  BY AgentCallsAssumption
<1>1. {"hub", "analytics"} \subseteq chosen
  BY <1>0, Zenon DEF SelectTools
<1>2. causal => {"ml", "intelligence"} \subseteq chosen
  BY <1>0, Zenon DEF SelectTools
<1>3. IsCausal(asked) => causal
  <2> SUFFICES ASSUME IsCausal(asked) PROVE causal
    OBVIOUS
  <2>1. PICK i \in DOMAIN asked : \E j \in DOMAIN asked[i] : <<asked[i][j]>> \in CausalQuestionWords
    BY DEF IsCausal
  <2>2. PICK j \in DOMAIN asked[i] : <<asked[i][j]>> \in CausalQuestionWords
    BY <2>1
  <2>3. asked[i] \in ToSet(asked)
    BY Zenon DEF ToSet
  <2>4. <<asked[i][j]>> \in WordsAsked(asked)
    <3> DEFINE parts(word) == {<<word[k]>> : k \in DOMAIN word}
    <3>1. WordsAsked(asked) = ToSet(asked) \cup UNION {parts(word) : word \in ToSet(asked)}
      BY Zenon DEF WordsAsked
    <3>2. <<asked[i][j]>> \in parts(asked[i])
      BY Zenon
    <3> HIDE DEF parts
    <3> QED BY <2>3, <3>1, <3>2
  <2> QED BY <1>0, <2>2, <2>4
<1> DEFINE groups == IF in.selecting THEN chosen ELSE DOMAIN Groups
           offered == ToolsFor(asked, in.selecting)
<1>4. {"hub", "analytics"} \subseteq groups /\ (IsCausal(asked) => {"ml", "intelligence"} \subseteq groups)
  <2> HIDE DEF chosen, causal
  <2> QED BY <1>0, <1>1, <1>2, <1>3
<1>5. offered = UNION {Groups[g] : g \in groups}
  BY DEF ToolsFor
<1> HIDE DEF groups, offered, chosen, causal
<1>6. \A g \in groups : Groups[g] \subseteq offered
  BY <1>5
<1>7. /\ Groups["hub"] \cup Groups["analytics"] \subseteq offered
      /\ IsCausal(asked) => Groups["ml"] \cup Groups["intelligence"] \subseteq offered
  BY <1>4, <1>6
<1> QED BY <1>7 DEF CausalQuestionsGetTheirTools, offered
=============================================================================
