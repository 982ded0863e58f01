-------------------------- MODULE ConversationProofs --------------------------
(***************************************************************************)
(* Theorems about a conversation that crosses dialects, for any requests,  *)
(* plans, openings, answers and what a client adds, of any length: what a  *)
(* translated conversation is sent as says all of it, what was sent begins *)
(* what is sent next, and every setting is carried, refused or reported.   *)
(***************************************************************************)
EXTENDS Conversation, SequenceTheorems, WellFoundedInduction, TLAPS

-----------------------------------------------------------------------------
(* Numbers *)

\* A set of numbers has a least.
LEMMA Least ==
  ASSUME NEW T \in SUBSET Nat, T # {}
  PROVE  \E m \in T : \A k \in T : m <= k
<1> DEFINE R == OpToRel(<, Nat)
<1>1. R = {ss \in Nat \X Nat : ss[1] < ss[2]}
  BY DEF OpToRel
<1>2. IsWellFoundedOn(R, Nat)
  BY NatLessThanWellFounded
<1> HIDE DEF R
<1>3. PICK x \in T : \A y \in T : ~ (<<y, x>> \in R)
  BY <1>2, WFMin
<1>4. \A y \in T : ~ (y < x)
  BY <1>1, <1>3
<1>5. QED
  BY <1>3, <1>4

\* Induction: a set that has zero, and with a number the next, has all of them.
LEMMA Climb ==
  ASSUME NEW T \in SUBSET Nat, 0 \in T, \A k \in T : k + 1 \in T
  PROVE  T = Nat
<1> SUFFICES ASSUME Nat \ T # {}
             PROVE  FALSE
  OBVIOUS
<1>1. PICK m \in Nat \ T : \A k \in Nat \ T : m <= k
  BY Least
<1>2. m # 0 /\ m - 1 \in Nat
  BY <1>1
<1>3. m - 1 \in T
  BY <1>1, <1>2
<1>4. m - 1 + 1 = m
  BY <1>1
<1>5. QED
  BY <1>1, <1>3, <1>4

\* Min is the least of a set of numbers.
LEMMA MinIsLeast ==
  ASSUME NEW S \in SUBSET Nat, S # {}
  PROVE  Min(S) \in S /\ \A k \in S : Min(S) <= k
<1>1. \E m \in S : \A k \in S : m <= k
  BY Least
<1>2. QED
  BY <1>1 DEF Min

-----------------------------------------------------------------------------
(* Sequences *)

IsSeq(s) == \E S : s \in Seq(S)

\* What a sequence is: its length, its domain and its elements.
LEMMA SeqFacts ==
  ASSUME NEW s, IsSeq(s)
  PROVE  /\ Len(s) \in Nat /\ DOMAIN s = 1 .. Len(s)
         /\ s = [i \in 1 .. Len(s) |-> s[i]]
         /\ Len(s) = 0 <=> s = << >>
<1>1. PICK S : s \in Seq(S)
  BY DEF IsSeq
<1>2. QED
  BY <1>1

\* A family over 1 .. n is a sequence of n.
LEMMA FamilyIsSeq ==
  ASSUME NEW n \in Nat, NEW X, NEW s \in [1 .. n -> X]
  PROVE  IsSeq(s) /\ Len(s) = n
<1>1. s \in Seq(X)
  BY SeqDef
<1>2. DOMAIN s = 1 .. n /\ DOMAIN s = 1 .. Len(s) /\ Len(s) \in Nat
  BY <1>1
<1>3. Len(s) = n
  BY <1>2
<1>4. IsSeq(s)
  BY <1>1 DEF IsSeq
<1>5. QED
  BY <1>3, <1>4

\* Sequences of the same elements are one.
LEMMA SameSeq ==
  ASSUME NEW s, NEW t, IsSeq(s), IsSeq(t), Len(s) = Len(t),
         \A i \in 1 .. Len(s) : s[i] = t[i]
  PROVE  s = t
BY SeqFacts

\* What a concatenation has at each place.
LEMMA Joined ==
  ASSUME NEW s, NEW t, IsSeq(s), IsSeq(t)
  PROVE  /\ IsSeq(s \o t)
         /\ Len(s \o t) = Len(s) + Len(t)
         /\ \A i \in 1 .. Len(s) : (s \o t)[i] = s[i]
         /\ \A i \in 1 .. Len(t) : (s \o t)[Len(s) + i] = t[i]
         /\ \A i \in 1 .. Len(s) + Len(t) :
              \/ i \in 1 .. Len(s) /\ (s \o t)[i] = s[i]
              \/ i - Len(s) \in 1 .. Len(t) /\ (s \o t)[i] = t[i - Len(s)]
<1>1. PICK S : s \in Seq(S)
  BY DEF IsSeq
<1>2. PICK T : t \in Seq(T)
  BY DEF IsSeq
<1> DEFINE U == S \cup T
<1>3. s \in Seq(U) /\ t \in Seq(U)
  BY <1>1, <1>2
<1> HIDE DEF U
<1>4. s \o t \in Seq(U)
  BY <1>3
<1>5. Len(s \o t) = Len(s) + Len(t)
  BY <1>3
<1>6. \A i \in 1 .. Len(s) + Len(t) :
        (s \o t)[i] = IF i <= Len(s) THEN s[i] ELSE t[i - Len(s)]
  BY <1>3
<1>7. Len(s) \in Nat /\ Len(t) \in Nat
  BY <1>3
<1> HIDE DEF IsSeq
<1>8. \A i \in 1 .. Len(s) : (s \o t)[i] = s[i]
  BY <1>6, <1>7
<1>9. \A i \in 1 .. Len(t) : (s \o t)[Len(s) + i] = t[i]
  BY <1>6, <1>7
<1>10. \A i \in 1 .. Len(s) + Len(t) :
         \/ i \in 1 .. Len(s) /\ (s \o t)[i] = s[i]
         \/ i - Len(s) \in 1 .. Len(t) /\ (s \o t)[i] = t[i - Len(s)]
  BY <1>6, <1>7
<1>11. QED
  BY <1>4, <1>5, <1>8, <1>9, <1>10 DEF IsSeq

\* Concatenation is associative.
LEMMA Associates ==
  ASSUME NEW p, NEW q, NEW r, IsSeq(p), IsSeq(q), IsSeq(r)
  PROVE  (p \o q) \o r = p \o (q \o r)
<1>1. PICK P : p \in Seq(P)
  BY DEF IsSeq
<1>2. PICK Q : q \in Seq(Q)
  BY DEF IsSeq
<1>3. PICK R : r \in Seq(R)
  BY DEF IsSeq
<1> DEFINE X == P \cup Q \cup R
<1>4. p \in Seq(X) /\ q \in Seq(X) /\ r \in Seq(X)
  BY <1>1, <1>2, <1>3
<1> HIDE DEF X
<1>5. QED
  BY <1>4, ConcatAssociative

\* The empty sequence adds nothing.
LEMMA Neutral ==
  ASSUME NEW s, IsSeq(s)
  PROVE  s \o << >> = s /\ << >> \o s = s /\ IsSeq(<< >>)
<1>1. PICK S : s \in Seq(S)
  BY DEF IsSeq
<1>2. QED
  BY <1>1 DEF IsSeq

\* A sequence of one.
LEMMA Singleton ==
  ASSUME NEW x
  PROVE  IsSeq(<<x>>) /\ Len(<<x>>) = 1 /\ <<x>>[1] = x
<1>1. <<x>> \in Seq({x})
  OBVIOUS
<1>2. QED
  BY <1>1 DEF IsSeq

\* Append adds one at the end.
LEMMA Appended ==
  ASSUME NEW s, NEW x, IsSeq(s)
  PROVE  /\ IsSeq(Append(s, x)) /\ Len(Append(s, x)) = Len(s) + 1
         /\ \A i \in 1 .. Len(s) : Append(s, x)[i] = s[i]
         /\ Append(s, x)[Len(s) + 1] = x
         /\ Append(s, x) = s \o <<x>>
<1>1. PICK S : s \in Seq(S)
  BY DEF IsSeq
<1> DEFINE U == S \cup {x}
<1>2. s \in Seq(U) /\ x \in U
  BY <1>1
<1> HIDE DEF U
<1>3. Append(s, x) \in Seq(U)
  BY <1>2
<1>4. QED
  BY <1>2, <1>3 DEF IsSeq

-----------------------------------------------------------------------------
(* FlattenSeq as a trace *)

\* Sequences are joined one after the other.
Flowing(f, ss) ==
  /\ f[0] = << >>
  /\ \A i \in 1 .. Len(ss) : f[i] = f[i - 1] \o ss[i]

\* There is a trace of the fold that FlattenSeq is.
LEMMA FlowTraced ==
  ASSUME NEW ss, IsSeq(ss)
  PROVE  \E f : Flowing(f, ss)
<1> DEFINE Def(f, n) ==
             f = [i \in 0 .. n |-> IF i = 0 THEN << >> ELSE f[i - 1] \o ss[i]]
           T == {n \in Nat : \E f : Def(f, n)}
<1>1. 0 \in T
  <2> DEFINE f == [i \in 0 .. 0 |-> << >>]
  <2>1. Def(f, 0)
    OBVIOUS
  <2>2. QED
    BY <2>1
<1>2. ASSUME NEW n \in T
      PROVE  n + 1 \in T
  <2>1. PICK f : Def(f, n)
    BY <1>2
  <2>2. n \in Nat
    BY <1>2
  <2> DEFINE g == [i \in 0 .. n + 1 |-> IF i = n + 1 THEN f[n] \o ss[n + 1] ELSE f[i]]
  <2>3. \A i \in 0 .. n : f[i] = IF i = 0 THEN << >> ELSE f[i - 1] \o ss[i]
    BY <2>1
  <2>4. \A i \in 0 .. n : g[i] = f[i]
    BY <2>2
  <2>5. g[n + 1] = g[n] \o ss[n + 1]
    BY <2>2, <2>4
  <2> HIDE DEF Def, T
  <2>6. \A i \in 0 .. n + 1 : g[i] = IF i = 0 THEN << >> ELSE g[i - 1] \o ss[i]
    <3> SUFFICES ASSUME NEW i \in 0 .. n + 1
                 PROVE  g[i] = IF i = 0 THEN << >> ELSE g[i - 1] \o ss[i]
      OBVIOUS
    <3>1. CASE i = n + 1
      <4>1. i # 0 /\ i - 1 = n
        BY <2>2, <3>1
      <4>2. QED
        BY <2>5, <3>1, <4>1
    <3>2. CASE i # n + 1
      <4>1. i \in 0 .. n /\ (i # 0 => i - 1 \in 0 .. n)
        BY <2>2, <3>2
      <4> HIDE DEF g
      <4>2. QED
        BY <2>3, <2>4, <4>1
    <3>3. QED
      BY <3>1, <3>2
  <2>7. g = [i \in 0 .. n + 1 |-> g[i]]
    OBVIOUS
  <2> HIDE DEF g
  <2>8. Def(g, n + 1)
    BY <2>6, <2>7 DEF Def
  <2>9. QED
    BY <2>2, <2>8 DEF T
<1>3. Len(ss) \in T
  <2> HIDE DEF T
  <2>1. T \in SUBSET Nat
    BY DEF T
  <2>2. T = Nat
    BY <1>1, <1>2, <2>1, Climb
  <2>3. QED
    BY <2>2, SeqFacts
<1> DEFINE at[i \in 0 .. Len(ss)] == IF i = 0 THEN << >> ELSE at[i - 1] \o ss[i]
<1>4. at = [i \in 0 .. Len(ss) |-> IF i = 0 THEN << >> ELSE at[i - 1] \o ss[i]]
  <2>1. \E f : f = [i \in 0 .. Len(ss) |-> IF i = 0 THEN << >> ELSE f[i - 1] \o ss[i]]
    BY <1>3
  <2>2. QED
    BY <2>1
<1> HIDE DEF at
<1>5. at[0] = << >> /\ \A i \in 1 .. Len(ss) : at[i] = at[i - 1] \o ss[i]
  <2>1. Len(ss) \in Nat
    BY SeqFacts
  <2>2. \A i \in 1 .. Len(ss) : i \in 0 .. Len(ss) /\ i # 0
    BY <2>1
  <2>3. 0 \in 0 .. Len(ss)
    BY <2>1
  <2>4. QED
    BY <1>4, <2>2, <2>3
<1>6. Flowing(at, ss)
  BY <1>5 DEF Flowing
<1>7. QED
  BY <1>6

\* FlattenSeq is the end of such a trace.
LEMMA Flattened ==
  ASSUME NEW ss, IsSeq(ss), \A i \in 1 .. Len(ss) : IsSeq(ss[i])
  PROVE  \E f : Flowing(f, ss) /\ FlattenSeq(ss) = f[Len(ss)]
<1>1. PICK f : Flowing(f, ss)
  BY FlowTraced
<1>2. f[0] = << >> /\ \A i \in 1 .. Len(ss) : f[i] = f[i - 1] \o ss[i]
  BY <1>1 DEF Flowing
<1>3. Len(ss) \in Nat
  BY SeqFacts
<1>4. CASE Len(ss) = 0
  <2>1. FlattenSeq(ss) = ss /\ ss = << >>
    BY <1>4, SeqFacts DEF FlattenSeq
  <2>2. QED
    BY <1>1, <1>2, <1>4, <2>1
<1>5. CASE Len(ss) # 0
  <2> DEFINE flatten[i \in 1 .. Len(ss)] == IF i = 1 THEN ss[i] ELSE flatten[i - 1] \o ss[i]
             g == [i \in 1 .. Len(ss) |-> f[i]]
  <2>1. FlattenSeq(ss) = flatten[Len(ss)]
    BY <1>5 DEF FlattenSeq
  <2>2. ASSUME NEW i \in 1 .. Len(ss)
        PROVE  g[i] = IF i = 1 THEN ss[i] ELSE g[i - 1] \o ss[i]
    <3>1. CASE i = 1
      <4> DEFINE x == ss[i]
      <4>1. IsSeq(x) /\ i - 1 = 0
        BY <3>1
      <4> HIDE DEF x
      <4>2. << >> \o x = x
        BY <4>1, Neutral
      <4>3. f[i] = << >> \o x
        BY <1>2, <4>1 DEF x
      <4>4. QED
        BY <3>1, <4>2, <4>3 DEF x
    <3>2. CASE i # 1
      <4>1. i - 1 \in 1 .. Len(ss)
        BY <1>3, <3>2
      <4>2. QED
        BY <1>2, <3>2, <4>1
    <3>3. QED
      BY <3>1, <3>2
  <2>3. g = [i \in 1 .. Len(ss) |-> g[i]]
    OBVIOUS
  <2> HIDE DEF g
  <2>4. g = [i \in 1 .. Len(ss) |-> IF i = 1 THEN ss[i] ELSE g[i - 1] \o ss[i]]
    BY <2>2, <2>3
  <2>5. flatten = [i \in 1 .. Len(ss) |-> IF i = 1 THEN ss[i] ELSE flatten[i - 1] \o ss[i]]
    BY <2>4
  <2> HIDE DEF flatten
  <2> DEFINE T == {n \in Nat : n + 1 <= Len(ss) => flatten[n + 1] = g[n + 1]}
  <2>6. 0 \in T
    BY <1>3, <2>4, <2>5
  <2>7. ASSUME NEW n \in T
        PROVE  n + 1 \in T
    <3> SUFFICES ASSUME n + 1 + 1 <= Len(ss)
                 PROVE  flatten[n + 1 + 1] = g[n + 1 + 1]
      BY <2>7
    <3> DEFINE m == n + 1
               k == m + 1
    <3>1. k \in 1 .. Len(ss) /\ k # 1 /\ k - 1 = m /\ flatten[m] = g[m]
      BY <1>3, <2>7
    <3> HIDE DEF k, m
    <3>2. flatten[k] = flatten[k - 1] \o ss[k]
      BY <2>5, <3>1
    <3>3. g[k] = g[k - 1] \o ss[k]
      BY <2>4, <3>1
    <3>4. QED
      BY <3>1, <3>2, <3>3 DEF k, m
  <2> HIDE DEF T
  <2>8. T \in SUBSET Nat
    BY DEF T
  <2>9. T = Nat
    BY <2>6, <2>7, <2>8, Climb
  <2>10. Len(ss) - 1 \in T /\ Len(ss) - 1 + 1 = Len(ss) /\ Len(ss) \in 1 .. Len(ss)
    BY <1>3, <1>5, <2>9
  <2>11. flatten[Len(ss)] = f[Len(ss)]
    BY <2>10 DEF T, g
  <2>12. QED
    BY <1>1, <2>1, <2>11
<1>6. QED
  BY <1>4, <1>5

\* Each element of what is joined is one of the parts.
LEMMA FlattenedFacts ==
  ASSUME NEW ss, IsSeq(ss), \A i \in 1 .. Len(ss) : IsSeq(ss[i])
  PROVE  /\ IsSeq(FlattenSeq(ss))
         /\ \A k \in 1 .. Len(FlattenSeq(ss)) :
              \E i \in 1 .. Len(ss) : \E j \in 1 .. Len(ss[i]) : FlattenSeq(ss)[k] = ss[i][j]
<1>1. PICK f : Flowing(f, ss) /\ FlattenSeq(ss) = f[Len(ss)]
  BY Flattened
<1>2. f[0] = << >> /\ \A i \in 1 .. Len(ss) : f[i] = f[i - 1] \o ss[i]
  BY <1>1 DEF Flowing
<1>3. Len(ss) \in Nat
  BY SeqFacts
<1> DEFINE From(x) == \E i \in 1 .. Len(ss) : \E j \in 1 .. Len(ss[i]) : x = ss[i][j]
           Fine(s) == IsSeq(s) /\ \A k \in 1 .. Len(s) : From(s[k])
           T == {n \in Nat : n <= Len(ss) => Fine(f[n])}
<1>4. 0 \in T
  <2>1. IsSeq(<< >>) /\ Len(<< >>) = 0
    BY DEF IsSeq
  <2>2. QED
    BY <1>2, <2>1
<1>5. ASSUME NEW n \in T
      PROVE  n + 1 \in T
  <2> SUFFICES ASSUME n + 1 <= Len(ss)
               PROVE  Fine(f[n + 1])
    BY <1>5
  <2> DEFINE m == n + 1
             a == f[n]
             b == ss[m]
  <2>1. n \in Nat /\ m \in 1 .. Len(ss) /\ m - 1 = n /\ Fine(a)
    <3>1. n \in Nat /\ (n <= Len(ss) => Fine(f[n]))
      BY <1>5
    <3> HIDE DEF Fine, T
    <3>2. m \in 1 .. Len(ss) /\ m - 1 = n /\ n <= Len(ss)
      BY <1>3, <3>1
    <3>3. QED
      BY <3>1, <3>2
  <2> HIDE DEF m
  <2>2. f[n + 1] = a \o b
    <3>1. f[m] = f[m - 1] \o ss[m]
      BY <1>2, <2>1
    <3>2. QED
      BY <2>1, <3>1 DEF m
  <2>3. IsSeq(b) /\ \A k \in 1 .. Len(b) : From(b[k])
    BY <2>1
  <2> HIDE DEF a, b, From
  <2>4. /\ IsSeq(a \o b) /\ Len(a \o b) = Len(a) + Len(b)
        /\ \A k \in 1 .. Len(a) + Len(b) :
             \/ k \in 1 .. Len(a) /\ (a \o b)[k] = a[k]
             \/ k - Len(a) \in 1 .. Len(b) /\ (a \o b)[k] = b[k - Len(a)]
    BY <2>1, <2>3, Joined
  <2>5. Fine(a \o b)
    BY <2>1, <2>3, <2>4
  <2>6. QED
    BY <2>2, <2>5
<1> HIDE DEF Fine
<1>6. Fine(f[Len(ss)])
  <2> HIDE DEF T
  <2>1. T \in SUBSET Nat
    BY DEF T
  <2>2. T = Nat
    BY <1>4, <1>5, <2>1, Climb
  <2>3. QED
    BY <1>3, <2>2 DEF T
<1>7. QED
  BY <1>1, <1>6 DEF Fine

-----------------------------------------------------------------------------
(* Lists of lists *)

\* One list and then another; what follows is about these, not about numbers.
Cat(s, t) == s \o t

\* Cat as a monoid: all that the proofs below know of it.
LEMMA CatFacts ==
  /\ IsSeq(<< >>)
  /\ \A s, t : IsSeq(s) /\ IsSeq(t) => IsSeq(Cat(s, t))
  /\ \A s : IsSeq(s) => Cat(s, << >>) = s /\ Cat(<< >>, s) = s
  /\ \A s, t, u : IsSeq(s) /\ IsSeq(t) /\ IsSeq(u) => Cat(Cat(s, t), u) = Cat(s, Cat(t, u))
<1>1. IsSeq(<< >>)
  BY DEF IsSeq
<1>2. ASSUME NEW s, NEW t, IsSeq(s), IsSeq(t)
      PROVE  IsSeq(Cat(s, t))
  BY <1>2, Joined DEF Cat
<1>3. ASSUME NEW s, IsSeq(s)
      PROVE  Cat(s, << >>) = s /\ Cat(<< >>, s) = s
  BY <1>3, Neutral DEF Cat
<1>4. ASSUME NEW s, NEW t, NEW u, IsSeq(s), IsSeq(t), IsSeq(u)
      PROVE  Cat(Cat(s, t), u) = Cat(s, Cat(t, u))
  BY <1>4, Associates, SMTT(30) DEF Cat
<1>5. QED
  BY <1>1, <1>2, <1>3, <1>4

\* Lists one after the other, from an empty one.
Lists(ss) == IsSeq(ss) /\ \A i \in 1 .. Len(ss) : IsSeq(ss[i])
Laid(f, ss) ==
  /\ f[0] = << >>
  /\ \A i \in 1 .. Len(ss) : f[i] = Cat(f[i - 1], ss[i])

\* FlattenSeq as a trace over Cat.
LEMMA LaidOut ==
  ASSUME NEW ss, Lists(ss)
  PROVE  \E f : Laid(f, ss) /\ FlattenSeq(ss) = f[Len(ss)]
BY Flattened DEF Flowing, Laid, Cat, Lists

\* There is one way to lay lists out.
LEMMA LaidOnce ==
  ASSUME NEW ss, IsSeq(ss), NEW f, NEW g, Laid(f, ss), Laid(g, ss)
  PROVE  \A n \in 0 .. Len(ss) : f[n] = g[n]
<1> DEFINE T == {n \in Nat : n <= Len(ss) => f[n] = g[n]}
<1>1. Len(ss) \in Nat
  BY SeqFacts
<1>2. 0 \in T
  BY DEF Laid
<1>3. ASSUME NEW n \in T
      PROVE  n + 1 \in T
  <2> SUFFICES ASSUME n + 1 <= Len(ss)
               PROVE  f[n + 1] = g[n + 1]
    BY <1>3
  <2> DEFINE m == n + 1
  <2>1. m \in 1 .. Len(ss) /\ m - 1 = n /\ f[n] = g[n]
    BY <1>1, <1>3
  <2> HIDE DEF m, T
  <2>2. f[m] = Cat(f[m - 1], ss[m]) /\ g[m] = Cat(g[m - 1], ss[m])
    BY <2>1 DEF Laid
  <2>3. QED
    BY <2>1, <2>2 DEF m
<1> HIDE DEF T
<1>4. T = Nat
  <2>1. T \in SUBSET Nat
    BY DEF T
  <2>2. QED
    BY <1>2, <1>3, <2>1, Climb
<1>5. QED
  BY <1>1, <1>4 DEF T

\* Any trace over Cat ends in what FlattenSeq is.
LEMMA LaidFlat ==
  ASSUME NEW ss, Lists(ss), NEW f, Laid(f, ss)
  PROVE  FlattenSeq(ss) = f[Len(ss)]
<1>1. PICK g : Laid(g, ss) /\ FlattenSeq(ss) = g[Len(ss)]
  BY LaidOut
<1>2. IsSeq(ss)
  BY DEF Lists
<1>3. Len(ss) \in 0 .. Len(ss)
  BY <1>2, SeqFacts
<1>4. QED
  BY <1>1, <1>2, <1>3, LaidOnce

\* Such a trace goes through sequences.
LEMMA LaidFine ==
  ASSUME NEW ss, Lists(ss), NEW f, Laid(f, ss)
  PROVE  \A n \in 0 .. Len(ss) : IsSeq(f[n])
<1> DEFINE T == {n \in Nat : n <= Len(ss) => IsSeq(f[n])}
<1>1. Len(ss) \in Nat
  BY SeqFacts DEF Lists
<1>2. 0 \in T
  BY CatFacts DEF Laid
<1>3. ASSUME NEW n \in T
      PROVE  n + 1 \in T
  <2> SUFFICES ASSUME n + 1 <= Len(ss)
               PROVE  IsSeq(f[n + 1])
    BY <1>3
  <2> DEFINE m == n + 1
  <2>1. m \in 1 .. Len(ss) /\ m - 1 = n /\ IsSeq(f[n]) /\ IsSeq(ss[m])
    BY <1>1, <1>3 DEF Lists
  <2> HIDE DEF m, T
  <2>2. f[m] = Cat(f[m - 1], ss[m])
    BY <2>1 DEF Laid
  <2>3. QED
    BY <2>1, <2>2, CatFacts DEF m
<1> HIDE DEF T
<1>4. T = Nat
  <2>1. T \in SUBSET Nat
    BY DEF T
  <2>2. QED
    BY <1>2, <1>3, <2>1, Climb
<1>5. QED
  BY <1>1, <1>4 DEF T

\* FlattenSeq of no list, and of one.
LEMMA FlattenedEnds ==
  /\ FlattenSeq(<< >>) = << >>
  /\ \A x : IsSeq(x) => FlattenSeq(<<x>>) = x
<1>1. FlattenSeq(<< >>) = << >>
  BY DEF FlattenSeq
<1>2. ASSUME NEW x, IsSeq(x)
      PROVE  FlattenSeq(<<x>>) = x
  <2> DEFINE ss == <<x>>
             f == [i \in 0 .. 1 |-> IF i = 0 THEN << >> ELSE x]
  <2>1. IsSeq(ss) /\ Len(ss) = 1 /\ ss[1] = x
    BY Singleton
  <2> HIDE DEF ss
  <2>2. Lists(ss)
    BY <1>2, <2>1 DEF Lists
  <2>3. f[0] = << >> /\ f[1] = x
    OBVIOUS
  <2>4. Cat(<< >>, x) = x
    BY <1>2, CatFacts
  <2> HIDE DEF f
  <2>5. Laid(f, ss)
    BY <2>1, <2>3, <2>4 DEF Laid
  <2>6. QED
    BY <2>1, <2>2, <2>3, <2>5, LaidFlat DEF ss
<1>3. QED
  BY <1>1, <1>2

\* FlattenSeq of lists is a sequence.
LEMMA FlattenedSeq ==
  ASSUME NEW ss, Lists(ss)
  PROVE  IsSeq(FlattenSeq(ss))
BY FlattenedFacts DEF Lists

\* FlattenSeq of two lists of lists is that of the first and then of the second.
LEMMA FlattenedJoin ==
  ASSUME NEW ss, NEW tt, Lists(ss), Lists(tt)
  PROVE  Lists(ss \o tt) /\ FlattenSeq(ss \o tt) = Cat(FlattenSeq(ss), FlattenSeq(tt))
<1> DEFINE a == FlattenSeq(ss)
           n == Len(ss)
           m == Len(tt)
           u == ss \o tt
<1>1. PICK f : Laid(f, ss) /\ a = f[n]
  BY LaidOut
<1>2. PICK g : Laid(g, tt) /\ FlattenSeq(tt) = g[m]
  BY LaidOut
<1>3. n \in Nat /\ m \in Nat
  BY SeqFacts DEF Lists
<1>4. /\ IsSeq(u) /\ Len(u) = n + m
      /\ \A i \in 1 .. n + m :
           \/ i \in 1 .. n /\ u[i] = ss[i]
           \/ i - n \in 1 .. m /\ u[i] = tt[i - n]
  BY Joined DEF Lists
<1>5. IsSeq(a) /\ \A i \in 0 .. m : IsSeq(g[i])
  BY <1>2, LaidFine, FlattenedSeq
<1>6. \A i \in 1 .. n : IsSeq(ss[i])
  BY DEF Lists
<1>7. \A i \in 1 .. m : IsSeq(tt[i])
  BY DEF Lists
<1> HIDE DEF a, u, n, m
<1>8. Lists(u)
  BY <1>4, <1>6, <1>7 DEF Lists
<1> DEFINE q == [i \in 0 .. n + m |-> IF i <= n THEN f[i] ELSE Cat(a, g[i - n])]
<1>9. f[0] = << >> /\ \A i \in 1 .. n : f[i] = Cat(f[i - 1], ss[i])
  BY <1>1 DEF Laid, n
<1>10. g[0] = << >> /\ \A i \in 1 .. m : g[i] = Cat(g[i - 1], tt[i])
  BY <1>2 DEF Laid, m
<1>11. Cat(a, << >>) = a
  BY <1>5, CatFacts
<1>12. \A i \in 0 .. m : q[n + i] = Cat(a, g[i])
  <2> SUFFICES ASSUME NEW i \in 0 .. m
               PROVE  q[n + i] = Cat(a, g[i])
    OBVIOUS
  <2>1. n + i \in 0 .. n + m /\ n + i - n = i
    BY <1>3
  <2>2. CASE i = 0
    <3>1. n + i = n /\ n \in 0 .. n + m /\ n <= n
      BY <1>3, <2>2
    <3>2. q[n] = f[n]
      BY <3>1
    <3>3. QED
      BY <1>1, <1>10, <1>11, <2>2, <3>1, <3>2
  <2>3. CASE i # 0
    <3> DEFINE k == n + i
    <3>1. ~(k <= n) /\ k \in 0 .. n + m /\ k - n = i
      BY <1>3, <2>1, <2>3
    <3> HIDE DEF k
    <3>2. q[k] = Cat(a, g[k - n])
      BY <3>1
    <3>3. QED
      BY <3>1, <3>2 DEF k
  <2>4. QED
    BY <2>2, <2>3
<1>13. ASSUME NEW i \in 1 .. n + m
       PROVE  q[i] = Cat(q[i - 1], u[i])
  <2>1. CASE i \in 1 .. n /\ u[i] = ss[i]
    <3>1. i - 1 \in 0 .. n + m /\ i \in 0 .. n + m /\ i <= n /\ i - 1 <= n
      BY <1>3, <2>1
    <3>2. q[i] = f[i] /\ q[i - 1] = f[i - 1]
      BY <3>1
    <3>3. QED
      BY <1>9, <2>1, <3>2
  <2>2. CASE i - n \in 1 .. m /\ u[i] = tt[i - n]
    <3> DEFINE j == i - n
               h == j - 1
               x == tt[j]
    <3>1. j \in 1 .. m /\ h \in 0 .. m /\ j \in 0 .. m /\ n + j = i /\ n + h = i - 1
      BY <1>3, <2>2
    <3> HIDE DEF j
    <3>2. g[j] = Cat(g[h], x)
      BY <1>10, <3>1
    <3>3. IsSeq(x) /\ IsSeq(g[h])
      BY <1>5, <1>7, <3>1
    <3>4. q[i] = Cat(a, g[j]) /\ q[i - 1] = Cat(a, g[h])
      <4> HIDE DEF q, h
      <4>1. q[n + j] = Cat(a, g[j]) /\ q[n + h] = Cat(a, g[h])
        BY <1>12, <3>1
      <4>2. QED
        BY <3>1, <4>1
    <3>5. u[i] = x
      BY <2>2 DEF j
    <3> HIDE DEF h, x, q
    <3>6. QED
      BY <1>5, <3>2, <3>3, <3>4, <3>5, CatFacts
  <2>3. QED
    BY <1>4, <2>1, <2>2
<1>14. q[0] = << >>
  BY <1>3, <1>9
<1>15. q[n + m] = Cat(a, g[m])
  BY <1>3, <1>12
<1> HIDE DEF q
<1>16. Laid(q, u)
  BY <1>4, <1>13, <1>14 DEF Laid
<1>17. FlattenSeq(u) = Cat(a, g[m])
  BY <1>4, <1>8, <1>15, <1>16, LaidFlat
<1>18. QED
  BY <1>2, <1>8, <1>17 DEF u, a, m

\* What joins when lists are joined joins when they are laid out.
Additive(h, S) ==
  /\ h[<< >>] = << >>
  /\ \A s \in Seq(S) : IsSeq(h[s])
  /\ \A s, t \in Seq(S) : h[Cat(s, t)] = Cat(h[s], h[t])

\* What is additive can be taken list by list.
LEMMA Homomorphic ==
  ASSUME NEW S, NEW h, Additive(h, S), NEW ss, IsSeq(ss), \A i \in 1 .. Len(ss) : ss[i] \in Seq(S)
  PROVE  /\ FlattenSeq(ss) \in Seq(S)
         /\ Lists([i \in 1 .. Len(ss) |-> h[ss[i]]])
         /\ h[FlattenSeq(ss)] = FlattenSeq([i \in 1 .. Len(ss) |-> h[ss[i]]])
<1> DEFINE n == Len(ss)
           tt == [i \in 1 .. n |-> h[ss[i]]]
<1>1. n \in Nat
  BY SeqFacts
<1>2. Lists(ss)
  BY DEF Lists, IsSeq
<1>3. PICK f : Laid(f, ss) /\ FlattenSeq(ss) = f[n]
  BY <1>2, LaidOut
<1>4. f[0] = << >> /\ \A i \in 1 .. n : f[i] = Cat(f[i - 1], ss[i])
  BY <1>3 DEF Laid
<1>5. \A i \in 0 .. n : f[i] \in Seq(S)
  <2> DEFINE T == {k \in Nat : k <= n => f[k] \in Seq(S)}
  <2>1. 0 \in T
    <3>1. << >> \in Seq(S)
      OBVIOUS
    <3>2. QED
      BY <1>4, <3>1
  <2>2. ASSUME NEW k \in T
        PROVE  k + 1 \in T
    <3> SUFFICES ASSUME k + 1 <= n
                 PROVE  f[k + 1] \in Seq(S)
      BY <2>2
    <3> DEFINE m == k + 1
    <3>1. m \in 1 .. n /\ m - 1 = k /\ f[k] \in Seq(S) /\ ss[m] \in Seq(S)
      BY <1>1, <2>2
    <3> HIDE DEF m, T, n
    <3>2. f[m] = Cat(f[k], ss[m])
      BY <1>4, <3>1
    <3> DEFINE x == f[k]
               y == ss[m]
    <3>3. x \in Seq(S) /\ y \in Seq(S)
      BY <3>1
    <3> HIDE DEF x, y
    <3>4. Cat(x, y) \in Seq(S)
      BY <3>3 DEF Cat
    <3>5. QED
      BY <3>2, <3>4 DEF x, y, m
  <2> HIDE DEF T, n
  <2>3. T \in SUBSET Nat
    BY DEF T
  <2>4. T = Nat
    BY <2>1, <2>2, <2>3, Climb
  <2>5. QED
    BY <1>1, <2>4 DEF T
<1> DEFINE g == [i \in 0 .. n |-> h[f[i]]]
<1>6. IsSeq(tt) /\ Len(tt) = n
  <2>1. tt \in [1 .. n -> {h[ss[i]] : i \in 1 .. n}]
    OBVIOUS
  <2> HIDE DEF tt
  <2>2. QED
    BY <1>1, <2>1, FamilyIsSeq
<1>7. \A i \in 1 .. n : IsSeq(ss[i]) /\ tt[i] = h[ss[i]] /\ IsSeq(tt[i])
  BY <1>2 DEF Lists, Additive
<1>8. g[0] = << >>
  BY <1>1, <1>4 DEF Additive
<1>9. ASSUME NEW i \in 1 .. n
      PROVE  g[i] = Cat(g[i - 1], tt[i])
  <2>1. i \in 0 .. n /\ i - 1 \in 0 .. n
    BY <1>1
  <2>2. g[i] = h[f[i]] /\ g[i - 1] = h[f[i - 1]]
    BY <2>1
  <2>3. f[i - 1] \in Seq(S) /\ ss[i] \in Seq(S) /\ f[i] = Cat(f[i - 1], ss[i])
    BY <1>4, <1>5, <2>1
  <2> HIDE DEF g, tt
  <2>4. QED
    BY <1>7, <2>2, <2>3 DEF Additive
<1>10. g[n] = h[f[n]]
  BY <1>1
<1> HIDE DEF g, tt
<1>11. Lists(tt)
  BY <1>6, <1>7 DEF Lists
<1>12. Laid(g, tt)
  BY <1>6, <1>8, <1>9 DEF Laid
<1>13. FlattenSeq(tt) = g[n]
  BY <1>6, <1>11, <1>12, LaidFlat
<1>14. FlattenSeq(ss) \in Seq(S)
  BY <1>1, <1>3, <1>5
<1>15. QED
  BY <1>3, <1>10, <1>11, <1>13, <1>14 DEF tt, n

\* Lists have their elements in one set.
LEMMA InOneSet ==
  ASSUME NEW ss, Lists(ss)
  PROVE  \E S : \A i \in 1 .. Len(ss) : ss[i] \in Seq(S)
<1> DEFINE S == UNION {{ss[i][j] : j \in 1 .. Len(ss[i])} : i \in 1 .. Len(ss)}
<1>1. ASSUME NEW i \in 1 .. Len(ss)
      PROVE  ss[i] \in Seq(S)
  <2> DEFINE x == ss[i]
  <2>1. IsSeq(x)
    BY DEF Lists
  <2>2. \A j \in 1 .. Len(x) : x[j] \in S
    OBVIOUS
  <2> HIDE DEF x, S
  <2>3. Len(x) \in Nat /\ x = [j \in 1 .. Len(x) |-> x[j]]
    BY <2>1, SeqFacts
  <2>4. x \in Seq(S)
    BY <2>2, <2>3, SeqDef
  <2>5. QED
    BY <2>4 DEF x
<1>2. QED
  BY <1>1

\* Nothing laid out is nothing.
LEMMA FlattenedNothing ==
  ASSUME NEW ss, IsSeq(ss), \A i \in 1 .. Len(ss) : ss[i] = << >>
  PROVE  FlattenSeq(ss) = << >>
<1>1. Lists(ss)
  BY CatFacts DEF Lists
<1>2. Len(ss) \in Nat
  BY SeqFacts
<1> DEFINE f == [i \in 0 .. Len(ss) |-> << >>]
<1>3. Cat(<< >>, << >>) = << >>
  BY CatFacts
<1>4. \A i \in 0 .. Len(ss) : f[i] = << >>
  OBVIOUS
<1>5. 0 \in 0 .. Len(ss) /\ Len(ss) \in 0 .. Len(ss)
      /\ \A i \in 1 .. Len(ss) : i \in 0 .. Len(ss) /\ i - 1 \in 0 .. Len(ss)
  BY <1>2
<1> HIDE DEF f
<1>6. Laid(f, ss)
  BY <1>3, <1>4, <1>5 DEF Laid
<1>7. QED
  BY <1>1, <1>4, <1>5, <1>6, LaidFlat

\* What is in a list is in what the lists are laid out in.
LEMMA FlattenedHas ==
  ASSUME NEW ss, Lists(ss), NEW i \in 1 .. Len(ss), NEW j \in 1 .. Len(ss[i])
  PROVE  \E k \in 1 .. Len(FlattenSeq(ss)) : FlattenSeq(ss)[k] = ss[i][j]
<1>1. PICK f : Laid(f, ss) /\ FlattenSeq(ss) = f[Len(ss)]
  BY LaidOut
<1>2. Len(ss) \in Nat
  BY SeqFacts DEF Lists
<1>3. \A m \in 0 .. Len(ss) : IsSeq(f[m])
  BY <1>1, LaidFine
<1> DEFINE x == ss[i][j]
           Has(s) == \E k \in 1 .. Len(s) : s[k] = x
           T == {n \in Nat : i + n <= Len(ss) => Has(f[i + n])}
<1>4. \A s, t : IsSeq(s) /\ IsSeq(t) /\ (Has(s) \/ Has(t)) => Has(Cat(s, t))
  <2> SUFFICES ASSUME NEW s, NEW t, IsSeq(s), IsSeq(t), Has(s) \/ Has(t)
               PROVE  Has(Cat(s, t))
    OBVIOUS
  <2> DEFINE u == Cat(s, t)
  <2>1. /\ Len(u) = Len(s) + Len(t)
        /\ \A k \in 1 .. Len(s) : u[k] = s[k]
        /\ \A k \in 1 .. Len(t) : u[Len(s) + k] = t[k]
    BY Joined DEF Cat
  <2>2. Len(s) \in Nat /\ Len(t) \in Nat
    BY SeqFacts
  <2> HIDE DEF u, x
  <2>3. CASE Has(s)
    <3>1. PICK k \in 1 .. Len(s) : s[k] = x
      BY <2>3
    <3>2. k \in 1 .. Len(u) /\ u[k] = x
      BY <2>1, <2>2, <3>1
    <3>3. QED
      BY <3>2 DEF u
  <2>4. CASE Has(t)
    <3>1. PICK k \in 1 .. Len(t) : t[k] = x
      BY <2>4
    <3>2. Len(s) + k \in 1 .. Len(u)
      BY <2>1, <2>2
    <3>3. u[Len(s) + k] = x
      BY <2>1, <3>1
    <3>4. QED
      BY <3>2, <3>3 DEF u
  <2>5. QED
    BY <2>3, <2>4
<1>5. Has(ss[i]) /\ IsSeq(ss[i])
  BY DEF Lists
<1>6. \A m \in 1 .. Len(ss) : IsSeq(ss[m]) /\ f[m] = Cat(f[m - 1], ss[m])
  BY <1>1 DEF Lists, Laid
<1> HIDE DEF Has
<1>7. 0 \in T
  <2>1. i - 1 \in 0 .. Len(ss) /\ i + 0 = i
    BY <1>2
  <2>2. Has(f[i])
    BY <1>3, <1>4, <1>5, <1>6, <2>1
  <2>3. QED
    BY <2>1, <2>2
<1>8. ASSUME NEW n \in T
      PROVE  n + 1 \in T
  <2> SUFFICES ASSUME i + (n + 1) <= Len(ss)
               PROVE  Has(f[i + (n + 1)])
    BY <1>8
  <2> DEFINE m == i + (n + 1)
  <2>1. m \in 1 .. Len(ss) /\ m - 1 = i + n /\ i + n \in 0 .. Len(ss) /\ Has(f[i + n])
    BY <1>2, <1>8
  <2> HIDE DEF m, T
  <2>2. Has(f[m])
    BY <1>3, <1>4, <1>6, <2>1
  <2>3. QED
    BY <2>2 DEF m
<1> HIDE DEF T
<1>9. T = Nat
  <2>1. T \in SUBSET Nat
    BY DEF T
  <2>2. QED
    BY <1>7, <1>8, <2>1, Climb
<1>10. Has(f[Len(ss)])
  <2>1. Len(ss) - i \in Nat /\ i + (Len(ss) - i) = Len(ss)
    BY <1>2
  <2> DEFINE d == Len(ss) - i
  <2>2. d \in T /\ i + d <= Len(ss)
    BY <1>2, <1>9, <2>1
  <2>3. Has(f[i + d])
    BY <2>2 DEF T
  <2>4. QED
    BY <2>1, <2>3
<1>11. QED
  BY <1>1, <1>10 DEF Has

\* A family of lists is a list of lists.
LEMMA FamilyLists ==
  ASSUME NEW n \in Nat, NEW tt, tt = [i \in 1 .. n |-> tt[i]], \A i \in 1 .. n : IsSeq(tt[i])
  PROVE  Lists(tt) /\ IsSeq(tt) /\ Len(tt) = n
<1>1. tt \in [1 .. n -> {tt[i] : i \in 1 .. n}]
  OBVIOUS
<1>2. IsSeq(tt) /\ Len(tt) = n
  BY <1>1, FamilyIsSeq
<1>3. QED
  BY <1>2 DEF Lists

\* A family over 1 .. n is a sequence of n.
LEMMA FamilySeq ==
  ASSUME NEW n \in Nat, NEW tt, tt = [i \in 1 .. n |-> tt[i]]
  PROVE  IsSeq(tt) /\ Len(tt) = n
<1>1. tt \in [1 .. n -> {tt[i] : i \in 1 .. n}]
  OBVIOUS
<1>2. QED
  BY <1>1, FamilyIsSeq

-----------------------------------------------------------------------------
(* What items say *)

Sorts == {"text", "call", "result"} \cup Media
Marked(item, kinds) == IF item.kind \in kinds THEN Mark(item) ELSE << >>
Marking(items, kinds) == [i \in 1 .. Len(items) |-> Marked(items[i], kinds)]

\* The mark of an item is a sequence, of one or none.
LEMMA MarkedFacts ==
  ASSUME NEW x, NEW kinds \in SUBSET Sorts
  PROVE  IsSeq(Marked(x, kinds))
<1>1. \A y : IsSeq(<<y>>)
  BY Singleton
<1>2. x.kind \in kinds => x.kind \in Sorts
  OBVIOUS
<1>3. x.kind \in Sorts => IsSeq(Mark(x))
  <2>1. CASE x.kind = "text"
    BY <1>1, <2>1, CatFacts DEF Mark
  <2>2. CASE x.kind \in Media
    BY <1>1, <2>2, CatFacts DEF Mark, Media
  <2>3. CASE x.kind = "call"
    BY <1>1, <2>3 DEF Mark, Media
  <2>4. CASE x.kind = "result"
    BY <1>1, <2>4 DEF Mark, Media
  <2>5. QED
    BY <2>1, <2>2, <2>3, <2>4 DEF Sorts
<1>4. QED
  BY <1>2, <1>3, CatFacts DEF Marked

\* Marks, item by item.
LEMMA MarkingFacts ==
  ASSUME NEW s, IsSeq(s), NEW kinds \in SUBSET Sorts
  PROVE  /\ Marks(s, kinds) = FlattenSeq(Marking(s, kinds))
         /\ Lists(Marking(s, kinds)) /\ Len(Marking(s, kinds)) = Len(s)
         /\ IsSeq(Marks(s, kinds))
<1>1. Len(s) \in Nat /\ DOMAIN s = 1 .. Len(s)
  BY SeqFacts
<1>2. Marks(s, kinds) = FlattenSeq(Marking(s, kinds))
  BY <1>1 DEF Marks, Marking, EachOf, Marked
<1>3. \A i \in 1 .. Len(s) : IsSeq(Marking(s, kinds)[i])
  BY MarkedFacts DEF Marking
<1>4. Marking(s, kinds) = [i \in 1 .. Len(s) |-> Marking(s, kinds)[i]]
  BY DEF Marking
<1>5. Lists(Marking(s, kinds)) /\ Len(Marking(s, kinds)) = Len(s)
  BY <1>1, <1>3, <1>4, FamilyLists
<1>6. QED
  BY <1>2, <1>5, FlattenedSeq

\* What two lists say together is what each says.
LEMMA MarksJoined ==
  ASSUME NEW kinds \in SUBSET Sorts
  PROVE  /\ Marks(<< >>, kinds) = << >>
         /\ \A x : Marks(<<x>>, kinds) = Marked(x, kinds)
         /\ \A s, t : IsSeq(s) /\ IsSeq(t) =>
              Marks(Cat(s, t), kinds) = Cat(Marks(s, kinds), Marks(t, kinds))
<1>1. Marks(<< >>, kinds) = << >>
  <2>1. IsSeq(<< >>) /\ Len(<< >>) = 0
    BY CatFacts
  <2>2. Len(Marking(<< >>, kinds)) = 0 /\ IsSeq(Marking(<< >>, kinds))
    BY <2>1, MarkingFacts DEF Lists
  <2>3. Marking(<< >>, kinds) = << >>
    BY <2>2, SeqFacts
  <2>4. QED
    BY <2>1, <2>3, MarkingFacts, FlattenedEnds
<1>2. ASSUME NEW x
      PROVE  Marks(<<x>>, kinds) = Marked(x, kinds)
  <2> DEFINE s == <<x>>
             tt == Marking(s, kinds)
             y == Marked(x, kinds)
  <2>1. IsSeq(s) /\ Len(s) = 1 /\ s[1] = x
    BY Singleton
  <2> HIDE DEF s
  <2>2. IsSeq(tt) /\ Len(tt) = 1 /\ Marks(s, kinds) = FlattenSeq(tt)
    BY <2>1, MarkingFacts DEF Lists
  <2>3. tt[1] = y
    BY <2>1 DEF Marking
  <2>4. IsSeq(<<y>>) /\ Len(<<y>>) = 1 /\ <<y>>[1] = y /\ IsSeq(y)
    BY Singleton, MarkedFacts
  <2> HIDE DEF tt, y
  <2>5. \A i \in 1 .. Len(tt) : tt[i] = <<y>>[i]
    BY <2>2, <2>3, <2>4
  <2>6. tt = <<y>>
    BY <2>2, <2>4, <2>5, SameSeq
  <2>7. QED
    BY <2>2, <2>4, <2>6, FlattenedEnds DEF s, y
<1>3. ASSUME NEW s, NEW t, IsSeq(s), IsSeq(t)
      PROVE  Marks(Cat(s, t), kinds) = Cat(Marks(s, kinds), Marks(t, kinds))
  <2> DEFINE u == Cat(s, t)
             a == Marking(s, kinds)
             b == Marking(t, kinds)
             c == Marking(u, kinds)
  <2>1. /\ IsSeq(u) /\ Len(u) = Len(s) + Len(t)
        /\ \A i \in 1 .. Len(s) + Len(t) :
              \/ i \in 1 .. Len(s) /\ u[i] = s[i]
              \/ i - Len(s) \in 1 .. Len(t) /\ u[i] = t[i - Len(s)]
    BY <1>3, Joined DEF Cat
  <2>2. Len(s) \in Nat /\ Len(t) \in Nat
    BY <1>3, SeqFacts
  <2> HIDE DEF u
  <2>3. Lists(a) /\ Lists(b) /\ Lists(c) /\ Len(a) = Len(s) /\ Len(b) = Len(t) /\ Len(c) = Len(u)
    BY <1>3, <2>1, MarkingFacts
  <2>4. \A i \in 1 .. Len(s) : a[i] = Marked(s[i], kinds)
    BY DEF Marking
  <2>5. \A i \in 1 .. Len(t) : b[i] = Marked(t[i], kinds)
    BY DEF Marking
  <2>6. \A i \in 1 .. Len(u) : c[i] = Marked(u[i], kinds)
    BY DEF Marking
  <2> HIDE DEF a, b, c
  <2> DEFINE v == a \o b
  <2>7. /\ IsSeq(v) /\ Len(v) = Len(a) + Len(b)
        /\ \A i \in 1 .. Len(a) : v[i] = a[i]
        /\ \A i \in 1 .. Len(b) : v[Len(a) + i] = b[i]
    BY <2>3, Joined DEF Lists
  <2> HIDE DEF v
  <2>8. ASSUME NEW i \in 1 .. Len(c)
        PROVE  c[i] = v[i]
    <3>1. CASE i \in 1 .. Len(s) /\ u[i] = s[i]
      BY <2>1, <2>2, <2>3, <2>4, <2>6, <2>7, <3>1
    <3>2. CASE i - Len(s) \in 1 .. Len(t) /\ u[i] = t[i - Len(s)]
      <4> DEFINE j == i - Len(s)
      <4>1. j \in 1 .. Len(t) /\ Len(s) + j = i /\ u[i] = t[j]
        BY <2>1, <2>2, <2>3, <3>2
      <4> HIDE DEF j
      <4>2. v[i] = b[j]
        BY <2>3, <2>7, <4>1
      <4>3. QED
        BY <2>3, <2>5, <2>6, <4>1, <4>2
    <3>3. QED
      BY <2>1, <2>3, <3>1, <3>2
  <2>9. c = v
    <3>1. IsSeq(c) /\ Len(c) = Len(v)
      BY <2>1, <2>3, <2>7 DEF Lists
    <3>2. QED
      BY <2>7, <2>8, <3>1, SameSeq
  <2>10. FlattenSeq(v) = Cat(FlattenSeq(a), FlattenSeq(b))
    BY <2>3, FlattenedJoin DEF v
  <2>11. /\ Marks(s, kinds) = FlattenSeq(a) /\ Marks(t, kinds) = FlattenSeq(b)
         /\ Marks(u, kinds) = FlattenSeq(c)
    BY <1>3, <2>1, MarkingFacts DEF a, b, c
  <2>12. QED
    BY <2>9, <2>10, <2>11 DEF u
<1>4. QED
  BY <1>1, <1>2, <1>3

\* What lists say when they are laid out is what each says, laid out.
LEMMA MarksFlat ==
  ASSUME NEW ss, Lists(ss), NEW kinds \in SUBSET Sorts
  PROVE  /\ Lists([i \in 1 .. Len(ss) |-> Marks(ss[i], kinds)])
         /\ Marks(FlattenSeq(ss), kinds) = FlattenSeq([i \in 1 .. Len(ss) |-> Marks(ss[i], kinds)])
<1>1. PICK S : \A i \in 1 .. Len(ss) : ss[i] \in Seq(S)
  BY InOneSet
<1>2. \A s \in Seq(S) : IsSeq(s)
  BY DEF IsSeq
<1> DEFINE h == [s \in Seq(S) |-> Marks(s, kinds)]
<1>3. << >> \in Seq(S)
  OBVIOUS
<1>4. \A s, t \in Seq(S) : Cat(s, t) \in Seq(S)
  BY DEF Cat
<1>5. \A s \in Seq(S) : h[s] = Marks(s, kinds)
  OBVIOUS
<1> HIDE DEF h
<1>6. ASSUME NEW s \in Seq(S), NEW t \in Seq(S)
      PROVE  h[Cat(s, t)] = Cat(h[s], h[t])
  <2>1. IsSeq(s) /\ IsSeq(t)
    BY <1>2
  <2>2. Marks(Cat(s, t), kinds) = Cat(Marks(s, kinds), Marks(t, kinds))
    BY <2>1, MarksJoined
  <2>3. Cat(s, t) \in Seq(S)
    BY <1>4
  <2>4. QED
    BY <1>5, <2>2, <2>3
<1>7. Additive(h, S)
  BY <1>2, <1>3, <1>5, <1>6, MarksJoined, MarkingFacts DEF Additive
<1>8. IsSeq(ss)
  BY DEF Lists
<1>9. /\ FlattenSeq(ss) \in Seq(S)
      /\ Lists([i \in 1 .. Len(ss) |-> h[ss[i]]])
      /\ h[FlattenSeq(ss)] = FlattenSeq([i \in 1 .. Len(ss) |-> h[ss[i]]])
  BY <1>1, <1>7, <1>8, Homomorphic
<1>10. [i \in 1 .. Len(ss) |-> h[ss[i]]] = [i \in 1 .. Len(ss) |-> Marks(ss[i], kinds)]
  BY <1>1, <1>5
<1>11. QED
  BY <1>5, <1>9, <1>10

\* Lists that say the same, element by element or piece by piece, say the same.
LEMMA MarksAlike ==
  ASSUME NEW s, NEW t, IsSeq(s), IsSeq(t), Len(s) = Len(t), NEW kinds \in SUBSET Sorts,
         NEW more \in SUBSET Sorts,
         \A i \in 1 .. Len(s) : Marked(s[i], kinds) = Marked(t[i], more)
  PROVE  Marks(s, kinds) = Marks(t, more)
<1>1. Marking(s, kinds) = Marking(t, more)
  BY DEF Marking
<1>2. QED
  BY <1>1, MarkingFacts

\* Items that are each made into several have the marks of what they are made
\* into.
LEMMA MarksPieces ==
  ASSUME NEW s, IsSeq(s), NEW tt, Lists(tt), Len(tt) = Len(s), NEW kinds \in SUBSET Sorts,
         NEW more \in SUBSET Sorts,
         \A i \in 1 .. Len(s) : Marks(tt[i], kinds) = Marked(s[i], more)
  PROVE  Marks(FlattenSeq(tt), kinds) = Marks(s, more)
<1>1. Marks(FlattenSeq(tt), kinds) = FlattenSeq([i \in 1 .. Len(tt) |-> Marks(tt[i], kinds)])
  BY MarksFlat
<1>2. [i \in 1 .. Len(tt) |-> Marks(tt[i], kinds)] = Marking(s, more)
  BY DEF Marking
<1>3. QED
  BY <1>1, <1>2, MarkingFacts

\* Items without marks of a kind come to nothing.
LEMMA MarksNothing ==
  ASSUME NEW s, IsSeq(s), NEW kinds \in SUBSET Sorts,
         \A i \in 1 .. Len(s) : Marked(s[i], kinds) = << >>
  PROVE  Marks(s, kinds) = << >>
<1> DEFINE tt == Marking(s, kinds)
<1>1. Lists(tt) /\ Len(tt) = Len(s) /\ Marks(s, kinds) = FlattenSeq(tt)
  BY MarkingFacts
<1>2. \A i \in 1 .. Len(s) : tt[i] = << >>
  BY DEF Marking
<1> HIDE DEF tt
<1>3. QED
  BY <1>1, <1>2, FlattenedNothing DEF Lists

-----------------------------------------------------------------------------
(* Items of some kinds *)

Kinded(x, kinds) == IF x.kind \in kinds THEN <<x>> ELSE << >>
Kinding(items, kinds) == [i \in 1 .. Len(items) |-> Kinded(items[i], kinds)]

\* OfKind, item by item; it has the items of the kinds and no others.
LEMMA KindedFacts ==
  ASSUME NEW s, IsSeq(s), NEW kinds
  PROVE  /\ OfKind(s, kinds) = FlattenSeq(Kinding(s, kinds))
         /\ Lists(Kinding(s, kinds)) /\ Len(Kinding(s, kinds)) = Len(s)
         /\ IsSeq(OfKind(s, kinds))
         /\ \A k \in 1 .. Len(OfKind(s, kinds)) :
              /\ OfKind(s, kinds)[k].kind \in kinds
              /\ \E i \in 1 .. Len(s) : OfKind(s, kinds)[k] = s[i]
         /\ \A i \in 1 .. Len(s) : s[i].kind \in kinds =>
              \E k \in 1 .. Len(OfKind(s, kinds)) : OfKind(s, kinds)[k] = s[i]
<1> DEFINE tt == Kinding(s, kinds)
<1>1. Len(s) \in Nat /\ DOMAIN s = 1 .. Len(s)
  BY SeqFacts
<1>2. OfKind(s, kinds) = FlattenSeq(tt)
  BY <1>1 DEF OfKind, EachOf, Kinding, Kinded
<1>3. \A i \in 1 .. Len(s) : tt[i] = Kinded(s[i], kinds)
  BY DEF Kinding
<1>4. tt = [i \in 1 .. Len(s) |-> tt[i]]
  BY DEF Kinding
<1>5. \A x : IsSeq(<<x>>) /\ Len(<<x>>) = 1 /\ <<x>>[1] = x
  BY Singleton
<1>6. IsSeq(<< >>) /\ Len(<< >>) = 0
  BY CatFacts
<1> HIDE DEF tt
<1>7. \A i \in 1 .. Len(s) : IsSeq(tt[i])
  BY <1>3, <1>5, <1>6 DEF Kinded
<1>8. Lists(tt) /\ Len(tt) = Len(s)
  BY <1>1, <1>4, <1>7, FamilyLists
<1> DEFINE r == FlattenSeq(tt)
<1>9. \A k \in 1 .. Len(r) : \E i \in 1 .. Len(tt) : \E j \in 1 .. Len(tt[i]) : r[k] = tt[i][j]
  BY <1>8, FlattenedFacts DEF Lists
<1>10. ASSUME NEW k \in 1 .. Len(r)
       PROVE  r[k].kind \in kinds /\ \E i \in 1 .. Len(s) : r[k] = s[i]
  <2>1. PICK i \in 1 .. Len(tt) : \E j \in 1 .. Len(tt[i]) : r[k] = tt[i][j]
    BY <1>9
  <2>2. PICK j \in 1 .. Len(tt[i]) : r[k] = tt[i][j]
    BY <2>1
  <2>3. tt[i] = IF s[i].kind \in kinds THEN <<s[i]>> ELSE << >>
    BY <1>3, <1>8 DEF Kinded
  <2> DEFINE x == s[i]
  <2>4. CASE x.kind \in kinds
    <3> HIDE DEF r, x
    <3>1. tt[i] = <<x>>
      BY <2>3, <2>4 DEF x
    <3>2. j = 1 /\ r[k] = x
      BY <1>5, <2>2, <3>1
    <3>3. QED
      BY <1>8, <2>4, <3>2 DEF x
  <2>5. CASE x.kind \notin kinds
    <3>1. Len(tt[i]) = 0
      BY <1>6, <2>3, <2>5
    <3>2. QED
      BY <2>2, <3>1
  <2>6. QED
    BY <2>4, <2>5
<1>11. ASSUME NEW i \in 1 .. Len(s), s[i].kind \in kinds
       PROVE  \E k \in 1 .. Len(r) : r[k] = s[i]
  <2> DEFINE x == s[i]
  <2>1. tt[i] = <<x>>
    BY <1>3, <1>11 DEF Kinded
  <2> HIDE DEF x
  <2>2. 1 \in 1 .. Len(tt[i]) /\ tt[i][1] = x
    BY <1>5, <2>1
  <2>3. i \in 1 .. Len(tt)
    BY <1>8
  <2>4. QED
    BY <1>8, <2>2, <2>3, FlattenedHas DEF x
<1>12. IsSeq(r)
  BY <1>8, FlattenedSeq
<1> HIDE DEF r
<1>13. QED
  BY <1>2, <1>8, <1>10, <1>11, <1>12 DEF r, tt

\* What is said by those of some kinds.
LEMMA MarksOfKind ==
  ASSUME NEW s, IsSeq(s), NEW kinds \in SUBSET Sorts, NEW chosen
  PROVE  Marks(OfKind(s, chosen), kinds) = Marks(s, kinds \cap chosen)
<1> DEFINE tt == Kinding(s, chosen)
<1>1. Lists(tt) /\ Len(tt) = Len(s) /\ OfKind(s, chosen) = FlattenSeq(tt)
  BY KindedFacts
<1>2. ASSUME NEW i \in 1 .. Len(s)
      PROVE  Marks(tt[i], kinds) = Marked(s[i], kinds \cap chosen)
  <2>1. tt[i] = Kinded(s[i], chosen)
    BY DEF Kinding
  <2> DEFINE x == s[i]
  <2> HIDE DEF x, tt
  <2>2. Marks(<<x>>, kinds) = Marked(x, kinds) /\ Marks(<< >>, kinds) = << >>
    BY MarksJoined
  <2>3. CASE x.kind \in chosen
    <3>1. tt[i] = <<x>>
      BY <2>1, <2>3 DEF Kinded, x
    <3>2. Marked(x, kinds) = Marked(x, kinds \cap chosen)
      BY <2>3 DEF Marked
    <3>3. QED
      BY <2>2, <3>1, <3>2 DEF x
  <2>4. CASE x.kind \notin chosen
    <3>1. tt[i] = << >>
      BY <2>1, <2>4 DEF Kinded, x
    <3>2. Marked(x, kinds \cap chosen) = << >>
      BY <2>4 DEF Marked
    <3>3. QED
      BY <2>2, <3>1, <3>2 DEF x
  <2>5. QED
    BY <2>3, <2>4
<1> DEFINE more == kinds \cap chosen
<1>3. more \in SUBSET Sorts /\ \A i \in 1 .. Len(s) : Marks(tt[i], kinds) = Marked(s[i], more)
  BY <1>2
<1> HIDE DEF tt, more
<1>4. QED
  <2>1. Marks(FlattenSeq(tt), kinds) = Marks(s, more)
    BY <1>1, <1>3, MarksPieces
  <2>2. QED
    BY <1>1, <2>1 DEF more, tt

-----------------------------------------------------------------------------
(* Turns of a body *)

IsTurn(x) == x = [role |-> x.role, blocks |-> x.blocks] /\ IsSeq(x.blocks)
Bodied(turns) == IsSeq(turns) /\ \A i \in 1 .. Len(turns) : IsTurn(turns[i])
Spelled(turns) == [i \in 1 .. Len(turns) |-> turns[i].blocks]

\* Blocks, turn by turn.
LEMMA BlocksFacts ==
  ASSUME NEW turns, Bodied(turns)
  PROVE  /\ Blocks(turns) = FlattenSeq(Spelled(turns))
         /\ Lists(Spelled(turns)) /\ Len(Spelled(turns)) = Len(turns)
         /\ IsSeq(Blocks(turns))
<1>1. Len(turns) \in Nat /\ DOMAIN turns = 1 .. Len(turns)
  BY SeqFacts DEF Bodied
<1>2. Blocks(turns) = FlattenSeq(Spelled(turns))
  BY <1>1 DEF Blocks, Spelled, EachOf
<1>3. \A i \in 1 .. Len(turns) : IsSeq(Spelled(turns)[i])
  BY DEF Spelled, Bodied, IsTurn
<1>4. Spelled(turns) = [i \in 1 .. Len(turns) |-> Spelled(turns)[i]]
  BY DEF Spelled
<1>5. Lists(Spelled(turns)) /\ Len(Spelled(turns)) = Len(turns)
  BY <1>1, <1>3, <1>4, FamilyLists
<1>6. QED
  BY <1>2, <1>5, FlattenedSeq

\* The turns of a body, and then those of another.
LEMMA BodiedJoined ==
  ASSUME NEW s, NEW t, Bodied(s), Bodied(t)
  PROVE  Bodied(Cat(s, t))
<1> DEFINE u == Cat(s, t)
<1>1. /\ IsSeq(u) /\ Len(u) = Len(s) + Len(t)
      /\ \A i \in 1 .. Len(s) + Len(t) :
            \/ i \in 1 .. Len(s) /\ u[i] = s[i]
            \/ i - Len(s) \in 1 .. Len(t) /\ u[i] = t[i - Len(s)]
  BY Joined DEF Cat, Bodied
<1>2. QED
  BY <1>1 DEF Bodied

\* Blocks of no turn, of one, and of turns after turns.
LEMMA BlocksJoined ==
  /\ Bodied(<< >>) /\ Blocks(<< >>) = << >>
  /\ \A x : IsTurn(x) => Bodied(<<x>>) /\ Blocks(<<x>>) = x.blocks
  /\ \A s, t : Bodied(s) /\ Bodied(t) => Blocks(Cat(s, t)) = Cat(Blocks(s), Blocks(t))
<1>1. Bodied(<< >>) /\ Blocks(<< >>) = << >>
  <2>1. IsSeq(<< >>) /\ Len(<< >>) = 0
    BY CatFacts
  <2>2. Bodied(<< >>)
    BY <2>1 DEF Bodied
  <2>3. Len(Spelled(<< >>)) = 0 /\ IsSeq(Spelled(<< >>))
    BY <2>1, <2>2, BlocksFacts DEF Lists
  <2>4. Spelled(<< >>) = << >>
    BY <2>3, SeqFacts
  <2>5. QED
    BY <2>2, <2>4, BlocksFacts, FlattenedEnds
<1>2. ASSUME NEW x, IsTurn(x)
      PROVE  Bodied(<<x>>) /\ Blocks(<<x>>) = x.blocks
  <2> DEFINE s == <<x>>
             tt == Spelled(s)
             y == x.blocks
  <2>1. IsSeq(s) /\ Len(s) = 1 /\ s[1] = x
    BY Singleton
  <2> HIDE DEF s
  <2>2. Bodied(s)
    BY <1>2, <2>1 DEF Bodied
  <2>3. IsSeq(tt) /\ Len(tt) = 1 /\ Blocks(s) = FlattenSeq(tt)
    BY <2>1, <2>2, BlocksFacts DEF Lists
  <2>4. tt[1] = y
    BY <2>1 DEF Spelled
  <2>5. IsSeq(<<y>>) /\ Len(<<y>>) = 1 /\ <<y>>[1] = y /\ IsSeq(y)
    BY <1>2, Singleton DEF IsTurn
  <2> HIDE DEF tt, y
  <2>6. \A i \in 1 .. Len(tt) : tt[i] = <<y>>[i]
    BY <2>3, <2>4, <2>5
  <2>7. tt = <<y>>
    BY <2>3, <2>5, <2>6, SameSeq
  <2>8. QED
    BY <2>2, <2>3, <2>5, <2>7, FlattenedEnds DEF s, y
<1>3. ASSUME NEW s, NEW t, Bodied(s), Bodied(t)
      PROVE  Blocks(Cat(s, t)) = Cat(Blocks(s), Blocks(t))
  <2> DEFINE u == Cat(s, t)
             a == Spelled(s)
             b == Spelled(t)
             c == Spelled(u)
  <2>1. /\ Len(u) = Len(s) + Len(t)
        /\ \A i \in 1 .. Len(s) + Len(t) :
              \/ i \in 1 .. Len(s) /\ u[i] = s[i]
              \/ i - Len(s) \in 1 .. Len(t) /\ u[i] = t[i - Len(s)]
    BY <1>3, Joined DEF Cat, Bodied
  <2>2. Len(s) \in Nat /\ Len(t) \in Nat
    BY <1>3, SeqFacts DEF Bodied
  <2>3. Bodied(u)
    BY <1>3, BodiedJoined
  <2> HIDE DEF u
  <2>4. Lists(a) /\ Lists(b) /\ Lists(c) /\ Len(a) = Len(s) /\ Len(b) = Len(t) /\ Len(c) = Len(u)
    BY <1>3, <2>3, BlocksFacts
  <2>5. \A i \in 1 .. Len(s) : a[i] = s[i].blocks
    BY DEF Spelled
  <2>6. \A i \in 1 .. Len(t) : b[i] = t[i].blocks
    BY DEF Spelled
  <2>7. \A i \in 1 .. Len(u) : c[i] = u[i].blocks
    BY DEF Spelled
  <2> HIDE DEF a, b, c
  <2> DEFINE v == a \o b
  <2>8. /\ IsSeq(v) /\ Len(v) = Len(a) + Len(b)
        /\ \A i \in 1 .. Len(a) : v[i] = a[i]
        /\ \A i \in 1 .. Len(b) : v[Len(a) + i] = b[i]
    BY <2>4, Joined DEF Lists
  <2> HIDE DEF v
  <2>9. ASSUME NEW i \in 1 .. Len(c)
        PROVE  c[i] = v[i]
    <3>1. CASE i \in 1 .. Len(s) /\ u[i] = s[i]
      BY <2>1, <2>2, <2>4, <2>5, <2>7, <2>8, <3>1
    <3>2. CASE i - Len(s) \in 1 .. Len(t) /\ u[i] = t[i - Len(s)]
      <4> DEFINE j == i - Len(s)
      <4>1. j \in 1 .. Len(t) /\ Len(s) + j = i /\ u[i] = t[j]
        BY <2>1, <2>2, <2>4, <3>2
      <4> HIDE DEF j
      <4>2. v[i] = b[j]
        BY <2>4, <2>8, <4>1
      <4>3. QED
        BY <2>4, <2>6, <2>7, <4>1, <4>2
    <3>3. QED
      BY <2>1, <2>4, <3>1, <3>2
  <2>10. c = v
    <3>1. IsSeq(c) /\ Len(c) = Len(v)
      BY <2>1, <2>4, <2>8 DEF Lists
    <3>2. QED
      BY <2>8, <2>9, <3>1, SameSeq
  <2>11. FlattenSeq(v) = Cat(FlattenSeq(a), FlattenSeq(b))
    BY <2>4, FlattenedJoin DEF v
  <2>12. Blocks(s) = FlattenSeq(a) /\ Blocks(t) = FlattenSeq(b) /\ Blocks(u) = FlattenSeq(c)
    BY <1>3, <2>3, BlocksFacts DEF a, b, c
  <2>13. QED
    BY <2>10, <2>11, <2>12 DEF u
<1>4. QED
  BY <1>1, <1>2, <1>3

\* The blocks of turns that are laid out are the blocks of each, laid out.
LEMMA BlocksFlat ==
  ASSUME NEW ss, IsSeq(ss), \A i \in 1 .. Len(ss) : Bodied(ss[i])
  PROVE  /\ Lists(ss) /\ Bodied(FlattenSeq(ss))
         /\ Lists([i \in 1 .. Len(ss) |-> Blocks(ss[i])])
         /\ Blocks(FlattenSeq(ss)) = FlattenSeq([i \in 1 .. Len(ss) |-> Blocks(ss[i])])
<1>1. Lists(ss)
  BY DEF Lists, Bodied
<1>2. PICK U : \A i \in 1 .. Len(ss) : ss[i] \in Seq(U)
  BY <1>1, InOneSet
<1> DEFINE S == {x \in U : IsTurn(x)}
<1>3. ASSUME NEW i \in 1 .. Len(ss)
      PROVE  ss[i] \in Seq(S)
  <2> DEFINE x == ss[i]
  <2>1. x \in Seq(U) /\ IsSeq(x) /\ \A j \in 1 .. Len(x) : IsTurn(x[j])
    BY <1>2 DEF Bodied
  <2> HIDE DEF x, S
  <2>2. \A j \in 1 .. Len(x) : x[j] \in U
    BY <2>1
  <2>3. \A j \in 1 .. Len(x) : x[j] \in S
    BY <2>1, <2>2 DEF S
  <2>4. Len(x) \in Nat /\ x = [j \in 1 .. Len(x) |-> x[j]]
    BY <2>1, SeqFacts
  <2>5. x \in Seq(S)
    BY <2>3, <2>4, SeqDef
  <2>6. QED
    BY <2>5 DEF x
<1>4. ASSUME NEW s \in Seq(S)
      PROVE  Bodied(s)
  <2>1. IsSeq(s)
    BY DEF IsSeq
  <2>2. \A i \in 1 .. Len(s) : s[i] \in S
    OBVIOUS
  <2>3. QED
    BY <2>1, <2>2 DEF Bodied
<1> HIDE DEF S
<1> DEFINE h == [s \in Seq(S) |-> Blocks(s)]
<1>5. << >> \in Seq(S)
  OBVIOUS
<1>6. \A s, t \in Seq(S) : Cat(s, t) \in Seq(S)
  BY DEF Cat
<1>7. \A s \in Seq(S) : h[s] = Blocks(s)
  OBVIOUS
<1> HIDE DEF h
<1>8. ASSUME NEW s \in Seq(S), NEW t \in Seq(S)
      PROVE  h[Cat(s, t)] = Cat(h[s], h[t])
  <2>1. Bodied(s) /\ Bodied(t)
    BY <1>4
  <2>2. Blocks(Cat(s, t)) = Cat(Blocks(s), Blocks(t))
    BY <2>1, BlocksJoined
  <2>3. Cat(s, t) \in Seq(S)
    BY <1>6
  <2>4. QED
    BY <1>7, <2>2, <2>3
<1>9. \A s \in Seq(S) : IsSeq(h[s])
  BY <1>4, <1>7, BlocksFacts
<1>10. h[<< >>] = << >>
  BY <1>5, <1>7, BlocksJoined
<1>11. Additive(h, S)
  BY <1>8, <1>9, <1>10 DEF Additive
<1>12. /\ FlattenSeq(ss) \in Seq(S)
       /\ Lists([i \in 1 .. Len(ss) |-> h[ss[i]]])
       /\ h[FlattenSeq(ss)] = FlattenSeq([i \in 1 .. Len(ss) |-> h[ss[i]]])
  BY <1>3, <1>11, Homomorphic
<1>13. [i \in 1 .. Len(ss) |-> h[ss[i]]] = [i \in 1 .. Len(ss) |-> Blocks(ss[i])]
  BY <1>3, <1>7
<1>14. Bodied(FlattenSeq(ss))
  BY <1>4, <1>12
<1>15. QED
  BY <1>1, <1>7, <1>12, <1>13, <1>14

\* Merging moves no block.
Merging(f, turns) ==
  /\ f[0] = << >>
  /\ \A i \in 1 .. Len(turns) : f[i] = Pushed(f[i - 1], turns[i])

\* Merged as a trace of Pushed.
LEMMA MergingTraced ==
  ASSUME NEW ss, IsSeq(ss)
  PROVE  \E f : Merging(f, ss) /\ Merged(ss) = f[Len(ss)]
<1> DEFINE Def(f, n) ==
             f = [i \in 0 .. n |-> IF i = 0 THEN << >> ELSE Pushed(f[i - 1], ss[i])]
           T == {n \in Nat : \E f : Def(f, n)}
<1>1. 0 \in T
  <2> DEFINE f == [i \in 0 .. 0 |-> << >>]
  <2>1. Def(f, 0)
    OBVIOUS
  <2>2. QED
    BY <2>1
<1>2. ASSUME NEW n \in T
      PROVE  n + 1 \in T
  <2>1. PICK f : Def(f, n)
    BY <1>2
  <2>2. n \in Nat
    BY <1>2
  <2> DEFINE g == [i \in 0 .. n + 1 |-> IF i = n + 1 THEN Pushed(f[n], ss[n + 1]) ELSE f[i]]
  <2>3. \A i \in 0 .. n : f[i] = IF i = 0 THEN << >> ELSE Pushed(f[i - 1], ss[i])
    BY <2>1
  <2>4. \A i \in 0 .. n : g[i] = f[i]
    BY <2>2
  <2>5. g[n + 1] = Pushed(g[n], ss[n + 1])
    BY <2>2, <2>4
  <2> HIDE DEF Def, T
  <2>6. \A i \in 0 .. n + 1 : g[i] = IF i = 0 THEN << >> ELSE Pushed(g[i - 1], ss[i])
    <3> SUFFICES ASSUME NEW i \in 0 .. n + 1
                 PROVE  g[i] = IF i = 0 THEN << >> ELSE Pushed(g[i - 1], ss[i])
      OBVIOUS
    <3>1. CASE i = n + 1
      <4>1. i # 0 /\ i - 1 = n
        BY <2>2, <3>1
      <4>2. QED
        BY <2>5, <3>1, <4>1
    <3>2. CASE i # n + 1
      <4>1. i \in 0 .. n /\ (i # 0 => i - 1 \in 0 .. n)
        BY <2>2, <3>2
      <4> HIDE DEF g
      <4>2. QED
        BY <2>3, <2>4, <4>1
    <3>3. QED
      BY <3>1, <3>2
  <2>7. g = [i \in 0 .. n + 1 |-> g[i]]
    OBVIOUS
  <2> HIDE DEF g
  <2>8. Def(g, n + 1)
    BY <2>6, <2>7 DEF Def
  <2>9. QED
    BY <2>2, <2>8 DEF T
<1>3. Len(ss) \in T
  <2> HIDE DEF T
  <2>1. T \in SUBSET Nat
    BY DEF T
  <2>2. T = Nat
    BY <1>1, <1>2, <2>1, Climb
  <2>3. QED
    BY <2>2, SeqFacts
<1> DEFINE at[i \in 0 .. Len(ss)] == IF i = 0 THEN << >> ELSE Pushed(at[i - 1], ss[i])
<1>4. at = [i \in 0 .. Len(ss) |-> IF i = 0 THEN << >> ELSE Pushed(at[i - 1], ss[i])]
  <2>1. \E f : f = [i \in 0 .. Len(ss) |-> IF i = 0 THEN << >> ELSE Pushed(f[i - 1], ss[i])]
    BY <1>3
  <2>2. QED
    BY <2>1
<1> HIDE DEF at
<1>5. at[0] = << >> /\ \A i \in 1 .. Len(ss) : at[i] = Pushed(at[i - 1], ss[i])
  <2>1. Len(ss) \in Nat
    BY SeqFacts
  <2>2. \A i \in 1 .. Len(ss) : i \in 0 .. Len(ss) /\ i # 0
    BY <2>1
  <2>3. 0 \in 0 .. Len(ss)
    BY <2>1
  <2>4. QED
    BY <1>4, <2>2, <2>3
<1>6. Merging(at, ss)
  BY <1>5 DEF Merging
<1>7. Merged(ss) = at[Len(ss)]
  BY DEF Merged, at
<1>8. QED
  BY <1>6, <1>7

\* Pushed: a turn that joins another or follows it brings its blocks after what
\* is there.
LEMMA PushedFacts ==
  ASSUME NEW out, Bodied(out), NEW turn, IsTurn(turn)
  PROVE  Bodied(Pushed(out, turn)) /\ Blocks(Pushed(out, turn)) = Cat(Blocks(out), turn.blocks)
<1>1. CASE out # << >> /\ Last(out).role = turn.role
  <2> DEFINE n == Len(out)
             last == out[n]
             joined == [role |-> last.role, blocks |-> last.blocks \o turn.blocks]
             front == [i \in 1 .. n - 1 |-> out[i]]
             new == [out EXCEPT ![n].blocks = @ \o turn.blocks]
  <2>1. Pushed(out, turn) = new
    BY <1>1 DEF Pushed, Last
  <2>2. IsSeq(out) /\ n \in Nat /\ n # 0 /\ DOMAIN out = 1 .. n
    BY <1>1, SeqFacts DEF Bodied
  <2>3. n - 1 \in Nat /\ n \in 1 .. n
    BY <2>2
  <2>4. IsSeq(front) /\ Len(front) = n - 1
    <3>1. front = [i \in 1 .. n - 1 |-> front[i]]
      OBVIOUS
    <3> HIDE DEF front
    <3>2. QED
      BY <2>3, <3>1, FamilySeq
  <2>5. \A i \in 1 .. n - 1 : front[i] = out[i] /\ i \in 1 .. n /\ i # n
    <3>1. \A i \in 1 .. n - 1 : front[i] = out[i]
      OBVIOUS
    <3> HIDE DEF front
    <3>2. \A k \in Nat : \A i \in 1 .. k - 1 : i \in 1 .. k /\ i # k
      OBVIOUS
    <3> HIDE DEF n
    <3>3. QED
      BY <2>2, <3>1, <3>2
  <2>6. IsTurn(last)
    BY <2>3 DEF Bodied
  <2>7. IsTurn(joined) /\ joined.blocks = Cat(last.blocks, turn.blocks)
    <3>1. IsSeq(Cat(last.blocks, turn.blocks))
      BY <2>6, CatFacts DEF IsTurn
    <3>2. QED
      BY <3>1 DEF IsTurn, Cat
  <2>8. new = [i \in 1 .. n |-> IF i = n THEN joined ELSE out[i]]
    <3>1. [last EXCEPT !.blocks = @ \o turn.blocks] = joined
      <4> DEFINE r == last.role
                 b == last.blocks
                 c == b \o turn.blocks
      <4>1. last = [role |-> r, blocks |-> b]
        BY <2>6 DEF IsTurn
      <4> HIDE DEF r, b, c
      <4>2. [[role |-> r, blocks |-> b] EXCEPT !.blocks = c] = [role |-> r, blocks |-> c]
        OBVIOUS
      <4> HIDE DEF last
      <4>3. [last EXCEPT !.blocks = c] = [role |-> r, blocks |-> c]
        BY <4>1, <4>2
      <4>4. QED
        BY <4>3 DEF r, b, c
    <3>2. new = [out EXCEPT ![n] = [last EXCEPT !.blocks = @ \o turn.blocks]]
      OBVIOUS
    <3> HIDE DEF joined, new
    <3>3. new = [out EXCEPT ![n] = joined]
      BY <3>1, <3>2
    <3> HIDE DEF n
    <3>4. QED
      BY <2>2, <3>3
  <2>9. Bodied(front)
    BY <2>4, <2>5 DEF Bodied
  <2> HIDE DEF front, joined, last, n
  <2>10. \A x : IsSeq(<<x>>) /\ Len(<<x>>) = 1 /\ <<x>>[1] = x
    BY Singleton
  <2>11. out = Cat(front, <<last>>)
    <3> DEFINE u == Cat(front, <<last>>)
    <3>1. /\ IsSeq(u) /\ Len(u) = n - 1 + 1
          /\ \A i \in 1 .. n - 1 : u[i] = front[i]
          /\ \A i \in 1 .. 1 : u[n - 1 + i] = <<last>>[i]
      BY <2>4, <2>10, Joined DEF Cat
    <3> HIDE DEF u
    <3>2. n - 1 + 1 = n
      BY <2>2
    <3>3. u[n] = out[n]
      BY <2>10, <3>1, <3>2 DEF last
    <3>4. \A i \in 1 .. n : i \in 1 .. n - 1 \/ i = n
      BY <2>2
    <3>5. \A i \in 1 .. Len(out) : out[i] = u[i]
      BY <2>5, <3>1, <3>3, <3>4 DEF n
    <3>6. QED
      BY <2>2, <3>1, <3>2, <3>5, SameSeq DEF u, n
  <2>12. IsSeq(new) /\ Len(new) = n
    <3>1. new = [i \in 1 .. n |-> new[i]]
      BY <2>8
    <3> HIDE DEF new
    <3>2. QED
      BY <2>2, <3>1, FamilySeq
  <2>13. new = Cat(front, <<joined>>)
    <3> DEFINE u == Cat(front, <<joined>>)
    <3>1. /\ IsSeq(u) /\ Len(u) = n - 1 + 1
          /\ \A i \in 1 .. n - 1 : u[i] = front[i]
          /\ \A i \in 1 .. 1 : u[n - 1 + i] = <<joined>>[i]
      BY <2>4, <2>10, Joined DEF Cat
    <3> HIDE DEF u
    <3>2. n - 1 + 1 = n
      BY <2>2
    <3>3. u[n] = new[n]
      <4>1. new[n] = joined
        BY <2>3, <2>8
      <4> HIDE DEF new
      <4>2. 1 \in 1 .. 1 /\ <<joined>>[1] = joined
        BY <2>10
      <4>3. u[n - 1 + 1] = <<joined>>[1]
        BY <3>1, <4>2
      <4>4. QED
        BY <3>2, <4>1, <4>2, <4>3
    <3>4. \A i \in 1 .. n : i \in 1 .. n - 1 \/ i = n
      BY <2>2
    <3>5. \A i \in 1 .. n - 1 : new[i] = front[i]
      BY <2>5, <2>8
    <3> HIDE DEF new
    <3>6. \A i \in 1 .. Len(new) : new[i] = u[i]
      BY <2>12, <3>1, <3>3, <3>4, <3>5
    <3>7. QED
      BY <2>12, <3>1, <3>2, <3>6, SameSeq DEF u
  <2> HIDE DEF new
  <2>14. Bodied(new) /\ Blocks(new) = Cat(Blocks(front), joined.blocks)
    BY <2>7, <2>9, <2>13, BlocksJoined, BodiedJoined
  <2>15. Blocks(out) = Cat(Blocks(front), last.blocks)
    BY <2>6, <2>9, <2>11, BlocksJoined
  <2>16. Cat(Cat(Blocks(front), last.blocks), turn.blocks) =
           Cat(Blocks(front), Cat(last.blocks, turn.blocks))
    BY <2>6, <2>9, BlocksFacts, CatFacts DEF IsTurn
  <2>17. QED
    BY <2>1, <2>7, <2>14, <2>15, <2>16
<1>2. CASE ~(out # << >> /\ Last(out).role = turn.role)
  <2>1. Pushed(out, turn) = Append(out, turn)
    BY <1>2 DEF Pushed
  <2>2. Append(out, turn) = Cat(out, <<turn>>)
    BY Appended DEF Cat, Bodied
  <2>3. Bodied(Cat(out, <<turn>>)) /\ Blocks(Cat(out, <<turn>>)) = Cat(Blocks(out), turn.blocks)
    BY BlocksJoined, BodiedJoined
  <2>4. QED
    BY <2>1, <2>2, <2>3
<1>3. QED
  BY <1>1, <1>2

\* Merged: the blocks stay as they are, and where they are.
LEMMA BlocksMerged ==
  ASSUME NEW turns, Bodied(turns)
  PROVE  Bodied(Merged(turns)) /\ Blocks(Merged(turns)) = Blocks(turns)
<1>1. IsSeq(turns) /\ Len(turns) \in Nat
  BY SeqFacts DEF Bodied
<1>2. PICK f : Merging(f, turns) /\ Merged(turns) = f[Len(turns)]
  BY <1>1, MergingTraced
<1>3. f[0] = << >> /\ \A i \in 1 .. Len(turns) : f[i] = Pushed(f[i - 1], turns[i])
  BY <1>2 DEF Merging
<1> DEFINE tt == Spelled(turns)
<1>4. Lists(tt) /\ Len(tt) = Len(turns) /\ Blocks(turns) = FlattenSeq(tt)
  BY BlocksFacts
<1>5. PICK g : Laid(g, tt) /\ FlattenSeq(tt) = g[Len(turns)]
  BY <1>4, LaidOut
<1>6. g[0] = << >> /\ \A i \in 1 .. Len(turns) : g[i] = Cat(g[i - 1], turns[i].blocks)
  BY <1>4, <1>5 DEF Laid, Spelled
<1> DEFINE T == {n \in Nat : n <= Len(turns) => Bodied(f[n]) /\ Blocks(f[n]) = g[n]}
<1>7. 0 \in T
  BY <1>3, <1>6, BlocksJoined
<1>8. ASSUME NEW n \in T
      PROVE  n + 1 \in T
  <2> SUFFICES ASSUME n + 1 <= Len(turns)
               PROVE  Bodied(f[n + 1]) /\ Blocks(f[n + 1]) = g[n + 1]
    BY <1>8
  <2> DEFINE m == n + 1
  <2>1. m \in 1 .. Len(turns) /\ m - 1 = n /\ Bodied(f[n]) /\ Blocks(f[n]) = g[n]
    BY <1>1, <1>8
  <2> HIDE DEF m, T
  <2>2. f[m] = Pushed(f[n], turns[m]) /\ g[m] = Cat(g[n], turns[m].blocks) /\ IsTurn(turns[m])
    BY <1>3, <1>6, <2>1 DEF Bodied
  <2>3. Bodied(f[m]) /\ Blocks(f[m]) = g[m]
    BY <2>1, <2>2, PushedFacts
  <2>4. QED
    BY <2>3 DEF m
<1> HIDE DEF T
<1>9. T = Nat
  <2>1. T \in SUBSET Nat
    BY DEF T
  <2>2. QED
    BY <1>7, <1>8, <2>1, Climb
<1>10. Len(turns) \in T
  BY <1>1, <1>9
<1>11. QED
  BY <1>1, <1>2, <1>4, <1>5, <1>10 DEF T

\* A turn with nothing in it has no block.
LEMMA TurnFacts ==
  ASSUME NEW role, NEW blocks, IsSeq(blocks)
  PROVE  /\ Bodied(Turn(role, blocks)) /\ Blocks(Turn(role, blocks)) = blocks
         /\ Bodied(<<[role |-> role, blocks |-> blocks]>>)
         /\ Blocks(<<[role |-> role, blocks |-> blocks]>>) = blocks
<1> DEFINE x == [role |-> role, blocks |-> blocks]
<1>1. IsTurn(x) /\ x.blocks = blocks
  BY DEF IsTurn
<1>2. Turn(role, blocks) = IF blocks = << >> THEN << >> ELSE <<x>>
  BY DEF Turn
<1> HIDE DEF x
<1>3. Bodied(<<x>>) /\ Blocks(<<x>>) = blocks
  BY <1>1, BlocksJoined
<1>4. QED
  BY <1>2, <1>3, BlocksJoined DEF x

\* Filled: turns of nothing are left out, and no block is.
LEMMA BlocksFilled ==
  ASSUME NEW turns, Bodied(turns)
  PROVE  Bodied(Filled(turns)) /\ Blocks(Filled(turns)) = Blocks(turns)
<1> DEFINE n == Len(turns)
           tt == [i \in 1 .. n |-> Turn(turns[i].role, turns[i].blocks)]
<1>1. IsSeq(turns) /\ n \in Nat /\ DOMAIN turns = 1 .. n
  BY SeqFacts DEF Bodied
<1>2. Filled(turns) = FlattenSeq(tt)
  BY <1>1 DEF Filled, EachOf
<1>3. \A i \in 1 .. n : Bodied(tt[i]) /\ Blocks(tt[i]) = turns[i].blocks
  <2> SUFFICES ASSUME NEW i \in 1 .. n
               PROVE  Bodied(tt[i]) /\ Blocks(tt[i]) = turns[i].blocks
    OBVIOUS
  <2> DEFINE r == turns[i].role
             b == turns[i].blocks
  <2>1. tt[i] = Turn(r, b)
    OBVIOUS
  <2>2. IsSeq(b)
    BY DEF Bodied, IsTurn
  <2> HIDE DEF tt, r, b
  <2>3. Bodied(Turn(r, b)) /\ Blocks(Turn(r, b)) = b
    BY <2>2, TurnFacts
  <2>4. QED
    BY <2>1, <2>3 DEF b
<1>4. tt = [i \in 1 .. n |-> tt[i]]
  OBVIOUS
<1> HIDE DEF tt
<1>5. IsSeq(tt) /\ Len(tt) = n
  BY <1>1, <1>4, FamilySeq
<1>6. /\ Bodied(FlattenSeq(tt))
      /\ Blocks(FlattenSeq(tt)) = FlattenSeq([i \in 1 .. Len(tt) |-> Blocks(tt[i])])
  BY <1>3, <1>5, BlocksFlat
<1>7. [i \in 1 .. Len(tt) |-> Blocks(tt[i])] = Spelled(turns)
  BY <1>3, <1>5 DEF Spelled
<1>8. QED
  BY <1>2, <1>6, <1>7, BlocksFacts

\* What is laid out one by one is what it was.
LEMMA FlattenedSingles ==
  ASSUME NEW s, IsSeq(s), NEW tt, IsSeq(tt), Len(tt) = Len(s),
         \A i \in 1 .. Len(s) : tt[i] = <<s[i]>>
  PROVE  FlattenSeq(tt) = s
<1> DEFINE n == Len(s)
           f == [k \in 0 .. n |-> [i \in 1 .. k |-> s[i]]]
<1>1. n \in Nat /\ s = [i \in 1 .. n |-> s[i]]
  BY SeqFacts
<1>2. \A x : IsSeq(<<x>>) /\ Len(<<x>>) = 1 /\ <<x>>[1] = x
  BY Singleton
<1>3. Lists(tt)
  BY <1>2 DEF Lists
<1>4. f[0] = << >>
  <2>1. f[0] = [i \in 1 .. 0 |-> s[i]]
    BY <1>1
  <2>2. \A g : g = [i \in 1 .. 0 |-> g[i]] => IsSeq(g) /\ Len(g) = 0
    BY FamilySeq
  <2> DEFINE g == f[0]
  <2>3. g = [i \in 1 .. 0 |-> g[i]]
    BY <2>1
  <2> HIDE DEF g
  <2>4. IsSeq(g) /\ Len(g) = 0
    BY <2>2, <2>3
  <2>5. g = << >>
    BY <2>4, SeqFacts
  <2>6. QED
    BY <2>5 DEF g
<1>5. ASSUME NEW k \in 1 .. n
      PROVE  f[k] = Cat(f[k - 1], tt[k])
  <2> DEFINE a == f[k - 1]
             b == f[k]
             x == s[k]
             y == <<x>>
             u == Cat(a, y)
  <2>1. k \in Nat /\ k - 1 \in Nat /\ k - 1 \in 0 .. n /\ k \in 0 .. n /\ k - 1 + 1 = k
    BY <1>1
  <2>2. a = [i \in 1 .. k - 1 |-> s[i]] /\ b = [i \in 1 .. k |-> s[i]]
    BY <2>1
  <2> HIDE DEF a, b, f
  <2>3. a = [i \in 1 .. k - 1 |-> a[i]] /\ b = [i \in 1 .. k |-> b[i]]
    BY <2>2
  <2>4. IsSeq(a) /\ Len(a) = k - 1 /\ IsSeq(b) /\ Len(b) = k
    BY <2>1, <2>3, FamilySeq
  <2>5. /\ IsSeq(u) /\ Len(u) = k - 1 + 1
        /\ \A i \in 1 .. k - 1 : u[i] = a[i]
        /\ \A i \in 1 .. 1 : u[k - 1 + i] = y[i]
    <3>1. IsSeq(y) /\ Len(y) = 1
      BY <1>2
    <3> HIDE DEF y, u
    <3>2. /\ IsSeq(u) /\ Len(u) = Len(a) + Len(y)
          /\ \A i \in 1 .. Len(a) : u[i] = a[i]
          /\ \A i \in 1 .. Len(y) : u[Len(a) + i] = y[i]
      <4>1. IsSeq(a) /\ IsSeq(y)
        BY <2>4, <3>1
      <4>2. QED
        BY <4>1, Joined DEF Cat, u
    <3>3. QED
      BY <2>4, <3>1, <3>2
  <2>6. \A i \in 1 .. k : i \in 1 .. k - 1 \/ i = k
    BY <2>1
  <2>7. 1 \in 1 .. 1
    OBVIOUS
  <2>8. u[k - 1 + 1] = x
    BY <1>2, <2>5, <2>7
  <2>9. \A i \in 1 .. k - 1 : a[i] = s[i]
    BY <2>2
  <2>10. \A i \in 1 .. k : b[i] = s[i]
    BY <2>2
  <2> HIDE DEF u
  <2>11. \A i \in 1 .. Len(b) : b[i] = u[i]
    BY <2>1, <2>4, <2>5, <2>6, <2>8, <2>9, <2>10 DEF x
  <2>12. b = u
    BY <2>1, <2>4, <2>5, <2>11, SameSeq
  <2>13. QED
    BY <2>12 DEF u, a, b, y, x
<1>6. f[n] = s
  BY <1>1
<1> HIDE DEF f
<1>7. Laid(f, tt)
  BY <1>4, <1>5 DEF Laid
<1>8. QED
  BY <1>3, <1>6, <1>7, LaidFlat

\* OfKind keeps items that are all of the kinds.
LEMMA AllOfKind ==
  ASSUME NEW s, IsSeq(s), NEW kinds, \A i \in 1 .. Len(s) : s[i].kind \in kinds
  PROVE  OfKind(s, kinds) = s
<1> DEFINE tt == Kinding(s, kinds)
<1>1. IsSeq(tt) /\ Len(tt) = Len(s) /\ OfKind(s, kinds) = FlattenSeq(tt)
  BY KindedFacts DEF Lists
<1>2. \A i \in 1 .. Len(s) : tt[i] = <<s[i]>>
  BY DEF Kinding, Kinded
<1> HIDE DEF tt
<1>3. QED
  BY <1>1, <1>2, FlattenedSingles

\* OfKind keeps none of items that are all of others.
LEMMA NoneOfKind ==
  ASSUME NEW s, IsSeq(s), NEW kinds, \A i \in 1 .. Len(s) : s[i].kind \notin kinds
  PROVE  OfKind(s, kinds) = << >>
<1> DEFINE tt == Kinding(s, kinds)
<1>1. IsSeq(tt) /\ Len(tt) = Len(s) /\ OfKind(s, kinds) = FlattenSeq(tt)
  BY KindedFacts DEF Lists
<1>2. \A i \in 1 .. Len(s) : tt[i] = << >>
  BY DEF Kinding, Kinded
<1> HIDE DEF tt
<1>3. QED
  BY <1>1, <1>2, FlattenedNothing

\* What is not of the kinds asked for says nothing.
LEMMA MarksOther ==
  ASSUME NEW s, IsSeq(s), NEW kinds \in SUBSET Sorts, \A i \in 1 .. Len(s) : s[i].kind \notin kinds
  PROVE  Marks(s, kinds) = << >>
<1>1. \A i \in 1 .. Len(s) : Marked(s[i], kinds) = << >>
  BY DEF Marked
<1>2. QED
  BY <1>1, MarksNothing

\* Kinds that tell the items apart alike give the same marks.
LEMMA MarksSame ==
  ASSUME NEW s, IsSeq(s), NEW kinds \in SUBSET Sorts, NEW more \in SUBSET Sorts,
         \A i \in 1 .. Len(s) : s[i].kind \in kinds <=> s[i].kind \in more
  PROVE  Marks(s, kinds) = Marks(s, more)
<1>1. \A i \in 1 .. Len(s) : Marked(s[i], kinds) = Marked(s[i], more)
  BY DEF Marked
<1>2. QED
  BY <1>1, MarksAlike

-----------------------------------------------------------------------------
(* What a message is sent as *)

IsItem(x) ==
  x = [kind |-> x.kind, data |-> x.data, name |-> x.name, id |-> x.id, remote |-> x.remote,
       parts |-> x.parts, of |-> x.of]
Speech(s) == IsSeq(s) /\ \A i \in 1 .. Len(s) : IsItem(s[i]) /\ s[i].kind \in {"text"} \cup Media
Doings(s) == IsSeq(s) /\ \A i \in 1 .. Len(s) : IsItem(s[i]) /\ s[i].kind = "call"
IsMessage(m) ==
  /\ m = [role |-> m.role, content |-> m.content, calls |-> m.calls, result |-> m.result]
  /\ Speech(m.content) /\ Doings(m.calls)
  /\ m.role \in {"user", "assistant", "tool"} \cup System
  /\ m.calls # << >> => m.role = "assistant"
  /\ m.role = "tool" => IsItem(m.result) /\ m.result.kind = "result"

Uttered(t, calls, m) ==
  CASE t.dialect = "OpenAi" -> ChatSaid(m)
    [] t.dialect = "Anthropic" -> AnthropicSaid(m)
    [] t.dialect = "Gemini" -> GeminiSaid(calls, m)
    [] t.dialect = "Bedrock" -> BedrockSaid(m)
    [] t.dialect = "Codex" -> CodexSaid(m)

\* Nothing in it is a block there is no way to build.
Fit(s) == \A i \in 1 .. Len(s) : s[i].kind # "unfit"

\* A content as it is sent to the targets whose builders empty documents.
Partial == {"Anthropic", "Gemini", "Bedrock"}
Laden(t, y) == IF t.dialect \in Partial THEN Inline(y) ELSE y
Borne(t, c) == IF t.dialect \in Partial THEN EachOf(Inline, c) ELSE c

\* What there is to a message of the kinds asked for, if c is sent for its content.
Conveyed(m, c, kinds) ==
  CASE m.role \in System -> << >>
    [] m.role = "tool" -> IF "result" \in kinds THEN <<<<m.result.of, AsText(m.content)>>>>
                          ELSE << >>
    [] OTHER -> Cat(Marks(c, kinds), Marks(m.calls, kinds))

\* What has no unfit block has none in its parts.
LEMMA FitParts ==
  ASSUME NEW s, NEW t, IsSeq(s), IsSeq(t), Fit(Cat(s, t))
  PROVE  Fit(s) /\ Fit(t)
<1> DEFINE u == Cat(s, t)
<1>1. /\ Len(u) = Len(s) + Len(t)
      /\ \A i \in 1 .. Len(s) : u[i] = s[i]
      /\ \A i \in 1 .. Len(t) : u[Len(s) + i] = t[i]
  BY Joined DEF Cat
<1>2. Len(s) \in Nat /\ Len(t) \in Nat
  BY SeqFacts
<1>3. \A i \in 1 .. Len(u) : u[i].kind # "unfit"
  BY DEF Fit
<1> HIDE DEF u
<1>4. \A i \in 1 .. Len(s) : s[i].kind # "unfit"
  <2>1. \A i \in 1 .. Len(s) : i \in 1 .. Len(u)
    BY <1>1, <1>2
  <2>2. QED
    BY <1>1, <1>3, <2>1
<1>5. \A i \in 1 .. Len(t) : t[i].kind # "unfit"
  <2>1. \A i \in 1 .. Len(t) : Len(s) + i \in 1 .. Len(u)
    BY <1>1, <1>2
  <2>2. QED
    BY <1>1, <1>3, <2>1
<1>6. QED
  BY <1>4, <1>5 DEF Fit

\* Inline, part by part.
LEMMA InlineEach ==
  ASSUME NEW s, IsSeq(s)
  PROVE  /\ IsSeq(EachOf(Inline, s)) /\ Len(EachOf(Inline, s)) = Len(s)
         /\ \A i \in 1 .. Len(s) : EachOf(Inline, s)[i] = Inline(s[i])
<1> DEFINE u == EachOf(Inline, s)
<1>1. Len(s) \in Nat /\ DOMAIN s = 1 .. Len(s)
  BY SeqFacts
<1>2. u = [i \in 1 .. Len(s) |-> Inline(s[i])]
  BY <1>1 DEF EachOf
<1>3. u = [i \in 1 .. Len(s) |-> u[i]] /\ \A i \in 1 .. Len(s) : u[i] = Inline(s[i])
  BY <1>2
<1> HIDE DEF u
<1>4. IsSeq(u) /\ Len(u) = Len(s)
  BY <1>1, <1>3, FamilySeq
<1>5. QED
  BY <1>3, <1>4 DEF u

\* Where nothing is unfit, calls are sent as they are, and parts with what is inline.
LEMMA FitEach ==
  ASSUME NEW s, IsSeq(s)
  PROVE  /\ IsSeq(EachOf(AnthropicBlock, s))
              /\ (Fit(EachOf(AnthropicBlock, s)) => EachOf(AnthropicBlock, s) = EachOf(Inline, s))
         /\ IsSeq(EachOf(BedrockBlock, s))
              /\ (Fit(EachOf(BedrockBlock, s)) => EachOf(BedrockBlock, s) = EachOf(Inline, s))
         /\ IsSeq(EachOf(ToolUse, s)) /\ (Fit(EachOf(ToolUse, s)) => EachOf(ToolUse, s) = s)
<1> DEFINE w == EachOf(Inline, s)
<1>1. Len(s) \in Nat /\ DOMAIN s = 1 .. Len(s) /\ s = [i \in 1 .. Len(s) |-> s[i]]
  BY SeqFacts
<1>2. Unfit.kind = "unfit"
  BY DEF Unfit, Item
<1>3. /\ \A x : AnthropicBlock(x) \in {Inline(x), Unfit}
      /\ \A x : BedrockBlock(x) \in {Inline(x), Unfit}
      /\ \A x : ToolUse(x) \in {x, Unfit}
  BY DEF AnthropicBlock, BedrockBlock, ToolUse
<1>9. IsSeq(w) /\ Len(w) = Len(s) /\ \A i \in 1 .. Len(s) : w[i] = Inline(s[i])
  BY InlineEach
<1> HIDE DEF w
<1>4. ASSUME NEW u, NEW v, u = [i \in 1 .. Len(s) |-> u[i]], IsSeq(v), Len(v) = Len(s),
             \A i \in 1 .. Len(s) : u[i] \in {v[i], Unfit}
      PROVE  IsSeq(u) /\ (Fit(u) => u = v)
  <2>1. IsSeq(u) /\ Len(u) = Len(s)
    BY <1>1, <1>4, FamilySeq
  <2>2. ASSUME Fit(u), NEW i \in 1 .. Len(u)
        PROVE  u[i] = v[i]
    <3>1. u[i].kind # "unfit" /\ u[i] \in {v[i], Unfit}
      BY <1>4, <2>1, <2>2 DEF Fit
    <3>2. QED
      BY <1>2, <3>1
  <2>3. QED
    BY <1>4, <2>1, <2>2, SameSeq
<1>5. IsSeq(EachOf(AnthropicBlock, s))
        /\ (Fit(EachOf(AnthropicBlock, s)) => EachOf(AnthropicBlock, s) = w)
  <2> DEFINE u == EachOf(AnthropicBlock, s)
  <2>1. u = [i \in 1 .. Len(s) |-> AnthropicBlock(s[i])]
    BY <1>1 DEF EachOf
  <2> HIDE DEF u
  <2>2. u = [i \in 1 .. Len(s) |-> u[i]] /\ \A i \in 1 .. Len(s) : u[i] \in {w[i], Unfit}
    BY <1>3, <1>9, <2>1
  <2>3. IsSeq(u) /\ (Fit(u) => u = w)
    BY <1>4, <1>9, <2>2
  <2>4. QED
    BY <2>3 DEF u
<1>6. IsSeq(EachOf(BedrockBlock, s))
        /\ (Fit(EachOf(BedrockBlock, s)) => EachOf(BedrockBlock, s) = w)
  <2> DEFINE u == EachOf(BedrockBlock, s)
  <2>1. u = [i \in 1 .. Len(s) |-> BedrockBlock(s[i])]
    BY <1>1 DEF EachOf
  <2> HIDE DEF u
  <2>2. u = [i \in 1 .. Len(s) |-> u[i]] /\ \A i \in 1 .. Len(s) : u[i] \in {w[i], Unfit}
    BY <1>3, <1>9, <2>1
  <2>3. IsSeq(u) /\ (Fit(u) => u = w)
    BY <1>4, <1>9, <2>2
  <2>4. QED
    BY <2>3 DEF u
<1>7. IsSeq(EachOf(ToolUse, s)) /\ (Fit(EachOf(ToolUse, s)) => EachOf(ToolUse, s) = s)
  <2> DEFINE u == EachOf(ToolUse, s)
  <2>1. u = [i \in 1 .. Len(s) |-> ToolUse(s[i])]
    BY <1>1 DEF EachOf
  <2> HIDE DEF u
  <2>2. u = [i \in 1 .. Len(s) |-> u[i]] /\ \A i \in 1 .. Len(s) : u[i] \in {s[i], Unfit}
    BY <1>3, <2>1
  <2>3. IsSeq(u) /\ (Fit(u) => u = s)
    BY <1>4, <2>2
  <2>4. QED
    BY <2>3 DEF u
<1>8. QED
  BY <1>5, <1>6, <1>7 DEF w

\* Items with something of them changed.
Made(kind, data, name, id, remote, parts, of) ==
  [kind |-> kind, data |-> data, name |-> name, id |-> id, remote |-> remote, parts |-> parts,
   of |-> of]

\* An item with some of its fields replaced, field by field.
LEMMA Changed ==
  ASSUME NEW x, IsItem(x), NEW v, NEW w, NEW u
  PROVE  /\ [x EXCEPT !.kind = v] = Made(v, x.data, x.name, x.id, x.remote, x.parts, x.of)
         /\ [x EXCEPT !.data = v] = Made(x.kind, v, x.name, x.id, x.remote, x.parts, x.of)
         /\ [x EXCEPT !.name = v] = Made(x.kind, x.data, v, x.id, x.remote, x.parts, x.of)
         /\ [x EXCEPT !.id = v] = Made(x.kind, x.data, x.name, v, x.remote, x.parts, x.of)
         /\ [x EXCEPT !.parts = v] = Made(x.kind, x.data, x.name, x.id, x.remote, v, x.of)
         /\ [x EXCEPT !.kind = v, !.parts = w] = Made(v, x.data, x.name, x.id, x.remote, w, x.of)
         /\ [x EXCEPT !.id = v, !.of = w] = Made(x.kind, x.data, x.name, v, x.remote, x.parts, w)
         /\ [x EXCEPT !.kind = v, !.data = w, !.parts = u] =
              Made(v, w, x.name, x.id, x.remote, u, x.of)
<1> DEFINE kind == x.kind
           data == x.data
           name == x.name
           id == x.id
           remote == x.remote
           parts == x.parts
           of == x.of
           y == [kind |-> kind, data |-> data, name |-> name, id |-> id, remote |-> remote,
                 parts |-> parts, of |-> of]
<1>1. x = y
  BY DEF IsItem
<1> HIDE DEF kind, data, name, id, remote, parts, of
<1>2. /\ [y EXCEPT !.kind = v] = Made(v, data, name, id, remote, parts, of)
      /\ [y EXCEPT !.data = v] = Made(kind, v, name, id, remote, parts, of)
      /\ [y EXCEPT !.name = v] = Made(kind, data, v, id, remote, parts, of)
      /\ [y EXCEPT !.id = v] = Made(kind, data, name, v, remote, parts, of)
      /\ [y EXCEPT !.parts = v] = Made(kind, data, name, id, remote, v, of)
  BY DEF Made
<1> DEFINE a == [kind |-> v, data |-> data, name |-> name, id |-> id, remote |-> remote,
                 parts |-> parts, of |-> of]
           b == [kind |-> kind, data |-> data, name |-> name, id |-> v, remote |-> remote,
                 parts |-> parts, of |-> of]
           c == [kind |-> v, data |-> w, name |-> name, id |-> id, remote |-> remote,
                 parts |-> parts, of |-> of]
<1>3. [y EXCEPT !.kind = v] = a /\ [y EXCEPT !.id = v] = b /\ [a EXCEPT !.data = w] = c
  OBVIOUS
<1>4. /\ [a EXCEPT !.parts = w] = Made(v, data, name, id, remote, w, of)
      /\ [b EXCEPT !.of = w] = Made(kind, data, name, v, remote, parts, w)
      /\ [c EXCEPT !.parts = u] = Made(v, w, name, id, remote, u, of)
  BY DEF Made
<1> HIDE DEF y, a, b, c
<1>5. /\ [y EXCEPT !.kind = v, !.parts = w] = [[y EXCEPT !.kind = v] EXCEPT !.parts = w]
      /\ [y EXCEPT !.id = v, !.of = w] = [[y EXCEPT !.id = v] EXCEPT !.of = w]
      /\ [y EXCEPT !.kind = v, !.data = w, !.parts = u]
           = [[[y EXCEPT !.kind = v] EXCEPT !.data = w] EXCEPT !.parts = u]
  OBVIOUS
<1>6. /\ [y EXCEPT !.kind = v, !.parts = w] = Made(v, data, name, id, remote, w, of)
      /\ [y EXCEPT !.id = v, !.of = w] = Made(kind, data, name, v, remote, parts, w)
      /\ [y EXCEPT !.kind = v, !.data = w, !.parts = u] = Made(v, w, name, id, remote, u, of)
  BY <1>3, <1>4, <1>5
<1>7. QED
  BY <1>1, <1>2, <1>6 DEF kind, data, name, id, remote, parts, of

\* The same of what becomes an answer.
LEMMA ChangedTwice ==
  ASSUME NEW x, IsItem(x), NEW v, NEW w
  PROVE  [x EXCEPT !.kind = v, !.parts = w] = Made(v, x.data, x.name, x.id, x.remote, w, x.of)
<1> DEFINE kind == x.kind
           data == x.data
           name == x.name
           id == x.id
           remote == x.remote
           parts == x.parts
           of == x.of
           y == [kind |-> kind, data |-> data, name |-> name, id |-> id, remote |-> remote,
                 parts |-> parts, of |-> of]
           a == [kind |-> v, data |-> data, name |-> name, id |-> id, remote |-> remote,
                 parts |-> parts, of |-> of]
<1>1. x = y
  BY DEF IsItem
<1> HIDE DEF kind, data, name, id, remote, parts, of
<1>2. [y EXCEPT !.kind = v] = a
  OBVIOUS
<1>3. [a EXCEPT !.parts = w] = Made(v, data, name, id, remote, w, of)
  BY DEF Made
<1> HIDE DEF y, a
<1>4. [y EXCEPT !.kind = v, !.parts = w] = [[y EXCEPT !.kind = v] EXCEPT !.parts = w]
  OBVIOUS
<1>5. [y EXCEPT !.kind = v, !.parts = w] = Made(v, data, name, id, remote, w, of)
  BY <1>2, <1>3, <1>4
<1>6. QED
  BY <1>1, <1>5 DEF kind, data, name, id, remote, parts, of

\* The fields of an item that is put together.
LEMMA MadeFacts ==
  ASSUME NEW kind, NEW data, NEW name, NEW id, NEW remote, NEW parts, NEW of
  PROVE  LET x == Made(kind, data, name, id, remote, parts, of)
         IN  /\ IsItem(x) /\ x.kind = kind /\ x.data = data /\ x.name = name /\ x.id = id
             /\ x.remote = remote /\ x.parts = parts /\ x.of = of
BY DEF Made, IsItem

\* What is left of a part by reference.
LEMMA InlineFacts ==
  ASSUME NEW x, IsItem(x)
  PROVE  LET y == Inline(x)
         IN  /\ IsItem(y) /\ y.kind = x.kind /\ y.name = x.name /\ y.id = x.id
             /\ y.remote = x.remote /\ y.parts = x.parts /\ y.of = x.of
             /\ y.data = IF x.kind = "file" /\ x.remote THEN None ELSE x.data
             /\ x.kind # "file" => y = x
<1> DEFINE z == [x EXCEPT !.data = None]
<1>1. z = Made(x.kind, None, x.name, x.id, x.remote, x.parts, x.of)
  BY Changed
<1>2. Inline(x) = IF x.kind = "file" /\ x.remote THEN z ELSE x
  BY DEF Inline
<1> HIDE DEF z
<1>3. /\ IsItem(z) /\ z.kind = x.kind /\ z.name = x.name /\ z.id = x.id
      /\ z.remote = x.remote /\ z.parts = x.parts /\ z.of = x.of /\ z.data = None
  BY <1>1, MadeFacts
<1>4. QED
  BY <1>2, <1>3

\* The result of a call says of which call it is, and its words.
LEMMA ResultSays ==
  ASSUME NEW m, IsMessage(m), m.role = "tool", NEW kinds \in SUBSET Sorts,
         NEW x, x.kind = "result", x.of = m.result.of, AsText(x.parts) = AsText(m.content)
  PROVE  \A c : Marks(<<x>>, kinds) = Conveyed(m, c, kinds)
<1>1. Marks(<<x>>, kinds) = Marked(x, kinds)
  BY MarksJoined
<1>2. Mark(x) = <<<<x.of, AsText(x.parts)>>>>
  BY DEF Mark, Media
<1>3. m.role \notin System
  BY DEF System
<1>4. QED
  BY <1>1, <1>2, <1>3 DEF Marked, Conveyed

\* Answering: a result with the text of what was answered.
LEMMA Answered ==
  ASSUME NEW m, IsMessage(m), m.role = "tool"
  PROVE  /\ AsText(AsText(m.content)) = AsText(m.content)
         /\ Answering(m).kind = "result" /\ Answering(m).of = m.result.of
         /\ Answering(m).parts = AsText(m.content) /\ IsItem(Answering(m))
<1> DEFINE c == m.content
           r == m.result
<1>1. IsSeq(c) /\ IsItem(r)
  BY DEF IsMessage, Speech
<1>2. AsText(AsText(c)) = AsText(c)
  <2> DEFINE w == OfKind(c, {"text"})
  <2>1. IsSeq(w) /\ \A k \in 1 .. Len(w) : w[k].kind \in {"text"}
    BY <1>1, KindedFacts
  <2> HIDE DEF w
  <2>2. OfKind(w, {"text"}) = w
    BY <2>1, AllOfKind
  <2>3. QED
    BY <2>2 DEF AsText, w
<1> DEFINE p == AsText(c)
           a == [r EXCEPT !.kind = "result", !.parts = p]
<1>3. Answering(m) = a
  BY DEF Answering
<1> HIDE DEF p, r, c
<1>4. a.kind = "result" /\ a.of = r.of /\ a.parts = p /\ IsItem(a)
  <2>1. a = Made("result", r.data, r.name, r.id, r.remote, p, r.of)
    BY <1>1, ChangedTwice, ZenonT(30)
  <2> HIDE DEF a
  <2>2. QED
    BY <2>1, MadeFacts
<1>5. QED
  BY <1>2, <1>3, <1>4 DEF p, r, c

\* A target that is not Codex is sent all that is conveyed, if all of it can be built.
LEMMA UtteredPlain ==
  ASSUME NEW t, t.dialect \in Dialects \ {"Codex"}, NEW calls, NEW m, IsMessage(m),
         NEW kinds \in SUBSET Sorts
  PROVE  /\ Bodied(Uttered(t, calls, m))
         /\ (t.dialect = "OpenAi" \/ Fit(Blocks(Uttered(t, calls, m)))) =>
              Marks(Blocks(Uttered(t, calls, m)), kinds) = Conveyed(m, Borne(t, m.content), kinds)
<1> DEFINE u == Uttered(t, calls, m)
           c == m.content
           d == m.calls
           e == Borne(t, c)
           Right(b) == Marks(b, kinds) = Conveyed(m, e, kinds)
           Sole(x) == \E r : u = <<[role |-> r, blocks |-> <<x>>]>> \/ u = Turn(r, <<x>>)
<1>1. IsSeq(c) /\ IsSeq(d)
  BY DEF IsMessage, Speech, Doings
<1>2. \A x : IsSeq(<<x>>)
  BY Singleton
<1>7. IsSeq(e) /\ (t.dialect = "OpenAi" => e = c)
        /\ (t.dialect \in Partial => e = EachOf(Inline, c))
  BY <1>1, InlineEach DEF Borne, Partial
<1> HIDE DEF e
<1>3. CASE m.role \in System
  <2>0. m.role # "tool"
    BY <1>3 DEF System
  <2>1. u = << >>
    BY <1>3, <2>0 DEF Uttered, ChatSaid, AnthropicSaid, GeminiSaid, BedrockSaid, Dialects
  <2>2. Conveyed(m, e, kinds) = << >>
    BY <1>3, <2>0 DEF Conveyed
  <2>3. QED
    BY <2>1, <2>2, BlocksJoined, MarksJoined DEF e
<1>4. CASE m.role = "tool"
  <2>1. m.role \notin System
    BY <1>4 DEF System
  <2>2. ASSUME NEW x, x.kind = "result", x.of = m.result.of, AsText(x.parts) = AsText(c), Sole(x)
        PROVE  Bodied(u) /\ Right(Blocks(u))
    <3> DEFINE y == <<x>>
    <3>1. IsSeq(y)
      BY <1>2
    <3>2. PICK r : u = <<[role |-> r, blocks |-> y]>> \/ u = Turn(r, y)
      BY <2>2
    <3>3. Marks(y, kinds) = Conveyed(m, e, kinds)
      BY <1>4, <2>2, ResultSays
    <3> HIDE DEF y, u
    <3>4. Bodied(u) /\ Blocks(u) = y
      BY <3>1, <3>2, TurnFacts
    <3>5. QED
      BY <3>3, <3>4
  <2> HIDE DEF u, Right
  <2>3. CASE t.dialect = "OpenAi"
    <3> DEFINE r == m.result
               x == [r EXCEPT !.parts = c]
    <3>1. x = Made(r.kind, r.data, r.name, r.id, r.remote, c, r.of)
      BY <1>4, Changed DEF IsMessage
    <3>2. x.kind = "result" /\ x.of = m.result.of /\ x.parts = c
      <4> HIDE DEF x
      <4>1. r.kind = "result"
        BY <1>4 DEF IsMessage
      <4>2. QED
        BY <3>1, <4>1, MadeFacts
    <3>3. u = <<[role |-> m.role, blocks |-> <<x>>]>>
      BY <1>4, <2>1, <2>3 DEF u, Uttered, ChatSaid
    <3>4. Sole(x)
      BY <3>3
    <3> HIDE DEF x, Sole
    <3>5. QED
      BY <2>2, <3>2, <3>4 DEF u, Right, e
  <2> DEFINE a == Answering(m)
  <2>4. a.kind = "result" /\ a.of = m.result.of /\ AsText(a.parts) = AsText(c) /\ IsItem(a)
    BY <1>4, Answered
  <2> HIDE DEF a
  <2>5. CASE t.dialect = "Anthropic"
    <3>1. u = <<[role |-> "user", blocks |-> <<a>>]>>
      BY <1>4, <2>1, <2>5 DEF u, Uttered, AnthropicSaid, a
    <3>2. Sole(a)
      BY <3>1
    <3> HIDE DEF Sole
    <3>3. QED
      BY <2>2, <2>4, <3>2 DEF u, Right, e
  <2>6. CASE t.dialect = "Gemini"
    <3> DEFINE n == CallName(calls, m.result.id)
               x == [a EXCEPT !.name = n]
    <3>1. x = Made(a.kind, a.data, n, a.id, a.remote, a.parts, a.of)
      BY <2>4, Changed
    <3>2. u = Turn("user", <<x>>)
      BY <1>4, <2>1, <2>6 DEF u, Uttered, GeminiSaid, a
    <3> HIDE DEF x, n
    <3>3. x.kind = "result" /\ x.of = m.result.of /\ AsText(x.parts) = AsText(c)
      BY <2>4, <3>1, MadeFacts
    <3>4. Sole(x)
      BY <3>2
    <3> HIDE DEF Sole
    <3>5. QED
      BY <2>2, <3>3, <3>4 DEF u, Right, e
  <2>7. CASE t.dialect = "Bedrock"
    <3>1. u = Turn("user", <<a>>)
      BY <1>4, <2>1, <2>7 DEF u, Uttered, BedrockSaid, a
    <3>2. Sole(a)
      BY <3>1
    <3> HIDE DEF Sole
    <3>3. QED
      BY <2>2, <2>4, <3>2 DEF u, Right, e
  <2>8. QED
    BY <2>3, <2>5, <2>6, <2>7 DEF Dialects, u, e
<1>5. CASE m.role \notin System /\ m.role # "tool"
  <2>1. Conveyed(m, e, kinds) = Cat(Marks(e, kinds), Marks(d, kinds))
    BY <1>5 DEF Conveyed
  <2>2. Marks(Cat(e, d), kinds) = Conveyed(m, e, kinds)
    BY <1>1, <1>7, <2>1, MarksJoined
  <2>3. ASSUME NEW x, NEW y, IsSeq(x), IsSeq(y), Fit(x) => x = e, Fit(y) => y = d,
               \/ u = <<[role |-> m.role, blocks |-> Cat(x, y)]>> \/ u = Turn(m.role, Cat(x, y))
        PROVE  Bodied(u) /\ (Fit(Blocks(u)) => Right(Blocks(u)))
    <3>1. IsSeq(Cat(x, y))
      BY <2>3, CatFacts
    <3>2. Bodied(u) /\ Blocks(u) = Cat(x, y)
      BY <2>3, <3>1, TurnFacts
    <3>3. Fit(Cat(x, y)) => x = e /\ y = d
      BY <2>3, FitParts
    <3>4. QED
      BY <2>2, <3>2, <3>3
  <2> HIDE DEF u
  <2>4. CASE t.dialect = "OpenAi"
    <3>1. u = <<[role |-> m.role, blocks |-> Cat(c, d)]>>
      BY <1>5, <2>4 DEF u, Uttered, ChatSaid, Cat
    <3>2. IsSeq(Cat(c, d))
      BY <1>1, CatFacts
    <3>3. Bodied(u) /\ Blocks(u) = Cat(c, d)
      BY <3>1, <3>2, TurnFacts
    <3>4. QED
      BY <1>7, <2>2, <2>4, <3>3 DEF u, e
  <2>5. CASE t.dialect = "Anthropic"
    <3> DEFINE x == EachOf(AnthropicBlock, c)
               y == EachOf(ToolUse, d)
    <3>1. u = <<[role |-> m.role, blocks |-> Cat(x, y)]>>
      BY <1>5, <2>5 DEF u, Uttered, AnthropicSaid, Cat
    <3>2. IsSeq(x) /\ IsSeq(y) /\ (Fit(x) => x = EachOf(Inline, c)) /\ (Fit(y) => y = d)
      BY <1>1, FitEach
    <3> HIDE DEF x, y
    <3>4. Fit(x) => x = e
      BY <1>7, <2>5, <3>2 DEF Partial
    <3>3. QED
      BY <2>3, <2>5, <3>1, <3>2, <3>4 DEF u, e
  <2>6. CASE t.dialect = "Gemini"
    <3> DEFINE y == EachOf(ToolUse, d)
    <3>1. u = Turn(m.role, Cat(EachOf(Inline, c), y))
      BY <1>5, <2>6 DEF u, Uttered, GeminiSaid, Cat
    <3>2. IsSeq(y) /\ (Fit(y) => y = d)
      BY <1>1, FitEach
    <3> HIDE DEF y
    <3>4. u = Turn(m.role, Cat(e, y))
      BY <1>7, <2>6, <3>1 DEF Partial
    <3>3. QED
      BY <1>1, <1>7, <2>3, <2>6, <3>2, <3>4 DEF u, e
  <2>7. CASE t.dialect = "Bedrock"
    <3> DEFINE x == EachOf(BedrockBlock, c)
               y == EachOf(ToolUse, d)
    <3>1. u = Turn(m.role, Cat(x, y))
      BY <1>5, <2>7 DEF u, Uttered, BedrockSaid, Cat
    <3>2. IsSeq(x) /\ IsSeq(y) /\ (Fit(x) => x = EachOf(Inline, c)) /\ (Fit(y) => y = d)
      BY <1>1, FitEach
    <3> HIDE DEF x, y
    <3>4. Fit(x) => x = e
      BY <1>7, <2>7, <3>2 DEF Partial
    <3>3. QED
      BY <2>3, <2>7, <3>1, <3>2, <3>4 DEF u, e
  <2>8. QED
    BY <2>4, <2>5, <2>6, <2>7 DEF Dialects
<1>6. QED
  BY <1>3, <1>4, <1>5

Quartet == {{"text"}, Media, {"call"}, {"result"}}

\* What is in a message of one sort, in words of marks alone.
LEMMA SpeechSays ==
  ASSUME NEW s, Speech(s)
  PROVE  /\ Marks(s, {"call"}) = << >> /\ Marks(s, {"result"}) = << >> /\ IsSeq(s)
         /\ \A kinds \in Quartet :
              Marks(s, kinds \cap {"text"}) = IF kinds = {"text"} THEN Marks(s, {"text"}) ELSE << >>
<1>1. IsSeq(s) /\ \A i \in 1 .. Len(s) : s[i].kind \in {"text"} \cup Media
  BY DEF Speech
<1>2. {"call"} \in SUBSET Sorts /\ {"result"} \in SUBSET Sorts /\ {} \in SUBSET Sorts
  BY DEF Sorts
<1>3. \A i \in 1 .. Len(s) : s[i].kind \notin {"call"} /\ s[i].kind \notin {"result"}
        /\ s[i].kind \notin {}
  BY <1>1 DEF Media
<1>4. Marks(s, {"call"}) = << >> /\ Marks(s, {"result"}) = << >> /\ Marks(s, {}) = << >>
  BY <1>1, <1>2, <1>3, MarksOther
<1>5. ASSUME NEW kinds \in Quartet
      PROVE  kinds \cap {"text"} = IF kinds = {"text"} THEN {"text"} ELSE {}
  <2>1. CASE kinds = {"text"}
    BY <2>1
  <2>2. CASE kinds # {"text"}
    <3>1. "text" \notin kinds
      BY <2>2 DEF Quartet, Media
    <3>2. QED
      BY <2>2, <3>1
  <2>3. QED
    BY <2>1, <2>2
<1>6. QED
  BY <1>1, <1>4, <1>5

\* Calls have the marks of calls and no others.
LEMMA DoingsSay ==
  ASSUME NEW s, Doings(s), NEW kinds \in SUBSET Sorts, "call" \notin kinds
  PROVE  Marks(s, kinds) = << >>
<1>1. \A i \in 1 .. Len(s) : s[i].kind \notin kinds
  BY DEF Doings
<1>2. QED
  BY <1>1, MarksOther DEF Doings

\* The four groups of kinds that AllCarried compares.
LEMMA QuartetFacts ==
  ASSUME NEW kinds \in Quartet
  PROVE  /\ kinds \in SUBSET Sorts
         /\ "text" \in kinds <=> kinds = {"text"}
         /\ "call" \in kinds <=> kinds = {"call"}
         /\ "result" \in kinds <=> kinds = {"result"}
         /\ "image" \in kinds <=> kinds = Media
         /\ \A k \in Media : k \in kinds <=> kinds = Media
<1>1. "image" \in Media /\ "text" \notin Media /\ "call" \notin Media /\ "result" \notin Media
  BY DEF Media
<1>2. kinds \in SUBSET Sorts
  BY DEF Quartet, Sorts
<1>3. kinds = {"text"} \/ kinds = Media \/ kinds = {"call"} \/ kinds = {"result"}
  BY DEF Quartet
<1>4. QED
  BY <1>1, <1>2, <1>3

\* What Codex makes of the parts of a message without documents.
LEMMA CodexParts ==
  ASSUME NEW c, Speech(c), \A i \in 1 .. Len(c) : c[i].kind # "file", NEW kinds \in SUBSET Sorts
  PROVE  LET w == FlattenSeq(EachOf(CodexPart, c))
         IN  IsSeq(w) /\ Marks(w, kinds) = Marks(c, kinds \cap {"text", "image"})
<1> DEFINE tt == EachOf(CodexPart, c)
           more == kinds \cap {"text", "image"}
<1>1. IsSeq(c) /\ Len(c) \in Nat /\ DOMAIN c = 1 .. Len(c)
  BY SeqFacts DEF Speech
<1>2. tt = [i \in 1 .. Len(c) |-> CodexPart(c[i])]
  BY <1>1 DEF EachOf
<1>3. more \in SUBSET Sorts
  OBVIOUS
<1>4. ASSUME NEW i \in 1 .. Len(c)
      PROVE  IsSeq(tt[i]) /\ Marks(tt[i], kinds) = Marked(c[i], more)
  <2> DEFINE x == c[i]
  <2>1. x.kind \in {"text", "image", "audio"}
    BY DEF Speech, Media
  <2>2. tt[i] = CodexPart(x)
    BY <1>2
  <2> HIDE DEF tt, x
  <2>3. CASE x.kind = "audio"
    <3>1. tt[i] = << >>
      BY <2>2, <2>3 DEF CodexPart
    <3>2. Marked(x, more) = << >>
      BY <2>3 DEF Marked
    <3>3. QED
      BY <3>1, <3>2, CatFacts, MarksJoined DEF x
  <2>4. CASE x.kind # "audio"
    <3>1. tt[i] = <<x>>
      BY <2>1, <2>2, <2>4 DEF CodexPart
    <3>2. Marked(x, more) = Marked(x, kinds)
      BY <2>1, <2>4 DEF Marked
    <3>3. Marks(<<x>>, kinds) = Marked(x, kinds)
      BY MarksJoined
    <3>4. IsSeq(<<x>>)
      BY Singleton
    <3>5. QED
      BY <3>1, <3>2, <3>3, <3>4 DEF x
  <2>5. QED
    BY <2>3, <2>4
<1>5. tt = [i \in 1 .. Len(c) |-> tt[i]]
  BY <1>2
<1> HIDE DEF tt, more
<1>6. Lists(tt) /\ Len(tt) = Len(c)
  BY <1>1, <1>4, <1>5, FamilyLists
<1>7. \A i \in 1 .. Len(c) : Marks(tt[i], kinds) = Marked(c[i], more)
  BY <1>4
<1>8. Marks(FlattenSeq(tt), kinds) = Marks(c, more)
  BY <1>1, <1>3, <1>6, <1>7, MarksPieces
<1>9. QED
  BY <1>6, <1>8, FlattenedSeq DEF tt, more

\* Codex is sent all that is conveyed, of media the pictures, of any message.
CodexShown(m, kinds) ==
  IF kinds = Media THEN Marks(m.content, {"image"}) ELSE Conveyed(m, m.content, kinds)

\* CodexSaid: a message without documents shows its images and says the rest.
LEMMA UtteredCodex ==
  ASSUME NEW t, t.dialect = "Codex", NEW calls, NEW m, IsMessage(m),
         \A i \in 1 .. Len(m.content) : m.content[i].kind # "file", NEW kinds \in Quartet
  PROVE  /\ Bodied(Uttered(t, calls, m))
         /\ Marks(Blocks(Uttered(t, calls, m)), kinds) = CodexShown(m, kinds)
<1> DEFINE u == Uttered(t, calls, m)
           c == m.content
           d == m.calls
           pics == ImageParts(c)
           w == FlattenSeq(EachOf(CodexPart, c))
           v == OfKind(w, {"text", "unfit"})
           a == Answering(m)
<1>1. IsSeq(c) /\ IsSeq(d) /\ Speech(c) /\ Doings(d)
  BY DEF IsMessage, Speech, Doings
<1>2. /\ kinds \in SUBSET Sorts
      /\ "text" \in kinds <=> kinds = {"text"}
      /\ "call" \in kinds <=> kinds = {"call"}
      /\ "result" \in kinds <=> kinds = {"result"}
      /\ "image" \in kinds <=> kinds = Media
  BY QuartetFacts
<1>3. u = CodexSaid(m)
  BY DEF Uttered
<1>4. {"image"} \in SUBSET Sorts /\ {"text"} \in SUBSET Sorts /\ {} \in SUBSET Sorts
  BY DEF Sorts, Media
<1>5. Marks(c, {"call"}) = << >> /\ Marks(c, {"result"}) = << >> /\ Marks(c, {}) = << >>
  <2>1. \A i \in 1 .. Len(c) : c[i].kind \notin {}
    OBVIOUS
  <2>2. QED
    BY <1>1, <1>4, <2>1, SpeechSays, MarksOther
<1>6. IsSeq(pics) /\ Marks(pics, kinds) = IF kinds = Media THEN Marks(c, {"image"}) ELSE << >>
  <2>1. IsSeq(pics) /\ Marks(pics, kinds) = Marks(c, kinds \cap {"image"})
    BY <1>1, <1>2, KindedFacts, MarksOfKind DEF ImageParts
  <2>2. kinds \cap {"image"} = IF kinds = Media THEN {"image"} ELSE {}
    BY <1>2
  <2>3. QED
    BY <1>5, <2>1, <2>2
<1>7. IsSeq(w) /\ Marks(w, kinds) = Marks(c, kinds \cap {"text", "image"})
  BY <1>1, <1>2, CodexParts
<1>8. kinds \cap {"text", "image"} =
        IF kinds = Media THEN {"image"} ELSE IF kinds = {"text"} THEN {"text"} ELSE {}
  <2>1. CASE kinds = Media
    BY <1>2, <2>1 DEF Media
  <2>2. CASE kinds # Media
    BY <1>2, <2>2
  <2>3. QED
    BY <2>1, <2>2
<1>9. IsSeq(v) /\ Marks(v, kinds) = IF kinds = {"text"} THEN Marks(c, {"text"}) ELSE << >>
  <2>1. IsSeq(v) /\ Marks(v, kinds) = Marks(w, kinds \cap {"text", "unfit"})
    BY <1>2, <1>7, KindedFacts, MarksOfKind
  <2>2. kinds \cap {"text", "unfit"} = IF kinds = {"text"} THEN {"text"} ELSE {}
    BY <1>2 DEF Sorts, Media
  <2>3. Marks(w, {"text"}) = Marks(c, {"text"} \cap {"text", "image"})
    BY <1>1, <1>4, CodexParts
  <2>4. Marks(w, {}) = Marks(c, {} \cap {"text", "image"})
    BY <1>1, <1>4, CodexParts
  <2>5. {"text"} \cap {"text", "image"} = {"text"} /\ {} \cap {"text", "image"} = {}
    OBVIOUS
  <2>6. QED
    BY <1>5, <2>1, <2>2, <2>3, <2>4, <2>5
<1>10. kinds # {"call"} => Marks(d, kinds) = << >>
  BY <1>1, <1>2, DoingsSay
<1>11. kinds = {"text"} \/ kinds = Media \/ kinds = {"call"} \/ kinds = {"result"}
  BY DEF Quartet
<1>12. Media # {"text"} /\ Media # {"call"} /\ Media # {"result"}
  BY DEF Media
<1>13. IsSeq(Marks(c, kinds)) /\ IsSeq(Marks(d, kinds)) /\ IsSeq(Marks(c, {"image"}))
         /\ IsSeq(<< >>)
  BY <1>1, <1>2, <1>4, CatFacts, MarkingFacts
<1> DEFINE x == IF kinds = Media THEN Marks(c, {"image"}) ELSE Marks(c, kinds)
           y == Marks(d, kinds)
<1>14. CASE m.role \in System
  <2>1. m.role # "tool" /\ m.role # "assistant"
    BY <1>14 DEF System
  <2>2. u = Turn("user", pics) /\ Conveyed(m, c, kinds) = << >>
    <3>1. u = Turn("user", pics)
      BY <1>3, <1>14, <2>1 DEF CodexSaid
    <3>2. Conveyed(m, c, kinds) = << >>
      BY <1>14, <2>1 DEF Conveyed
    <3>3. QED
      BY <3>1, <3>2
  <2> HIDE DEF u, pics
  <2>3. Bodied(u) /\ Blocks(u) = pics
    BY <1>6, <2>2, TurnFacts
  <2>4. QED
    BY <1>6, <2>2, <2>3 DEF u, CodexShown
<1>15. CASE m.role = "tool"
  <2>1. m.role \notin System
    BY <1>15 DEF System
  <2> DEFINE b == <<a>>
  <2>2. u = Turn("user", Cat(b, pics))
    BY <1>3, <1>15, <2>1 DEF CodexSaid, Cat
  <2>3. a.kind = "result" /\ a.of = m.result.of /\ AsText(a.parts) = AsText(c)
    BY <1>15, Answered
  <2>4. Marks(b, kinds) = Conveyed(m, c, kinds) /\ Marks(b, kinds) = Marked(a, kinds)
    BY <1>2, <1>15, <2>3, ResultSays, MarksJoined
  <2>5. kinds # {"result"} => Conveyed(m, c, kinds) = << >>
    BY <1>2, <2>3, <2>4 DEF Marked
  <2>6. IsSeq(b) /\ IsSeq(Conveyed(m, c, kinds))
    BY <1>2, <2>4, Singleton, MarkedFacts
  <2> HIDE DEF u, pics, b
  <2>7. Bodied(u) /\ Blocks(u) = Cat(b, pics)
    BY <1>6, <2>2, <2>6, CatFacts, TurnFacts
  <2>8. Marks(Blocks(u), kinds) = Cat(Conveyed(m, c, kinds), Marks(pics, kinds))
    <3>1. Marks(Cat(b, pics), kinds) = Cat(Marks(b, kinds), Marks(pics, kinds))
      BY <1>2, <1>6, <2>6, MarksJoined
    <3>2. QED
      BY <2>4, <2>7, <3>1
  <2>9. CASE kinds = Media
    <3>1. Marks(Blocks(u), kinds) = Cat(<< >>, Marks(c, {"image"}))
      BY <1>6, <1>12, <2>5, <2>8, <2>9
    <3>2. Marks(Blocks(u), kinds) = Marks(c, {"image"})
      BY <1>13, <3>1, CatFacts
    <3>3. QED
      BY <2>7, <2>9, <3>2 DEF CodexShown, u
  <2>10. CASE kinds # Media
    <3>1. Marks(Blocks(u), kinds) = Cat(Conveyed(m, c, kinds), << >>)
      BY <1>6, <2>8, <2>10
    <3>2. Marks(Blocks(u), kinds) = Conveyed(m, c, kinds)
      BY <2>6, <3>1, CatFacts
    <3>3. QED
      BY <2>7, <2>10, <3>2 DEF CodexShown, u
  <2>11. QED
    BY <2>9, <2>10
<1>16. CASE m.role \notin System /\ m.role # "tool"
  <2>1. Conveyed(m, c, kinds) = Cat(Marks(c, kinds), Marks(d, kinds))
    BY <1>16 DEF Conveyed
  <2>2. Cat(x, y) = CodexShown(m, kinds)
    <3>1. CASE kinds = Media
      <4>1. y = << >> /\ x = Marks(c, {"image"})
        BY <1>10, <1>12, <3>1
      <4>2. Cat(Marks(c, {"image"}), << >>) = Marks(c, {"image"})
        BY <1>13, CatFacts
      <4>3. QED
        BY <3>1, <4>1, <4>2 DEF CodexShown
    <3>2. CASE kinds # Media
      BY <2>1, <3>2 DEF CodexShown
    <3>3. QED
      BY <3>1, <3>2
  <2>3. Marks(w, kinds) = x
    BY <1>5, <1>7, <1>8, <1>11
  <2>4. CASE m.role = "assistant"
    <3> DEFINE p == Turn("user", pics)
               q == Turn("assistant", Cat(v, d))
    <3>1. u = Cat(p, q)
      BY <1>3, <1>16, <2>4 DEF CodexSaid, Cat
    <3>2. IsSeq(Cat(v, d))
      BY <1>1, <1>9, CatFacts
    <3> HIDE DEF u, pics, w, v
    <3>3. Bodied(p) /\ Blocks(p) = pics /\ Bodied(q) /\ Blocks(q) = Cat(v, d)
      BY <1>6, <3>2, TurnFacts
    <3> HIDE DEF p, q
    <3>4. Bodied(u) /\ Blocks(u) = Cat(pics, Cat(v, d))
      BY <3>1, <3>3, BlocksJoined, BodiedJoined
    <3>5. Marks(Blocks(u), kinds) = Cat(Marks(pics, kinds), Cat(Marks(v, kinds), y))
      <4>1. Marks(Cat(pics, Cat(v, d)), kinds) = Cat(Marks(pics, kinds), Marks(Cat(v, d), kinds))
        BY <1>2, <1>6, <3>2, MarksJoined
      <4>2. Marks(Cat(v, d), kinds) = Cat(Marks(v, kinds), y)
        BY <1>1, <1>2, <1>9, MarksJoined
      <4>3. QED
        BY <3>4, <4>1, <4>2
    <3>6. Cat(Marks(pics, kinds), Cat(Marks(v, kinds), y)) = Cat(x, y)
      <4>1. CASE kinds = Media
        <5>1. Marks(v, kinds) = << >> /\ Marks(pics, kinds) = x
          BY <1>6, <1>9, <1>12, <4>1
        <5>2. Cat(<< >>, y) = y
          BY <1>13, CatFacts
        <5>3. QED
          BY <5>1, <5>2
      <4>2. CASE kinds # Media
        <5>1. Marks(pics, kinds) = << >>
          BY <1>6, <4>2
        <5>2. Marks(v, kinds) = Marks(c, kinds) /\ x = Marks(c, kinds)
          BY <1>5, <1>9, <1>11, <4>2
        <5>3. Cat(<< >>, Cat(Marks(c, kinds), y)) = Cat(Marks(c, kinds), y)
          BY <1>13, CatFacts
        <5>4. QED
          BY <5>1, <5>2, <5>3
      <4>3. QED
        BY <4>1, <4>2
    <3>7. QED
      BY <2>2, <3>4, <3>5, <3>6 DEF u
  <2>5. CASE m.role # "assistant"
    <3>1. u = Turn("user", w)
      BY <1>3, <1>16, <2>5 DEF CodexSaid
    <3>2. d = << >>
      BY <2>5 DEF IsMessage
    <3> HIDE DEF u, w
    <3>3. Bodied(u) /\ Blocks(u) = w
      BY <1>7, <3>1, TurnFacts
    <3>4. y = << >>
      BY <1>2, <3>2, MarksJoined
    <3>5. IsSeq(x)
      BY <1>13
    <3> HIDE DEF x, y
    <3>6. Cat(x, y) = x
      BY <3>4, <3>5, CatFacts
    <3>7. QED
      BY <2>2, <2>3, <3>3, <3>6 DEF u
  <2>6. QED
    BY <2>4, <2>5
<1>17. QED
  BY <1>14, <1>15, <1>16

\* The turns of a body, and why it is refused.
LEMMA Built ==
  ASSUME NEW t, t.dialect \in Dialects, NEW req
  PROVE  LET body == BuildOutbound(t, req)
         IN  /\ t.dialect = "OpenAi" => body.turns = FlattenSeq(EachOf(ChatSaid, req.messages))
             /\ t.dialect = "Anthropic" => body.turns = AnthropicMessages(req.messages)
             /\ t.dialect = "Gemini" => body.turns = GeminiMessages(req.messages)
             /\ t.dialect = "Bedrock" => body.turns = BedrockMessages(req.messages)
             /\ t.dialect = "Codex" =>
                  body.turns = IF req.format = "json_object"
                               THEN EnsureJsonMentioned(SplitInput(req.messages),
                                                        SystemTexts(req.messages))
                               ELSE SplitInput(req.messages)
             /\ t.dialect # "OpenAi" /\ ~body.refused => ~Fails(body.turns)
<1>1. CASE t.dialect = "OpenAi"
  BY <1>1 DEF BuildOutbound, ChatBody, Body
<1>2. CASE t.dialect = "Anthropic"
  <2> DEFINE b == BuildAnthropic(req, t.efforts)
  <2>1. b.turns = AnthropicMessages(req.messages) /\ (~b.refused => ~Fails(b.turns))
    BY DEF BuildAnthropic, Body
  <2>2. PinClaudeIdentity(b).turns = b.turns /\ PinClaudeIdentity(b).refused = b.refused
    BY DEF PinClaudeIdentity, BuildAnthropic, Body
  <2> HIDE DEF b
  <2>3. BuildOutbound(t, req) \in {b, PinClaudeIdentity(b)}
    BY <1>2 DEF BuildOutbound, b
  <2>4. QED
    BY <1>2, <2>1, <2>2, <2>3
<1>3. CASE t.dialect = "Gemini"
  BY <1>3 DEF BuildOutbound, BuildGemini, Body
<1>4. CASE t.dialect = "Bedrock"
  BY <1>4 DEF BuildOutbound, BuildBedrock, Body
<1>5. CASE t.dialect = "Codex"
  BY <1>5 DEF BuildOutbound, CodexRequest, Body
<1>6. QED
  BY <1>1, <1>2, <1>3, <1>4, <1>5 DEF Dialects

\* A body that does not fail has no unfit block.
LEMMA NothingFails ==
  ASSUME NEW turns, Bodied(turns), ~Fails(turns)
  PROVE  Fit(Blocks(turns))
<1> DEFINE tt == Spelled(turns)
           b == Blocks(turns)
<1>1. b = FlattenSeq(tt) /\ Lists(tt) /\ Len(tt) = Len(turns)
  BY BlocksFacts
<1>2. DOMAIN turns = 1 .. Len(turns)
  BY SeqFacts DEF Bodied
<1>3. \A k \in 1 .. Len(b) : \E i \in 1 .. Len(tt) : \E j \in 1 .. Len(tt[i]) : b[k] = tt[i][j]
  BY <1>1, FlattenedFacts DEF Lists
<1>4. ASSUME NEW i \in 1 .. Len(tt), NEW j \in 1 .. Len(tt[i]), tt[i][j].kind = "unfit"
      PROVE  FALSE
  <2> DEFINE s == turns[i].blocks
  <2>1. i \in 1 .. Len(turns) /\ tt[i] = s
    BY <1>1 DEF Spelled
  <2>2. IsSeq(s)
    BY <2>1 DEF Bodied, IsTurn
  <2>3. OfKind(s, {"unfit"}) = << >>
    BY <1>2, <2>1 DEF Fails
  <2>4. \E k \in 1 .. Len(OfKind(s, {"unfit"})) : OfKind(s, {"unfit"})[k] = s[j]
    BY <1>4, <2>1, <2>2, KindedFacts, SMTT(30)
  <2>5. Len(<< >>) = 0
    BY CatFacts
  <2>6. QED
    BY <2>3, <2>4, <2>5
<1> HIDE DEF b, tt
<1>5. QED
  BY <1>3, <1>4 DEF Fit, b

\* What has no unfit block has none in any of its lists.
LEMMA FitFlat ==
  ASSUME NEW ss, Lists(ss), Fit(FlattenSeq(ss)), NEW i \in 1 .. Len(ss)
  PROVE  Fit(ss[i])
<1>1. ASSUME NEW j \in 1 .. Len(ss[i])
      PROVE  ss[i][j].kind # "unfit"
  <2>1. \E k \in 1 .. Len(FlattenSeq(ss)) : FlattenSeq(ss)[k] = ss[i][j]
    BY FlattenedHas
  <2>2. QED
    BY <2>1 DEF Fit
<1>2. QED
  BY <1>1 DEF Fit

\* What messages are sent as, message by message.
Sent(t, ms) == [i \in 1 .. Len(ms) |-> Blocks(Uttered(t, CallsMade(ms), ms[i]))]

\* The blocks of a body are what its messages are sent as, and for Codex perhaps a hint.
LEMMA BodyBlocks ==
  ASSUME NEW t, t.dialect \in Dialects, NEW req, IsSeq(req.messages),
         \A i \in 1 .. Len(req.messages) :
           /\ IsMessage(req.messages[i])
           /\ t.dialect = "Codex" =>
                \A j \in 1 .. Len(req.messages[i].content) :
                  req.messages[i].content[j].kind # "file"
  PROVE  LET turns == BuildOutbound(t, req).turns
             sent1 == Sent(t, req.messages)
         IN  /\ Lists(sent1) /\ Len(sent1) = Len(req.messages) /\ Bodied(turns)
             /\ \/ Blocks(turns) = FlattenSeq(sent1)
                \/ t.dialect = "Codex" /\ Blocks(turns) = Cat(FlattenSeq(sent1), <<Hint>>)
<1> DEFINE ms == req.messages
           n == Len(ms)
           calls == CallsMade(ms)
           turns == BuildOutbound(t, req).turns
           uu == [i \in 1 .. n |-> Uttered(t, calls, ms[i])]
           raw == FlattenSeq(uu)
           bb == Sent(t, ms)
<1>1. n \in Nat /\ DOMAIN ms = 1 .. n
  BY SeqFacts
<1>2. ASSUME NEW i \in 1 .. n
      PROVE  uu[i] = Uttered(t, calls, ms[i]) /\ Bodied(uu[i]) /\ IsSeq(Blocks(uu[i]))
  <2> DEFINE m == ms[i]
             u == Uttered(t, calls, m)
  <2>1. uu[i] = u
    OBVIOUS
  <2>2. IsMessage(m)
        /\ (t.dialect = "Codex" => \A j \in 1 .. Len(m.content) : m.content[j].kind # "file")
    OBVIOUS
  <2>3. {"text"} \in Quartet /\ {"text"} \in SUBSET Sorts
    BY DEF Quartet, Sorts
  <2> HIDE DEF m, uu, calls
  <2>4. Bodied(u)
    <3>1. CASE t.dialect = "Codex"
      BY <2>2, <2>3, <3>1, UtteredCodex
    <3>2. CASE t.dialect # "Codex"
      BY <2>2, <2>3, <3>2, UtteredPlain
    <3>3. QED
      BY <3>1, <3>2
  <2> HIDE DEF u
  <2>5. QED
    BY <2>1, <2>4, BlocksFacts DEF u, m
<1>3. IsSeq(uu) /\ Len(uu) = n
  <2>1. uu = [i \in 1 .. n |-> uu[i]]
    OBVIOUS
  <2> HIDE DEF uu
  <2>2. QED
    BY <1>1, <2>1, FamilySeq
<1>4. bb = [i \in 1 .. Len(uu) |-> Blocks(uu[i])]
  BY <1>3 DEF Sent
<1>5. /\ t.dialect = "OpenAi" => EachOf(ChatSaid, ms) = uu
      /\ t.dialect = "Anthropic" => EachOf(AnthropicSaid, ms) = uu
      /\ t.dialect = "Gemini" => EachOf(LAMBDA m : GeminiSaid(calls, m), ms) = uu
      /\ t.dialect = "Bedrock" => EachOf(BedrockSaid, ms) = uu
      /\ t.dialect = "Codex" => EachOf(CodexSaid, ms) = uu
  <2> HIDE DEF calls
  <2>1. QED
    BY <1>1 DEF EachOf, Uttered
<1> HIDE DEF uu, bb
<1>6. Bodied(raw) /\ Lists(bb) /\ Blocks(raw) = FlattenSeq(bb) /\ Len(bb) = n
  <2>1. /\ Bodied(raw) /\ Blocks(raw) = FlattenSeq(bb)
        /\ bb = [i \in 1 .. Len(uu) |-> bb[i]] /\ \A i \in 1 .. n : IsSeq(bb[i])
    BY <1>2, <1>3, <1>4, BlocksFlat
  <2>2. Lists(bb) /\ Len(bb) = n
    BY <1>1, <1>3, <2>1, FamilyLists
  <2>3. QED
    BY <2>1, <2>2
<1>7. CASE t.dialect = "OpenAi"
  <2>1. turns = raw
    BY <1>5, <1>7, Built DEF raw
  <2>2. QED
    BY <1>6, <2>1 DEF bb
<1>8. CASE t.dialect = "Anthropic"
  <2>1. turns = Filled(Merged(raw))
    BY <1>5, <1>8, Built DEF AnthropicMessages
  <2> HIDE DEF turns, raw
  <2>2. Bodied(turns) /\ Blocks(turns) = Blocks(raw)
    BY <1>6, <2>1, BlocksMerged, BlocksFilled
  <2>3. QED
    BY <1>6, <2>2 DEF bb, turns
<1>9. CASE t.dialect \in {"Gemini", "Bedrock"}
  <2>1. turns = Merged(raw)
    BY <1>5, <1>9, Built DEF GeminiMessages, BedrockMessages
  <2> HIDE DEF turns, raw
  <2>2. Bodied(turns) /\ Blocks(turns) = Blocks(raw)
    BY <1>6, <2>1, BlocksMerged
  <2>3. QED
    BY <1>6, <2>2 DEF bb, turns
<1>10. CASE t.dialect = "Codex"
  <2> DEFINE hint == [role |-> "user", blocks |-> <<Hint>>]
  <2>1. SplitInput(ms) = raw
    BY <1>5, <1>10 DEF SplitInput
  <2>2. turns \in {raw, Append(raw, hint)}
    BY <1>10, <2>1, Built DEF EnsureJsonMentioned
  <2>3. Append(raw, hint) = Cat(raw, <<hint>>)
    BY <1>6, Appended DEF Bodied, Cat
  <2>4. IsSeq(<<Hint>>)
    BY Singleton
  <2>5. Bodied(<<hint>>) /\ Blocks(<<hint>>) = <<Hint>>
    BY <2>4, TurnFacts
  <2> HIDE DEF turns, raw, hint
  <2>6. Blocks(Cat(raw, <<hint>>)) = Cat(Blocks(raw), <<Hint>>) /\ Bodied(Cat(raw, <<hint>>))
    BY <1>6, <2>5, BlocksJoined, BodiedJoined
  <2>7. QED
    BY <1>6, <1>10, <2>2, <2>3, <2>6 DEF bb, turns
<1>11. QED
  BY <1>7, <1>8, <1>9, <1>10 DEF Dialects

Sounded(t, m, kinds) ==
  IF t.dialect = "Codex" THEN CodexShown(m, kinds) ELSE Conveyed(m, Borne(t, m.content), kinds)

\* A body that is not refused says what its messages say, one after the other.
LEMMA BodySays ==
  ASSUME NEW t, t.dialect \in Dialects, NEW req, IsSeq(req.messages),
         \A i \in 1 .. Len(req.messages) :
           /\ IsMessage(req.messages[i])
           /\ t.dialect = "Codex" =>
                \A j \in 1 .. Len(req.messages[i].content) :
                  req.messages[i].content[j].kind # "file",
         ~BuildOutbound(t, req).refused, NEW kinds \in Quartet
  PROVE  /\ Lists([i \in 1 .. Len(req.messages) |-> Sounded(t, req.messages[i], kinds)])
         /\ Marks(Blocks(BuildOutbound(t, req).turns), kinds)
              = FlattenSeq([i \in 1 .. Len(req.messages) |-> Sounded(t, req.messages[i], kinds)])
<1> DEFINE ms == req.messages
           n == Len(ms)
           body == BuildOutbound(t, req)
           bb == Sent(t, ms)
           flat == FlattenSeq(bb)
           zz == [i \in 1 .. n |-> Sounded(t, ms[i], kinds)]
<1>1. kinds \in SUBSET Sorts
  BY QuartetFacts
<1>2. /\ Lists(bb) /\ Len(bb) = n /\ Bodied(body.turns)
      /\ \/ Blocks(body.turns) = flat
         \/ t.dialect = "Codex" /\ Blocks(body.turns) = Cat(flat, <<Hint>>)
  BY BodyBlocks
<1>3. IsSeq(flat)
  BY <1>2, FlattenedSeq
<1>4. ASSUME NEW i \in 1 .. n, t.dialect \in {"OpenAi", "Codex"} \/ Fit(bb[i])
      PROVE  Marks(bb[i], kinds) = zz[i]
  <2> DEFINE m == ms[i]
             u == Uttered(t, CallsMade(ms), m)
  <2>1. bb[i] = Blocks(u) /\ zz[i] = Sounded(t, m, kinds)
    BY DEF Sent
  <2>2. IsMessage(m)
        /\ (t.dialect = "Codex" => \A j \in 1 .. Len(m.content) : m.content[j].kind # "file")
    OBVIOUS
  <2> HIDE DEF m, bb, zz
  <2>3. CASE t.dialect = "Codex"
    <3>1. Marks(Blocks(u), kinds) = CodexShown(m, kinds)
      BY <2>2, <2>3, UtteredCodex
    <3>2. QED
      BY <2>1, <2>3, <3>1 DEF Sounded
  <2>4. CASE t.dialect # "Codex"
    <3>1. t.dialect \in Dialects \ {"Codex"}
      BY <2>4
    <3>2. (t.dialect = "OpenAi" \/ Fit(Blocks(u))) =>
            Marks(Blocks(u), kinds) = Conveyed(m, Borne(t, m.content), kinds)
      BY <1>1, <2>2, <3>1, UtteredPlain
    <3>3. QED
      BY <1>4, <2>1, <2>4, <3>2 DEF Sounded
  <2>5. QED
    BY <2>3, <2>4
<1>5. zz = [i \in 1 .. n |-> zz[i]]
  OBVIOUS
<1> HIDE DEF bb, zz
<1>6. /\ Lists([i \in 1 .. n |-> Marks(bb[i], kinds)])
      /\ Marks(flat, kinds) = FlattenSeq([i \in 1 .. n |-> Marks(bb[i], kinds)])
  BY <1>1, <1>2, MarksFlat
<1>7. \A i \in 1 .. n : t.dialect \in {"OpenAi", "Codex"} \/ Fit(bb[i])
  <2>1. CASE t.dialect \in {"OpenAi", "Codex"}
    BY <2>1
  <2>2. CASE t.dialect \notin {"OpenAi", "Codex"}
    <3>1. ~Fails(body.turns)
      BY <2>2, Built
    <3> HIDE DEF body
    <3>2. Fit(flat)
      BY <1>2, <2>2, <3>1, NothingFails
    <3>3. QED
      BY <1>2, <3>2, FitFlat
  <2>3. QED
    BY <2>1, <2>2
<1>8. Lists(zz) /\ Marks(flat, kinds) = FlattenSeq(zz)
  <2>1. \A i \in 1 .. n : Marks(bb[i], kinds) = zz[i]
    BY <1>4, <1>7
  <2>2. [i \in 1 .. n |-> Marks(bb[i], kinds)] = zz
    BY <1>5, <2>1
  <2>3. QED
    BY <1>6, <2>2
<1>9. Marks(<<Hint>>, kinds) = << >>
  <2> DEFINE hinted == Hint.data
  <2>1. Hint.kind = "text"
    BY DEF Hint, Text, Item
  <2>2. Mark(Hint) = IF Hint.data \in {None, hinted} THEN << >> ELSE <<Hint.data>>
    BY <2>1 DEF Mark, Media
  <2>3. Hint.data \in {None, hinted}
    OBVIOUS
  <2>4. Mark(Hint) = << >>
    BY <2>2, <2>3
  <2>5. Marked(Hint, kinds) = << >>
    BY <2>4 DEF Marked
  <2>6. QED
    BY <1>1, <2>5, MarksJoined
<1>10. Marks(Cat(flat, <<Hint>>), kinds) = Marks(flat, kinds)
  <2> DEFINE h == <<Hint>>
  <2>1. IsSeq(h) /\ Marks(h, kinds) = << >>
    BY <1>9, Singleton
  <2> HIDE DEF flat, h
  <2>2. Marks(Cat(flat, h), kinds) = Cat(Marks(flat, kinds), << >>) /\ IsSeq(Marks(flat, kinds))
    BY <1>1, <1>3, <2>1, MarksJoined, MarkingFacts
  <2>3. Marks(Cat(flat, h), kinds) = Marks(flat, kinds)
    BY <2>2, CatFacts
  <2>4. QED
    BY <2>3 DEF h
<1>11. Marks(Blocks(body.turns), kinds) = Marks(flat, kinds)
  BY <1>2, <1>10
<1>12. QED
  BY <1>8, <1>11 DEF zz

\* What is told of a list, a piece for each of its elements.
Telling(h, s) == [i \in 1 .. Len(s) |-> h[s[i]]]
Told(h, s) == FlattenSeq(Telling(h, s))
ToldEach(h, ss) == [i \in 1 .. Len(ss) |-> Told(h, ss[i])]

\* What is told of a list, element by element.
LEMMA TellingFacts ==
  ASSUME NEW S, NEW h, \A x \in S : IsSeq(h[x]), NEW s \in Seq(S)
  PROVE  Lists(Telling(h, s)) /\ Len(Telling(h, s)) = Len(s) /\ IsSeq(Told(h, s))
<1> DEFINE tt == Telling(h, s)
<1>1. Len(s) \in Nat /\ \A i \in 1 .. Len(s) : s[i] \in S
  OBVIOUS
<1>2. tt = [i \in 1 .. Len(s) |-> tt[i]] /\ \A i \in 1 .. Len(s) : tt[i] = h[s[i]]
  BY DEF Telling
<1> HIDE DEF tt
<1>3. \A i \in 1 .. Len(s) : IsSeq(tt[i])
  BY <1>1, <1>2
<1>4. Lists(tt) /\ Len(tt) = Len(s)
  BY <1>1, <1>2, <1>3, FamilyLists
<1>5. QED
  BY <1>4, FlattenedSeq DEF tt, Told

\* Told of none, of one, and of one list after another.
LEMMA ToldJoined ==
  ASSUME NEW S, NEW h, \A x \in S : IsSeq(h[x])
  PROVE  /\ Told(h, << >>) = << >>
         /\ \A x \in S : Told(h, <<x>>) = h[x]
         /\ \A s, t \in Seq(S) : Told(h, Cat(s, t)) = Cat(Told(h, s), Told(h, t))
<1>1. Told(h, << >>) = << >>
  <2>1. << >> \in Seq(S) /\ Len(<< >>) = 0
    OBVIOUS
  <2>2. Len(Telling(h, << >>)) = 0 /\ IsSeq(Telling(h, << >>))
    BY <2>1, TellingFacts DEF Lists
  <2>3. Telling(h, << >>) = << >>
    BY <2>2, SeqFacts
  <2>4. QED
    BY <2>3, FlattenedEnds DEF Told
<1>2. ASSUME NEW x \in S
      PROVE  Told(h, <<x>>) = h[x]
  <2> DEFINE s == <<x>>
             tt == Telling(h, s)
             y == h[x]
  <2>1. s \in Seq(S) /\ Len(s) = 1 /\ s[1] = x
    OBVIOUS
  <2> HIDE DEF s
  <2>2. IsSeq(tt) /\ Len(tt) = 1
    BY <2>1, TellingFacts DEF Lists
  <2>3. tt[1] = y
    BY <2>1 DEF Telling
  <2>4. IsSeq(<<y>>) /\ Len(<<y>>) = 1 /\ <<y>>[1] = y /\ IsSeq(y)
    BY Singleton
  <2> HIDE DEF tt, y
  <2>5. \A i \in 1 .. Len(tt) : tt[i] = <<y>>[i]
    BY <2>2, <2>3, <2>4
  <2>6. tt = <<y>>
    BY <2>2, <2>4, <2>5, SameSeq
  <2>7. FlattenSeq(tt) = y
    BY <2>4, <2>6, FlattenedEnds
  <2>8. QED
    BY <2>7 DEF s, y, tt, Told
<1>3. ASSUME NEW s \in Seq(S), NEW t \in Seq(S)
      PROVE  Told(h, Cat(s, t)) = Cat(Told(h, s), Told(h, t))
  <2> DEFINE u == Cat(s, t)
             a == Telling(h, s)
             b == Telling(h, t)
             c == Telling(h, u)
  <2>0. IsSeq(s) /\ IsSeq(t)
    BY DEF IsSeq
  <2>1. /\ IsSeq(u) /\ Len(u) = Len(s) + Len(t)
        /\ \A i \in 1 .. Len(s) + Len(t) :
              \/ i \in 1 .. Len(s) /\ u[i] = s[i]
              \/ i - Len(s) \in 1 .. Len(t) /\ u[i] = t[i - Len(s)]
    BY <2>0, Joined DEF Cat
  <2>2. Len(s) \in Nat /\ Len(t) \in Nat /\ u \in Seq(S)
    BY DEF Cat
  <2> HIDE DEF u
  <2>3. Lists(a) /\ Lists(b) /\ Lists(c) /\ Len(a) = Len(s) /\ Len(b) = Len(t) /\ Len(c) = Len(u)
    BY <2>2, TellingFacts
  <2>4. \A i \in 1 .. Len(s) : a[i] = h[s[i]]
    BY DEF Telling
  <2>5. \A i \in 1 .. Len(t) : b[i] = h[t[i]]
    BY DEF Telling
  <2>6. \A i \in 1 .. Len(u) : c[i] = h[u[i]]
    BY DEF Telling
  <2> HIDE DEF a, b, c
  <2> DEFINE v == a \o b
  <2>7. /\ IsSeq(v) /\ Len(v) = Len(a) + Len(b)
        /\ \A i \in 1 .. Len(a) : v[i] = a[i]
        /\ \A i \in 1 .. Len(b) : v[Len(a) + i] = b[i]
    <3>1. IsSeq(a) /\ IsSeq(b)
      BY <2>3 DEF Lists
    <3>2. QED
      BY <3>1, Joined
  <2> HIDE DEF v
  <2>8. ASSUME NEW i \in 1 .. Len(c)
        PROVE  c[i] = v[i]
    <3>1. CASE i \in 1 .. Len(s) /\ u[i] = s[i]
      BY <2>1, <2>2, <2>3, <2>4, <2>6, <2>7, <3>1
    <3>2. CASE i - Len(s) \in 1 .. Len(t) /\ u[i] = t[i - Len(s)]
      <4> DEFINE j == i - Len(s)
      <4>1. j \in 1 .. Len(t) /\ Len(s) + j = i /\ u[i] = t[j]
        BY <2>1, <2>2, <2>3, <3>2
      <4> HIDE DEF j
      <4>2. v[i] = b[j]
        BY <2>3, <2>7, <4>1
      <4>3. QED
        BY <2>3, <2>5, <2>6, <4>1, <4>2
    <3>3. QED
      BY <2>1, <2>3, <3>1, <3>2
  <2>9. c = v
    <3>1. IsSeq(c) /\ Len(c) = Len(v)
      BY <2>1, <2>3, <2>7 DEF Lists
    <3>2. QED
      BY <2>7, <2>8, <3>1, SameSeq
  <2>10. FlattenSeq(v) = Cat(FlattenSeq(a), FlattenSeq(b))
    BY <2>3, FlattenedJoin DEF v
  <2>11. QED
    BY <2>9, <2>10 DEF u, a, b, c, Told
<1>4. QED
  BY <1>1, <1>2, <1>3

\* Told of a list of lists, list by list.
LEMMA ToldFlat ==
  ASSUME NEW S, NEW h, \A x \in S : IsSeq(h[x]),
         NEW ss, IsSeq(ss), \A i \in 1 .. Len(ss) : ss[i] \in Seq(S)
  PROVE  /\ FlattenSeq(ss) \in Seq(S)
         /\ Lists(ToldEach(h, ss)) /\ Told(h, FlattenSeq(ss)) = FlattenSeq(ToldEach(h, ss))
<1> DEFINE g == [s \in Seq(S) |-> Told(h, s)]
<1>1. << >> \in Seq(S)
  OBVIOUS
<1>2. \A s, t \in Seq(S) : Cat(s, t) \in Seq(S)
  BY DEF Cat
<1>3. \A s \in Seq(S) : g[s] = Told(h, s)
  OBVIOUS
<1> HIDE DEF g
<1>4. \A s \in Seq(S) : IsSeq(g[s])
  BY <1>3, TellingFacts
<1>5. g[<< >>] = << >>
  BY <1>1, <1>3, ToldJoined
<1>6. ASSUME NEW s \in Seq(S), NEW t \in Seq(S)
      PROVE  g[Cat(s, t)] = Cat(g[s], g[t])
  <2>1. Told(h, Cat(s, t)) = Cat(Told(h, s), Told(h, t))
    BY ToldJoined
  <2>2. Cat(s, t) \in Seq(S)
    BY <1>2
  <2>3. QED
    BY <1>3, <2>1, <2>2
<1>7. Additive(g, S)
  BY <1>4, <1>5, <1>6 DEF Additive
<1>8. /\ FlattenSeq(ss) \in Seq(S)
      /\ Lists([i \in 1 .. Len(ss) |-> g[ss[i]]])
      /\ g[FlattenSeq(ss)] = FlattenSeq([i \in 1 .. Len(ss) |-> g[ss[i]]])
  BY <1>7, Homomorphic, SMTT(30)
<1>9. [i \in 1 .. Len(ss) |-> g[ss[i]]] = ToldEach(h, ss)
  BY <1>3 DEF ToldEach
<1>10. QED
  BY <1>3, <1>8, <1>9

\* What is told of the elements of some kinds alone: the pieces of the others are empty.
LEMMA PickedPieces ==
  ASSUME NEW s, IsSeq(s), NEW kinds, NEW tt, Lists(tt), Len(tt) = Len(s),
         NEW vv, Lists(vv), Len(vv) = Len(OfKind(s, kinds)),
         \A i \in 1 .. Len(s) : s[i].kind \notin kinds => tt[i] = << >>,
         \A i \in 1 .. Len(s) : \A k \in 1 .. Len(vv) :
           s[i].kind \in kinds /\ OfKind(s, kinds)[k] = s[i] => vv[k] = tt[i]
  PROVE  FlattenSeq(vv) = FlattenSeq(tt)
<1> DEFINE S == {s[i] : i \in 1 .. Len(s)}
           At(x) == CHOOSE i \in 1 .. Len(s) : s[i] = x
           h == [x \in S |-> IF x.kind \in kinds THEN tt[At(x)] ELSE << >>]
           ss == Kinding(s, kinds)
           w == OfKind(s, kinds)
<1>1. \A x \in S : At(x) \in 1 .. Len(s) /\ s[At(x)] = x
  OBVIOUS
<1>2. \A i \in 1 .. Len(s) : s[i] \in S
  OBVIOUS
<1>3. \A x \in S : h[x] = IF x.kind \in kinds THEN tt[At(x)] ELSE << >>
  OBVIOUS
<1> HIDE DEF S, h, At
<1>4. \A x \in S : IsSeq(h[x])
  BY <1>1, <1>3, CatFacts DEF Lists
<1>5. /\ w = FlattenSeq(ss) /\ Lists(ss) /\ Len(ss) = Len(s) /\ IsSeq(w)
      /\ \A k \in 1 .. Len(w) :
           /\ w[k].kind \in kinds
           /\ \E i \in 1 .. Len(s) : w[k] = s[i]
  BY KindedFacts
<1>6. \A i \in 1 .. Len(s) : ss[i] = IF s[i].kind \in kinds THEN <<s[i]>> ELSE << >>
  BY DEF Kinding, Kinded
<1> HIDE DEF ss, w
<1> DEFINE Tell(x) == Told(h, <<x>>)
<1>14. (\A x \in S : Tell(x) = h[x]) /\ Told(h, << >>) = << >>
  BY <1>4, ToldJoined
<1> HIDE DEF Tell
<1>7. \A k \in 1 .. Len(w) : vv[k] = h[w[k]]
  <2> SUFFICES ASSUME NEW k \in 1 .. Len(w)
               PROVE  vv[k] = h[w[k]]
    OBVIOUS
  <2>1. PICK i \in 1 .. Len(s) : w[k] = s[i]
    BY <1>5
  <2> DEFINE j == At(s[i])
  <2>2. j \in 1 .. Len(s) /\ s[j] = s[i] /\ s[i] \in S
    BY <1>1, <1>2
  <2> HIDE DEF j
  <2>3. h[s[i]] = tt[j]
    BY <1>3, <1>5, <2>1, <2>2 DEF j
  <2>4. vv[k] = tt[j]
    BY <1>5, <2>1, <2>2 DEF w
  <2>5. QED
    BY <2>1, <2>3, <2>4
<1>8. \A i \in 1 .. Len(s) : Told(h, ss[i]) = tt[i]
  <2> SUFFICES ASSUME NEW i \in 1 .. Len(s)
               PROVE  Told(h, ss[i]) = tt[i]
    OBVIOUS
  <2> DEFINE x == s[i]
             j == At(x)
  <2>1. x \in S /\ j \in 1 .. Len(s) /\ s[j] = x
    BY <1>1, <1>2
  <2>2. CASE x.kind \in kinds
    <3>1. ss[i] = <<x>>
      BY <1>6, <2>2
    <3>2. h[x] = tt[j]
      BY <1>3, <2>1, <2>2
    <3>3. PICK k \in 1 .. Len(w) : w[k] = x
      BY <2>2, KindedFacts DEF w
    <3>4. vv[k] = tt[i] /\ vv[k] = tt[j]
      <4>1. vv[k] = tt[i]
        BY <2>2, <3>3 DEF w
      <4> HIDE DEF j
      <4>2. s[j].kind \in kinds /\ OfKind(s, kinds)[k] = s[j]
        BY <2>1, <2>2, <3>3 DEF w
      <4>3. QED
        BY <2>1, <3>3, <4>1, <4>2 DEF w
    <3> HIDE DEF x, j
    <3>5. Told(h, <<x>>) = h[x]
      BY <1>14, <2>1 DEF Tell
    <3>6. QED
      BY <3>1, <3>2, <3>4, <3>5
  <2>3. CASE x.kind \notin kinds
    <3>1. ss[i] = << >> /\ tt[i] = << >>
      BY <1>6, <2>3
    <3>2. QED
      BY <1>4, <3>1, ToldJoined
  <2>4. QED
    BY <2>2, <2>3
<1>9. \A i \in 1 .. Len(ss) : ss[i] \in Seq(S)
  <2> SUFFICES ASSUME NEW i \in 1 .. Len(s)
               PROVE  ss[i] \in Seq(S)
    BY <1>5
  <2> DEFINE x == s[i]
  <2>1. x \in S /\ ss[i] \in {<<x>>, << >>}
    BY <1>2, <1>6
  <2> HIDE DEF x
  <2>2. <<x>> \in Seq(S) /\ << >> \in Seq(S)
    BY <2>1
  <2>3. QED
    BY <2>1, <2>2
<1>10. Told(h, w) = FlattenSeq(ToldEach(h, ss))
  <2>1. IsSeq(ss)
    BY <1>5 DEF Lists
  <2>2. QED
    BY <1>4, <1>5, <1>9, <2>1, ToldFlat
<1>11. ToldEach(h, ss) = tt
  <2>1. tt = [i \in 1 .. Len(tt) |-> tt[i]]
    BY SeqFacts DEF Lists
  <2>2. QED
    BY <1>5, <1>8, <2>1 DEF ToldEach
<1>12. Telling(h, w) = vv
  <2>1. vv = [i \in 1 .. Len(vv) |-> vv[i]]
    BY SeqFacts DEF Lists
  <2>2. Len(vv) = Len(w)
    BY DEF w
  <2>3. QED
    BY <1>7, <2>1, <2>2 DEF Telling
<1>13. QED
  BY <1>10, <1>11, <1>12 DEF Told

\* Pieces of which the first are of one sort and the rest of the other.
Halves(tt, n, aa, bb) ==
  /\ IsSeq(aa) /\ Len(aa) = Len(tt) /\ IsSeq(bb) /\ Len(bb) = Len(tt)
  /\ \A i \in 1 .. Len(tt) : aa[i] = IF i <= n THEN tt[i] ELSE << >>
  /\ \A i \in 1 .. Len(tt) : bb[i] = IF i <= n THEN << >> ELSE tt[i]

\* Lists up to a place, and lists from there on.
LEMMA SplitPieces ==
  ASSUME NEW tt, Lists(tt), NEW n \in 0 .. Len(tt), NEW aa, NEW bb, Halves(tt, n, aa, bb)
  PROVE  Lists(aa) /\ Lists(bb) /\ Len(aa) = Len(tt) /\ Len(bb) = Len(tt)
         /\ FlattenSeq(tt) = Cat(FlattenSeq(aa), FlattenSeq(bb))
<1> DEFINE l == Len(tt)
           front == [i \in 1 .. n |-> tt[i]]
           back == [i \in 1 .. l - n |-> tt[n + i]]
           none == [i \in 1 .. l - n |-> << >>]
           nil == [i \in 1 .. n |-> << >>]
<1>1. l \in Nat /\ n \in Nat /\ l - n \in Nat /\ n <= l
  BY SeqFacts DEF Lists
<1>2. IsSeq(<< >>)
  BY CatFacts
<1>3. \A i \in 1 .. l : IsSeq(tt[i])
  BY DEF Lists
<1>4. \A i \in 1 .. l - n : n + i \in 1 .. l /\ ~(n + i <= n)
  BY <1>1
<1>5. \A i \in 1 .. n : i \in 1 .. l /\ i <= n
  BY <1>1
<1> HIDE DEF l
<1>6. /\ front = [i \in 1 .. n |-> front[i]] /\ \A i \in 1 .. n : front[i] = tt[i]
      /\ nil = [i \in 1 .. n |-> nil[i]] /\ \A i \in 1 .. n : nil[i] = << >>
      /\ back = [i \in 1 .. l - n |-> back[i]] /\ \A i \in 1 .. l - n : back[i] = tt[n + i]
      /\ none = [i \in 1 .. l - n |-> none[i]] /\ \A i \in 1 .. l - n : none[i] = << >>
  OBVIOUS
<1> HIDE DEF front, back, none, nil
<1>7. Lists(front) /\ Len(front) = n /\ Lists(nil) /\ Len(nil) = n
  <2>1. \A i \in 1 .. n : IsSeq(front[i]) /\ IsSeq(nil[i])
    BY <1>2, <1>3, <1>5, <1>6
  <2>2. Lists(front) /\ Len(front) = n
    BY <1>1, <1>6, <2>1, FamilyLists
  <2>3. Lists(nil) /\ Len(nil) = n
    BY <1>1, <1>6, <2>1, FamilyLists
  <2>4. QED
    BY <2>2, <2>3
<1>8. Lists(back) /\ Len(back) = l - n /\ Lists(none) /\ Len(none) = l - n
  <2>1. \A i \in 1 .. l - n : IsSeq(back[i]) /\ IsSeq(none[i])
    BY <1>2, <1>3, <1>4, <1>6
  <2>2. QED
    BY <1>1, <1>6, <2>1, FamilyLists
<1>9. FlattenSeq(nil) = << >> /\ FlattenSeq(none) = << >>
  BY <1>6, <1>7, <1>8, FlattenedNothing DEF Lists
<1>10. \A i \in 1 .. l : aa[i] = (IF i <= n THEN tt[i] ELSE << >>)
                         /\ bb[i] = (IF i <= n THEN << >> ELSE tt[i])
  BY DEF l, Halves
<1>11. Lists(aa) /\ Lists(bb) /\ Len(aa) = l /\ Len(bb) = l
  <2>1. \A i \in 1 .. l : IsSeq(aa[i]) /\ IsSeq(bb[i])
    BY <1>2, <1>3, <1>10
  <2>2. QED
    BY <2>1 DEF Lists, l, Halves
<1>12. ASSUME NEW p, NEW q, NEW r, Lists(p), Len(p) = n, Lists(q), Len(q) = l - n, Lists(r),
              Len(r) = l,
              \A i \in 1 .. n : r[i] = p[i], \A i \in 1 .. l - n : r[n + i] = q[i]
       PROVE  FlattenSeq(r) = Cat(FlattenSeq(p), FlattenSeq(q))
  <2> DEFINE u == p \o q
  <2>1. /\ IsSeq(u) /\ Len(u) = n + (l - n)
        /\ \A i \in 1 .. n + (l - n) :
             \/ i \in 1 .. n /\ u[i] = p[i]
             \/ i - n \in 1 .. l - n /\ u[i] = q[i - n]
    BY <1>12, Joined DEF Lists
  <2>2. FlattenSeq(u) = Cat(FlattenSeq(p), FlattenSeq(q))
    BY <1>12, FlattenedJoin
  <2> HIDE DEF u
  <2>3. Len(u) = l
    BY <1>1, <2>1
  <2>4. ASSUME NEW i \in 1 .. l
        PROVE  u[i] = r[i]
    <3>0. i \in 1 .. n + (l - n)
      BY <1>1
    <3>1. CASE i \in 1 .. n /\ u[i] = p[i]
      BY <1>12, <3>1
    <3>2. CASE i - n \in 1 .. l - n /\ u[i] = q[i - n]
      <4> DEFINE j == i - n
      <4>1. j \in 1 .. l - n /\ n + j = i
        BY <1>1, <3>2
      <4>2. u[i] = q[j]
        BY <3>2
      <4> HIDE DEF j
      <4>3. r[n + j] = q[j]
        BY <1>12, <4>1
      <4>4. QED
        BY <4>1, <4>2, <4>3
    <3>3. QED
      BY <2>1, <3>0, <3>1, <3>2
  <2>5. u = r
    <3>1. IsSeq(u) /\ IsSeq(r) /\ Len(u) = Len(r) /\ \A i \in 1 .. Len(u) : u[i] = r[i]
      BY <1>12, <2>1, <2>3, <2>4 DEF Lists
    <3>2. QED
      BY <3>1, SameSeq
  <2>6. QED
    BY <2>2, <2>5
<1>13. FlattenSeq(aa) = Cat(FlattenSeq(front), FlattenSeq(none))
  <2>1. \A i \in 1 .. n : aa[i] = front[i]
    BY <1>5, <1>6, <1>10
  <2>2. \A i \in 1 .. l - n : aa[n + i] = none[i]
    BY <1>4, <1>6, <1>10
  <2>3. QED
    BY <1>7, <1>8, <1>11, <1>12, <2>1, <2>2
<1>14. FlattenSeq(bb) = Cat(FlattenSeq(nil), FlattenSeq(back))
  <2>1. \A i \in 1 .. n : bb[i] = nil[i]
    BY <1>5, <1>6, <1>10
  <2>2. \A i \in 1 .. l - n : bb[n + i] = back[i]
    BY <1>4, <1>6, <1>10
  <2>3. QED
    BY <1>7, <1>8, <1>11, <1>12, <2>1, <2>2
<1>15. FlattenSeq(tt) = Cat(FlattenSeq(front), FlattenSeq(back))
  <2>1. \A i \in 1 .. n : tt[i] = front[i]
    BY <1>6
  <2>2. \A i \in 1 .. l - n : tt[n + i] = back[i]
    BY <1>6
  <2>3. Len(tt) = l
    BY DEF l
  <2>4. QED
    BY <1>7, <1>8, <1>12, <2>1, <2>2, <2>3
<1>16. IsSeq(FlattenSeq(front)) /\ IsSeq(FlattenSeq(back))
  BY <1>7, <1>8, FlattenedSeq
<1>17. FlattenSeq(aa) = FlattenSeq(front) /\ FlattenSeq(bb) = FlattenSeq(back)
  BY <1>9, <1>13, <1>14, <1>16, CatFacts
<1>18. QED
  BY <1>11, <1>15, <1>17 DEF l

\* A message as the target is given it: for Codex, with its documents as images.
Paged(part) == IF part.kind = "file" THEN [part EXCEPT !.kind = "image"] ELSE part
Fitting(t, m) == IF t.dialect = "Codex" THEN [m EXCEPT !.content = EachOf(Paged, @)] ELSE m

\* What there is to a part of it.
Piece(t, y, kinds) ==
  IF t.dialect = "Codex" THEN Marked(Paged(y), IF kinds = Media THEN {"image"} ELSE kinds)
  ELSE Marked(Laden(t, y), kinds)
ByPart(t, c, kinds) == [i \in 1 .. Len(c) |-> Piece(t, c[i], kinds)]
Given(t, m, kinds) == Sounded(t, Fitting(t, m), kinds)
Pictured(t, kinds) == t.dialect = "Codex" /\ kinds = Media
Plain(c) == \A i \in 1 .. Len(c) : c[i].kind # "file"

\* RasterizeRequest, on the parts of a content: documents become images.
LEMMA PagedFacts ==
  ASSUME NEW c, Speech(c)
  PROVE  /\ Speech(EachOf(Paged, c)) /\ Plain(EachOf(Paged, c))
         /\ Len(EachOf(Paged, c)) = Len(c)
         /\ \A i \in 1 .. Len(c) : EachOf(Paged, c)[i] = Paged(c[i])
         /\ Plain(c) => EachOf(Paged, c) = c
<1> DEFINE d == EachOf(Paged, c)
<1>1. IsSeq(c) /\ Len(c) \in Nat /\ DOMAIN c = 1 .. Len(c)
  BY SeqFacts DEF Speech
<1>2. d = [i \in 1 .. Len(c) |-> Paged(c[i])]
  BY <1>1 DEF EachOf
<1>3. \A i \in 1 .. Len(c) : d[i] = Paged(c[i])
  BY <1>2
<1>4. d = [i \in 1 .. Len(c) |-> d[i]]
  BY <1>2
<1> HIDE DEF d
<1>5. IsSeq(d) /\ Len(d) = Len(c)
  BY <1>1, <1>4, FamilySeq
<1>6. ASSUME NEW i \in 1 .. Len(c)
      PROVE  IsItem(d[i]) /\ d[i].kind \in {"text"} \cup Media /\ d[i].kind # "file"
  <2> DEFINE x == c[i]
             y == [x EXCEPT !.kind = "image"]
  <2>1. IsItem(x) /\ x.kind \in {"text"} \cup Media
    BY DEF Speech
  <2>2. d[i] = IF x.kind = "file" THEN y ELSE x
    BY <1>3 DEF Paged
  <2> HIDE DEF x
  <2>3. y = Made("image", x.data, x.name, x.id, x.remote, x.parts, x.of)
    BY <2>1, Changed
  <2> HIDE DEF y
  <2>4. IsItem(y) /\ y.kind = "image"
    BY <2>3, MadeFacts
  <2>5. QED
    BY <2>1, <2>2, <2>4 DEF Media
<1>7. ASSUME Plain(c)
      PROVE  d = c
  <2>1. \A i \in 1 .. Len(c) : d[i] = c[i]
    BY <1>3, <1>7 DEF Plain, Paged
  <2>2. QED
    BY <1>1, <1>5, <2>1, SameSeq
<1>8. QED
  BY <1>3, <1>5, <1>6, <1>7 DEF Speech, Plain, d

\* RasterizeRequest, on a message: it is rendered for Codex, the answer to a call
\* as it is.
LEMMA FittingFacts ==
  ASSUME NEW t, NEW m, IsMessage(m), m.role = "tool" => Plain(m.content)
  PROVE  LET f == Fitting(t, m)
         IN  /\ IsMessage(f) /\ f.role = m.role /\ f.calls = m.calls /\ f.result = m.result
             /\ f.content = IF t.dialect = "Codex" THEN EachOf(Paged, m.content) ELSE m.content
             /\ t.dialect = "Codex" => Plain(f.content)
             /\ m.role = "tool" => f = m
<1> DEFINE c == m.content
           d == EachOf(Paged, c)
           f == [m EXCEPT !.content = d]
<1>1. Speech(c) /\ Doings(m.calls)
        /\ m = [role |-> m.role, content |-> c, calls |-> m.calls, result |-> m.result]
  BY DEF IsMessage
<1>2. Speech(d) /\ Plain(d) /\ (Plain(c) => d = c)
  BY <1>1, PagedFacts
<1>3. t.dialect = "Codex" => Fitting(t, m) = f
  BY DEF Fitting
<1>4. t.dialect # "Codex" => Fitting(t, m) = m
  BY DEF Fitting
<1> HIDE DEF d, c
<1>5. f = [role |-> m.role, content |-> d, calls |-> m.calls, result |-> m.result]
  BY <1>1
<1> HIDE DEF f
<1>6. f.role = m.role /\ f.content = d /\ f.calls = m.calls /\ f.result = m.result
  BY <1>5
<1>7. IsMessage(f)
  <2>1. f = [role |-> f.role, content |-> f.content, calls |-> f.calls, result |-> f.result]
    BY <1>5, <1>6
  <2>2. QED
    BY <1>1, <1>2, <1>6, <2>1 DEF IsMessage
<1>8. m.role = "tool" => f = m
  BY <1>1, <1>2, <1>5 DEF c
<1>9. QED
  BY <1>2, <1>3, <1>4, <1>6, <1>7, <1>8 DEF c, d

\* What a content says, piece by piece.
LEMMA PiecesSay ==
  ASSUME NEW t, NEW m, IsMessage(m), m.role = "tool" => Plain(m.content), NEW kinds \in SUBSET Sorts
  PROVE  /\ Lists(ByPart(t, m.content, kinds)) /\ Len(ByPart(t, m.content, kinds)) = Len(m.content)
         /\ Marks(Borne(t, Fitting(t, m).content), IF Pictured(t, kinds) THEN {"image"} ELSE kinds)
              = FlattenSeq(ByPart(t, m.content, kinds))
<1> DEFINE c == m.content
           f == Borne(t, Fitting(t, m).content)
           more == IF Pictured(t, kinds) THEN {"image"} ELSE kinds
           tt == ByPart(t, c, kinds)
<1>1. Speech(c) /\ IsSeq(c) /\ Len(c) \in Nat
  BY SeqFacts DEF IsMessage, Speech
<1>2. f = IF t.dialect = "Codex" THEN EachOf(Paged, c) ELSE Borne(t, c)
  BY FittingFacts DEF Borne, Partial
<1>3. more \in SUBSET Sorts
  BY DEF Sorts, Media
<1>4. tt = [i \in 1 .. Len(c) |-> Piece(t, c[i], kinds)]
  BY DEF ByPart
<1> HIDE DEF f, tt, c
<1>5. IsSeq(f) /\ Len(f) = Len(c)
        /\ \A i \in 1 .. Len(c) : Marked(f[i], more) = Piece(t, c[i], kinds)
  <2>1. CASE t.dialect = "Codex"
    <3>1. Speech(f) /\ Len(f) = Len(c) /\ \A i \in 1 .. Len(c) : f[i] = Paged(c[i])
      BY <1>1, <1>2, <2>1, PagedFacts
    <3>2. \A i \in 1 .. Len(c) : Marked(f[i], more) = Piece(t, c[i], kinds)
      BY <2>1, <3>1 DEF Piece, Pictured
    <3>3. QED
      BY <3>1, <3>2 DEF Speech
  <2>2. CASE t.dialect # "Codex"
    <3>1. IsSeq(f) /\ Len(f) = Len(c) /\ \A i \in 1 .. Len(c) : f[i] = Laden(t, c[i])
      BY <1>1, <1>2, <2>2, InlineEach DEF Borne, Laden
    <3>2. QED
      BY <2>2, <3>1 DEF Piece, Pictured
  <2>3. QED
    BY <2>1, <2>2
<1> HIDE DEF more
<1>6. Marks(f, more) = FlattenSeq(Marking(f, more)) /\ Lists(Marking(f, more))
        /\ Len(Marking(f, more)) = Len(f)
  BY <1>3, <1>5, MarkingFacts
<1>7. Marking(f, more) = tt
  BY <1>4, <1>5 DEF Marking
<1>8. QED
  BY <1>5, <1>6, <1>7 DEF c, f, more, tt

\* What of a message reaches a target, by its role.
LEMMA GivenFacts ==
  ASSUME NEW t, t.dialect \in Dialects, NEW m, IsMessage(m), m.role = "tool" => Plain(m.content),
         NEW kinds \in Quartet
  PROVE  LET shown == FlattenSeq(ByPart(t, m.content, kinds))
         IN  /\ IsSeq(Given(t, m, kinds)) /\ IsSeq(shown)
             /\ m.role \in System =>
                  Given(t, m, kinds) = IF Pictured(t, kinds) THEN shown ELSE << >>
             /\ m.role = "tool" =>
                  Given(t, m, kinds) = IF kinds = {"result"}
                                       THEN <<<<m.result.of, AsText(m.content)>>>>
                                       ELSE IF Pictured(t, kinds) THEN shown ELSE << >>
             /\ m.role \notin System \cup {"tool"} =>
                  Given(t, m, kinds) = Cat(shown, Marks(m.calls, kinds))
<1> DEFINE shown == FlattenSeq(ByPart(t, m.content, kinds))
           f == Fitting(t, m)
           e == Borne(t, f.content)
           x == <<m.result.of, AsText(m.content)>>
           spoken == Marks(m.calls, kinds)
<1>1. /\ kinds \in SUBSET Sorts
      /\ "result" \in kinds <=> kinds = {"result"}
      /\ "call" \in kinds <=> kinds = {"call"}
  BY QuartetFacts
<1>2. Media # {"result"} /\ Media # {"call"}
  <2>1. "image" \in Media
    BY DEF Media
  <2>2. QED
    BY <2>1
<1>3. /\ IsMessage(f) /\ f.role = m.role /\ f.calls = m.calls /\ f.result = m.result
      /\ m.role = "tool" => f = m
  BY FittingFacts
<1>4. IsSeq(shown) /\ Marks(e, IF Pictured(t, kinds) THEN {"image"} ELSE kinds) = shown
  <2>1. Lists(ByPart(t, m.content, kinds))
        /\ Marks(Borne(t, Fitting(t, m).content),
                 IF Pictured(t, kinds) THEN {"image"} ELSE kinds)
             = FlattenSeq(ByPart(t, m.content, kinds))
    BY <1>1, PiecesSay
  <2>2. QED
    BY <2>1, FlattenedSeq
<1>5. Doings(m.calls) /\ IsSeq(spoken)
  <2>1. Doings(m.calls) /\ IsSeq(m.calls)
    BY DEF IsMessage, Doings
  <2>2. QED
    BY <1>1, <2>1, MarkingFacts
<1>6. IsSeq(<<x>>) /\ IsSeq(<< >>)
  BY Singleton, CatFacts
<1>14. t.dialect = "Codex" => e = f.content
  BY DEF Borne, Partial
<1>7. Given(t, m, kinds) = IF Pictured(t, kinds) THEN Marks(f.content, {"image"})
        ELSE Conveyed(f, e, kinds)
  BY <1>14 DEF Given, Sounded, CodexShown, Pictured
<1>8. Pictured(t, kinds) => kinds = Media /\ kinds # {"result"}
        /\ Marks(f.content, {"image"}) = shown
  BY <1>2, <1>4, <1>14 DEF Pictured
<1>9. ~Pictured(t, kinds) => Marks(e, kinds) = shown
  BY <1>4
<1> DEFINE rest == Marks(e, kinds)
<1>10. Conveyed(f, e, kinds) =
         CASE m.role \in System -> << >>
           [] m.role = "tool" -> IF "result" \in kinds THEN <<<<m.result.of, AsText(f.content)>>>>
                                 ELSE << >>
           [] OTHER -> Cat(rest, spoken)
  BY <1>3 DEF Conveyed
<1> HIDE DEF shown, f, e, x, spoken, rest
<1>11. CASE m.role \in System
  <2>1. m.role # "tool"
    BY <1>11 DEF System
  <2>2. Conveyed(f, e, kinds) = << >>
    BY <1>10, <1>11, <2>1
  <2>3. Given(t, m, kinds) = IF Pictured(t, kinds) THEN shown ELSE << >>
    BY <1>7, <1>8, <2>2
  <2>4. QED
    BY <1>4, <1>6, <1>11, <2>1, <2>3 DEF shown
<1>12. CASE m.role = "tool"
  <2>1. m.role \notin System
    BY <1>12 DEF System
  <2>2. Conveyed(f, e, kinds) = IF kinds = {"result"} THEN <<x>> ELSE << >>
    BY <1>1, <1>3, <1>10, <1>12, <2>1 DEF x
  <2>3. Given(t, m, kinds) = IF kinds = {"result"} THEN <<x>>
                             ELSE IF Pictured(t, kinds) THEN shown ELSE << >>
    BY <1>7, <1>8, <2>2
  <2>4. QED
    BY <1>4, <1>6, <1>12, <2>1, <2>3 DEF shown, x
<1>13. CASE m.role \notin System \cup {"tool"}
  <2>1. Conveyed(f, e, kinds) = Cat(rest, spoken)
    BY <1>10, <1>13
  <2>2. Pictured(t, kinds) => spoken = << >>
    BY <1>1, <1>2, <1>5, <1>8, DoingsSay DEF spoken
  <2>3. Cat(shown, << >>) = shown
    BY <1>4, CatFacts
  <2>4. Given(t, m, kinds) = Cat(shown, spoken)
    BY <1>7, <1>8, <1>9, <2>1, <2>2, <2>3 DEF rest
  <2>5. IsSeq(Cat(shown, spoken))
    BY <1>4, <1>5, CatFacts
  <2>6. QED
    BY <1>4, <1>13, <2>4, <2>5 DEF shown, spoken
<1>15. QED
  BY <1>11, <1>12, <1>13

\* An item as the surface of its client reads it.
Reads(x, y) ==
  /\ IsItem(y) /\ y.name = x.name /\ y.of = x.of /\ y.parts = x.parts /\ y.remote = x.remote
  /\ y.data = IF ask.client = "Responses" /\ x.kind = "file" /\ x.remote THEN None ELSE x.data
  /\ y.kind = IF ask.client = "Gemini" /\ x.kind \in Media
               THEN IF x.remote THEN None ELSE "image" ELSE x.kind
Passes(y) == y.kind # None /\ ~(ask.client = "Responses" /\ y.kind = "audio")

FineItem(x) ==
  /\ IsItem(x) /\ x.kind \in Sorts
  /\ x.kind = "result" =>
       /\ Speech(x.parts)
       /\ \A i \in 1 .. Len(x.parts) :
            x.parts[i].kind = "text" \/ (x.parts[i].kind = "image" /\ ask.client = "Anthropic")
Heard(x, kinds) == Marks(Reach(x), kinds)

\* The mark of an image, an audio or a document.
LEMMA MediaMarks ==
  ASSUME NEW z, z.kind \in Media, NEW kinds \in Quartet
  PROVE  /\ Marked(z, kinds) = IF kinds = Media /\ z.data # None THEN <<<<z.kind, z.data>>>> ELSE << >>
         /\ Marked(z, {"image"}) =
              IF z.kind = "image" /\ z.data # None THEN <<<<z.kind, z.data>>>> ELSE << >>
<1>1. z.kind \in kinds <=> kinds = Media
  BY QuartetFacts
<1>2. Mark(z) = IF z.data = None THEN << >> ELSE <<<<z.kind, z.data>>>>
  BY DEF Mark, Media
<1>3. QED
  BY <1>1, <1>2 DEF Marked

\* What is due of a medium is what its part in the request gives the target.
LEMMA MediaReach ==
  ASSUME Target.dialect \in Dialects, NEW x, IsItem(x), x.kind \in Media, NEW kinds \in Quartet,
         NEW y, Reads(x, y)
  PROVE  /\ IsSeq(Reach(x))
         /\ Heard(x, kinds) = IF Passes(y) THEN Piece(Target, y, kinds) ELSE << >>
         /\ kinds # Media => Heard(x, kinds) = << >>
<1> DEFINE form == Form(x)
           z == [x EXCEPT !.kind = form]
           page == [y EXCEPT !.kind = "image"]
           full == Laden(Target, y)
           data == x.data
           codex == Target.dialect = "Codex"
           partial == Target.dialect \in Partial
           google == ask.client = "Gemini"
           responses == ask.client = "Responses"
           apart == x.remote
           lost == Lost(x)
<1>0. kinds \in SUBSET Sorts /\ {"image"} \in SUBSET Sorts
  BY QuartetFacts DEF Sorts, Media
<1>1. x.kind \in {"image", "audio", "file"}
  BY DEF Media
<1>2. /\ y.kind = (IF google THEN IF apart THEN None ELSE "image" ELSE x.kind) /\ IsItem(y)
      /\ y.data = (IF responses /\ x.kind = "file" /\ apart THEN None ELSE data)
      /\ y.remote = x.remote
  BY DEF Reads
<1>3. form = IF google \/ (codex /\ x.kind = "file") THEN "image" ELSE x.kind
  BY DEF Form
<1>4. /\ Reach(x) = (IF lost THEN << >> ELSE <<z>>)
      /\ lost <=> \/ form = "audio" /\ (codex \/ responses)
                  \/ apart /\ (google \/ (x.kind = "file" /\ (responses \/ partial)))
  <2>1. Reach(x) = (IF lost THEN << >> ELSE <<z>>)
    BY <1>1 DEF Reach, Media
  <2>2. lost <=> \/ form = "audio" /\ (codex \/ responses)
                 \/ apart /\ (google \/ (x.kind = "file" /\ (responses \/ partial)))
    BY DEF Lost, Unread, Partial
  <2>3. QED
    BY <2>1, <2>2
<1>5. /\ Passes(y) <=> y.kind # None /\ ~(responses /\ y.kind = "audio")
      /\ ~(google /\ responses) /\ ~(codex /\ partial)
  BY DEF Passes, Partial
<1>6. Paged(y) = IF y.kind = "file" THEN page ELSE y
  BY DEF Paged
<1> HIDE DEF form, lost
<1>7. z = Made(form, data, x.name, x.id, x.remote, x.parts, x.of)
  BY Changed
<1>8. page = Made("image", y.data, y.name, y.id, y.remote, y.parts, y.of)
  BY <1>2, Changed
<1>9. Piece(Target, y, kinds) =
        IF codex THEN Marked(Paged(y), IF kinds = Media THEN {"image"} ELSE kinds)
        ELSE Marked(full, kinds)
  BY DEF Piece
<1>20. full.kind = y.kind /\ full.data = IF partial /\ y.kind = "file" /\ apart THEN None ELSE y.data
  BY <1>2, InlineFacts DEF Laden
<1> HIDE DEF z, page, data, full, codex, partial, google, responses, apart
<1>10. z.kind = form /\ z.data = data /\ page.kind = "image" /\ page.data = y.data
  BY <1>7, <1>8, MadeFacts
<1>11. form \in Media /\ (y.kind # None => y.kind \in Media) /\ None \notin Media
  BY <1>1, <1>2, <1>3 DEF Media, None
<1>12. "image" \in Media
  BY DEF Media
<1>13. /\ Marked(z, kinds) = IF kinds = Media /\ data # None THEN <<<<form, data>>>> ELSE << >>
       /\ y.kind \in Media =>
            /\ Marked(full, kinds) =
                 IF kinds = Media /\ full.data # None THEN <<<<y.kind, full.data>>>> ELSE << >>
            /\ Marked(y, kinds) =
                 IF kinds = Media /\ y.data # None THEN <<<<y.kind, y.data>>>> ELSE << >>
            /\ Marked(y, {"image"}) =
                 IF y.kind = "image" /\ y.data # None THEN <<<<y.kind, y.data>>>> ELSE << >>
       /\ Marked(page, kinds) = IF kinds = Media /\ y.data # None THEN <<<<"image", y.data>>>> ELSE << >>
       /\ Marked(page, {"image"}) = IF y.data # None THEN <<<<"image", y.data>>>> ELSE << >>
  BY <1>10, <1>11, <1>12, <1>20, MediaMarks
<1>14. Marks(<<z>>, kinds) = Marked(z, kinds) /\ Marks(<< >>, kinds) = << >>
  BY <1>0, MarksJoined
<1>15. IsSeq(<<z>>) /\ IsSeq(<< >>)
  BY Singleton, CatFacts
<1>16. Heard(x, kinds) = IF lost THEN << >> ELSE Marked(z, kinds)
  BY <1>4, <1>14 DEF Heard
<1>21. IsSeq(Reach(x))
  BY <1>4, <1>15
<1>17. CASE kinds # Media
  <2>1. Heard(x, kinds) = << >>
    BY <1>13, <1>16, <1>17
  <2>2. Passes(y) => Piece(Target, y, kinds) = << >>
    BY <1>5, <1>6, <1>9, <1>11, <1>13, <1>17
  <2>3. QED
    BY <1>21, <2>1, <2>2
<1>18. CASE kinds = Media /\ ~Passes(y)
  <2>1. lost
    BY <1>1, <1>2, <1>3, <1>4, <1>5, <1>11, <1>18 DEF Media, None
  <2>2. QED
    BY <1>16, <1>18, <1>21, <2>1
<1>19. CASE kinds = Media /\ Passes(y) /\ ~codex
  <2>1. form = y.kind /\ y.kind \in Media
    BY <1>2, <1>3, <1>5, <1>11, <1>19
  <2>2. CASE lost
    <3>1. full.data = None
      BY <1>2, <1>4, <1>5, <1>19, <1>20, <2>1, <2>2
    <3>2. QED
      BY <1>9, <1>13, <1>16, <1>19, <1>21, <2>1, <2>2, <3>1
  <2>3. CASE ~lost
    <3>1. full.data = data
      BY <1>2, <1>4, <1>5, <1>19, <1>20, <2>1, <2>3
    <3>2. QED
      BY <1>9, <1>13, <1>16, <1>19, <1>21, <2>1, <2>3, <3>1
  <2>4. QED
    BY <2>2, <2>3
<1>22. CASE kinds = Media /\ Passes(y) /\ codex
  <2>0. y.kind \in Media
    BY <1>5, <1>11, <1>22
  <2>3. lost => form = "audio" \/ (y.kind = "file" /\ y.data = None)
    BY <1>2, <1>4, <1>5, <1>22
  <2>4. ~lost => form # "audio" /\ y.data = data
    BY <1>2, <1>4, <1>5, <1>22
  <2>1. CASE y.kind = "file"
    <3>1. form = "image"
      BY <1>2, <1>3, <1>22, <2>1
    <3>2. Piece(Target, y, kinds) = IF y.data # None THEN <<<<"image", y.data>>>> ELSE << >>
      BY <1>6, <1>9, <1>13, <1>22, <2>1
    <3>3. QED
      BY <1>13, <1>16, <1>21, <1>22, <2>3, <2>4, <3>1, <3>2
  <2>2. CASE y.kind # "file"
    <3>1. form = y.kind
      BY <1>1, <1>2, <1>3, <1>5, <1>22, <2>2
    <3>2. Piece(Target, y, kinds) =
            IF y.kind = "image" /\ y.data # None THEN <<<<y.kind, y.data>>>> ELSE << >>
      BY <1>6, <1>9, <1>13, <1>22, <2>0, <2>2
    <3>3. y.kind = "image" \/ y.kind = "audio"
      BY <2>0, <2>2 DEF Media
    <3>4. QED
      BY <1>13, <1>16, <1>21, <1>22, <2>2, <2>3, <2>4, <3>1, <3>2, <3>3
  <2>5. QED
    BY <2>1, <2>2
<1>23. QED
  BY <1>17, <1>18, <1>19, <1>22

\* What is due of an item, by its kind.
LEMMA ReachFacts ==
  ASSUME Target.dialect \in Dialects, NEW x, FineItem(x), NEW kinds \in Quartet
  PROVE  /\ IsSeq(Reach(x)) /\ IsSeq(Heard(x, kinds))
         /\ x.kind \in {"text", "call"} => Heard(x, kinds) = Marked(x, kinds)
         /\ x.kind = "result" =>
              Heard(x, kinds) = IF kinds = {"result"} THEN <<<<x.of, AsText(x.parts)>>>>
                                ELSE IF Pictured(Target, kinds) THEN Marks(x.parts, {"image"})
                                ELSE << >>
         /\ x.kind \in {"text"} \cup Media =>
              \A y : Reads(x, y) =>
                Heard(x, kinds) = IF Passes(y) THEN Piece(Target, y, kinds) ELSE << >>
         /\ x.kind \in Media /\ kinds # Media => Heard(x, kinds) = << >>
<1>0. kinds \in SUBSET Sorts /\ (kinds = Media => kinds \cap {"image"} = {"image"})
      /\ \A k \in {"text", "call", "result"} : k \in kinds <=> kinds = {k}
  BY QuartetFacts DEF Media
<1>1. IsItem(x) /\ x.kind \in {"text", "call", "result"} \cup Media
  BY DEF FineItem, Sorts
<1>2. \A z : IsSeq(<<z>>) /\ Marks(<<z>>, kinds) = Marked(z, kinds)
  BY <1>0, Singleton, MarksJoined
<1>3. CASE x.kind = "text" \/ x.kind = "call"
  <2>1. Reach(x) = <<x>>
    BY <1>3 DEF Reach, Media
  <2>2. IsSeq(Reach(x)) /\ Heard(x, kinds) = Marked(x, kinds)
    BY <1>2, <2>1 DEF Heard
  <2>3. ASSUME x.kind = "text", NEW y, Reads(x, y)
        PROVE  Passes(y) /\ Piece(Target, y, kinds) = Marked(x, kinds)
    <3>1. y.kind = "text" /\ y.data = x.data /\ IsItem(y)
      BY <2>3 DEF Reads, Media
    <3>2. Mark(x) = Mark(y)
      BY <2>3, <3>1 DEF Mark, Media
    <3>3. Paged(y) = y /\ Laden(Target, y) = y
      BY <3>1 DEF Paged, Laden, Inline
    <3>4. "text" \notin {"image"} /\ (kinds = Media => "text" \notin kinds)
      BY DEF Media
    <3>5. Marked(y, IF kinds = Media THEN {"image"} ELSE kinds) = Marked(x, kinds)
      BY <2>3, <3>1, <3>2, <3>4 DEF Marked
    <3>6. Marked(y, kinds) = Marked(x, kinds)
      BY <2>3, <3>1, <3>2 DEF Marked
    <3>7. QED
      BY <3>1, <3>3, <3>5, <3>6 DEF Piece, Passes, None
  <2>4. x.kind # "result" /\ x.kind \notin Media
    BY <1>3 DEF Media
  <2>5. IsSeq(Marked(x, kinds))
    BY <1>0, MarkedFacts
  <2>6. QED
    BY <1>3, <2>2, <2>3, <2>4, <2>5
<1>4. CASE x.kind = "result"
  <2> DEFINE p == x.parts
             pics == OfKind(p, {"image"})
             w == <<x.of, AsText(p)>>
  <2>1. IsSeq(p) /\ IsSeq(pics) /\ IsSeq(<<x>>)
    BY <1>2, <1>4, KindedFacts DEF FineItem, Speech
  <2>2. Reach(x) = IF Target.dialect = "Codex" THEN Cat(<<x>>, pics) ELSE <<x>>
    BY <1>4 DEF Reach, Media, Cat
  <2>3. Mark(x) = <<w>>
    BY <1>4 DEF Mark, Media
  <2>4. Marked(x, kinds) = IF kinds = {"result"} THEN <<w>> ELSE << >>
    BY <1>0, <1>4, <2>3 DEF Marked
  <2>5. Marks(pics, kinds) = IF kinds = Media THEN Marks(p, {"image"}) ELSE << >>
    <3>1. Marks(pics, kinds) = Marks(p, kinds \cap {"image"})
      BY <1>0, <2>1, MarksOfKind
    <3>2. CASE kinds = Media
      BY <1>0, <3>1, <3>2
    <3>3. CASE kinds # Media
      <4>1. kinds \cap {"image"} = {}
        BY <3>3, QuartetFacts
      <4>2. {} \in SUBSET Sorts /\ \A i \in 1 .. Len(p) : p[i].kind \notin {}
        OBVIOUS
      <4>3. Marks(p, {}) = << >>
        BY <2>1, <4>2, MarksOther
      <4>4. QED
        BY <3>1, <3>3, <4>1, <4>3
    <3>4. QED
      BY <3>2, <3>3
  <2>6. Media # {"result"}
    <3>1. "image" \in Media
      BY DEF Media
    <3>2. QED
      BY <3>1
  <2>7. x.kind \notin {"text"} \cup Media /\ x.kind # "call"
    BY <1>4 DEF Media
  <2>8. IsSeq(Marks(p, {"image"}))
    <3>1. {"image"} \in SUBSET Sorts
      BY DEF Sorts, Media
    <3>2. QED
      BY <2>1, <3>1, MarkingFacts
  <2> DEFINE q == Marks(p, {"image"})
  <2>9. Marks(Cat(<<x>>, pics), kinds) = Cat(Marks(<<x>>, kinds), Marks(pics, kinds))
    <3> DEFINE s == <<x>>
    <3> HIDE DEF s, pics
    <3>1. IsSeq(s)
      BY <2>1 DEF s
    <3>2. Marks(Cat(s, pics), kinds) = Cat(Marks(s, kinds), Marks(pics, kinds))
      BY <1>0, <2>1, <3>1, MarksJoined
    <3>3. QED
      BY <3>2 DEF s
  <2>10. Marks(<<x>>, kinds) = IF kinds = {"result"} THEN <<w>> ELSE << >>
    BY <1>2, <2>4
  <2>11. IsSeq(<<w>>) /\ IsSeq(<< >>) /\ Cat(<< >>, q) = q /\ Cat(<<w>>, << >>) = <<w>>
           /\ Cat(<< >>, << >>) = << >>
    <3> HIDE DEF q
    <3>1. IsSeq(<<w>>) /\ IsSeq(<< >>)
      BY Singleton, CatFacts
    <3> DEFINE v == <<w>>
    <3> HIDE DEF v
    <3>2. IsSeq(v)
      BY <3>1 DEF v
    <3>3. Cat(<< >>, q) = q /\ Cat(v, << >>) = v /\ Cat(<< >>, << >>) = << >>
      BY <2>8, <3>1, <3>2, CatFacts DEF q
    <3>4. QED
      BY <3>1, <3>3 DEF v
  <2> HIDE DEF q, w, pics, p
  <2>12. Heard(x, kinds) = IF kinds = {"result"} THEN <<w>>
           ELSE IF Pictured(Target, kinds) THEN q ELSE << >>
    <3>1. CASE Target.dialect = "Codex"
      <4>1. Heard(x, kinds) = Cat(Marks(<<x>>, kinds), Marks(pics, kinds))
        BY <2>2, <2>9, <3>1 DEF Heard
      <4>2. CASE kinds = {"result"}
        BY <2>5, <2>6, <2>10, <2>11, <4>1, <4>2
      <4>3. CASE kinds = Media
        BY <2>5, <2>6, <2>10, <2>11, <3>1, <4>1, <4>3 DEF q, Pictured
      <4>4. CASE kinds # Media /\ kinds # {"result"}
        BY <2>5, <2>10, <2>11, <4>1, <4>4 DEF Pictured
      <4>5. QED
        BY <4>2, <4>3, <4>4
    <3>2. CASE Target.dialect # "Codex"
      BY <2>2, <2>10, <3>2 DEF Heard, Pictured
    <3>3. QED
      BY <3>1, <3>2
  <2>13. IsSeq(Reach(x)) /\ IsSeq(Heard(x, kinds))
    <3>1. IsSeq(Cat(<<x>>, pics))
      BY <2>1, CatFacts
    <3>2. QED
      BY <2>1, <2>2, <2>8, <2>11, <2>12, <3>1 DEF q
  <2>14. QED
    BY <1>4, <2>7, <2>12, <2>13 DEF q, w, p, Media
<1>5. CASE x.kind \in Media
  <2>1. x.kind # "text" /\ x.kind # "call" /\ x.kind # "result"
    BY <1>5 DEF Media
  <2>2. \A y : Reads(x, y) =>
           /\ IsSeq(Reach(x))
           /\ Heard(x, kinds) = IF Passes(y) THEN Piece(Target, y, kinds) ELSE << >>
           /\ kinds # Media => Heard(x, kinds) = << >>
    BY <1>1, <1>5, MediaReach
  <2>3. \E y : Reads(x, y)
    <3> DEFINE kind == IF ask.client = "Gemini" /\ x.kind \in Media
                       THEN IF x.remote THEN None ELSE "image" ELSE x.kind
               data == IF ask.client = "Responses" /\ x.kind = "file" /\ x.remote
                       THEN None ELSE x.data
               z == Made(kind, data, x.name, x.id, x.remote, x.parts, x.of)
    <3> HIDE DEF kind, data
    <3>1. /\ IsItem(z) /\ z.kind = kind /\ z.data = data /\ z.name = x.name /\ z.of = x.of
          /\ z.parts = x.parts /\ z.remote = x.remote
      BY MadeFacts
    <3>2. Reads(x, z)
      BY <3>1 DEF Reads, kind, data
    <3>3. QED
      BY <3>2
  <2>4. IsSeq(Heard(x, kinds))
    <3>1. IsSeq(Reach(x))
      BY <2>2, <2>3
    <3>2. QED
      BY <1>0, <3>1, MarkingFacts DEF Heard
  <2>5. QED
    BY <2>1, <2>2, <2>3, <2>4
<1>6. QED
  BY <1>1, <1>3, <1>4, <1>5

\* Messages, and what the target is given of them.
Worded(ms) ==
  /\ IsSeq(ms)
  /\ \A j \in 1 .. Len(ms) : IsMessage(ms[j]) /\ (ms[j].role = "tool" => Plain(ms[j].content))
Telltale(ms, kinds) == [j \in 1 .. Len(ms) |-> Given(Target, ms[j], kinds)]
GivenAll(ms, kinds) == FlattenSeq(Telltale(ms, kinds))

\* What messages give a target, list by list.
LEMMA GivenFlat ==
  ASSUME Target.dialect \in Dialects, NEW kinds \in Quartet, NEW ss, IsSeq(ss),
         \A i \in 1 .. Len(ss) : Worded(ss[i])
  PROVE  /\ Lists(ss) /\ Worded(FlattenSeq(ss))
         /\ Lists([i \in 1 .. Len(ss) |-> GivenAll(ss[i], kinds)])
         /\ GivenAll(FlattenSeq(ss), kinds) =
              FlattenSeq([i \in 1 .. Len(ss) |-> GivenAll(ss[i], kinds)])
<1>1. Lists(ss)
  BY DEF Lists, Worded
<1>2. PICK U : \A i \in 1 .. Len(ss) : ss[i] \in Seq(U)
  BY <1>1, InOneSet
<1> DEFINE Fine(x) == IsMessage(x) /\ (x.role = "tool" => Plain(x.content))
           S == {x \in U : Fine(x)}
           h == [x \in S |-> Given(Target, x, kinds)]
<1>3. \A x \in S : h[x] = Given(Target, x, kinds) /\ Fine(x)
  OBVIOUS
<1>4. \A s \in Seq(S) : IsSeq(s) /\ Len(s) \in Nat /\ \A i \in 1 .. Len(s) : s[i] \in S
  BY DEF IsSeq
<1>5. ASSUME NEW i \in 1 .. Len(ss)
      PROVE  ss[i] \in Seq(S)
  <2> DEFINE s == ss[i]
  <2>1. s \in Seq(U) /\ Worded(s)
    BY <1>2
  <2> HIDE DEF s
  <2>2. Len(s) \in Nat /\ s = [j \in 1 .. Len(s) |-> s[j]] /\ \A j \in 1 .. Len(s) : s[j] \in U
    BY <2>1
  <2>3. \A j \in 1 .. Len(s) : s[j] \in S
    BY <2>1, <2>2 DEF Worded
  <2> HIDE DEF S
  <2>4. s \in Seq(S)
    BY <2>2, <2>3, SeqDef
  <2>5. QED
    BY <2>4 DEF s
<1> HIDE DEF S, h
<1>6. \A x \in S : IsSeq(h[x])
  <2> SUFFICES ASSUME NEW x \in S
               PROVE  IsSeq(h[x])
    OBVIOUS
  <2>1. IsSeq(Given(Target, x, kinds))
    BY <1>3, GivenFacts
  <2>2. QED
    BY <1>3, <2>1
<1>7. \A s \in Seq(S) : Worded(s) /\ Told(h, s) = GivenAll(s, kinds)
  <2> SUFFICES ASSUME NEW s \in Seq(S)
               PROVE  Worded(s) /\ Told(h, s) = GivenAll(s, kinds)
    OBVIOUS
  <2>1. Worded(s)
    BY <1>3, <1>4 DEF Worded
  <2>2. Telling(h, s) = Telltale(s, kinds)
    BY <1>3, <1>4 DEF Telling, Telltale
  <2>3. QED
    BY <2>1, <2>2 DEF Told, GivenAll
<1>14. IsSeq(ss)
  OBVIOUS
<1>8. FlattenSeq(ss) \in Seq(S) /\ Lists(ToldEach(h, ss))
        /\ Told(h, FlattenSeq(ss)) = FlattenSeq(ToldEach(h, ss))
  <2>1. \A i \in 1 .. Len(ss) : ss[i] \in Seq(S)
    BY <1>5
  <2>2. QED
    BY <1>6, <1>14, <2>1, ToldFlat
<1>9. ToldEach(h, ss) = [i \in 1 .. Len(ss) |-> GivenAll(ss[i], kinds)]
  BY <1>5, <1>7 DEF ToldEach
<1>10. QED
  BY <1>1, <1>7, <1>8, <1>9

\* What no message gives a target, one does, and messages after messages do.
LEMMA GivenJoined ==
  ASSUME Target.dialect \in Dialects, NEW kinds \in Quartet
  PROVE  /\ Worded(<< >>) /\ GivenAll(<< >>, kinds) = << >>
         /\ \A m : IsMessage(m) /\ (m.role = "tool" => Plain(m.content)) =>
              Worded(<<m>>) /\ GivenAll(<<m>>, kinds) = Given(Target, m, kinds)
         /\ \A s, t : Worded(s) /\ Worded(t) =>
              Worded(Cat(s, t)) /\ GivenAll(Cat(s, t), kinds) =
                Cat(GivenAll(s, kinds), GivenAll(t, kinds))
<1>1. Worded(<< >>) /\ GivenAll(<< >>, kinds) = << >>
  <2> DEFINE tt == Telltale(<< >>, kinds)
  <2>1. IsSeq(<< >>) /\ Len(<< >>) = 0
    BY CatFacts
  <2>2. Worded(<< >>)
    BY <2>1 DEF Worded
  <2>3. tt = [j \in 1 .. 0 |-> tt[j]]
    BY <2>1 DEF Telltale
  <2> HIDE DEF tt
  <2>4. IsSeq(tt) /\ Len(tt) = 0
    BY <2>3, FamilySeq
  <2>5. tt = << >>
    BY <2>4, SeqFacts
  <2>6. QED
    BY <2>2, <2>5, FlattenedEnds DEF GivenAll, tt
<1>2. ASSUME NEW m, IsMessage(m), m.role = "tool" => Plain(m.content)
      PROVE  Worded(<<m>>) /\ GivenAll(<<m>>, kinds) = Given(Target, m, kinds)
  <2> DEFINE s == <<m>>
             tt == Telltale(s, kinds)
             y == Given(Target, m, kinds)
  <2>1. IsSeq(s) /\ Len(s) = 1 /\ s[1] = m
    BY Singleton
  <2> HIDE DEF s
  <2>2. Worded(s)
    BY <1>2, <2>1 DEF Worded
  <2>3. tt = [j \in 1 .. 1 |-> tt[j]] /\ tt[1] = y
    BY <2>1 DEF Telltale
  <2>4. IsSeq(<<y>>) /\ Len(<<y>>) = 1 /\ <<y>>[1] = y
    BY Singleton
  <2>5. IsSeq(y)
    BY <1>2, GivenFacts
  <2> HIDE DEF tt, y
  <2>6. IsSeq(tt) /\ Len(tt) = 1
    BY <2>3, FamilySeq
  <2>7. \A i \in 1 .. Len(tt) : tt[i] = <<y>>[i]
    BY <2>3, <2>4, <2>6
  <2>8. tt = <<y>>
    BY <2>4, <2>6, <2>7, SameSeq
  <2>9. QED
    BY <2>2, <2>5, <2>8, FlattenedEnds DEF s, y, tt, GivenAll
<1>3. ASSUME NEW s, NEW t, Worded(s), Worded(t)
      PROVE  Worded(Cat(s, t)) /\ GivenAll(Cat(s, t), kinds) =
               Cat(GivenAll(s, kinds), GivenAll(t, kinds))
  <2> DEFINE a == <<s>>
             b == <<t>>
             ss == a \o b
  <2>0. IsSeq(s) /\ IsSeq(t)
    BY <1>3 DEF Worded
  <2>1. IsSeq(a) /\ Len(a) = 1 /\ a[1] = s /\ IsSeq(b) /\ Len(b) = 1 /\ b[1] = t
    BY Singleton
  <2>2. FlattenSeq(a) = s /\ FlattenSeq(b) = t
    BY <2>0, FlattenedEnds
  <2> HIDE DEF a, b
  <2>3. Lists(a) /\ Lists(b)
    BY <2>0, <2>1 DEF Lists
  <2>4. FlattenSeq(ss) = Cat(s, t)
    BY <2>2, <2>3, FlattenedJoin
  <2>5. IsSeq(ss) /\ Len(ss) = 2 /\ ss[1] = s /\ ss[2] = t
    <3>0. IsSeq(a) /\ IsSeq(b)
      BY <2>1
    <3>1. /\ IsSeq(ss) /\ Len(ss) = Len(a) + Len(b)
          /\ \A i \in 1 .. Len(a) : ss[i] = a[i]
          /\ \A i \in 1 .. Len(b) : ss[Len(a) + i] = b[i]
      BY <3>0, Joined
    <3>2. 1 \in 1 .. 1 /\ 1 + 1 = 2
      OBVIOUS
    <3> HIDE DEF ss
    <3>3. ss[1 + 1] = t
      BY <2>1, <3>1, <3>2
    <3>4. QED
      BY <2>1, <3>1, <3>2, <3>3
  <2> DEFINE p == GivenAll(s, kinds)
             q == GivenAll(t, kinds)
             vv == [i \in 1 .. Len(ss) |-> GivenAll(ss[i], kinds)]
             c == <<p>>
             d == <<q>>
             ww == c \o d
  <2> HIDE DEF ss
  <2>6. \A i \in 1 .. Len(ss) : Worded(ss[i])
    BY <1>3, <2>5
  <2>7. /\ Worded(FlattenSeq(ss)) /\ Lists(vv)
        /\ GivenAll(FlattenSeq(ss), kinds) = FlattenSeq(vv)
    BY <2>5, <2>6, GivenFlat
  <2>8. Len(vv) = 2 /\ vv[1] = p /\ vv[2] = q
    <3>1. vv = [i \in 1 .. 2 |-> vv[i]] /\ vv[1] = p /\ vv[2] = q
      BY <2>5
    <3> HIDE DEF vv
    <3>2. QED
      BY <3>1, FamilySeq
  <2> HIDE DEF p, q, vv
  <2>9. IsSeq(c) /\ Len(c) = 1 /\ c[1] = p /\ IsSeq(d) /\ Len(d) = 1 /\ d[1] = q
    BY Singleton
  <2>10. IsSeq(p) /\ IsSeq(q)
    BY <2>7, <2>8 DEF Lists
  <2>11. FlattenSeq(c) = p /\ FlattenSeq(d) = q
    BY <2>10, FlattenedEnds
  <2> HIDE DEF c, d
  <2>12. Lists(c) /\ Lists(d)
    BY <2>9, <2>10 DEF Lists
  <2>13. FlattenSeq(ww) = Cat(p, q)
    BY <2>11, <2>12, FlattenedJoin
  <2>14. IsSeq(ww) /\ Len(ww) = 2 /\ ww[1] = p /\ ww[2] = q
    <3>0. IsSeq(c) /\ IsSeq(d)
      BY <2>9
    <3>1. /\ IsSeq(ww) /\ Len(ww) = Len(c) + Len(d)
          /\ \A i \in 1 .. Len(c) : ww[i] = c[i]
          /\ \A i \in 1 .. Len(d) : ww[Len(c) + i] = d[i]
      BY <3>0, Joined
    <3>2. 1 \in 1 .. 1 /\ 1 + 1 = 2
      OBVIOUS
    <3> HIDE DEF ww
    <3>3. ww[1 + 1] = q
      BY <2>9, <3>1, <3>2
    <3>4. QED
      BY <2>9, <3>1, <3>2, <3>3
  <2> HIDE DEF ww
  <2>15. ww = vv
    <3>1. \A i \in 1 .. 2 : ww[i] = vv[i]
      BY <2>8, <2>14
    <3>2. IsSeq(vv)
      BY <2>7 DEF Lists
    <3>3. QED
      BY <2>8, <2>14, <3>1, <3>2, SameSeq
  <2>16. QED
    BY <2>4, <2>7, <2>13, <2>15 DEF p, q
<1>4. QED
  BY <1>1, <1>2, <1>3

-----------------------------------------------------------------------------
(* The messages of what is said *)

SaidBy(role, content, calls, kinds) ==
  LET shown == FlattenSeq(ByPart(Target, content, kinds))
  IN  IF role \in System THEN IF Pictured(Target, kinds) THEN shown ELSE << >>
      ELSE Cat(shown, Marks(calls, kinds))
Sayable(role, content, calls) ==
  /\ Speech(content) /\ Doings(calls)
  /\ role \in {"user", "assistant"} \cup System
  /\ calls # << >> => role = "assistant"

\* A message of a role, a content and calls gives the content and the calls.
LEMMA SayableMessage ==
  ASSUME Target.dialect \in Dialects, NEW kinds \in Quartet, NEW role, NEW content, NEW calls,
         Sayable(role, content, calls)
  PROVE  /\ Worded(<<Message(role, content, calls)>>)
         /\ GivenAll(<<Message(role, content, calls)>>, kinds) = SaidBy(role, content, calls, kinds)
<1> DEFINE m == Message(role, content, calls)
<1>1. m = [role |-> role, content |-> content, calls |-> calls, result |-> Item]
  BY DEF Message
<1> HIDE DEF m
<1>2. m.role = role /\ m.content = content /\ m.calls = calls /\ m.result = Item
  BY <1>1
<1>3. role # "tool"
  BY DEF Sayable, System
<1>4. m = [role |-> m.role, content |-> m.content, calls |-> m.calls, result |-> m.result]
  BY <1>1, <1>2
<1>5. IsMessage(m)
  BY <1>2, <1>3, <1>4 DEF IsMessage, Sayable
<1>6. Given(Target, m, kinds) = SaidBy(role, content, calls, kinds)
  <2>1. CASE role \in System
    BY <1>2, <1>3, <1>5, <2>1, GivenFacts DEF SaidBy
  <2>2. CASE role \notin System
    BY <1>2, <1>3, <1>5, <2>2, GivenFacts DEF SaidBy
  <2>3. QED
    BY <2>1, <2>2
<1>7. QED
  BY <1>2, <1>3, <1>5, <1>6, GivenJoined DEF m

\* A message of nothing gives nothing.
LEMMA NothingSaid ==
  ASSUME NEW role, NEW kinds \in Quartet
  PROVE  SaidBy(role, << >>, << >>, kinds) = << >>
           /\ FlattenSeq(ByPart(Target, << >>, kinds)) = << >>
<1> DEFINE tt == ByPart(Target, << >>, kinds)
<1>1. IsSeq(<< >>) /\ Len(<< >>) = 0 /\ Cat(<< >>, << >>) = << >>
  BY CatFacts
<1>2. tt = [j \in 1 .. 0 |-> tt[j]]
  BY <1>1 DEF ByPart
<1> HIDE DEF tt
<1>3. IsSeq(tt) /\ Len(tt) = 0
  BY <1>2, FamilySeq
<1>4. tt = << >>
  BY <1>3, SeqFacts
<1>5. FlattenSeq(tt) = << >>
  BY <1>4, FlattenedEnds
<1>6. Marks(<< >>, kinds) = << >>
  BY QuartetFacts, MarksJoined
<1>7. QED
  BY <1>1, <1>5, <1>6 DEF SaidBy, tt

\* Each call in a message of its own.
LEMMA CalledSay ==
  ASSUME Target.dialect \in Dialects, NEW kinds \in Quartet, NEW calls, Doings(calls),
         NEW bb, IsSeq(bb), Len(bb) = Len(calls),
         \A k \in 1 .. Len(calls) : bb[k] = Message("assistant", << >>, <<calls[k]>>)
  PROVE  Worded(bb) /\ GivenAll(bb, kinds) = Marks(calls, kinds)
<1>0. kinds \in SUBSET Sorts
  BY QuartetFacts
<1>1. IsSeq(calls) /\ \A k \in 1 .. Len(calls) : IsItem(calls[k]) /\ calls[k].kind = "call"
  BY DEF Doings
<1>2. ASSUME NEW k \in 1 .. Len(calls)
      PROVE  /\ IsMessage(bb[k]) /\ bb[k].role = "assistant"
             /\ Given(Target, bb[k], kinds) = Marked(calls[k], kinds)
  <2> DEFINE c == calls[k]
             d == <<c>>
             m == bb[k]
  <2>1. m = [role |-> "assistant", content |-> << >>, calls |-> d, result |-> Item]
    BY DEF Message
  <2>2. IsSeq(d) /\ Len(d) = 1 /\ d[1] = c
    BY Singleton
  <2>3. Marks(d, kinds) = Marked(c, kinds) /\ IsSeq(Marked(c, kinds))
    BY <1>0, MarksJoined, MarkedFacts
  <2>4. IsItem(c) /\ c.kind = "call"
    BY <1>1
  <2> HIDE DEF c, d, m
  <2>5. Doings(d)
    BY <2>2, <2>4 DEF Doings
  <2>6. Speech(<< >>)
    <3>1. IsSeq(<< >>) /\ Len(<< >>) = 0
      BY CatFacts
    <3>2. QED
      BY <3>1 DEF Speech
  <2>7. m.role = "assistant" /\ m.content = << >> /\ m.calls = d /\ m.result = Item
    BY <2>1
  <2>8. IsMessage(m)
    <3>1. m = [role |-> m.role, content |-> m.content, calls |-> m.calls, result |-> m.result]
      BY <2>1, <2>7
    <3>2. QED
      BY <2>5, <2>6, <2>7, <3>1 DEF IsMessage
  <2>9. m.role \notin System \cup {"tool"} /\ m.role # "tool"
    BY <2>7 DEF System
  <2>10. Given(Target, m, kinds) = Cat(FlattenSeq(ByPart(Target, << >>, kinds)), Marks(d, kinds))
    <3>1. Given(Target, m, kinds) =
            Cat(FlattenSeq(ByPart(Target, m.content, kinds)), Marks(m.calls, kinds))
      BY <2>8, <2>9, GivenFacts
    <3>2. QED
      BY <2>7, <3>1
  <2>11. Given(Target, m, kinds) = Marked(c, kinds)
    BY <2>3, <2>10, NothingSaid, CatFacts
  <2>12. QED
    BY <2>7, <2>8, <2>11 DEF m, c
<1>3. Worded(bb)
  BY <1>2 DEF Worded
<1>4. Telltale(bb, kinds) = Marking(calls, kinds)
  BY <1>2 DEF Telltale, Marking
<1>5. QED
  BY <1>0, <1>1, <1>3, <1>4, MarkingFacts DEF GivenAll

\* A turn as clients say it: the results of the calls first, if there are any.
FineTurn(x) ==
  /\ x.role \in {"user", "assistant"} \cup System
  /\ IsSeq(x.items)
  /\ \A i \in 1 .. Len(x.items) :
       /\ FineItem(x.items[i])
       /\ x.items[i].kind = "call" => x.role = "assistant"
       /\ x.items[i].kind = "result" => x.role = "user"
  /\ \E n \in 0 .. Len(x.items) : \A i \in 1 .. Len(x.items) : x.items[i].kind = "result" <=> i <= n
Taken(x, parts) ==
  /\ IsSeq(parts) /\ Len(parts) = Len(x.items)
  /\ \A i \in 1 .. Len(parts) : Reads(x.items[i], parts[i])

\* What reaches the target of the items of some kinds.
Only(x, kinds, chosen) ==
  [i \in 1 .. Len(x.items) |->
     IF x.items[i].kind \in chosen THEN Heard(x.items[i], kinds) ELSE << >>]
Wordy == {"text"} \cup Media

\* What is due of some kinds of item of a turn, item by item.
LEMMA OnlyFacts ==
  ASSUME Target.dialect \in Dialects, NEW kinds \in Quartet, NEW x, FineTurn(x), NEW chosen
  PROVE  /\ Lists(Only(x, kinds, chosen)) /\ Len(Only(x, kinds, chosen)) = Len(x.items)
         /\ IsSeq(FlattenSeq(Only(x, kinds, chosen))) /\ Len(x.items) \in Nat
<1> DEFINE tt == Only(x, kinds, chosen)
           n == Len(x.items)
<1>1. n \in Nat
  BY SeqFacts DEF FineTurn
<1>2. tt = [i \in 1 .. n |-> tt[i]]
  BY DEF Only
<1>3. \A i \in 1 .. n : IsSeq(Heard(x.items[i], kinds))
  BY ReachFacts DEF FineTurn
<1>4. \A i \in 1 .. n : IsSeq(tt[i])
  BY <1>3, CatFacts DEF Only
<1> HIDE DEF tt, n
<1>5. Lists(tt) /\ Len(tt) = n
  BY <1>1, <1>2, <1>4, FamilyLists
<1>6. QED
  BY <1>1, <1>5, FlattenedSeq DEF tt, n

\* The kind an item is read as.
LEMMA KindRead ==
  ASSUME NEW x, NEW y, Reads(x, y)
  PROVE  /\ y.kind = "result" <=> x.kind = "result"
         /\ y.kind = "call" <=> x.kind = "call"
         /\ y.kind = "text" <=> x.kind = "text"
         /\ y.kind \in Media => x.kind \in Media
         /\ y.kind \in Wordy => x.kind \in Wordy
         /\ x.kind \in Wordy /\ y.kind \notin Wordy => ~Passes(y)
BY DEF Reads, Media, Wordy, Passes, None

\* The answers to calls give what is due of the results of a turn.
LEMMA ResultsSide ==
  ASSUME Target.dialect \in Dialects, NEW kinds \in Quartet, NEW x, FineTurn(x),
         NEW parts, Taken(x, parts),
         NEW aa, IsSeq(aa), Len(aa) = Len(Results(parts)),
         \A k \in 1 .. Len(aa) :
           /\ IsMessage(aa[k]) /\ aa[k].role = "tool"
           /\ aa[k].content = Results(parts)[k].parts /\ aa[k].result.of = Results(parts)[k].of
  PROVE  Worded(aa) /\ GivenAll(aa, kinds) = FlattenSeq(Only(x, kinds, {"result"}))
<1> DEFINE rr == Results(parts)
           tt == Only(x, kinds, {"result"})
           vv == Telltale(aa, kinds)
<1>1. rr = OfKind(parts, {"result"})
  BY DEF Results
<1>2. IsSeq(parts) /\ Len(parts) = Len(x.items)
        /\ \A i \in 1 .. Len(parts) : Reads(x.items[i], parts[i])
  BY DEF Taken
<1>3. Lists(tt) /\ Len(tt) = Len(parts)
  BY <1>2, OnlyFacts
<1>4. \A k \in 1 .. Len(rr) : rr[k].kind = "result" /\ \E i \in 1 .. Len(parts) : rr[k] = parts[i]
  BY <1>1, <1>2, KindedFacts
<1>5. \A k \in 1 .. Len(aa) : vv[k] = Given(Target, aa[k], kinds)
  BY DEF Telltale
<1>6. vv = [k \in 1 .. Len(aa) |-> vv[k]]
  BY DEF Telltale
<1>7. \A i \in 1 .. Len(parts) :
        tt[i] = IF x.items[i].kind = "result" THEN Heard(x.items[i], kinds) ELSE << >>
  BY <1>2 DEF Only
<1> HIDE DEF rr, tt, vv
<1>8. \A i \in 1 .. Len(parts) : FineItem(x.items[i])
  BY <1>2 DEF FineTurn
<1>9. ASSUME NEW i \in 1 .. Len(parts), NEW k \in 1 .. Len(aa), parts[i].kind = "result",
             rr[k] = parts[i]
      PROVE  Plain(aa[k].content) /\ vv[k] = tt[i]
  <2> DEFINE y == x.items[i]
             p == y.parts
             m == aa[k]
  <2>1. FineItem(y) /\ y.kind = "result" /\ Reads(y, parts[i])
    BY <1>2, <1>8, <1>9, KindRead
  <2>2. m.content = p /\ m.result.of = y.of /\ IsMessage(m) /\ m.role = "tool"
    BY <1>9, <2>1 DEF rr, Reads
  <2>3. tt[i] = Heard(y, kinds)
    BY <1>7, <2>1
  <2>4. vv[k] = Given(Target, m, kinds)
    BY <1>5
  <2> HIDE DEF y, m
  <2>5. Plain(p)
    BY <2>1 DEF FineItem, Plain, y
  <2> HIDE DEF p
  <2>6. Given(Target, m, kinds) = IF kinds = {"result"} THEN <<<<y.of, AsText(p)>>>>
                                  ELSE IF Pictured(Target, kinds)
                                  THEN FlattenSeq(ByPart(Target, p, kinds))
                                  ELSE << >>
    <3>1. Given(Target, m, kinds) = IF kinds = {"result"}
                                    THEN <<<<m.result.of, AsText(m.content)>>>>
                                    ELSE IF Pictured(Target, kinds)
                                    THEN FlattenSeq(ByPart(Target, m.content, kinds))
                                    ELSE << >>
      BY <2>2, <2>5, GivenFacts
    <3>2. QED
      BY <2>2, <3>1
  <2>7. Pictured(Target, kinds) => FlattenSeq(ByPart(Target, p, kinds)) = Marks(p, {"image"})
    <3>1. m.role = "tool" => Plain(m.content)
      BY <2>2, <2>5
    <3>2. kinds \in SUBSET Sorts
      BY QuartetFacts
    <3>3. Marks(Borne(Target, Fitting(Target, m).content),
                IF Pictured(Target, kinds) THEN {"image"} ELSE kinds)
            = FlattenSeq(ByPart(Target, m.content, kinds))
      BY <2>2, <3>1, <3>2, PiecesSay
    <3>4. Fitting(Target, m) = m
      BY <2>2, <3>1, FittingFacts
    <3>5. Pictured(Target, kinds) => Borne(Target, p) = p
      BY DEF Pictured, Borne, Partial
    <3>6. QED
      BY <2>2, <3>3, <3>4, <3>5
  <2>8. Heard(y, kinds) = IF kinds = {"result"} THEN <<<<y.of, AsText(p)>>>>
                          ELSE IF Pictured(Target, kinds) THEN Marks(p, {"image"}) ELSE << >>
    BY <2>1, ReachFacts DEF p
  <2>9. QED
    BY <2>2, <2>3, <2>4, <2>5, <2>6, <2>7, <2>8 DEF m
<1>10. \A k \in 1 .. Len(aa) : Plain(aa[k].content)
  <2> SUFFICES ASSUME NEW k \in 1 .. Len(aa)
               PROVE  Plain(aa[k].content)
    OBVIOUS
  <2>1. rr[k].kind = "result" /\ \E i \in 1 .. Len(parts) : rr[k] = parts[i]
    BY <1>4 DEF rr
  <2>2. PICK i \in 1 .. Len(parts) : rr[k] = parts[i]
    BY <2>1
  <2>3. QED
    BY <1>9, <2>1, <2>2
<1>11. Worded(aa)
  BY <1>10 DEF Worded
<1>12. Lists(vv) /\ Len(vv) = Len(aa)
  <2>1. \A k \in 1 .. Len(aa) : IsSeq(vv[k])
    <3> SUFFICES ASSUME NEW k \in 1 .. Len(aa)
                 PROVE  IsSeq(vv[k])
      OBVIOUS
    <3>1. IsSeq(Given(Target, aa[k], kinds))
      BY <1>10, GivenFacts
    <3>2. QED
      BY <1>5, <3>1
  <2>2. Len(aa) \in Nat
    BY SeqFacts
  <2>3. QED
    BY <1>6, <2>1, <2>2, FamilyLists
<1>13. FlattenSeq(vv) = FlattenSeq(tt)
  <2>1. \A i \in 1 .. Len(parts) : parts[i].kind \notin {"result"} => tt[i] = << >>
    <3> SUFFICES ASSUME NEW i \in 1 .. Len(parts), parts[i].kind # "result"
                 PROVE  tt[i] = << >>
      OBVIOUS
    <3>1. x.items[i].kind # "result"
      BY <1>2, KindRead
    <3>2. QED
      BY <1>7, <3>1
  <2>2. Len(vv) = Len(OfKind(parts, {"result"}))
    BY <1>1, <1>12 DEF rr
  <2>3. \A i \in 1 .. Len(parts) : \A k \in 1 .. Len(vv) :
          parts[i].kind \in {"result"} /\ OfKind(parts, {"result"})[k] = parts[i] => vv[k] = tt[i]
    BY <1>1, <1>9, <1>12
  <2> DEFINE only == {"result"}
  <2>4. \A i \in 1 .. Len(parts) : parts[i].kind \notin only => tt[i] = << >>
    BY <2>1
  <2>5. \A i \in 1 .. Len(parts) : \A k \in 1 .. Len(vv) :
          parts[i].kind \in only /\ OfKind(parts, only)[k] = parts[i] => vv[k] = tt[i]
    BY <2>3
  <2>6. Len(vv) = Len(OfKind(parts, only))
    BY <2>2
  <2> HIDE DEF only
  <2>7. QED
    BY <1>2, <1>3, <1>12, <2>4, <2>5, <2>6, PickedPieces
<1>14. QED
  BY <1>11, <1>13 DEF GivenAll, vv, tt

\* The calls of a message give what is due of the calls of a turn.
LEMMA CallsSide ==
  ASSUME Target.dialect \in Dialects, NEW kinds \in Quartet, NEW x, FineTurn(x),
         NEW parts, Taken(x, parts)
  PROVE  Doings(Calls(parts)) /\ Marks(Calls(parts), kinds) = FlattenSeq(Only(x, kinds, {"call"}))
         /\ (Calls(parts) # << >> => x.role = "assistant")
<1> DEFINE only == {"call"}
           cc == OfKind(parts, only)
           tt == Only(x, kinds, only)
           vv == Marking(cc, kinds)
<1>0. kinds \in SUBSET Sorts
  BY QuartetFacts
<1>1. cc = Calls(parts)
  BY DEF Calls
<1>2. IsSeq(parts) /\ Len(parts) = Len(x.items)
        /\ \A i \in 1 .. Len(parts) : Reads(x.items[i], parts[i])
  BY DEF Taken
<1>3. Lists(tt) /\ Len(tt) = Len(parts)
  BY <1>2, OnlyFacts
<1>4. /\ IsSeq(cc)
      /\ \A k \in 1 .. Len(cc) : cc[k].kind \in only /\ \E i \in 1 .. Len(parts) : cc[k] = parts[i]
  BY <1>2, KindedFacts
<1>5. \A k \in 1 .. Len(cc) : vv[k] = Marked(cc[k], kinds)
  BY DEF Marking
<1>6. \A i \in 1 .. Len(parts) :
        tt[i] = IF x.items[i].kind = "call" THEN Heard(x.items[i], kinds) ELSE << >>
  BY <1>2 DEF Only
<1>7. Marks(cc, kinds) = FlattenSeq(vv) /\ Lists(vv) /\ Len(vv) = Len(cc)
  BY <1>0, <1>4, MarkingFacts
<1> HIDE DEF tt, vv, cc
<1>8. \A i \in 1 .. Len(parts) : FineItem(x.items[i])
        /\ (x.items[i].kind = "call" => x.role = "assistant")
  BY <1>2 DEF FineTurn
<1>9. \A i \in 1 .. Len(parts) : parts[i].kind = "call" <=> x.items[i].kind = "call"
  BY <1>2, KindRead
<1>10. \A i \in 1 .. Len(parts) : IsItem(parts[i])
  BY <1>2 DEF Reads
<1>11. Doings(cc)
  BY <1>4, <1>10 DEF Doings
<1>12. cc # << >> => x.role = "assistant"
  <2>1. cc # << >> => 1 \in 1 .. Len(cc)
    BY <1>4, SeqFacts
  <2>2. QED
    BY <1>4, <1>8, <1>9, <2>1
<1>13. ASSUME NEW i \in 1 .. Len(parts), NEW k \in 1 .. Len(vv), parts[i].kind \in only,
              cc[k] = parts[i]
       PROVE  vv[k] = tt[i]
  <2> DEFINE y == x.items[i]
             z == parts[i]
  <2>1. y.kind = "call" /\ z.kind = "call" /\ FineItem(y) /\ Reads(y, z)
    BY <1>2, <1>8, <1>9, <1>13
  <2>2. vv[k] = Marked(z, kinds)
    BY <1>5, <1>7, <1>13
  <2>3. tt[i] = Heard(y, kinds)
    BY <1>6, <2>1
  <2> HIDE DEF y, z
  <2>4. Heard(y, kinds) = Marked(y, kinds)
    BY <2>1, ReachFacts
  <2>5. Mark(y) = Mark(z)
    BY <2>1 DEF Mark, Media, Reads
  <2>6. QED
    BY <2>1, <2>2, <2>3, <2>4, <2>5 DEF Marked
<1>14. FlattenSeq(vv) = FlattenSeq(tt)
  <2>1. \A i \in 1 .. Len(parts) : parts[i].kind \notin only => tt[i] = << >>
    BY <1>6, <1>9
  <2>2. \A i \in 1 .. Len(parts) : \A k \in 1 .. Len(vv) :
          parts[i].kind \in only /\ OfKind(parts, only)[k] = parts[i] => vv[k] = tt[i]
    BY <1>13 DEF cc
  <2>3. Len(vv) = Len(OfKind(parts, only))
    BY <1>7 DEF cc
  <2> HIDE DEF only
  <2>4. QED
    BY <1>2, <1>3, <1>7, <2>1, <2>2, <2>3, PickedPieces
<1>15. QED
  BY <1>1, <1>7, <1>11, <1>12, <1>14 DEF tt

\* What the surface of a client has a place for.
Placed == IF ask.client = "Responses" THEN {"text", "image", "file"} ELSE Wordy

\* The content of a message gives what is due of the words and media of a turn.
LEMMA WordsSide ==
  ASSUME Target.dialect \in Dialects, NEW kinds \in Quartet, NEW x, FineTurn(x),
         NEW parts, Taken(x, parts)
  PROVE  LET words == OfKind(Content(parts), Placed)
         IN  Speech(words) /\ FlattenSeq(ByPart(Target, words, kinds)) =
               FlattenSeq(Only(x, kinds, Wordy))
<1> DEFINE cc == Content(parts)
           ww == OfKind(cc, Placed)
           tt == Only(x, kinds, Wordy)
           vv == [k \in 1 .. Len(cc) |->
                    IF cc[k].kind \in Placed THEN Piece(Target, cc[k], kinds) ELSE << >>]
           uu == ByPart(Target, ww, kinds)
<1>0. kinds \in SUBSET Sorts /\ {"image"} \in SUBSET Sorts
  BY QuartetFacts DEF Sorts, Media
<1>1. cc = OfKind(parts, Wordy)
  BY DEF Content, Wordy
<1>2. IsSeq(parts) /\ Len(parts) = Len(x.items)
        /\ \A i \in 1 .. Len(parts) : Reads(x.items[i], parts[i])
  BY DEF Taken
<1>3. Lists(tt) /\ Len(tt) = Len(parts)
  BY <1>2, OnlyFacts
<1>4. /\ IsSeq(cc)
      /\ \A k \in 1 .. Len(cc) : cc[k].kind \in Wordy /\ \E i \in 1 .. Len(parts) : cc[k] = parts[i]
  BY <1>1, <1>2, KindedFacts
<1> HIDE DEF cc
<1>5. /\ IsSeq(ww)
      /\ \A k \in 1 .. Len(ww) : \E i \in 1 .. Len(cc) : ww[k] = cc[i]
  BY <1>4, KindedFacts
<1> HIDE DEF ww
<1>6. \A y : IsSeq(Piece(Target, y, kinds))
  BY <1>0, MarkedFacts DEF Piece
<1>7. /\ uu = [k \in 1 .. Len(ww) |-> uu[k]]
      /\ \A k \in 1 .. Len(ww) : uu[k] = Piece(Target, ww[k], kinds)
  BY DEF ByPart
<1>8. /\ vv = [k \in 1 .. Len(cc) |-> vv[k]]
      /\ \A k \in 1 .. Len(cc) : vv[k] =
           IF cc[k].kind \in Placed THEN Piece(Target, cc[k], kinds) ELSE << >>
  OBVIOUS
<1> HIDE DEF uu, vv
<1>9. Lists(uu) /\ Len(uu) = Len(ww) /\ Lists(vv) /\ Len(vv) = Len(cc)
  <2>1. Len(ww) \in Nat /\ Len(cc) \in Nat
    BY <1>4, <1>5, SeqFacts
  <2>2. \A k \in 1 .. Len(ww) : IsSeq(uu[k])
    BY <1>6, <1>7
  <2>3. \A k \in 1 .. Len(cc) : IsSeq(vv[k])
    BY <1>6, <1>8, CatFacts
  <2>4. Lists(uu) /\ Len(uu) = Len(ww)
    BY <1>7, <2>1, <2>2, FamilyLists
  <2>5. Lists(vv) /\ Len(vv) = Len(cc)
    BY <1>8, <2>1, <2>3, FamilyLists
  <2>6. QED
    BY <2>4, <2>5
<1>10. FlattenSeq(uu) = FlattenSeq(vv)
  <2>1. \A i \in 1 .. Len(cc) : cc[i].kind \notin Placed => vv[i] = << >>
    BY <1>8
  <2>2. \A i \in 1 .. Len(cc) : \A k \in 1 .. Len(uu) :
          cc[i].kind \in Placed /\ OfKind(cc, Placed)[k] = cc[i] => uu[k] = vv[i]
    BY <1>7, <1>8, <1>9 DEF ww
  <2>3. Len(uu) = Len(OfKind(cc, Placed))
    BY <1>9 DEF ww
  <2>4. QED
    BY <1>4, <1>9, <2>1, <2>2, <2>3, PickedPieces
<1>11. \A i \in 1 .. Len(parts) : tt[i] =
         IF x.items[i].kind \in Wordy THEN Heard(x.items[i], kinds) ELSE << >>
  BY <1>2 DEF Only
<1> HIDE DEF tt
<1>12. \A i \in 1 .. Len(parts) : FineItem(x.items[i])
  BY <1>2 DEF FineTurn
<1>13. \A i \in 1 .. Len(parts) :
         /\ parts[i].kind \in Wordy => x.items[i].kind \in Wordy
         /\ x.items[i].kind \in Wordy /\ parts[i].kind \notin Wordy => ~Passes(parts[i])
  BY <1>2, KindRead
<1>14. ASSUME NEW i \in 1 .. Len(parts), NEW k \in 1 .. Len(vv), parts[i].kind \in Wordy,
              cc[k] = parts[i]
       PROVE  vv[k] = tt[i]
  <2> DEFINE y == x.items[i]
             z == parts[i]
  <2>1. y.kind \in Wordy /\ z.kind \in Wordy /\ FineItem(y) /\ Reads(y, z)
    BY <1>2, <1>12, <1>13, <1>14
  <2>2. vv[k] = IF z.kind \in Placed THEN Piece(Target, z, kinds) ELSE << >>
    BY <1>8, <1>9, <1>14
  <2>3. tt[i] = Heard(y, kinds)
    BY <1>11, <2>1
  <2> HIDE DEF y, z
  <2>4. y.kind \in {"text"} \cup Media
    BY <2>1 DEF Wordy
  <2>5. Heard(y, kinds) = IF Passes(z) THEN Piece(Target, z, kinds) ELSE << >>
    BY <2>1, <2>4, ReachFacts
  <2>6. z.kind \in Placed <=> Passes(z)
    BY <2>1 DEF Placed, Passes, Wordy, Media, None
  <2>7. QED
    BY <2>2, <2>3, <2>5, <2>6
<1>15. FlattenSeq(vv) = FlattenSeq(tt)
  <2>1. \A i \in 1 .. Len(parts) : parts[i].kind \notin Wordy => tt[i] = << >>
    <3> SUFFICES ASSUME NEW i \in 1 .. Len(parts), parts[i].kind \notin Wordy
                 PROVE  tt[i] = << >>
      OBVIOUS
    <3>1. CASE x.items[i].kind \notin Wordy
      BY <1>11, <3>1
    <3>2. CASE x.items[i].kind \in Wordy
      <4>1. Heard(x.items[i], kinds) = << >>
        BY <1>2, <1>12, <1>13, <3>2, ReachFacts DEF Wordy
      <4>2. QED
        BY <1>11, <4>1
    <3>3. QED
      BY <3>1, <3>2
  <2>2. \A i \in 1 .. Len(parts) : \A k \in 1 .. Len(vv) :
          parts[i].kind \in Wordy /\ OfKind(parts, Wordy)[k] = parts[i] => vv[k] = tt[i]
    BY <1>1, <1>14
  <2>3. Len(vv) = Len(OfKind(parts, Wordy))
    BY <1>1, <1>9
  <2>4. QED
    BY <1>2, <1>3, <1>9, <2>1, <2>2, <2>3, PickedPieces
<1>16. Speech(ww)
  <2>1. \A i \in 1 .. Len(parts) : IsItem(parts[i])
    BY <1>2 DEF Reads
  <2>2. \A k \in 1 .. Len(ww) : IsItem(ww[k]) /\ ww[k].kind \in Wordy
    BY <1>4, <1>5, <2>1
  <2>3. QED
    BY <1>5, <2>2 DEF Speech, Wordy
<1>17. QED
  BY <1>10, <1>15, <1>16 DEF ww, uu, tt, cc

\* What the target hears of a turn: the results, and what else is said.
Rest(x, kinds) ==
  IF x.role \in System
  THEN IF Pictured(Target, kinds) THEN FlattenSeq(Only(x, kinds, Wordy)) ELSE << >>
  ELSE Cat(FlattenSeq(Only(x, kinds, Wordy)), FlattenSeq(Only(x, kinds, {"call"})))
Share(x, kinds) == Marks(FlattenSeq(EachOf(Reach, Due(x))), kinds)

\* What reaches a target of items, item by item.
LEMMA ReachedOf ==
  ASSUME Target.dialect \in Dialects, NEW kinds \in Quartet, NEW s, IsSeq(s),
         \A i \in 1 .. Len(s) : FineItem(s[i])
  PROVE  LET tt == [i \in 1 .. Len(s) |-> Heard(s[i], kinds)]
         IN  /\ Lists(tt) /\ Len(tt) = Len(s) /\ IsSeq(FlattenSeq(EachOf(Reach, s)))
             /\ Marks(FlattenSeq(EachOf(Reach, s)), kinds) = FlattenSeq(tt)
<1> DEFINE tt == [i \in 1 .. Len(s) |-> Heard(s[i], kinds)]
           rr == EachOf(Reach, s)
<1>0. kinds \in SUBSET Sorts
  BY QuartetFacts
<1>1. Len(s) \in Nat /\ DOMAIN s = 1 .. Len(s)
  BY SeqFacts
<1>2. rr = [i \in 1 .. Len(s) |-> Reach(s[i])]
  BY <1>1 DEF EachOf
<1>3. rr = [i \in 1 .. Len(s) |-> rr[i]] /\ \A i \in 1 .. Len(s) : rr[i] = Reach(s[i])
  BY <1>2
<1> HIDE DEF rr
<1>4. \A i \in 1 .. Len(s) : IsSeq(rr[i])
  BY <1>3, ReachFacts
<1>5. Lists(rr) /\ Len(rr) = Len(s)
  BY <1>1, <1>3, <1>4, FamilyLists
<1>6. /\ Lists([i \in 1 .. Len(rr) |-> Marks(rr[i], kinds)])
      /\ Marks(FlattenSeq(rr), kinds) = FlattenSeq([i \in 1 .. Len(rr) |-> Marks(rr[i], kinds)])
  BY <1>0, <1>5, MarksFlat
<1>7. [i \in 1 .. Len(rr) |-> Marks(rr[i], kinds)] = tt
  BY <1>3, <1>5 DEF Heard
<1>8. tt = [i \in 1 .. Len(s) |-> tt[i]] /\ \A i \in 1 .. Len(s) : tt[i] = Heard(s[i], kinds)
  OBVIOUS
<1> HIDE DEF tt
<1>9. \A i \in 1 .. Len(s) : IsSeq(tt[i])
  BY <1>8, ReachFacts
<1>10. Lists(tt) /\ Len(tt) = Len(s)
  BY <1>1, <1>8, <1>9, FamilyLists
<1>11. IsSeq(FlattenSeq(rr))
  BY <1>5, FlattenedSeq
<1>12. QED
  BY <1>6, <1>7, <1>10, <1>11 DEF rr, tt

\* What is due of a turn: its results, and the rest (for the results come first).
LEMMA TurnHeard ==
  ASSUME Target.dialect \in Dialects, NEW kinds \in Quartet, NEW x, FineTurn(x)
  PROVE  /\ IsSeq(FlattenSeq(EachOf(Reach, Due(x))))
         /\ Share(x, kinds) = Cat(FlattenSeq(Only(x, kinds, {"result"})), Rest(x, kinds))
<1> DEFINE s == x.items
           res == Only(x, kinds, {"result"})
           wor == Only(x, kinds, Wordy)
           cal == Only(x, kinds, {"call"})
<1>1. IsSeq(s) /\ Len(s) \in Nat /\ \A i \in 1 .. Len(s) : FineItem(s[i])
  BY SeqFacts DEF FineTurn
<1>2. /\ Lists(res) /\ Len(res) = Len(s) /\ IsSeq(FlattenSeq(res))
      /\ Lists(wor) /\ Len(wor) = Len(s) /\ IsSeq(FlattenSeq(wor))
      /\ Lists(cal) /\ Len(cal) = Len(s) /\ IsSeq(FlattenSeq(cal))
  BY OnlyFacts
<1>3. \A i \in 1 .. Len(s) :
        /\ res[i] = IF s[i].kind = "result" THEN Heard(s[i], kinds) ELSE << >>
        /\ wor[i] = IF s[i].kind \in Wordy THEN Heard(s[i], kinds) ELSE << >>
        /\ cal[i] = IF s[i].kind = "call" THEN Heard(s[i], kinds) ELSE << >>
  BY DEF Only
<1>4. IsSeq(<< >>) /\ Cat(<< >>, << >>) = << >>
  BY CatFacts
<1> HIDE DEF res, wor, cal
<1>5. ASSUME NEW i \in 1 .. Len(s)
      PROVE  /\ s[i].kind \in Wordy \/ s[i].kind = "call" \/ s[i].kind = "result"
             /\ s[i].kind = "call" \/ s[i].kind = "result" => s[i].kind \notin Wordy
             /\ s[i].kind = "call" /\ kinds # {"call"} => Heard(s[i], kinds) = << >>
             /\ s[i].kind \in Wordy /\ kinds = {"call"} => Heard(s[i], kinds) = << >>
             /\ s[i].kind = "text" /\ kinds # {"text"} => Heard(s[i], kinds) = << >>
             /\ s[i].kind \in Media /\ kinds # Media => Heard(s[i], kinds) = << >>
  <2> DEFINE y == s[i]
  <2>1. FineItem(y)
    BY <1>1
  <2>2. "call" \in kinds => kinds = {"call"}
    BY QuartetFacts
  <2>3. "text" \in kinds => kinds = {"text"}
    BY QuartetFacts
  <2>4. Media # {"call"} /\ {"text"} # {"call"}
    <3>1. "image" \in Media
      BY DEF Media
    <3>2. QED
      BY <3>1
  <2> HIDE DEF y
  <2>5. y.kind \in {"text", "call"} => Heard(y, kinds) = Marked(y, kinds)
    BY <2>1, ReachFacts
  <2>6. y.kind \in Media /\ kinds # Media => Heard(y, kinds) = << >>
    BY <2>1, ReachFacts
  <2>7. y.kind \notin kinds => Marked(y, kinds) = << >>
    BY DEF Marked
  <2>8. y.kind = "call" /\ kinds # {"call"} => Heard(y, kinds) = << >>
    BY <2>2, <2>5, <2>7
  <2>9. y.kind = "text" /\ kinds # {"text"} => Heard(y, kinds) = << >>
    BY <2>3, <2>5, <2>7
  <2>10. y.kind \in Wordy /\ kinds = {"call"} => Heard(y, kinds) = << >>
    BY <2>4, <2>6, <2>9 DEF Wordy
  <2>11. y.kind \in Wordy \/ y.kind = "call" \/ y.kind = "result"
    BY <2>1 DEF FineItem, Sorts, Wordy
  <2>12. y.kind = "call" \/ y.kind = "result" => y.kind \notin Wordy
    BY DEF Wordy, Media
  <2>13. QED
    BY <2>6, <2>8, <2>9, <2>10, <2>11, <2>12 DEF y
<1>6. CASE x.role \in System
  <2> DEFINE due == Due(x)
             med == OfKind(s, Media)
             vv == [k \in 1 .. Len(med) |-> Heard(med[k], kinds)]
  <2>0. \A i \in 1 .. Len(s) : s[i].kind # "call" /\ s[i].kind # "result"
    BY <1>6 DEF FineTurn, System
  <2>1. FlattenSeq(res) = << >>
    <3>1. \A i \in 1 .. Len(res) : res[i] = << >>
      BY <1>2, <1>3, <2>0
    <3>2. QED
      BY <1>2, <3>1, FlattenedNothing DEF Lists
  <2>2. due = IF Target.dialect = "Codex" THEN med ELSE << >>
    BY <1>6 DEF Due
  <2>3. IsSeq(med) /\ \A k \in 1 .. Len(med) : \E i \in 1 .. Len(s) : med[k] = s[i]
    BY <1>1, KindedFacts
  <2> HIDE DEF med, due
  <2>4. \A k \in 1 .. Len(med) : FineItem(med[k])
    BY <1>1, <2>3
  <2>5. /\ Lists(vv) /\ Len(vv) = Len(med) /\ IsSeq(FlattenSeq(EachOf(Reach, med)))
        /\ Marks(FlattenSeq(EachOf(Reach, med)), kinds) = FlattenSeq(vv)
    BY <2>3, <2>4, ReachedOf
  <2>6. FlattenSeq(vv) = IF kinds = Media THEN FlattenSeq(wor) ELSE << >>
    <3>1. \A k \in 1 .. Len(med) : med[k].kind \in Media /\ vv[k] = Heard(med[k], kinds)
      BY <1>1, KindedFacts DEF med
    <3> HIDE DEF vv
    <3>2. CASE kinds = Media
      <4>1. Media # {"text"}
        <5>1. "image" \in Media
          BY DEF Media
        <5>2. QED
          BY <5>1
      <4>2. \A i \in 1 .. Len(s) : s[i].kind \notin Media => wor[i] = << >>
        BY <1>3, <1>5, <3>2, <4>1 DEF Wordy
      <4>3. \A i \in 1 .. Len(s) : s[i].kind \in Media => wor[i] = Heard(s[i], kinds)
        BY <1>3 DEF Wordy
      <4>4. \A i \in 1 .. Len(s) : \A k \in 1 .. Len(vv) :
              s[i].kind \in Media /\ OfKind(s, Media)[k] = s[i] => vv[k] = wor[i]
        BY <2>5, <3>1, <4>3 DEF med
      <4>5. Len(vv) = Len(OfKind(s, Media))
        BY <2>5 DEF med
      <4>6. FlattenSeq(vv) = FlattenSeq(wor)
        BY <1>1, <1>2, <2>5, <4>2, <4>4, <4>5, PickedPieces
      <4>7. QED
        BY <3>2, <4>6
    <3>3. CASE kinds # Media
      <4>1. \A k \in 1 .. Len(vv) : vv[k] = << >>
        <5> SUFFICES ASSUME NEW k \in 1 .. Len(vv)
                     PROVE  vv[k] = << >>
          OBVIOUS
        <5>1. PICK i \in 1 .. Len(s) : med[k] = s[i]
          BY <2>3, <2>5
        <5>2. s[i].kind \in Media /\ vv[k] = Heard(s[i], kinds)
          BY <2>5, <3>1, <5>1
        <5>3. QED
          BY <1>5, <3>3, <5>2
      <4>2. FlattenSeq(vv) = << >>
        BY <2>5, <4>1, FlattenedNothing DEF Lists
      <4>3. QED
        BY <3>3, <4>2
    <3>4. QED
      BY <3>2, <3>3
  <2> HIDE DEF vv
  <2>7. /\ IsSeq(FlattenSeq(EachOf(Reach, << >>)))
        /\ Marks(FlattenSeq(EachOf(Reach, << >>)), kinds) = << >>
    <3> DEFINE none == << >>
               rr == EachOf(Reach, none)
    <3>1. IsSeq(none) /\ Len(none) = 0
      BY CatFacts
    <3>2. DOMAIN none = 1 .. 0
      BY <3>1, SeqFacts
    <3>3. rr = [i \in 1 .. 0 |-> rr[i]]
      BY <3>2 DEF EachOf
    <3> HIDE DEF rr, none
    <3>4. IsSeq(rr) /\ Len(rr) = 0
      BY <3>3, FamilySeq
    <3>5. rr = << >>
      BY <3>4, SeqFacts
    <3>6. FlattenSeq(rr) = << >>
      BY <3>5, FlattenedEnds
    <3>7. Marks(<< >>, kinds) = << >>
      BY QuartetFacts, MarksJoined
    <3>8. QED
      BY <1>4, <3>6, <3>7 DEF rr, none
  <2>8. Share(x, kinds) = IF Target.dialect = "Codex" THEN FlattenSeq(vv) ELSE << >>
    BY <2>2, <2>5, <2>7 DEF Share, due
  <2>9. Rest(x, kinds) = IF Pictured(Target, kinds) THEN FlattenSeq(wor) ELSE << >>
    BY <1>6 DEF Rest, wor
  <2>10. Share(x, kinds) = Rest(x, kinds)
    BY <2>6, <2>8, <2>9 DEF Pictured
  <2>11. IsSeq(Rest(x, kinds))
    BY <1>2, <1>4, <2>9
  <2>12. Cat(<< >>, Rest(x, kinds)) = Rest(x, kinds)
    BY <2>11, CatFacts
  <2>13. IsSeq(FlattenSeq(EachOf(Reach, Due(x))))
    BY <2>2, <2>5, <2>7 DEF due
  <2>14. QED
    BY <2>1, <2>10, <2>12, <2>13 DEF res
<1>7. CASE x.role \notin System
  <2> DEFINE tt == [i \in 1 .. Len(s) |-> Heard(s[i], kinds)]
  <2>1. Due(x) = s
    BY <1>7 DEF Due
  <2>2. /\ Lists(tt) /\ Len(tt) = Len(s) /\ IsSeq(FlattenSeq(EachOf(Reach, s)))
        /\ Marks(FlattenSeq(EachOf(Reach, s)), kinds) = FlattenSeq(tt)
    BY <1>1, ReachedOf
  <2>3. \A i \in 1 .. Len(s) : tt[i] = Heard(s[i], kinds)
    OBVIOUS
  <2> HIDE DEF tt
  <2>4. PICK n \in 0 .. Len(s) : \A i \in 1 .. Len(s) : s[i].kind = "result" <=> i <= n
    BY DEF FineTurn
  <2> DEFINE oth == [i \in 1 .. Len(s) |-> IF i <= n THEN << >> ELSE tt[i]]
  <2>5. /\ res = [i \in 1 .. Len(s) |-> res[i]]
        /\ \A i \in 1 .. Len(s) : res[i] = IF i <= n THEN tt[i] ELSE << >>
    <3>1. res = [i \in 1 .. Len(s) |-> res[i]]
      BY <1>2, SeqFacts DEF Lists
    <3>2. QED
      BY <1>3, <2>3, <2>4, <3>1
  <2>6. /\ oth = [i \in 1 .. Len(s) |-> oth[i]]
        /\ \A i \in 1 .. Len(s) : oth[i] = IF i <= n THEN << >> ELSE tt[i]
    OBVIOUS
  <2> HIDE DEF oth
  <2>7. \A i \in 1 .. Len(s) : oth[i] = IF s[i].kind = "result" THEN << >> ELSE Heard(s[i], kinds)
    BY <2>3, <2>4, <2>6
  <2>11. n \in 0 .. Len(tt)
    BY <2>2
  <2>12. Lists(oth) /\ Len(oth) = Len(s) /\ FlattenSeq(tt) = Cat(FlattenSeq(res), FlattenSeq(oth))
    <3>0. IsSeq(oth) /\ Len(oth) = Len(s)
      BY <1>1, <2>6, FamilySeq
    <3>1. Halves(tt, n, res, oth)
      BY <1>2, <2>2, <2>5, <2>6, <3>0 DEF Lists, Halves
    <3>4. Lists(tt)
      BY <2>2
    <3>2. /\ Lists(oth) /\ Len(oth) = Len(tt)
          /\ FlattenSeq(tt) = Cat(FlattenSeq(res), FlattenSeq(oth))
      BY <2>11, <3>1, <3>4, SplitPieces
    <3>3. QED
      BY <2>2, <3>2
  <2>8. FlattenSeq(oth) = Rest(x, kinds)
    <3>1. Rest(x, kinds) = Cat(FlattenSeq(wor), FlattenSeq(cal))
      BY <1>7 DEF Rest, wor, cal
    <3>2. CASE kinds = {"call"}
      <4>1. \A i \in 1 .. Len(wor) : wor[i] = << >>
        BY <1>2, <1>3, <1>5, <3>2
      <4>2. FlattenSeq(wor) = << >>
        BY <1>2, <4>1, FlattenedNothing DEF Lists
      <4>3. \A i \in 1 .. Len(s) : oth[i] = cal[i]
        BY <1>3, <1>5, <2>7, <3>2
      <4>4. oth = cal
        BY <1>2, <2>12, <4>3, SameSeq DEF Lists
      <4>5. QED
        BY <1>2, <3>1, <4>2, <4>4, CatFacts
    <3>3. CASE kinds # {"call"}
      <4>1. \A i \in 1 .. Len(cal) : cal[i] = << >>
        BY <1>2, <1>3, <1>5, <3>3
      <4>2. FlattenSeq(cal) = << >>
        BY <1>2, <4>1, FlattenedNothing DEF Lists
      <4>3. \A i \in 1 .. Len(s) : oth[i] = wor[i]
        BY <1>3, <1>5, <2>7, <3>3
      <4>4. oth = wor
        BY <1>2, <2>12, <4>3, SameSeq DEF Lists
      <4>5. QED
        BY <1>2, <3>1, <4>2, <4>4, CatFacts
    <3>4. QED
      BY <3>2, <3>3
  <2>9. Share(x, kinds) = FlattenSeq(tt)
    BY <2>1, <2>2 DEF Share
  <2>10. QED
    BY <2>1, <2>2, <2>8, <2>9, <2>12 DEF res
<1>8. QED
  BY <1>6, <1>7

\* A turn of which the messages are those of the results and those of the rest is
\* carried.
Tools(parts, aa) ==
  /\ IsSeq(aa) /\ Len(aa) = Len(Results(parts))
  /\ \A k \in 1 .. Len(aa) :
       /\ IsMessage(aa[k]) /\ aa[k].role = "tool"
       /\ aa[k].content = Results(parts)[k].parts /\ aa[k].result.of = Results(parts)[k].of
Carried(x, ms) ==
  Worded(ms) /\ \A kinds \in Quartet : GivenAll(ms, kinds) = Share(x, kinds)

\* A turn is carried by messages for its results and messages that say the rest.
LEMMA TurnCarried ==
  ASSUME Target.dialect \in Dialects, NEW x, FineTurn(x), NEW parts, Taken(x, parts),
         NEW aa, Tools(parts, aa), NEW bb, Worded(bb),
         \A kinds \in Quartet :
           GivenAll(bb, kinds) = SaidBy(x.role, OfKind(Content(parts), Placed), Calls(parts), kinds)
  PROVE  Carried(x, Cat(aa, bb))
<1>1. ASSUME NEW kinds \in Quartet
      PROVE  Worded(Cat(aa, bb)) /\ GivenAll(Cat(aa, bb), kinds) = Share(x, kinds)
  <2>1. Worded(aa) /\ GivenAll(aa, kinds) = FlattenSeq(Only(x, kinds, {"result"}))
    BY ResultsSide DEF Tools
  <2>2. Worded(Cat(aa, bb)) /\ GivenAll(Cat(aa, bb), kinds) =
          Cat(GivenAll(aa, kinds), GivenAll(bb, kinds))
    BY <2>1, GivenJoined
  <2> DEFINE words == OfKind(Content(parts), Placed)
  <2>3. FlattenSeq(ByPart(Target, words, kinds)) = FlattenSeq(Only(x, kinds, Wordy))
    BY WordsSide
  <2>4. Marks(Calls(parts), kinds) = FlattenSeq(Only(x, kinds, {"call"}))
    BY CallsSide
  <2>5. SaidBy(x.role, words, Calls(parts), kinds) = Rest(x, kinds)
    BY <2>3, <2>4 DEF SaidBy, Rest
  <2>6. Share(x, kinds) = Cat(FlattenSeq(Only(x, kinds, {"result"})), Rest(x, kinds))
    BY TurnHeard
  <2>7. QED
    BY <2>1, <2>2, <2>5, <2>6
<1>2. Quartet # {}
  BY DEF Quartet
<1>3. QED
  BY <1>1, <1>2 DEF Carried

-----------------------------------------------------------------------------
(* The messages of results *)

FineResult(r) ==
  /\ IsItem(r) /\ r.kind = "result" /\ Speech(r.parts)
  /\ \A i \in 1 .. Len(r.parts) :
       r.parts[i].kind = "text" \/ (r.parts[i].kind = "image" /\ ask.client = "Anthropic")

\* The results of a turn are fit to be answers.
LEMMA ResultsFine ==
  ASSUME NEW x, FineTurn(x), NEW parts, Taken(x, parts)
  PROVE  IsSeq(Results(parts)) /\ \A k \in 1 .. Len(Results(parts)) : FineResult(Results(parts)[k])
<1> DEFINE rr == Results(parts)
<1>1. IsSeq(parts) /\ Len(parts) = Len(x.items)
        /\ \A i \in 1 .. Len(parts) : Reads(x.items[i], parts[i])
  BY DEF Taken
<1>2. /\ IsSeq(rr)
      /\ \A k \in 1 .. Len(rr) : rr[k].kind = "result"
           /\ \E i \in 1 .. Len(parts) : rr[k] = parts[i]
  BY <1>1, KindedFacts DEF Results
<1> HIDE DEF rr
<1>3. ASSUME NEW k \in 1 .. Len(rr)
      PROVE  FineResult(rr[k])
  <2>1. PICK i \in 1 .. Len(parts) : rr[k] = parts[i]
    BY <1>2
  <2> DEFINE y == x.items[i]
             z == parts[i]
  <2>2. FineItem(y) /\ Reads(y, z) /\ z.kind = "result"
    BY <1>1, <1>2, <2>1 DEF FineTurn
  <2> HIDE DEF y, z
  <2>3. y.kind = "result"
    BY <2>2, KindRead
  <2>4. FineResult(z)
    BY <2>2, <2>3 DEF FineItem, FineResult, Reads
  <2>5. QED
    BY <2>1, <2>4 DEF z
<1>4. QED
  BY <1>2, <1>3 DEF rr

\* ToolMessage: the answer to a call has what the result has.
LEMMA ToolFacts ==
  ASSUME NEW r, FineResult(r)
  PROVE  LET m == ToolMessage(r)
         IN  IsMessage(m) /\ m.role = "tool" /\ m.content = r.parts /\ m.result.of = r.of
<1> DEFINE m == ToolMessage(r)
           p == r.parts
<1>1. m = [role |-> "tool", content |-> p, calls |-> << >>, result |-> r]
  BY DEF ToolMessage, Message
<1>2. Speech(p) /\ IsItem(r) /\ r.kind = "result"
  BY DEF FineResult
<1>3. Doings(<< >>)
  <2>1. IsSeq(<< >>) /\ Len(<< >>) = 0
    BY CatFacts
  <2>2. QED
    BY <2>1 DEF Doings
<1> HIDE DEF m, p
<1>4. m.role = "tool" /\ m.content = p /\ m.calls = << >> /\ m.result = r
  BY <1>1
<1>5. m = [role |-> m.role, content |-> m.content, calls |-> m.calls, result |-> m.result]
  BY <1>1, <1>4
<1>6. IsMessage(m)
  BY <1>2, <1>3, <1>4, <1>5 DEF IsMessage
<1>7. QED
  BY <1>4, <1>6 DEF m, p

\* What a surface keeps of the parts of a result is all there is.
LEMMA PartsKept ==
  ASSUME NEW r, FineResult(r)
  PROVE  /\ [r EXCEPT !.parts = ResultParts(@)] = r
         /\ ask.client = "Responses" => [r EXCEPT !.parts = AsText(@)] = r
<1> DEFINE p == r.parts
           q == ResultParts(p)
           w == AsText(p)
<1>1. IsItem(r) /\ IsSeq(p) /\ \A i \in 1 .. Len(p) : p[i].kind \in {"text", "image"}
  BY DEF FineResult, Speech
<1>2. q = p
  <2> DEFINE both == {"text", "image"}
  <2>1. \A i \in 1 .. Len(p) : p[i].kind \in both
    BY <1>1
  <2> HIDE DEF both
  <2>2. OfKind(p, both) = p
    BY <1>1, <2>1, AllOfKind
  <2>3. QED
    BY <2>2 DEF ResultParts, both
<1>3. ask.client = "Responses" => w = p
  <2> SUFFICES ASSUME ask.client = "Responses"
               PROVE  w = p
    OBVIOUS
  <2> DEFINE only == {"text"}
  <2>1. \A i \in 1 .. Len(p) : p[i].kind \in only
    BY DEF FineResult
  <2> HIDE DEF only
  <2>2. OfKind(p, only) = p
    BY <1>1, <2>1, AllOfKind
  <2>3. QED
    BY <2>2 DEF AsText, only
<1> HIDE DEF q, w
<1>4. [r EXCEPT !.parts = p] = r
  <2>1. [r EXCEPT !.parts = p] = Made(r.kind, r.data, r.name, r.id, r.remote, p, r.of)
    BY <1>1, Changed
  <2>2. r = Made(r.kind, r.data, r.name, r.id, r.remote, p, r.of)
    BY <1>1 DEF IsItem, Made
  <2>3. QED
    BY <2>1, <2>2
<1>5. [r EXCEPT !.parts = ResultParts(@)] = [r EXCEPT !.parts = q]
        /\ [r EXCEPT !.parts = AsText(@)] = [r EXCEPT !.parts = w]
  BY DEF q, w
<1>6. QED
  BY <1>2, <1>3, <1>4, <1>5

\* The answers a surface makes of the results of a turn.
LEMMA ToolsOf ==
  ASSUME NEW x, FineTurn(x), NEW parts, Taken(x, parts), NEW aa, IsSeq(aa),
         Len(aa) = Len(Results(parts)),
         \A k \in 1 .. Len(aa) : aa[k] = ToolMessage(Results(parts)[k])
  PROVE  Tools(parts, aa)
<1>1. \A k \in 1 .. Len(aa) : FineResult(Results(parts)[k])
  BY ResultsFine
<1>2. ASSUME NEW k \in 1 .. Len(aa)
      PROVE  /\ IsMessage(aa[k]) /\ aa[k].role = "tool"
             /\ aa[k].content = Results(parts)[k].parts /\ aa[k].result.of = Results(parts)[k].of
  BY <1>1, ToolFacts
<1>3. QED
  BY <1>2 DEF Tools

-----------------------------------------------------------------------------
(* The rest in one message *)

\* All surfaces but Responses have a place for every content.
LEMMA WordsAll ==
  ASSUME ask.client # "Responses", NEW parts, IsSeq(parts)
  PROVE  OfKind(Content(parts), Placed) = Content(parts)
<1> DEFINE cc == OfKind(parts, Wordy)
<1>1. Content(parts) = cc /\ Placed = Wordy
  BY DEF Content, Wordy, Placed
<1>2. IsSeq(cc) /\ \A k \in 1 .. Len(cc) : cc[k].kind \in Wordy
  BY KindedFacts
<1> HIDE DEF cc
<1>3. OfKind(cc, Wordy) = cc
  BY <1>2, AllOfKind
<1>4. QED
  BY <1>1, <1>3

\* A turn is carried by its answers and one message, or none if there is no more
\* to it.
LEMMA InOneMessage ==
  ASSUME Target.dialect \in Dialects, ask.client # "Responses", NEW x, FineTurn(x),
         NEW parts, Taken(x, parts),
         NEW aa, Tools(parts, aa), NEW bb,
         LET rest == Message(x.role, Content(parts), Calls(parts))
         IN  \/ bb = <<rest>>
             \/ bb = << >> /\ Content(parts) = << >> /\ Calls(parts) = << >>
  PROVE  Carried(x, Cat(aa, bb))
<1> DEFINE words == Content(parts)
           calls == Calls(parts)
<1>1. IsSeq(parts)
  BY DEF Taken
<1>2. OfKind(Content(parts), Placed) = words
  BY <1>1, WordsAll
<1>3. ASSUME NEW kinds \in Quartet
      PROVE  Worded(bb) /\ GivenAll(bb, kinds) = SaidBy(x.role, words, calls, kinds)
  <2>1. Speech(words)
    BY <1>2, WordsSide
  <2>2. Doings(calls) /\ (calls # << >> => x.role = "assistant")
    BY CallsSide
  <2>3. Sayable(x.role, words, calls)
    BY <2>1, <2>2 DEF Sayable, FineTurn
  <2>4. CASE bb = <<Message(x.role, words, calls)>>
    BY <2>3, <2>4, SayableMessage
  <2>5. CASE bb = << >> /\ words = << >> /\ calls = << >>
    <3> HIDE DEF words, calls
    <3>1. Worded(<< >>) /\ GivenAll(<< >>, kinds) = << >>
      BY GivenJoined
    <3>2. SaidBy(x.role, << >>, << >>, kinds) = << >>
      BY NothingSaid
    <3>3. QED
      BY <2>5, <3>1, <3>2
  <2>6. QED
    BY <2>4, <2>5
<1>4. Quartet # {}
  BY DEF Quartet
<1>5. Worded(bb) /\ \A kinds \in Quartet :
        GivenAll(bb, kinds) = SaidBy(x.role, OfKind(Content(parts), Placed), Calls(parts), kinds)
  BY <1>2, <1>3, <1>4
<1>6. QED
  BY <1>5, TurnCarried

-----------------------------------------------------------------------------
(* What the surfaces make of a turn *)

\* Those of the chat model and of Anthropic take the items as they are.
LEMMA TakenAsIs ==
  ASSUME ask.client \notin {"Gemini", "Responses"}, NEW x, FineTurn(x)
  PROVE  Taken(x, x.items)
<1>1. IsSeq(x.items) /\ \A i \in 1 .. Len(x.items) : FineItem(x.items[i])
  BY DEF FineTurn
<1>2. ASSUME NEW i \in 1 .. Len(x.items)
      PROVE  Reads(x.items[i], x.items[i])
  BY <1>1 DEF FineItem, Reads
<1>3. QED
  BY <1>1, <1>2 DEF Taken

\* That of Responses takes of a document what is inline.
LEMMA TakenInline ==
  ASSUME ask.client = "Responses", NEW x, FineTurn(x)
  PROVE  Taken(x, EachOf(Inline, x.items))
<1> DEFINE parts == EachOf(Inline, x.items)
<1>1. IsSeq(x.items) /\ \A i \in 1 .. Len(x.items) : FineItem(x.items[i])
  BY DEF FineTurn
<1>2. /\ IsSeq(parts) /\ Len(parts) = Len(x.items)
      /\ \A i \in 1 .. Len(x.items) : parts[i] = Inline(x.items[i])
  BY <1>1, InlineEach
<1> HIDE DEF parts
<1>3. ASSUME NEW i \in 1 .. Len(x.items)
      PROVE  Reads(x.items[i], parts[i])
  <2> DEFINE y == x.items[i]
             z == Inline(y)
  <2>1. IsItem(y) /\ parts[i] = z
    BY <1>1, <1>2 DEF FineItem
  <2> HIDE DEF y
  <2>2. /\ IsItem(z) /\ z.kind = y.kind /\ z.name = y.name /\ z.remote = y.remote
        /\ z.parts = y.parts /\ z.of = y.of
        /\ z.data = IF y.kind = "file" /\ y.remote THEN None ELSE y.data
    BY <2>1, InlineFacts
  <2> HIDE DEF z
  <2>3. Reads(y, z)
    BY <2>2 DEF Reads
  <2>4. QED
    BY <2>1, <2>3 DEF y
<1>4. QED
  BY <1>1, <1>2, <1>3 DEF Taken, parts

\* ToolMessage, result by result.
LEMMA ToolMessages ==
  ASSUME NEW rr, IsSeq(rr)
  PROVE  LET aa == EachOf(ToolMessage, rr)
         IN  IsSeq(aa) /\ Len(aa) = Len(rr) /\ \A k \in 1 .. Len(aa) : aa[k] = ToolMessage(rr[k])
<1> DEFINE aa == EachOf(ToolMessage, rr)
<1>1. Len(rr) \in Nat /\ DOMAIN rr = 1 .. Len(rr)
  BY SeqFacts
<1>2. aa = [k \in 1 .. Len(rr) |-> ToolMessage(rr[k])]
  BY <1>1 DEF EachOf
<1>3. /\ aa = [k \in 1 .. Len(rr) |-> aa[k]]
      /\ \A k \in 1 .. Len(rr) : aa[k] = ToolMessage(rr[k])
  BY <1>2
<1> HIDE DEF aa
<1>4. IsSeq(aa) /\ Len(aa) = Len(rr)
  BY <1>1, <1>3, FamilySeq
<1>5. QED
  BY <1>3, <1>4 DEF aa

\* OpenAiTurn carries the turn.
LEMMA OpenAiCarried ==
  ASSUME Target.dialect \in Dialects, ask.client = "OpenAi", NEW x, FineTurn(x)
  PROVE  Carried(x, OpenAiTurn(x))
<1> DEFINE parts == x.items
           rr == Results(parts)
           aa == EachOf(ToolMessage, rr)
           rest == Message(x.role, Content(parts), Calls(parts))
           bb == IF x.role = "assistant" \/ rest.content # << >> THEN <<rest>> ELSE << >>
<1>1. Taken(x, parts) /\ ask.client # "Responses"
  BY TakenAsIs
<1>2. IsSeq(rr)
  BY <1>1, ResultsFine
<1>3. IsSeq(aa) /\ Len(aa) = Len(rr) /\ \A k \in 1 .. Len(aa) : aa[k] = ToolMessage(rr[k])
  BY <1>2, ToolMessages
<1>4. OpenAiTurn(x) = Cat(aa, bb)
  BY DEF OpenAiTurn, Cat
<1>5. rest.content = Content(parts)
  BY DEF Message
<1>6. Calls(parts) # << >> => x.role = "assistant"
  <2>1. {"text"} \in Quartet
    BY DEF Quartet
  <2>2. QED
    BY <1>1, <2>1, CallsSide
<1>7. bb = <<rest>> \/ (bb = << >> /\ Content(parts) = << >> /\ Calls(parts) = << >>)
  BY <1>5, <1>6
<1> HIDE DEF aa, bb
<1>8. Tools(parts, aa)
  BY <1>1, <1>3, ToolsOf DEF rr
<1> HIDE DEF parts
<1>9. Carried(x, Cat(aa, bb))
  BY <1>1, <1>7, <1>8, InOneMessage
<1>10. QED
  BY <1>4, <1>9

\* AnthropicTurn carries the turn.
LEMMA AnthropicCarried ==
  ASSUME Target.dialect \in Dialects, ask.client = "Anthropic", NEW x, FineTurn(x)
  PROVE  Carried(x, AnthropicTurn(x))
<1> DEFINE parts == x.items
           rr == Results(parts)
           aa == [k \in DOMAIN rr |-> ToolMessage([rr[k] EXCEPT !.parts = ResultParts(@)])]
           tt == EachOf(ToolMessage, rr)
           rest == Message(x.role, Content(parts), Calls(parts))
           bb == IF rest.content = << >> /\ rest.calls = << >> THEN << >> ELSE <<rest>>
<1>1. Taken(x, parts) /\ ask.client # "Responses"
  BY TakenAsIs
<1>2. IsSeq(rr) /\ \A k \in 1 .. Len(rr) : FineResult(rr[k])
  BY <1>1, ResultsFine
<1>3. IsSeq(tt) /\ Len(tt) = Len(rr) /\ \A k \in 1 .. Len(tt) : tt[k] = ToolMessage(rr[k])
  BY <1>2, ToolMessages
<1>4. AnthropicTurn(x) = Cat(aa, bb)
  BY DEF AnthropicTurn, Cat, EachOf
<1>5. rest.content = Content(parts) /\ rest.calls = Calls(parts)
  BY DEF Message
<1>6. bb = <<rest>> \/ (bb = << >> /\ Content(parts) = << >> /\ Calls(parts) = << >>)
  BY <1>5
<1>7. aa = tt
  <2>1. DOMAIN rr = 1 .. Len(rr)
    BY <1>2, SeqFacts
  <2>2. \A k \in DOMAIN rr : [rr[k] EXCEPT !.parts = ResultParts(@)] = rr[k]
    BY <1>2, <2>1, PartsKept
  <2> HIDE DEF rr
  <2>3. QED
    BY <2>2 DEF EachOf
<1> HIDE DEF aa, bb, tt
<1>8. Tools(parts, tt)
  BY <1>1, <1>3, ToolsOf DEF rr
<1> HIDE DEF parts
<1>9. Carried(x, Cat(tt, bb))
  BY <1>1, <1>6, <1>8, InOneMessage
<1>10. QED
  BY <1>4, <1>7, <1>9

\* GeminiPart: but for its id, and a medium that is taken for an image or for nothing,
\* a part stays.
LEMMA ReadsGemini ==
  ASSUME ask.client = "Gemini", NEW before, NEW y, FineItem(y)
  PROVE  Reads(y, GeminiPart(before, y))
<1>1. IsItem(y) /\ y.kind \in {"text", "call", "result", "image", "audio", "file"}
  BY DEF FineItem, Sorts, Media
<1>2. CASE y.kind = "text"
  <2>1. GeminiPart(before, y) = y
    BY <1>2 DEF GeminiPart
  <2>2. QED
    BY <1>1, <1>2, <2>1 DEF Reads, Media
<1>3. CASE y.kind \in {"call", "result"}
  <2>1. PICK v : GeminiPart(before, y) = [y EXCEPT !.id = v]
    BY <1>3 DEF GeminiPart
  <2>2. [y EXCEPT !.id = v] = Made(y.kind, y.data, y.name, v, y.remote, y.parts, y.of)
    BY <1>1, Changed
  <2>3. QED
    BY <1>3, <2>1, <2>2, MadeFacts DEF Reads, Media
<1>4. CASE y.kind \in Media
  <2> DEFINE kind == IF y.remote THEN None ELSE "image"
  <2>1. GeminiPart(before, y) = [y EXCEPT !.kind = kind]
    BY <1>4 DEF GeminiPart, Media
  <2>2. [y EXCEPT !.kind = kind] = Made(kind, y.data, y.name, y.id, y.remote, y.parts, y.of)
    BY <1>1, Changed
  <2>3. QED
    BY <1>4, <2>1, <2>2, MadeFacts DEF Reads
<1>5. QED
  BY <1>1, <1>2, <1>3, <1>4 DEF Media

\* GeminiTurn carries the turn, whatever came before it.
LEMMA GeminiCarried ==
  ASSUME Target.dialect \in Dialects, ask.client = "Gemini", NEW x, FineTurn(x), NEW before
  PROVE  Carried(x, GeminiTurn(before, x))
<1> DEFINE parts == [j \in DOMAIN x.items |->
                       GeminiPart(before \o SubSeq(x.items, 1, j - 1), x.items[j])]
           rr == Results(parts)
           aa == EachOf(ToolMessage, rr)
           rest == Message(x.role, Content(parts), Calls(parts))
           bb == IF rest.content = << >> /\ rest.calls = << >> THEN << >> ELSE <<rest>>
<1>1. GeminiTurn(before, x) = Cat(aa, bb)
  BY DEF GeminiTurn, Cat
<1>2. /\ IsSeq(x.items) /\ Len(x.items) \in Nat /\ DOMAIN x.items = 1 .. Len(x.items)
      /\ \A i \in 1 .. Len(x.items) : FineItem(x.items[i])
  BY SeqFacts DEF FineTurn
<1>3. Taken(x, parts)
  <2> DEFINE n == Len(x.items)
             Read(j) == GeminiPart(before \o SubSeq(x.items, 1, j - 1), x.items[j])
  <2>1. parts = [j \in 1 .. n |-> Read(j)]
    BY <1>2
  <2>2. \A j \in 1 .. n : Reads(x.items[j], Read(j))
    BY <1>2, ReadsGemini
  <2> HIDE DEF parts, Read
  <2>3. parts = [j \in 1 .. n |-> parts[j]] /\ \A j \in 1 .. n : parts[j] = Read(j)
    BY <2>1
  <2>4. IsSeq(parts) /\ Len(parts) = n
    BY <1>2, <2>3, FamilySeq
  <2>5. QED
    BY <2>2, <2>3, <2>4 DEF Taken
<1>4. rest.content = Content(parts) /\ rest.calls = Calls(parts)
  BY DEF Message
<1>5. bb = <<rest>> \/ (bb = << >> /\ Content(parts) = << >> /\ Calls(parts) = << >>)
  BY <1>4
<1> HIDE DEF parts, bb
<1>6. IsSeq(rr)
  BY <1>3, ResultsFine
<1>7. IsSeq(aa) /\ Len(aa) = Len(rr) /\ \A k \in 1 .. Len(aa) : aa[k] = ToolMessage(rr[k])
  BY <1>6, ToolMessages
<1> HIDE DEF aa
<1>8. Tools(parts, aa)
  BY <1>3, <1>7, ToolsOf DEF rr
<1>9. Carried(x, Cat(aa, bb))
  BY <1>3, <1>5, <1>8, InOneMessage
<1>10. QED
  BY <1>1, <1>9

\* What is said and the calls, one after the other.
LEMMA SaidThenCalled ==
  ASSUME NEW role, NEW words, NEW calls, Sayable(role, words, calls), NEW kinds \in Quartet,
         IsSeq(FlattenSeq(ByPart(Target, words, kinds)))
  PROVE  Cat(SaidBy(role, words, << >>, kinds), Marks(calls, kinds)) =
           SaidBy(role, words, calls, kinds)
<1> DEFINE shown == FlattenSeq(ByPart(Target, words, kinds))
           done == Marks(calls, kinds)
<1>1. kinds \in SUBSET Sorts
  BY QuartetFacts
<1>2. IsSeq(calls)
  BY DEF Sayable, Doings
<1>3. IsSeq(done) /\ Marks(<< >>, kinds) = << >>
  BY <1>1, <1>2, MarkingFacts, MarksJoined
<1>4. calls = << >> => done = << >>
  BY <1>3
<1>5. IsSeq(shown) /\ IsSeq(<< >>)
  BY CatFacts
<1>6. SaidBy(role, words, << >>, kinds) =
        IF role \in System THEN IF Pictured(Target, kinds) THEN shown ELSE << >>
        ELSE Cat(shown, << >>)
  BY <1>3 DEF SaidBy
<1>7. SaidBy(role, words, calls, kinds) =
        IF role \in System THEN IF Pictured(Target, kinds) THEN shown ELSE << >>
        ELSE Cat(shown, done)
  BY DEF SaidBy
<1> HIDE DEF shown, done
<1>8. Cat(shown, << >>) = shown /\ Cat(<< >>, << >>) = << >>
  BY <1>5, CatFacts
<1>9. CASE role \in System
  <2>1. calls = << >>
    BY <1>9 DEF Sayable, System
  <2>2. QED
    BY <1>4, <1>6, <1>7, <1>8, <1>9, <2>1 DEF done
<1>10. CASE role \notin System
  BY <1>6, <1>7, <1>8, <1>10 DEF done
<1>11. QED
  BY <1>9, <1>10

\* Of nothing there is nothing to place.
LEMMA NothingPlaced ==
  OfKind(<< >>, Placed) = << >>
<1>1. IsSeq(<< >>) /\ Len(<< >>) = 0
  BY CatFacts
<1>2. \A i \in 1 .. Len(<< >>) : << >>[i].kind \notin Placed
  BY <1>1
<1>3. QED
  BY <1>1, <1>2, NoneOfKind

\* InputItems carries the turn.
LEMMA ResponsesCarried ==
  ASSUME Target.dialect \in Dialects, ask.client = "Responses", NEW x, FineTurn(x)
  PROVE  Carried(x, InputItems(x))
<1> DEFINE parts == EachOf(Inline, x.items)
           rr == Results(parts)
           calls == Calls(parts)
           words == OfKind(Content(parts), Placed)
           aa == [k \in DOMAIN rr |-> ToolMessage([rr[k] EXCEPT !.parts = AsText(@)])]
           tt == EachOf(ToolMessage, rr)
           cc == IF Content(parts) = << >> THEN << >> ELSE <<Message(x.role, words, << >>)>>
           bb == [k \in DOMAIN calls |-> Message("assistant", << >>, <<calls[k]>>)]
<1>1. Taken(x, parts)
  BY TakenInline
<1>2. IsSeq(rr) /\ \A k \in 1 .. Len(rr) : FineResult(rr[k])
  BY <1>1, ResultsFine
<1>3. IsSeq(tt) /\ Len(tt) = Len(rr) /\ \A k \in 1 .. Len(tt) : tt[k] = ToolMessage(rr[k])
  BY <1>2, ToolMessages
<1>4. InputItems(x) = Cat(Cat(aa, cc), bb)
  BY DEF InputItems, Cat, EachOf, InputPart, Placed
<1>5. aa = tt
  <2>1. DOMAIN rr = 1 .. Len(rr)
    BY <1>2, SeqFacts
  <2>2. \A k \in DOMAIN rr : [rr[k] EXCEPT !.parts = AsText(@)] = rr[k]
    BY <1>2, <2>1, PartsKept
  <2> HIDE DEF rr
  <2>3. QED
    BY <2>2 DEF EachOf
<1>6. {"text"} \in Quartet
  BY DEF Quartet
<1>7. Doings(calls) /\ (calls # << >> => x.role = "assistant")
  BY <1>1, <1>6, CallsSide
<1>8. Speech(words)
  BY <1>1, <1>6, WordsSide
<1>9. Sayable(x.role, words, calls) /\ Sayable(x.role, words, << >>)
  <2>1. IsSeq(<< >>) /\ Len(<< >>) = 0
    BY CatFacts
  <2>2. Doings(<< >>)
    BY <2>1 DEF Doings
  <2>3. QED
    BY <1>7, <1>8, <2>2 DEF Sayable, FineTurn
<1>10. /\ IsSeq(bb) /\ Len(bb) = Len(calls)
       /\ \A k \in 1 .. Len(calls) : bb[k] = Message("assistant", << >>, <<calls[k]>>)
  <2>1. Len(calls) \in Nat /\ DOMAIN calls = 1 .. Len(calls)
    BY <1>7, SeqFacts DEF Doings
  <2> HIDE DEF calls
  <2>2. /\ bb = [k \in 1 .. Len(calls) |-> bb[k]]
        /\ \A k \in 1 .. Len(calls) : bb[k] = Message("assistant", << >>, <<calls[k]>>)
    BY <2>1
  <2> HIDE DEF bb
  <2>3. QED
    BY <2>1, <2>2, FamilySeq
<1>11. Content(parts) = << >> => words = << >>
  BY NothingPlaced
<1>12. cc = <<Message(x.role, words, << >>)>> \/ (cc = << >> /\ words = << >>)
  BY <1>11
<1> HIDE DEF aa, bb, cc, tt, words
<1>13. ASSUME NEW kinds \in Quartet
       PROVE  /\ Worded(Cat(cc, bb))
              /\ GivenAll(Cat(cc, bb), kinds) = SaidBy(x.role, words, calls, kinds)
  <2>1. Worded(bb) /\ GivenAll(bb, kinds) = Marks(calls, kinds)
    BY <1>7, <1>10, CalledSay
  <2>2. Worded(cc) /\ GivenAll(cc, kinds) = SaidBy(x.role, words, << >>, kinds)
    <3>1. CASE cc = <<Message(x.role, words, << >>)>>
      BY <1>9, <3>1, SayableMessage
    <3>2. CASE cc = << >> /\ words = << >>
      <4>1. Worded(<< >>) /\ GivenAll(<< >>, kinds) = << >>
        BY GivenJoined
      <4>2. SaidBy(x.role, << >>, << >>, kinds) = << >>
        BY NothingSaid
      <4>3. QED
        BY <3>2, <4>1, <4>2
    <3>3. QED
      BY <1>12, <3>1, <3>2
  <2>3. Worded(Cat(cc, bb)) /\ GivenAll(Cat(cc, bb), kinds) =
          Cat(GivenAll(cc, kinds), GivenAll(bb, kinds))
    BY <2>1, <2>2, GivenJoined
  <2>4. IsSeq(FlattenSeq(ByPart(Target, words, kinds)))
    <3>1. FlattenSeq(ByPart(Target, words, kinds)) = FlattenSeq(Only(x, kinds, Wordy))
      BY <1>1, WordsSide DEF words
    <3>2. QED
      BY <3>1, OnlyFacts
  <2>5. Cat(SaidBy(x.role, words, << >>, kinds), Marks(calls, kinds)) =
          SaidBy(x.role, words, calls, kinds)
    BY <1>9, <2>4, SaidThenCalled
  <2>6. QED
    BY <2>1, <2>2, <2>3, <2>5
<1>14. /\ Worded(Cat(cc, bb))
       /\ \A kinds \in Quartet :
            GivenAll(Cat(cc, bb), kinds) =
              SaidBy(x.role, OfKind(Content(parts), Placed), Calls(parts), kinds)
  BY <1>6, <1>13 DEF words
<1>15. Tools(parts, tt)
  BY <1>1, <1>3, ToolsOf DEF rr
<1> HIDE DEF parts
<1>16. Carried(x, Cat(tt, Cat(cc, bb)))
  BY <1>1, <1>14, <1>15, TurnCarried
<1>17. IsSeq(tt) /\ IsSeq(cc) /\ IsSeq(bb)
  <2>1. IsSeq(cc)
    BY <1>12, Singleton, CatFacts
  <2>2. QED
    BY <1>3, <1>10, <2>1
<1>18. Cat(Cat(tt, cc), bb) = Cat(tt, Cat(cc, bb))
  BY <1>17, CatFacts
<1>19. QED
  BY <1>4, <1>5, <1>16, <1>18

-----------------------------------------------------------------------------
(* Calls, results and roles of a turn's messages *)

\* The messages of the turn at k.
TurnOf(s, k) ==
  CASE ask.client = "OpenAi" -> OpenAiTurn(s[k])
    [] ask.client = "Anthropic" -> AnthropicTurn(s[k])
    [] ask.client = "Gemini" -> GeminiTurn(Items(SubSeq(s, 1, k - 1)), s[k])
    [] ask.client = "Responses" -> InputItems(s[k])
TurnsOf(s) == [k \in 1 .. Len(s) |-> TurnOf(s, k)]

\* Every message of a turn is the turn's, an answer to a call, or an assistant's.
Voiced(x, ms) ==
  \A l \in 1 .. Len(ms) : ms[l].role \in {"tool", "assistant", x.role}

\* A result answers by the id it has; a call is the item it was, and none is lost.
Paired(x, ms) ==
  /\ \A l \in 1 .. Len(ms) : ms[l].role = "tool" =>
       \E i \in 1 .. Len(x.items) :
         x.items[i].kind = "result" /\ x.items[i].id = ms[l].result.id
  /\ \A l \in 1 .. Len(ms) : \A c \in 1 .. Len(ms[l].calls) :
       \E i \in 1 .. Len(x.items) : x.items[i].kind = "call" /\ ms[l].calls[c] = x.items[i]
  /\ \A i \in 1 .. Len(x.items) : x.items[i].kind = "call" =>
       \E l \in 1 .. Len(ms) : \E c \in 1 .. Len(ms[l].calls) : ms[l].calls[c] = x.items[i]

\* Messages that are the results of a turn, and messages with the rest of it.
Responds(x, aa) ==
  /\ IsSeq(aa) /\ Len(aa) = Len(Results(x.items))
  /\ \A k \in 1 .. Len(aa) :
       aa[k].role = "tool" /\ aa[k].calls = << >> /\ aa[k].result.id = Results(x.items)[k].id
Proceeds(x, bb) ==
  /\ IsSeq(bb)
  /\ \A l \in 1 .. Len(bb) :
       /\ bb[l].role \in {"assistant", x.role}
       /\ \A c \in 1 .. Len(bb[l].calls) :
            \E i \in 1 .. Len(Calls(x.items)) : bb[l].calls[c] = Calls(x.items)[i]
  /\ \A i \in 1 .. Len(Calls(x.items)) :
       \E l \in 1 .. Len(bb) : \E c \in 1 .. Len(bb[l].calls) : bb[l].calls[c] = Calls(x.items)[i]

\* The results of a turn, and the rest: each call and each result is where it was.
LEMMA TurnPaired ==
  ASSUME NEW x, IsSeq(x.items), x.role # "tool", NEW aa, Responds(x, aa), NEW bb, Proceeds(x, bb)
  PROVE  Voiced(x, Cat(aa, bb)) /\ Paired(x, Cat(aa, bb))
<1> DEFINE ms == Cat(aa, bb)
           parts == x.items
           rr == Results(parts)
           cc == Calls(parts)
           Resulting(m) == \E i \in 1 .. Len(parts) :
                             parts[i].kind = "result" /\ parts[i].id = m.result.id
           Calling(call) == \E i \in 1 .. Len(parts) : parts[i].kind = "call" /\ call = parts[i]
<1>1. IsSeq(aa) /\ IsSeq(bb)
  BY DEF Responds, Proceeds
<1>2. /\ Len(ms) = Len(aa) + Len(bb)
      /\ \A i \in 1 .. Len(bb) : ms[Len(aa) + i] = bb[i]
      /\ \A l \in 1 .. Len(aa) + Len(bb) :
           \/ l \in 1 .. Len(aa) /\ ms[l] = aa[l]
           \/ l - Len(aa) \in 1 .. Len(bb) /\ ms[l] = bb[l - Len(aa)]
  BY <1>1, Joined DEF Cat
<1>3. Len(aa) \in Nat /\ Len(bb) \in Nat /\ Len(<< >>) = 0
  BY <1>1, SeqFacts
<1>4. ASSUME NEW k \in 1 .. Len(rr)
      PROVE  \E i \in 1 .. Len(parts) : parts[i].kind = "result" /\ rr[k] = parts[i]
  <2>1. rr[k].kind \in {"result"} /\ \E i \in 1 .. Len(parts) : rr[k] = parts[i]
    BY KindedFacts DEF Results
  <2> HIDE DEF rr, parts
  <2>2. QED
    BY <2>1
<1>5. ASSUME NEW k \in 1 .. Len(cc)
      PROVE  Calling(cc[k])
  <2>1. cc[k].kind \in {"call"} /\ \E i \in 1 .. Len(parts) : cc[k] = parts[i]
    BY KindedFacts DEF Calls
  <2> HIDE DEF cc, parts
  <2>2. QED
    BY <2>1
<1>6. ASSUME NEW i \in 1 .. Len(parts), parts[i].kind = "call"
      PROVE  \E k \in 1 .. Len(cc) : cc[k] = parts[i]
  <2>1. parts[i].kind \in {"call"}
    BY <1>6
  <2>2. QED
    BY <2>1, KindedFacts DEF Calls
<1>7. \A k \in 1 .. Len(aa) :
        k \in 1 .. Len(rr) /\ aa[k].role = "tool" /\ aa[k].calls = << >> /\ aa[k].result.id = rr[k].id
  BY DEF Responds
<1>8. /\ \A l \in 1 .. Len(bb) :
           /\ bb[l].role \in {"assistant", x.role}
           /\ \A c \in 1 .. Len(bb[l].calls) : \E i \in 1 .. Len(cc) : bb[l].calls[c] = cc[i]
      /\ \A i \in 1 .. Len(cc) :
           \E l \in 1 .. Len(bb) : \E c \in 1 .. Len(bb[l].calls) : bb[l].calls[c] = cc[i]
  BY DEF Proceeds
<1> HIDE DEF ms, rr, cc, parts
<1>9. ASSUME NEW l \in 1 .. Len(ms)
      PROVE  /\ ms[l].role \in {"tool", "assistant", x.role}
             /\ ms[l].role = "tool" => Resulting(ms[l])
             /\ \A c \in 1 .. Len(ms[l].calls) : Calling(ms[l].calls[c])
  <2>1. CASE l \in 1 .. Len(aa) /\ ms[l] = aa[l]
    <3>1. /\ l \in 1 .. Len(rr) /\ ms[l].role = "tool" /\ ms[l].calls = << >>
          /\ ms[l].result.id = rr[l].id
      BY <1>7, <2>1
    <3>2. PICK i \in 1 .. Len(parts) : parts[i].kind = "result" /\ rr[l] = parts[i]
      BY <1>4, <3>1
    <3>3. Resulting(ms[l])
      BY <3>1, <3>2
    <3>4. QED
      BY <1>3, <3>1, <3>3
  <2>2. CASE l - Len(aa) \in 1 .. Len(bb) /\ ms[l] = bb[l - Len(aa)]
    <3> DEFINE j == l - Len(aa)
    <3>1. j \in 1 .. Len(bb) /\ ms[l] = bb[j]
      BY <2>2
    <3> HIDE DEF j, Calling
    <3>2. ms[l].role \in {"assistant", x.role}
      BY <1>8, <3>1
    <3>3. ASSUME NEW c \in 1 .. Len(ms[l].calls)
          PROVE  Calling(ms[l].calls[c])
      <4>1. PICK i \in 1 .. Len(cc) : ms[l].calls[c] = cc[i]
        BY <1>8, <3>1, SMTT(30)
      <4>2. Calling(cc[i])
        BY <1>5
      <4>3. QED
        BY <4>1, <4>2
    <3>4. QED
      BY <3>2, <3>3
  <2>3. QED
    BY <1>2, <2>1, <2>2
<1>10. ASSUME NEW i \in 1 .. Len(parts), parts[i].kind = "call"
       PROVE  \E l \in 1 .. Len(ms) : \E c \in 1 .. Len(ms[l].calls) : ms[l].calls[c] = parts[i]
  <2>1. PICK k \in 1 .. Len(cc) : cc[k] = parts[i]
    BY <1>6, <1>10
  <2>2. PICK l \in 1 .. Len(bb) : \E c \in 1 .. Len(bb[l].calls) : bb[l].calls[c] = cc[k]
    BY <1>8
  <2>3. Len(aa) + l \in 1 .. Len(ms) /\ ms[Len(aa) + l] = bb[l]
    BY <1>2, <1>3
  <2>4. PICK c \in 1 .. Len(bb[l].calls) : bb[l].calls[c] = cc[k]
    BY <2>2
  <2> DEFINE o == Len(aa) + l
  <2>5. o \in 1 .. Len(ms) /\ ms[o] = bb[l]
    BY <2>3
  <2> HIDE DEF o
  <2>6. c \in 1 .. Len(ms[o].calls) /\ ms[o].calls[c] = parts[i]
    BY <2>1, <2>4, <2>5
  <2>7. QED
    BY <2>5, <2>6
<1>11. QED
  BY <1>9, <1>10 DEF Voiced, Paired, ms, parts

\* The answers to the results of a turn, id by id.
LEMMA ToolsRespond ==
  ASSUME NEW x, NEW aa, IsSeq(aa), Len(aa) = Len(Results(x.items)),
         \A k \in 1 .. Len(aa) : aa[k] = ToolMessage(Results(x.items)[k])
  PROVE  Responds(x, aa)
<1>1. ASSUME NEW r
      PROVE  /\ ToolMessage(r).role = "tool" /\ ToolMessage(r).calls = << >>
             /\ ToolMessage(r).result = r
  BY DEF ToolMessage, Message
<1>2. QED
  BY <1>1 DEF Responds

\* The rest of a turn in one message, or in none if it has no call.
LEMMA RestProceeds ==
  ASSUME NEW x, NEW words, NEW bb,
         \/ bb = <<Message(x.role, words, Calls(x.items))>>
         \/ bb = << >> /\ Calls(x.items) = << >>
  PROVE  Proceeds(x, bb)
<1> DEFINE cc == Calls(x.items)
           m == Message(x.role, words, cc)
<1>1. m.role = x.role /\ m.calls = cc
  BY DEF Message
<1>2. IsSeq(<<m>>) /\ Len(<<m>>) = 1 /\ <<m>>[1] = m
  BY Singleton
<1>3. IsSeq(<< >>) /\ Len(<< >>) = 0
  BY CatFacts
<1> HIDE DEF m
<1>4. CASE bb = <<m>>
  <2>1. IsSeq(bb) /\ Len(bb) = 1 /\ bb[1] = m
    BY <1>2, <1>4
  <2>2. ASSUME NEW l \in 1 .. Len(bb)
        PROVE  bb[l] = m
    BY <2>1
  <2>3. 1 \in 1 .. Len(bb)
    BY <2>1
  <2> HIDE DEF cc
  <2>4. \A l \in 1 .. Len(bb) :
           /\ bb[l].role \in {"assistant", x.role}
           /\ \A c \in 1 .. Len(bb[l].calls) : \E i \in 1 .. Len(cc) : bb[l].calls[c] = cc[i]
    BY <1>1, <2>2
  <2>5. \A i \in 1 .. Len(cc) :
           \E l \in 1 .. Len(bb) : \E c \in 1 .. Len(bb[l].calls) : bb[l].calls[c] = cc[i]
    <3>1. \A i \in 1 .. Len(cc) : i \in 1 .. Len(bb[1].calls) /\ bb[1].calls[i] = cc[i]
      BY <1>1, <2>1
    <3>2. QED
      BY <2>3, <3>1
  <2>6. QED
    BY <2>1, <2>4, <2>5 DEF Proceeds, cc
<1>5. CASE bb = << >> /\ cc = << >>
  <2> HIDE DEF cc
  <2>1. IsSeq(bb) /\ Len(bb) = 0 /\ Len(cc) = 0
    BY <1>3, <1>5
  <2>2. \A i \in 1 .. 0 : FALSE
    OBVIOUS
  <2>3. QED
    BY <2>1, <2>2 DEF Proceeds, cc
<1>6. QED
  BY <1>4, <1>5 DEF m, cc

\* OpenAiTurn: by voice, and id by id.
LEMMA OpenAiPaired ==
  ASSUME ask.client = "OpenAi", NEW x, FineTurn(x)
  PROVE  Voiced(x, OpenAiTurn(x)) /\ Paired(x, OpenAiTurn(x))
<1> DEFINE parts == x.items
           rr == Results(parts)
           aa == EachOf(ToolMessage, rr)
           rest == Message(x.role, Content(parts), Calls(parts))
           bb == IF x.role = "assistant" \/ rest.content # << >> THEN <<rest>> ELSE << >>
<1>1. Taken(x, parts) /\ IsSeq(parts) /\ x.role # "tool"
  BY TakenAsIs DEF Taken, FineTurn, System
<1>2. IsSeq(rr)
  BY <1>1, ResultsFine
<1>3. IsSeq(aa) /\ Len(aa) = Len(rr) /\ \A k \in 1 .. Len(aa) : aa[k] = ToolMessage(rr[k])
  BY <1>2, ToolMessages
<1>4. OpenAiTurn(x) = Cat(aa, bb)
  BY DEF OpenAiTurn, Cat
<1>5. Calls(parts) # << >> => x.role = "assistant"
  <2> SUFFICES ASSUME x.role # "assistant"
               PROVE  Calls(parts) = << >>
    OBVIOUS
  <2>1. \A i \in 1 .. Len(parts) : parts[i].kind \notin {"call"}
    BY DEF FineTurn
  <2>2. QED
    BY <1>1, <2>1, NoneOfKind DEF Calls
<1>6. bb = <<rest>> \/ (bb = << >> /\ Calls(parts) = << >>)
  BY <1>5
<1> HIDE DEF aa, bb
<1>7. Responds(x, aa)
  BY <1>3, ToolsRespond
<1>8. Proceeds(x, bb)
  BY <1>6, RestProceeds
<1>9. QED
  BY <1>1, <1>4, <1>7, <1>8, TurnPaired

\* AnthropicTurn: by voice, and id by id.
LEMMA AnthropicPaired ==
  ASSUME ask.client = "Anthropic", NEW x, FineTurn(x)
  PROVE  Voiced(x, AnthropicTurn(x)) /\ Paired(x, AnthropicTurn(x))
<1> DEFINE parts == x.items
           rr == Results(parts)
           aa == [k \in DOMAIN rr |-> ToolMessage([rr[k] EXCEPT !.parts = ResultParts(@)])]
           tt == EachOf(ToolMessage, rr)
           rest == Message(x.role, Content(parts), Calls(parts))
           bb == IF rest.content = << >> /\ rest.calls = << >> THEN << >> ELSE <<rest>>
<1>1. Taken(x, parts) /\ IsSeq(parts) /\ x.role # "tool"
  BY TakenAsIs DEF Taken, FineTurn, System
<1>2. IsSeq(rr) /\ \A k \in 1 .. Len(rr) : FineResult(rr[k])
  BY <1>1, ResultsFine
<1>3. IsSeq(tt) /\ Len(tt) = Len(rr) /\ \A k \in 1 .. Len(tt) : tt[k] = ToolMessage(rr[k])
  BY <1>2, ToolMessages
<1>4. AnthropicTurn(x) = Cat(aa, bb)
  BY DEF AnthropicTurn, Cat, EachOf
<1>5. rest.calls = Calls(parts)
  BY DEF Message
<1>6. bb = <<rest>> \/ (bb = << >> /\ Calls(parts) = << >>)
  BY <1>5
<1>7. aa = tt
  <2>1. DOMAIN rr = 1 .. Len(rr)
    BY <1>2, SeqFacts
  <2>2. \A k \in DOMAIN rr : [rr[k] EXCEPT !.parts = ResultParts(@)] = rr[k]
    BY <1>2, <2>1, PartsKept
  <2> HIDE DEF rr
  <2>3. QED
    BY <2>2 DEF EachOf
<1> HIDE DEF aa, bb, tt
<1>8. Responds(x, tt)
  BY <1>3, ToolsRespond
<1>9. Proceeds(x, bb)
  BY <1>6, RestProceeds
<1>10. QED
  BY <1>1, <1>4, <1>7, <1>8, <1>9, TurnPaired

\* Calls and results are the same where documents by reference are sent empty.
LEMMA InlinePaired ==
  ASSUME NEW x, IsSeq(x.items), \A i \in 1 .. Len(x.items) : FineItem(x.items[i]),
         NEW y, y.role = x.role, y.items = EachOf(Inline, x.items), NEW ms,
         Voiced(y, ms), Paired(y, ms)
  PROVE  Voiced(x, ms) /\ Paired(x, ms)
<1> DEFINE s == x.items
           parts == y.items
<1>1. Len(parts) = Len(s) /\ \A i \in 1 .. Len(s) : parts[i] = Inline(s[i])
  BY InlineEach
<1>2. \A i \in 1 .. Len(s) : IsItem(s[i])
  BY DEF FineItem
<1>3. ASSUME NEW i \in 1 .. Len(s)
      PROVE  /\ parts[i].kind = s[i].kind /\ parts[i].id = s[i].id
             /\ s[i].kind = "call" => parts[i] = s[i]
  <2> DEFINE p == s[i]
  <2>1. IsItem(p) /\ parts[i] = Inline(p)
    BY <1>1, <1>2
  <2> HIDE DEF p
  <2>2. Inline(p).kind = p.kind /\ Inline(p).id = p.id /\ (p.kind # "file" => Inline(p) = p)
    BY <2>1, InlineFacts
  <2>3. QED
    BY <2>1, <2>2 DEF p
<1>4. Voiced(x, ms)
  BY DEF Voiced
<1>5. /\ \A l \in 1 .. Len(ms) : ms[l].role = "tool" =>
           \E i \in 1 .. Len(parts) : parts[i].kind = "result" /\ parts[i].id = ms[l].result.id
      /\ \A l \in 1 .. Len(ms) : \A c \in 1 .. Len(ms[l].calls) :
           \E i \in 1 .. Len(parts) : parts[i].kind = "call" /\ ms[l].calls[c] = parts[i]
      /\ \A i \in 1 .. Len(parts) : parts[i].kind = "call" =>
           \E l \in 1 .. Len(ms) : \E c \in 1 .. Len(ms[l].calls) : ms[l].calls[c] = parts[i]
  BY DEF Paired
<1> HIDE DEF parts, s
<1>6. /\ \A l \in 1 .. Len(ms) : ms[l].role = "tool" =>
           \E i \in 1 .. Len(s) : s[i].kind = "result" /\ s[i].id = ms[l].result.id
      /\ \A l \in 1 .. Len(ms) : \A c \in 1 .. Len(ms[l].calls) :
           \E i \in 1 .. Len(s) : s[i].kind = "call" /\ ms[l].calls[c] = s[i]
      /\ \A i \in 1 .. Len(s) : s[i].kind = "call" =>
           \E l \in 1 .. Len(ms) : \E c \in 1 .. Len(ms[l].calls) : ms[l].calls[c] = s[i]
  <2>1. ASSUME NEW l \in 1 .. Len(ms), ms[l].role = "tool"
        PROVE  \E i \in 1 .. Len(s) : s[i].kind = "result" /\ s[i].id = ms[l].result.id
    BY <1>1, <1>3, <1>5, <2>1
  <2>2. ASSUME NEW l \in 1 .. Len(ms), NEW c \in 1 .. Len(ms[l].calls)
        PROVE  \E i \in 1 .. Len(s) : s[i].kind = "call" /\ ms[l].calls[c] = s[i]
    <3>1. PICK i \in 1 .. Len(parts) : parts[i].kind = "call" /\ ms[l].calls[c] = parts[i]
      BY <1>5
    <3>2. i \in 1 .. Len(s) /\ s[i].kind = "call" /\ parts[i] = s[i]
      BY <1>1, <1>3, <3>1
    <3>3. QED
      BY <3>1, <3>2
  <2>3. ASSUME NEW i \in 1 .. Len(s), s[i].kind = "call"
        PROVE  \E l \in 1 .. Len(ms) : \E c \in 1 .. Len(ms[l].calls) : ms[l].calls[c] = s[i]
    <3>1. i \in 1 .. Len(parts) /\ parts[i].kind = "call" /\ parts[i] = s[i]
      BY <1>1, <1>3, <2>3
    <3>2. QED
      BY <1>5, <3>1
  <2>4. QED
    BY <2>1, <2>2, <2>3
<1>7. QED
  BY <1>4, <1>6 DEF Paired, s

\* InputItems: by voice, and id by id.
LEMMA ResponsesPaired ==
  ASSUME ask.client = "Responses", NEW x, FineTurn(x)
  PROVE  Voiced(x, InputItems(x)) /\ Paired(x, InputItems(x))
<1> DEFINE parts == EachOf(Inline, x.items)
           y == [role |-> x.role, items |-> parts]
           rr == Results(parts)
           calls == Calls(parts)
           words == InputPart(Content(parts))
           aa == [k \in DOMAIN rr |-> ToolMessage([rr[k] EXCEPT !.parts = AsText(@)])]
           tt == EachOf(ToolMessage, rr)
           cc == IF Content(parts) = << >> THEN << >> ELSE <<Message(x.role, words, << >>)>>
           bb == [k \in DOMAIN calls |-> Message("assistant", << >>, <<calls[k]>>)]
<1>1. Taken(x, parts) /\ IsSeq(parts) /\ x.role # "tool"
  BY TakenInline DEF Taken, FineTurn, System
<1>20. y.items = parts /\ y.role = x.role
  OBVIOUS
<1>2. IsSeq(rr) /\ \A k \in 1 .. Len(rr) : FineResult(rr[k])
  BY <1>1, ResultsFine
<1>3. IsSeq(tt) /\ Len(tt) = Len(rr) /\ \A k \in 1 .. Len(tt) : tt[k] = ToolMessage(rr[k])
  BY <1>2, ToolMessages
<1>4. InputItems(x) = Cat(Cat(aa, cc), bb)
  BY DEF InputItems, Cat, EachOf
<1>5. aa = tt
  <2>1. DOMAIN rr = 1 .. Len(rr)
    BY <1>2, SeqFacts
  <2>2. \A k \in DOMAIN rr : [rr[k] EXCEPT !.parts = AsText(@)] = rr[k]
    BY <1>2, <2>1, PartsKept
  <2> HIDE DEF rr
  <2>3. QED
    BY <2>2 DEF EachOf
<1>6. IsSeq(calls) /\ Len(calls) \in Nat /\ DOMAIN calls = 1 .. Len(calls)
  BY <1>1, KindedFacts, SeqFacts DEF Calls
<1>7. /\ IsSeq(bb) /\ Len(bb) = Len(calls)
      /\ \A k \in 1 .. Len(calls) : bb[k] = Message("assistant", << >>, <<calls[k]>>)
  <2> HIDE DEF calls
  <2>1. /\ bb = [k \in 1 .. Len(calls) |-> bb[k]]
        /\ \A k \in 1 .. Len(calls) : bb[k] = Message("assistant", << >>, <<calls[k]>>)
    BY <1>6
  <2> HIDE DEF bb
  <2>2. QED
    BY <1>6, <2>1, FamilySeq
<1>8. /\ IsSeq(cc) /\ Len(cc) \in Nat
      /\ \A l \in 1 .. Len(cc) : cc[l].role = x.role /\ cc[l].calls = << >>
  <2> DEFINE m == Message(x.role, words, << >>)
  <2>1. m.role = x.role /\ m.calls = << >>
    BY DEF Message
  <2>2. cc = << >> \/ cc = <<m>>
    OBVIOUS
  <2> HIDE DEF m, cc
  <2>3. CASE cc = << >>
    <3>1. IsSeq(cc) /\ Len(cc) = 0
      BY <2>3, CatFacts
    <3>2. QED
      BY <3>1
  <2>4. CASE cc = <<m>>
    <3>1. IsSeq(cc) /\ Len(cc) = 1 /\ cc[1] = m
      BY <2>4, Singleton
    <3>2. QED
      BY <2>1, <3>1
  <2>5. QED
    BY <2>2, <2>3, <2>4
<1> HIDE DEF aa, bb, cc, tt, y
<1> DEFINE dd == Cat(cc, bb)
<1>9. /\ IsSeq(dd) /\ Len(dd) = Len(cc) + Len(bb)
      /\ \A i \in 1 .. Len(bb) : dd[Len(cc) + i] = bb[i]
      /\ \A l \in 1 .. Len(cc) + Len(bb) :
           \/ l \in 1 .. Len(cc) /\ dd[l] = cc[l]
           \/ l - Len(cc) \in 1 .. Len(bb) /\ dd[l] = bb[l - Len(cc)]
  BY <1>7, <1>8, Joined DEF Cat
<1>10. ASSUME NEW k \in 1 .. Len(calls)
       PROVE  /\ bb[k].role = "assistant" /\ Len(bb[k].calls) = 1 /\ bb[k].calls[1] = calls[k]
  <2> DEFINE c == calls[k]
             one == <<c>>
             m == Message("assistant", << >>, one)
  <2>1. m.role = "assistant" /\ m.calls = one
    BY DEF Message
  <2>2. Len(one) = 1 /\ one[1] = c
    BY Singleton
  <2>3. bb[k] = m
    BY <1>7
  <2> HIDE DEF m, one, c
  <2>4. QED
    BY <2>1, <2>2, <2>3 DEF c
<1> HIDE DEF dd, calls
<1>11. ASSUME NEW l \in 1 .. Len(dd)
       PROVE  /\ dd[l].role \in {"assistant", x.role}
              /\ \A c \in 1 .. Len(dd[l].calls) : \E i \in 1 .. Len(calls) : dd[l].calls[c] = calls[i]
  <2>1. CASE l \in 1 .. Len(cc) /\ dd[l] = cc[l]
    <3>1. dd[l].role = x.role /\ dd[l].calls = << >>
      BY <1>8, <2>1
    <3>2. Len(<< >>) = 0 /\ \A c \in 1 .. 0 : FALSE
      OBVIOUS
    <3>3. QED
      BY <3>1, <3>2
  <2>2. CASE l - Len(cc) \in 1 .. Len(bb) /\ dd[l] = bb[l - Len(cc)]
    <3> DEFINE k == l - Len(cc)
    <3>1. k \in 1 .. Len(calls) /\ dd[l] = bb[k]
      BY <1>7, <2>2
    <3> HIDE DEF k
    <3>2. dd[l].role = "assistant" /\ Len(dd[l].calls) = 1 /\ dd[l].calls[1] = calls[k]
      BY <1>10, <3>1
    <3>3. QED
      BY <3>1, <3>2
  <2>3. QED
    BY <1>9, <2>1, <2>2
<1>12. ASSUME NEW i \in 1 .. Len(calls)
       PROVE  \E l \in 1 .. Len(dd) : \E c \in 1 .. Len(dd[l].calls) : dd[l].calls[c] = calls[i]
  <2> DEFINE l == Len(cc) + i
  <2>1. l \in 1 .. Len(dd) /\ dd[l] = bb[i]
    BY <1>6, <1>7, <1>8, <1>9
  <2> HIDE DEF l
  <2>2. 1 \in 1 .. Len(dd[l].calls) /\ dd[l].calls[1] = calls[i]
    BY <1>10, <2>1
  <2>3. QED
    BY <2>1, <2>2
<1>13. Proceeds(y, dd)
  BY <1>9, <1>11, <1>12, <1>20 DEF Proceeds, calls
<1>14. Responds(y, tt)
  BY <1>3, <1>20, ToolsRespond
<1>15. Voiced(y, Cat(tt, dd)) /\ Paired(y, Cat(tt, dd))
  BY <1>1, <1>13, <1>14, <1>20, TurnPaired
<1>16. Voiced(x, Cat(tt, dd)) /\ Paired(x, Cat(tt, dd))
  BY <1>15, <1>20, InlinePaired DEF FineTurn
<1>17. IsSeq(tt) /\ IsSeq(cc) /\ IsSeq(bb)
  BY <1>3, <1>7, <1>8
<1>18. Cat(Cat(tt, cc), bb) = Cat(tt, dd)
  BY <1>17, CatFacts DEF dd
<1>19. QED
  BY <1>4, <1>5, <1>16, <1>18

\* GeminiTurn: by voice.
LEMMA GeminiVoiced ==
  ASSUME ask.client = "Gemini", NEW x, FineTurn(x), NEW before
  PROVE  Voiced(x, GeminiTurn(before, x))
<1> DEFINE parts == [j \in DOMAIN x.items |->
                       GeminiPart(before \o SubSeq(x.items, 1, j - 1), x.items[j])]
           rr == Results(parts)
           aa == EachOf(ToolMessage, rr)
           rest == Message(x.role, Content(parts), Calls(parts))
           bb == IF rest.content = << >> /\ rest.calls = << >> THEN << >> ELSE <<rest>>
<1>1. GeminiTurn(before, x) = Cat(aa, bb)
  BY DEF GeminiTurn, Cat
<1>2. IsSeq(parts)
  <2>1. Len(x.items) \in Nat /\ DOMAIN x.items = 1 .. Len(x.items)
    BY SeqFacts DEF FineTurn
  <2>2. parts = [j \in 1 .. Len(x.items) |-> parts[j]]
    BY <2>1
  <2> HIDE DEF parts
  <2>3. QED
    BY <2>1, <2>2, FamilySeq
<1> HIDE DEF parts
<1>3. IsSeq(rr)
  BY <1>2, KindedFacts DEF Results
<1>4. IsSeq(aa) /\ \A k \in 1 .. Len(aa) : aa[k] = ToolMessage(rr[k])
  BY <1>3, ToolMessages
<1>5. \A k \in 1 .. Len(aa) : aa[k].role = "tool"
  BY <1>4 DEF ToolMessage, Message
<1>6. IsSeq(bb) /\ \A k \in 1 .. Len(bb) : bb[k].role = x.role
  <2>1. rest.role = x.role
    BY DEF Message
  <2>2. bb = << >> \/ bb = <<rest>>
    OBVIOUS
  <2> HIDE DEF rest, bb
  <2>3. CASE bb = << >>
    <3>1. IsSeq(bb) /\ Len(bb) = 0
      BY <2>3, CatFacts
    <3>2. QED
      BY <3>1
  <2>4. CASE bb = <<rest>>
    <3>1. IsSeq(bb) /\ Len(bb) = 1 /\ bb[1] = rest
      BY <2>4, Singleton
    <3>2. QED
      BY <2>1, <3>1
  <2>5. QED
    BY <2>2, <2>3, <2>4
<1> HIDE DEF aa, bb
<1> DEFINE ms == Cat(aa, bb)
<1>7. /\ Len(ms) = Len(aa) + Len(bb)
      /\ \A l \in 1 .. Len(aa) + Len(bb) :
           \/ l \in 1 .. Len(aa) /\ ms[l] = aa[l]
           \/ l - Len(aa) \in 1 .. Len(bb) /\ ms[l] = bb[l - Len(aa)]
  BY <1>4, <1>6, Joined DEF Cat
<1> HIDE DEF ms
<1>8. \A l \in 1 .. Len(ms) : ms[l].role \in {"tool", "assistant", x.role}
  BY <1>5, <1>6, <1>7
<1>9. QED
  BY <1>1, <1>8 DEF Voiced, ms

-----------------------------------------------------------------------------
(* The request of what has been said *)

\* Turn by turn, what is said is carried by the messages of the request.
Carries(s, ss) ==
  /\ IsSeq(ss) /\ Len(ss) = Len(s)
  /\ \A k \in 1 .. Len(s) : Carried(s[k], ss[k])
FineTalk(s) == IsSeq(s) /\ \A k \in 1 .. Len(s) : FineTurn(s[k])

\* The messages of a request are those it is made of.
LEMMA Messages ==
  ASSUME NEW messages
  PROVE  /\ ChatRequest(messages, ask).messages = messages
         /\ "messages" \in DOMAIN ChatRequest(messages, ask)
BY DEF ChatRequest

\* Messages that carry each turn carry them all.
LEMMA CarriesEach ==
  ASSUME Target.dialect \in Dialects, NEW s, FineTalk(s), NEW ss,
         ss = [k \in 1 .. Len(s) |-> ss[k]],
         \A k \in 1 .. Len(s) : FineTurn(s[k]) => Carried(s[k], ss[k])
  PROVE  Carries(s, ss)
<1>1. Len(s) \in Nat
  BY SeqFacts DEF FineTalk
<1>2. IsSeq(ss) /\ Len(ss) = Len(s)
  BY <1>1, FamilySeq
<1>3. QED
  BY <1>2 DEF Carries, FineTalk

\* request_to_internal: after the system message, the messages of turn after turn.
LEMMA RequestOfTurns ==
  ASSUME ask.client \in Surfaces, NEW s, FineTalk(s)
  PROVE  /\ RequestToInternal(ask, s).messages = Cat(SystemMessage(ask), FlattenSeq(TurnsOf(s)))
         /\ "messages" \in DOMAIN RequestToInternal(ask, s)
<1> DEFINE ss == TurnsOf(s)
           messages == SystemMessage(ask) \o FlattenSeq(ss)
           plain == ChatRequest(messages, ask)
<1>1. DOMAIN s = 1 .. Len(s)
  BY SeqFacts DEF FineTalk
<1>2. messages = Cat(SystemMessage(ask), FlattenSeq(ss))
  BY DEF Cat
<1>3. plain.messages = messages /\ "messages" \in DOMAIN plain
  BY Messages
<1>4. CASE ask.client = "OpenAi"
  <2>1. ss = EachOf(OpenAiTurn, s)
    BY <1>1, <1>4 DEF EachOf, TurnsOf, TurnOf
  <2>2. RequestToInternal(ask, s) = plain
    BY <1>4, <2>1 DEF RequestToInternal, OpenAiRequest
  <2> HIDE DEF plain, messages
  <2>3. QED
    BY <1>2, <1>3, <2>2
<1>5. CASE ask.client = "Anthropic"
  <2>1. ss = EachOf(AnthropicTurn, s)
    BY <1>1, <1>5 DEF EachOf, TurnsOf, TurnOf
  <2>2. RequestToInternal(ask, s) =
          [[[[plain EXCEPT !.choice = IF @ = "none" THEN None ELSE @]
             EXCEPT !.format = None] EXCEPT !.params = @ \cap Sampling] EXCEPT !.extra = {}]
    BY <1>5, <2>1 DEF RequestToInternal, AnthropicRequest
  <2> HIDE DEF plain, messages
  <2>3. QED
    BY <1>2, <1>3, <2>2
<1>6. CASE ask.client = "Gemini"
  <2>1. ss = [k \in DOMAIN s |-> GeminiTurn(Items(SubSeq(s, 1, k - 1)), s[k])]
    BY <1>1, <1>6 DEF TurnsOf, TurnOf
  <2>2. RequestToInternal(ask, s) =
          [[[[plain EXCEPT !.choice = IF @ \in Keywords THEN @ ELSE "required"]
             EXCEPT !.format = None] EXCEPT !.params = @ \cap (Sampling \cup {"n"})]
             EXCEPT !.extra = {}]
    BY <1>6, <2>1 DEF RequestToInternal, GeminiRequest
  <2> HIDE DEF plain, messages
  <2>3. QED
    BY <1>2, <1>3, <2>2
<1>7. CASE ask.client = "Responses"
  <2> DEFINE bad == ~(ask.builtins \subseteq {"web_search", "namespace"})
  <2>1. ss = EachOf(InputItems, s)
    BY <1>1, <1>7 DEF EachOf, TurnsOf, TurnOf
  <2> DEFINE left == ask.builtins
                       \cup (plain.extra \cap {"include", "metadata", "truncation", "service_tier"})
  <2> DEFINE chat == ChatRequest(SystemMessage(ask) \o FlattenSeq(EachOf(InputItems, s)), ask)
  <2>6. RequestToInternal(ask, s) =
          [[[[[chat EXCEPT !.format = IF @ = "text" THEN None ELSE @]
              EXCEPT !.params = @ \cap {"temperature", "top_p", "max_tokens", "parallel_tool_calls",
                                       "user"}]
              EXCEPT !.extra = @ \cap {"reasoning_effort"}]
              EXCEPT !.dropped = ask.builtins \cup
                (ask.extra \cap {"include", "metadata", "truncation", "service_tier"})]
              EXCEPT !.refused = bad]
    BY <1>7 DEF RequestToInternal, ResponsesRequest
  <2>7. chat = plain /\ plain.extra = ask.extra
    BY <2>1 DEF ChatRequest
  <2> HIDE DEF plain, messages, bad, chat
  <2>2. RequestToInternal(ask, s) =
          [[[[[plain EXCEPT !.format = IF @ = "text" THEN None ELSE @]
              EXCEPT !.params = @ \cap {"temperature", "top_p", "max_tokens", "parallel_tool_calls",
                                       "user"}]
              EXCEPT !.extra = @ \cap {"reasoning_effort"}]
              EXCEPT !.dropped = left] EXCEPT !.refused = bad]
    BY <2>6, <2>7
  <2> HIDE DEF left
  <2> DEFINE read ==
          [[[[plain EXCEPT !.format = IF @ = "text" THEN None ELSE @]
              EXCEPT !.params = @ \cap {"temperature", "top_p", "max_tokens", "parallel_tool_calls",
                                       "user"}]
              EXCEPT !.extra = @ \cap {"reasoning_effort"}]
              EXCEPT !.dropped = left]
  <2>3. read.messages = messages /\ "messages" \in DOMAIN read
    BY <1>3
  <2>4. RequestToInternal(ask, s) = [read EXCEPT !.refused = bad]
    BY <2>2
  <2> HIDE DEF read
  <2>5. QED
    BY <1>2, <2>3, <2>4
<1>8. QED
  BY <1>4, <1>5, <1>6, <1>7 DEF Surfaces

\* Each turn is carried by its messages, and has their voice; a client that gives ids
\* keeps them.
LEMMA TurnFaithful ==
  ASSUME Target.dialect \in Dialects, ask.client \in Surfaces, NEW s, NEW k, FineTurn(s[k])
  PROVE  LET ms == TurnOf(s, k)
         IN  /\ Carried(s[k], ms) /\ Voiced(s[k], ms)
             /\ ask.client # "Gemini" => Paired(s[k], ms)
<1> DEFINE ms == TurnOf(s, k)
           x == s[k]
           before == Items(SubSeq(s, 1, k - 1))
<1>1. CASE ask.client = "OpenAi"
  <2>1. ms = OpenAiTurn(x)
    BY <1>1 DEF TurnOf
  <2> HIDE DEF ms, x
  <2>2. QED
    BY <1>1, <2>1, OpenAiCarried, OpenAiPaired DEF ms, x
<1>2. CASE ask.client = "Anthropic"
  <2>1. ms = AnthropicTurn(x)
    BY <1>2 DEF TurnOf
  <2> HIDE DEF ms, x
  <2>2. QED
    BY <1>2, <2>1, AnthropicCarried, AnthropicPaired DEF ms, x
<1>3. CASE ask.client = "Gemini"
  <2>1. ms = GeminiTurn(before, x)
    BY <1>3 DEF TurnOf
  <2> HIDE DEF ms, x, before
  <2>2. QED
    BY <1>3, <2>1, GeminiCarried, GeminiVoiced DEF ms, x
<1>4. CASE ask.client = "Responses"
  <2>1. ms = InputItems(x)
    BY <1>4 DEF TurnOf
  <2> HIDE DEF ms, x
  <2>2. QED
    BY <1>4, <2>1, ResponsesCarried, ResponsesPaired DEF ms, x
<1>5. QED
  BY <1>1, <1>2, <1>3, <1>4 DEF Surfaces

\* The messages of the turns: they are a list each.
LEMMA TurnsCarried ==
  ASSUME Target.dialect \in Dialects, ask.client \in Surfaces, NEW s, FineTalk(s)
  PROVE  /\ Carries(s, TurnsOf(s)) /\ IsSeq(TurnsOf(s)) /\ Len(TurnsOf(s)) = Len(s)
         /\ \A k \in 1 .. Len(s) :
              /\ TurnsOf(s)[k] = TurnOf(s, k)
              /\ Worded(TurnsOf(s)[k]) /\ Voiced(s[k], TurnsOf(s)[k])
              /\ ask.client # "Gemini" => Paired(s[k], TurnsOf(s)[k])
<1> DEFINE ss == TurnsOf(s)
<1>1. ss = [k \in 1 .. Len(s) |-> ss[k]] /\ \A k \in 1 .. Len(s) : ss[k] = TurnOf(s, k)
  BY DEF TurnsOf
<1> HIDE DEF ss
<1>2. \A k \in 1 .. Len(s) : FineTurn(s[k])
  BY DEF FineTalk
<1>3. \A k \in 1 .. Len(s) :
         /\ Carried(s[k], ss[k]) /\ Voiced(s[k], ss[k])
         /\ ask.client # "Gemini" => Paired(s[k], ss[k])
  BY <1>1, <1>2, TurnFaithful
<1>4. Carries(s, ss)
  BY <1>1, <1>3, CarriesEach
<1>5. QED
  BY <1>1, <1>3, <1>4 DEF Carries, Carried, ss

\* A text is an item.
LEMMA TextFacts ==
  ASSUME NEW data
  PROVE  Text(data).kind = "text" /\ Text(data).data = data /\ IsItem(Text(data))
<1> DEFINE e == << >>
           r == FALSE
           a == Made(None, None, None, e, r, e, 0)
           b == Made("text", None, None, e, r, e, 0)
           c == Made("text", data, None, e, r, e, 0)
<1>1. Item = a
  BY DEF Item, Made
<1> HIDE DEF e, r
<1>2. [a EXCEPT !.kind = "text"] = b /\ [b EXCEPT !.data = data] = c
  BY DEF Made
<1>3. c.kind = "text" /\ c.data = data /\ IsItem(c)
  BY MadeFacts
<1> HIDE DEF a, b, c
<1>4. Text(data) = [[a EXCEPT !.kind = "text"] EXCEPT !.data = data]
  BY <1>1 DEF Text
<1>5. QED
  BY <1>2, <1>3, <1>4

\* The instructions say nothing of themselves.
LEMMA SystemSays ==
  ASSUME Target.dialect \in Dialects, NEW kinds \in Quartet
  PROVE  Worded(SystemMessage(ask)) /\ GivenAll(SystemMessage(ask), kinds) = << >>
<1> DEFINE t == Text(ask.system)
           c == <<t>>
           m == Message("system", c, << >>)
<1>1. t.kind = "text" /\ IsItem(t)
  BY TextFacts
<1> HIDE DEF t
<1>2. IsSeq(c) /\ Len(c) = 1 /\ c[1] = t /\ IsSeq(<< >>) /\ Len(<< >>) = 0
  BY Singleton, CatFacts
<1> HIDE DEF c
<1>3. Speech(c)
  BY <1>1, <1>2 DEF Speech
<1>4. Doings(<< >>)
  BY <1>2 DEF Doings
<1>5. Sayable("system", c, << >>)
  BY <1>3, <1>4 DEF Sayable, System
<1>6. Worded(<<m>>) /\ GivenAll(<<m>>, kinds) = SaidBy("system", c, << >>, kinds)
  BY <1>5, SayableMessage
<1>7. SaidBy("system", c, << >>, kinds) = << >>
  <2>1. CASE ~Pictured(Target, kinds)
    BY <2>1 DEF SaidBy, System
  <2>2. CASE Pictured(Target, kinds)
    <3>1. Piece(Target, t, kinds) = << >>
      BY <1>1, <2>2 DEF Piece, Pictured, Paged, Marked
    <3>2. ByPart(Target, c, kinds) = <<Piece(Target, c[1], kinds)>>
      BY <1>2 DEF ByPart
    <3>3. FlattenSeq(<<<< >>>>) = << >>
      BY <1>2, FlattenedEnds
    <3>4. FlattenSeq(ByPart(Target, c, kinds)) = << >>
      BY <1>2, <3>1, <3>2, <3>3
    <3>5. QED
      BY <2>2, <3>4 DEF SaidBy, System
  <2>3. QED
    BY <2>1, <2>2
<1>8. SystemMessage(ask) = << >> \/ SystemMessage(ask) = <<m>>
  BY DEF SystemMessage, m, c, t
<1> HIDE DEF m
<1>9. QED
  BY <1>6, <1>7, <1>8, GivenJoined

\* request_to_internal: the messages of a request give the target what is due of
\* the turns.
LEMMA RequestSays ==
  ASSUME Target.dialect \in Dialects, ask.client \in Surfaces, NEW s, FineTalk(s),
         NEW kinds \in Quartet
  PROVE  LET req == RequestToInternal(ask, s)
             shares == [k \in 1 .. Len(s) |-> Share(s[k], kinds)]
         IN  /\ Worded(req.messages) /\ "messages" \in DOMAIN req
             /\ GivenAll(req.messages, kinds) = FlattenSeq(shares)
<1> DEFINE req == RequestToInternal(ask, s)
           shares == [k \in 1 .. Len(s) |-> Share(s[k], kinds)]
           ss == TurnsOf(s)
<1>1. /\ Carries(s, ss) /\ req.messages = Cat(SystemMessage(ask), FlattenSeq(ss))
      /\ "messages" \in DOMAIN req
  BY TurnsCarried, RequestOfTurns
<1> HIDE DEF ss
<1>2. IsSeq(ss) /\ Len(ss) = Len(s) /\ \A i \in 1 .. Len(ss) : Worded(ss[i])
  BY <1>1 DEF Carries, Carried
<1> DEFINE given == [i \in 1 .. Len(ss) |-> GivenAll(ss[i], kinds)]
<1>3. Worded(FlattenSeq(ss)) /\ Lists(given) /\ GivenAll(FlattenSeq(ss), kinds) = FlattenSeq(given)
  BY <1>2, GivenFlat
<1>4. \A k \in 1 .. Len(s) : GivenAll(ss[k], kinds) = Share(s[k], kinds)
  BY <1>1 DEF Carries, Carried
<1>5. given = shares
  BY <1>2, <1>4
<1>6. Worded(SystemMessage(ask)) /\ GivenAll(SystemMessage(ask), kinds) = << >>
  BY SystemSays
<1>7. IsSeq(FlattenSeq(given))
  BY <1>3, FlattenedSeq
<1> HIDE DEF given, shares
<1>8. /\ Worded(Cat(SystemMessage(ask), FlattenSeq(ss)))
      /\ GivenAll(Cat(SystemMessage(ask), FlattenSeq(ss)), kinds)
           = Cat(GivenAll(SystemMessage(ask), kinds), GivenAll(FlattenSeq(ss), kinds))
  BY <1>3, <1>6, GivenJoined
<1>9. Cat(<< >>, FlattenSeq(given)) = FlattenSeq(given)
  BY <1>7, CatFacts
<1> HIDE DEF req
<1>10. Worded(req.messages) /\ "messages" \in DOMAIN req
         /\ GivenAll(req.messages, kinds) = FlattenSeq(shares)
  BY <1>1, <1>3, <1>5, <1>6, <1>8, <1>9
<1>11. QED
  BY <1>10 DEF req, shares

-----------------------------------------------------------------------------
(* The request as the target is given it *)

FitFor(t, req) == IF NeedsImages(t, req) THEN RasterizeRequest(req) ELSE req

\* RasterizeRequest renders every message.
LEMMA Rasterized ==
  ASSUME NEW req, "messages" \in DOMAIN req, Worded(req.messages)
  PROVE  RasterizeRequest(req).messages =
           [j \in 1 .. Len(req.messages) |-> [req.messages[j] EXCEPT !.content = EachOf(Paged, @)]]
<1> DEFINE ms == req.messages
           Page(part) == IF part.kind = "file" THEN [part EXCEPT !.kind = "image"] ELSE part
           out == EachOf(LAMBDA m : [m EXCEPT !.content = EachOf(Page, @)], ms)
<1>1. DOMAIN ms = 1 .. Len(ms)
  BY SeqFacts DEF Worded
<1>2. RasterizeRequest(req) = [[req EXCEPT !.messages = out] EXCEPT !.refused = @ \/ Unreadable(req)]
  BY DEF RasterizeRequest
<1>3. out = [j \in 1 .. Len(ms) |-> [ms[j] EXCEPT !.content = EachOf(Paged, @)]]
  BY <1>1 DEF EachOf, Paged
<1> HIDE DEF out
<1>4. RasterizeRequest(req).messages = out
  BY <1>2
<1>5. QED
  BY <1>3, <1>4

\* RasterizeRequest leaves a message without documents as it is.
LEMMA PlainPaged ==
  ASSUME NEW m, IsMessage(m), Plain(m.content)
  PROVE  [m EXCEPT !.content = EachOf(Paged, @)] = m
<1>1. EachOf(Paged, m.content) = m.content
  BY PagedFacts DEF IsMessage
<1>2. m = [role |-> m.role, content |-> m.content, calls |-> m.calls, result |-> m.result]
  BY DEF IsMessage
<1>3. [m EXCEPT !.content = m.content] = m
  <2> DEFINE r == m.role
             c == m.content
             d == m.calls
             s == m.result
             y == [role |-> r, content |-> c, calls |-> d, result |-> s]
  <2>1. m = y
    BY <1>2
  <2> HIDE DEF r, c, d, s
  <2>2. [y EXCEPT !.content = c] = y
    OBVIOUS
  <2> HIDE DEF y
  <2>3. [m EXCEPT !.content = c] = m
    BY <2>1, <2>2
  <2>4. QED
    BY <2>3 DEF c
<1>4. QED
  BY <1>1, <1>3

\* Whether its documents need be rendered or not, each message is the one that fits.
LEMMA FitMessages ==
  ASSUME NEW req, "messages" \in DOMAIN req, Worded(req.messages)
  PROVE  FitFor(Target, req).messages =
           [j \in 1 .. Len(req.messages) |-> Fitting(Target, req.messages[j])]
<1> DEFINE ms == req.messages
<1>1. IsSeq(ms) /\ \A j \in 1 .. Len(ms) : IsMessage(ms[j])
  BY DEF Worded
<1>2. ms = [j \in 1 .. Len(ms) |-> ms[j]] /\ DOMAIN ms = 1 .. Len(ms)
  BY <1>1, SeqFacts
<1>3. CASE NeedsImages(Target, req)
  <2>1. FitFor(Target, req) = RasterizeRequest(req) /\ Target.dialect = "Codex"
    BY <1>3 DEF FitFor, NeedsImages
  <2>2. QED
    BY <2>1, Rasterized DEF Fitting
<1>4. CASE ~NeedsImages(Target, req)
  <2>1. FitFor(Target, req).messages = ms
    BY <1>4 DEF FitFor
  <2>2. ASSUME NEW j \in 1 .. Len(ms)
        PROVE  Fitting(Target, ms[j]) = ms[j]
    <3>1. CASE Target.dialect # "Codex"
      BY <3>1 DEF Fitting
    <3>2. CASE Target.dialect = "Codex"
      <4> DEFINE m == ms[j]
      <4>1. OfKind(m.content, {"file"}) = << >>
        BY <1>2, <1>4, <3>2 DEF NeedsImages, HasDocuments
      <4>2. IsMessage(m) /\ IsSeq(m.content)
        BY <1>1 DEF IsMessage, Speech
      <4> HIDE DEF m
      <4>3. \A i \in 1 .. Len(m.content) : m.content[i].kind \in {"file"} =>
              \E k \in 1 .. Len(OfKind(m.content, {"file"})) :
                OfKind(m.content, {"file"})[k] = m.content[i]
        BY <4>2, KindedFacts
      <4>4. Len(<< >>) = 0
        OBVIOUS
      <4>5. Plain(m.content)
        BY <4>1, <4>3, <4>4 DEF Plain
      <4>6. Fitting(Target, m) = m
        BY <3>2, <4>2, <4>5, PlainPaged DEF Fitting
      <4>7. QED
        BY <4>6 DEF m
    <3>3. QED
      BY <3>1, <3>2
  <2> HIDE DEF ms
  <2>3. ms = [j \in 1 .. Len(ms) |-> Fitting(Target, ms[j])]
    BY <1>2, <2>2
  <2>4. QED
    BY <2>1, <2>3 DEF ms
<1>5. QED
  BY <1>3, <1>4

\* What a body says is what the target is given of the messages of the request.
LEMMA BodyGiven ==
  ASSUME Target.dialect \in Dialects, NEW req, "messages" \in DOMAIN req, Worded(req.messages),
         ~BuildOutbound(Target, FitFor(Target, req)).refused, NEW kinds \in Quartet
  PROVE  Marks(Blocks(BuildOutbound(Target, FitFor(Target, req)).turns), kinds) =
           GivenAll(req.messages, kinds)
<1> DEFINE ms == req.messages
           fit == FitFor(Target, req)
           fs == fit.messages
<1>1. /\ IsSeq(ms) /\ Len(ms) \in Nat
      /\ \A j \in 1 .. Len(ms) : IsMessage(ms[j]) /\ (ms[j].role = "tool" => Plain(ms[j].content))
  BY SeqFacts DEF Worded
<1>2. fs = [j \in 1 .. Len(ms) |-> Fitting(Target, ms[j])]
  BY FitMessages
<1> HIDE DEF ms, fs
<1>3. fs = [j \in 1 .. Len(ms) |-> fs[j]] /\ \A j \in 1 .. Len(ms) : fs[j] = Fitting(Target, ms[j])
  BY <1>2
<1>4. IsSeq(fs) /\ Len(fs) = Len(ms)
  BY <1>1, <1>3, FamilySeq
<1>5. ASSUME NEW j \in 1 .. Len(fs)
      PROVE  /\ IsMessage(fs[j])
             /\ Target.dialect = "Codex" =>
                  \A i \in 1 .. Len(fs[j].content) : fs[j].content[i].kind # "file"
  BY <1>1, <1>3, <1>4, FittingFacts DEF Plain
<1> DEFINE sounds == [j \in 1 .. Len(fs) |-> Sounded(Target, fs[j], kinds)]
<1> HIDE DEF fit
<1>6. Marks(Blocks(BuildOutbound(Target, fit).turns), kinds) = FlattenSeq(sounds)
  <2>1. ~BuildOutbound(Target, fit).refused
    BY DEF fit
  <2>2. QED
    BY <1>4, <1>5, <2>1, BodySays DEF fs
<1>7. sounds = Telltale(ms, kinds)
  BY <1>3, <1>4 DEF Telltale, Given
<1> HIDE DEF sounds
<1>8. QED
  BY <1>6, <1>7 DEF GivenAll, ms, fit

\* A target that is sent a conversation, and does not refuse it, is sent all that can
\* reach it.
LEMMA SentSays ==
  ASSUME Target.dialect \in Dialects, ask.client \in Surfaces, FineTalk(said),
         ~BodyFor(Target, said).refused, NEW kinds \in Quartet
  PROVE  Marks(Blocks(BodyFor(Target, said).turns), kinds) = Marks(Reached, kinds)
<1> DEFINE req == RequestToInternal(ask, said)
           shares == [k \in 1 .. Len(said) |-> Share(said[k], kinds)]
           heard == [k \in 1 .. Len(said) |-> FlattenSeq(EachOf(Reach, Due(said[k])))]
           told == [k \in 1 .. Len(heard) |-> Marks(heard[k], kinds)]
<1>1. BodyFor(Target, said) = BuildOutbound(Target, FitFor(Target, req))
  BY DEF BodyFor, FitFor
<1>2. /\ Worded(req.messages) /\ "messages" \in DOMAIN req
      /\ GivenAll(req.messages, kinds) = FlattenSeq(shares)
  BY RequestSays
<1>3. Marks(Blocks(BodyFor(Target, said).turns), kinds) = FlattenSeq(shares)
  BY <1>1, <1>2, BodyGiven
<1>4. Len(said) \in Nat /\ DOMAIN said = 1 .. Len(said)
        /\ \A k \in 1 .. Len(said) : FineTurn(said[k])
  BY SeqFacts DEF FineTalk
<1>5. Reached = FlattenSeq(heard)
  BY <1>4 DEF Reached, EachOf
<1>6. Lists(heard) /\ Len(heard) = Len(said)
  <2>1. \A k \in 1 .. Len(said) : IsSeq(FlattenSeq(EachOf(Reach, Due(said[k]))))
    BY <1>4, TurnHeard
  <2>2. heard = [k \in 1 .. Len(said) |-> heard[k]] /\ \A k \in 1 .. Len(said) : IsSeq(heard[k])
    BY <2>1
  <2> HIDE DEF heard
  <2>3. QED
    BY <1>4, <2>2, FamilyLists
<1>7. told = shares
  BY <1>6 DEF Share
<1>8. kinds \in SUBSET Sorts
  BY QuartetFacts
<1> HIDE DEF heard, shares
<1>9. Marks(FlattenSeq(heard), kinds) = FlattenSeq(told)
  BY <1>6, <1>8, MarksFlat
<1>10. QED
  BY <1>3, <1>5, <1>7, <1>9

-----------------------------------------------------------------------------
(* What is said in a conversation *)

\* The request of what has been said.
Req == RequestToInternal(ask, said)

IInv ==
  /\ ask \in Asks /\ plan \in Plans /\ target \in 1 .. Len(plan)
  /\ pc \in {"idle", "routing", "sent", "refused", "failed"}
  /\ FineTalk(said)
  /\ internal \in {<< >>, <<Req>>} /\ rendered \in {<< >>, <<RasterizeRequest(Req)>>}
  /\ pc = "idle" => internal = << >> /\ rendered = << >> /\ said # << >>
  /\ Translated => internal = <<Req>> /\ sent = BodyFor(Target, said) /\ ~sent.refused

\* What a client may add is fit to be said.
LEMMA FineContents ==
  ASSUME NEW s \in Seq(Contents)
  PROVE  IsSeq(s) /\ \A i \in 1 .. Len(s) : FineItem(s[i]) /\ s[i].kind \in {"text"} \cup Media
<1>1. IsSeq(s) /\ \A i \in 1 .. Len(s) : s[i] \in Contents
  BY DEF IsSeq
<1>2. ASSUME NEW x \in Contents
      PROVE  FineItem(x) /\ x.kind \in {"text"} \cup Media
  <2>1. IsItem(x) /\ x.kind \in {"text"} \cup Media
    BY DEF Contents, IsItem
  <2>2. QED
    BY <2>1 DEF FineItem, Sorts, Media
<1>3. QED
  BY <1>1, <1>2

\* What a client may open with is fit to be said.
LEMMA FineOpening ==
  ASSUME NEW s \in Seq(Turns)
  PROVE  FineTalk(s)
<1>1. IsSeq(s) /\ \A k \in 1 .. Len(s) : s[k] \in Turns
  BY DEF IsSeq
<1>2. ASSUME NEW x \in Turns
      PROVE  FineTurn(x)
  <2>1. x.role \in {"user", "assistant"} \cup System /\ x.items \in Seq(Contents)
    BY DEF Turns
  <2>2. /\ IsSeq(x.items) /\ Len(x.items) \in Nat
        /\ \A i \in 1 .. Len(x.items) : FineItem(x.items[i])
             /\ x.items[i].kind \in {"text"} \cup Media
    BY <2>1, FineContents
  <2>3. \A i \in 1 .. Len(x.items) : x.items[i].kind # "call" /\ x.items[i].kind # "result"
    BY <2>2 DEF Media
  <2>4. \E n \in 0 .. Len(x.items) : \A i \in 1 .. Len(x.items) :
          x.items[i].kind = "result" <=> i <= n
    <3>1. 0 \in 0 .. Len(x.items) /\ \A i \in 1 .. Len(x.items) : ~(i <= 0)
      BY <2>2
    <3>2. QED
      BY <2>3, <3>1
  <2>5. QED
    BY <2>1, <2>2, <2>3, <2>4 DEF FineTurn
<1>3. QED
  BY <1>1, <1>2 DEF FineTalk

\* A conversation that is fit, and one turn more.
LEMMA FineAppended ==
  ASSUME NEW s, FineTalk(s), NEW x, FineTurn(x)
  PROVE  FineTalk(Append(s, x)) /\ Append(s, x) # << >>
<1>1. /\ IsSeq(s) /\ Len(s) \in Nat /\ \A k \in 1 .. Len(s) : FineTurn(s[k])
  BY SeqFacts DEF FineTalk
<1> DEFINE t == Append(s, x)
<1>2. /\ IsSeq(t) /\ Len(t) = Len(s) + 1 /\ t[Len(s) + 1] = x
      /\ \A i \in 1 .. Len(s) : t[i] = s[i]
  BY <1>1, Appended, ZenonT(30)
<1> HIDE DEF t
<1>3. ASSUME NEW k \in 1 .. Len(t)
      PROVE  FineTurn(t[k])
  <2>1. k \in 1 .. Len(s) \/ k = Len(s) + 1
    BY <1>1, <1>2
  <2>2. QED
    BY <1>1, <1>2, <2>1
<1>4. t # << >>
  <2>1. Len(<< >>) = 0
    OBVIOUS
  <2>2. QED
    BY <1>1, <1>2, <2>1
<1>5. QED
  BY <1>2, <1>3, <1>4 DEF FineTalk, t

WithId(x, v, w) == [x EXCEPT !.id = v, !.of = w]

\* Identified: a call that is given its id stays an item of its kind.
LEMMA Identify ==
  ASSUME NEW x, IsItem(x), NEW v, NEW w
  PROVE  IsItem(WithId(x, v, w)) /\ WithId(x, v, w).kind = x.kind
<1> DEFINE z == [x EXCEPT !.id = v]
           m == Made(x.kind, x.data, x.name, v, x.remote, x.parts, x.of)
           y == [z EXCEPT !.of = w]
<1>1. z = m
  BY Changed
<1>2. IsItem(m) /\ m.kind = x.kind
  BY MadeFacts
<1> HIDE DEF m
<1>3. WithId(x, v, w) = y
  BY DEF WithId
<1> HIDE DEF z
<1>4. IsItem(y) /\ y.kind = z.kind
  <2>1. IsItem(z)
    BY <1>1, <1>2
  <2>2. QED
    BY <2>1 DEF IsItem
<1>5. QED
  BY <1>1, <1>2, <1>3, <1>4

\* An answer, with the ids it is given.
LEMMA FineAnswer ==
  ASSUME NEW reply \in Seq(Outputs)
  PROVE  FineTurn([role |-> "assistant", items |-> Identified(reply)])
<1> DEFINE ii == Identified(reply)
           n == Len(reply)
<1>1. n \in Nat /\ DOMAIN reply = 1 .. n /\ \A i \in 1 .. n : reply[i] \in Outputs
  OBVIOUS
<1>2. /\ ii = [i \in 1 .. n |-> ii[i]]
      /\ \A i \in 1 .. n : ii[i] = reply[i] \/ \E v, w : ii[i] = WithId(reply[i], v, w)
  BY <1>1 DEF Identified, WithId
<1> HIDE DEF ii
<1>3. IsSeq(ii) /\ Len(ii) = n
  BY <1>1, <1>2, FamilySeq
<1>4. ASSUME NEW i \in 1 .. n
      PROVE  FineItem(ii[i]) /\ ii[i].kind # "result"
  <2> DEFINE y == reply[i]
  <2>1. IsItem(y) /\ y.kind \in {"text", "call"}
    <3>1. y \in Outputs
      BY <1>1
    <3> HIDE DEF y
    <3>2. QED
      BY <3>1 DEF Outputs, IsItem
  <2> HIDE DEF y
  <2>2. IsItem(ii[i]) /\ ii[i].kind \in {"text", "call"}
    <3>1. CASE ii[i] = y
      BY <2>1, <3>1
    <3>2. CASE \E v, w : ii[i] = WithId(y, v, w)
      <4>1. PICK v, w : ii[i] = WithId(y, v, w)
        BY <3>2
      <4>2. QED
        BY <2>1, <4>1, Identify
    <3>3. QED
      BY <1>2, <3>1, <3>2 DEF y
  <2>3. QED
    BY <2>2 DEF FineItem, Sorts
<1> DEFINE x == [role |-> "assistant", items |-> ii]
<1>5. x.role = "assistant" /\ x.items = ii
  OBVIOUS
<1> HIDE DEF x
<1>6. \E m \in 0 .. Len(x.items) : \A i \in 1 .. Len(x.items) :
        x.items[i].kind = "result" <=> i <= m
  <2>1. 0 \in 0 .. n /\ \A i \in 1 .. n : ~(i <= 0)
    BY <1>1
  <2>2. QED
    BY <1>3, <1>4, <1>5, <2>1
<1>7. FineTurn(x)
  BY <1>3, <1>4, <1>5, <1>6 DEF FineTurn
<1>8. QED
  BY <1>7 DEF x, ii

\* The result of a call: of the kind, with its words, and for an Anthropic client a picture.
LEMMA PictureFacts ==
  LET shot == [Item EXCEPT !.kind = "image", !.data = "shot"]
  IN  IsItem(shot) /\ shot.kind = "image"
<1> DEFINE e == << >>
           r == FALSE
           a == Made(None, None, None, e, r, e, 0)
           b == Made("image", None, None, e, r, e, 0)
           c == Made("image", "shot", None, e, r, e, 0)
<1>1. Item = a
  BY DEF Item, Made
<1> HIDE DEF e, r
<1>2. [a EXCEPT !.kind = "image"] = b /\ [b EXCEPT !.data = "shot"] = c
  BY DEF Made
<1>3. c.kind = "image" /\ IsItem(c)
  BY MadeFacts
<1> HIDE DEF a, b, c
<1>4. [Item EXCEPT !.kind = "image", !.data = "shot"] =
        [[a EXCEPT !.kind = "image"] EXCEPT !.data = "shot"]
  BY <1>1
<1>5. QED
  BY <1>2, <1>3, <1>4

\* ResultOf: the result a client gives is fit to be said.
LEMMA FineResultOf ==
  ASSUME NEW call, IsItem(call)
  PROVE  FineItem(ResultOf(call)) /\ ResultOf(call).kind = "result"
<1> DEFINE shot == [Item EXCEPT !.kind = "image", !.data = "shot"]
           word == Text("r")
           shown == IF ask.client = "Anthropic" THEN <<shot>> ELSE << >>
           p == <<word>> \o shown
           z == [call EXCEPT !.kind = "result"]
           y == [z EXCEPT !.data = None]
           m == Made("result", call.data, call.name, call.id, call.remote, call.parts, call.of)
<1>1. IsItem(word) /\ word.kind = "text" /\ IsItem(shot) /\ shot.kind = "image"
  BY TextFacts, PictureFacts
<1>2. ResultOf(call) = [call EXCEPT !.kind = "result", !.data = None, !.parts = p]
  BY DEF ResultOf
<1> HIDE DEF shot, word
<1>3. /\ IsSeq(p)
      /\ \A i \in 1 .. Len(p) : p[i] = word \/ (p[i] = shot /\ ask.client = "Anthropic")
  <2>1. IsSeq(<<word>>) /\ Len(<<word>>) = 1 /\ <<word>>[1] = word
    BY Singleton
  <2>2. IsSeq(shown) /\ \A i \in 1 .. Len(shown) : shown[i] = shot /\ ask.client = "Anthropic"
    <3>1. CASE ask.client = "Anthropic"
      <4>1. shown = <<shot>>
        BY <3>1
      <4>2. IsSeq(<<shot>>) /\ Len(<<shot>>) = 1 /\ <<shot>>[1] = shot
        BY Singleton
      <4> HIDE DEF shown
      <4>3. QED
        BY <3>1, <4>1, <4>2
    <3>2. CASE ask.client # "Anthropic"
      <4>1. shown = << >>
        BY <3>2
      <4>2. IsSeq(<< >>) /\ Len(<< >>) = 0
        BY CatFacts
      <4>3. QED
        BY <4>1, <4>2
    <3>3. QED
      BY <3>1, <3>2
  <2> DEFINE one == <<word>>
  <2> HIDE DEF shown, one
  <2>3. /\ IsSeq(one \o shown)
        /\ Len(one \o shown) = Len(one) + Len(shown)
        /\ \A i \in 1 .. Len(one) + Len(shown) :
             \/ i \in 1 .. Len(one) /\ (one \o shown)[i] = one[i]
             \/ i - Len(one) \in 1 .. Len(shown) /\ (one \o shown)[i] = shown[i - Len(one)]
    <3>1. IsSeq(one) /\ IsSeq(shown)
      BY <2>1, <2>2 DEF one
    <3>2. QED
      BY <3>1, Joined
  <2>4. p = one \o shown
    BY DEF one
  <2> HIDE DEF p
  <2>5. Len(one) = 1 /\ one[1] = word
    BY <2>1 DEF one
  <2>6. QED
    BY <2>2, <2>3, <2>4, <2>5
<1> HIDE DEF p
<1>4. Speech(p)
  BY <1>1, <1>3 DEF Speech, Media
<1>5. z = m
  BY Changed
<1>6. IsItem(m) /\ m.kind = "result"
  BY MadeFacts
<1> HIDE DEF m
<1>7. [call EXCEPT !.kind = "result", !.data = None, !.parts = p] = [y EXCEPT !.parts = p]
  OBVIOUS
<1> HIDE DEF z
<1>8. IsItem(y) /\ y.kind = "result"
  <2>1. IsItem(z) /\ z.kind = "result"
    BY <1>5, <1>6
  <2>2. QED
    BY <2>1 DEF IsItem
<1> HIDE DEF y
<1> DEFINE x == [y EXCEPT !.parts = p]
<1>9. IsItem(x) /\ x.kind = "result" /\ x.parts = p
  BY <1>8 DEF IsItem
<1> HIDE DEF x
<1>10. FineItem(x)
  BY <1>1, <1>3, <1>4, <1>9 DEF FineItem, Sorts
<1>11. ResultOf(call) = x
  BY <1>2, <1>7 DEF x
<1>12. QED
  BY <1>9, <1>10, <1>11

\* What a client says next: the results of the calls it was answered with, and more.
LEMMA FineNext ==
  ASSUME NEW last, FineTurn(last), NEW more \in Seq(Contents)
  PROVE  FineTurn([role |-> "user", items |-> EachOf(ResultOf, Calls(last.items)) \o more])
<1> DEFINE calls == Calls(last.items)
           results == EachOf(ResultOf, calls)
           items == results \o more
           x == [role |-> "user", items |-> items]
<1>1. IsSeq(last.items) /\ \A i \in 1 .. Len(last.items) : IsItem(last.items[i])
  BY DEF FineTurn, FineItem
<1>2. IsSeq(calls) /\ \A k \in 1 .. Len(calls) : IsItem(calls[k])
  <2>1. /\ IsSeq(calls)
        /\ \A k \in 1 .. Len(calls) : \E i \in 1 .. Len(last.items) : calls[k] = last.items[i]
    BY <1>1, KindedFacts DEF Calls
  <2> HIDE DEF calls
  <2>2. QED
    BY <1>1, <2>1
<1> HIDE DEF calls
<1>3. /\ IsSeq(results) /\ Len(results) = Len(calls)
      /\ \A k \in 1 .. Len(results) : FineItem(results[k]) /\ results[k].kind = "result"
  <2>1. Len(calls) \in Nat /\ DOMAIN calls = 1 .. Len(calls)
    BY <1>2, SeqFacts
  <2>2. results = [k \in 1 .. Len(calls) |-> ResultOf(calls[k])]
    BY <2>1 DEF EachOf
  <2>3. results = [k \in 1 .. Len(calls) |-> results[k]]
          /\ \A k \in 1 .. Len(calls) : results[k] = ResultOf(calls[k])
    BY <2>2
  <2> HIDE DEF results
  <2>4. IsSeq(results) /\ Len(results) = Len(calls)
    BY <2>1, <2>3, FamilySeq
  <2>5. QED
    BY <1>2, <2>3, <2>4, FineResultOf
<1>4. IsSeq(more) /\ \A i \in 1 .. Len(more) : FineItem(more[i])
        /\ more[i].kind \in {"text"} \cup Media
  BY FineContents
<1>5. Len(results) \in Nat /\ Len(more) \in Nat
  BY <1>3, <1>4, SeqFacts
<1> HIDE DEF results
<1>6. /\ IsSeq(items) /\ Len(items) = Len(results) + Len(more)
      /\ \A i \in 1 .. Len(results) + Len(more) :
           \/ i \in 1 .. Len(results) /\ items[i] = results[i]
           \/ i - Len(results) \in 1 .. Len(more) /\ items[i] = more[i - Len(results)]
  BY <1>3, <1>4, Joined
<1>7. x.role = "user" /\ x.items = items
  OBVIOUS
<1> HIDE DEF items, x
<1>8. ASSUME NEW i \in 1 .. Len(items)
      PROVE  FineItem(items[i]) /\ items[i].kind # "call"
               /\ (items[i].kind = "result" <=> i <= Len(results))
  <2>1. CASE i \in 1 .. Len(results) /\ items[i] = results[i]
    BY <1>3, <2>1
  <2>2. CASE i - Len(results) \in 1 .. Len(more) /\ items[i] = more[i - Len(results)]
    <3> DEFINE j == i - Len(results)
    <3>1. j \in 1 .. Len(more) /\ items[i] = more[j]
      BY <2>2
    <3>2. i \in Nat /\ ~(i <= Len(results))
      BY <1>5, <1>6, <2>2
    <3> HIDE DEF j
    <3>3. FineItem(items[i]) /\ items[i].kind \in {"text"} \cup Media
      BY <1>4, <3>1
    <3>4. QED
      BY <3>2, <3>3 DEF Media
  <2>3. QED
    BY <1>6, <2>1, <2>2
<1>9. Len(results) \in 0 .. Len(items)
  BY <1>5, <1>6
<1>10. FineTurn(x)
  BY <1>6, <1>7, <1>8, <1>9 DEF FineTurn
<1>11. QED
  BY <1>10 DEF x, items, results, calls

-----------------------------------------------------------------------------
(* The conversation *)

\* The target that is tried, and the surface, are of those there are.
LEMMA TargetFacts ==
  ASSUME IInv
  PROVE  Target.dialect \in Dialects /\ ask.client \in Surfaces
<1>1. plan \in Seq(Providers) /\ target \in 1 .. Len(plan)
  BY ConversationAssumption DEF ConversationAssumption, IInv
<1>2. Target \in Providers
  BY <1>1 DEF Target
<1>3. QED
  BY <1>2, ConversationAssumption DEF Providers, ConversationAssumption, IInv

\* What is cached is the request, and its rendering; what is built of them the body.
LEMMA Cached ==
  ASSUME IInv
  PROVE  /\ Parsed(internal, said) = Req
         /\ Rendered(rendered, Req) = RasterizeRequest(Req)
BY DEF IInv, Parsed, Rendered, Req

\* A client opens a conversation.
LEMMA ChatStart ==
  ASSUME Init
  PROVE  IInv
<1>1. said \in Seq(Turns)
  BY ConversationAssumption DEF ConversationAssumption, Init
<1>2. FineTalk(said)
  BY <1>1, FineOpening
<1>3. plan \in Plans /\ target \in 1 .. Len(plan)
  <2>1. plan \in Seq(Providers) /\ plan # << >> /\ target = 1
    BY ConversationAssumption DEF ConversationAssumption, Init
  <2>2. QED
    BY <2>1 DEF Init
<1>4. QED
  BY <1>2, <1>3 DEF Init, IInv, Translated

\* What is fine to the client stays so.
LEMMA FineStays ==
  ASSUME ask' = ask, FineTalk(said')
  PROVE  FineTalk(said)'
BY DEF FineTalk, FineTurn, FineItem

\* Every step keeps the invariant.
LEMMA ChatStep ==
  ASSUME IInv, [Next]_vars
  PROVE  IInv'
<1> USE DEF IInv
<1>1. CASE Relay
  <2>1. UNCHANGED <<ask, plan, said, target, internal, rendered>> /\ pc' = "sent" /\ Relays(Target)
    BY <1>1 DEF Relay
  <2>2. FineTalk(said)' /\ Req' = Req
    BY <2>1, FineStays DEF Req
  <2>3. ~Translated'
    BY <2>1 DEF Translated, Relays, RelaysResponses, Target
  <2>4. QED
    BY <2>1, <2>2, <2>3
<1>2. CASE Translate
  <2> DEFINE fit == FitFor(Target, Req)
             body == BuildOutbound(Target, fit)
  <2>1. /\ UNCHANGED <<ask, plan, said, target>> /\ pc' = "sent"
        /\ internal' = <<Req>> /\ sent' = body /\ ~body.refused
        /\ rendered' = IF NeedsImages(Target, Req) THEN <<fit>> ELSE rendered
    BY <1>2, Cached DEF Translate, FitFor
  <2>2. FineTalk(said)' /\ Req' = Req
    BY <2>1, FineStays DEF Req
  <2>3. NeedsImages(Target, Req) => fit = RasterizeRequest(Req)
    BY DEF FitFor
  <2>4. body = BodyFor(Target, said)
    BY DEF BodyFor, FitFor, Req
  <2>5. BodyFor(Target, said)' = BodyFor(Target, said)
    BY <2>1 DEF BodyFor, Target
  <2> HIDE DEF fit, body
  <2>6. sent' = BodyFor(Target, said)' /\ ~sent'.refused
    BY <2>1, <2>4, <2>5
  <2>7. rendered' \in {<< >>, <<RasterizeRequest(Req)>>}'
    BY <2>1, <2>2, <2>3
  <2>8. QED
    BY <2>1, <2>2, <2>6, <2>7
<1>3. CASE Refuse
  <2>1. UNCHANGED <<ask, plan, said, target, internal, rendered>> /\ pc' = "refused"
    BY <1>3 DEF Refuse
  <2>2. FineTalk(said)' /\ Req' = Req
    BY <2>1, FineStays DEF Req
  <2>3. ~Translated'
    BY <2>1 DEF Translated
  <2>4. QED
    BY <2>1, <2>2, <2>3
<1>4. CASE Advance
  <2>1. UNCHANGED <<ask, plan, said, internal, rendered>> /\ pc' \in {"routing", "failed"}
    BY <1>4 DEF Advance
  <2>2. target' \in 1 .. Len(plan)
    <3>1. plan \in Seq(Providers)
      BY ConversationAssumption DEF ConversationAssumption
    <3>2. QED
      BY <1>4, <3>1 DEF Advance
  <2>3. FineTalk(said)' /\ Req' = Req
    BY <2>1, FineStays DEF Req
  <2>4. ~Translated'
    BY <2>1 DEF Translated
  <2>5. QED
    BY <2>1, <2>2, <2>3, <2>4
<1>5. ASSUME NEW reply \in Replies, Answer(reply)
      PROVE  IInv'
  <2> DEFINE x == [role |-> "assistant", items |-> Identified(reply)]
  <2>1. /\ UNCHANGED <<ask, plan>> /\ pc' = "idle" /\ target' = 1
        /\ internal' = << >> /\ rendered' = << >> /\ said' = Append(said, x)
    BY <1>5 DEF Answer
  <2>2. FineTurn(x)
    BY <1>5, FineAnswer, ConversationAssumption DEF ConversationAssumption
  <2> HIDE DEF x
  <2>3. FineTalk(said') /\ said' # << >>
    BY <2>1, <2>2, FineAppended
  <2>4. FineTalk(said)'
    BY <2>1, <2>3, FineStays
  <2>5. target' \in 1 .. Len(plan)
    <3>1. plan \in Seq(Providers) /\ plan # << >>
      BY ConversationAssumption DEF ConversationAssumption
    <3>2. QED
      BY <2>1, <3>1
  <2>6. ~Translated'
    BY <2>1 DEF Translated
  <2>7. QED
    BY <2>1, <2>3, <2>4, <2>5, <2>6
<1>6. ASSUME NEW more \in FollowUps, Say(more)
      PROVE  IInv'
  <2> DEFINE x == [role |-> "user", items |-> EachOf(ResultOf, Calls(Last(said).items)) \o more]
  <2>1. /\ UNCHANGED <<ask, plan, target, internal, rendered, sent>>
        /\ pc = "idle" /\ pc' = "routing" /\ said' = Append(said, x)
    BY <1>6 DEF Say
  <2>2. FineTurn(Last(said))
    <3>1. IsSeq(said) /\ Len(said) \in Nat /\ Len(said) # 0
      BY <2>1, SeqFacts DEF FineTalk
    <3>2. QED
      BY <3>1 DEF FineTalk, Last
  <2>3. FineTurn(x)
    BY <1>6, <2>2, FineNext, ConversationAssumption DEF ConversationAssumption
  <2> HIDE DEF x
  <2>4. FineTalk(said')
    BY <2>1, <2>3, FineAppended
  <2>5. FineTalk(said)'
    BY <2>1, <2>4, FineStays
  <2>6. ~Translated'
    BY <2>1 DEF Translated
  <2>7. QED
    BY <2>1, <2>5, <2>6
<1>7. CASE UNCHANGED vars
  <2>1. UNCHANGED <<ask, plan, said, pc, target, internal, rendered, sent>>
    BY <1>7 DEF vars
  <2>2. FineTalk(said)' /\ Req' = Req
    BY <2>1, FineStays DEF Req
  <2>3. Translated' = Translated /\ BodyFor(Target, said)' = BodyFor(Target, said)
    BY <2>1 DEF Translated, Relays, RelaysResponses, Target, BodyFor
  <2>4. QED
    BY <2>1, <2>2, <2>3
<1>8. QED
  BY <1>1, <1>2, <1>3, <1>4, <1>5, <1>6, <1>7 DEF Next

\* The invariant has AllCarried.
LEMMA ChatCarried ==
  ASSUME IInv
  PROVE  AllCarried
<1> SUFFICES ASSUME Translated, NEW kinds \in Quartet
             PROVE  Marks(Blocks(sent.turns), kinds) = Marks(Reached, kinds)
  BY DEF AllCarried, Quartet
<1>1. Target.dialect \in Dialects /\ ask.client \in Surfaces
  BY TargetFacts
<1>2. FineTalk(said) /\ sent = BodyFor(Target, said) /\ ~BodyFor(Target, said).refused
  BY DEF IInv
<1>3. QED
  BY <1>1, <1>2, SentSays

\* A target that is sent a conversation is sent all of it but for what Reach names, in
\* order and once: what request_to_internal reads and translate_messages has a form for.
THEOREM AllCarriedHolds == Spec => []AllCarried
<1>1. Init => IInv
  BY ChatStart
<1>2. IInv /\ [Next]_vars => IInv'
  BY ChatStep
<1>3. IInv => AllCarried
  BY ChatCarried
<1>4. QED
  BY <1>1, <1>2, <1>3, PTL DEF Spec

-----------------------------------------------------------------------------
(* What of the settings a target is sent *)

IsRequest(r) ==
  r = [messages |-> r.messages, tools |-> r.tools, choice |-> r.choice, format |-> r.format,
       params |-> r.params, extra |-> r.extra, dropped |-> r.dropped, refused |-> r.refused]
\* What the caller set is in the request, or is told to be left out, or is not read.
Heeded == CASE ask.client = "OpenAi" -> ask.extra
            [] ask.client \in {"Anthropic", "Gemini"} -> {}
            [] ask.client = "Responses" -> ask.extra \cap {"reasoning_effort"}
Asked(r) == /\ IsRequest(r) /\ r.tools = ask.tools /\ r.params \subseteq ask.params
            /\ r.extra = Heeded
            /\ ask.params \cup ask.extra \subseteq r.params \cup r.extra \cup r.dropped \cup Unheard
Posed(messages, tools, choice, format, params, extra, dropped, refused) ==
  [messages |-> messages, tools |-> tools, choice |-> choice, format |-> format,
   params |-> params, extra |-> extra, dropped |-> dropped, refused |-> refused]

\* A request with one of its fields replaced.
LEMMA Reposed ==
  ASSUME NEW m, NEW n, NEW c, NEW f, NEW p, NEW e, NEW d, NEW w, NEW v
  PROVE  LET r == Posed(m, n, c, f, p, e, d, w)
         IN  /\ [r EXCEPT !.messages = v] = Posed(v, n, c, f, p, e, d, w)
             /\ [r EXCEPT !.choice = v] = Posed(m, n, v, f, p, e, d, w)
             /\ [r EXCEPT !.format = v] = Posed(m, n, c, v, p, e, d, w)
             /\ [r EXCEPT !.params = v] = Posed(m, n, c, f, v, e, d, w)
             /\ [r EXCEPT !.extra = v] = Posed(m, n, c, f, p, v, d, w)
             /\ [r EXCEPT !.dropped = v] = Posed(m, n, c, f, p, e, v, w)
             /\ [r EXCEPT !.refused = v] = Posed(m, n, c, f, p, e, d, v)
<1> DEFINE r == Posed(m, n, c, f, p, e, d, w)
<1>1. [r EXCEPT !.messages = v] = Posed(v, n, c, f, p, e, d, w)
  BY DEF Posed
<1>2. [r EXCEPT !.choice = v] = Posed(m, n, v, f, p, e, d, w)
  BY DEF Posed
<1>3. [r EXCEPT !.format = v] = Posed(m, n, c, v, p, e, d, w)
  BY DEF Posed
<1>4. [r EXCEPT !.params = v] = Posed(m, n, c, f, v, e, d, w)
  BY DEF Posed
<1>5. [r EXCEPT !.extra = v] = Posed(m, n, c, f, p, v, d, w)
  BY DEF Posed
<1>6. [r EXCEPT !.dropped = v] = Posed(m, n, c, f, p, e, v, w)
  BY DEF Posed
<1>7. [r EXCEPT !.refused = v] = Posed(m, n, c, f, p, e, d, v)
  BY DEF Posed
<1>8. QED
  BY <1>1, <1>2, <1>3, <1>4, <1>5, <1>6, <1>7

\* The fields of a request that is put together.
LEMMA PosedFacts ==
  ASSUME NEW m, NEW n, NEW c, NEW f, NEW p, NEW e, NEW d, NEW w
  PROVE  LET r == Posed(m, n, c, f, p, e, d, w)
         IN  /\ IsRequest(r) /\ r.messages = m /\ r.tools = n /\ r.choice = c /\ r.format = f
             /\ r.params = p /\ r.extra = e /\ r.dropped = d /\ r.refused = w
BY DEF Posed, IsRequest

\* request_to_internal: the settings of the caller are in the request but for those
\* the surface does not read, and those it tells of.
LEMMA RequestAsked ==
  ASSUME ask.client \in Surfaces, NEW s
  PROVE  Asked(RequestToInternal(ask, s))
<1> DEFINE n == ask.tools
           c == ask.choice
           f == ask.format
           p == ask.params
           e == ask.extra
           few == p \cap Sampling
           ok == FALSE
<1>1. \A m : ChatRequest(m, ask) = Posed(m, n, c, f, p, e, {}, ok)
  BY DEF ChatRequest, Posed
<1>2. ASSUME NEW m, NEW v, NEW w, NEW q, NEW g, NEW d, NEW x, q \subseteq p, g = Heeded,
             p \cup e \subseteq q \cup g \cup d \cup Unheard
      PROVE  Asked(Posed(m, n, v, w, q, g, d, x))
  <2> DEFINE r == Posed(m, n, v, w, q, g, d, x)
  <2>1. IsRequest(r) /\ r.tools = n /\ r.params = q /\ r.extra = g /\ r.dropped = d
    BY PosedFacts
  <2> HIDE DEF r
  <2>2. QED
    BY <1>2, <2>1 DEF Asked, r
<1>3. CASE ask.client = "OpenAi"
  <2>1. PICK m : RequestToInternal(ask, s) = ChatRequest(m, ask)
    BY <1>3 DEF RequestToInternal, OpenAiRequest
  <2>2. e = Heeded
    BY <1>3 DEF Heeded
  <2> HIDE DEF n, c, f, p, e, ok
  <2>3. QED
    BY <1>1, <1>2, <2>1, <2>2
<1>4. CASE ask.client = "Anthropic"
  <2> DEFINE choice == IF c = "none" THEN None ELSE c
             m == SystemMessage(ask) \o FlattenSeq(EachOf(AnthropicTurn, s))
  <2>1. RequestToInternal(ask, s) =
          [[[[ChatRequest(m, ask) EXCEPT !.choice = IF @ = "none" THEN None ELSE @]
             EXCEPT !.format = None] EXCEPT !.params = @ \cap Sampling] EXCEPT !.extra = {}]
    BY <1>4 DEF RequestToInternal, AnthropicRequest
  <2> HIDE DEF m
  <2>2. ChatRequest(m, ask) = Posed(m, n, c, f, p, e, {}, ok)
    BY <1>1
  <2> HIDE DEF n, c, f, p, e, ok
  <2>3. RequestToInternal(ask, s) = Posed(m, n, choice, None, few, {}, {}, ok)
    <3> DEFINE r1 == Posed(m, n, c, f, p, e, {}, ok)
               r2 == Posed(m, n, choice, f, p, e, {}, ok)
               r3 == Posed(m, n, choice, None, p, e, {}, ok)
               r4 == Posed(m, n, choice, None, few, e, {}, ok)
               r5 == Posed(m, n, choice, None, few, {}, {}, ok)
    <3>1. r1.choice = c
      BY DEF Posed
    <3>2. r3.params = p
      BY DEF Posed
    <3>3. [r1 EXCEPT !.choice = IF @ = "none" THEN None ELSE @] = [r1 EXCEPT !.choice = choice]
      <4> HIDE DEF r1
      <4>1. QED
        BY <3>1
    <3>4. [r3 EXCEPT !.params = @ \cap Sampling] = [r3 EXCEPT !.params = few]
      <4> HIDE DEF r3
      <4>1. QED
        BY <3>2
    <3> HIDE DEF choice, few
    <3>7. [r1 EXCEPT !.choice = choice] = r2
      BY DEF Posed
    <3>8. [r2 EXCEPT !.format = None] = r3
      BY DEF Posed
    <3>9. [r3 EXCEPT !.params = few] = r4
      BY DEF Posed
    <3>10. [r4 EXCEPT !.extra = {}] = r5
      BY DEF Posed
    <3>5. RequestToInternal(ask, s) =
            [[[[r1 EXCEPT !.choice = IF @ = "none" THEN None ELSE @]
               EXCEPT !.format = None] EXCEPT !.params = @ \cap Sampling] EXCEPT !.extra = {}]
      BY <2>1, <2>2
    <3> HIDE DEF r1, r2, r3, r4, r5
    <3>6. RequestToInternal(ask, s) = r5
      BY <3>3, <3>4, <3>5, <3>7, <3>8, <3>9, <3>10
    <3>11. QED
      BY <3>6 DEF r5
  <2>4. Unheard = (p \ Sampling) \cup e /\ {} = Heeded
    BY <1>4 DEF Unheard, Heeded, p, e
  <2>5. few \subseteq p /\ p \cup e \subseteq few \cup {} \cup {} \cup Unheard
    BY <2>4
  <2>6. QED
    BY <1>2, <2>3, <2>4, <2>5
<1>5. CASE ask.client = "Gemini"
  <2> DEFINE choice == IF c \in Keywords THEN c ELSE "required"
             more == p \cap (Sampling \cup {"n"})
             turns == [k \in DOMAIN s |-> GeminiTurn(Items(SubSeq(s, 1, k - 1)), s[k])]
             m == SystemMessage(ask) \o FlattenSeq(turns)
  <2>1. RequestToInternal(ask, s) =
          [[[[ChatRequest(m, ask) EXCEPT !.choice = IF @ \in Keywords THEN @ ELSE "required"]
             EXCEPT !.format = None] EXCEPT !.params = @ \cap (Sampling \cup {"n"})]
             EXCEPT !.extra = {}]
    BY <1>5 DEF RequestToInternal, GeminiRequest
  <2> HIDE DEF m
  <2>2. ChatRequest(m, ask) = Posed(m, n, c, f, p, e, {}, ok)
    BY <1>1
  <2> HIDE DEF n, c, f, p, e, ok
  <2>3. RequestToInternal(ask, s) = Posed(m, n, choice, None, more, {}, {}, ok)
    <3> DEFINE r1 == Posed(m, n, c, f, p, e, {}, ok)
               r2 == Posed(m, n, choice, f, p, e, {}, ok)
               r3 == Posed(m, n, choice, None, p, e, {}, ok)
               r4 == Posed(m, n, choice, None, more, e, {}, ok)
               r5 == Posed(m, n, choice, None, more, {}, {}, ok)
    <3>1. r1.choice = c
      BY DEF Posed
    <3>2. r3.params = p
      BY DEF Posed
    <3>3. [r1 EXCEPT !.choice = IF @ \in Keywords THEN @ ELSE "required"] = [r1 EXCEPT !.choice = choice]
      <4> HIDE DEF r1
      <4>1. QED
        BY <3>1
    <3>4. [r3 EXCEPT !.params = @ \cap (Sampling \cup {"n"})] = [r3 EXCEPT !.params = more]
      <4> HIDE DEF r3
      <4>1. QED
        BY <3>2
    <3> HIDE DEF choice, more
    <3>7. [r1 EXCEPT !.choice = choice] = r2
      BY DEF Posed
    <3>8. [r2 EXCEPT !.format = None] = r3
      BY DEF Posed
    <3>9. [r3 EXCEPT !.params = more] = r4
      BY DEF Posed
    <3>10. [r4 EXCEPT !.extra = {}] = r5
      BY DEF Posed
    <3>5. RequestToInternal(ask, s) =
            [[[[r1 EXCEPT !.choice = IF @ \in Keywords THEN @ ELSE "required"]
               EXCEPT !.format = None] EXCEPT !.params = @ \cap (Sampling \cup {"n"})]
               EXCEPT !.extra = {}]
      BY <2>1, <2>2
    <3> HIDE DEF r1, r2, r3, r4, r5
    <3>6. RequestToInternal(ask, s) = r5
      BY <3>3, <3>4, <3>5, <3>7, <3>8, <3>9, <3>10
    <3>11. QED
      BY <3>6 DEF r5
  <2>4. Unheard = (p \ (Sampling \cup {"n"})) \cup e /\ {} = Heeded
    BY <1>5 DEF Unheard, Heeded, p, e
  <2>5. more \subseteq p /\ p \cup e \subseteq more \cup {} \cup {} \cup Unheard
    BY <2>4
  <2>6. QED
    BY <1>2, <2>3, <2>4, <2>5
<1>6. CASE ask.client = "Responses"
  <2> DEFINE format == IF f = "text" THEN None ELSE f
             read == {"temperature", "top_p", "max_tokens", "parallel_tool_calls", "user"}
             told == {"include", "metadata", "truncation", "service_tier"}
             more == p \cap read
             effort == e \cap {"reasoning_effort"}
             left == ask.builtins \cup (e \cap told)
             no == ~(ask.builtins \subseteq {"web_search", "namespace"})
             m == SystemMessage(ask) \o FlattenSeq(EachOf(InputItems, s))
  <2>1. RequestToInternal(ask, s) =
          [[[[[ChatRequest(m, ask) EXCEPT !.format = IF @ = "text" THEN None ELSE @]
              EXCEPT !.params = @ \cap read] EXCEPT !.extra = @ \cap {"reasoning_effort"}]
              EXCEPT !.dropped = left] EXCEPT !.refused = no]
    BY <1>6 DEF RequestToInternal, ResponsesRequest
  <2> HIDE DEF m
  <2>2. ChatRequest(m, ask) = Posed(m, n, c, f, p, e, {}, ok)
    BY <1>1
  <2> HIDE DEF n, c, f, p, e, ok, left, no, read
  <2>3. RequestToInternal(ask, s) = Posed(m, n, c, format, more, effort, left, no)
    <3> DEFINE r1 == Posed(m, n, c, f, p, e, {}, ok)
               r2 == Posed(m, n, c, format, p, e, {}, ok)
               r3 == Posed(m, n, c, format, more, e, {}, ok)
               r4 == Posed(m, n, c, format, more, effort, {}, ok)
               r5 == Posed(m, n, c, format, more, effort, left, ok)
               r6 == Posed(m, n, c, format, more, effort, left, no)
    <3>1. r1.format = f
      BY DEF Posed
    <3>2. r2.params = p
      BY DEF Posed
    <3>3. r3.extra = e
      BY DEF Posed
    <3>4. /\ [r1 EXCEPT !.format = IF @ = "text" THEN None ELSE @] = [r1 EXCEPT !.format = format]
          /\ [r2 EXCEPT !.params = @ \cap read] = [r2 EXCEPT !.params = more]
          /\ [r3 EXCEPT !.extra = @ \cap {"reasoning_effort"}] = [r3 EXCEPT !.extra = effort]
      <4> HIDE DEF r1, r2, r3
      <4>1. QED
        BY <3>1, <3>2, <3>3
    <3> HIDE DEF format, more, effort
    <3>7. [r1 EXCEPT !.format = format] = r2
      BY DEF Posed
    <3>8. [r2 EXCEPT !.params = more] = r3
      BY DEF Posed
    <3>9. [r3 EXCEPT !.extra = effort] = r4
      BY DEF Posed
    <3>10. [r4 EXCEPT !.dropped = left] = r5
      BY DEF Posed
    <3>11. [r5 EXCEPT !.refused = no] = r6
      BY DEF Posed
    <3>5. RequestToInternal(ask, s) =
            [[[[[r1 EXCEPT !.format = IF @ = "text" THEN None ELSE @]
                EXCEPT !.params = @ \cap read] EXCEPT !.extra = @ \cap {"reasoning_effort"}]
                EXCEPT !.dropped = left] EXCEPT !.refused = no]
      BY <2>1, <2>2
    <3> HIDE DEF r1, r2, r3, r4, r5, r6
    <3>6. [[[r1 EXCEPT !.format = IF @ = "text" THEN None ELSE @]
             EXCEPT !.params = @ \cap read] EXCEPT !.extra = @ \cap {"reasoning_effort"}] = r4
      BY <3>4, <3>7, <3>8, <3>9
    <3>13. RequestToInternal(ask, s) = [[r4 EXCEPT !.dropped = left] EXCEPT !.refused = no]
      BY <3>5, <3>6
    <3>14. RequestToInternal(ask, s) = r6
      BY <3>10, <3>11, <3>13
    <3>12. QED
      BY <3>14 DEF r6
  <2>4. Unheard = (p \ read) \cup (e \ ({"reasoning_effort"} \cup told)) /\ effort = Heeded
    BY <1>6 DEF Unheard, Heeded, p, e, read
  <2>5. more \subseteq p /\ p \cup e \subseteq more \cup effort \cup left \cup Unheard
    BY <2>4 DEF left
  <2>6. QED
    BY <1>2, <2>3, <2>4, <2>5
<1>7. QED
  BY <1>3, <1>4, <1>5, <1>6 DEF Surfaces

\* What a body says of the settings of its request.
Settles(t, r, body) ==
  /\ r.params \cup r.extra \subseteq body.params \cup body.dropped \cup Unreported[t.dialect]
  /\ r.format = "json_schema" =>
       body.format # None \/ JsonSchemaTool \in Range(body.tools)
         \/ "response_format" \in body.dropped

\* A tool that is added is one of the tools.
LEMMA ToolLast ==
  ASSUME NEW tools, IsSeq(tools), NEW x
  PROVE  x \in Range(Append(tools, x))
<1>1. IsSeq(Append(tools, x)) /\ Len(Append(tools, x)) = Len(tools) + 1
        /\ Append(tools, x)[Len(tools) + 1] = x
  BY Appended
<1>2. Len(tools) \in Nat /\ DOMAIN Append(tools, x) = 1 .. Len(Append(tools, x))
  BY <1>1, SeqFacts
<1>3. Len(tools) + 1 \in DOMAIN Append(tools, x)
  BY <1>1, <1>2
<1>4. QED
  BY <1>1, <1>3 DEF Range

\* build_outbound: a body that is not refused has, or reports, what the request
\* sets.
LEMMA BodySettles ==
  ASSUME NEW t, t.dialect \in Dialects, NEW r, r.params \subseteq Fields, IsSeq(r.tools),
         ~BuildOutbound(t, r).refused
  PROVE  Settles(t, r, BuildOutbound(t, r))
<1> DEFINE body == BuildOutbound(t, r)
<1>0. ~body.refused /\ r.params \subseteq Fields
  OBVIOUS
<1>1. CASE t.dialect = "OpenAi"
  <2>1. body.params = r.params \cup r.extra /\ body.format = r.format
    BY <1>1 DEF BuildOutbound, ChatBody, Body
  <2>2. QED
    BY <1>1, <2>1 DEF Settles, None
<1>2. CASE t.dialect = "Anthropic"
  <2> DEFINE b == BuildAnthropic(r, t.efforts)
             pinned == PinClaudeIdentity(b)
             effort == IF t.efforts THEN r.extra \cap {"reasoning_effort"} ELSE {}
             tools == IF r.choice = "none" THEN << >> ELSE r.tools
  <2>1. /\ b.dropped = (r.params \cap {"penalty", "seed", "stream_options"}) \cup (r.extra \ effort)
        /\ effort \cup (r.params \cap Sampling)
             \subseteq b.params
    BY DEF BuildAnthropic, Body
  <2>2. ~b.refused => r.params \cap {"n", "logprobs"} = {}
    BY DEF BuildAnthropic, Body
  <2>3. r.format = "json_schema" => b.tools = Append(tools, JsonSchemaTool)
    BY DEF BuildAnthropic, Body
  <2>4. /\ pinned.params = b.params /\ pinned.dropped = b.dropped /\ pinned.tools = b.tools
        /\ pinned.refused = b.refused
    BY DEF PinClaudeIdentity, BuildAnthropic, Body
  <2>5. IsSeq(tools)
    BY CatFacts
  <2> HIDE DEF b, pinned, tools
  <2>6. body \in {b, pinned}
    BY <1>2 DEF BuildOutbound, b, pinned
  <2>7. body.params = b.params /\ body.dropped = b.dropped /\ body.tools = b.tools /\ ~b.refused
    BY <2>4, <2>6
  <2>8. r.params \cup r.extra \subseteq body.params \cup body.dropped \cup Unreported[t.dialect]
    BY <1>2, <2>1, <2>2, <2>7 DEF Unreported, Fields, Sampling
  <2>9. r.format = "json_schema" => JsonSchemaTool \in Range(body.tools)
    BY <2>3, <2>5, <2>7, ToolLast
  <2>10. QED
    BY <2>8, <2>9 DEF Settles
<1>3. CASE t.dialect = "Gemini"
  <2>1. /\ body.params = r.params \cap (Sampling \cup {"n"})
        /\ body.dropped =
             (r.params \cap {"penalty", "seed", "stream_options", "parallel_tool_calls"})
               \cup r.extra
        /\ body.format = IF r.format = "text" THEN None ELSE r.format
    BY <1>3 DEF BuildOutbound, BuildGemini, Body
  <2>2. ~body.refused => "logprobs" \notin r.params
    BY <1>3 DEF BuildOutbound, BuildGemini, Body
  <2> HIDE DEF body
  <2>3. r.params \cup r.extra \subseteq body.params \cup body.dropped \cup Unreported[t.dialect]
    BY <1>3, <2>1, <2>2, <1>0 DEF Unreported, Fields, Sampling
  <2>4. r.format = "json_schema" => body.format # None \/ "response_format" \in body.dropped
    BY <2>1 DEF None
  <2>5. QED
    BY <2>3, <2>4 DEF Settles, body
<1>4. CASE t.dialect = "Bedrock"
  <2> DEFINE format == IF r.format = None THEN {} ELSE {"response_format"}
  <2>1. /\ body.params = r.params \cap Sampling
        /\ body.dropped =
             (r.params \cap {"penalty", "seed", "stream_options", "parallel_tool_calls"})
               \cup format \cup r.extra
    BY <1>4 DEF BuildOutbound, BuildBedrock, Body
  <2>2. ~body.refused => r.params \cap {"n", "logprobs"} = {}
    BY <1>4 DEF BuildOutbound, BuildBedrock, Body
  <2> HIDE DEF body
  <2>3. r.params \cup r.extra \subseteq body.params \cup body.dropped \cup Unreported[t.dialect]
    BY <1>4, <2>1, <2>2, <1>0 DEF Unreported, Fields, Sampling
  <2>4. r.format = "json_schema" => body.format # None \/ "response_format" \in body.dropped
    BY <2>1 DEF None
  <2>5. QED
    BY <2>3, <2>4 DEF Settles, body
<1>5. CASE t.dialect = "Codex"
  <2>1. /\ body.params = r.extra \cap {"reasoning_effort", "verbosity", "prompt_cache_key"}
        /\ body.dropped = (r.params \cap Sampling)
                            \cup (r.extra \ {"reasoning_effort", "verbosity", "metadata",
                                               "prompt_cache_key"})
        /\ body.format = CodexTextFormat(r.format)
    BY <1>5 DEF BuildOutbound, CodexRequest, Body
  <2> HIDE DEF body
  <2>2. r.params \cup r.extra \subseteq body.params \cup body.dropped \cup Unreported[t.dialect]
    BY <1>5, <2>1 DEF Unreported, Fields, Sampling
  <2>3. r.format = "json_schema" => body.format # None \/ "response_format" \in body.dropped
    BY <2>1 DEF None, CodexTextFormat
  <2>4. QED
    BY <2>2, <2>3 DEF Settles, body
<1>6. QED
  BY <1>1, <1>2, <1>3, <1>4, <1>5 DEF Dialects

\* Rendering the documents leaves what was set.
LEMMA FitAsked ==
  ASSUME NEW r, Asked(r), NEW t
  PROVE  Asked(FitFor(t, r)) /\ FitFor(t, r).format = r.format /\ FitFor(t, r).dropped = r.dropped
<1>1. ASSUME NEW ms, NEW no
      PROVE  LET q == [[r EXCEPT !.messages = ms] EXCEPT !.refused = no]
             IN  Asked(q) /\ q.format = r.format /\ q.dropped = r.dropped
  <2> DEFINE q == Posed(ms, r.tools, r.choice, r.format, r.params, r.extra, r.dropped, no)
  <2>1. r = Posed(r.messages, r.tools, r.choice, r.format, r.params, r.extra, r.dropped, r.refused)
    BY DEF Asked, IsRequest, Posed
  <2> DEFINE p == Posed(ms, r.tools, r.choice, r.format, r.params, r.extra, r.dropped, r.refused)
  <2>5. [r EXCEPT !.messages = ms] = p
    BY DEF Asked, IsRequest, Posed
  <2>6. [p EXCEPT !.refused = no] = q
    BY DEF Posed
  <2> HIDE DEF p
  <2>2. [[r EXCEPT !.messages = ms] EXCEPT !.refused = no] = q
    BY <2>5, <2>6
  <2>3. /\ IsRequest(q) /\ q.tools = r.tools /\ q.format = r.format /\ q.params = r.params
        /\ q.extra = r.extra /\ q.dropped = r.dropped
    BY PosedFacts
  <2> HIDE DEF q
  <2>4. QED
    BY <2>2, <2>3 DEF Asked
<1>2. FitFor(t, r) = r \/ \E ms, no :
        FitFor(t, r) = [[r EXCEPT !.messages = ms] EXCEPT !.refused = no]
  <2>1. CASE NeedsImages(t, r)
    <3>1. PICK ms : RasterizeRequest(r) =
                      [[r EXCEPT !.messages = ms] EXCEPT !.refused = @ \/ Unreadable(r)]
      BY DEF RasterizeRequest
    <3> DEFINE q == [r EXCEPT !.messages = ms]
               no == q.refused \/ Unreadable(r)
    <3>2. FitFor(t, r) = [q EXCEPT !.refused = no]
      BY <2>1, <3>1 DEF FitFor
    <3> HIDE DEF no
    <3>3. QED
      BY <3>2
  <2>2. CASE ~NeedsImages(t, r)
    BY <2>2 DEF FitFor
  <2>3. QED
    BY <2>1, <2>2
<1>3. CASE FitFor(t, r) = r
  BY <1>3
<1>4. CASE \E ms, no : FitFor(t, r) = [[r EXCEPT !.messages = ms] EXCEPT !.refused = no]
  <2>1. PICK ms, no : FitFor(t, r) = [[r EXCEPT !.messages = ms] EXCEPT !.refused = no]
    BY <1>4
  <2> DEFINE q == [[r EXCEPT !.messages = ms] EXCEPT !.refused = no]
  <2>2. FitFor(t, r) = q /\ Asked(q) /\ q.format = r.format /\ q.dropped = r.dropped
    BY <1>1, <2>1
  <2> HIDE DEF q
  <2>3. QED
    BY <2>2
<1>5. QED
  BY <1>2, <1>3, <1>4

\* The invariant has Accounted.
LEMMA ChatAccounted ==
  ASSUME IInv
  PROVE  Accounted
<1> SUFFICES ASSUME Translated
             PROVE  /\ ask.params \cup ask.extra
                         \subseteq sent.params \cup Reported \cup Unheard \cup Uncounted
                    /\ internal[1].format = "json_schema" => Formatted
  BY DEF Accounted
<1> DEFINE r == FitFor(Target, Req)
<1>1. Target.dialect \in Dialects /\ ask.client \in Surfaces
  BY TargetFacts
<1>2. sent = BuildOutbound(Target, r) /\ ~sent.refused /\ internal = <<Req>>
  BY DEF IInv, BodyFor, FitFor, Req
<1>3. Asked(r) /\ r.format = Req.format /\ r.dropped = Req.dropped
  BY <1>1, RequestAsked, FitAsked DEF Req
<1> HIDE DEF r
<1>4. ask.params \subseteq Fields /\ IsSeq(ask.tools)
  BY ConversationAssumption DEF ConversationAssumption, IInv, IsSeq
<1>5. r.params \subseteq Fields /\ IsSeq(r.tools)
  BY <1>3, <1>4 DEF Asked
<1>6. Settles(Target, r, sent)
  BY <1>1, <1>2, <1>5, BodySettles
<1>7. internal[1] = Req
  BY <1>2
<1>8. /\ r.dropped \subseteq Reported
      /\ sent.dropped \subseteq Reported \cup Uncounted
      /\ Unreported[Target.dialect] \subseteq Uncounted
  BY <1>3, <1>7 DEF Reported, Uncounted
<1>9. ask.params \cup ask.extra \subseteq sent.params \cup Reported \cup Unheard \cup Uncounted
  <2>1. ask.params \cup ask.extra \subseteq r.params \cup r.extra \cup r.dropped \cup Unheard
    BY <1>3 DEF Asked
  <2>2. r.params \cup r.extra \subseteq sent.params \cup sent.dropped \cup Unreported[Target.dialect]
    BY <1>6 DEF Settles
  <2>3. QED
    BY <1>8, <2>1, <2>2
<1>10. internal[1].format = "json_schema" => Formatted
  BY <1>3, <1>6, <1>7, <1>8 DEF Settles, Formatted
<1>11. QED
  BY <1>9, <1>10

\* A setting of the caller is carried, refused, reported, or one that is known to go
\* unreported: Unheard by its own surface, or Uncounted by the translator or run_responses.
THEOREM AccountedHolds == Spec => []Accounted
<1>1. Init => IInv
  BY ChatStart
<1>2. IInv /\ [Next]_vars => IInv'
  BY ChatStep
<1>3. IInv => Accounted
  BY ChatAccounted
<1>4. QED
  BY <1>1, <1>2, <1>3, PTL DEF Spec

-----------------------------------------------------------------------------
(* Beginnings of lists *)

\* A list that is one list and then another.
LEMMA CatIs ==
  ASSUME NEW a, NEW b, NEW c, IsSeq(a), IsSeq(b), IsSeq(c), Len(c) = Len(a) + Len(b),
         \A i \in 1 .. Len(a) : c[i] = a[i], \A i \in 1 .. Len(b) : c[Len(a) + i] = b[i]
  PROVE  c = Cat(a, b)
<1> DEFINE u == Cat(a, b)
<1>1. /\ IsSeq(u) /\ Len(u) = Len(a) + Len(b)
      /\ \A i \in 1 .. Len(a) : u[i] = a[i]
      /\ \A i \in 1 .. Len(b) : u[Len(a) + i] = b[i]
  BY Joined DEF Cat
<1>2. Len(a) \in Nat /\ Len(b) \in Nat
  BY SeqFacts
<1> HIDE DEF u
<1>3. ASSUME NEW i \in 1 .. Len(c)
      PROVE  c[i] = u[i]
  <2>1. CASE i <= Len(a)
    BY <1>1, <1>2, <2>1
  <2>2. CASE ~(i <= Len(a))
    <3> DEFINE j == i - Len(a)
    <3>1. j \in 1 .. Len(b) /\ Len(a) + j = i
      BY <1>2, <2>2
    <3> HIDE DEF j
    <3>2. c[Len(a) + j] = b[j] /\ u[Len(a) + j] = b[j]
      BY <1>1, <3>1
    <3>3. QED
      BY <3>1, <3>2
  <2>3. QED
    BY <2>1, <2>2
<1>4. QED
  BY <1>1, <1>3, SameSeq DEF u

\* A list begins the list it is continued to.
LEMMA BeginsWith ==
  ASSUME NEW a, NEW b, IsSeq(a), IsSeq(b)
  PROVE  IsPrefix(a, Cat(a, b))
<1>1. PICK S : a \in Seq(S)
  BY DEF IsSeq
<1>2. PICK T : b \in Seq(T)
  BY DEF IsSeq
<1> DEFINE U == S \cup T
<1>3. a \in Seq(U) /\ b \in Seq(U)
  BY <1>1, <1>2
<1> HIDE DEF U
<1>4. a \o b \in Seq(U) /\ Len(a \o b) = Len(a) + Len(b)
  BY <1>3
<1>5. SubSeq(a \o b, 1, Len(a)) = SubSeq(a, 1, Len(a)) /\ Len(a) <= Len(a \o b)
  BY <1>3, <1>4
<1>6. QED
  BY <1>5 DEF IsPrefix, Cat

\* A list up to a place, and from there.
LEMMA Cut ==
  ASSUME NEW s, IsSeq(s), NEW n \in 0 .. Len(s)
  PROVE  LET p == SubSeq(s, 1, n)
             q == SubSeq(s, n + 1, Len(s))
         IN  /\ IsSeq(p) /\ Len(p) = n /\ \A i \in 1 .. n : p[i] = s[i]
             /\ IsSeq(q) /\ Len(q) = Len(s) - n /\ \A i \in 1 .. Len(q) : q[i] = s[n + i]
             /\ s = Cat(p, q)
             /\ \A k \in 1 .. n : SubSeq(p, 1, k - 1) = SubSeq(s, 1, k - 1)
<1>1. PICK S : s \in Seq(S)
  BY DEF IsSeq
<1> DEFINE p == SubSeq(s, 1, n)
           q == SubSeq(s, n + 1, Len(s))
<1>2. Len(s) \in Nat /\ n \in Nat
  BY <1>1
<1>3. p \in Seq(S) /\ Len(p) = n /\ \A i \in 1 .. n : p[i] = s[i]
  BY <1>1, <1>2
<1>4. q \in Seq(S) /\ Len(q) = Len(s) - n /\ \A i \in 1 .. Len(s) - n : q[i] = s[n + i]
  BY <1>1, <1>2
<1> HIDE DEF p, q
<1>5. IsSeq(p) /\ IsSeq(q)
  BY <1>3, <1>4 DEF IsSeq
<1>6. s = Cat(p, q)
  <2>1. Len(s) = Len(p) + Len(q)
    BY <1>2, <1>3, <1>4
  <2>2. QED
    BY <1>2, <1>3, <1>4, <1>5, <2>1, CatIs
<1>7. ASSUME NEW k \in 1 .. n
      PROVE  SubSeq(p, 1, k - 1) = SubSeq(s, 1, k - 1)
  BY <1>1, <1>2, <1>3
<1>8. QED
  BY <1>3, <1>4, <1>5, <1>6, <1>7 DEF p, q

\* Max is one of a set of places.
LEMMA MaxIsOne ==
  ASSUME NEW n \in Nat, NEW S \in SUBSET (1 .. n), S # {}
  PROVE  Max(S) \in S
<1> DEFINE T == {k \in Nat : \A i \in S : i <= k}
<1>1. n \in T
  OBVIOUS
<1>2. T \in SUBSET Nat /\ T # {}
  BY <1>1
<1>3. PICK m \in T : \A k \in T : m <= k
  BY <1>2, Least
<1>4. m \in Nat /\ \A i \in S : i <= m
  BY <1>3
<1>5. m \in S
  <2> SUFFICES ASSUME m \notin S
               PROVE  FALSE
    OBVIOUS
  <2>1. \A i \in S : i \in Nat /\ i > 0 /\ i < m
    BY <1>4
  <2>2. m - 1 \in Nat /\ \A i \in S : i <= m - 1
    <3>1. PICK i : i \in S
      OBVIOUS
    <3>2. i \in Nat /\ i > 0 /\ i < m
      BY <2>1, <3>1
    <3>3. m - 1 \in Nat
      BY <1>4, <3>2
    <3>4. ASSUME NEW j \in S
          PROVE  j <= m - 1
      <4>1. j \in Nat /\ j < m
        BY <2>1
      <4>2. QED
        BY <1>4, <4>1
    <3>5. QED
      BY <3>3, <3>4
  <2>3. m - 1 \in T
    BY <2>2
  <2>4. m <= m - 1
    BY <1>3, <2>3
  <2>5. QED
    BY <1>4, <2>4
<1>6. \E x \in S : \A y \in S : x >= y
  BY <1>4, <1>5
<1>7. QED
  BY <1>6 DEF Max

\* CallName: what follows does not change the name an id has, if calls of one id
\* have one name.
LEMMA NameStays ==
  ASSUME NEW c, NEW d, IsSeq(c), IsSeq(d), NEW i \in 1 .. Len(c), NEW id, c[i].id = id,
         LET u == Cat(c, d)
         IN  \A j, k \in 1 .. Len(u) : u[j].id = u[k].id => u[j].name = u[k].name
  PROVE  CallName(Cat(c, d), id) = CallName(c, id)
<1> DEFINE u == Cat(c, d)
           name == c[i].name
           a == {j \in DOMAIN c : c[j].id = id}
           b == {j \in DOMAIN u : u[j].id = id}
<1>1. IsSeq(u) /\ Len(u) = Len(c) + Len(d) /\ \A j \in 1 .. Len(c) : u[j] = c[j]
  BY Joined DEF Cat
<1>2. Len(c) \in Nat /\ Len(d) \in Nat /\ DOMAIN c = 1 .. Len(c)
  BY SeqFacts
<1> HIDE DEF u
<1>3. Len(u) \in Nat /\ DOMAIN u = 1 .. Len(u) /\ \A j \in 1 .. Len(c) : j \in 1 .. Len(u)
  BY <1>1, <1>2
<1>4. i \in a /\ i \in b
  BY <1>1, <1>2, <1>3
<1>5. a \in SUBSET (1 .. Len(c)) /\ b \in SUBSET (1 .. Len(u)) /\ a # {} /\ b # {}
  BY <1>2, <1>3, <1>4
<1> HIDE DEF a, b
<1>6. Max(a) \in a /\ Max(b) \in b
  BY <1>2, <1>3, <1>5, MaxIsOne
<1>7. \A j, k \in 1 .. Len(u) : u[j].id = u[k].id => u[j].name = u[k].name
  BY DEF u
<1>8. \A j \in b : u[j].name = name
  <2>1. \A j \in b : j \in 1 .. Len(u) /\ u[j].id = id
    BY <1>3 DEF b
  <2>2. i \in 1 .. Len(u) /\ u[i].id = id /\ u[i].name = name
    BY <1>1, <1>3
  <2>3. QED
    BY <1>7, <2>1, <2>2
<1>9. \A j \in a : j \in b /\ c[j] = u[j]
  BY <1>1, <1>2, <1>3 DEF a, b
<1>10. u[Max(b)].name = name /\ c[Max(a)].name = name
  BY <1>6, <1>8, <1>9
<1>11. CallName(u, id) = u[Max(b)].name
  BY <1>5 DEF CallName, b
<1>12. CallName(c, id) = c[Max(a)].name
  BY <1>5 DEF CallName, a
<1>13. QED
  BY <1>10, <1>11, <1>12 DEF u

-----------------------------------------------------------------------------
(* Blocks but for the hint *)

Unhinting(s) == [i \in 1 .. Len(s) |-> IF s[i].data = Hint.data THEN << >> ELSE <<s[i]>>]
Unhinted(s) == FlattenSeq(Unhinting(s))

\* Pieces are the blocks of turns that are not the hint.
LEMMA PiecesFacts ==
  ASSUME NEW turns, Bodied(turns)
  PROVE  Pieces(turns) = Unhinted(Blocks(turns))
<1>1. DOMAIN Blocks(turns) = 1 .. Len(Blocks(turns))
  BY BlocksFacts, SeqFacts
<1>2. QED
  BY <1>1 DEF Pieces, Unhinted, Unhinting, EachOf

\* What is left of two lists is what is left of each; of the hint there is nothing.
LEMMA UnhintedJoined ==
  /\ \A s : IsSeq(s) => IsSeq(Unhinted(s))
  /\ \A s, t : IsSeq(s) /\ IsSeq(t) => Unhinted(Cat(s, t)) = Cat(Unhinted(s), Unhinted(t))
  /\ Unhinted(<<Hint>>) = << >>
<1>1. ASSUME NEW s, IsSeq(s)
      PROVE  /\ Lists(Unhinting(s)) /\ Len(Unhinting(s)) = Len(s)
             /\ \A i \in 1 .. Len(s) :
                  Unhinting(s)[i] = IF s[i].data = Hint.data THEN << >> ELSE <<s[i]>>
  <2> DEFINE tt == Unhinting(s)
  <2>1. Len(s) \in Nat
    BY <1>1, SeqFacts
  <2>2. /\ tt = [i \in 1 .. Len(s) |-> tt[i]]
        /\ \A i \in 1 .. Len(s) : tt[i] = IF s[i].data = Hint.data THEN << >> ELSE <<s[i]>>
    BY DEF Unhinting
  <2>3. \A i \in 1 .. Len(s) : IsSeq(tt[i])
    BY <2>2, Singleton, CatFacts
  <2> HIDE DEF tt
  <2>4. Lists(tt) /\ Len(tt) = Len(s)
    BY <2>1, <2>2, <2>3, FamilyLists
  <2>5. QED
    BY <2>2, <2>4 DEF tt
<1>2. ASSUME NEW s, NEW t, IsSeq(s), IsSeq(t)
      PROVE  Unhinted(Cat(s, t)) = Cat(Unhinted(s), Unhinted(t))
  <2> DEFINE u == Cat(s, t)
             a == Unhinting(s)
             b == Unhinting(t)
             c == Unhinting(u)
  <2>1. /\ IsSeq(u) /\ Len(u) = Len(s) + Len(t)
        /\ \A i \in 1 .. Len(s) : u[i] = s[i]
        /\ \A i \in 1 .. Len(t) : u[Len(s) + i] = t[i]
    BY <1>2, Joined DEF Cat
  <2>2. Len(s) \in Nat /\ Len(t) \in Nat
    BY <1>2, SeqFacts
  <2> HIDE DEF u
  <2>3. /\ Lists(a) /\ Lists(b) /\ Lists(c)
        /\ Len(a) = Len(s) /\ Len(b) = Len(t) /\ Len(c) = Len(u)
    BY <1>1, <1>2, <2>1
  <2> DEFINE Kept(e) == IF e.data = Hint.data THEN << >> ELSE <<e>>
  <2>4. /\ \A i \in 1 .. Len(s) : a[i] = Kept(s[i])
        /\ \A i \in 1 .. Len(t) : b[i] = Kept(t[i])
        /\ \A i \in 1 .. Len(u) : c[i] = Kept(u[i])
    BY <1>1, <1>2, <2>1
  <2> HIDE DEF a, b, c, Kept
  <2>5. /\ \A i \in 1 .. Len(a) : c[i] = a[i]
        /\ \A i \in 1 .. Len(b) : c[Len(a) + i] = b[i]
    <3>1. /\ \A i \in 1 .. Len(s) : i \in 1 .. Len(u)
          /\ \A i \in 1 .. Len(t) : Len(s) + i \in 1 .. Len(u)
      BY <2>1, <2>2
    <3>2. QED
      BY <2>1, <2>3, <2>4, <3>1
  <2>6. c = Cat(a, b)
    BY <2>1, <2>3, <2>5, CatIs DEF Lists
  <2>7. FlattenSeq(c) = Cat(FlattenSeq(a), FlattenSeq(b))
    BY <2>3, <2>6, FlattenedJoin DEF Cat
  <2>8. QED
    BY <2>7 DEF Unhinted, a, b, c, u
<1>3. Unhinted(<<Hint>>) = << >>
  <2> DEFINE h == <<Hint>>
             tt == Unhinting(h)
  <2>1. IsSeq(h) /\ Len(h) = 1 /\ h[1] = Hint
    BY Singleton
  <2> HIDE DEF h
  <2>2. Lists(tt) /\ Len(tt) = 1 /\ tt[1] = << >>
    <3>1. 1 \in 1 .. Len(h) /\ h[1].data = Hint.data
      BY <2>1
    <3>2. Lists(tt) /\ Len(tt) = Len(h)
            /\ tt[1] = IF h[1].data = Hint.data THEN << >> ELSE <<h[1]>>
      BY <1>1, <2>1, <3>1
    <3>3. QED
      BY <2>1, <3>1, <3>2
  <2> HIDE DEF tt
  <2>3. \A i \in 1 .. Len(tt) : tt[i] = << >>
    BY <2>2
  <2>4. FlattenSeq(tt) = << >>
    BY <2>2, <2>3, FlattenedNothing DEF Lists
  <2>5. QED
    BY <2>4 DEF Unhinted, tt, h
<1>4. QED
  BY <1>1, <1>2, <1>3, FlattenedSeq DEF Unhinted

-----------------------------------------------------------------------------
(* The instructions of a body *)

\* The system texts of messages: those of a list and of another.
LEMMA SystemTextsJoined ==
  ASSUME NEW a, NEW b, IsSeq(a), IsSeq(b),
         \A j \in 1 .. Len(a) : IsMessage(a[j]), \A j \in 1 .. Len(b) : IsMessage(b[j]),
         \A j \in 1 .. Len(b) : b[j].role \notin System
  PROVE  SystemTexts(Cat(a, b)) = SystemTexts(a)
<1> DEFINE Of(m) == IF m.role \in System THEN AsText(m.content) ELSE << >>
           u == Cat(a, b)
           aa == [j \in 1 .. Len(a) |-> Of(a[j])]
           bb == [j \in 1 .. Len(b) |-> Of(b[j])]
           uu == [j \in 1 .. Len(u) |-> Of(u[j])]
<1>1. /\ IsSeq(u) /\ Len(u) = Len(a) + Len(b)
      /\ \A i \in 1 .. Len(a) : u[i] = a[i]
      /\ \A i \in 1 .. Len(b) : u[Len(a) + i] = b[i]
  BY Joined DEF Cat
<1>2. /\ Len(a) \in Nat /\ Len(b) \in Nat
      /\ DOMAIN a = 1 .. Len(a) /\ DOMAIN u = 1 .. Len(u)
  BY <1>1, SeqFacts
<1> HIDE DEF u
<1>3. \A m : IsMessage(m) => IsSeq(Of(m))
  <2>1. ASSUME NEW m, IsMessage(m)
        PROVE  IsSeq(AsText(m.content))
    <3>1. IsSeq(m.content)
      BY <2>1 DEF IsMessage, Speech
    <3>2. QED
      BY <3>1, KindedFacts DEF AsText
  <2>2. QED
    BY <2>1, CatFacts
<1>4. SystemTexts(a) = FlattenSeq(aa) /\ SystemTexts(u) = FlattenSeq(uu)
  BY <1>2 DEF SystemTexts, EachOf
<1> HIDE DEF Of
<1>5. Lists(aa) /\ Len(aa) = Len(a)
  <2>1. aa = [j \in 1 .. Len(a) |-> aa[j]] /\ \A j \in 1 .. Len(a) : IsSeq(aa[j])
    BY <1>3
  <2> HIDE DEF aa
  <2>2. QED
    BY <1>2, <2>1, FamilyLists
<1>6. Lists(bb) /\ Len(bb) = Len(b) /\ FlattenSeq(bb) = << >>
  <2>1. /\ bb = [j \in 1 .. Len(b) |-> bb[j]] /\ \A j \in 1 .. Len(b) : IsSeq(bb[j])
        /\ \A j \in 1 .. Len(b) : bb[j] = << >>
    BY <1>3 DEF Of
  <2> HIDE DEF bb
  <2>2. Lists(bb) /\ Len(bb) = Len(b)
    BY <1>2, <2>1, FamilyLists
  <2>3. QED
    BY <2>1, <2>2, FlattenedNothing DEF Lists
<1>7. IsSeq(uu) /\ Len(uu) = Len(u)
  <2>1. uu = [j \in 1 .. Len(u) |-> uu[j]] /\ Len(u) \in Nat
    BY <1>1, <1>2
  <2> HIDE DEF uu
  <2>2. QED
    BY <2>1, FamilySeq
<1>8. uu = Cat(aa, bb)
  <2>1. \A i \in 1 .. Len(aa) : uu[i] = aa[i]
    BY <1>1, <1>2, <1>5
  <2>2. ASSUME NEW i \in 1 .. Len(bb)
        PROVE  uu[Len(aa) + i] = bb[i]
    <3>1. Len(a) + i \in 1 .. Len(u) /\ i \in 1 .. Len(b) /\ Len(aa) = Len(a)
      BY <1>1, <1>2, <1>5, <1>6
    <3>2. u[Len(a) + i] = b[i]
      BY <1>1, <3>1
    <3>3. QED
      BY <3>1, <3>2
  <2>3. Len(uu) = Len(aa) + Len(bb)
    BY <1>1, <1>5, <1>6, <1>7
  <2> HIDE DEF aa, bb, uu
  <2>4. IsSeq(aa) /\ IsSeq(bb) /\ IsSeq(uu)
    BY <1>5, <1>6, <1>7 DEF Lists
  <2>5. QED
    BY <2>1, <2>2, <2>3, <2>4, CatIs
<1> HIDE DEF aa, bb, uu
<1>9. FlattenSeq(uu) = Cat(FlattenSeq(aa), << >>) /\ IsSeq(FlattenSeq(aa))
  BY <1>5, <1>6, <1>8, FlattenedJoin, FlattenedSeq DEF Cat
<1>10. QED
  BY <1>4, <1>9, CatFacts DEF u

\* What a body has for the system, and its key, are a matter of the system texts and
\* of the settings.
LEMMA BodySystem ==
  ASSUME NEW t, t.dialect \in Dialects, NEW r, NEW s, r.tools = s.tools, r.extra = s.extra,
         SystemTexts(r.messages) = SystemTexts(s.messages)
  PROVE  /\ BuildOutbound(t, r).system = BuildOutbound(t, s).system
         /\ BuildOutbound(t, r).key = BuildOutbound(t, s).key
<1>1. CASE t.dialect = "OpenAi"
  BY <1>1 DEF BuildOutbound, ChatBody, Body
<1>2. CASE t.dialect = "Anthropic"
  <2> DEFINE b == BuildAnthropic(r, t.efforts)
             c == BuildAnthropic(s, t.efforts)
  <2>1. /\ b.system = c.system /\ b.key = c.key
        /\ "system" \in DOMAIN b /\ "system" \in DOMAIN c
    BY DEF BuildAnthropic, Body
  <2>2. /\ BuildOutbound(t, r) = IF t.seat THEN PinClaudeIdentity(b) ELSE b
        /\ BuildOutbound(t, s) = IF t.seat THEN PinClaudeIdentity(c) ELSE c
    BY <1>2 DEF BuildOutbound
  <2> HIDE DEF b, c
  <2>3. /\ PinClaudeIdentity(b).system = PinClaudeIdentity(c).system
        /\ PinClaudeIdentity(b).key = PinClaudeIdentity(c).key
    BY <2>1 DEF PinClaudeIdentity
  <2>4. QED
    BY <2>1, <2>2, <2>3
<1>3. CASE t.dialect = "Gemini"
  BY <1>3 DEF BuildOutbound, BuildGemini, Body
<1>4. CASE t.dialect = "Bedrock"
  BY <1>4 DEF BuildOutbound, BuildBedrock, Body
<1>5. CASE t.dialect = "Codex"
  BY <1>5, ZenonT(30) DEF BuildOutbound, CodexRequest, CodexCacheKey, Body
<1>6. QED
  BY <1>1, <1>2, <1>3, <1>4, <1>5 DEF Dialects

-----------------------------------------------------------------------------
(* The request of a beginning *)

\* What has been said up to a turn: its messages begin those of all that has.
LEMMA RequestGrows ==
  ASSUME Target.dialect \in Dialects, ask.client \in Surfaces, NEW s, FineTalk(s),
         NEW n \in 1 .. Len(s),
         \A k \in 1 .. Len(s) : k > n => s[k].role \notin System
  PROVE  LET p == SubSeq(s, 1, n)
         IN  /\ FineTalk(p)
             /\ Worded(RequestToInternal(ask, p).messages)
             /\ Worded(RequestToInternal(ask, s).messages)
             /\ \E rest :
                  /\ Worded(rest) /\ \A j \in 1 .. Len(rest) : rest[j].role \notin System
                  /\ RequestToInternal(ask, s).messages =
                       Cat(RequestToInternal(ask, p).messages, rest)
<1> DEFINE p == SubSeq(s, 1, n)
           ss == TurnsOf(s)
           pp == TurnsOf(p)
           tail == SubSeq(ss, n + 1, Len(ss))
           rest == FlattenSeq(tail)
           sys == SystemMessage(ask)
<1>1. IsSeq(s) /\ Len(s) \in Nat /\ n \in Nat /\ n \in 0 .. Len(s)
        /\ \A k \in 1 .. Len(s) : FineTurn(s[k])
  BY SeqFacts DEF FineTalk
<1>2. IsSeq(p) /\ Len(p) = n /\ \A i \in 1 .. n : p[i] = s[i] /\ SubSeq(p, 1, i - 1) = SubSeq(s, 1, i - 1)
  BY <1>1, Cut
<1>3. FineTalk(p)
  BY <1>1, <1>2 DEF FineTalk
<1> HIDE DEF p
<1>4. /\ IsSeq(ss) /\ Len(ss) = Len(s)
      /\ \A k \in 1 .. Len(s) :
           ss[k] = TurnOf(s, k) /\ Worded(ss[k]) /\ Voiced(s[k], ss[k])
  BY TurnsCarried
<1>5. /\ IsSeq(pp) /\ Len(pp) = n
      /\ \A k \in 1 .. n : pp[k] = TurnOf(p, k) /\ Worded(pp[k])
  BY <1>2, <1>3, TurnsCarried
<1>6. \A k \in 1 .. n : TurnOf(p, k) = TurnOf(s, k)
  BY <1>2 DEF TurnOf
<1> HIDE DEF ss, pp
<1>7. /\ IsSeq(tail) /\ Len(tail) = Len(s) - n /\ \A i \in 1 .. Len(tail) : tail[i] = ss[n + i]
      /\ IsSeq(SubSeq(ss, 1, n)) /\ Len(SubSeq(ss, 1, n)) = n
      /\ \A i \in 1 .. n : SubSeq(ss, 1, n)[i] = ss[i]
      /\ ss = Cat(SubSeq(ss, 1, n), tail)
  BY <1>1, <1>4, Cut
<1> HIDE DEF tail
<1>8. SubSeq(ss, 1, n) = pp
  <2> DEFINE c == SubSeq(ss, 1, n)
  <2>1. \A i \in 1 .. n : c[i] = pp[i]
    BY <1>1, <1>4, <1>5, <1>6, <1>7
  <2>2. IsSeq(c) /\ Len(c) = n
    BY <1>7
  <2> HIDE DEF c
  <2>3. c = pp
    BY <1>5, <2>1, <2>2, SameSeq
  <2>4. QED
    BY <2>3 DEF c
<1>9. \A i \in 1 .. Len(tail) :
        /\ n + i \in 1 .. Len(s) /\ Worded(tail[i]) /\ Voiced(s[n + i], tail[i])
        /\ s[n + i].role \notin System
  <2> TAKE i \in 1 .. Len(tail)
  <2> DEFINE k == n + i
  <2>1. k \in 1 .. Len(s) /\ k > n /\ tail[i] = ss[k]
    BY <1>1, <1>7
  <2> HIDE DEF k
  <2>2. Worded(ss[k]) /\ Voiced(s[k], ss[k]) /\ s[k].role \notin System
    BY <1>4, <2>1
  <2>3. QED
    BY <2>1, <2>2 DEF k
<1>10. {"text"} \in Quartet
  BY DEF Quartet
<1>11. Lists(tail) /\ Worded(rest) /\ Lists(pp) /\ Worded(FlattenSeq(pp))
  <2>1. \A i \in 1 .. Len(tail) : Worded(tail[i])
    BY <1>9
  <2>2. \A i \in 1 .. Len(pp) : Worded(pp[i])
    BY <1>5
  <2>3. QED
    BY <1>5, <1>7, <1>10, <2>1, <2>2, GivenFlat
<1>12. ASSUME NEW j \in 1 .. Len(rest)
       PROVE  rest[j].role \notin System
  <2>1. \E i \in 1 .. Len(tail) : \E l \in 1 .. Len(tail[i]) : rest[j] = tail[i][l]
    BY <1>11, FlattenedFacts DEF Lists
  <2>2. PICK i \in 1 .. Len(tail) : \E l \in 1 .. Len(tail[i]) : rest[j] = tail[i][l]
    BY <2>1
  <2>5. PICK l \in 1 .. Len(tail[i]) : rest[j] = tail[i][l]
    BY <2>2
  <2>3. tail[i][l].role \in {"tool", "assistant", s[n + i].role} /\ s[n + i].role \notin System
    BY <1>9 DEF Voiced
  <2>4. QED
    BY <2>5, <2>3 DEF System
<1>13. FlattenSeq(ss) = Cat(FlattenSeq(pp), rest)
  BY <1>7, <1>8, <1>11, FlattenedJoin DEF Cat
<1> HIDE DEF rest
<1>14. Worded(sys)
  BY <1>10, SystemSays
<1>15. RequestToInternal(ask, s).messages = Cat(sys, FlattenSeq(ss))
         /\ RequestToInternal(ask, p).messages = Cat(sys, FlattenSeq(pp))
  BY <1>3, RequestOfTurns DEF ss, pp
<1> HIDE DEF sys
<1>16. Cat(sys, Cat(FlattenSeq(pp), rest)) = Cat(Cat(sys, FlattenSeq(pp)), rest)
  BY <1>11, <1>14, CatFacts DEF Worded
<1>17. Worded(Cat(sys, FlattenSeq(pp))) /\ Worded(Cat(Cat(sys, FlattenSeq(pp)), rest))
  BY <1>10, <1>11, <1>14, GivenJoined
<1>18. QED
  BY <1>3, <1>11, <1>12, <1>13, <1>15, <1>16, <1>17 DEF p

-----------------------------------------------------------------------------
(* The names it is fitted with *)

\* The messages of a request as they fit the target.
Fitted(ms) == [j \in 1 .. Len(ms) |-> Fitting(Target, ms[j])]

\* What fits is, message for message, what there was.
LEMMA FittedFacts ==
  ASSUME NEW ms, Worded(ms)
  PROVE  /\ IsSeq(Fitted(ms)) /\ Len(Fitted(ms)) = Len(ms)
         /\ \A j \in 1 .. Len(ms) :
              /\ Fitted(ms)[j] = Fitting(Target, ms[j]) /\ IsMessage(Fitted(ms)[j])
              /\ Fitted(ms)[j].role = ms[j].role /\ Fitted(ms)[j].calls = ms[j].calls
              /\ Fitted(ms)[j].result = ms[j].result
              /\ Target.dialect = "Codex" =>
                   \A i \in 1 .. Len(Fitted(ms)[j].content) : Fitted(ms)[j].content[i].kind # "file"
<1> DEFINE fs == Fitted(ms)
<1>1. /\ IsSeq(ms) /\ Len(ms) \in Nat
      /\ \A j \in 1 .. Len(ms) : IsMessage(ms[j]) /\ (ms[j].role = "tool" => Plain(ms[j].content))
  BY SeqFacts DEF Worded
<1>2. /\ fs = [j \in 1 .. Len(ms) |-> fs[j]]
      /\ \A j \in 1 .. Len(ms) : fs[j] = Fitting(Target, ms[j])
  BY DEF Fitted
<1> HIDE DEF fs
<1>3. IsSeq(fs) /\ Len(fs) = Len(ms)
  BY <1>1, <1>2, FamilySeq
<1>4. ASSUME NEW j \in 1 .. Len(ms)
      PROVE  /\ IsMessage(fs[j])
             /\ fs[j].role = ms[j].role /\ fs[j].calls = ms[j].calls
             /\ fs[j].result = ms[j].result
             /\ Target.dialect = "Codex" => Plain(fs[j].content)
  <2> DEFINE m == ms[j]
  <2>1. IsMessage(m) /\ (m.role = "tool" => Plain(m.content)) /\ fs[j] = Fitting(Target, m)
    BY <1>1, <1>2
  <2> HIDE DEF m
  <2>2. QED
    BY <2>1, FittingFacts DEF m
<1>5. QED
  BY <1>2, <1>3, <1>4 DEF fs, Plain

\* What fits of two lists is what fits of each.
LEMMA FittedJoined ==
  ASSUME NEW a, NEW b, Worded(a), Worded(b), Worded(Cat(a, b))
  PROVE  Fitted(Cat(a, b)) = Cat(Fitted(a), Fitted(b))
<1> DEFINE u == Cat(a, b)
           fa == Fitted(a)
           fb == Fitted(b)
           fu == Fitted(u)
<1>1. IsSeq(a) /\ IsSeq(b) /\ Len(a) \in Nat /\ Len(b) \in Nat
  BY SeqFacts DEF Worded
<1>2. /\ Len(u) = Len(a) + Len(b)
      /\ \A i \in 1 .. Len(a) : u[i] = a[i]
      /\ \A i \in 1 .. Len(b) : u[Len(a) + i] = b[i]
  BY <1>1, Joined DEF Cat
<1> HIDE DEF u
<1>3. /\ IsSeq(fa) /\ Len(fa) = Len(a) /\ \A i \in 1 .. Len(a) : fa[i] = Fitting(Target, a[i])
      /\ IsSeq(fb) /\ Len(fb) = Len(b) /\ \A i \in 1 .. Len(b) : fb[i] = Fitting(Target, b[i])
      /\ IsSeq(fu) /\ Len(fu) = Len(u) /\ \A i \in 1 .. Len(u) : fu[i] = Fitting(Target, u[i])
  BY FittedFacts DEF u
<1> HIDE DEF fa, fb, fu
<1>4. \A i \in 1 .. Len(fa) : fu[i] = fa[i]
  BY <1>1, <1>2, <1>3
<1>5. ASSUME NEW i \in 1 .. Len(fb)
      PROVE  fu[Len(fa) + i] = fb[i]
  <2> DEFINE k == Len(a) + i
  <2>1. k \in 1 .. Len(u) /\ u[k] = b[i] /\ i \in 1 .. Len(b)
    BY <1>1, <1>2, <1>3
  <2> HIDE DEF k
  <2>2. fu[k] = fb[i]
    BY <1>3, <2>1
  <2>3. QED
    BY <1>3, <2>2 DEF k
<1>6. fu = Cat(fa, fb)
  <2>1. IsSeq(fa) /\ IsSeq(fb) /\ IsSeq(fu) /\ Len(fu) = Len(fa) + Len(fb)
    BY <1>2, <1>3
  <2>2. QED
    BY <1>4, <1>5, <2>1, CatIs
<1>7. QED
  BY <1>6 DEF fa, fb, fu, u

\* CallsMade: the calls of messages, each of them and no other.
LEMMA CallsMadeFacts ==
  ASSUME NEW ms, IsSeq(ms), \A j \in 1 .. Len(ms) : IsSeq(ms[j].calls)
  PROVE  /\ IsSeq(CallsMade(ms))
         /\ \A i \in 1 .. Len(CallsMade(ms)) :
              \E j \in 1 .. Len(ms) : \E c \in 1 .. Len(ms[j].calls) :
                CallsMade(ms)[i] = ms[j].calls[c]
         /\ \A j \in 1 .. Len(ms) : \A c \in 1 .. Len(ms[j].calls) :
              \E i \in 1 .. Len(CallsMade(ms)) : CallsMade(ms)[i] = ms[j].calls[c]
<1> DEFINE tt == [j \in 1 .. Len(ms) |-> ms[j].calls]
<1>1. Len(ms) \in Nat /\ DOMAIN ms = 1 .. Len(ms)
  BY SeqFacts
<1>2. CallsMade(ms) = FlattenSeq(tt)
  BY <1>1 DEF CallsMade, EachOf
<1>3. tt = [j \in 1 .. Len(ms) |-> tt[j]] /\ \A j \in 1 .. Len(ms) : tt[j] = ms[j].calls
  OBVIOUS
<1> HIDE DEF tt
<1>4. Lists(tt) /\ Len(tt) = Len(ms)
  BY <1>1, <1>3, FamilyLists
<1>5. /\ IsSeq(FlattenSeq(tt))
      /\ \A i \in 1 .. Len(FlattenSeq(tt)) :
           \E j \in 1 .. Len(tt) : \E c \in 1 .. Len(tt[j]) : FlattenSeq(tt)[i] = tt[j][c]
  BY <1>4, FlattenedFacts DEF Lists
<1>6. ASSUME NEW j \in 1 .. Len(tt), NEW c \in 1 .. Len(tt[j])
      PROVE  \E i \in 1 .. Len(FlattenSeq(tt)) : FlattenSeq(tt)[i] = tt[j][c]
  BY <1>4, FlattenedHas
<1> DEFINE flat == FlattenSeq(tt)
<1> HIDE DEF flat
<1>7. \A i \in 1 .. Len(flat) :
        \E j \in 1 .. Len(ms) : \E c \in 1 .. Len(ms[j].calls) : flat[i] = ms[j].calls[c]
  BY <1>3, <1>4, <1>5 DEF flat
<1>8. ASSUME NEW j \in 1 .. Len(ms), NEW c \in 1 .. Len(ms[j].calls)
      PROVE  \E i \in 1 .. Len(flat) : flat[i] = ms[j].calls[c]
  <2>1. j \in 1 .. Len(tt) /\ tt[j] = ms[j].calls
    BY <1>3, <1>4
  <2>2. c \in 1 .. Len(tt[j])
    BY <2>1
  <2>3. \E i \in 1 .. Len(flat) : flat[i] = tt[j][c]
    BY <1>6, <2>1, <2>2 DEF flat
  <2>4. QED
    BY <2>1, <2>3
<1>9. QED
  BY <1>2, <1>5, <1>7, <1>8 DEF flat

\* CallsMade of two lists: that of each.
LEMMA CallsMadeJoined ==
  ASSUME NEW a, NEW b, IsSeq(a), IsSeq(b), \A j \in 1 .. Len(a) : IsSeq(a[j].calls),
         \A j \in 1 .. Len(b) : IsSeq(b[j].calls)
  PROVE  CallsMade(Cat(a, b)) = Cat(CallsMade(a), CallsMade(b))
<1> DEFINE u == Cat(a, b)
           ta == [j \in 1 .. Len(a) |-> a[j].calls]
           tb == [j \in 1 .. Len(b) |-> b[j].calls]
           tu == [j \in 1 .. Len(u) |-> u[j].calls]
<1>1. Len(a) \in Nat /\ Len(b) \in Nat /\ DOMAIN a = 1 .. Len(a) /\ DOMAIN b = 1 .. Len(b)
  BY SeqFacts
<1>2. /\ IsSeq(u) /\ Len(u) = Len(a) + Len(b)
      /\ \A i \in 1 .. Len(a) : u[i] = a[i]
      /\ \A i \in 1 .. Len(b) : u[Len(a) + i] = b[i]
  BY Joined DEF Cat
<1> HIDE DEF u
<1>3. DOMAIN u = 1 .. Len(u) /\ Len(u) \in Nat
  BY <1>2, SeqFacts
<1>4. /\ CallsMade(a) = FlattenSeq(ta) /\ CallsMade(b) = FlattenSeq(tb)
      /\ CallsMade(u) = FlattenSeq(tu)
  BY <1>1, <1>3 DEF CallsMade, EachOf
<1>5. /\ ta = [j \in 1 .. Len(a) |-> ta[j]] /\ \A j \in 1 .. Len(a) : ta[j] = a[j].calls
      /\ tb = [j \in 1 .. Len(b) |-> tb[j]] /\ \A j \in 1 .. Len(b) : tb[j] = b[j].calls
      /\ tu = [j \in 1 .. Len(u) |-> tu[j]] /\ \A j \in 1 .. Len(u) : tu[j] = u[j].calls
  OBVIOUS
<1> HIDE DEF ta, tb, tu
<1>6. Lists(ta) /\ Len(ta) = Len(a)
  <2>1. \A j \in 1 .. Len(a) : IsSeq(ta[j])
    BY <1>5
  <2>2. QED
    BY <1>1, <1>5, <2>1, FamilyLists
<1>7. Lists(tb) /\ Len(tb) = Len(b)
  <2>1. \A j \in 1 .. Len(b) : IsSeq(tb[j])
    BY <1>5
  <2>2. QED
    BY <1>1, <1>5, <2>1, FamilyLists
<1>8. IsSeq(tu) /\ Len(tu) = Len(u)
  BY <1>3, <1>5, FamilySeq
<1>9. \A i \in 1 .. Len(ta) : tu[i] = ta[i]
  BY <1>1, <1>2, <1>5, <1>6
<1>10. ASSUME NEW i \in 1 .. Len(tb)
       PROVE  tu[Len(ta) + i] = tb[i]
  <2> DEFINE k == Len(a) + i
  <2>1. k \in 1 .. Len(u) /\ u[k] = b[i] /\ i \in 1 .. Len(b)
    BY <1>1, <1>2, <1>7
  <2> HIDE DEF k
  <2>2. tu[k] = tb[i]
    BY <1>5, <2>1
  <2>3. QED
    BY <1>6, <2>2 DEF k
<1>11. tu = Cat(ta, tb)
  <2>1. IsSeq(ta) /\ IsSeq(tb) /\ Len(tu) = Len(ta) + Len(tb)
    BY <1>2, <1>6, <1>7, <1>8 DEF Lists
  <2>2. QED
    BY <1>8, <1>9, <1>10, <2>1, CatIs
<1>12. FlattenSeq(tu) = Cat(FlattenSeq(ta), FlattenSeq(tb))
  BY <1>6, <1>7, <1>11, FlattenedJoin DEF Cat
<1>13. QED
  BY <1>4, <1>12 DEF u

\* What follows does not change what a message is sent as, if the answers are to calls
\* before it and calls of one id have one name.
LEMMA SentStays ==
  ASSUME NEW t, t.dialect \in Dialects, NEW a, NEW b, IsSeq(a), IsSeq(b),
         \A j \in 1 .. Len(a) : IsMessage(a[j]), \A j \in 1 .. Len(b) : IsMessage(b[j]),
         t.dialect = "Gemini" =>
           /\ \A j \in 1 .. Len(a) : a[j].role = "tool" =>
                \E i \in 1 .. Len(CallsMade(a)) : CallsMade(a)[i].id = a[j].result.id
           /\ LET made == CallsMade(Cat(a, b))
              IN  \A i, k \in 1 .. Len(made) : made[i].id = made[k].id => made[i].name = made[k].name
  PROVE  \A j \in 1 .. Len(a) : Sent(t, Cat(a, b))[j] = Sent(t, a)[j]
<1> DEFINE u == Cat(a, b)
           made == CallsMade(u)
           before == CallsMade(a)
           after == CallsMade(b)
<1>1. Len(a) \in Nat /\ Len(b) \in Nat
  BY SeqFacts
<1>2. Len(u) = Len(a) + Len(b) /\ \A i \in 1 .. Len(a) : u[i] = a[i]
  BY Joined DEF Cat
<1>3. \A m : IsMessage(m) => IsSeq(m.calls)
  BY DEF IsMessage, Doings
<1>4. IsSeq(before) /\ IsSeq(after) /\ made = Cat(before, after)
  <2>1. (\A j \in 1 .. Len(a) : IsSeq(a[j].calls)) /\ (\A j \in 1 .. Len(b) : IsSeq(b[j].calls))
    BY <1>3
  <2>2. QED
    BY <2>1, CallsMadeFacts, CallsMadeJoined
<1>5. t.dialect = "Gemini" =>
        /\ \A j \in 1 .. Len(a) : a[j].role = "tool" =>
             \E i \in 1 .. Len(before) : before[i].id = a[j].result.id
        /\ \A i, k \in 1 .. Len(made) : made[i].id = made[k].id => made[i].name = made[k].name
  OBVIOUS
<1> HIDE DEF u, made, before, after
<1>6. ASSUME NEW j \in 1 .. Len(a)
      PROVE  Uttered(t, made, a[j]) = Uttered(t, before, a[j])
  <2>1. CASE t.dialect # "Gemini"
    BY <2>1 DEF Uttered, Dialects
  <2>2. CASE t.dialect = "Gemini"
    <3> DEFINE m == a[j]
    <3>1. CASE m.role = "tool"
      <4>1. PICK i \in 1 .. Len(before) : before[i].id = m.result.id
        BY <1>5, <2>2, <3>1
      <4>2. CallName(made, m.result.id) = CallName(before, m.result.id)
        BY <1>4, <1>5, <2>2, <4>1, NameStays, SMTT(30)
      <4> HIDE DEF m
      <4>3. m.role \notin System
        BY <3>1 DEF System
      <4>4. GeminiSaid(made, m) = GeminiSaid(before, m)
        BY <3>1, <4>2, <4>3 DEF GeminiSaid
      <4>5. QED
        BY <2>2, <4>4 DEF Uttered, m
    <3>2. CASE m.role # "tool"
      <4> HIDE DEF m
      <4>1. GeminiSaid(made, m) = GeminiSaid(before, m)
        BY <3>2 DEF GeminiSaid
      <4>2. QED
        BY <2>2, <4>1 DEF Uttered, m
    <3>3. QED
      BY <3>1, <3>2
  <2>3. QED
    BY <2>1, <2>2
<1>7. ASSUME NEW j \in 1 .. Len(a)
      PROVE  Sent(t, u)[j] = Sent(t, a)[j]
  <2>1. j \in 1 .. Len(u) /\ u[j] = a[j]
    BY <1>1, <1>2
  <2>2. Sent(t, u)[j] = Blocks(Uttered(t, made, a[j]))
    BY <2>1 DEF Sent, made
  <2>3. Sent(t, a)[j] = Blocks(Uttered(t, before, a[j]))
    BY DEF Sent, before
  <2>4. QED
    BY <1>6, <2>2, <2>3
<1>8. QED
  BY <1>7 DEF u

-----------------------------------------------------------------------------
(* Calls and results of a request *)

\* Every result is of a call that was made in a turn before.
Answerable(s) ==
  \A k \in 1 .. Len(s) : \A i \in 1 .. Len(s[k].items) : s[k].items[i].kind = "result" =>
    \E j \in 1 .. k - 1 : \E l \in 1 .. Len(s[j].items) :
      s[j].items[l].kind = "call" /\ s[j].items[l].id = s[k].items[i].id

\* The messages of a request are the instructions and those of the turns.
LEMMA RequestHas ==
  ASSUME Target.dialect \in Dialects, ask.client \in Surfaces, NEW s, FineTalk(s)
  PROVE  LET ms == RequestToInternal(ask, s).messages
         IN  /\ IsSeq(ms) /\ \A j \in 1 .. Len(ms) : IsSeq(ms[j].calls)
             /\ \A j \in 1 .. Len(ms) :
                  \/ ms[j].role # "tool" /\ ms[j].calls = << >>
                  \/ \E k \in 1 .. Len(s) : \E l \in 1 .. Len(TurnOf(s, k)) :
                       ms[j] = TurnOf(s, k)[l]
             /\ \A k \in 1 .. Len(s) : \A l \in 1 .. Len(TurnOf(s, k)) :
                  \E j \in 1 .. Len(ms) : ms[j] = TurnOf(s, k)[l]
<1> DEFINE ms == RequestToInternal(ask, s).messages
           ss == TurnsOf(s)
           sys == SystemMessage(ask)
           flat == FlattenSeq(ss)
<1>1. {"text"} \in Quartet
  BY DEF Quartet
<1>2. /\ IsSeq(ss) /\ Len(ss) = Len(s)
      /\ \A k \in 1 .. Len(s) : ss[k] = TurnOf(s, k) /\ Worded(ss[k])
  BY TurnsCarried
<1>3. Worded(sys)
  BY <1>1, SystemSays
<1>4. ms = Cat(sys, flat)
  BY RequestOfTurns
<1>5. \A j \in 1 .. Len(sys) : sys[j].role # "tool" /\ sys[j].calls = << >>
  <2> DEFINE m == Message("system", <<Text(ask.system)>>, << >>)
  <2>1. m.role # "tool" /\ m.calls = << >>
    BY DEF Message
  <2>2. sys = << >> \/ sys = <<m>>
    BY DEF SystemMessage
  <2> HIDE DEF m, sys
  <2>3. CASE sys = << >>
    <3>1. Len(sys) = 0
      BY <2>3, CatFacts
    <3>2. QED
      BY <3>1
  <2>4. CASE sys = <<m>>
    <3>1. Len(sys) = 1 /\ sys[1] = m
      BY <2>4, Singleton
    <3>2. QED
      BY <2>1, <3>1
  <2>5. QED
    BY <2>2, <2>3, <2>4
<1> HIDE DEF ss, sys
<1>6. Lists(ss) /\ Worded(flat)
  <2>1. \A i \in 1 .. Len(ss) : Worded(ss[i])
    BY <1>2
  <2>2. QED
    BY <1>1, <1>2, <2>1, GivenFlat
<1>7. \A f \in 1 .. Len(flat) : \E k \in 1 .. Len(ss) : \E l \in 1 .. Len(ss[k]) : flat[f] = ss[k][l]
  BY <1>6, FlattenedFacts DEF Lists
<1>8. ASSUME NEW k \in 1 .. Len(ss), NEW l \in 1 .. Len(ss[k])
      PROVE  \E f \in 1 .. Len(flat) : flat[f] = ss[k][l]
  BY <1>6, FlattenedHas
<1>9. Worded(Cat(sys, flat))
  BY <1>1, <1>3, <1>6, GivenJoined
<1> HIDE DEF flat, ms
<1>10. IsSeq(sys) /\ IsSeq(flat) /\ Len(sys) \in Nat /\ Len(flat) \in Nat
  BY <1>3, <1>6, SeqFacts DEF Worded
<1>11. /\ Len(ms) = Len(sys) + Len(flat)
       /\ \A i \in 1 .. Len(flat) : ms[Len(sys) + i] = flat[i]
       /\ \A i \in 1 .. Len(sys) + Len(flat) :
            \/ i \in 1 .. Len(sys) /\ ms[i] = sys[i]
            \/ i - Len(sys) \in 1 .. Len(flat) /\ ms[i] = flat[i - Len(sys)]
  BY <1>4, <1>10, Joined DEF Cat
<1>12. ASSUME NEW j \in 1 .. Len(ms)
       PROVE  \/ ms[j].role # "tool" /\ ms[j].calls = << >>
              \/ \E k \in 1 .. Len(s) : \E l \in 1 .. Len(TurnOf(s, k)) : ms[j] = TurnOf(s, k)[l]
  <2>1. CASE j \in 1 .. Len(sys) /\ ms[j] = sys[j]
    BY <1>5, <2>1
  <2>2. CASE j - Len(sys) \in 1 .. Len(flat) /\ ms[j] = flat[j - Len(sys)]
    <3>4. PICK i \in 1 .. Len(flat) : ms[j] = flat[i]
      BY <2>2
    <3>1. PICK k \in 1 .. Len(ss) : \E l \in 1 .. Len(ss[k]) : ms[j] = ss[k][l]
      BY <1>7, <3>4, ZenonT(30)
    <3>2. k \in 1 .. Len(s) /\ ss[k] = TurnOf(s, k)
      BY <1>2
    <3>3. QED
      BY <3>1, <3>2
  <2>3. QED
    BY <1>11, <2>1, <2>2
<1>13. ASSUME NEW k \in 1 .. Len(s), NEW l \in 1 .. Len(TurnOf(s, k))
       PROVE  \E j \in 1 .. Len(ms) : ms[j] = TurnOf(s, k)[l]
  <2>1. k \in 1 .. Len(ss) /\ ss[k] = TurnOf(s, k)
    BY <1>2
  <2>2. l \in 1 .. Len(ss[k])
    BY <2>1
  <2>3. PICK f \in 1 .. Len(flat) : flat[f] = ss[k][l]
    BY <1>8, <2>1, <2>2
  <2> DEFINE j == Len(sys) + f
  <2>4. j \in 1 .. Len(ms) /\ ms[j] = flat[f]
    BY <1>10, <1>11
  <2> HIDE DEF j
  <2>5. QED
    BY <2>1, <2>3, <2>4
<1>14. IsSeq(ms) /\ \A j \in 1 .. Len(ms) : IsSeq(ms[j].calls)
  BY <1>4, <1>9 DEF Worded, IsMessage, Doings
<1>15. QED
  BY <1>12, <1>13, <1>14 DEF ms

\* The calls of a request are calls that were said, and what answers one is after it.
LEMMA RequestCalls ==
  ASSUME Target.dialect \in Dialects, ask.client \in Surfaces, ask.client # "Gemini",
         NEW s, FineTalk(s), Answerable(s)
  PROVE  LET ms == RequestToInternal(ask, s).messages
             made == CallsMade(ms)
         IN  /\ \A j \in 1 .. Len(ms) : ms[j].role = "tool" =>
                  \E i \in 1 .. Len(made) : made[i].id = ms[j].result.id
             /\ \A i \in 1 .. Len(made) : \E k \in 1 .. Len(s) : \E l \in 1 .. Len(s[k].items) :
                  s[k].items[l].kind = "call" /\ made[i] = s[k].items[l]
<1> DEFINE ms == RequestToInternal(ask, s).messages
           made == CallsMade(ms)
<1>1. /\ IsSeq(ms) /\ \A j \in 1 .. Len(ms) : IsSeq(ms[j].calls)
      /\ \A j \in 1 .. Len(ms) :
           \/ ms[j].role # "tool" /\ ms[j].calls = << >>
           \/ \E k \in 1 .. Len(s) : \E l \in 1 .. Len(TurnOf(s, k)) : ms[j] = TurnOf(s, k)[l]
      /\ \A k \in 1 .. Len(s) : \A l \in 1 .. Len(TurnOf(s, k)) :
           \E j \in 1 .. Len(ms) : ms[j] = TurnOf(s, k)[l]
  BY RequestHas
<1>2. \A k \in 1 .. Len(s) : Paired(s[k], TurnOf(s, k))
  <2>1. \A k \in 1 .. Len(s) : FineTurn(s[k])
    BY DEF FineTalk
  <2>2. QED
    BY <2>1, TurnFaithful
<1> HIDE DEF ms
<1>3. /\ \A i \in 1 .. Len(made) : \E j \in 1 .. Len(ms) : \E c \in 1 .. Len(ms[j].calls) :
           made[i] = ms[j].calls[c]
      /\ \A j \in 1 .. Len(ms) : \A c \in 1 .. Len(ms[j].calls) :
           \E i \in 1 .. Len(made) : made[i] = ms[j].calls[c]
  <2>1. IsSeq(ms) /\ \A j \in 1 .. Len(ms) : IsSeq(ms[j].calls)
    BY <1>1
  <2>2. QED
    BY <2>1, CallsMadeFacts
<1> HIDE DEF made
<1>4. Len(<< >>) = 0
  OBVIOUS
<1>5. ASSUME NEW j \in 1 .. Len(ms), ms[j].role = "tool"
      PROVE  \E i \in 1 .. Len(made) : made[i].id = ms[j].result.id
  <2>1. PICK k \in 1 .. Len(s) : \E l \in 1 .. Len(TurnOf(s, k)) : ms[j] = TurnOf(s, k)[l]
    BY <1>1, <1>5
  <2>2. PICK r \in 1 .. Len(s[k].items) :
          s[k].items[r].kind = "result" /\ s[k].items[r].id = ms[j].result.id
    <3>1. Paired(s[k], TurnOf(s, k))
      BY <1>2
    <3>2. QED
      BY <1>5, <2>1, <3>1 DEF Paired
  <2>3. PICK h \in 1 .. k - 1 : \E l \in 1 .. Len(s[h].items) :
          s[h].items[l].kind = "call" /\ s[h].items[l].id = s[k].items[r].id
    BY <2>2 DEF Answerable
  <2>4. h \in 1 .. Len(s)
    <3>1. Len(s) \in Nat
      BY SeqFacts DEF FineTalk
    <3>2. QED
      BY <3>1
  <2>5. PICK l \in 1 .. Len(s[h].items) :
          s[h].items[l].kind = "call" /\ s[h].items[l].id = s[k].items[r].id
    BY <2>3
  <2> DEFINE call == s[h].items[l]
             hh == TurnOf(s, h)
  <2>6. \E a \in 1 .. Len(hh) : \E c \in 1 .. Len(hh[a].calls) : hh[a].calls[c] = call
    <3>1. Paired(s[h], hh)
      BY <1>2, <2>4
    <3> HIDE DEF hh
    <3>2. QED
      BY <2>5, <3>1 DEF Paired
  <2>7. \A a \in 1 .. Len(hh) : \E e \in 1 .. Len(ms) : ms[e] = hh[a]
    BY <1>1, <2>4
  <2>8. call.id = ms[j].result.id
    BY <2>2, <2>5
  <2> HIDE DEF call, hh
  <2>9. PICK a \in 1 .. Len(hh) : \E c \in 1 .. Len(hh[a].calls) : hh[a].calls[c] = call
    BY <2>6
  <2>10. PICK e \in 1 .. Len(ms) : ms[e] = hh[a]
    BY <2>7
  <2>11. PICK c \in 1 .. Len(ms[e].calls) : ms[e].calls[c] = call
    BY <2>9, <2>10
  <2>12. PICK i \in 1 .. Len(made) : made[i] = ms[e].calls[c]
    BY <1>3
  <2>13. QED
    BY <2>8, <2>11, <2>12
<1>6. ASSUME NEW i \in 1 .. Len(made)
      PROVE  \E k \in 1 .. Len(s) : \E l \in 1 .. Len(s[k].items) :
               s[k].items[l].kind = "call" /\ made[i] = s[k].items[l]
  <2>1. PICK j \in 1 .. Len(ms) : \E c \in 1 .. Len(ms[j].calls) : made[i] = ms[j].calls[c]
    BY <1>3
  <2>2. PICK c \in 1 .. Len(ms[j].calls) : made[i] = ms[j].calls[c]
    BY <2>1
  <2>3. ms[j].calls # << >>
    BY <1>4
  <2>4. PICK k \in 1 .. Len(s) : \E l \in 1 .. Len(TurnOf(s, k)) : ms[j] = TurnOf(s, k)[l]
    BY <1>1, <2>3
  <2>5. Paired(s[k], TurnOf(s, k))
    BY <1>2
  <2>6. \E l \in 1 .. Len(s[k].items) : s[k].items[l].kind = "call" /\ ms[j].calls[c] = s[k].items[l]
    <3> DEFINE kk == TurnOf(s, k)
    <3>1. PICK a \in 1 .. Len(kk) : ms[j] = kk[a]
      BY <2>4
    <3>2. Paired(s[k], kk)
      BY <2>5
    <3> HIDE DEF kk
    <3>3. \A d \in 1 .. Len(kk[a].calls) :
             \E l \in 1 .. Len(s[k].items) : s[k].items[l].kind = "call" /\ kk[a].calls[d] = s[k].items[l]
      BY <3>2 DEF Paired
    <3>4. QED
      BY <3>1, <3>3
  <2>7. QED
    BY <2>2, <2>6
<1>7. QED
  BY <1>5, <1>6 DEF ms, made

\* Calls(Items(s)) has every call that was said.
LEMMA CallsSaid ==
  ASSUME NEW s, FineTalk(s), NEW k \in 1 .. Len(s), NEW l \in 1 .. Len(s[k].items),
         s[k].items[l].kind = "call"
  PROVE  \E i \in DOMAIN Calls(Items(s)) : Calls(Items(s))[i] = s[k].items[l]
<1> DEFINE tt == [j \in 1 .. Len(s) |-> s[j].items]
           flat == FlattenSeq(tt)
<1>1. /\ Len(s) \in Nat /\ DOMAIN s = 1 .. Len(s)
      /\ \A j \in 1 .. Len(s) : IsSeq(s[j].items)
  BY SeqFacts DEF FineTalk, FineTurn
<1>2. Items(s) = flat
  BY <1>1 DEF Items, EachOf
<1>3. /\ tt = [j \in 1 .. Len(s) |-> tt[j]]
      /\ \A j \in 1 .. Len(s) : tt[j] = s[j].items /\ IsSeq(tt[j])
  BY <1>1
<1> HIDE DEF tt
<1>4. Lists(tt) /\ Len(tt) = Len(s)
  BY <1>1, <1>3, FamilyLists
<1>5. k \in 1 .. Len(tt) /\ tt[k] = s[k].items
  BY <1>3, <1>4
<1>6. l \in 1 .. Len(tt[k])
  BY <1>5
<1>7. PICK f \in 1 .. Len(flat) : flat[f] = tt[k][l]
  BY <1>4, <1>5, <1>6, FlattenedHas
<1>8. IsSeq(flat)
  BY <1>4, FlattenedSeq
<1> HIDE DEF flat
<1>9. flat[f].kind \in {"call"}
  BY <1>5, <1>7
<1> DEFINE cc == OfKind(flat, {"call"})
<1>10. IsSeq(cc) /\ \E i \in 1 .. Len(cc) : cc[i] = flat[f]
  <2>1. /\ IsSeq(cc)
        /\ \A g \in 1 .. Len(flat) : flat[g].kind \in {"call"} =>
             \E i \in 1 .. Len(cc) : cc[i] = flat[g]
    BY <1>8, KindedFacts
  <2> HIDE DEF cc
  <2>2. QED
    BY <1>9, <2>1
<1>11. Calls(Items(s)) = cc
  BY <1>2 DEF Calls
<1> HIDE DEF cc
<1>12. DOMAIN cc = 1 .. Len(cc)
  BY <1>10, SeqFacts
<1>13. QED
  BY <1>5, <1>7, <1>10, <1>11, <1>12

\* What fits makes the calls there were.
LEMMA FittedCalls ==
  ASSUME NEW ms, Worded(ms)
  PROVE  CallsMade(Fitted(ms)) = CallsMade(ms)
<1> DEFINE fs == Fitted(ms)
<1>1. IsSeq(fs) /\ Len(fs) = Len(ms) /\ \A j \in 1 .. Len(ms) : fs[j].calls = ms[j].calls
  BY FittedFacts
<1> HIDE DEF fs
<1>2. DOMAIN fs = 1 .. Len(ms) /\ DOMAIN ms = 1 .. Len(ms)
  BY <1>1, SeqFacts DEF Worded
<1>3. [j \in DOMAIN fs |-> fs[j].calls] = [j \in DOMAIN ms |-> ms[j].calls]
  BY <1>1, <1>2
<1>4. CallsMade(fs) = CallsMade(ms)
  BY <1>3 DEF CallsMade, EachOf
<1>5. QED
  BY <1>4 DEF fs

-----------------------------------------------------------------------------
(* The body of a beginning *)

\* The pieces of a body are those of what its messages are sent as.
LEMMA PiecesOf ==
  ASSUME Target.dialect \in Dialects, NEW req, "messages" \in DOMAIN req, Worded(req.messages)
  PROVE  LET said1 == Sent(Target, Fitted(req.messages))
         IN  /\ Lists(said1) /\ Len(said1) = Len(req.messages)
             /\ Pieces(BuildOutbound(Target, FitFor(Target, req)).turns) =
                  Unhinted(FlattenSeq(said1))
<1> DEFINE ms == req.messages
           fit == FitFor(Target, req)
           fs == Fitted(ms)
           turns == BuildOutbound(Target, fit).turns
           bb == Sent(Target, fs)
           flat == FlattenSeq(bb)
<1>1. fit.messages = fs
  BY FitMessages DEF Fitted
<1>2. /\ IsSeq(fs) /\ Len(fs) = Len(ms)
      /\ \A j \in 1 .. Len(ms) :
           /\ IsMessage(fs[j])
           /\ Target.dialect = "Codex" =>
                \A i \in 1 .. Len(fs[j].content) : fs[j].content[i].kind # "file"
  BY FittedFacts, ZenonT(30)
<1> HIDE DEF fs
<1>3. /\ IsSeq(fit.messages)
      /\ \A j \in 1 .. Len(fit.messages) :
           /\ IsMessage(fit.messages[j])
           /\ Target.dialect = "Codex" =>
                \A i \in 1 .. Len(fit.messages[j].content) : fit.messages[j].content[i].kind # "file"
  BY <1>1, <1>2
<1> HIDE DEF fit
<1>4. /\ Lists(bb) /\ Len(bb) = Len(ms) /\ Bodied(turns)
      /\ Blocks(turns) = flat \/ Blocks(turns) = Cat(flat, <<Hint>>)
  <2>1. LET sent1 == Sent(Target, fit.messages)
        IN  /\ Lists(sent1) /\ Len(sent1) = Len(fit.messages) /\ Bodied(turns)
            /\ \/ Blocks(turns) = FlattenSeq(sent1)
               \/ Target.dialect = "Codex" /\ Blocks(turns) = Cat(FlattenSeq(sent1), <<Hint>>)
    BY <1>3, BodyBlocks
  <2>2. QED
    BY <1>1, <1>2, <2>1
<1>5. IsSeq(flat)
  BY <1>4, FlattenedSeq
<1> HIDE DEF turns, bb, flat
<1>6. Pieces(turns) = Unhinted(Blocks(turns))
  BY <1>4, PiecesFacts
<1>7. Unhinted(Cat(flat, <<Hint>>)) = Unhinted(flat)
  <2>1. IsSeq(<<Hint>>)
    BY Singleton
  <2>2. Unhinted(Cat(flat, <<Hint>>)) = Cat(Unhinted(flat), << >>) /\ IsSeq(Unhinted(flat))
    BY <1>5, <2>1, UnhintedJoined
  <2>3. QED
    BY <2>2, CatFacts
<1>8. Pieces(turns) = Unhinted(flat)
  BY <1>4, <1>6, <1>7
<1>9. QED
  BY <1>4, <1>8 DEF ms, fit, fs, turns, bb, flat

\* A request that another continues: its body begins the other's, under the same key
\* and with the same for the system.
LEMMA BodyGrows ==
  ASSUME Target.dialect \in Dialects, NEW r, NEW s, "messages" \in DOMAIN r,
         "messages" \in DOMAIN s, Asked(r), Asked(s), NEW rest,
         Worded(r.messages), Worded(rest), Worded(s.messages),
         s.messages = Cat(r.messages, rest),
         \A j \in 1 .. Len(rest) : rest[j].role \notin System,
         Target.dialect = "Gemini" =>
           /\ \A j \in 1 .. Len(r.messages) : r.messages[j].role = "tool" =>
                \E i \in 1 .. Len(CallsMade(r.messages)) :
                  CallsMade(r.messages)[i].id = r.messages[j].result.id
           /\ LET made == CallsMade(s.messages)
              IN  \A i, k \in 1 .. Len(made) : made[i].id = made[k].id => made[i].name = made[k].name
  PROVE  LET before == BuildOutbound(Target, FitFor(Target, r))
             now == BuildOutbound(Target, FitFor(Target, s))
         IN  /\ IsPrefix(Pieces(before.turns), Pieces(now.turns))
             /\ before.key = now.key /\ before.system = now.system
<1> DEFINE a == Fitted(r.messages)
           b == Fitted(rest)
           u == Fitted(s.messages)
           sa == Sent(Target, a)
           su == Sent(Target, u)
           before == BuildOutbound(Target, FitFor(Target, r))
           now == BuildOutbound(Target, FitFor(Target, s))
<1>1. /\ Lists(sa) /\ Len(sa) = Len(r.messages) /\ Pieces(before.turns) = Unhinted(FlattenSeq(sa))
      /\ Lists(su) /\ Len(su) = Len(s.messages) /\ Pieces(now.turns) = Unhinted(FlattenSeq(su))
  BY PiecesOf
<1>2. u = Cat(a, b)
  BY FittedJoined
<1>3. /\ IsSeq(a) /\ Len(a) = Len(r.messages)
      /\ \A j \in 1 .. Len(a) : IsMessage(a[j]) /\ a[j].role = r.messages[j].role
                                  /\ a[j].result = r.messages[j].result
  BY FittedFacts
<1>4. /\ IsSeq(b) /\ Len(b) = Len(rest)
      /\ \A j \in 1 .. Len(b) : IsMessage(b[j]) /\ b[j].role \notin System
  BY FittedFacts
<1>5. CallsMade(a) = CallsMade(r.messages) /\ CallsMade(u) = CallsMade(s.messages)
  BY FittedCalls
<1>6. FitFor(Target, r).messages = a /\ FitFor(Target, s).messages = u
  BY FitMessages DEF Fitted
<1>7. Asked(FitFor(Target, r)) /\ Asked(FitFor(Target, s))
  BY FitAsked
<1> HIDE DEF a, b, u
<1>8. \A j \in 1 .. Len(a) : su[j] = sa[j]
  <2>1. Target.dialect = "Gemini" =>
           /\ \A j \in 1 .. Len(a) : a[j].role = "tool" =>
                \E i \in 1 .. Len(CallsMade(a)) : CallsMade(a)[i].id = a[j].result.id
           /\ LET made == CallsMade(Cat(a, b))
              IN  \A i, k \in 1 .. Len(made) : made[i].id = made[k].id => made[i].name = made[k].name
    BY <1>2, <1>3, <1>5
  <2>2. \A j \in 1 .. Len(a) : Sent(Target, Cat(a, b))[j] = Sent(Target, a)[j]
    BY <1>3, <1>4, <2>1, SentStays
  <2>3. QED
    BY <1>2, <2>2
<1> HIDE DEF sa, su
<1>9. Len(sa) \in 0 .. Len(su) /\ IsSeq(sa) /\ IsSeq(su)
  <2>1. Len(s.messages) = Len(r.messages) + Len(rest) /\ Len(rest) \in Nat /\ Len(r.messages) \in Nat
    BY Joined, SeqFacts DEF Worded, Cat
  <2>2. QED
    BY <1>1, <2>1 DEF Lists
<1> DEFINE n == Len(sa)
           p == SubSeq(su, 1, n)
           q == SubSeq(su, n + 1, Len(su))
<1>10. /\ IsSeq(p) /\ Len(p) = n /\ \A i \in 1 .. n : p[i] = su[i]
       /\ IsSeq(q) /\ Len(q) = Len(su) - n /\ \A i \in 1 .. Len(q) : q[i] = su[n + i]
       /\ su = Cat(p, q)
  BY <1>9, Cut
<1> HIDE DEF p, q
<1>11. p = sa
  <2>1. \A i \in 1 .. Len(p) : p[i] = sa[i]
    BY <1>1, <1>3, <1>8, <1>10
  <2>2. QED
    BY <1>9, <1>10, <2>1, SameSeq
<1>12. Lists(q)
  <2>1. ASSUME NEW i \in 1 .. Len(q)
        PROVE  IsSeq(q[i])
    <3>1. Len(su) \in Nat /\ n \in Nat
      BY <1>9, SeqFacts
    <3>2. n + i \in 1 .. Len(su)
      BY <1>10, <3>1
    <3>3. QED
      BY <1>1, <1>10, <3>2 DEF Lists
  <2>2. QED
    BY <1>10, <2>1 DEF Lists
<1>13. FlattenSeq(su) = Cat(FlattenSeq(sa), FlattenSeq(q))
  BY <1>1, <1>10, <1>11, <1>12, FlattenedJoin DEF Cat
<1>14. IsPrefix(Pieces(before.turns), Pieces(now.turns))
  <2>1. IsSeq(FlattenSeq(sa)) /\ IsSeq(FlattenSeq(q))
    BY <1>1, <1>12, FlattenedSeq
  <2>2. /\ Unhinted(FlattenSeq(su)) = Cat(Unhinted(FlattenSeq(sa)), Unhinted(FlattenSeq(q)))
        /\ IsSeq(Unhinted(FlattenSeq(sa))) /\ IsSeq(Unhinted(FlattenSeq(q)))
    BY <1>13, <2>1, UnhintedJoined
  <2>3. QED
    BY <1>1, <2>2, BeginsWith
<1>15. before.key = now.key /\ before.system = now.system
  <2>1. SystemTexts(u) = SystemTexts(a)
    BY <1>2, <1>3, <1>4, SystemTextsJoined
  <2> DEFINE f == FitFor(Target, r)
             g == FitFor(Target, s)
  <2>2. f.tools = g.tools /\ f.extra = g.extra /\ SystemTexts(f.messages) = SystemTexts(g.messages)
    BY <1>6, <1>7, <2>1 DEF Asked
  <2> HIDE DEF f, g
  <2>3. /\ BuildOutbound(Target, f).system = BuildOutbound(Target, g).system
        /\ BuildOutbound(Target, f).key = BuildOutbound(Target, g).key
    BY <2>2, BodySystem
  <2>4. QED
    BY <2>3 DEF f, g
<1>16. QED
  BY <1>14, <1>15

-----------------------------------------------------------------------------
(* What is sent again *)

\* The instructions of a conversation are before what the user says.
Ordered(s) ==
  \A i, j \in 1 .. Len(s) : i < j /\ s[i].role = "user" => s[j].role \notin System
SystemFirst == \A surface \in Surfaces : \A o \in Openings[surface] : Ordered(o)

\* With the inductive invariant: every result is of a call before it.
PInv == IInv /\ Answerable(said) /\ Ordered(said)

\* ResultOf: a result has the id of its call.
LEMMA ResultId ==
  ASSUME NEW call, IsItem(call)
  PROVE  ResultOf(call).id = call.id
<1>1. PICK p : ResultOf(call) = [call EXCEPT !.kind = "result", !.data = None, !.parts = p]
  BY DEF ResultOf
<1>2. [call EXCEPT !.kind = "result", !.data = None, !.parts = p].id = call.id
  BY DEF IsItem
<1>3. QED
  BY <1>1, <1>2

\* A turn that is not an instruction, whose results are of calls made before.
LEMMA GrowsAnswerable ==
  ASSUME NEW s, IsSeq(s), Answerable(s), Ordered(s), NEW x, x.role \notin System,
         \A i \in 1 .. Len(x.items) : x.items[i].kind = "result" =>
           \E j \in 1 .. Len(s) : \E l \in 1 .. Len(s[j].items) :
             s[j].items[l].kind = "call" /\ s[j].items[l].id = x.items[i].id
  PROVE  Answerable(Append(s, x)) /\ Ordered(Append(s, x))
<1> DEFINE t == Append(s, x)
           n == Len(s)
<1>1. /\ n \in Nat /\ Len(t) = n + 1 /\ t[n + 1] = x /\ \A i \in 1 .. n : t[i] = s[i]
  BY Appended, SeqFacts
<1> HIDE DEF t
<1>2. \A k \in 1 .. Len(t) : k \in 1 .. n \/ k = n + 1
  BY <1>1
<1>3. ASSUME NEW k \in 1 .. Len(t), NEW i \in 1 .. Len(t[k].items), t[k].items[i].kind = "result"
      PROVE  \E j \in 1 .. k - 1 : \E l \in 1 .. Len(t[j].items) :
               t[j].items[l].kind = "call" /\ t[j].items[l].id = t[k].items[i].id
  <2>1. CASE k \in 1 .. n
    <3>1. t[k] = s[k]
      BY <1>1, <2>1
    <3>2. PICK j \in 1 .. k - 1 : \E l \in 1 .. Len(s[j].items) :
            s[j].items[l].kind = "call" /\ s[j].items[l].id = t[k].items[i].id
      BY <1>3, <2>1, <3>1, SMTT(30) DEF Answerable
    <3>3. t[j] = s[j]
      BY <1>1, <2>1
    <3>4. QED
      BY <3>2, <3>3
  <2>2. CASE k = n + 1
    <3>1. t[k] = x /\ 1 .. k - 1 = 1 .. n
      BY <1>1, <2>2
    <3>2. PICK j \in 1 .. n : \E l \in 1 .. Len(s[j].items) :
            s[j].items[l].kind = "call" /\ s[j].items[l].id = t[k].items[i].id
      BY <1>3, <3>1
    <3>3. t[j] = s[j]
      BY <1>1
    <3>4. QED
      BY <3>1, <3>2, <3>3
  <2>3. QED
    BY <1>2, <2>1, <2>2
<1>4. ASSUME NEW i \in 1 .. Len(t), NEW j \in 1 .. Len(t), i < j, t[i].role = "user"
      PROVE  t[j].role \notin System
  <2>1. CASE j = n + 1
    BY <1>1, <2>1
  <2>2. CASE j \in 1 .. n
    <3>1. i \in 1 .. n /\ t[i] = s[i] /\ t[j] = s[j]
      BY <1>1, <1>4, <2>2
    <3>2. QED
      BY <1>4, <2>2, <3>1 DEF Ordered
  <2>3. QED
    BY <1>2, <2>1, <2>2
<1>5. QED
  BY <1>3, <1>4 DEF Answerable, Ordered, t

\* What a client says next answers the calls of the last turn.
LEMMA NextAnswers ==
  ASSUME NEW s, FineTalk(s), s # << >>, NEW more \in Seq(Contents)
  PROVE  LET items == EachOf(ResultOf, Calls(Last(s).items)) \o more
         IN  \A i \in 1 .. Len(items) : items[i].kind = "result" =>
               \E j \in 1 .. Len(s) : \E l \in 1 .. Len(s[j].items) :
                 s[j].items[l].kind = "call" /\ s[j].items[l].id = items[i].id
<1> DEFINE n == Len(s)
           last == s[n]
           calls == Calls(last.items)
           results == EachOf(ResultOf, calls)
           items == results \o more
<1>1. n \in 1 .. Len(s) /\ Last(s) = last
  <2>1. n \in Nat /\ n # 0
    BY SeqFacts DEF FineTalk
  <2>2. QED
    BY <2>1 DEF Last
<1>2. IsSeq(last.items) /\ \A i \in 1 .. Len(last.items) : IsItem(last.items[i])
  <2>1. FineTurn(last)
    BY <1>1 DEF FineTalk
  <2> HIDE DEF last
  <2>2. QED
    BY <2>1 DEF FineTurn, FineItem
<1> HIDE DEF last
<1>3. /\ IsSeq(calls)
      /\ \A k \in 1 .. Len(calls) : \E l \in 1 .. Len(last.items) :
           calls[k] = last.items[l] /\ last.items[l].kind = "call"
  <2>1. /\ IsSeq(calls)
        /\ \A k \in 1 .. Len(calls) :
             /\ calls[k].kind \in {"call"}
             /\ \E l \in 1 .. Len(last.items) : calls[k] = last.items[l]
    BY <1>2, KindedFacts DEF Calls
  <2> HIDE DEF calls
  <2>2. QED
    BY <2>1
<1> HIDE DEF calls
<1>4. /\ IsSeq(results) /\ Len(results) = Len(calls)
      /\ \A k \in 1 .. Len(calls) : results[k] = ResultOf(calls[k])
  <2>1. Len(calls) \in Nat /\ DOMAIN calls = 1 .. Len(calls)
    BY <1>3, SeqFacts
  <2>2. /\ results = [k \in 1 .. Len(calls) |-> results[k]]
        /\ \A k \in 1 .. Len(calls) : results[k] = ResultOf(calls[k])
    BY <2>1 DEF EachOf
  <2> HIDE DEF results
  <2>3. QED
    BY <2>1, <2>2, FamilySeq
<1>5. IsSeq(more) /\ \A i \in 1 .. Len(more) : more[i].kind \in {"text"} \cup Media
  BY FineContents
<1> HIDE DEF results
<1>6. /\ Len(items) = Len(results) + Len(more)
      /\ \A i \in 1 .. Len(results) + Len(more) :
           \/ i \in 1 .. Len(results) /\ items[i] = results[i]
           \/ i - Len(results) \in 1 .. Len(more) /\ items[i] = more[i - Len(results)]
  BY <1>4, <1>5, Joined
<1> HIDE DEF items
<1>7. ASSUME NEW i \in 1 .. Len(items), items[i].kind = "result"
      PROVE  \E l \in 1 .. Len(last.items) :
               last.items[l].kind = "call" /\ last.items[l].id = items[i].id
  <2>1. CASE i \in 1 .. Len(results) /\ items[i] = results[i]
    <3>1. i \in 1 .. Len(calls) /\ items[i] = ResultOf(calls[i])
      BY <1>4, <2>1
    <3>2. PICK l \in 1 .. Len(last.items) :
            calls[i] = last.items[l] /\ last.items[l].kind = "call"
      BY <1>3, <3>1
    <3> DEFINE y == last.items[l]
    <3>3. IsItem(y) /\ items[i] = ResultOf(y)
      BY <1>2, <3>1, <3>2
    <3> HIDE DEF y
    <3>4. items[i].id = y.id
      BY <3>3, ResultId
    <3>5. QED
      BY <3>2, <3>4 DEF y
  <2>2. CASE i - Len(results) \in 1 .. Len(more) /\ items[i] = more[i - Len(results)]
    <3>1. items[i].kind \in {"text"} \cup Media
      BY <1>5, <2>2
    <3>2. QED
      BY <1>7, <3>1 DEF Media
  <2>3. QED
    BY <1>6, <2>1, <2>2
<1>8. \A i \in 1 .. Len(items) : items[i].kind = "result" =>
        \E l \in 1 .. Len(s[n].items) : s[n].items[l].kind = "call" /\ s[n].items[l].id = items[i].id
  BY <1>7 DEF last
<1>9. \A i \in 1 .. Len(items) : items[i].kind = "result" =>
        \E j \in 1 .. Len(s) : \E l \in 1 .. Len(s[j].items) :
          s[j].items[l].kind = "call" /\ s[j].items[l].id = items[i].id
  BY <1>1, <1>8
<1>10. QED
  BY <1>1, <1>9 DEF items, results, calls

\* A client opens with its instructions, and with no result.
LEMMA PrefixStart ==
  ASSUME SystemFirst, Init
  PROVE  PInv
<1>1. IInv
  BY ChatStart
<1>2. ask.client \in Surfaces /\ said \in Openings[ask.client] /\ said \in Seq(Turns)
  BY ConversationAssumption DEF ConversationAssumption, Init
<1>3. Ordered(said)
  BY <1>2 DEF SystemFirst
<1>4. Answerable(said)
  <2> SUFFICES ASSUME NEW k \in 1 .. Len(said), NEW i \in 1 .. Len(said[k].items)
               PROVE  said[k].items[i].kind # "result"
    BY DEF Answerable
  <2> DEFINE x == said[k]
  <2>1. x \in Turns
    BY <1>2
  <2> HIDE DEF x
  <2>2. x.items \in Seq(Contents)
    BY <2>1 DEF Turns
  <2>3. \A l \in 1 .. Len(x.items) : x.items[l].kind \in {"text"} \cup Media
    BY <2>2, FineContents
  <2>4. QED
    BY <2>3 DEF Media, x
<1>5. QED
  BY <1>1, <1>3, <1>4 DEF PInv

\* Every step keeps the order of the instructions, and of calls and results.
LEMMA PrefixStep ==
  ASSUME PInv, [Next]_vars
  PROVE  PInv'
<1>1. IInv'
  BY ChatStep DEF PInv
<1>2. Answerable(said) /\ Ordered(said) /\ FineTalk(said)
  BY DEF PInv, IInv
<1>3. CASE UNCHANGED said
  <2>1. Answerable(said)' /\ Ordered(said)'
    BY <1>2, <1>3 DEF Answerable, Ordered
  <2>2. QED
    BY <1>1, <2>1 DEF PInv
<1>4. ASSUME NEW reply \in Replies, Answer(reply)
      PROVE  PInv'
  <2> DEFINE x == [role |-> "assistant", items |-> Identified(reply)]
  <2>1. said' = Append(said, x)
    BY <1>4 DEF Answer
  <2>2. FineTurn(x) /\ x.role = "assistant"
    BY <1>4, FineAnswer, ConversationAssumption DEF ConversationAssumption
  <2> HIDE DEF x
  <2>3. x.role \notin System /\ \A i \in 1 .. Len(x.items) : x.items[i].kind # "result"
    BY <2>2 DEF FineTurn, System
  <2>4. Answerable(said') /\ Ordered(said')
    BY <1>2, <2>1, <2>3, GrowsAnswerable DEF FineTalk
  <2>5. QED
    BY <1>1, <2>4 DEF PInv, Answerable, Ordered
<1>5. ASSUME NEW more \in FollowUps, Say(more)
      PROVE  PInv'
  <2> DEFINE items == EachOf(ResultOf, Calls(Last(said).items)) \o more
             x == [role |-> "user", items |-> items]
  <2>1. said' = Append(said, x) /\ pc = "idle"
    BY <1>5 DEF Say
  <2>2. said # << >> /\ more \in Seq(Contents)
    BY <1>5, <2>1, ConversationAssumption DEF ConversationAssumption, PInv, IInv
  <2>3. \A i \in 1 .. Len(items) : items[i].kind = "result" =>
          \E j \in 1 .. Len(said) : \E l \in 1 .. Len(said[j].items) :
            said[j].items[l].kind = "call" /\ said[j].items[l].id = items[i].id
    BY <1>2, <2>2, NextAnswers, SMTT(30)
  <2>4. x.role = "user" /\ x.items = items
    OBVIOUS
  <2> HIDE DEF x, items
  <2>5. x.role \notin System
    BY <2>4 DEF System
  <2>6. Answerable(said') /\ Ordered(said')
    BY <1>2, <2>1, <2>3, <2>4, <2>5, GrowsAnswerable DEF FineTalk
  <2>7. QED
    BY <1>1, <2>6 DEF PInv, Answerable, Ordered
<1>6. QED
  BY <1>3, <1>4, <1>5 DEF Next, Relay, Translate, Refuse, Advance, vars

\* The invariant has PrefixKept.
LEMMA ChatKept ==
  ASSUME PInv
  PROVE  PrefixKept
<1> SUFFICES ASSUME Translated, ~(Target.dialect = "Gemini" /\ Clash),
                    NEW n \in DOMAIN said, said[n].role = "user"
             PROVE  LET before == BodyFor(Target, SubSeq(said, 1, n))
                    IN  /\ IsPrefix(Pieces(before.turns), Pieces(sent.turns))
                        /\ before.key = sent.key /\ before.system = sent.system
  BY DEF PrefixKept
<1> DEFINE p == SubSeq(said, 1, n)
           r == RequestToInternal(ask, p)
           s == RequestToInternal(ask, said)
<1>1. IInv /\ FineTalk(said) /\ Answerable(said) /\ Ordered(said)
  BY DEF PInv, IInv
<1>2. Target.dialect \in Dialects /\ ask.client \in Surfaces
  BY <1>1, TargetFacts
<1>3. sent = BodyFor(Target, said)
  BY <1>1 DEF IInv
<1>4. BodyFor(Target, p) = BuildOutbound(Target, FitFor(Target, r))
        /\ BodyFor(Target, said) = BuildOutbound(Target, FitFor(Target, s))
  BY DEF BodyFor, FitFor
<1>5. IsSeq(said) /\ Len(said) \in Nat /\ n \in 1 .. Len(said)
  BY <1>1, SeqFacts DEF FineTalk
<1>6. \A k \in 1 .. Len(said) : k > n => said[k].role \notin System
  BY <1>1, <1>5 DEF Ordered
<1>7. /\ FineTalk(p) /\ Worded(r.messages) /\ Worded(s.messages)
      /\ \E rest : /\ Worded(rest) /\ \A j \in 1 .. Len(rest) : rest[j].role \notin System
                   /\ s.messages = Cat(r.messages, rest)
  BY <1>1, <1>2, <1>5, <1>6, RequestGrows
<1>8. Asked(r) /\ Asked(s) /\ "messages" \in DOMAIN r /\ "messages" \in DOMAIN s
  BY <1>1, <1>2, <1>7, RequestAsked, RequestOfTurns
<1>9. Answerable(p)
  <2>1. n \in 0 .. Len(said)
    BY <1>5
  <2>2. Len(p) = n /\ \A k \in 1 .. n : p[k] = said[k]
    BY <1>5, <2>1, Cut
  <2> HIDE DEF p
  <2>3. ASSUME NEW k \in 1 .. Len(p), NEW i \in 1 .. Len(p[k].items), p[k].items[i].kind = "result"
        PROVE  \E j \in 1 .. k - 1 : \E l \in 1 .. Len(p[j].items) :
                 p[j].items[l].kind = "call" /\ p[j].items[l].id = p[k].items[i].id
    <3>1. k \in 1 .. Len(said) /\ p[k] = said[k]
      BY <1>5, <2>2
    <3>2. PICK j \in 1 .. k - 1 : \E l \in 1 .. Len(said[j].items) :
            said[j].items[l].kind = "call" /\ said[j].items[l].id = p[k].items[i].id
      BY <1>1, <2>3, <3>1, SMTT(30) DEF Answerable
    <3>3. p[j] = said[j]
      BY <1>5, <2>2
    <3>4. QED
      BY <3>2, <3>3
  <2>4. QED
    BY <2>3 DEF Answerable
<1> DEFINE made == CallsMade(s.messages)
<1>10. ASSUME Target.dialect = "Gemini"
       PROVE  /\ \A j \in 1 .. Len(r.messages) : r.messages[j].role = "tool" =>
                   \E i \in 1 .. Len(CallsMade(r.messages)) :
                     CallsMade(r.messages)[i].id = r.messages[j].result.id
              /\ \A i, k \in 1 .. Len(made) : made[i].id = made[k].id => made[i].name = made[k].name
  <2>1. ask.client # "Gemini"
    BY <1>10 DEF Translated, Relays
  <2>2. \A j \in 1 .. Len(r.messages) : r.messages[j].role = "tool" =>
           \E i \in 1 .. Len(CallsMade(r.messages)) :
             CallsMade(r.messages)[i].id = r.messages[j].result.id
    BY <1>2, <1>7, <1>9, <2>1, RequestCalls
  <2>3. \A i \in 1 .. Len(made) : \E k \in 1 .. Len(said) : \E l \in 1 .. Len(said[k].items) :
           said[k].items[l].kind = "call" /\ made[i] = said[k].items[l]
    BY <1>1, <1>2, <2>1, RequestCalls
  <2> DEFINE calls == Calls(Items(said))
  <2> HIDE DEF made, calls
  <2>4. ASSUME NEW i \in 1 .. Len(made)
        PROVE  \E k \in DOMAIN calls : calls[k] = made[i]
    <3>1. PICK k \in 1 .. Len(said) : \E l \in 1 .. Len(said[k].items) :
             said[k].items[l].kind = "call" /\ made[i] = said[k].items[l]
      BY <2>3
    <3>2. PICK l \in 1 .. Len(said[k].items) :
             said[k].items[l].kind = "call" /\ made[i] = said[k].items[l]
      BY <3>1
    <3>3. \E e \in DOMAIN calls : calls[e] = said[k].items[l]
      BY <1>1, <3>2, CallsSaid DEF calls
    <3>4. QED
      BY <3>2, <3>3
  <2>5. \A e, f \in DOMAIN calls : calls[e].id = calls[f].id => calls[e].name = calls[f].name
    BY <1>10 DEF Clash, calls
  <2>6. \A i, k \in 1 .. Len(made) : made[i].id = made[k].id => made[i].name = made[k].name
    <3> TAKE i, k \in 1 .. Len(made)
    <3>1. PICK e \in DOMAIN calls : calls[e] = made[i]
      BY <2>4
    <3>2. PICK f \in DOMAIN calls : calls[f] = made[k]
      BY <2>4
    <3>3. QED
      BY <2>5, <3>1, <3>2
  <2>7. QED
    BY <2>2, <2>6
<1>11. PICK rest : /\ Worded(rest) /\ \A j \in 1 .. Len(rest) : rest[j].role \notin System
                   /\ s.messages = Cat(r.messages, rest)
  BY <1>7
<1> HIDE DEF p, r, s
<1>12. LET before == BuildOutbound(Target, FitFor(Target, r))
           now == BuildOutbound(Target, FitFor(Target, s))
       IN  /\ IsPrefix(Pieces(before.turns), Pieces(now.turns))
           /\ before.key = now.key /\ before.system = now.system
  BY <1>2, <1>7, <1>8, <1>10, <1>11, BodyGrows
<1>13. QED
  BY <1>3, <1>4, <1>12 DEF p

\* If clients open with their instructions, what a target is sent for a conversation
\* begins with what it would have been sent before, under the same key.  For Gemini if
\* no two calls of different names share an id.
THEOREM PrefixKeptHolds ==
  ASSUME SystemFirst
  PROVE  Spec => []PrefixKept
<1>1. Init => PInv
  BY PrefixStart
<1>2. PInv /\ [Next]_vars => PInv'
  BY PrefixStep
<1>3. PInv => PrefixKept
  BY ChatKept
<1>4. QED
  BY <1>1, <1>2, <1>3, PTL DEF Spec
===============================================================================
