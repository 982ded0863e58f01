---------------------------- MODULE StreamsProofs ----------------------------
(***************************************************************************)
(* Theorems about an answer on its way through the gateway, for any        *)
(* answers, any dialects and any way the network cuts the bytes.           *)
(***************************************************************************)
EXTENDS Streams, SequenceTheorems, WellFoundedInduction, TLAPS

-----------------------------------------------------------------------------
(* Numbers *)

LEMMA Least ==
  ASSUME NEW T \in SUBSET Nat, T # {}
  PROVE  \E m \in T : \A k \in T : m <= k
<1> DEFINE R == OpToRel(<, Nat)
<1>1. R = {ss \in Nat \X Nat : ss[1] < ss[2]}
  BY DEF OpToRel
<1>2. IsWellFoundedOn(R, Nat)
  BY NatLessThanWellFounded
<1> HIDE DEF R
<1>3. PICK x \in T : \A y \in T : ~ (<<y, x>> \in R)
  BY <1>2, WFMin
<1>4. \A y \in T : ~ (y < x)
  BY <1>1, <1>3
<1>5. QED
  BY <1>3, <1>4

\* Induction: a set that has zero, and with a number the next, has all of them.
LEMMA Climb ==
  ASSUME NEW T \in SUBSET Nat, 0 \in T, \A k \in T : k + 1 \in T
  PROVE  T = Nat
<1> SUFFICES ASSUME Nat \ T # {}
             PROVE  FALSE
  OBVIOUS
<1>1. PICK m \in Nat \ T : \A k \in Nat \ T : m <= k
  BY Least
<1>2. m # 0 /\ m - 1 \in Nat
  BY <1>1
<1>3. m - 1 \in T
  BY <1>1, <1>2
<1>4. m - 1 + 1 = m
  BY <1>1
<1>5. QED
  BY <1>1, <1>3, <1>4

LEMMA MinIsLeast ==
  ASSUME NEW S \in SUBSET Nat, S # {}
  PROVE  Min(S) \in S /\ \A k \in S : Min(S) <= k
<1>1. \E m \in S : \A k \in S : m <= k
  BY Least
<1>2. QED
  BY <1>1 DEF Min

-----------------------------------------------------------------------------
(* Sequences *)

IsSeq(s) == \E S : s \in Seq(S)

LEMMA SeqFacts ==
  ASSUME NEW s, IsSeq(s)
  PROVE  /\ Len(s) \in Nat /\ DOMAIN s = 1 .. Len(s)
         /\ s = [i \in 1 .. Len(s) |-> s[i]]
         /\ Len(s) = 0 <=> s = << >>
<1>1. PICK S : s \in Seq(S)
  BY DEF IsSeq
<1>2. QED
  BY <1>1

LEMMA FamilyIsSeq ==
  ASSUME NEW n \in Nat, NEW X, NEW s \in [1 .. n -> X]
  PROVE  IsSeq(s) /\ Len(s) = n
<1>1. s \in Seq(X)
  BY SeqDef
<1>2. DOMAIN s = 1 .. n /\ DOMAIN s = 1 .. Len(s) /\ Len(s) \in Nat
  BY <1>1
<1>3. Len(s) = n
  BY <1>2
<1>4. IsSeq(s)
  BY <1>1 DEF IsSeq
<1>5. QED
  BY <1>3, <1>4

LEMMA SameSeq ==
  ASSUME NEW s, NEW t, IsSeq(s), IsSeq(t), Len(s) = Len(t),
         \A i \in 1 .. Len(s) : s[i] = t[i]
  PROVE  s = t
BY SeqFacts

LEMMA Joined ==
  ASSUME NEW s, NEW t, IsSeq(s), IsSeq(t)
  PROVE  /\ IsSeq(s \o t)
         /\ Len(s \o t) = Len(s) + Len(t)
         /\ \A i \in 1 .. Len(s) : (s \o t)[i] = s[i]
         /\ \A i \in 1 .. Len(t) : (s \o t)[Len(s) + i] = t[i]
         /\ \A i \in 1 .. Len(s) + Len(t) :
              \/ i \in 1 .. Len(s) /\ (s \o t)[i] = s[i]
              \/ i - Len(s) \in 1 .. Len(t) /\ (s \o t)[i] = t[i - Len(s)]
<1>1. PICK S : s \in Seq(S)
  BY DEF IsSeq
<1>2. PICK T : t \in Seq(T)
  BY DEF IsSeq
<1> DEFINE U == S \cup T
<1>3. s \in Seq(U) /\ t \in Seq(U)
  BY <1>1, <1>2
<1> HIDE DEF U
<1>4. s \o t \in Seq(U)
  BY <1>3
<1>5. Len(s \o t) = Len(s) + Len(t)
  BY <1>3
<1>6. \A i \in 1 .. Len(s) + Len(t) :
        (s \o t)[i] = IF i <= Len(s) THEN s[i] ELSE t[i - Len(s)]
  BY <1>3
<1>7. Len(s) \in Nat /\ Len(t) \in Nat
  BY <1>3
<1> HIDE DEF IsSeq
<1>8. \A i \in 1 .. Len(s) : (s \o t)[i] = s[i]
  BY <1>6, <1>7
<1>9. \A i \in 1 .. Len(t) : (s \o t)[Len(s) + i] = t[i]
  BY <1>6, <1>7
<1>10. \A i \in 1 .. Len(s) + Len(t) :
         \/ i \in 1 .. Len(s) /\ (s \o t)[i] = s[i]
         \/ i - Len(s) \in 1 .. Len(t) /\ (s \o t)[i] = t[i - Len(s)]
  BY <1>6, <1>7
<1>11. QED
  BY <1>4, <1>5, <1>8, <1>9, <1>10 DEF IsSeq

LEMMA Associates ==
  ASSUME NEW p, NEW q, NEW r, IsSeq(p), IsSeq(q), IsSeq(r)
  PROVE  (p \o q) \o r = p \o (q \o r)
<1>1. PICK P : p \in Seq(P)
  BY DEF IsSeq
<1>2. PICK Q : q \in Seq(Q)
  BY DEF IsSeq
<1>3. PICK R : r \in Seq(R)
  BY DEF IsSeq
<1> DEFINE X == P \cup Q \cup R
<1>4. p \in Seq(X) /\ q \in Seq(X) /\ r \in Seq(X)
  BY <1>1, <1>2, <1>3
<1> HIDE DEF X
<1>5. QED
  BY <1>4, ConcatAssociative

LEMMA Neutral ==
  ASSUME NEW s, IsSeq(s)
  PROVE  s \o << >> = s /\ << >> \o s = s /\ IsSeq(<< >>)
<1>1. PICK S : s \in Seq(S)
  BY DEF IsSeq
<1>2. QED
  BY <1>1 DEF IsSeq

LEMMA Singleton ==
  ASSUME NEW x
  PROVE  IsSeq(<<x>>) /\ Len(<<x>>) = 1 /\ <<x>>[1] = x
<1>1. <<x>> \in Seq({x})
  OBVIOUS
<1>2. QED
  BY <1>1 DEF IsSeq

LEMMA Appended ==
  ASSUME NEW s, NEW x, IsSeq(s)
  PROVE  /\ IsSeq(Append(s, x)) /\ Len(Append(s, x)) = Len(s) + 1
         /\ \A i \in 1 .. Len(s) : Append(s, x)[i] = s[i]
         /\ Append(s, x)[Len(s) + 1] = x
         /\ Append(s, x) = s \o <<x>>
<1>1. PICK S : s \in Seq(S)
  BY DEF IsSeq
<1> DEFINE U == S \cup {x}
<1>2. s \in Seq(U) /\ x \in U
  BY <1>1
<1> HIDE DEF U
<1>3. Append(s, x) \in Seq(U)
  BY <1>2
<1>4. QED
  BY <1>2, <1>3 DEF IsSeq

\* What is written out is what is joined of its elements.
LEMMA Pair ==
  ASSUME NEW a, NEW b
  PROVE  <<a, b>> = <<a>> \o <<b>> /\ IsSeq(<<a, b>>) /\ Len(<<a, b>>) = 2
<1> DEFINE s == <<a, b>>
           one == <<a>>
           two == <<b>>
           t == one \o two
<1>1. s \in Seq({a, b}) /\ Len(s) = 2 /\ s[1] = a /\ s[2] = b
  OBVIOUS
<1>2. IsSeq(s)
  BY <1>1 DEF IsSeq
<1>3. IsSeq(one) /\ Len(one) = 1 /\ one[1] = a /\ IsSeq(two) /\ Len(two) = 1 /\ two[1] = b
  BY Singleton
<1> HIDE DEF s, one, two
<1>4. /\ IsSeq(t) /\ Len(t) = Len(one) + Len(two) /\ (\A i \in 1 .. Len(one) : t[i] = one[i])
      /\ \A i \in 1 .. Len(two) : t[Len(one) + i] = two[i]
  <2>0. IsSeq(one) /\ IsSeq(two)
    BY <1>3
  <2>1. IsSeq(one \o two)
    BY <2>0, Joined
  <2>2. Len(one \o two) = Len(one) + Len(two)
    BY <2>0, Joined
  <2>3. \A i \in 1 .. Len(one) : (one \o two)[i] = one[i]
    BY <2>0, Joined
  <2>4. \A i \in 1 .. Len(two) : (one \o two)[Len(one) + i] = two[i]
    BY <2>0, Joined
  <2> HIDE DEF t
  <2>5. QED
    BY <2>1, <2>2, <2>3, <2>4 DEF t
<1> HIDE DEF t
<1>5. t[1] = a /\ t[2] = b /\ Len(t) = 2
  BY <1>3, <1>4
<1> HIDE DEF t
<1>6. \A i \in 1 .. Len(s) : s[i] = t[i]
  BY <1>1, <1>5
<1>7. s = t
  BY <1>1, <1>2, <1>4, <1>5, <1>6, SameSeq
<1>8. QED
  BY <1>1, <1>2, <1>7 DEF s, t, one, two

\* Where a sequence is cut.
LEMMA Cuts ==
  ASSUME NEW s, IsSeq(s), NEW n \in 0 .. Len(s)
  PROVE  /\ IsSeq(Upto(s, n)) /\ Len(Upto(s, n)) = n
         /\ \A i \in 1 .. n : Upto(s, n)[i] = s[i]
         /\ IsSeq(After(s, n)) /\ Len(After(s, n)) = Len(s) - n
         /\ \A i \in 1 .. Len(s) - n : After(s, n)[i] = s[n + i]
<1>1. PICK S : s \in Seq(S)
  BY DEF IsSeq
<1>2. Len(s) \in Nat
  BY <1>1
<1>3. /\ Upto(s, n) \in Seq(S) /\ Len(Upto(s, n)) = n
      /\ \A i \in 1 .. n : Upto(s, n)[i] = s[i]
  BY <1>1, <1>2 DEF Upto
<1>4. /\ After(s, n) \in Seq(S) /\ Len(After(s, n)) = Len(s) - n
      /\ \A i \in 1 .. Len(s) - n : After(s, n)[i] = s[n + i]
  BY <1>1, <1>2 DEF After
<1>5. QED
  BY <1>3, <1>4 DEF IsSeq

LEMMA CutTwice ==
  ASSUME NEW s, IsSeq(s), NEW n \in 0 .. Len(s), NEW m \in 0 .. Len(s) - n
  PROVE  /\ After(After(s, n), m) = After(s, n + m)
         /\ Upto(s, n) \o After(s, n) = s
         /\ After(s, 0) = s /\ After(s, Len(s)) = << >>
<1>1. Len(s) \in Nat /\ n + m \in 0 .. Len(s) /\ 0 \in 0 .. Len(s) /\ Len(s) \in 0 .. Len(s)
  BY SeqFacts
<1>2. IsSeq(After(s, n)) /\ Len(After(s, n)) = Len(s) - n
  BY Cuts
<1>3. After(After(s, n), m) = After(s, n + m)
  <2> DEFINE a == After(After(s, n), m)
             b == After(s, n + m)
  <2>0. m \in 0 .. Len(After(s, n)) /\ Len(s) - n - m = Len(After(s, n)) - m
    BY <1>2
  <2>1. IsSeq(a) /\ Len(a) = Len(s) - n - m
    BY <1>2, <2>0, Cuts
  <2>2. IsSeq(b) /\ Len(b) = Len(s) - (n + m)
    BY <1>1, Cuts
  <2>3. \A i \in 1 .. Len(s) - n - m : a[i] = After(s, n)[m + i]
    BY <1>2, <2>0, Cuts
  <2>4. \A i \in 1 .. Len(s) - n : After(s, n)[i] = s[n + i]
    BY Cuts
  <2>5. \A i \in 1 .. Len(s) - (n + m) : b[i] = s[n + m + i]
    BY <1>1, Cuts
  <2> HIDE DEF a, b
  <2>6. \A i \in 1 .. Len(a) : a[i] = b[i]
    <3> SUFFICES ASSUME NEW i \in 1 .. Len(a)
                 PROVE  a[i] = b[i]
      OBVIOUS
    <3>1. i \in 1 .. Len(s) - n - m /\ m + i \in 1 .. Len(s) - n /\ i \in 1 .. Len(s) - (n + m)
      BY <1>1, <2>1
    <3>2. n + (m + i) = n + m + i
      BY <1>1, <2>1
    <3>3. QED
      BY <2>3, <2>4, <2>5, <3>1, <3>2
  <2>7. a = b
    BY <1>1, <2>1, <2>2, <2>6, SameSeq
  <2>8. QED
    BY <2>7 DEF a, b
<1>4. Upto(s, n) \o After(s, n) = s
  <2> DEFINE a == Upto(s, n)
             b == After(s, n)
  <2>1. IsSeq(a) /\ Len(a) = n /\ IsSeq(b) /\ Len(b) = Len(s) - n
    BY Cuts
  <2>2. (\A i \in 1 .. n : a[i] = s[i]) /\ (\A i \in 1 .. Len(s) - n : b[i] = s[n + i])
    BY Cuts
  <2> HIDE DEF a, b
  <2>3. /\ IsSeq(a \o b) /\ Len(a \o b) = Len(a) + Len(b)
        /\ \A i \in 1 .. Len(a) + Len(b) :
             \/ i \in 1 .. Len(a) /\ (a \o b)[i] = a[i]
             \/ i - Len(a) \in 1 .. Len(b) /\ (a \o b)[i] = b[i - Len(a)]
    BY <2>1, Joined
  <2>4. Len(a \o b) = Len(s)
    BY <1>1, <2>1, <2>3
  <2>5. \A i \in 1 .. Len(s) : (a \o b)[i] = s[i]
    BY <1>1, <2>1, <2>2, <2>3
  <2>6. a \o b = s
    BY <2>3, <2>4, <2>5, SameSeq
  <2>7. QED
    BY <2>6 DEF a, b
<1>5. After(s, 0) = s
  <2>1. IsSeq(After(s, 0)) /\ Len(After(s, 0)) = Len(s) - 0
    BY <1>1, Cuts
  <2>2. \A i \in 1 .. Len(s) - 0 : After(s, 0)[i] = s[0 + i]
    BY <1>1, Cuts
  <2>3. \A i \in 1 .. Len(s) : After(s, 0)[i] = s[i]
    BY <1>1, <2>2
  <2>4. QED
    BY <1>1, <2>1, <2>3, SameSeq
<1>6. After(s, Len(s)) = << >>
  <2>1. IsSeq(After(s, Len(s))) /\ Len(After(s, Len(s))) = Len(s) - Len(s)
    BY <1>1, Cuts
  <2>2. QED
    BY <1>1, <2>1, SeqFacts
<1>7. QED
  BY <1>3, <1>4, <1>5, <1>6

LEMMA CutJoined ==
  ASSUME NEW s, NEW t, IsSeq(s), IsSeq(t), NEW n \in 0 .. Len(s)
  PROVE  /\ After(s \o t, n) = After(s, n) \o t
         /\ Upto(s \o t, n) = Upto(s, n)
<1>1. Len(s) \in Nat /\ Len(t) \in Nat
  BY SeqFacts
<1>2. /\ IsSeq(s \o t) /\ Len(s \o t) = Len(s) + Len(t)
      /\ \A i \in 1 .. Len(s) : (s \o t)[i] = s[i]
      /\ \A i \in 1 .. Len(t) : (s \o t)[Len(s) + i] = t[i]
  BY Joined
<1> DEFINE w == s \o t
<1> HIDE DEF w
<1>3. n \in 0 .. Len(w)
  BY <1>1, <1>2 DEF w
<1>4. IsSeq(w) /\ Len(w) = Len(s) + Len(t)
  BY <1>2 DEF w
<1>5. After(w, n) = After(s, n) \o t
  <2> DEFINE a == After(w, n)
             b == After(s, n)
  <2>1. /\ IsSeq(a) /\ Len(a) = Len(w) - n
        /\ \A i \in 1 .. Len(w) - n : a[i] = w[n + i]
    BY <1>3, <1>4, Cuts
  <2>2. /\ IsSeq(b) /\ Len(b) = Len(s) - n
        /\ \A i \in 1 .. Len(s) - n : b[i] = s[n + i]
    BY Cuts
  <2> HIDE DEF a, b
  <2>3. /\ IsSeq(b \o t) /\ Len(b \o t) = Len(b) + Len(t)
        /\ \A i \in 1 .. Len(b) + Len(t) :
             \/ i \in 1 .. Len(b) /\ (b \o t)[i] = b[i]
             \/ i - Len(b) \in 1 .. Len(t) /\ (b \o t)[i] = t[i - Len(b)]
    BY <2>2, Joined
  <2>4. Len(a) = Len(b \o t)
    BY <1>1, <1>4, <2>1, <2>2, <2>3
  <2>5. ASSUME NEW i \in 1 .. Len(a)
        PROVE  a[i] = (b \o t)[i]
    <3>1. i \in 1 .. Len(w) - n /\ i \in 1 .. Len(b) + Len(t)
      BY <2>1, <2>3, <2>4
    <3>2. CASE i \in 1 .. Len(b) /\ (b \o t)[i] = b[i]
      <4>1. n + i \in 1 .. Len(s) /\ i \in 1 .. Len(s) - n
        BY <1>1, <2>2, <3>2
      <4>2. w[n + i] = s[n + i]
        BY <1>2, <4>1 DEF w
      <4>3. QED
        BY <2>1, <2>2, <3>1, <3>2, <4>1, <4>2
    <3>3. CASE i - Len(b) \in 1 .. Len(t) /\ (b \o t)[i] = t[i - Len(b)]
      <4>1. i - Len(b) \in 1 .. Len(t) /\ n + i = Len(s) + (i - Len(b))
        BY <1>1, <2>2, <3>1, <3>3
      <4>2. w[n + i] = t[i - Len(b)]
        BY <1>2, <4>1 DEF w
      <4>3. QED
        BY <2>1, <3>1, <3>3, <4>2
    <3>4. QED
      BY <2>3, <3>1, <3>2, <3>3
  <2>6. a = b \o t
    BY <2>1, <2>3, <2>4, <2>5, SameSeq
  <2>7. QED
    BY <2>6 DEF a, b
<1>6. Upto(w, n) = Upto(s, n)
  <2>1. /\ IsSeq(Upto(w, n)) /\ Len(Upto(w, n)) = n
        /\ \A i \in 1 .. n : Upto(w, n)[i] = w[i]
    BY <1>3, <1>4, Cuts
  <2>2. /\ IsSeq(Upto(s, n)) /\ Len(Upto(s, n)) = n
        /\ \A i \in 1 .. n : Upto(s, n)[i] = s[i]
    BY Cuts
  <2>3. \A i \in 1 .. n : w[i] = s[i]
    BY <1>1, <1>2 DEF w
  <2>4. \A i \in 1 .. Len(Upto(w, n)) : Upto(w, n)[i] = Upto(s, n)[i]
    BY <2>1, <2>2, <2>3
  <2>5. QED
    BY <2>1, <2>2, <2>4, SameSeq
<1>7. QED
  BY <1>5, <1>6 DEF w

-----------------------------------------------------------------------------
(* Server-sent events: what is whole at the head of a buffer is what is    *)
(* there, whatever follows.                                                *)

LEMMA Breaks ==
  ASSUME NEW s, IsSeq(s), NEW i \in Nat
  PROVE  /\ LineBreak(s, i) \in 0 .. 2
         /\ LineBreak(s, i) > 0 => i <= Len(s) /\ i + LineBreak(s, i) - 1 <= Len(s)
<1>1. Len(s) \in Nat
  BY SeqFacts
<1>2. QED
  BY <1>1 DEF LineBreak

LEMMA BreakStays ==
  ASSUME NEW s, NEW t, IsSeq(s), IsSeq(t), NEW i \in 1 .. Len(s),
         LineBreak(s, i) > 0 \/ i < Len(s)
  PROVE  LineBreak(s \o t, i) = LineBreak(s, i)
<1> DEFINE w == s \o t
<1>1. /\ IsSeq(w) /\ Len(w) = Len(s) + Len(t)
      /\ \A k \in 1 .. Len(s) : w[k] = s[k]
  BY Joined
<1>2. Len(s) \in Nat /\ Len(t) \in Nat
  BY SeqFacts
<1> HIDE DEF w
<1>3. w[i] = s[i] /\ i <= Len(s) /\ i <= Len(w)
  BY <1>1, <1>2
<1>4. CASE i < Len(s)
  <2>1. w[i + 1] = s[i + 1] /\ i # Len(s) /\ i # Len(w)
    BY <1>1, <1>2, <1>4
  <2>2. QED
    BY <1>2, <1>3, <2>1 DEF LineBreak, w
<1>5. CASE i = Len(s)
  <2>1. s[i] # CR
    BY <1>2, <1>5 DEF LineBreak
  <2>2. QED
    BY <1>1, <1>2, <1>3, <2>1 DEF LineBreak, w
<1>6. QED
  BY <1>2, <1>4, <1>5

LEMMA FirstBlock ==
  ASSUME NEW s, IsSeq(s), Terminators(s) # {}
  PROVE  LET i == Min(Terminators(s))
             end == i + LineBreak(s, i)
         IN  /\ i \in 1 .. Len(s) /\ LineBreak(s, i) \in 1 .. 2
             /\ end \in 1 .. Len(s) /\ LineBreak(s, end) \in 1 .. 2
             /\ end + LineBreak(s, end) - 1 \in 1 .. Len(s)
             /\ \A k \in Terminators(s) : i <= k
<1> DEFINE i == Min(Terminators(s))
           end == i + LineBreak(s, i)
<1>1. Terminators(s) \in SUBSET Nat /\ Len(s) \in Nat
  BY SeqFacts DEF Terminators
<1>2. i \in Terminators(s) /\ \A k \in Terminators(s) : i <= k
  BY <1>1, MinIsLeast
<1> HIDE DEF i
<1>3. i \in 1 .. Len(s) /\ LineBreak(s, i) > 0 /\ LineBreak(s, end) > 0
  BY <1>2 DEF Terminators
<1>4. LineBreak(s, i) \in 0 .. 2
  BY <1>1, <1>3, Breaks
<1>5. end \in Nat /\ end >= 1
  BY <1>1, <1>3, <1>4
<1> HIDE DEF end
<1>6. LineBreak(s, end) \in 0 .. 2 /\ end <= Len(s) /\ end + LineBreak(s, end) - 1 <= Len(s)
  BY <1>3, <1>5, Breaks
<1>7. QED
  BY <1>1, <1>2, <1>3, <1>4, <1>5, <1>6 DEF i, end

LEMMA BlockStays ==
  ASSUME NEW s, NEW t, IsSeq(s), IsSeq(t), Terminators(s) # {}
  PROVE  NextBlock(s \o t) = NextBlock(s)
<1> DEFINE w == s \o t
           i == Min(Terminators(s))
           end == i + LineBreak(s, i)
<1>1. /\ i \in 1 .. Len(s) /\ LineBreak(s, i) \in 1 .. 2
      /\ end \in 1 .. Len(s) /\ LineBreak(s, end) \in 1 .. 2
      /\ end + LineBreak(s, end) - 1 \in 1 .. Len(s)
      /\ \A k \in Terminators(s) : i <= k
  BY FirstBlock
<1>2. /\ IsSeq(w) /\ Len(w) = Len(s) + Len(t)
      /\ \A k \in 1 .. Len(s) : w[k] = s[k]
  BY Joined
<1>3. Len(s) \in Nat /\ Len(t) \in Nat
  BY SeqFacts
<1>4. \A k \in 1 .. Len(s) :
        LineBreak(s, k) > 0 \/ k < Len(s) => LineBreak(w, k) = LineBreak(s, k)
  BY BreakStays
<1> HIDE DEF w, i
<1>5. LineBreak(w, i) = LineBreak(s, i) /\ LineBreak(w, end) = LineBreak(s, end)
  <2> HIDE DEF end
  <2>1. LineBreak(s, i) > 0 /\ LineBreak(s, end) > 0
    BY <1>1
  <2>2. QED
    BY <1>1, <1>4, <2>1
<1>6. i \in Terminators(w)
  BY <1>1, <1>2, <1>3, <1>5 DEF Terminators
<1>7. ASSUME NEW j \in Terminators(w), j < i
      PROVE  FALSE
  <2>1. j \in 1 .. Len(s) /\ j < Len(s) /\ LineBreak(w, j) > 0
    BY <1>1, <1>2, <1>3, <1>7 DEF Terminators
  <2>2. LineBreak(w, j) = LineBreak(s, j)
    BY <1>4, <2>1
  <2> DEFINE e == j + LineBreak(s, j)
  <2>3. LineBreak(w, e) > 0
    BY <1>7, <2>2 DEF Terminators
  <2>4. LineBreak(s, j) \in 1 .. 2
    BY <1>2, <1>3, <2>1, <2>2, Breaks
  <2>5. CASE e < Len(s)
    <3>1. e \in 1 .. Len(s)
      BY <1>3, <2>1, <2>4, <2>5
    <3> HIDE DEF e
    <3>2. LineBreak(s, e) > 0
      BY <1>4, <2>3, <2>5, <3>1
    <3>3. j \in Terminators(s)
      BY <2>1, <2>2, <3>2 DEF Terminators, e
    <3>4. QED
      BY <1>1, <1>3, <1>7, <2>1, <3>3
  <2>6. CASE e >= Len(s)
    \* The break at j is a pair, and the place of the terminator its feed.
    <3>1. LineBreak(s, j) = 2 /\ i = j + 1 /\ e = i + 1 /\ e = Len(s) /\ end = i + 1
      <4>1. i + 1 <= end /\ end <= Len(s) /\ j + 1 <= i
        BY <1>1, <1>3, <1>7, <2>1
      <4>2. e <= j + 2 /\ e >= Len(s)
        BY <2>1, <2>4, <2>6
      <4>3. QED
        BY <1>1, <1>3, <2>1, <2>4, <4>1, <4>2
    <3>2. LineBreak(s, e) > 0
      BY <1>1, <3>1
    <3>3. j \in Terminators(s)
      BY <2>1, <2>2, <3>2 DEF Terminators
    <3>4. QED
      BY <1>1, <1>3, <1>7, <2>1, <3>3
  <2>7. QED
    BY <1>3, <2>1, <2>4, <2>5, <2>6
<1>8. Min(Terminators(w)) = i
  <2>1. Terminators(w) \in SUBSET Nat
    BY <1>2, <1>3 DEF Terminators
  <2>2. Min(Terminators(w)) \in Terminators(w) /\ \A k \in Terminators(w) : Min(Terminators(w)) <= k
    BY <1>6, <2>1, MinIsLeast
  <2>3. QED
    BY <1>6, <1>7, <2>1, <2>2
<1>9. Upto(w, i - 1) = Upto(s, i - 1)
  <2>1. i - 1 \in 0 .. Len(s)
    BY <1>1, <1>3
  <2>2. QED
    BY <2>1, CutJoined DEF w
<1>10. NextBlock(w) = Taken(Spelled(Upto(w, i - 1)), end + LineBreak(w, end) - 1)
  BY <1>5, <1>6, <1>8 DEF NextBlock
<1>11. NextBlock(s) = Taken(Spelled(Upto(s, i - 1)), end + LineBreak(s, end) - 1)
  BY DEF NextBlock, i
<1>12. QED
  BY <1>5, <1>9, <1>10, <1>11 DEF w

-----------------------------------------------------------------------------
(* What a block spells *)

\* The lines of a block are read one after the other.
Reading(f, block) ==
  /\ f[0] = Event(NoName, << >>)
  /\ \A i \in 1 .. Len(block) : f[i] = ReadLine(f[i - 1], block[i])

LEMMA LinesRead ==
  ASSUME NEW block, IsSeq(block)
  PROVE  \E f : Reading(f, block) /\ ReadLines(block) = f[Len(block)]
<1> DEFINE Def(f, n) ==
             f = [i \in 0 .. n |-> IF i = 0 THEN Event(NoName, << >>) ELSE ReadLine(f[i - 1], block[i])]
           T == {n \in Nat : \E f : Def(f, n)}
<1>1. 0 \in T
  <2> DEFINE f == [i \in 0 .. 0 |-> Event(NoName, << >>)]
  <2>1. Def(f, 0)
    OBVIOUS
  <2>2. QED
    BY <2>1
<1>2. ASSUME NEW n \in T
      PROVE  n + 1 \in T
  <2>1. PICK f : Def(f, n)
    BY <1>2
  <2>2. n \in Nat
    BY <1>2
  <2> DEFINE g == [i \in 0 .. n + 1 |-> IF i = n + 1 THEN ReadLine(f[n], block[n + 1]) ELSE f[i]]
  <2>3. \A i \in 0 .. n : f[i] = IF i = 0 THEN Event(NoName, << >>) ELSE ReadLine(f[i - 1], block[i])
    BY <2>1
  <2>4. \A i \in 0 .. n : g[i] = f[i]
    BY <2>2
  <2>5. g[n + 1] = ReadLine(g[n], block[n + 1])
    BY <2>2, <2>4
  <2> HIDE DEF Def, T
  <2>6. \A i \in 0 .. n + 1 : g[i] = IF i = 0 THEN Event(NoName, << >>) ELSE ReadLine(g[i - 1], block[i])
    <3> SUFFICES ASSUME NEW i \in 0 .. n + 1
                 PROVE  g[i] = IF i = 0 THEN Event(NoName, << >>) ELSE ReadLine(g[i - 1], block[i])
      OBVIOUS
    <3>1. CASE i = n + 1
      <4>1. i # 0 /\ i - 1 = n
        BY <2>2, <3>1
      <4>2. QED
        BY <2>5, <3>1, <4>1
    <3>2. CASE i # n + 1
      <4>1. i \in 0 .. n /\ (i # 0 => i - 1 \in 0 .. n)
        BY <2>2, <3>2
      <4> HIDE DEF g
      <4>2. QED
        BY <2>3, <2>4, <4>1
    <3>3. QED
      BY <3>1, <3>2
  <2>7. g = [i \in 0 .. n + 1 |-> g[i]]
    OBVIOUS
  <2> HIDE DEF g
  <2>8. Def(g, n + 1)
    BY <2>6, <2>7 DEF Def
  <2>9. QED
    BY <2>2, <2>8 DEF T
<1>3. Len(block) \in T
  <2> HIDE DEF T
  <2>1. T \in SUBSET Nat
    BY DEF T
  <2>2. T = Nat
    BY <1>1, <1>2, <2>1, Climb
  <2>3. QED
    BY <2>2, SeqFacts
<1> DEFINE at[i \in 0 .. Len(block)] == IF i = 0 THEN Event(NoName, << >>) ELSE ReadLine(at[i - 1], block[i])
<1>4. at = [i \in 0 .. Len(block) |-> IF i = 0 THEN Event(NoName, << >>) ELSE ReadLine(at[i - 1], block[i])]
  <2>1. \E f : f = [i \in 0 .. Len(block) |-> IF i = 0 THEN Event(NoName, << >>) ELSE ReadLine(f[i - 1], block[i])]
    BY <1>3
  <2>2. QED
    BY <2>1
<1>5. ReadLines(block) = at[Len(block)]
  BY DEF ReadLines
<1> HIDE DEF at
<1>6. at[0] = Event(NoName, << >>) /\ \A i \in 1 .. Len(block) : at[i] = ReadLine(at[i - 1], block[i])
  <2>1. Len(block) \in Nat
    BY SeqFacts
  <2>2. \A i \in 1 .. Len(block) : i \in 0 .. Len(block) /\ i # 0
    BY <2>1
  <2>3. 0 \in 0 .. Len(block)
    BY <2>1
  <2>4. QED
    BY <1>4, <2>2, <2>3
<1>7. Reading(at, block)
  BY <1>6 DEF Reading
<1>8. QED
  BY <1>5, <1>7

\* A byte that is data, and a frame's payload, carry a value.
Carries(byte, v) == byte[1] \in {"data", "payload"} /\ byte[2] = v

\* The data of an event are values of the bytes it was spelled with.
SpelledBy(event, bytes) ==
  /\ IsSeq(event.data)
  /\ \A j \in 1 .. Len(event.data) : \E i \in 1 .. Len(bytes) : Carries(bytes[i], event.data[j])

LEMMA LineKept ==
  ASSUME NEW event, NEW line, NEW bytes, IsSeq(bytes), NEW i \in 1 .. Len(bytes),
         line = bytes[i], event = Event(event.event, event.data), SpelledBy(event, bytes)
  PROVE  LET next == ReadLine(event, line)
         IN  next = Event(next.event, next.data) /\ SpelledBy(next, bytes)
<1> DEFINE e == event.event
           d == event.data
<1>1. event = [event |-> e, data |-> d] /\ IsSeq(d)
  BY DEF Event, SpelledBy
<1>2. \A j \in 1 .. Len(d) : \E k \in 1 .. Len(bytes) : Carries(bytes[k], d[j])
  BY DEF SpelledBy
<1> HIDE DEF e, d
<1>3. CASE line[1] = "event"
  <2> DEFINE r == ReadLine(event, line)
  <2>1. r = [event |-> line[2], data |-> d]
    BY <1>1, <1>3 DEF ReadLine
  <2>2. r.event = line[2] /\ r.data = d
    BY <2>1
  <2> HIDE DEF r
  <2>3. r = Event(r.event, r.data) /\ SpelledBy(r, bytes)
    BY <1>1, <1>2, <2>1, <2>2 DEF Event, SpelledBy
  <2>4. QED
    BY <2>3 DEF r
<1>4. CASE line[1] = "data"
  <2> DEFINE a == Append(d, line[2])
  <2>1. ReadLine(event, line) = [event |-> e, data |-> a]
    BY <1>1, <1>4 DEF ReadLine
  <2>2. /\ IsSeq(a) /\ Len(a) = Len(d) + 1
        /\ \A j \in 1 .. Len(d) : a[j] = d[j]
        /\ a[Len(d) + 1] = line[2]
    BY <1>1, Appended
  <2>3. Carries(bytes[i], line[2])
    BY <1>4 DEF Carries
  <2>4. Len(d) \in Nat
    BY <1>1, SeqFacts
  <2> HIDE DEF a
  <2>5. ASSUME NEW j \in 1 .. Len(a)
        PROVE  \E k \in 1 .. Len(bytes) : Carries(bytes[k], a[j])
    <3>1. CASE j \in 1 .. Len(d)
      BY <1>2, <2>2, <3>1
    <3>2. CASE j = Len(d) + 1
      BY <2>2, <2>3, <3>2
    <3>3. QED
      BY <2>2, <2>4, <3>1, <3>2
  <2>6. QED
    BY <2>1, <2>2, <2>5 DEF Event, SpelledBy
<1>5. CASE line[1] \notin {"event", "data"}
  <2>1. ReadLine(event, line) = event
    BY <1>5 DEF ReadLine
  <2>2. QED
    BY <1>1, <2>1
<1>6. QED
  BY <1>3, <1>4, <1>5

\* What is spelled is nothing, or one event.
LEMMA SpelledFacts ==
  ASSUME NEW block, IsSeq(block)
  PROVE  /\ IsSeq(Spelled(block))
         /\ \A k \in 1 .. Len(Spelled(block)) : SpelledBy(Spelled(block)[k], block)
<1>1. PICK f : Reading(f, block) /\ ReadLines(block) = f[Len(block)]
  BY LinesRead
<1>2. /\ f[0] = Event(NoName, << >>)
      /\ \A i \in 1 .. Len(block) : f[i] = ReadLine(f[i - 1], block[i])
      /\ ReadLines(block) = f[Len(block)]
  BY <1>1 DEF Reading
<1>3. Len(block) \in Nat
  BY SeqFacts
<1> DEFINE Fine(e) == e = Event(e.event, e.data) /\ SpelledBy(e, block)
           T == {i \in Nat : i <= Len(block) => Fine(f[i])}
<1>4. 0 \in T
  <2>1. IsSeq(<< >>) /\ Len(<< >>) = 0
    BY DEF IsSeq
  <2>2. f[0].event = NoName /\ f[0].data = << >>
    BY <1>2 DEF Event
  <2>3. SpelledBy(f[0], block)
    BY <2>1, <2>2 DEF SpelledBy
  <2>4. QED
    BY <1>2, <2>2, <2>3
<1>5. ASSUME NEW i \in T
      PROVE  i + 1 \in T
  <2> HIDE DEF Fine
  <2> SUFFICES ASSUME i + 1 <= Len(block)
               PROVE  Fine(f[i + 1])
    BY <1>5
  <2>1. i \in Nat /\ i + 1 \in 1 .. Len(block) /\ (i + 1) - 1 = i /\ Fine(f[i])
    BY <1>3, <1>5
  <2>2. f[i + 1] = ReadLine(f[i], block[i + 1])
    BY <1>2, <2>1
  <2> DEFINE line == block[i + 1]
  <2>3. line = block[i + 1] /\ f[i] = Event(f[i].event, f[i].data) /\ SpelledBy(f[i], block)
    BY <2>1 DEF Fine
  <2> HIDE DEF line
  <2>4. Fine(ReadLine(f[i], line))
    BY <2>1, <2>3, LineKept DEF Fine
  <2>5. QED
    BY <2>2, <2>3, <2>4
<1>6. Fine(ReadLines(block))
  <2> HIDE DEF T, Fine
  <2>1. T \in SUBSET Nat
    BY DEF T
  <2>2. T = Nat
    BY <1>4, <1>5, <2>1, Climb
  <2>3. QED
    BY <1>2, <1>3, <2>2 DEF T
<1> DEFINE e == ReadLines(block)
<1>7. SpelledBy(e, block)
  BY <1>6
<1> HIDE DEF e
<1>8. Spelled(block) = << >> \/ Spelled(block) = <<e>>
  BY DEF Spelled, e
<1>9. IsSeq(<< >>) /\ Len(<< >>) = 0
  BY DEF IsSeq
<1>10. IsSeq(<<e>>) /\ Len(<<e>>) = 1 /\ <<e>>[1] = e
  BY Singleton
<1>11. CASE Spelled(block) = << >>
  BY <1>9, <1>11
<1>12. CASE Spelled(block) = <<e>>
  <2>1. \A k \in 1 .. Len(<<e>>) : <<e>>[k] = e
    BY <1>10
  <2>2. QED
    BY <1>7, <1>10, <1>12, <2>1
<1>13. QED
  BY <1>8, <1>11, <1>12

-----------------------------------------------------------------------------
(* What is taken off the head of a buffer *)

\* Bytes of the event stream, from where a frame begins: each prelude declares
\* its frame, and the frames follow one another.
Declared(s) == \A i \in 1 .. Len(s) : s[i][1] = "prelude" => s[i][2] = FrameLen
Sequent(s) ==
  \A i \in 1 .. Len(s) : \A k \in Nat :
    /\ i = 3 * k + 1 => s[i][1] = "prelude"
    /\ i = 3 * k + 2 => s[i][1] = "payload"

WellFormed(dialect, s) ==
  IsSeq(s) /\ (dialect = "Bedrock" => Declared(s) /\ Sequent(s))

\* What is taken is no more than there is, and what it spells is in its bytes.
Takes(next, s) ==
  /\ next.bytes \in 0 .. Len(s) /\ IsSeq(next.events)
  /\ \A k \in 1 .. Len(next.events) : SpelledBy(next.events[k], s)

LEMMA SpelledWider ==
  ASSUME NEW event, NEW s, NEW n \in 0 .. Len(s), IsSeq(s), SpelledBy(event, Upto(s, n))
  PROVE  SpelledBy(event, s)
<1>1. /\ Len(Upto(s, n)) = n /\ Len(s) \in Nat
      /\ \A i \in 1 .. n : Upto(s, n)[i] = s[i]
  BY Cuts, SeqFacts
<1>2. \A i \in 1 .. n : i \in 1 .. Len(s)
  BY <1>1
<1>3. QED
  BY <1>1, <1>2 DEF SpelledBy

LEMMA BlockTakes ==
  ASSUME NEW s, IsSeq(s)
  PROVE  Takes(NextBlock(s), s)
<1>1. IsSeq(<< >>) /\ Len(<< >>) = 0 /\ Len(s) \in Nat
  BY SeqFacts DEF IsSeq
<1>2. CASE Terminators(s) = {}
  <2>1. NextBlock(s).bytes = 0 /\ NextBlock(s).events = << >>
    BY <1>2 DEF NextBlock, Taken
  <2>2. QED
    BY <1>1, <2>1 DEF Takes
<1>3. CASE Terminators(s) # {}
  <2> DEFINE i == Min(Terminators(s))
             end == i + LineBreak(s, i)
             b == Upto(s, i - 1)
  <2>1. i \in 1 .. Len(s) /\ end + LineBreak(s, end) - 1 \in 1 .. Len(s)
    BY <1>3, FirstBlock
  <2>2. NextBlock(s).bytes = end + LineBreak(s, end) - 1 /\ NextBlock(s).events = Spelled(b)
    BY <1>3 DEF NextBlock, Taken
  <2> HIDE DEF i, end
  <2>3. i - 1 \in 0 .. Len(s)
    BY <1>1, <2>1
  <2>4. IsSeq(b)
    BY <2>3, Cuts
  <2> HIDE DEF b
  <2>5. IsSeq(Spelled(b)) /\ \A k \in 1 .. Len(Spelled(b)) : SpelledBy(Spelled(b)[k], b)
    BY <2>4, SpelledFacts
  <2>6. \A k \in 1 .. Len(Spelled(b)) : SpelledBy(Spelled(b)[k], s)
    BY <2>3, <2>5, SpelledWider DEF b
  <2>7. NextBlock(s).bytes \in 0 .. Len(s)
    BY <1>1, <2>1, <2>2
  <2>8. QED
    BY <2>2, <2>5, <2>6, <2>7 DEF Takes
<1>4. QED
  BY <1>2, <1>3

\* The frame at the head of a buffer that begins where a frame does.
LEMMA FrameAtHead ==
  ASSUME NEW s, WellFormed("Bedrock", s)
  PROVE  NextFrame(s) = IF Len(s) < FrameLen THEN Taken(<< >>, 0)
                        ELSE Taken(DecodeFrame(Upto(s, FrameLen)), FrameLen)
<1>1. IsSeq(s) /\ Declared(s) /\ Sequent(s) /\ Len(s) \in Nat
  BY SeqFacts DEF WellFormed
<1>2. CASE Len(s) = 0
  BY <1>2 DEF NextFrame, PreludeLen, FrameLen
<1>3. CASE Len(s) # 0
  <2>1. 1 \in 1 .. Len(s) /\ 1 = 3 * 0 + 1 /\ 0 \in Nat
    BY <1>1, <1>3
  <2>2. s[1][1] = "prelude"
    BY <1>1, <2>1 DEF Sequent
  <2>3. s[1][2] = FrameLen
    BY <1>1, <2>1, <2>2 DEF Declared
  <2>4. Framed(s) /\ Len(s) >= PreludeLen /\ ~ (Len(s) < PreludeLen)
    BY <1>1, <1>3, <2>2, <2>3 DEF Framed, PreludeLen, FrameLen
  <2>5. NextFrame(s) = IF Len(s) < s[1][2] THEN Taken(<< >>, 0)
                       ELSE Taken(DecodeFrame(Upto(s, s[1][2])), s[1][2])
    BY <2>4 DEF NextFrame
  <2>6. QED
    BY <2>3, <2>5
<1>4. QED
  BY <1>2, <1>3

LEMMA FrameTakes ==
  ASSUME NEW s, WellFormed("Bedrock", s)
  PROVE  Takes(NextFrame(s), s)
<1>1. IsSeq(s) /\ Sequent(s) /\ Len(s) \in Nat
  BY SeqFacts DEF WellFormed
<1>2. IsSeq(<< >>) /\ Len(<< >>) = 0
  BY DEF IsSeq
<1>3. CASE Len(s) < FrameLen
  <2>1. NextFrame(s).bytes = 0 /\ NextFrame(s).events = << >>
    BY <1>3, FrameAtHead DEF Taken
  <2>2. QED
    BY <1>1, <1>2, <2>1 DEF Takes
<1>4. CASE ~ (Len(s) < FrameLen)
  <2> DEFINE f == Upto(s, FrameLen)
             v == f[2][2]
  <2>1. 3 \in 0 .. Len(s) /\ FrameLen = 3 /\ 2 \in 1 .. Len(s)
    BY <1>1, <1>4 DEF FrameLen
  <2>2. NextFrame(s).bytes = FrameLen /\ NextFrame(s).events = DecodeFrame(f)
    BY <1>4, FrameAtHead DEF Taken
  <2>3. f[2] = s[2] /\ 2 \in 1 .. 3
    BY <1>1, <2>1, Cuts
  <2>4. s[2][1] = "payload"
    <3>1. 2 = 3 * 0 + 2 /\ 0 \in Nat
      OBVIOUS
    <3>2. QED
      BY <1>1, <2>1, <3>1 DEF Sequent
  <2>5. Carries(s[2], v)
    BY <2>3, <2>4 DEF Carries
  <2> HIDE DEF v
  <2> DEFINE event == Event(v.kind, <<v>>)
  <2>6. DecodeFrame(f) = << >> \/ DecodeFrame(f) = <<event>>
    BY DEF DecodeFrame, v
  <2>7. event.data = <<v>>
    BY DEF Event
  <2> HIDE DEF event, f
  <2>8. SpelledBy(event, s)
    <3>1. IsSeq(<<v>>) /\ Len(<<v>>) = 1 /\ <<v>>[1] = v
      BY Singleton
    <3>2. \A j \in 1 .. 1 : <<v>>[j] = v
      BY <3>1
    <3>3. QED
      BY <2>1, <2>5, <2>7, <3>1, <3>2 DEF SpelledBy
  <2>9. IsSeq(<<event>>) /\ Len(<<event>>) = 1 /\ <<event>>[1] = event
    BY Singleton
  <2>10. IsSeq(DecodeFrame(f)) /\ \A k \in 1 .. Len(DecodeFrame(f)) : SpelledBy(DecodeFrame(f)[k], s)
    <3>1. CASE DecodeFrame(f) = << >>
      BY <1>2, <3>1
    <3>2. CASE DecodeFrame(f) = <<event>>
      <4>1. \A k \in 1 .. 1 : <<event>>[k] = event
        BY <2>9
      <4>2. QED
        BY <2>8, <2>9, <3>2, <4>1
    <3>3. QED
      BY <2>6, <3>1, <3>2
  <2>11. QED
    BY <2>1, <2>2, <2>10 DEF Takes
<1>5. QED
  BY <1>3, <1>4

LEMMA NextTakes ==
  ASSUME NEW dialect, NEW s, WellFormed(dialect, s)
  PROVE  Takes(NextOf(dialect, s), s)
<1>1. IsSeq(s)
  BY DEF WellFormed
<1>2. QED
  BY <1>1, BlockTakes, FrameTakes DEF NextOf

LEMMA PrefixWellFormed ==
  ASSUME NEW dialect, NEW s, NEW t, IsSeq(s), IsSeq(t), WellFormed(dialect, s \o t)
  PROVE  WellFormed(dialect, s)
<1>1. /\ Len(s \o t) = Len(s) + Len(t)
      /\ \A k \in 1 .. Len(s) : (s \o t)[k] = s[k]
  BY Joined
<1>2. Len(s) \in Nat /\ Len(t) \in Nat
  BY SeqFacts
<1>3. \A k \in 1 .. Len(s) : k \in 1 .. Len(s \o t)
  BY <1>1, <1>2
<1>4. QED
  BY <1>1, <1>3 DEF WellFormed, Declared, Sequent

LEMMA RestWellFormed ==
  ASSUME NEW dialect, NEW s, WellFormed(dialect, s)
  PROVE  WellFormed(dialect, After(s, NextOf(dialect, s).bytes))
<1> DEFINE n == NextOf(dialect, s).bytes
           r == After(s, n)
<1>1. IsSeq(s) /\ Len(s) \in Nat /\ n \in 0 .. Len(s)
  BY NextTakes, SeqFacts DEF WellFormed, Takes
<1>2. IsSeq(r) /\ Len(r) = Len(s) - n /\ \A i \in 1 .. Len(s) - n : r[i] = s[n + i]
  BY <1>1, Cuts
<1>3. CASE dialect = "Bedrock"
  <2>1. n \in {0, 3}
    BY <1>3, FrameAtHead DEF NextOf, Taken, FrameLen
  <2> HIDE DEF n, r
  <2>2. Declared(s) /\ Sequent(s)
    BY <1>3 DEF WellFormed
  <2>3. \A i \in 1 .. Len(r) : n + i \in 1 .. Len(s) /\ r[i] = s[n + i]
    BY <1>1, <1>2
  <2>4. Declared(r)
    BY <2>2, <2>3 DEF Declared
  <2>5. Sequent(r)
    <3> SUFFICES ASSUME NEW i \in 1 .. Len(r), NEW k \in Nat
                 PROVE  /\ i = 3 * k + 1 => r[i][1] = "prelude"
                        /\ i = 3 * k + 2 => r[i][1] = "payload"
      BY DEF Sequent
    <3> DEFINE m == IF n = 0 THEN k ELSE k + 1
    <3>1. m \in Nat /\ (i = 3 * k + 1 => n + i = 3 * m + 1) /\ (i = 3 * k + 2 => n + i = 3 * m + 2)
      BY <1>1, <1>2, <2>1
    <3> HIDE DEF m
    <3>2. QED
      BY <2>2, <2>3, <3>1 DEF Sequent
  <2>6. QED
    BY <1>2, <2>4, <2>5 DEF WellFormed, n, r
<1>4. CASE dialect # "Bedrock"
  BY <1>2, <1>4 DEF WellFormed
<1>5. QED
  BY <1>3, <1>4

\* What is whole at the head of a buffer stays what it is when more arrives.
LEMMA NextStays ==
  ASSUME NEW dialect, NEW s, NEW t, IsSeq(s), IsSeq(t), WellFormed(dialect, s \o t),
         NextOf(dialect, s).bytes # 0
  PROVE  NextOf(dialect, s \o t) = NextOf(dialect, s)
<1>1. CASE dialect = "Bedrock"
  <2>1. WellFormed("Bedrock", s) /\ WellFormed("Bedrock", s \o t)
    BY <1>1, PrefixWellFormed
  <2>2. Len(s) \in Nat /\ Len(t) \in Nat /\ Len(s \o t) = Len(s) + Len(t)
    BY SeqFacts, Joined
  <2>3. Len(s) >= FrameLen
    BY <1>1, <2>1, <2>2, FrameAtHead DEF NextOf, Taken, FrameLen
  <2>4. Upto(s \o t, FrameLen) = Upto(s, FrameLen)
    <3>1. FrameLen \in 0 .. Len(s)
      BY <2>2, <2>3 DEF FrameLen
    <3>2. QED
      BY <3>1, CutJoined
  <2>5. Len(s \o t) >= FrameLen
    BY <2>2, <2>3 DEF FrameLen
  <2>6. FrameLen \in Nat
    BY DEF FrameLen
  <2> DEFINE w == s \o t
  <2> HIDE DEF FrameLen, w
  <2>7. WellFormed("Bedrock", w) /\ Len(w) \in Nat /\ Len(w) >= FrameLen
    BY <2>1, <2>2, <2>5 DEF w
  <2>8. NextFrame(w) = Taken(DecodeFrame(Upto(w, FrameLen)), FrameLen)
    BY <2>6, <2>7, FrameAtHead
  <2>9. NextFrame(s) = Taken(DecodeFrame(Upto(s, FrameLen)), FrameLen)
    BY <2>1, <2>2, <2>3, <2>6, FrameAtHead
  <2>10. QED
    BY <1>1, <2>4, <2>8, <2>9 DEF NextOf, w
<1>2. CASE dialect # "Bedrock"
  <2>1. Terminators(s) # {}
    BY <1>2 DEF NextOf, NextBlock, Taken
  <2>2. NextBlock(s \o t) = NextBlock(s)
    BY <2>1, BlockStays
  <2>3. QED
    BY <1>2, <2>2 DEF NextOf
<1>3. QED
  BY <1>1, <1>2

-----------------------------------------------------------------------------
(* What a buffer comes to *)

\* A function of the numbers up to one may be defined by what it is of smaller ones.
Falls(f, k, b, r, e) ==
  f = [n \in 0 .. k |-> IF b[n] = 0 THEN Holds(<< >>, r[n]) ELSE Ahead(e[n], f[n - b[n]])]

LEMMA Descends ==
  ASSUME NEW N \in Nat, NEW b, \A n \in 0 .. N : b[n] \in 0 .. n, NEW r, NEW e
  PROVE  \E f : Falls(f, N, b, r, e)
<1> DEFINE T == {k \in Nat : k <= N => \E f : Falls(f, k, b, r, e)}
<1>1. 0 \in T
  <2> DEFINE f == [n \in 0 .. 0 |-> Holds(<< >>, r[0])]
  <2>1. \A n \in 0 .. 0 : b[n] = 0 /\ n = 0
    OBVIOUS
  <2>2. f = [n \in 0 .. 0 |-> IF b[n] = 0 THEN Holds(<< >>, r[n]) ELSE Ahead(e[n], f[n - b[n]])]
    BY <2>1
  <2>3. Falls(f, 0, b, r, e)
    BY <2>2 DEF Falls
  <2>4. QED
    BY <2>3
<1>2. ASSUME NEW k \in T
      PROVE  k + 1 \in T
  <2>1. k \in Nat
    BY <1>2
  <2> SUFFICES ASSUME k + 1 <= N
               PROVE  \E f : Falls(f, k + 1, b, r, e)
    BY <2>1
  <2>2. PICK f : Falls(f, k, b, r, e)
    BY <1>2, <2>1
  <2> DEFINE Step(n, x) == IF b[n] = 0 THEN Holds(<< >>, r[n]) ELSE Ahead(e[n], x)
             g == [n \in 0 .. k + 1 |-> IF n = k + 1 THEN Step(n, f[n - b[n]]) ELSE f[n]]
  <2>3. \A n \in 0 .. k : f[n] = Step(n, f[n - b[n]])
    BY <2>2 DEF Falls
  <2>4. \A n \in 0 .. k : g[n] = f[n]
    BY <2>1
  <2>5. \A n \in 0 .. k + 1 : n = k + 1 => g[n] = Step(n, f[n - b[n]])
    BY <2>1
  <2>6. \A n \in 0 .. k + 1 : b[n] \in 0 .. n
    BY <2>1
  <2>7. g = [n \in 0 .. k + 1 |-> g[n]]
    OBVIOUS
  <2> HIDE DEF T, g
  <2>8. \A n \in 0 .. k + 1 : g[n] = Step(n, g[n - b[n]])
    <3> SUFFICES ASSUME NEW n \in 0 .. k + 1
                 PROVE  g[n] = Step(n, g[n - b[n]])
      OBVIOUS
    <3>1. b[n] # 0 => n - b[n] \in 0 .. k
      BY <2>1, <2>6
    <3>2. b[n] # 0 => g[n - b[n]] = f[n - b[n]]
      BY <2>4, <3>1
    <3>3. Step(n, g[n - b[n]]) = Step(n, f[n - b[n]])
      BY <3>2
    <3>4. CASE n = k + 1
      <4> HIDE DEF Step
      <4>1. QED
        BY <2>5, <3>3, <3>4
    <3>5. CASE n # k + 1
      <4>1. n \in 0 .. k
        BY <2>1, <3>5
      <4> HIDE DEF Step
      <4>2. QED
        BY <2>3, <2>4, <3>3, <4>1
    <3>6. QED
      BY <3>4, <3>5
  <2>9. g = [n \in 0 .. k + 1 |-> Step(n, g[n - b[n]])]
    <3> HIDE DEF Step
    <3>1. QED
      BY <2>7, <2>8
  <2>10. Falls(g, k + 1, b, r, e)
    BY <2>9 DEF Falls
  <2>11. QED
    BY <2>10
<1>3. N \in T
  <2> HIDE DEF T
  <2>1. T \in SUBSET Nat
    BY DEF T
  <2>2. T = Nat
    BY <1>1, <1>2, <2>1, Climb
  <2>3. QED
    BY <2>2
<1>4. QED
  BY <1>3

\* The bytes at the end of a buffer, wherever they begin, are no fewer than what is
\* taken off them.
LEMMA EndTakes ==
  ASSUME NEW dialect, NEW s, WellFormed(dialect, s), NEW n \in 0 .. Len(s)
  PROVE  NextOf(dialect, After(s, Len(s) - n)).bytes \in 0 .. n
<1> DEFINE r == After(s, Len(s) - n)
<1>1. IsSeq(s) /\ Len(s) \in Nat /\ Len(s) - n \in 0 .. Len(s)
  BY SeqFacts DEF WellFormed
<1>2. IsSeq(r) /\ Len(r) = n /\ \A i \in 1 .. n : r[i] = s[Len(s) - n + i]
  <2>1. Len(s) - (Len(s) - n) = n
    BY <1>1
  <2>2. QED
    BY <1>1, <2>1, Cuts
<1> HIDE DEF r
<1>3. CASE dialect # "Bedrock"
  BY <1>2, <1>3, BlockTakes DEF NextOf, Takes, r
<1>4. CASE dialect = "Bedrock"
  <2>1. Declared(s)
    BY <1>4 DEF WellFormed
  <2>2. \A i \in 1 .. n : Len(s) - n + i \in 1 .. Len(s)
    BY <1>1
  <2>3. \A i \in 1 .. n : r[i][1] = "prelude" => r[i][2] = FrameLen
    BY <1>2, <2>1, <2>2 DEF Declared
  <2>4. NextFrame(r).bytes \in 0 .. n
    <3>1. CASE Len(r) < PreludeLen
      BY <1>2, <3>1 DEF NextFrame, Taken
    <3>2. CASE Len(r) >= PreludeLen /\ ~Framed(r)
      BY <1>2, <3>2 DEF NextFrame, Taken, PreludeLen
    <3>3. CASE Len(r) >= PreludeLen /\ Framed(r)
      <4>1. 1 \in 1 .. n /\ ~ (Len(r) < PreludeLen)
        BY <1>2, <3>3 DEF PreludeLen
      <4>2. r[1][2] = FrameLen
        BY <2>3, <3>3, <4>1 DEF Framed
      <4>3. CASE Len(r) < FrameLen
        BY <3>3, <4>1, <4>2, <4>3 DEF NextFrame, Taken
      <4>4. CASE ~ (Len(r) < FrameLen)
        <5>1. NextFrame(r).bytes = FrameLen
          BY <3>3, <4>1, <4>2, <4>4 DEF NextFrame, Taken
        <5>2. QED
          BY <1>2, <4>4, <5>1 DEF FrameLen
      <4>5. QED
        BY <4>3, <4>4
    <3>4. QED
      BY <1>2, <3>1, <3>2, <3>3 DEF PreludeLen
  <2>5. QED
    BY <1>4, <2>4 DEF NextOf, r
<1>5. QED
  BY <1>3, <1>4

Parsing(f, dialect, s) ==
  \A n \in 0 .. Len(s) :
    LET rest == After(s, Len(s) - n)
        next == NextOf(dialect, rest)
    IN  f[n] = IF next.bytes = 0 THEN Holds(<< >>, rest) ELSE Ahead(next.events, f[n - next.bytes])

LEMMA Parsed ==
  ASSUME NEW dialect, NEW s, WellFormed(dialect, s)
  PROVE  \E f : Parsing(f, dialect, s) /\ Parse(dialect, s) = f[Len(s)]
<1> DEFINE N == Len(s)
           r == [n \in 0 .. N |-> After(s, N - n)]
           b == [n \in 0 .. N |-> NextOf(dialect, r[n]).bytes]
           e == [n \in 0 .. N |-> NextOf(dialect, r[n]).events]
<1>1. N \in Nat
  BY SeqFacts DEF WellFormed
<1>2. \A n \in 0 .. N : b[n] \in 0 .. n
  BY EndTakes
<1>3. \A n \in 0 .. N : /\ r[n] = After(s, N - n)
                        /\ b[n] = NextOf(dialect, After(s, N - n)).bytes
                        /\ e[n] = NextOf(dialect, After(s, N - n)).events
  OBVIOUS
<1> DEFINE last[n \in 0 .. N] ==
             IF NextOf(dialect, After(s, N - n)).bytes = 0
             THEN Holds(<< >>, After(s, N - n))
             ELSE Ahead(NextOf(dialect, After(s, N - n)).events,
                        last[n - NextOf(dialect, After(s, N - n)).bytes])
<1>4. Parse(dialect, s) = last[N]
  BY DEF Parse
<1> HIDE DEF N, r, b, e
<1>5. PICK f : Falls(f, N, b, r, e)
  BY <1>1, <1>2, Descends
<1>6. f = [n \in 0 .. N |->
             IF NextOf(dialect, After(s, N - n)).bytes = 0
             THEN Holds(<< >>, After(s, N - n))
             ELSE Ahead(NextOf(dialect, After(s, N - n)).events,
                        f[n - NextOf(dialect, After(s, N - n)).bytes])]
  <2>1. f = [n \in 0 .. N |-> IF b[n] = 0 THEN Holds(<< >>, r[n]) ELSE Ahead(e[n], f[n - b[n]])]
    BY <1>5 DEF Falls
  <2>2. QED
    BY <1>3, <2>1
<1>7. last = [n \in 0 .. N |->
                IF NextOf(dialect, After(s, N - n)).bytes = 0
                THEN Holds(<< >>, After(s, N - n))
                ELSE Ahead(NextOf(dialect, After(s, N - n)).events,
                           last[n - NextOf(dialect, After(s, N - n)).bytes])]
  BY <1>6
<1> HIDE DEF last
<1>8. Parsing(last, dialect, s)
  BY <1>7 DEF Parsing, N
<1>9. QED
  BY <1>4, <1>8 DEF N
----------------------------------------------------------------

\* Induction: a set that has a number when it has all smaller ones, has all of them.
LEMMA Deepen ==
  ASSUME NEW T \in SUBSET Nat, \A k \in Nat : (\A m \in 0 .. k - 1 : m \in T) => k \in T
  PROVE  T = Nat
<1> SUFFICES ASSUME Nat \ T # {}
             PROVE  FALSE
  OBVIOUS
<1>1. PICK m \in Nat \ T : \A k \in Nat \ T : m <= k
  BY Least
<1>2. \A k \in 0 .. m - 1 : k \in T
  <2> SUFFICES ASSUME NEW k \in 0 .. m - 1, k \notin T
               PROVE  FALSE
    OBVIOUS
  <2>1. k \in Nat \ T /\ k < m
    BY <1>1
  <2>2. QED
    BY <1>1, <2>1
<1>3. QED
  BY <1>1, <1>2

\* What is whole is taken off the head, and the rest comes to what it comes to.
LEMMA Unfolds ==
  ASSUME NEW dialect, NEW s, WellFormed(dialect, s)
  PROVE  LET next == NextOf(dialect, s)
         IN  Parse(dialect, s) = IF next.bytes = 0 THEN Holds(<< >>, s)
                                 ELSE Ahead(next.events, Parse(dialect, After(s, next.bytes)))
<1> DEFINE next == NextOf(dialect, s)
           c == next.bytes
           N == Len(s)
           r == After(s, c)
<1>1. IsSeq(s) /\ N \in Nat
  BY SeqFacts DEF WellFormed
<1>2. c \in 0 .. N
  BY NextTakes DEF Takes
<1>3. PICK f : Parsing(f, dialect, s) /\ Parse(dialect, s) = f[N]
  BY Parsed
<1>4. \A n \in 0 .. N :
        LET rest == After(s, N - n)
            head == NextOf(dialect, rest)
        IN  f[n] = IF head.bytes = 0 THEN Holds(<< >>, rest) ELSE Ahead(head.events, f[n - head.bytes])
  BY <1>3 DEF Parsing
<1>5. After(s, N - N) = s
  <2>1. N - N = 0 /\ 0 \in 0 .. N /\ 0 \in 0 .. N - 0
    BY <1>1
  <2>2. QED
    BY <1>1, <2>1, CutTwice
<1>6. f[N] = IF c = 0 THEN Holds(<< >>, s) ELSE Ahead(next.events, f[N - c])
  <2>1. N \in 0 .. N
    BY <1>1
  <2>2. QED
    BY <1>4, <1>5, <2>1
<1> HIDE DEF next, c
<1>7. WellFormed(dialect, r) /\ IsSeq(r) /\ Len(r) = N - c
  <2>1. WellFormed(dialect, r)
    BY RestWellFormed DEF c, next
  <2>2. QED
    BY <1>1, <1>2, <2>1, Cuts
<1>8. PICK g : Parsing(g, dialect, r) /\ Parse(dialect, r) = g[Len(r)]
  BY <1>7, Parsed
<1>9. \A n \in 0 .. N - c :
        LET rest == After(r, N - c - n)
            head == NextOf(dialect, rest)
        IN  g[n] = IF head.bytes = 0 THEN Holds(<< >>, rest) ELSE Ahead(head.events, g[n - head.bytes])
  BY <1>7, <1>8 DEF Parsing
<1>10. \A n \in 0 .. N - c : After(r, N - c - n) = After(s, N - n)
  <2> SUFFICES ASSUME NEW n \in 0 .. N - c
               PROVE  After(r, N - c - n) = After(s, N - n)
    OBVIOUS
  <2>1. N - c - n \in 0 .. N - c /\ c + (N - c - n) = N - n
    BY <1>1, <1>2
  <2> DEFINE m == N - c - n
  <2> HIDE DEF m
  <2>2. m \in 0 .. N - c /\ c + m = N - n
    BY <2>1 DEF m
  <2>3. After(r, m) = After(s, c + m)
    BY <1>1, <1>2, <2>2, CutTwice
  <2>4. QED
    BY <2>2, <2>3 DEF m
<1>11. \A n \in 0 .. N : NextOf(dialect, After(s, N - n)).bytes \in 0 .. n
  BY EndTakes
<1> HIDE DEF r
<1> DEFINE T == {k \in Nat : k <= N - c => f[k] = g[k]}
<1>12. T = Nat
  <2>1. ASSUME NEW k \in Nat, \A m \in 0 .. k - 1 : m \in T
        PROVE  k \in T
    <3> SUFFICES ASSUME k <= N - c
                 PROVE  f[k] = g[k]
      OBVIOUS
    <3> DEFINE rest == After(s, N - k)
               head == NextOf(dialect, rest)
               b == head.bytes
    <3>1. k \in 0 .. N /\ k \in 0 .. N - c
      BY <1>1, <1>2
    <3>2. f[k] = IF b = 0 THEN Holds(<< >>, rest) ELSE Ahead(head.events, f[k - b])
      BY <1>4, <3>1
    <3>3. g[k] = IF b = 0 THEN Holds(<< >>, rest) ELSE Ahead(head.events, g[k - b])
      BY <1>9, <1>10, <3>1
    <3>4. b \in 0 .. k
      BY <1>11, <3>1
    <3> HIDE DEF b, head, rest
    <3>5. b # 0 => k - b \in 0 .. k - 1 /\ k - b <= N - c
      BY <1>1, <1>2, <3>4
    <3>6. b # 0 => f[k - b] = g[k - b]
      BY <2>1, <3>5
    <3>7. QED
      BY <3>2, <3>3, <3>6
  <2> HIDE DEF T
  <2>2. T \in SUBSET Nat
    BY DEF T
  <2>3. QED
    BY <2>1, <2>2, Deepen
<1>13. f[N - c] = g[N - c]
  <2>1. N - c \in Nat
    BY <1>1, <1>2
  <2>2. N - c \in T
    BY <1>12, <2>1
  <2>3. QED
    BY <2>1, <2>2
<1>14. QED
  BY <1>3, <1>6, <1>7, <1>8, <1>13 DEF next, c, r

\* The events of a buffer are spelled by its bytes, and what is left of it holds
\* none that is whole.
Sound(dialect, left, s) ==
  /\ left = Holds(left.events, left.rest)
  /\ IsSeq(left.events) /\ \A k \in 1 .. Len(left.events) : SpelledBy(left.events[k], s)
  /\ WellFormed(dialect, left.rest) /\ NextOf(dialect, left.rest).bytes = 0

LEMMA ParseSound ==
  ASSUME NEW dialect, NEW s, WellFormed(dialect, s)
  PROVE  Sound(dialect, Parse(dialect, s), s)
<1> DEFINE T == {k \in Nat : \A t : WellFormed(dialect, t) /\ Len(t) = k =>
                                      Sound(dialect, Parse(dialect, t), t)}
<1>1. ASSUME NEW k \in Nat, \A m \in 0 .. k - 1 : m \in T
      PROVE  k \in T
  <2> SUFFICES ASSUME NEW t, WellFormed(dialect, t), Len(t) = k
               PROVE  Sound(dialect, Parse(dialect, t), t)
    OBVIOUS
  <2> DEFINE next == NextOf(dialect, t)
             c == next.bytes
             r == After(t, c)
  <2>1. /\ IsSeq(t) /\ c \in 0 .. Len(t) /\ IsSeq(next.events)
        /\ \A j \in 1 .. Len(next.events) : SpelledBy(next.events[j], t)
    BY NextTakes DEF Takes, WellFormed
  <2>2. Parse(dialect, t) = IF c = 0 THEN Holds(<< >>, t) ELSE Ahead(next.events, Parse(dialect, r))
    BY Unfolds
  <2>3. CASE c = 0
    <3>1. Parse(dialect, t).events = << >> /\ Parse(dialect, t).rest = t
      BY <2>2, <2>3 DEF Holds
    <3>2. IsSeq(<< >>) /\ Len(<< >>) = 0
      BY DEF IsSeq
    <3>3. QED
      BY <2>2, <2>3, <3>1, <3>2 DEF Sound
  <2>4. CASE c # 0
    <3> DEFINE p == Parse(dialect, r)
               e == next.events
    <3>1. WellFormed(dialect, r)
      BY RestWellFormed
    <3>2. /\ Len(r) = k - c /\ \A i \in 1 .. k - c : r[i] = t[c + i]
      BY <2>1, Cuts
    <3>3. Len(r) \in 0 .. k - 1
      BY <2>1, <2>4, <3>2
    <3>4. Sound(dialect, p, r)
      BY <1>1, <3>1, <3>3
    <3>5. /\ IsSeq(p.events) /\ \A j \in 1 .. Len(p.events) : SpelledBy(p.events[j], r)
          /\ WellFormed(dialect, p.rest) /\ NextOf(dialect, p.rest).bytes = 0
      BY <3>4 DEF Sound
    <3> DEFINE q == Parse(dialect, t)
    <3>6. q = Holds(e \o p.events, p.rest)
      BY <2>2, <2>4 DEF Ahead
    <3>7. \A x : SpelledBy(x, r) => SpelledBy(x, t)
      <4> SUFFICES ASSUME NEW x, SpelledBy(x, r)
                   PROVE  SpelledBy(x, t)
        OBVIOUS
      <4>1. \A i \in 1 .. Len(r) : c + i \in 1 .. Len(t) /\ r[i] = t[c + i]
        BY <2>1, <3>2
      <4> HIDE DEF r, c
      <4>2. QED
        BY <4>1 DEF SpelledBy
    <3> DEFINE d == p.events
    <3> HIDE DEF e, p, d, r, q, T, next
    <3>8. IsSeq(e) /\ IsSeq(d)
      BY <2>1, <3>5 DEF e, d
    <3>9. /\ IsSeq(e \o d)
          /\ \A i \in 1 .. Len(e \o d) :
               \/ i \in 1 .. Len(e) /\ (e \o d)[i] = e[i]
               \/ i - Len(e) \in 1 .. Len(d) /\ (e \o d)[i] = d[i - Len(e)]
      BY <3>8, Joined
    <3>10. \A i \in 1 .. Len(e \o d) : SpelledBy((e \o d)[i], t)
      BY <2>1, <3>5, <3>7, <3>9 DEF e, d
    <3>11. q.events = e \o d /\ q.rest = p.rest /\ q = Holds(q.events, q.rest)
      BY <3>6 DEF Holds, d
    <3>12. QED
      BY <3>5, <3>9, <3>10, <3>11 DEF Sound, q
  <2>5. QED
    BY <2>3, <2>4
<1>2. T = Nat
  <2> HIDE DEF T
  <2>1. T \in SUBSET Nat
    BY DEF T
  <2>2. QED
    BY <1>1, <2>1, Deepen
<1>3. QED
  <2>1. Len(s) \in Nat
    BY SeqFacts DEF WellFormed
  <2>2. QED
    BY <1>2, <2>1
----------------------------------------------------------------

\* Bytes that come in two bursts hold what they would hold at once: what the first
\* holds, and then what its rest holds with the second.
LEMMA Bursting ==
  ASSUME NEW dialect, NEW s, NEW t, IsSeq(s), IsSeq(t), WellFormed(dialect, s \o t)
  PROVE  LET before == Parse(dialect, s)
             now == Parse(dialect, before.rest \o t)
         IN  /\ WellFormed(dialect, before.rest \o t)
             /\ Parse(dialect, s \o t) = Ahead(before.events, now)
<1> DEFINE Fine(u) ==
             LET before == Parse(dialect, u)
                 now == Parse(dialect, before.rest \o t)
             IN  /\ WellFormed(dialect, before.rest \o t)
                 /\ Parse(dialect, u \o t) = Ahead(before.events, now)
           T == {k \in Nat : \A u : IsSeq(u) /\ Len(u) = k /\ WellFormed(dialect, u \o t) => Fine(u)}
<1>1. ASSUME NEW k \in Nat, \A m \in 0 .. k - 1 : m \in T
      PROVE  k \in T
  <2> SUFFICES ASSUME NEW u, IsSeq(u), Len(u) = k, WellFormed(dialect, u \o t)
               PROVE  Fine(u)
    OBVIOUS
  <2> DEFINE next == NextOf(dialect, u)
             c == next.bytes
             r == After(u, c)
  <2>1. WellFormed(dialect, u)
    BY PrefixWellFormed
  <2>2. c \in 0 .. Len(u) /\ IsSeq(next.events)
    BY <2>1, NextTakes DEF Takes
  <2>3. Parse(dialect, u) = IF c = 0 THEN Holds(<< >>, u) ELSE Ahead(next.events, Parse(dialect, r))
    BY <2>1, Unfolds
  <2>4. CASE c = 0
    <3> DEFINE p == Parse(dialect, u \o t)
    <3>1. Parse(dialect, u).events = << >> /\ Parse(dialect, u).rest = u
      BY <2>3, <2>4 DEF Holds
    <3>2. Sound(dialect, p, u \o t)
      BY ParseSound
    <3>3. p = Holds(p.events, p.rest) /\ IsSeq(p.events)
      BY <3>2 DEF Sound
    <3>4. << >> \o p.events = p.events
      BY <3>3, Neutral
    <3> HIDE DEF p
    <3>5. p = Ahead(<< >>, p)
      BY <3>3, <3>4 DEF Ahead
    <3>6. QED
      BY <3>1, <3>5 DEF p
  <2>5. CASE c # 0
    <3> DEFINE a == Parse(dialect, r)
               b == Parse(dialect, a.rest \o t)
               e == next.events
    <3>1. NextOf(dialect, u \o t) = next
      BY <2>5, NextStays
    <3>2. Parse(dialect, u \o t) = Ahead(e, Parse(dialect, After(u \o t, c)))
      BY <2>5, <3>1, Unfolds
    <3>3. After(u \o t, c) = r \o t
      BY <2>2, CutJoined
    <3>4. WellFormed(dialect, r \o t)
      <4>1. WellFormed(dialect, After(u \o t, c))
        BY <3>1, RestWellFormed
      <4>2. QED
        BY <3>3, <4>1
    <3>5. IsSeq(r) /\ Len(r) \in 0 .. k - 1
      <4> HIDE DEF next
      <4>1. c \in 0 .. Len(u) /\ c # 0
        BY <2>2, <2>5
      <4> HIDE DEF c
      <4>2. IsSeq(After(u, c)) /\ Len(After(u, c)) = Len(u) - c
        BY <4>1, Cuts
      <4>3. QED
        BY <4>1, <4>2
    <3>6. WellFormed(dialect, a.rest \o t) /\ Parse(dialect, r \o t) = Ahead(a.events, b)
      BY <1>1, <3>4, <3>5
    <3>7. IsSeq(a.events)
      BY <2>1, RestWellFormed, ParseSound DEF Sound
    <3>8. IsSeq(b.events)
      BY <3>6, ParseSound DEF Sound
    <3>9. Parse(dialect, u) = Ahead(e, a)
      BY <2>3, <2>5
    <3>10. Parse(dialect, u \o t) = Ahead(e, Ahead(a.events, b))
      BY <3>2, <3>3, <3>6
    <3> DEFINE d == a.events
               x == b.events
               z == b.rest
    <3>11. (e \o d) \o x = e \o (d \o x)
      <4>1. IsSeq(e) /\ IsSeq(d) /\ IsSeq(x)
        BY <2>2, <3>7, <3>8
      <4> HIDE DEF e, d, x
      <4>2. QED
        BY <4>1, Associates
    <3>12. Parse(dialect, u).events = e \o d /\ Parse(dialect, u).rest = a.rest
      <4> HIDE DEF a, e
      <4>1. Ahead(e, a).events = e \o d /\ Ahead(e, a).rest = a.rest
        BY DEF Ahead, Holds
      <4>2. QED
        BY <3>9, <4>1
    <3>13. Ahead(e, Ahead(d, b)) = Holds(e \o (d \o x), z)
      BY DEF Ahead, Holds
    <3>14. Ahead(e \o d, b) = Holds((e \o d) \o x, z)
      BY DEF Ahead
    <3> HIDE DEF a, b, e, d, x, z, next, c, r, T
    <3>15. Parse(dialect, u \o t) = Ahead(e \o d, b)
      BY <3>10, <3>11, <3>13, <3>14 DEF d
    <3>16. QED
      BY <3>6, <3>12, <3>15 DEF b
  <2>6. QED
    BY <2>4, <2>5
<1>2. T = Nat
  <2> HIDE DEF T
  <2>1. T \in SUBSET Nat
    BY DEF T
  <2>2. QED
    BY <1>1, <2>1, Deepen
<1>3. QED
  <2>1. Len(s) \in Nat
    BY SeqFacts
  <2> HIDE DEF Fine
  <2>2. Fine(s)
    BY <1>2, <2>1
  <2>3. QED
    BY <2>2 DEF Fine
----------------------------------------------------------------

-----------------------------------------------------------------------------
(* Events are translated, and chunks rendered, one after the other. *)

\* What an event is translated to: chunks, whose calls are a sequence.
Tame(chunk) == IsSeq(chunk.calls)
Talks(dialect, event) ==
  \A d : LET out == OnEvent(dialect, d, event)
         IN  IsSeq(out.chunks) /\ \A k \in 1 .. Len(out.chunks) : Tame(out.chunks[k])

Translating(f, dialect, d, events) ==
  /\ f[0] = Yield(d, << >>)
  /\ \A i \in 1 .. Len(events) : f[i] = Yield(OnEvent(dialect, f[i - 1].d, events[i]).d, f[i - 1].chunks \o OnEvent(dialect, f[i - 1].d, events[i]).chunks)

LEMMA EventsTraced ==
  ASSUME NEW dialect, NEW d, NEW events, IsSeq(events)
  PROVE  \E f : Translating(f, dialect, d, events) /\ OnEvents(dialect, d, events) = f[Len(events)]
<1> DEFINE Def(f, n) ==
             f = [i \in 0 .. n |-> IF i = 0 THEN Yield(d, << >>) ELSE Yield(OnEvent(dialect, f[i - 1].d, events[i]).d, f[i - 1].chunks \o OnEvent(dialect, f[i - 1].d, events[i]).chunks)]
           T == {n \in Nat : \E f : Def(f, n)}
<1>1. 0 \in T
  <2> DEFINE f == [i \in 0 .. 0 |-> Yield(d, << >>)]
  <2>1. Def(f, 0)
    OBVIOUS
  <2>2. QED
    BY <2>1
<1>2. ASSUME NEW n \in T
      PROVE  n + 1 \in T
  <2>1. PICK f : Def(f, n)
    BY <1>2
  <2>2. n \in Nat
    BY <1>2
  <2> DEFINE g == [i \in 0 .. n + 1 |-> IF i = n + 1 THEN Yield(OnEvent(dialect, f[n].d, events[n + 1]).d, f[n].chunks \o OnEvent(dialect, f[n].d, events[n + 1]).chunks) ELSE f[i]]
  <2>3. \A i \in 0 .. n : f[i] = IF i = 0 THEN Yield(d, << >>) ELSE Yield(OnEvent(dialect, f[i - 1].d, events[i]).d, f[i - 1].chunks \o OnEvent(dialect, f[i - 1].d, events[i]).chunks)
    BY <2>1
  <2>4. \A i \in 0 .. n : g[i] = f[i]
    BY <2>2
  <2>5. g[n + 1] = Yield(OnEvent(dialect, g[n].d, events[n + 1]).d, g[n].chunks \o OnEvent(dialect, g[n].d, events[n + 1]).chunks)
    BY <2>2, <2>4
  <2> HIDE DEF Def, T
  <2>6. \A i \in 0 .. n + 1 : g[i] = IF i = 0 THEN Yield(d, << >>) ELSE Yield(OnEvent(dialect, g[i - 1].d, events[i]).d, g[i - 1].chunks \o OnEvent(dialect, g[i - 1].d, events[i]).chunks)
    <3> SUFFICES ASSUME NEW i \in 0 .. n + 1
                 PROVE  g[i] = IF i = 0 THEN Yield(d, << >>) ELSE Yield(OnEvent(dialect, g[i - 1].d, events[i]).d, g[i - 1].chunks \o OnEvent(dialect, g[i - 1].d, events[i]).chunks)
      OBVIOUS
    <3>1. CASE i = n + 1
      <4>1. i # 0 /\ i - 1 = n
        BY <2>2, <3>1
      <4>2. QED
        BY <2>5, <3>1, <4>1
    <3>2. CASE i # n + 1
      <4>1. i \in 0 .. n /\ (i # 0 => i - 1 \in 0 .. n)
        BY <2>2, <3>2
      <4> HIDE DEF g
      <4>2. QED
        BY <2>3, <2>4, <4>1
    <3>3. QED
      BY <3>1, <3>2
  <2>7. g = [i \in 0 .. n + 1 |-> g[i]]
    OBVIOUS
  <2> HIDE DEF g
  <2>8. Def(g, n + 1)
    BY <2>6, <2>7 DEF Def
  <2>9. QED
    BY <2>2, <2>8 DEF T
<1>3. Len(events) \in T
  <2> HIDE DEF T
  <2>1. T \in SUBSET Nat
    BY DEF T
  <2>2. T = Nat
    BY <1>1, <1>2, <2>1, Climb
  <2>3. QED
    BY <2>2, SeqFacts
<1> DEFINE at[i \in 0 .. Len(events)] == IF i = 0 THEN Yield(d, << >>) ELSE Yield(OnEvent(dialect, at[i - 1].d, events[i]).d, at[i - 1].chunks \o OnEvent(dialect, at[i - 1].d, events[i]).chunks)
<1>4. at = [i \in 0 .. Len(events) |-> IF i = 0 THEN Yield(d, << >>) ELSE Yield(OnEvent(dialect, at[i - 1].d, events[i]).d, at[i - 1].chunks \o OnEvent(dialect, at[i - 1].d, events[i]).chunks)]
  <2>1. \E f : f = [i \in 0 .. Len(events) |-> IF i = 0 THEN Yield(d, << >>) ELSE Yield(OnEvent(dialect, f[i - 1].d, events[i]).d, f[i - 1].chunks \o OnEvent(dialect, f[i - 1].d, events[i]).chunks)]
    BY <1>3
  <2>2. QED
    BY <2>1
<1>5. OnEvents(dialect, d, events) = at[Len(events)]
  BY DEF OnEvents
<1> HIDE DEF at
<1>6. at[0] = Yield(d, << >>) /\ \A i \in 1 .. Len(events) : at[i] = Yield(OnEvent(dialect, at[i - 1].d, events[i]).d, at[i - 1].chunks \o OnEvent(dialect, at[i - 1].d, events[i]).chunks)
  <2>1. Len(events) \in Nat
    BY SeqFacts
  <2>2. \A i \in 1 .. Len(events) : i \in 0 .. Len(events) /\ i # 0
    BY <2>1
  <2>3. 0 \in 0 .. Len(events)
    BY <2>1
  <2>4. QED
    BY <1>4, <2>2, <2>3
<1>7. Translating(at, dialect, d, events)
  BY <1>6 DEF Translating
<1>8. QED
  BY <1>5, <1>7

LEMMA EventsYield ==
  ASSUME NEW dialect, NEW d, NEW s, IsSeq(s), \A i \in 1 .. Len(s) : Talks(dialect, s[i])
  PROVE  LET all == OnEvents(dialect, d, s)
         IN  /\ all = Yield(all.d, all.chunks) /\ IsSeq(all.chunks)
             /\ \A k \in 1 .. Len(all.chunks) : Tame(all.chunks[k])
<1>1. PICK f : Translating(f, dialect, d, s) /\ OnEvents(dialect, d, s) = f[Len(s)]
  BY EventsTraced
<1>2. /\ f[0] = Yield(d, << >>)
      /\ \A i \in 1 .. Len(s) :
           f[i] = Yield(OnEvent(dialect, f[i - 1].d, s[i]).d,
                        f[i - 1].chunks \o OnEvent(dialect, f[i - 1].d, s[i]).chunks)
  BY <1>1 DEF Translating
<1>3. Len(s) \in Nat
  BY SeqFacts
<1> DEFINE Fine(x) == /\ x = Yield(x.d, x.chunks) /\ IsSeq(x.chunks)
                      /\ \A k \in 1 .. Len(x.chunks) : Tame(x.chunks[k])
           T == {n \in Nat : n <= Len(s) => Fine(f[n])}
<1>4. 0 \in T
  <2>1. IsSeq(<< >>) /\ Len(<< >>) = 0
    BY DEF IsSeq
  <2>2. QED
    BY <1>2, <2>1 DEF Yield
<1>5. ASSUME NEW n \in T
      PROVE  n + 1 \in T
  <2>1. n \in Nat
    BY <1>5
  <2> SUFFICES ASSUME n + 1 <= Len(s)
               PROVE  Fine(f[n + 1])
    BY <2>1
  <2>2. Fine(f[n]) /\ n + 1 \in 1 .. Len(s) /\ n + 1 - 1 = n
    BY <1>3, <1>5, <2>1
  <2> DEFINE next == OnEvent(dialect, f[n].d, s[n + 1])
             before == f[n].chunks
             out == next.chunks
             x == f[n + 1]
  <2>3. x = Yield(next.d, before \o out)
    BY <1>2, <2>2
  <2>4. IsSeq(out) /\ \A k \in 1 .. Len(out) : Tame(out[k])
    BY <2>2 DEF Talks
  <2>5. IsSeq(before) /\ \A k \in 1 .. Len(before) : Tame(before[k])
    BY <2>2
  <2> HIDE DEF before, out, next, x, T
  <2>6. /\ IsSeq(before \o out)
        /\ \A k \in 1 .. Len(before \o out) :
             \/ k \in 1 .. Len(before) /\ (before \o out)[k] = before[k]
             \/ k - Len(before) \in 1 .. Len(out) /\ (before \o out)[k] = out[k - Len(before)]
    BY <2>4, <2>5, Joined
  <2>7. \A k \in 1 .. Len(before \o out) : Tame((before \o out)[k])
    BY <2>4, <2>5, <2>6
  <2>8. x.d = next.d /\ x.chunks = before \o out
    BY <2>3 DEF Yield
  <2>9. Fine(x)
    BY <2>3, <2>6, <2>7, <2>8
  <2>10. QED
    BY <2>9 DEF x
<1>6. T = Nat
  <2> HIDE DEF T
  <2>1. T \in SUBSET Nat
    BY DEF T
  <2>2. QED
    BY <1>4, <1>5, <2>1, Climb
<1>7. Fine(f[Len(s)])
  BY <1>3, <1>6
<1>8. QED
  BY <1>1, <1>7

\* Events that come in two parts are translated as if they came at once.
LEMMA EventsJoined ==
  ASSUME NEW dialect, NEW d, NEW s, NEW t, IsSeq(s), IsSeq(t),
         \A i \in 1 .. Len(s) : Talks(dialect, s[i]), \A i \in 1 .. Len(t) : Talks(dialect, t[i])
  PROVE  LET before == OnEvents(dialect, d, s)
             now == OnEvents(dialect, before.d, t)
         IN  OnEvents(dialect, d, s \o t) = Yield(now.d, before.chunks \o now.chunks)
<1> DEFINE w == s \o t
           N == Len(s)
           M == Len(t)
           before == OnEvents(dialect, d, s)
           now == OnEvents(dialect, before.d, t)
           u == before.chunks
<1>1. /\ IsSeq(w) /\ Len(w) = N + M
      /\ \A i \in 1 .. N : w[i] = s[i]
      /\ \A i \in 1 .. M : w[N + i] = t[i]
  BY Joined
<1>2. N \in Nat /\ M \in Nat
  BY SeqFacts
<1>3. before = Yield(before.d, u) /\ IsSeq(u)
  BY EventsYield
<1> HIDE DEF w
<1>4. PICK f : Translating(f, dialect, d, w) /\ OnEvents(dialect, d, w) = f[Len(w)]
  BY <1>1, EventsTraced
<1>5. PICK g : Translating(g, dialect, d, s) /\ before = g[N]
  BY EventsTraced
<1> HIDE DEF before
<1>6. PICK h : Translating(h, dialect, before.d, t) /\ now = h[M]
  BY EventsTraced
<1> DEFINE Step(x, e) == Yield(OnEvent(dialect, x.d, e).d, x.chunks \o OnEvent(dialect, x.d, e).chunks)
<1>7. f[0] = Yield(d, << >>) /\ \A i \in 1 .. Len(w) : f[i] = Step(f[i - 1], w[i])
  BY <1>4 DEF Translating
<1>8. g[0] = Yield(d, << >>) /\ \A i \in 1 .. N : g[i] = Step(g[i - 1], s[i])
  BY <1>5 DEF Translating
<1>9. h[0] = Yield(before.d, << >>) /\ \A i \in 1 .. M : h[i] = Step(h[i - 1], t[i])
  BY <1>6 DEF Translating
<1> HIDE DEF now, N, M, u
<1>10. f[N] = before
  <2> DEFINE T == {n \in Nat : n <= N => f[n] = g[n]}
  <2>1. 0 \in T
    BY <1>7, <1>8
  <2>2. ASSUME NEW n \in T
        PROVE  n + 1 \in T
    <3> SUFFICES ASSUME n + 1 <= N
                 PROVE  f[n + 1] = g[n + 1]
      BY <2>2
    <3>1. n \in Nat /\ n + 1 \in 1 .. N /\ n + 1 \in 1 .. Len(w) /\ n + 1 - 1 = n
      BY <1>1, <1>2, <2>2
    <3>2. f[n] = g[n] /\ w[n + 1] = s[n + 1]
      BY <1>1, <1>2, <2>2, <3>1
    <3> HIDE DEF Step
    <3>3. f[n + 1] = Step(f[n], w[n + 1]) /\ g[n + 1] = Step(g[n], s[n + 1])
      BY <1>7, <1>8, <3>1
    <3>4. QED
      BY <3>2, <3>3
  <2> HIDE DEF T
  <2>3. T \in SUBSET Nat
    BY DEF T
  <2>4. T = Nat
    BY <2>1, <2>2, <2>3, Climb
  <2>5. QED
    BY <1>2, <1>5, <2>4 DEF T
<1> DEFINE Wide(x) == Yield(x.d, u \o x.chunks)
           T == {n \in Nat : n <= M => f[N + n] = Wide(h[n]) /\ IsSeq(h[n].chunks)}
<1>11. 0 \in T
  <2>1. h[0].d = before.d /\ h[0].chunks = << >> /\ N + 0 = N
    BY <1>2, <1>9 DEF Yield
  <2>2. u \o << >> = u /\ IsSeq(<< >>)
    BY <1>3, Neutral
  <2>3. f[N + 0] = Wide(h[0])
    BY <1>3, <1>10, <2>1, <2>2
  <2>4. QED
    BY <2>1, <2>2, <2>3
<1>12. ASSUME NEW n \in T
       PROVE  n + 1 \in T
  <2>1. n \in Nat
    BY <1>12
  <2> SUFFICES ASSUME n + 1 <= M
               PROVE  f[N + (n + 1)] = Wide(h[n + 1]) /\ IsSeq(h[n + 1].chunks)
    BY <2>1
  <2>2. /\ f[N + n] = Wide(h[n]) /\ IsSeq(h[n].chunks)
    BY <1>2, <1>12, <2>1
  <2>3. /\ n + 1 \in 1 .. M /\ N + (n + 1) \in 1 .. Len(w)
        /\ n + 1 - 1 = n /\ N + (n + 1) - 1 = N + n
    BY <1>1, <1>2, <2>1
  <2>4. w[N + (n + 1)] = t[n + 1]
    BY <1>1, <2>3
  <2> DEFINE x == h[n]
             e == t[n + 1]
             o == OnEvent(dialect, x.d, e)
  <2>5. h[n + 1] = Yield(o.d, x.chunks \o o.chunks)
    BY <1>9, <2>3
  <2>6. f[N + n].d = x.d /\ f[N + n].chunks = u \o x.chunks
    BY <2>2 DEF Yield
  <2>7. f[N + (n + 1)] = Yield(o.d, (u \o x.chunks) \o o.chunks)
    <3> DEFINE z == f[N + n]
    <3>1. z.d = x.d /\ z.chunks = u \o x.chunks
      BY <2>6
    <3> HIDE DEF x, z, Step
    <3>2. f[N + (n + 1)] = Step(z, e)
      <4> DEFINE i == N + (n + 1)
      <4>1. i \in 1 .. Len(w) /\ i - 1 = N + n /\ w[i] = e
        <5>1. w[i] = e
          BY <2>4
        <5>2. i \in 1 .. Len(w) /\ i - 1 = N + n
          BY <1>2, <2>1, <2>3
        <5>3. QED
          BY <5>1, <5>2
      <4> HIDE DEF i, e
      <4>2. f[i] = Step(f[i - 1], w[i])
        BY <1>7, <4>1
      <4>3. QED
        BY <4>1, <4>2 DEF i, z
    <3>3. Step(z, e) = Yield(o.d, (u \o x.chunks) \o o.chunks)
      BY <3>1 DEF Step
    <3>4. QED
      BY <3>2, <3>3
  <2>8. IsSeq(o.chunks)
    BY <2>3 DEF Talks, M
  <2> DEFINE a == x.chunks
             b == o.chunks
             c == o.d
             y == h[n + 1]
  <2>9. IsSeq(a) /\ IsSeq(b)
    BY <2>2, <2>8
  <2> HIDE DEF x, e, o, a, b, c, y, T
  <2>10. (u \o a) \o b = u \o (a \o b) /\ IsSeq(a \o b)
    BY <1>3, <2>9, Associates, Joined
  <2>11. y.d = c /\ y.chunks = a \o b
    <3> DEFINE z == a \o b
    <3>1. y = Yield(c, z)
      BY <2>5 DEF y, a, b, c
    <3> HIDE DEF z
    <3>2. y.d = c /\ y.chunks = z
      BY <3>1 DEF Yield
    <3>3. QED
      BY <3>2 DEF z
  <2>12. f[N + (n + 1)] = Yield(c, (u \o a) \o b)
    BY <2>7 DEF a, b, c
  <2>13. Wide(y) = Yield(c, u \o (a \o b))
    BY <2>11
  <2>14. f[N + (n + 1)] = Wide(y) /\ IsSeq(y.chunks)
    BY <2>10, <2>11, <2>12, <2>13
  <2>15. QED
    BY <2>14 DEF y
<1>13. T = Nat
  <2> HIDE DEF T
  <2>1. T \in SUBSET Nat
    BY DEF T
  <2>2. QED
    BY <1>11, <1>12, <2>1, Climb
<1>14. f[N + M] = Wide(h[M])
  <2> HIDE DEF T, Wide
  <2>1. M \in T /\ M <= M
    BY <1>2, <1>13
  <2>2. QED
    BY <2>1 DEF T
<1>15. OnEvents(dialect, d, w) = Yield(now.d, u \o now.chunks)
  BY <1>1, <1>4, <1>6, <1>14
<1>16. QED
  BY <1>15 DEF w, u, now, before
----------------------------------------------------------------

\* What a chunk is rendered as: frames.
Shows(target, chunk) == \A r : IsSeq(OnChunk(target, r, chunk).frames)

Rendering(f, target, r, chunks) ==
  /\ f[0] = Out(r, << >>)
  /\ \A i \in 1 .. Len(chunks) : f[i] = Out(OnChunk(target, f[i - 1].r, chunks[i]).r, f[i - 1].frames \o OnChunk(target, f[i - 1].r, chunks[i]).frames)

LEMMA ChunksTraced ==
  ASSUME NEW target, NEW r, NEW chunks, IsSeq(chunks)
  PROVE  \E f : Rendering(f, target, r, chunks) /\ OnChunks(target, r, chunks) = f[Len(chunks)]
<1> DEFINE Def(f, n) ==
             f = [i \in 0 .. n |-> IF i = 0 THEN Out(r, << >>) ELSE Out(OnChunk(target, f[i - 1].r, chunks[i]).r, f[i - 1].frames \o OnChunk(target, f[i - 1].r, chunks[i]).frames)]
           T == {n \in Nat : \E f : Def(f, n)}
<1>1. 0 \in T
  <2> DEFINE f == [i \in 0 .. 0 |-> Out(r, << >>)]
  <2>1. Def(f, 0)
    OBVIOUS
  <2>2. QED
    BY <2>1
<1>2. ASSUME NEW n \in T
      PROVE  n + 1 \in T
  <2>1. PICK f : Def(f, n)
    BY <1>2
  <2>2. n \in Nat
    BY <1>2
  <2> DEFINE g == [i \in 0 .. n + 1 |-> IF i = n + 1 THEN Out(OnChunk(target, f[n].r, chunks[n + 1]).r, f[n].frames \o OnChunk(target, f[n].r, chunks[n + 1]).frames) ELSE f[i]]
  <2>3. \A i \in 0 .. n : f[i] = IF i = 0 THEN Out(r, << >>) ELSE Out(OnChunk(target, f[i - 1].r, chunks[i]).r, f[i - 1].frames \o OnChunk(target, f[i - 1].r, chunks[i]).frames)
    BY <2>1
  <2>4. \A i \in 0 .. n : g[i] = f[i]
    BY <2>2
  <2>5. g[n + 1] = Out(OnChunk(target, g[n].r, chunks[n + 1]).r, g[n].frames \o OnChunk(target, g[n].r, chunks[n + 1]).frames)
    BY <2>2, <2>4
  <2> HIDE DEF Def, T
  <2>6. \A i \in 0 .. n + 1 : g[i] = IF i = 0 THEN Out(r, << >>) ELSE Out(OnChunk(target, g[i - 1].r, chunks[i]).r, g[i - 1].frames \o OnChunk(target, g[i - 1].r, chunks[i]).frames)
    <3> SUFFICES ASSUME NEW i \in 0 .. n + 1
                 PROVE  g[i] = IF i = 0 THEN Out(r, << >>) ELSE Out(OnChunk(target, g[i - 1].r, chunks[i]).r, g[i - 1].frames \o OnChunk(target, g[i - 1].r, chunks[i]).frames)
      OBVIOUS
    <3>1. CASE i = n + 1
      <4>1. i # 0 /\ i - 1 = n
        BY <2>2, <3>1
      <4>2. QED
        BY <2>5, <3>1, <4>1
    <3>2. CASE i # n + 1
      <4>1. i \in 0 .. n /\ (i # 0 => i - 1 \in 0 .. n)
        BY <2>2, <3>2
      <4> HIDE DEF g
      <4>2. QED
        BY <2>3, <2>4, <4>1
    <3>3. QED
      BY <3>1, <3>2
  <2>7. g = [i \in 0 .. n + 1 |-> g[i]]
    OBVIOUS
  <2> HIDE DEF g
  <2>8. Def(g, n + 1)
    BY <2>6, <2>7 DEF Def
  <2>9. QED
    BY <2>2, <2>8 DEF T
<1>3. Len(chunks) \in T
  <2> HIDE DEF T
  <2>1. T \in SUBSET Nat
    BY DEF T
  <2>2. T = Nat
    BY <1>1, <1>2, <2>1, Climb
  <2>3. QED
    BY <2>2, SeqFacts
<1> DEFINE at[i \in 0 .. Len(chunks)] == IF i = 0 THEN Out(r, << >>) ELSE Out(OnChunk(target, at[i - 1].r, chunks[i]).r, at[i - 1].frames \o OnChunk(target, at[i - 1].r, chunks[i]).frames)
<1>4. at = [i \in 0 .. Len(chunks) |-> IF i = 0 THEN Out(r, << >>) ELSE Out(OnChunk(target, at[i - 1].r, chunks[i]).r, at[i - 1].frames \o OnChunk(target, at[i - 1].r, chunks[i]).frames)]
  <2>1. \E f : f = [i \in 0 .. Len(chunks) |-> IF i = 0 THEN Out(r, << >>) ELSE Out(OnChunk(target, f[i - 1].r, chunks[i]).r, f[i - 1].frames \o OnChunk(target, f[i - 1].r, chunks[i]).frames)]
    BY <1>3
  <2>2. QED
    BY <2>1
<1>5. OnChunks(target, r, chunks) = at[Len(chunks)]
  BY DEF OnChunks
<1> HIDE DEF at
<1>6. at[0] = Out(r, << >>) /\ \A i \in 1 .. Len(chunks) : at[i] = Out(OnChunk(target, at[i - 1].r, chunks[i]).r, at[i - 1].frames \o OnChunk(target, at[i - 1].r, chunks[i]).frames)
  <2>1. Len(chunks) \in Nat
    BY SeqFacts
  <2>2. \A i \in 1 .. Len(chunks) : i \in 0 .. Len(chunks) /\ i # 0
    BY <2>1
  <2>3. 0 \in 0 .. Len(chunks)
    BY <2>1
  <2>4. QED
    BY <1>4, <2>2, <2>3
<1>7. Rendering(at, target, r, chunks)
  BY <1>6 DEF Rendering
<1>8. QED
  BY <1>5, <1>7

LEMMA ChunksYield ==
  ASSUME NEW target, NEW r, NEW s, IsSeq(s), \A i \in 1 .. Len(s) : Shows(target, s[i])
  PROVE  LET all == OnChunks(target, r, s)
         IN  all = Out(all.r, all.frames) /\ IsSeq(all.frames)
<1>1. PICK f : Rendering(f, target, r, s) /\ OnChunks(target, r, s) = f[Len(s)]
  BY ChunksTraced
<1>2. /\ f[0] = Out(r, << >>)
      /\ \A i \in 1 .. Len(s) :
           f[i] = Out(OnChunk(target, f[i - 1].r, s[i]).r,
                        f[i - 1].frames \o OnChunk(target, f[i - 1].r, s[i]).frames)
  BY <1>1 DEF Rendering
<1>3. Len(s) \in Nat
  BY SeqFacts
<1> DEFINE Fine(x) == x = Out(x.r, x.frames) /\ IsSeq(x.frames)
           T == {n \in Nat : n <= Len(s) => Fine(f[n])}
<1>4. 0 \in T
  <2>1. IsSeq(<< >>) /\ Len(<< >>) = 0
    BY DEF IsSeq
  <2>2. QED
    BY <1>2, <2>1 DEF Out
<1>5. ASSUME NEW n \in T
      PROVE  n + 1 \in T
  <2>1. n \in Nat
    BY <1>5
  <2> SUFFICES ASSUME n + 1 <= Len(s)
               PROVE  Fine(f[n + 1])
    BY <2>1
  <2>2. Fine(f[n]) /\ n + 1 \in 1 .. Len(s) /\ n + 1 - 1 = n
    BY <1>3, <1>5, <2>1
  <2> DEFINE next == OnChunk(target, f[n].r, s[n + 1])
             before == f[n].frames
             out == next.frames
             x == f[n + 1]
  <2>3. x = Out(next.r, before \o out)
    BY <1>2, <2>2
  <2>4. IsSeq(out)
    BY <2>2 DEF Shows
  <2>5. IsSeq(before)
    BY <2>2
  <2> HIDE DEF before, out, next, x, T
  <2>6. IsSeq(before \o out)
    BY <2>4, <2>5, Joined
  <2>7. x.r = next.r /\ x.frames = before \o out
    BY <2>3 DEF Out
  <2>8. Fine(x)
    BY <2>3, <2>6, <2>7
  <2>9. QED
    BY <2>8 DEF x
<1>6. T = Nat
  <2> HIDE DEF T
  <2>1. T \in SUBSET Nat
    BY DEF T
  <2>2. QED
    BY <1>4, <1>5, <2>1, Climb
<1>7. Fine(f[Len(s)])
  BY <1>3, <1>6
<1>8. QED
  BY <1>1, <1>7

\* Chunks that come in two parts are rendered as if they came at once.
LEMMA ChunksJoined ==
  ASSUME NEW target, NEW r, NEW s, NEW t, IsSeq(s), IsSeq(t),
         \A i \in 1 .. Len(s) : Shows(target, s[i]), \A i \in 1 .. Len(t) : Shows(target, t[i])
  PROVE  LET before == OnChunks(target, r, s)
             now == OnChunks(target, before.r, t)
         IN  OnChunks(target, r, s \o t) = Out(now.r, before.frames \o now.frames)
<1> DEFINE w == s \o t
           N == Len(s)
           M == Len(t)
           before == OnChunks(target, r, s)
           now == OnChunks(target, before.r, t)
           u == before.frames
<1>1. /\ IsSeq(w) /\ Len(w) = N + M
      /\ \A i \in 1 .. N : w[i] = s[i]
      /\ \A i \in 1 .. M : w[N + i] = t[i]
  BY Joined
<1>2. N \in Nat /\ M \in Nat
  BY SeqFacts
<1>3. before = Out(before.r, u) /\ IsSeq(u)
  BY ChunksYield
<1> HIDE DEF w
<1>4. PICK f : Rendering(f, target, r, w) /\ OnChunks(target, r, w) = f[Len(w)]
  BY <1>1, ChunksTraced
<1>5. PICK g : Rendering(g, target, r, s) /\ before = g[N]
  BY ChunksTraced
<1> HIDE DEF before
<1>6. PICK h : Rendering(h, target, before.r, t) /\ now = h[M]
  BY ChunksTraced
<1> DEFINE Step(x, e) == Out(OnChunk(target, x.r, e).r, x.frames \o OnChunk(target, x.r, e).frames)
<1>7. f[0] = Out(r, << >>) /\ \A i \in 1 .. Len(w) : f[i] = Step(f[i - 1], w[i])
  BY <1>4 DEF Rendering
<1>8. g[0] = Out(r, << >>) /\ \A i \in 1 .. N : g[i] = Step(g[i - 1], s[i])
  BY <1>5 DEF Rendering
<1>9. h[0] = Out(before.r, << >>) /\ \A i \in 1 .. M : h[i] = Step(h[i - 1], t[i])
  BY <1>6 DEF Rendering
<1> HIDE DEF now, N, M, u
<1>10. f[N] = before
  <2> DEFINE T == {n \in Nat : n <= N => f[n] = g[n]}
  <2>1. 0 \in T
    BY <1>7, <1>8
  <2>2. ASSUME NEW n \in T
        PROVE  n + 1 \in T
    <3> SUFFICES ASSUME n + 1 <= N
                 PROVE  f[n + 1] = g[n + 1]
      BY <2>2
    <3>1. n \in Nat /\ n + 1 \in 1 .. N /\ n + 1 \in 1 .. Len(w) /\ n + 1 - 1 = n
      BY <1>1, <1>2, <2>2
    <3>2. f[n] = g[n] /\ w[n + 1] = s[n + 1]
      BY <1>1, <1>2, <2>2, <3>1
    <3> HIDE DEF Step
    <3>3. f[n + 1] = Step(f[n], w[n + 1]) /\ g[n + 1] = Step(g[n], s[n + 1])
      BY <1>7, <1>8, <3>1
    <3>4. QED
      BY <3>2, <3>3
  <2> HIDE DEF T
  <2>3. T \in SUBSET Nat
    BY DEF T
  <2>4. T = Nat
    BY <2>1, <2>2, <2>3, Climb
  <2>5. QED
    BY <1>2, <1>5, <2>4 DEF T
<1> DEFINE Wide(x) == Out(x.r, u \o x.frames)
           T == {n \in Nat : n <= M => f[N + n] = Wide(h[n]) /\ IsSeq(h[n].frames)}
<1>11. 0 \in T
  <2>1. h[0].r = before.r /\ h[0].frames = << >> /\ N + 0 = N
    BY <1>2, <1>9 DEF Out
  <2>2. u \o << >> = u /\ IsSeq(<< >>)
    BY <1>3, Neutral
  <2>3. f[N + 0] = Wide(h[0])
    BY <1>3, <1>10, <2>1, <2>2
  <2>4. QED
    BY <2>1, <2>2, <2>3
<1>12. ASSUME NEW n \in T
       PROVE  n + 1 \in T
  <2>1. n \in Nat
    BY <1>12
  <2> SUFFICES ASSUME n + 1 <= M
               PROVE  f[N + (n + 1)] = Wide(h[n + 1]) /\ IsSeq(h[n + 1].frames)
    BY <2>1
  <2>2. /\ f[N + n] = Wide(h[n]) /\ IsSeq(h[n].frames)
    BY <1>2, <1>12, <2>1
  <2>3. /\ n + 1 \in 1 .. M /\ N + (n + 1) \in 1 .. Len(w)
        /\ n + 1 - 1 = n /\ N + (n + 1) - 1 = N + n
    BY <1>1, <1>2, <2>1
  <2>4. w[N + (n + 1)] = t[n + 1]
    BY <1>1, <2>3
  <2> DEFINE x == h[n]
             e == t[n + 1]
             o == OnChunk(target, x.r, e)
  <2>5. h[n + 1] = Out(o.r, x.frames \o o.frames)
    BY <1>9, <2>3
  <2>6. f[N + n].r = x.r /\ f[N + n].frames = u \o x.frames
    BY <2>2 DEF Out
  <2>7. f[N + (n + 1)] = Out(o.r, (u \o x.frames) \o o.frames)
    <3> DEFINE z == f[N + n]
    <3>1. z.r = x.r /\ z.frames = u \o x.frames
      BY <2>6
    <3> HIDE DEF x, z, Step
    <3>2. f[N + (n + 1)] = Step(z, e)
      <4> DEFINE i == N + (n + 1)
      <4>1. i \in 1 .. Len(w) /\ i - 1 = N + n /\ w[i] = e
        <5>1. w[i] = e
          BY <2>4
        <5>2. i \in 1 .. Len(w) /\ i - 1 = N + n
          BY <1>2, <2>1, <2>3
        <5>3. QED
          BY <5>1, <5>2
      <4> HIDE DEF i, e
      <4>2. f[i] = Step(f[i - 1], w[i])
        BY <1>7, <4>1
      <4>3. QED
        BY <4>1, <4>2 DEF i, z
    <3>3. Step(z, e) = Out(o.r, (u \o x.frames) \o o.frames)
      BY <3>1 DEF Step
    <3>4. QED
      BY <3>2, <3>3
  <2>8. IsSeq(o.frames)
    BY <2>3 DEF Shows, M
  <2> DEFINE a == x.frames
             b == o.frames
             c == o.r
             y == h[n + 1]
  <2>9. IsSeq(a) /\ IsSeq(b)
    BY <2>2, <2>8
  <2> HIDE DEF x, e, o, a, b, c, y, T
  <2>10. (u \o a) \o b = u \o (a \o b) /\ IsSeq(a \o b)
    BY <1>3, <2>9, Associates, Joined
  <2>11. y.r = c /\ y.frames = a \o b
    <3> DEFINE z == a \o b
    <3>1. y = Out(c, z)
      BY <2>5 DEF y, a, b, c
    <3> HIDE DEF z
    <3>2. y.r = c /\ y.frames = z
      BY <3>1 DEF Out
    <3>3. QED
      BY <3>2 DEF z
  <2>12. f[N + (n + 1)] = Out(c, (u \o a) \o b)
    BY <2>7 DEF a, b, c
  <2>13. Wide(y) = Out(c, u \o (a \o b))
    BY <2>11
  <2>14. f[N + (n + 1)] = Wide(y) /\ IsSeq(y.frames)
    BY <2>10, <2>11, <2>12, <2>13
  <2>15. QED
    BY <2>14 DEF y
<1>13. T = Nat
  <2> HIDE DEF T
  <2>1. T \in SUBSET Nat
    BY DEF T
  <2>2. QED
    BY <1>11, <1>12, <2>1, Climb
<1>14. f[N + M] = Wide(h[M])
  <2> HIDE DEF T, Wide
  <2>1. M \in T /\ M <= M
    BY <1>2, <1>13
  <2>2. QED
    BY <2>1 DEF T
<1>15. OnChunks(target, r, w) = Out(now.r, u \o now.frames)
  BY <1>1, <1>4, <1>6, <1>14
<1>16. QED
  BY <1>15 DEF w, u, now, before
----------------------------------------------------------------

-----------------------------------------------------------------------------
(* Frames are read one after the other. *)

Listening(f, target, c, frames) ==
  /\ f[0] = c
  /\ \A i \in 1 .. Len(frames) : f[i] = Read(target, f[i - 1], frames[i])

LEMMA FramesTraced ==
  ASSUME NEW target, NEW c, NEW frames, IsSeq(frames)
  PROVE  \E f : Listening(f, target, c, frames) /\ ReadAll(target, c, frames) = f[Len(frames)]
<1> DEFINE Def(f, n) ==
             f = [i \in 0 .. n |-> IF i = 0 THEN c ELSE Read(target, f[i - 1], frames[i])]
           T == {n \in Nat : \E f : Def(f, n)}
<1>1. 0 \in T
  <2> DEFINE f == [i \in 0 .. 0 |-> c]
  <2>1. Def(f, 0)
    OBVIOUS
  <2>2. QED
    BY <2>1
<1>2. ASSUME NEW n \in T
      PROVE  n + 1 \in T
  <2>1. PICK f : Def(f, n)
    BY <1>2
  <2>2. n \in Nat
    BY <1>2
  <2> DEFINE g == [i \in 0 .. n + 1 |-> IF i = n + 1 THEN Read(target, f[n], frames[n + 1]) ELSE f[i]]
  <2>3. \A i \in 0 .. n : f[i] = IF i = 0 THEN c ELSE Read(target, f[i - 1], frames[i])
    BY <2>1
  <2>4. \A i \in 0 .. n : g[i] = f[i]
    BY <2>2
  <2>5. g[n + 1] = Read(target, g[n], frames[n + 1])
    BY <2>2, <2>4
  <2> HIDE DEF Def, T
  <2>6. \A i \in 0 .. n + 1 : g[i] = IF i = 0 THEN c ELSE Read(target, g[i - 1], frames[i])
    <3> SUFFICES ASSUME NEW i \in 0 .. n + 1
                 PROVE  g[i] = IF i = 0 THEN c ELSE Read(target, g[i - 1], frames[i])
      OBVIOUS
    <3>1. CASE i = n + 1
      <4>1. i # 0 /\ i - 1 = n
        BY <2>2, <3>1
      <4>2. QED
        BY <2>5, <3>1, <4>1
    <3>2. CASE i # n + 1
      <4>1. i \in 0 .. n /\ (i # 0 => i - 1 \in 0 .. n)
        BY <2>2, <3>2
      <4> HIDE DEF g
      <4>2. QED
        BY <2>3, <2>4, <4>1
    <3>3. QED
      BY <3>1, <3>2
  <2>7. g = [i \in 0 .. n + 1 |-> g[i]]
    OBVIOUS
  <2> HIDE DEF g
  <2>8. Def(g, n + 1)
    BY <2>6, <2>7 DEF Def
  <2>9. QED
    BY <2>2, <2>8 DEF T
<1>3. Len(frames) \in T
  <2> HIDE DEF T
  <2>1. T \in SUBSET Nat
    BY DEF T
  <2>2. T = Nat
    BY <1>1, <1>2, <2>1, Climb
  <2>3. QED
    BY <2>2, SeqFacts
<1> DEFINE at[i \in 0 .. Len(frames)] == IF i = 0 THEN c ELSE Read(target, at[i - 1], frames[i])
<1>4. at = [i \in 0 .. Len(frames) |-> IF i = 0 THEN c ELSE Read(target, at[i - 1], frames[i])]
  <2>1. \E f : f = [i \in 0 .. Len(frames) |-> IF i = 0 THEN c ELSE Read(target, f[i - 1], frames[i])]
    BY <1>3
  <2>2. QED
    BY <2>1
<1>5. ReadAll(target, c, frames) = at[Len(frames)]
  BY DEF ReadAll
<1> HIDE DEF at
<1>6. at[0] = c /\ \A i \in 1 .. Len(frames) : at[i] = Read(target, at[i - 1], frames[i])
  <2>1. Len(frames) \in Nat
    BY SeqFacts
  <2>2. \A i \in 1 .. Len(frames) : i \in 0 .. Len(frames) /\ i # 0
    BY <2>1
  <2>3. 0 \in 0 .. Len(frames)
    BY <2>1
  <2>4. QED
    BY <1>4, <2>2, <2>3
<1>7. Listening(at, target, c, frames)
  BY <1>6 DEF Listening
<1>8. QED
  BY <1>5, <1>7

\* Frames that come in two parts are read as if they came at once.
LEMMA FramesJoined ==
  ASSUME NEW target, NEW c, NEW s, NEW t, IsSeq(s), IsSeq(t)
  PROVE  ReadAll(target, c, s \o t) = ReadAll(target, ReadAll(target, c, s), t)
<1> DEFINE w == s \o t
           N == Len(s)
           M == Len(t)
           now == ReadAll(target, c, s)
<1>1. /\ IsSeq(w) /\ Len(w) = N + M
      /\ \A i \in 1 .. N : w[i] = s[i]
      /\ \A i \in 1 .. M : w[N + i] = t[i]
  BY Joined
<1>2. N \in Nat /\ M \in Nat
  BY SeqFacts
<1> HIDE DEF w
<1>3. PICK f : Listening(f, target, c, w) /\ ReadAll(target, c, w) = f[Len(w)]
  <2>1. IsSeq(w)
    BY <1>1
  <2>2. QED
    BY <2>1, FramesTraced
<1>4. PICK g : Listening(g, target, c, s) /\ now = g[N]
  BY FramesTraced
<1> HIDE DEF now
<1>5. PICK h : Listening(h, target, now, t) /\ ReadAll(target, now, t) = h[M]
  BY FramesTraced
<1>6. f[0] = c /\ \A i \in 1 .. Len(w) : f[i] = Read(target, f[i - 1], w[i])
  BY <1>3 DEF Listening
<1>7. g[0] = c /\ \A i \in 1 .. N : g[i] = Read(target, g[i - 1], s[i])
  BY <1>4 DEF Listening
<1>8. h[0] = now /\ \A i \in 1 .. M : h[i] = Read(target, h[i - 1], t[i])
  BY <1>5 DEF Listening
<1> HIDE DEF N, M
<1> DEFINE T == {n \in Nat : n <= N => f[n] = g[n]}
           Q == {n \in Nat : n <= M => f[N + n] = h[n]}
<1>9. T = Nat
  <2>1. 0 \in T
    BY <1>6, <1>7
  <2>2. ASSUME NEW n \in T
        PROVE  n + 1 \in T
    <3> SUFFICES ASSUME n + 1 <= N
                 PROVE  f[n + 1] = g[n + 1]
      BY <2>2
    <3>1. n \in Nat /\ n + 1 \in 1 .. N /\ n + 1 \in 1 .. Len(w) /\ n + 1 - 1 = n
      BY <1>1, <1>2, <2>2
    <3>2. f[n] = g[n] /\ w[n + 1] = s[n + 1]
      BY <1>1, <1>2, <2>2, <3>1
    <3>3. f[n + 1] = Read(target, f[n], w[n + 1]) /\ g[n + 1] = Read(target, g[n], s[n + 1])
      BY <1>6, <1>7, <3>1
    <3>4. QED
      BY <3>2, <3>3
  <2> HIDE DEF T
  <2>3. T \in SUBSET Nat
    BY DEF T
  <2>4. QED
    BY <2>1, <2>2, <2>3, Climb
<1>10. f[N] = now
  BY <1>2, <1>4, <1>9 DEF N
<1>11. Q = Nat
  <2>1. 0 \in Q
    <3>1. N + 0 = N
      BY <1>2
    <3>2. QED
      BY <1>8, <1>10, <3>1
  <2>2. ASSUME NEW n \in Q
        PROVE  n + 1 \in Q
    <3> SUFFICES ASSUME n + 1 <= M
                 PROVE  f[N + (n + 1)] = h[n + 1]
      BY <2>2
    <3>1. /\ n \in Nat /\ n + 1 \in 1 .. M /\ N + (n + 1) \in 1 .. Len(w)
          /\ n + 1 - 1 = n /\ N + (n + 1) - 1 = N + n
      BY <1>1, <1>2, <2>2
    <3>2. f[N + n] = h[n] /\ w[N + (n + 1)] = t[n + 1]
      BY <1>1, <1>2, <2>2, <3>1
    <3> DEFINE i == N + (n + 1)
    <3>3. i \in 1 .. Len(w) /\ f[i - 1] = h[n]
      <4>1. i \in 1 .. Len(w) /\ i - 1 = N + n
        BY <1>2, <3>1
      <4>2. QED
        BY <3>2, <4>1
    <3>4. w[i] = t[n + 1]
      BY <3>2
    <3> HIDE DEF i
    <3>5. f[i] = Read(target, f[i - 1], w[i])
      BY <1>6, <3>3
    <3>6. h[n + 1] = Read(target, h[n], t[n + 1])
      BY <1>8, <3>1
    <3>7. QED
      BY <3>3, <3>4, <3>5, <3>6 DEF i
  <2> HIDE DEF Q
  <2>3. Q \in SUBSET Nat
    BY DEF Q
  <2>4. QED
    BY <2>1, <2>2, <2>3, Climb
<1>12. f[N + M] = h[M]
  BY <1>2, <1>11
<1>13. QED
  BY <1>1, <1>3, <1>5, <1>12 DEF w, now, M

-----------------------------------------------------------------------------
(* What a chunk is rendered as is a sequence of frames. *)

Drawn(at) == at = Out(at.r, at.frames) /\ IsSeq(at.frames)

LEMMA Drawing ==
  ASSUME NEW at, Drawn(at), NEW frame, NEW r
  PROVE  /\ Drawn(Emit(at, frame)) /\ Drawn([at EXCEPT !.r = r])
         /\ Drawn(Out(r, << >>)) /\ Drawn(Out(r, <<frame>>))
<1> DEFINE x == at.r
           s == at.frames
<1>1. at = [r |-> x, frames |-> s] /\ IsSeq(s)
  BY DEF Drawn, Out
<1> HIDE DEF x, s
<1>2. IsSeq(Append(s, frame))
  BY <1>1, Appended
<1>3. Drawn(Emit(at, frame))
  BY <1>1, <1>2 DEF Drawn, Emit, Out
<1>4. [at EXCEPT !.r = r] = [r |-> r, frames |-> s]
  BY <1>1
<1>5. Drawn([at EXCEPT !.r = r])
  BY <1>1, <1>4 DEF Drawn, Out
<1>6. IsSeq(<< >>) /\ IsSeq(<<frame>>)
  BY Singleton DEF IsSeq
<1>7. Drawn(Out(r, << >>)) /\ Drawn(Out(r, <<frame>>))
  BY <1>6 DEF Drawn, Out
<1>8. QED
  BY <1>3, <1>5, <1>7

LEMMA Blocks ==
  ASSUME NEW at, Drawn(at), NEW text, NEW call, NEW chunk
  PROVE  /\ Drawn(AnthropicStarted(at)) /\ Drawn(CloseBlock(at)) /\ Drawn(AnthropicText(at, text))
         /\ Drawn(AnthropicCall(at, call)) /\ Drawn(Noted(at, chunk))
<1>1. Drawn(AnthropicStarted(at))
  BY Drawing DEF AnthropicStarted
<1>2. Drawn(CloseBlock(at))
  BY Drawing DEF CloseBlock
<1>3. \A x, block, name : Drawn(x) => Drawn(OpenBlock(x, block, name))
  BY Drawing DEF OpenBlock
<1>4. \A x, index, block, data : Drawn(x) => Drawn(BlockDelta(x, index, block, data))
  BY Drawing DEF BlockDelta
<1>5. Drawn(AnthropicText(at, text))
  BY <1>2, <1>3, <1>4 DEF AnthropicText
<1>6. Drawn(AnthropicCall(at, call))
  <2> DEFINE open == OpenBlock(CloseBlock(at), "tool_use", call.name)
             begun == IF call.name = None THEN at
                      ELSE [open EXCEPT !.r.blocks = (call.index :> open.r.open.index) @@ @]
  <2>1. Drawn(open)
    BY <1>2, <1>3
  <2> HIDE DEF open
  <2>2. Drawn(begun)
    BY <2>1, Drawing
  <2>3. AnthropicCall(at, call) =
          IF call.args # << >> /\ call.index \in DOMAIN begun.r.blocks
          THEN BlockDelta(begun, begun.r.blocks[call.index], "tool_use", call.args)
          ELSE begun
    BY DEF AnthropicCall, open
  <2> HIDE DEF begun
  <2>4. QED
    BY <1>4, <2>2, <2>3
<1>7. Drawn(Noted(at, chunk))
  BY Drawing DEF Noted
<1>8. QED
  BY <1>1, <1>2, <1>5, <1>6, <1>7
----------------------------------------------------------------

LEMMA Items ==
  ASSUME NEW at, Drawn(at), NEW text, NEW call
  PROVE  /\ Drawn(ResponsesStarted(at)) /\ Drawn(ResponsesText(at, text))
         /\ Drawn(ResponsesCall(at, call))
<1>1. ASSUME NEW x, Drawn(x), NEW frame
      PROVE  Drawn(Number(x, frame))
  <2> DEFINE y == [x EXCEPT !.r.number = @ + 1]
             z == [frame EXCEPT !.number = x.r.number]
  <2>1. Drawn(y)
    BY <1>1, Drawing
  <2>2. Number(x, frame) = Emit(y, z)
    BY DEF Number
  <2> HIDE DEF y, z
  <2>3. QED
    BY <2>1, <2>2, Drawing
<1>2. Drawn(ResponsesStarted(at))
  BY <1>1, Drawing DEF ResponsesStarted
<1>3. Drawn(CloseItem(at))
  <2> DEFINE item == Held(at.r)
             done == [Wire EXCEPT !.index = at.r.next, !.block = at.r.open.block,
                                  !.name = item.name, !.data = item.data]
             told == Number(Number(at, [done EXCEPT !.frame = "done"]),
                            [done EXCEPT !.frame = "response.output_item.done"])
  <2>1. CloseItem(at) = IF at.r.open = NoBlock THEN at
                        ELSE [told EXCEPT !.r.open = NoBlock, !.r.next = @ + 1, !.r.text = << >>,
                                          !.r.done = Append(@, item)]
    BY DEF CloseItem
  <2> HIDE DEF item, done
  <2>2. Drawn(told)
    BY <1>1
  <2> HIDE DEF told
  <2> DEFINE one == [told EXCEPT !.r.open = NoBlock]
             two == [one EXCEPT !.r.next = told.r.next + 1]
             three == [two EXCEPT !.r.text = << >>]
             four == [three EXCEPT !.r.done = Append(told.r.done, item)]
  <2>3. CloseItem(at) = IF at.r.open = NoBlock THEN at ELSE four
    BY <2>1
  <2>4. Drawn(one)
    BY <2>2, Drawing
  <2> HIDE DEF one
  <2>5. Drawn(two)
    BY <2>4, Drawing
  <2> HIDE DEF two
  <2>6. Drawn(three)
    BY <2>5, Drawing
  <2> HIDE DEF three
  <2>7. Drawn(four)
    BY <2>6, Drawing
  <2> HIDE DEF four
  <2>8. QED
    BY <2>3, <2>7
<1>4. ASSUME NEW x, Drawn(x), NEW block, NEW index, NEW name
      PROVE  Drawn(Added(x, block, index, name))
  <2> DEFINE y == [x EXCEPT !.r.open = [index |-> index, block |-> block]]
  <2>1. Drawn(y)
    BY <1>4, Drawing
  <2> HIDE DEF y
  <2>2. QED
    BY <1>1, <2>1 DEF Added, y
<1>5. ASSUME NEW x, Drawn(x), NEW block, NEW data
      PROVE  Drawn(Delta(x, block, data))
  BY <1>1, <1>5 DEF Delta
<1>6. Drawn(ResponsesText(at, text))
  <2> DEFINE added == Added(CloseItem(at), "message", 0, None)
             open == IF at.r.open.block = "message" THEN at
                     ELSE Number(added, [Wire EXCEPT !.frame = "response.content_part.added",
                                                     !.index = added.r.next])
             more == [open EXCEPT !.r.text = @ \o text]
  <2>1. ResponsesText(at, text) = IF text = << >> THEN at ELSE Delta(more, "message", text)
    BY DEF ResponsesText
  <2>2. Drawn(added)
    BY <1>3, <1>4
  <2> HIDE DEF added
  <2>3. Drawn(open)
    BY <1>1, <2>2
  <2> HIDE DEF open
  <2>4. Drawn(more)
    BY <2>3, Drawing
  <2> HIDE DEF more
  <2>5. QED
    BY <1>5, <2>1, <2>4
<1>7. Drawn(ResponsesCall(at, call))
  <2> DEFINE added == Added(CloseItem(at), "function_call", call.index, call.name)
             begun == IF call.name = None THEN at
                      ELSE [added EXCEPT !.r.calls = (call.index :> Part(call.name, << >>)) @@ @]
             more == [begun EXCEPT !.r.calls[call.index].data = @ \o call.args]
  <2>1. ResponsesCall(at, call) =
          IF call.args # << >> /\ call.index \in DOMAIN begun.r.calls
          THEN Delta(more, "function_call", call.args) ELSE begun
    BY DEF ResponsesCall
  <2>2. Drawn(added)
    BY <1>3, <1>4
  <2> HIDE DEF added
  <2>3. Drawn(begun)
    BY <2>2, Drawing
  <2> HIDE DEF begun
  <2>4. Drawn(more)
    BY <2>3, Drawing
  <2> HIDE DEF more
  <2>5. QED
    BY <1>5, <2>1, <2>3, <2>4
<1>8. QED
  BY <1>2, <1>6, <1>7

Blocking(f, said, calls) ==
  /\ f[0] = said
  /\ \A i \in 1 .. Len(calls) : f[i] = AnthropicCall(f[i - 1], calls[i])

LEMMA BlocksTraced ==
  ASSUME NEW r, NEW chunk, NEW said, NEW calls, IsSeq(calls), calls = chunk.calls, said = AnthropicText(AnthropicStarted(Out(r, << >>)), chunk.text)
  PROVE  \E f : Blocking(f, said, calls) /\ AnthropicChunk(r, chunk) = Noted(f[Len(calls)], chunk)
<1> DEFINE Def(f, n) ==
             f = [i \in 0 .. n |-> IF i = 0 THEN said ELSE AnthropicCall(f[i - 1], calls[i])]
           T == {n \in Nat : \E f : Def(f, n)}
<1>1. 0 \in T
  <2> DEFINE f == [i \in 0 .. 0 |-> said]
  <2>1. Def(f, 0)
    OBVIOUS
  <2>2. QED
    BY <2>1
<1>2. ASSUME NEW n \in T
      PROVE  n + 1 \in T
  <2>1. PICK f : Def(f, n)
    BY <1>2
  <2>2. n \in Nat
    BY <1>2
  <2> DEFINE g == [i \in 0 .. n + 1 |-> IF i = n + 1 THEN AnthropicCall(f[n], calls[n + 1]) ELSE f[i]]
  <2>3. \A i \in 0 .. n : f[i] = IF i = 0 THEN said ELSE AnthropicCall(f[i - 1], calls[i])
    BY <2>1
  <2>4. \A i \in 0 .. n : g[i] = f[i]
    BY <2>2
  <2>5. g[n + 1] = AnthropicCall(g[n], calls[n + 1])
    BY <2>2, <2>4
  <2> HIDE DEF Def, T
  <2>6. \A i \in 0 .. n + 1 : g[i] = IF i = 0 THEN said ELSE AnthropicCall(g[i - 1], calls[i])
    <3> SUFFICES ASSUME NEW i \in 0 .. n + 1
                 PROVE  g[i] = IF i = 0 THEN said ELSE AnthropicCall(g[i - 1], calls[i])
      OBVIOUS
    <3>1. CASE i = n + 1
      <4>1. i # 0 /\ i - 1 = n
        BY <2>2, <3>1
      <4>2. QED
        BY <2>5, <3>1, <4>1
    <3>2. CASE i # n + 1
      <4>1. i \in 0 .. n /\ (i # 0 => i - 1 \in 0 .. n)
        BY <2>2, <3>2
      <4> HIDE DEF g
      <4>2. QED
        BY <2>3, <2>4, <4>1
    <3>3. QED
      BY <3>1, <3>2
  <2>7. g = [i \in 0 .. n + 1 |-> g[i]]
    OBVIOUS
  <2> HIDE DEF g
  <2>8. Def(g, n + 1)
    BY <2>6, <2>7 DEF Def
  <2>9. QED
    BY <2>2, <2>8 DEF T
<1>3. Len(calls) \in T
  <2> HIDE DEF T
  <2>1. T \in SUBSET Nat
    BY DEF T
  <2>2. T = Nat
    BY <1>1, <1>2, <2>1, Climb
  <2>3. QED
    BY <2>2, SeqFacts
<1> DEFINE at[i \in 0 .. Len(calls)] == IF i = 0 THEN said ELSE AnthropicCall(at[i - 1], calls[i])
<1>4. at = [i \in 0 .. Len(calls) |-> IF i = 0 THEN said ELSE AnthropicCall(at[i - 1], calls[i])]
  <2>1. \E f : f = [i \in 0 .. Len(calls) |-> IF i = 0 THEN said ELSE AnthropicCall(f[i - 1], calls[i])]
    BY <1>3
  <2>2. QED
    BY <2>1
<1>5. AnthropicChunk(r, chunk) = Noted(at[Len(calls)], chunk)
  BY DEF AnthropicChunk
<1> HIDE DEF at
<1>6. at[0] = said /\ \A i \in 1 .. Len(calls) : at[i] = AnthropicCall(at[i - 1], calls[i])
  <2>1. Len(calls) \in Nat
    BY SeqFacts
  <2>2. \A i \in 1 .. Len(calls) : i \in 0 .. Len(calls) /\ i # 0
    BY <2>1
  <2>3. 0 \in 0 .. Len(calls)
    BY <2>1
  <2>4. QED
    BY <1>4, <2>2, <2>3
<1>7. Blocking(at, said, calls)
  BY <1>6 DEF Blocking
<1>8. QED
  BY <1>5, <1>7

Itemising(f, said, calls) ==
  /\ f[0] = said
  /\ \A i \in 1 .. Len(calls) : f[i] = ResponsesCall(f[i - 1], calls[i])

LEMMA ItemsTraced ==
  ASSUME NEW r, NEW chunk, NEW said, NEW calls, IsSeq(calls), calls = chunk.calls, said = ResponsesText(ResponsesStarted(Out(r, << >>)), chunk.text)
  PROVE  \E f : Itemising(f, said, calls) /\ ResponsesChunk(r, chunk) = Noted(f[Len(calls)], chunk)
<1> DEFINE Def(f, n) ==
             f = [i \in 0 .. n |-> IF i = 0 THEN said ELSE ResponsesCall(f[i - 1], calls[i])]
           T == {n \in Nat : \E f : Def(f, n)}
<1>1. 0 \in T
  <2> DEFINE f == [i \in 0 .. 0 |-> said]
  <2>1. Def(f, 0)
    OBVIOUS
  <2>2. QED
    BY <2>1
<1>2. ASSUME NEW n \in T
      PROVE  n + 1 \in T
  <2>1. PICK f : Def(f, n)
    BY <1>2
  <2>2. n \in Nat
    BY <1>2
  <2> DEFINE g == [i \in 0 .. n + 1 |-> IF i = n + 1 THEN ResponsesCall(f[n], calls[n + 1]) ELSE f[i]]
  <2>3. \A i \in 0 .. n : f[i] = IF i = 0 THEN said ELSE ResponsesCall(f[i - 1], calls[i])
    BY <2>1
  <2>4. \A i \in 0 .. n : g[i] = f[i]
    BY <2>2
  <2>5. g[n + 1] = ResponsesCall(g[n], calls[n + 1])
    BY <2>2, <2>4
  <2> HIDE DEF Def, T
  <2>6. \A i \in 0 .. n + 1 : g[i] = IF i = 0 THEN said ELSE ResponsesCall(g[i - 1], calls[i])
    <3> SUFFICES ASSUME NEW i \in 0 .. n + 1
                 PROVE  g[i] = IF i = 0 THEN said ELSE ResponsesCall(g[i - 1], calls[i])
      OBVIOUS
    <3>1. CASE i = n + 1
      <4>1. i # 0 /\ i - 1 = n
        BY <2>2, <3>1
      <4>2. QED
        BY <2>5, <3>1, <4>1
    <3>2. CASE i # n + 1
      <4>1. i \in 0 .. n /\ (i # 0 => i - 1 \in 0 .. n)
        BY <2>2, <3>2
      <4> HIDE DEF g
      <4>2. QED
        BY <2>3, <2>4, <4>1
    <3>3. QED
      BY <3>1, <3>2
  <2>7. g = [i \in 0 .. n + 1 |-> g[i]]
    OBVIOUS
  <2> HIDE DEF g
  <2>8. Def(g, n + 1)
    BY <2>6, <2>7 DEF Def
  <2>9. QED
    BY <2>2, <2>8 DEF T
<1>3. Len(calls) \in T
  <2> HIDE DEF T
  <2>1. T \in SUBSET Nat
    BY DEF T
  <2>2. T = Nat
    BY <1>1, <1>2, <2>1, Climb
  <2>3. QED
    BY <2>2, SeqFacts
<1> DEFINE at[i \in 0 .. Len(calls)] == IF i = 0 THEN said ELSE ResponsesCall(at[i - 1], calls[i])
<1>4. at = [i \in 0 .. Len(calls) |-> IF i = 0 THEN said ELSE ResponsesCall(at[i - 1], calls[i])]
  <2>1. \E f : f = [i \in 0 .. Len(calls) |-> IF i = 0 THEN said ELSE ResponsesCall(f[i - 1], calls[i])]
    BY <1>3
  <2>2. QED
    BY <2>1
<1>5. ResponsesChunk(r, chunk) = Noted(at[Len(calls)], chunk)
  BY DEF ResponsesChunk
<1> HIDE DEF at
<1>6. at[0] = said /\ \A i \in 1 .. Len(calls) : at[i] = ResponsesCall(at[i - 1], calls[i])
  <2>1. Len(calls) \in Nat
    BY SeqFacts
  <2>2. \A i \in 1 .. Len(calls) : i \in 0 .. Len(calls) /\ i # 0
    BY <2>1
  <2>3. 0 \in 0 .. Len(calls)
    BY <2>1
  <2>4. QED
    BY <1>4, <2>2, <2>3
<1>7. Itemising(at, said, calls)
  BY <1>6 DEF Itemising
<1>8. QED
  BY <1>5, <1>7
----------------------------------------------------------------

LEMMA TameShows ==
  ASSUME NEW target \in Targets, NEW chunk, Tame(chunk)
  PROVE  Shows(target, chunk)
<1> SUFFICES ASSUME NEW r
             PROVE  IsSeq(OnChunk(target, r, chunk).frames)
  BY DEF Shows
<1>1. IsSeq(<< >>) /\ \A x : IsSeq(<<x>>)
  BY Singleton DEF IsSeq
<1>2. ASSUME target = "Anthropic"
      PROVE  IsSeq(OnChunk(target, r, chunk).frames)
  <2> DEFINE begun == Out(r, << >>)
             said == AnthropicText(AnthropicStarted(begun), chunk.text)
             calls == chunk.calls
  <2>1. Drawn(begun)
    BY <1>1 DEF Drawn, Out
  <2> HIDE DEF begun
  <2>2. Drawn(said)
    BY <2>1, Blocks
  <2>3. IsSeq(calls)
    BY DEF Tame
  <2>4. PICK f : Blocking(f, said, calls) /\ AnthropicChunk(r, chunk) = Noted(f[Len(calls)], chunk)
    BY <2>3, BlocksTraced DEF begun
  <2> HIDE DEF said, calls
  <2>5. f[0] = said /\ \A i \in 1 .. Len(calls) : f[i] = AnthropicCall(f[i - 1], calls[i])
    BY <2>4 DEF Blocking
  <2>6. Len(calls) \in Nat
    BY <2>3, SeqFacts
  <2> DEFINE T == {n \in Nat : n <= Len(calls) => Drawn(f[n])}
  <2>7. 0 \in T
    BY <2>2, <2>5
  <2>8. ASSUME NEW n \in T
        PROVE  n + 1 \in T
    <3> SUFFICES ASSUME n + 1 <= Len(calls)
                 PROVE  Drawn(f[n + 1])
      BY <2>8
    <3>1. n \in Nat /\ Drawn(f[n]) /\ n + 1 \in 1 .. Len(calls) /\ n + 1 - 1 = n
      BY <2>6, <2>8
    <3>2. f[n + 1] = AnthropicCall(f[n], calls[n + 1])
      BY <2>5, <3>1
    <3>3. QED
      BY <3>1, <3>2, Blocks
  <2> HIDE DEF T
  <2>9. T \in SUBSET Nat
    BY DEF T
  <2>10. T = Nat
    BY <2>7, <2>8, <2>9, Climb
  <2>11. Drawn(f[Len(calls)])
    BY <2>6, <2>10 DEF T
  <2>12. Drawn(AnthropicChunk(r, chunk))
    BY <2>4, <2>11, Blocks
  <2>13. QED
    BY <1>2, <2>12 DEF OnChunk, Drawn
<1>3. ASSUME target = "Responses"
      PROVE  IsSeq(OnChunk(target, r, chunk).frames)
  <2> DEFINE begun == Out(r, << >>)
             said == ResponsesText(ResponsesStarted(begun), chunk.text)
             calls == chunk.calls
  <2>1. Drawn(begun)
    BY <1>1 DEF Drawn, Out
  <2> HIDE DEF begun
  <2>2. Drawn(said)
    BY <2>1, Items
  <2>3. IsSeq(calls)
    BY DEF Tame
  <2>4. PICK f : Itemising(f, said, calls) /\ ResponsesChunk(r, chunk) = Noted(f[Len(calls)], chunk)
    BY <2>3, ItemsTraced DEF begun
  <2> HIDE DEF said, calls
  <2>5. f[0] = said /\ \A i \in 1 .. Len(calls) : f[i] = ResponsesCall(f[i - 1], calls[i])
    BY <2>4 DEF Itemising
  <2>6. Len(calls) \in Nat
    BY <2>3, SeqFacts
  <2> DEFINE T == {n \in Nat : n <= Len(calls) => Drawn(f[n])}
  <2>7. 0 \in T
    BY <2>2, <2>5
  <2>8. ASSUME NEW n \in T
        PROVE  n + 1 \in T
    <3> SUFFICES ASSUME n + 1 <= Len(calls)
                 PROVE  Drawn(f[n + 1])
      BY <2>8
    <3>1. n \in Nat /\ Drawn(f[n]) /\ n + 1 \in 1 .. Len(calls) /\ n + 1 - 1 = n
      BY <2>6, <2>8
    <3>2. f[n + 1] = ResponsesCall(f[n], calls[n + 1])
      BY <2>5, <3>1
    <3>3. QED
      BY <3>1, <3>2, Items
  <2> HIDE DEF T
  <2>9. T \in SUBSET Nat
    BY DEF T
  <2>10. T = Nat
    BY <2>7, <2>8, <2>9, Climb
  <2>11. Drawn(f[Len(calls)])
    BY <2>6, <2>10 DEF T
  <2>12. Drawn(ResponsesChunk(r, chunk))
    BY <2>4, <2>11, Blocks
  <2>13. QED
    BY <1>3, <2>12 DEF OnChunk, Drawn
<1>4. CASE target = "OpenAi"
  BY <1>1, <1>4 DEF OnChunk, Out
<1>5. CASE target = "Gemini"
  <2>1. \A x, y : Out(x, y).frames = y
    BY DEF Out
  <2>2. GeminiChunk(r, chunk).frames = << >> \/ \E x : GeminiChunk(r, chunk).frames = <<x>>
    <3> DEFINE calls == FoldLeft(Pieced, r.calls, chunk.calls)
               ready == Ready(calls, r.told)
               parts == (IF chunk.text = << >> THEN << >> ELSE <<Part(None, chunk.text)>>)
                          \o [i \in 1 .. Len(ready) |-> calls[ready[i]]]
               next == [r EXCEPT !.calls = calls, !.told = @ \cup ToSet(ready)]
               x == [Wire EXCEPT
                      !.frame = "generate", !.parts = parts,
                      !.finish = IF chunk.finish = None THEN None ELSE GeminiStop(chunk.finish),
                      !.usage = IF chunk.finish = None THEN << >> ELSE chunk.usage]
    <3>1. GeminiChunk(r, chunk) = IF parts = << >> /\ chunk.finish = None THEN Out(next, << >>)
                                  ELSE Out(next, <<x>>)
      BY DEF GeminiChunk
    <3> HIDE DEF parts, next, x
    <3>2. QED
      BY <2>1, <3>1
  <2>3. OnChunk(target, r, chunk) = GeminiChunk(r, chunk)
    BY <1>5 DEF OnChunk
  <2>4. QED
    BY <1>1, <2>2, <2>3
<1>6. QED
  BY <1>2, <1>3, <1>4, <1>5 DEF Targets

-----------------------------------------------------------------------------
(* What an event is translated to *)

Spoke(said, v) ==
  IF v.reason = None THEN said
  ELSE Yield(said.d, Append(said.chunks, FinishChunk(GeminiFinish(said.d, v.reason), v.usage)))

Parting(f, begun, parts) ==
  /\ f[0] = begun
  /\ \A i \in 1 .. Len(parts) : f[i] = GeminiPart(f[i - 1], parts[i])

LEMMA PartsTraced ==
  ASSUME NEW d, NEW v, NEW begun, NEW parts, IsSeq(parts), parts = v.parts,
         begun = Yield([d EXCEPT !.role = TRUE], IF d.role THEN << >> ELSE <<RoleChunk>>)
  PROVE  \E f : Parting(f, begun, parts) /\ Gemini(d, v) = Spoke(f[Len(parts)], v)
<1> DEFINE Def(f, n) ==
             f = [i \in 0 .. n |-> IF i = 0 THEN begun ELSE GeminiPart(f[i - 1], parts[i])]
           T == {n \in Nat : \E f : Def(f, n)}
<1>1. 0 \in T
  <2> DEFINE f == [i \in 0 .. 0 |-> begun]
  <2>1. Def(f, 0)
    OBVIOUS
  <2>2. QED
    BY <2>1
<1>2. ASSUME NEW n \in T
      PROVE  n + 1 \in T
  <2>1. PICK f : Def(f, n)
    BY <1>2
  <2>2. n \in Nat
    BY <1>2
  <2> DEFINE g == [i \in 0 .. n + 1 |-> IF i = n + 1 THEN GeminiPart(f[n], parts[n + 1]) ELSE f[i]]
  <2>3. \A i \in 0 .. n : f[i] = IF i = 0 THEN begun ELSE GeminiPart(f[i - 1], parts[i])
    BY <2>1
  <2>4. \A i \in 0 .. n : g[i] = f[i]
    BY <2>2
  <2>5. g[n + 1] = GeminiPart(g[n], parts[n + 1])
    BY <2>2, <2>4
  <2> HIDE DEF Def, T
  <2>6. \A i \in 0 .. n + 1 : g[i] = IF i = 0 THEN begun ELSE GeminiPart(g[i - 1], parts[i])
    <3> SUFFICES ASSUME NEW i \in 0 .. n + 1
                 PROVE  g[i] = IF i = 0 THEN begun ELSE GeminiPart(g[i - 1], parts[i])
      OBVIOUS
    <3>1. CASE i = n + 1
      <4>1. i # 0 /\ i - 1 = n
        BY <2>2, <3>1
      <4>2. QED
        BY <2>5, <3>1, <4>1
    <3>2. CASE i # n + 1
      <4>1. i \in 0 .. n /\ (i # 0 => i - 1 \in 0 .. n)
        BY <2>2, <3>2
      <4> HIDE DEF g
      <4>2. QED
        BY <2>3, <2>4, <4>1
    <3>3. QED
      BY <3>1, <3>2
  <2>7. g = [i \in 0 .. n + 1 |-> g[i]]
    OBVIOUS
  <2> HIDE DEF g
  <2>8. Def(g, n + 1)
    BY <2>6, <2>7 DEF Def
  <2>9. QED
    BY <2>2, <2>8 DEF T
<1>3. Len(parts) \in T
  <2> HIDE DEF T
  <2>1. T \in SUBSET Nat
    BY DEF T
  <2>2. T = Nat
    BY <1>1, <1>2, <2>1, Climb
  <2>3. QED
    BY <2>2, SeqFacts
<1> DEFINE at[i \in 0 .. Len(parts)] == IF i = 0 THEN begun ELSE GeminiPart(at[i - 1], parts[i])
<1>4. at = [i \in 0 .. Len(parts) |-> IF i = 0 THEN begun ELSE GeminiPart(at[i - 1], parts[i])]
  <2>1. \E f : f = [i \in 0 .. Len(parts) |-> IF i = 0 THEN begun ELSE GeminiPart(f[i - 1], parts[i])]
    BY <1>3
  <2>2. QED
    BY <2>1
<1>5. Gemini(d, v) = Spoke(at[Len(parts)], v)
  BY DEF Gemini, Spoke
<1> HIDE DEF at
<1>6. at[0] = begun /\ \A i \in 1 .. Len(parts) : at[i] = GeminiPart(at[i - 1], parts[i])
  <2>1. Len(parts) \in Nat
    BY SeqFacts
  <2>2. \A i \in 1 .. Len(parts) : i \in 0 .. Len(parts) /\ i # 0
    BY <2>1
  <2>3. 0 \in 0 .. Len(parts)
    BY <2>1
  <2>4. QED
    BY <1>4, <2>2, <2>3
<1>7. Parting(at, begun, parts)
  BY <1>6 DEF Parting
<1>8. QED
  BY <1>5, <1>7

\* A value as the providers write it.
Written(v) == IsSeq(v.parts) /\ Tame(v.chunk)

Sayings(out) == IsSeq(out.chunks) /\ \A k \in 1 .. Len(out.chunks) : Tame(out.chunks[k])

LEMMA TameChunks ==
  ASSUME NEW x, NEW y, NEW z
  PROVE  Tame(RoleChunk) /\ Tame(TextChunk(x)) /\ Tame(CallChunk(x, y, z)) /\ Tame(FinishChunk(x, y))
         /\ Tame(ErrorChunk(x))
<1>1. IsSeq(<< >>) /\ \A c : IsSeq(<<c>>)
  BY Singleton DEF IsSeq
<1>2. Tame(RoleChunk) /\ Tame(TextChunk(x)) /\ Tame(FinishChunk(x, y)) /\ Tame(ErrorChunk(x))
  BY <1>1 DEF Tame, RoleChunk, TextChunk, FinishChunk, ErrorChunk, Chunk
<1>3. CallChunk(x, y, z).calls = <<[index |-> x, name |-> y, args |-> z]>>
  BY DEF CallChunk, Chunk
<1>4. QED
  BY <1>1, <1>2, <1>3 DEF Tame

LEMMA FewChunks ==
  ASSUME NEW d, NEW c, NEW e, Tame(c), Tame(e)
  PROVE  Sayings(Yield(d, << >>)) /\ Sayings(Yield(d, <<c>>)) /\ Sayings(Yield(d, <<c, e>>))
<1>1. IsSeq(<< >>) /\ Len(<< >>) = 0
  BY DEF IsSeq
<1>2. Sayings(Yield(d, << >>))
  BY <1>1 DEF Sayings, Yield
<1>3. IsSeq(<<c>>) /\ Len(<<c>>) = 1 /\ <<c>>[1] = c
  BY Singleton
<1>4. Sayings(Yield(d, <<c>>))
  BY <1>3 DEF Sayings, Yield
<1>5. <<c, e>> \in Seq({c, e}) /\ Len(<<c, e>>) = 2 /\ <<c, e>>[1] = c /\ <<c, e>>[2] = e
  OBVIOUS
<1>6. IsSeq(<<c, e>>)
  BY <1>5 DEF IsSeq
<1>7. Sayings(Yield(d, <<c, e>>))
  BY <1>5, <1>6 DEF Sayings, Yield
<1>8. QED
  BY <1>2, <1>4, <1>7
----------------------------------------------------------------

LEMMA GeminiSays ==
  ASSUME NEW d, NEW v, Written(v)
  PROVE  Sayings(Gemini(d, v))
<1> DEFINE parts == v.parts
           begun == Yield([d EXCEPT !.role = TRUE], IF d.role THEN << >> ELSE <<RoleChunk>>)
<1>1. IsSeq(parts)
  BY DEF Written
<1>2. Sayings(begun)
  BY TameChunks, FewChunks
<1>3. PICK f : Parting(f, begun, parts) /\ Gemini(d, v) = Spoke(f[Len(parts)], v)
  BY <1>1, PartsTraced
<1> HIDE DEF parts, begun
<1>4. f[0] = begun /\ \A i \in 1 .. Len(parts) : f[i] = GeminiPart(f[i - 1], parts[i])
  BY <1>3 DEF Parting
<1>5. Len(parts) \in Nat
  BY <1>1, SeqFacts
<1>6. ASSUME NEW e, NEW chunks, NEW c, Sayings(Yield(e, chunks)), Tame(c)
      PROVE  \A g : Sayings(Yield(g, Append(chunks, c))) /\ Sayings(Yield(g, chunks))
  <2>1. IsSeq(chunks) /\ \A k \in 1 .. Len(chunks) : Tame(chunks[k])
    BY <1>6 DEF Sayings, Yield
  <2> DEFINE more == Append(chunks, c)
  <2>2. /\ IsSeq(more) /\ Len(more) = Len(chunks) + 1
        /\ \A k \in 1 .. Len(chunks) : more[k] = chunks[k]
        /\ more[Len(chunks) + 1] = c
    BY <2>1, Appended
  <2>3. Len(chunks) \in Nat
    BY <2>1, SeqFacts
  <2> HIDE DEF more
  <2>4. \A k \in 1 .. Len(more) : k \in 1 .. Len(chunks) \/ k = Len(chunks) + 1
    BY <2>2, <2>3
  <2>5. \A k \in 1 .. Len(more) : Tame(more[k])
    BY <1>6, <2>1, <2>2, <2>4
  <2>6. QED
    BY <2>1, <2>2, <2>5 DEF Sayings, Yield, more
<1> DEFINE Fine(x) == Sayings(x) /\ x = Yield(x.d, x.chunks)
           T == {n \in Nat : n <= Len(parts) => Fine(f[n])}
<1>7. 0 \in T
  <2>1. begun = Yield(begun.d, begun.chunks)
    BY DEF begun, Yield
  <2>2. QED
    BY <1>2, <1>4, <2>1
<1>8. ASSUME NEW n \in T
      PROVE  n + 1 \in T
  <2> SUFFICES ASSUME n + 1 <= Len(parts)
               PROVE  Fine(f[n + 1])
    BY <1>8
  <2>1. n \in Nat /\ Fine(f[n]) /\ n + 1 \in 1 .. Len(parts) /\ n + 1 - 1 = n
    BY <1>5, <1>8
  <2>2. f[n + 1] = GeminiPart(f[n], parts[n + 1])
    BY <1>4, <2>1
  <2> DEFINE at == f[n]
             part == parts[n + 1]
             c == CallChunk(at.d.next, part.name, Printed(part.data))
             e == TextChunk(part.data)
             x == f[n + 1]
  <2>3. Tame(c) /\ Tame(e)
    BY TameChunks
  <2>4. Sayings(Yield(at.d, at.chunks))
    BY <2>1
  <2>5. /\ \A g : Sayings(Yield(g, Append(at.chunks, c)))
        /\ \A g : Sayings(Yield(g, Append(at.chunks, e))) /\ Sayings(Yield(g, at.chunks))
    BY <1>6, <2>3, <2>4
  <2>6. Sayings(x)
    BY <2>2, <2>5 DEF GeminiPart
  <2>7. \A g, s : Yield(g, s).d = g /\ Yield(g, s).chunks = s
    BY DEF Yield
  <2>8. \E g, s : x = Yield(g, s)
    BY <2>2 DEF GeminiPart
  <2>9. x = Yield(x.d, x.chunks)
    BY <2>7, <2>8
  <2>10. QED
    BY <2>6, <2>9
<1>9. Fine(f[Len(parts)])
  <2> HIDE DEF T
  <2>1. T \in SUBSET Nat
    BY DEF T
  <2>2. T = Nat
    BY <1>7, <1>8, <2>1, Climb
  <2>3. QED
    BY <1>5, <2>2 DEF T
<1> DEFINE said == f[Len(parts)]
           last == FinishChunk(GeminiFinish(said.d, v.reason), v.usage)
<1>10. Sayings(said) /\ said = Yield(said.d, said.chunks)
  BY <1>9
<1>11. Tame(last)
  BY TameChunks
<1>12. Sayings(Yield(said.d, Append(said.chunks, last)))
  BY <1>6, <1>10, <1>11
<1>13. QED
  BY <1>3, <1>10, <1>12 DEF Spoke

\* Whatever the translator remembers, an event whose values are as the providers
\* write them is translated to chunks.
LEMMA WrittenTalks ==
  ASSUME NEW dialect \in Dialects, NEW event, IsSeq(event.data),
         \A j \in 1 .. Len(event.data) : Written(event.data[j])
  PROVE  Talks(dialect, event)
<1> SUFFICES ASSUME NEW d
             PROVE  Sayings(OnEvent(dialect, d, event))
  BY DEF Talks, Sayings
<1>1. \A g : Sayings(Yield(g, << >>))
  BY TameChunks, FewChunks
<1>2. \A g, c : Tame(c) => Sayings(Yield(g, <<c>>))
  BY FewChunks
<1>3. CASE Len(event.data) # 1
  BY <1>1, <1>3 DEF OnEvent
<1>4. CASE Len(event.data) = 1
  <2> DEFINE v == event.data[1]
  <2>1. Written(v)
    BY <1>4
  <2>2. CASE dialect = "OpenAi"
    <3>1. Sayings(Yield(d, <<v.chunk>>))
      BY <1>2, <2>1 DEF Written
    <3>2. OnEvent(dialect, d, event) = Yield(d, IF v.kind = "[DONE]" THEN << >> ELSE <<v.chunk>>)
      BY <1>4, <2>2 DEF OnEvent
    <3>3. QED
      BY <1>1, <3>1, <3>2
  <2>3. CASE dialect = "Anthropic"
    <3>1. AnthropicDelta(d, v) = << >> \/ \E c : Tame(c) /\ AnthropicDelta(d, v) = <<c>>
      <4>1. Tame(TextChunk(v.data)) /\ Tame(CallChunk(d.tools[v.index], None, v.data))
        BY TameChunks
      <4>2. QED
        BY <4>1 DEF AnthropicDelta
    <3>2. Sayings(Yield(d, AnthropicDelta(d, v)))
      BY <1>1, <1>2, <3>1
    <3>3. Sayings(Anthropic(d, v))
      BY <1>1, <1>2, <3>2, TameChunks DEF Anthropic
    <3>4. QED
      BY <1>4, <2>3, <3>3 DEF OnEvent
  <2>4. CASE dialect = "Gemini"
    BY <1>4, <2>1, <2>4, GeminiSays DEF OnEvent
  <2>5. CASE dialect = "Bedrock"
    <3>1. Sayings(Bedrock(d, v))
      BY <1>1, <1>2, TameChunks DEF Bedrock
    <3>2. QED
      BY <1>4, <2>5, <3>1 DEF OnEvent
  <2>6. CASE dialect = "Codex"
    <3>1. \A g, c : Tame(c) => Sayings(Yield(g, OpenRole(d, c)))
      BY FewChunks, TameChunks DEF OpenRole
    <3>2. Sayings(CodexCall(d, v))
      BY <1>1, <3>1, TameChunks DEF CodexCall
    <3>3. Sayings(NoteFailure(d, v.reason))
      BY <1>1, <1>2, TameChunks DEF NoteFailure
    <3>4. Sayings(Codex(d, v))
      BY <1>1, <1>2, <3>1, <3>2, <3>3, TameChunks DEF Codex
    <3>5. QED
      BY <1>4, <2>6, <3>4 DEF OnEvent
  <2>7. QED
    BY <2>2, <2>3, <2>4, <2>5, <2>6 DEF Dialects
<1>5. QED
  BY <1>3, <1>4
----------------------------------------------------------------

-----------------------------------------------------------------------------
(* What a provider says *)

\* Sequences are joined one after the other.
Flowing(f, ss) ==
  /\ f[0] = << >>
  /\ \A i \in 1 .. Len(ss) : f[i] = f[i - 1] \o ss[i]

LEMMA FlowTraced ==
  ASSUME NEW ss, IsSeq(ss)
  PROVE  \E f : Flowing(f, ss)
<1> DEFINE Def(f, n) ==
             f = [i \in 0 .. n |-> IF i = 0 THEN << >> ELSE f[i - 1] \o ss[i]]
           T == {n \in Nat : \E f : Def(f, n)}
<1>1. 0 \in T
  <2> DEFINE f == [i \in 0 .. 0 |-> << >>]
  <2>1. Def(f, 0)
    OBVIOUS
  <2>2. QED
    BY <2>1
<1>2. ASSUME NEW n \in T
      PROVE  n + 1 \in T
  <2>1. PICK f : Def(f, n)
    BY <1>2
  <2>2. n \in Nat
    BY <1>2
  <2> DEFINE g == [i \in 0 .. n + 1 |-> IF i = n + 1 THEN f[n] \o ss[n + 1] ELSE f[i]]
  <2>3. \A i \in 0 .. n : f[i] = IF i = 0 THEN << >> ELSE f[i - 1] \o ss[i]
    BY <2>1
  <2>4. \A i \in 0 .. n : g[i] = f[i]
    BY <2>2
  <2>5. g[n + 1] = g[n] \o ss[n + 1]
    BY <2>2, <2>4
  <2> HIDE DEF Def, T
  <2>6. \A i \in 0 .. n + 1 : g[i] = IF i = 0 THEN << >> ELSE g[i - 1] \o ss[i]
    <3> SUFFICES ASSUME NEW i \in 0 .. n + 1
                 PROVE  g[i] = IF i = 0 THEN << >> ELSE g[i - 1] \o ss[i]
      OBVIOUS
    <3>1. CASE i = n + 1
      <4>1. i # 0 /\ i - 1 = n
        BY <2>2, <3>1
      <4>2. QED
        BY <2>5, <3>1, <4>1
    <3>2. CASE i # n + 1
      <4>1. i \in 0 .. n /\ (i # 0 => i - 1 \in 0 .. n)
        BY <2>2, <3>2
      <4> HIDE DEF g
      <4>2. QED
        BY <2>3, <2>4, <4>1
    <3>3. QED
      BY <3>1, <3>2
  <2>7. g = [i \in 0 .. n + 1 |-> g[i]]
    OBVIOUS
  <2> HIDE DEF g
  <2>8. Def(g, n + 1)
    BY <2>6, <2>7 DEF Def
  <2>9. QED
    BY <2>2, <2>8 DEF T
<1>3. Len(ss) \in T
  <2> HIDE DEF T
  <2>1. T \in SUBSET Nat
    BY DEF T
  <2>2. T = Nat
    BY <1>1, <1>2, <2>1, Climb
  <2>3. QED
    BY <2>2, SeqFacts
<1> DEFINE at[i \in 0 .. Len(ss)] == IF i = 0 THEN << >> ELSE at[i - 1] \o ss[i]
<1>4. at = [i \in 0 .. Len(ss) |-> IF i = 0 THEN << >> ELSE at[i - 1] \o ss[i]]
  <2>1. \E f : f = [i \in 0 .. Len(ss) |-> IF i = 0 THEN << >> ELSE f[i - 1] \o ss[i]]
    BY <1>3
  <2>2. QED
    BY <2>1
<1> HIDE DEF at
<1>5. at[0] = << >> /\ \A i \in 1 .. Len(ss) : at[i] = at[i - 1] \o ss[i]
  <2>1. Len(ss) \in Nat
    BY SeqFacts
  <2>2. \A i \in 1 .. Len(ss) : i \in 0 .. Len(ss) /\ i # 0
    BY <2>1
  <2>3. 0 \in 0 .. Len(ss)
    BY <2>1
  <2>4. QED
    BY <1>4, <2>2, <2>3
<1>6. Flowing(at, ss)
  BY <1>5 DEF Flowing
<1>7. QED
  BY <1>6

LEMMA Flattened ==
  ASSUME NEW ss, IsSeq(ss), \A i \in 1 .. Len(ss) : IsSeq(ss[i])
  PROVE  \E f : Flowing(f, ss) /\ FlattenSeq(ss) = f[Len(ss)]
<1>1. PICK f : Flowing(f, ss)
  BY FlowTraced
<1>2. f[0] = << >> /\ \A i \in 1 .. Len(ss) : f[i] = f[i - 1] \o ss[i]
  BY <1>1 DEF Flowing
<1>3. Len(ss) \in Nat
  BY SeqFacts
<1>4. CASE Len(ss) = 0
  <2>1. FlattenSeq(ss) = ss /\ ss = << >>
    BY <1>4, SeqFacts DEF FlattenSeq
  <2>2. QED
    BY <1>1, <1>2, <1>4, <2>1
<1>5. CASE Len(ss) # 0
  <2> DEFINE flatten[i \in 1 .. Len(ss)] == IF i = 1 THEN ss[i] ELSE flatten[i - 1] \o ss[i]
             g == [i \in 1 .. Len(ss) |-> f[i]]
  <2>1. FlattenSeq(ss) = flatten[Len(ss)]
    BY <1>5 DEF FlattenSeq
  <2>2. ASSUME NEW i \in 1 .. Len(ss)
        PROVE  g[i] = IF i = 1 THEN ss[i] ELSE g[i - 1] \o ss[i]
    <3>1. CASE i = 1
      <4> DEFINE x == ss[i]
      <4>1. IsSeq(x) /\ i - 1 = 0
        BY <3>1
      <4> HIDE DEF x
      <4>2. << >> \o x = x
        BY <4>1, Neutral
      <4>3. f[i] = << >> \o x
        BY <1>2, <4>1 DEF x
      <4>4. QED
        BY <3>1, <4>2, <4>3 DEF x
    <3>2. CASE i # 1
      <4>1. i - 1 \in 1 .. Len(ss)
        BY <1>3, <3>2
      <4>2. QED
        BY <1>2, <3>2, <4>1
    <3>3. QED
      BY <3>1, <3>2
  <2>3. g = [i \in 1 .. Len(ss) |-> g[i]]
    OBVIOUS
  <2> HIDE DEF g
  <2>4. g = [i \in 1 .. Len(ss) |-> IF i = 1 THEN ss[i] ELSE g[i - 1] \o ss[i]]
    BY <2>2, <2>3
  <2>5. flatten = [i \in 1 .. Len(ss) |-> IF i = 1 THEN ss[i] ELSE flatten[i - 1] \o ss[i]]
    BY <2>4
  <2> HIDE DEF flatten
  <2> DEFINE T == {n \in Nat : n + 1 <= Len(ss) => flatten[n + 1] = g[n + 1]}
  <2>6. 0 \in T
    BY <1>3, <2>4, <2>5
  <2>7. ASSUME NEW n \in T
        PROVE  n + 1 \in T
    <3> SUFFICES ASSUME n + 1 + 1 <= Len(ss)
                 PROVE  flatten[n + 1 + 1] = g[n + 1 + 1]
      BY <2>7
    <3> DEFINE m == n + 1
               k == m + 1
    <3>1. k \in 1 .. Len(ss) /\ k # 1 /\ k - 1 = m /\ flatten[m] = g[m]
      BY <1>3, <2>7
    <3> HIDE DEF k, m
    <3>2. flatten[k] = flatten[k - 1] \o ss[k]
      BY <2>5, <3>1
    <3>3. g[k] = g[k - 1] \o ss[k]
      BY <2>4, <3>1
    <3>4. QED
      BY <3>1, <3>2, <3>3 DEF k, m
  <2> HIDE DEF T
  <2>8. T \in SUBSET Nat
    BY DEF T
  <2>9. T = Nat
    BY <2>6, <2>7, <2>8, Climb
  <2>10. Len(ss) - 1 \in T /\ Len(ss) - 1 + 1 = Len(ss) /\ Len(ss) \in 1 .. Len(ss)
    BY <1>3, <1>5, <2>9
  <2>11. flatten[Len(ss)] = f[Len(ss)]
    BY <2>10 DEF T, g
  <2>12. QED
    BY <1>1, <2>1, <2>11
<1>6. QED
  BY <1>4, <1>5

\* Each element of what is joined is one of the parts.
LEMMA FlattenedFacts ==
  ASSUME NEW ss, IsSeq(ss), \A i \in 1 .. Len(ss) : IsSeq(ss[i])
  PROVE  /\ IsSeq(FlattenSeq(ss))
         /\ \A k \in 1 .. Len(FlattenSeq(ss)) :
              \E i \in 1 .. Len(ss) : \E j \in 1 .. Len(ss[i]) : FlattenSeq(ss)[k] = ss[i][j]
<1>1. PICK f : Flowing(f, ss) /\ FlattenSeq(ss) = f[Len(ss)]
  BY Flattened
<1>2. f[0] = << >> /\ \A i \in 1 .. Len(ss) : f[i] = f[i - 1] \o ss[i]
  BY <1>1 DEF Flowing
<1>3. Len(ss) \in Nat
  BY SeqFacts
<1> DEFINE From(x) == \E i \in 1 .. Len(ss) : \E j \in 1 .. Len(ss[i]) : x = ss[i][j]
           Fine(s) == IsSeq(s) /\ \A k \in 1 .. Len(s) : From(s[k])
           T == {n \in Nat : n <= Len(ss) => Fine(f[n])}
<1>4. 0 \in T
  <2>1. IsSeq(<< >>) /\ Len(<< >>) = 0
    BY DEF IsSeq
  <2>2. QED
    BY <1>2, <2>1
<1>5. ASSUME NEW n \in T
      PROVE  n + 1 \in T
  <2> SUFFICES ASSUME n + 1 <= Len(ss)
               PROVE  Fine(f[n + 1])
    BY <1>5
  <2> DEFINE m == n + 1
             a == f[n]
             b == ss[m]
  <2>1. n \in Nat /\ m \in 1 .. Len(ss) /\ m - 1 = n /\ Fine(a)
    BY <1>3, <1>5
  <2> HIDE DEF m
  <2>2. f[n + 1] = a \o b
    <3>1. f[m] = f[m - 1] \o ss[m]
      BY <1>2, <2>1
    <3>2. QED
      BY <2>1, <3>1 DEF m
  <2>3. IsSeq(b) /\ \A k \in 1 .. Len(b) : From(b[k])
    BY <2>1
  <2> HIDE DEF a, b, From
  <2>4. /\ IsSeq(a \o b) /\ Len(a \o b) = Len(a) + Len(b)
        /\ \A k \in 1 .. Len(a) + Len(b) :
             \/ k \in 1 .. Len(a) /\ (a \o b)[k] = a[k]
             \/ k - Len(a) \in 1 .. Len(b) /\ (a \o b)[k] = b[k - Len(a)]
    BY <2>1, <2>3, Joined
  <2>5. Fine(a \o b)
    BY <2>1, <2>3, <2>4
  <2>6. QED
    BY <2>2, <2>5
<1> HIDE DEF Fine
<1>6. Fine(f[Len(ss)])
  <2> HIDE DEF T
  <2>1. T \in SUBSET Nat
    BY DEF T
  <2>2. T = Nat
    BY <1>4, <1>5, <2>1, Climb
  <2>3. QED
    BY <1>3, <2>2 DEF T
<1>7. QED
  BY <1>1, <1>6 DEF Fine
----------------------------------------------------------------

\* Values as a provider writes them, of none of the kinds given.
Says(s, kinds) ==
  IsSeq(s) /\ \A k \in 1 .. Len(s) : Written(s[k]) /\ s[k].kind \notin kinds

Refusals == {"error", "response.failed"}

LEMMA PieceFacts ==
  ASSUME NEW items \in Seq(Piece), NEW i \in 1 .. Len(items)
  PROVE  /\ items[i] \in Piece /\ Len(items[i].data) \in Nat
         /\ items[i].kind \in {"text", "call", "thought"}
<1>1. items[i] \in Piece
  OBVIOUS
<1>2. items[i].data \in Seq(STRING) /\ items[i].kind \in {"text", "call", "thought"}
  BY <1>1 DEF Piece
<1>3. QED
  BY <1>1, <1>2

LEMMA SaysFacts ==
  ASSUME NEW kinds
  PROVE  /\ Says(<< >>, kinds)
         /\ \A v : Written(v) /\ v.kind \notin kinds => Says(<<v>>, kinds)
         /\ \A s, t : Says(s, kinds) /\ Says(t, kinds) => Says(s \o t, kinds)
<1>1. Says(<< >>, kinds)
  BY DEF Says, IsSeq
<1>2. ASSUME NEW v, Written(v), v.kind \notin kinds
      PROVE  Says(<<v>>, kinds)
  <2>1. IsSeq(<<v>>) /\ Len(<<v>>) = 1 /\ <<v>>[1] = v
    BY Singleton
  <2>2. QED
    BY <1>2, <2>1 DEF Says
<1>3. ASSUME NEW s, NEW t, Says(s, kinds), Says(t, kinds)
      PROVE  Says(s \o t, kinds)
  <2>1. IsSeq(s) /\ IsSeq(t)
    BY <1>3 DEF Says
  <2>2. /\ IsSeq(s \o t) /\ Len(s \o t) = Len(s) + Len(t)
        /\ \A k \in 1 .. Len(s) + Len(t) :
             \/ k \in 1 .. Len(s) /\ (s \o t)[k] = s[k]
             \/ k - Len(s) \in 1 .. Len(t) /\ (s \o t)[k] = t[k - Len(s)]
    BY <2>1, Joined
  <2>3. QED
    BY <1>3, <2>2 DEF Says
<1>4. QED
  BY <1>1, <1>2, <1>3

LEMMA SaysEach ==
  ASSUME NEW kinds, NEW n \in Nat, NEW f,
         \A j \in 1 .. n : Written(f[j]) /\ f[j].kind \notin kinds, f = [j \in 1 .. n |-> f[j]]
  PROVE  Says(f, kinds)
<1>1. f \in [1 .. n -> {f[j] : j \in 1 .. n}]
  OBVIOUS
<1>2. IsSeq(f) /\ Len(f) = n
  BY <1>1, FamilyIsSeq
<1>3. QED
  BY <1>2 DEF Says

LEMMA SaysAll ==
  ASSUME NEW kinds, NEW n \in Nat, NEW f, \A i \in 1 .. n : Says(f[i], kinds),
         f = [i \in 1 .. n |-> f[i]]
  PROVE  Says(FlattenSeq(f), kinds)
<1>1. f \in [1 .. n -> {f[i] : i \in 1 .. n}]
  OBVIOUS
<1>2. IsSeq(f) /\ Len(f) = n
  BY <1>1, FamilyIsSeq
<1>3. \A i \in 1 .. Len(f) : IsSeq(f[i])
  BY <1>2 DEF Says
<1>4. /\ IsSeq(FlattenSeq(f))
      /\ \A k \in 1 .. Len(FlattenSeq(f)) :
           \E i \in 1 .. Len(f) : \E j \in 1 .. Len(f[i]) : FlattenSeq(f)[k] = f[i][j]
  BY <1>2, <1>3, FlattenedFacts
<1>5. QED
  BY <1>2, <1>4 DEF Says

LEMMA CodexSays ==
  ASSUME NEW items \in Seq(Piece), NEW i \in 1 .. Len(items)
  PROVE  Says(CodexItem(items, i), Refusals)
<1> DEFINE item == items[i]
           data == item.data
           at == [V("response.output_item.added") EXCEPT
                    !.index = i - 1, !.name = item.name,
                    !.block = IF item.kind = "call" THEN "function_call" ELSE item.kind]
           done == [at EXCEPT !.kind = "response.output_item.done", !.data = data]
           texts == [j \in 1 .. Len(data) |->
                       [V("response.output_text.delta") EXCEPT !.index = i - 1, !.data = <<data[j]>>]]
           args == [j \in 1 .. Len(data) |->
                      [V("response.function_call_arguments.delta") EXCEPT
                         !.index = i - 1, !.data = <<data[j]>>]]
<1>1. item \in Piece /\ Len(data) \in Nat
  BY PieceFacts
<1>2. IsSeq(<< >>)
  BY DEF IsSeq
<1>3. Written(at) /\ at.kind \notin Refusals /\ Written(done) /\ done.kind \notin Refusals
  BY <1>2 DEF V, Value, Chunk, Written, Tame, Refusals
<1>4. Says(texts, Refusals)
  <2>1. \A j \in 1 .. Len(data) : Written(texts[j]) /\ texts[j].kind \notin Refusals
    BY <1>2 DEF V, Value, Chunk, Written, Tame, Refusals
  <2>2. QED
    BY <1>1, <2>1, SaysEach
<1>5. Says(args, Refusals)
  <2>1. \A j \in 1 .. Len(data) : Written(args[j]) /\ args[j].kind \notin Refusals
    BY <1>2 DEF V, Value, Chunk, Written, Tame, Refusals
  <2>2. QED
    BY <1>1, <2>1, SaysEach
<1> DEFINE begin == IF item.whole THEN << >> ELSE <<at>>
           said == CASE item.kind = "text" -> texts
                     [] item.kind = "call" /\ ~item.whole -> args
                     [] OTHER -> << >>
<1>6. Says(begin, Refusals) /\ Says(said, Refusals) /\ Says(<<done>>, Refusals)
  BY <1>3, <1>4, <1>5, SaysFacts
<1>7. CodexItem(items, i) = begin \o said \o <<done>>
  BY DEF CodexItem, EachFragment
<1> DEFINE end == <<done>>
<1> HIDE DEF begin, said, done, end
<1>8. Says(begin \o said, Refusals) /\ Says(end, Refusals)
  BY <1>6, SaysFacts DEF end
<1>9. Says(begin \o said \o end, Refusals)
  BY <1>8, SaysFacts
<1>10. QED
  BY <1>7, <1>9 DEF end
----------------------------------------------------------------

LEMMA OpenAiSays ==
  ASSUME NEW items \in Seq(Piece), NEW i \in 1 .. Len(items)
  PROVE  Says(OpenAiItem(items, i), {})
<1> DEFINE item == items[i]
           data == item.data
           at == CallIndex(items, i)
           Say(chunk) == [Value EXCEPT !.kind = "chunk", !.chunk = chunk]
           call == Say(CallChunk(at, item.name, IF item.whole THEN data ELSE << >>))
           texts == [j \in 1 .. Len(data) |-> Say(TextChunk(<<data[j]>>))]
           args == [j \in 1 .. Len(data) |-> Say(CallChunk(at, None, <<data[j]>>))]
<1>1. item \in Piece /\ Len(data) \in Nat
  BY PieceFacts
<1>2. ASSUME NEW c, Tame(c)
      PROVE  Written(Say(c))
  BY <1>2 DEF Value, Written, IsSeq
<1> HIDE DEF Say
<1>3. Says(<<call>>, {})
  BY <1>2, TameChunks, SaysFacts
<1>4. Says(texts, {}) /\ Says(args, {})
  <2>1. \A j \in 1 .. Len(data) : Written(texts[j]) /\ Written(args[j])
    BY <1>2, TameChunks
  <2>2. /\ texts \in [1 .. Len(data) -> {texts[j] : j \in 1 .. Len(data)}]
        /\ args \in [1 .. Len(data) -> {args[j] : j \in 1 .. Len(data)}]
    OBVIOUS
  <2> HIDE DEF texts, args
  <2>3. IsSeq(texts) /\ Len(texts) = Len(data) /\ IsSeq(args) /\ Len(args) = Len(data)
    BY <1>1, <2>2, FamilyIsSeq
  <2>4. QED
    BY <2>1, <2>3 DEF Says
<1> DEFINE rest == IF item.whole THEN << >> ELSE args
<1>5. Says(rest, {})
  BY <1>4, SaysFacts
<1>6. OpenAiItem(items, i) = IF item.kind = "text" THEN texts ELSE <<call>> \o rest
  BY DEF OpenAiItem, EachFragment, Say
<1> DEFINE begin == <<call>>
<1> HIDE DEF call, texts, rest, begin
<1>7. Says(begin \o rest, {})
  BY <1>3, <1>5, SaysFacts DEF begin
<1>8. QED
  BY <1>4, <1>6, <1>7 DEF begin

LEMMA AnthropicSays ==
  ASSUME NEW items \in Seq(Piece), NEW i \in 1 .. Len(items)
  PROVE  Says(AnthropicItem(items, i), {})
<1> DEFINE item == items[i]
           data == item.data
           at == [V("content_block_start") EXCEPT !.index = i - 1]
           start == [at EXCEPT !.block = IF item.kind = "call" THEN "tool_use" ELSE item.kind,
                               !.name = item.name]
           stop == [V("content_block_stop") EXCEPT !.index = i - 1]
           D(type) == [j \in 1 .. Len(data) |->
                         [at EXCEPT !.kind = "content_block_delta", !.block = type, !.data = <<data[j]>>]]
           said == CASE item.kind = "text" -> D("text_delta")
                     [] item.kind = "call" -> D("input_json_delta")
                     [] item.kind = "thought" -> D("thinking_delta")
<1>1. item \in Piece /\ Len(data) \in Nat
  BY PieceFacts
<1>0. IsSeq(<< >>)
  BY DEF IsSeq
<1>2. Written(start) /\ Written(stop)
  BY <1>0 DEF V, Value, Chunk, Written, Tame
<1>3. \A type : Says(D(type), {})
  <2> SUFFICES ASSUME NEW type
               PROVE  Says(D(type), {})
    OBVIOUS
  <2> DEFINE d == D(type)
  <2>1. \A j \in 1 .. Len(data) : Written(d[j])
    BY <1>0 DEF V, Value, Chunk, Written, Tame
  <2>2. d \in [1 .. Len(data) -> {d[j] : j \in 1 .. Len(data)}]
    OBVIOUS
  <2> HIDE DEF d
  <2>3. IsSeq(d) /\ Len(d) = Len(data)
    BY <1>1, <2>2, FamilyIsSeq
  <2>4. Says(d, {})
    BY <2>1, <2>3 DEF Says
  <2>5. QED
    BY <2>4 DEF d
<1>4. AnthropicItem(items, i) = <<start>> \o said \o <<stop>>
  BY DEF AnthropicItem, EachFragment
<1> HIDE DEF start, stop, D
<1>5. Says(said, {})
  BY <1>1, <1>3 DEF Piece
<1> DEFINE begin == <<start>>
           end == <<stop>>
<1>6. Says(begin, {}) /\ Says(end, {})
  BY <1>2, SaysFacts
<1> HIDE DEF said, begin, end
<1>7. Says(begin \o said, {})
  BY <1>5, <1>6, SaysFacts
<1>8. Says(begin \o said \o end, {})
  BY <1>6, <1>7, SaysFacts
<1>9. QED
  BY <1>4, <1>8 DEF begin, end

LEMMA BedrockSays ==
  ASSUME NEW items \in Seq(Piece), NEW i \in 1 .. Len(items)
  PROVE  Says(BedrockItem(items, i), {})
<1> DEFINE item == items[i]
           data == item.data
           at == [V("contentBlockStart") EXCEPT !.index = i - 1]
           start == [at EXCEPT !.block = "toolUse", !.name = item.name]
           stop == [V("contentBlockStop") EXCEPT !.index = i - 1]
           D(type) == [j \in 1 .. Len(data) |->
                         [at EXCEPT !.kind = "contentBlockDelta", !.block = type, !.data = <<data[j]>>]]
           said == IF item.kind = "text" THEN D("text") ELSE <<start>> \o D("toolUse")
<1>1. item \in Piece /\ Len(data) \in Nat
  BY PieceFacts
<1>0. IsSeq(<< >>)
  BY DEF IsSeq
<1>2. Written(start) /\ Written(stop)
  BY <1>0 DEF V, Value, Chunk, Written, Tame
<1>3. \A type : Says(D(type), {})
  <2> SUFFICES ASSUME NEW type
               PROVE  Says(D(type), {})
    OBVIOUS
  <2> DEFINE d == D(type)
  <2>1. \A j \in 1 .. Len(data) : Written(d[j])
    BY <1>0 DEF V, Value, Chunk, Written, Tame
  <2>2. d \in [1 .. Len(data) -> {d[j] : j \in 1 .. Len(data)}]
    OBVIOUS
  <2> HIDE DEF d
  <2>3. IsSeq(d) /\ Len(d) = Len(data)
    BY <1>1, <2>2, FamilyIsSeq
  <2>4. Says(d, {})
    BY <2>1, <2>3 DEF Says
  <2>5. QED
    BY <2>4 DEF d
<1>4. BedrockItem(items, i) = said \o <<stop>>
  BY DEF BedrockItem, EachFragment
<1> DEFINE begin == <<start>>
           calls == begin \o D("toolUse")
           end == <<stop>>
<1>5. Says(begin, {}) /\ Says(end, {})
  BY <1>2, SaysFacts
<1> HIDE DEF start, stop, D, begin, end
<1>6. Says(calls, {})
  BY <1>3, <1>5, SaysFacts
<1>7. said = IF item.kind = "text" THEN D("text") ELSE calls
  BY DEF begin
<1> HIDE DEF said, calls
<1>8. Says(said, {})
  BY <1>3, <1>6, <1>7
<1>9. Says(said \o end, {})
  BY <1>5, <1>8, SaysFacts
<1>10. QED
  BY <1>4, <1>9 DEF end
----------------------------------------------------------------

\* Every answer is written in values, in any dialect.
LEMMA ValuesSay ==
  ASSUME NEW dialect \in Dialects, NEW answer \in Answer
  PROVE  Says(Values(dialect, answer), {})
<1> DEFINE items == answer.items
           reason == Reason(dialect, answer)
           refusal == answer.refusal
           usage == answer.usage
<1>1. items \in Seq(Piece) /\ Len(items) \in Nat
  BY DEF Answer
<1>0. IsSeq(<< >>)
  BY DEF IsSeq
<1>2. ASSUME NEW s, Says(s, {}), NEW t, Says(t, {}), NEW u, Says(u, {})
      PROVE  Says(s \o t \o u, {})
  BY <1>2, SaysFacts
<1>3. \A u, v : Written(u) /\ Written(v) => Says(<<u, v>>, {})
  <2> SUFFICES ASSUME NEW u, NEW v, Written(u), Written(v)
               PROVE  Says(<<u, v>>, {})
    OBVIOUS
  <2> DEFINE a == <<u>>
             b == <<v>>
  <2>1. Says(a, {}) /\ Says(b, {}) /\ <<u, v>> = a \o b
    BY Pair, SaysFacts
  <2> HIDE DEF a, b
  <2>2. Says(a \o b, {})
    BY <2>1, SaysFacts
  <2>3. QED
    BY <2>1, <2>2
<1>4. \A v : Written(v) => Says(<<v>>, {})
  BY SaysFacts
<1>5. CASE dialect = "OpenAi"
  <2> DEFINE role == [V("chunk") EXCEPT !.chunk = RoleChunk]
             all == All(items, OpenAiItem)
             finish == [V("chunk") EXCEPT !.chunk = FinishChunk(reason, << >>)]
             last == [V("chunk") EXCEPT !.chunk = [Chunk EXCEPT !.usage = usage]]
             done == V("[DONE]")
  <2>1. Written(role) /\ Written(finish)
    BY TameChunks DEF V, Value, Written, IsSeq
  <2>2. Tame([Chunk EXCEPT !.usage = usage]) /\ Tame(Chunk)
    BY DEF Chunk, Tame, IsSeq
  <2>3. Written(last) /\ Written(done)
    BY <2>2 DEF V, Value, Written, IsSeq
  <2>4. Says(all, {})
    <3> DEFINE f == [i \in 1 .. Len(items) |-> OpenAiItem(items, i)]
    <3>1. \A i \in 1 .. Len(items) : Says(f[i], {})
      BY <1>1, OpenAiSays
    <3>2. Says(FlattenSeq(f), {})
      BY <1>1, <3>1, SaysAll
    <3>3. QED
      BY <3>2 DEF All
  <2>5. Values(dialect, answer) = <<role>> \o all \o <<finish, last, done>>
    BY <1>5 DEF Values
  <2> DEFINE begin == <<role>>
             end == <<finish, last, done>>
  <2> HIDE DEF role, all, finish, last, done
  <2>6. <<finish, last, done>> \in Seq({finish, last, done})
    OBVIOUS
  <2>7. IsSeq(end) /\ Len(end) = 3 /\ end[1] = finish /\ end[2] = last /\ end[3] = done
    BY <2>6 DEF IsSeq
  <2> HIDE DEF end
  <2>8. Says(end, {}) /\ Says(begin, {})
    BY <1>4, <2>1, <2>3, <2>7 DEF Says
  <2> HIDE DEF begin
  <2>9. Says(begin \o all \o end, {})
    BY <1>2, <2>4, <2>8
  <2>10. QED
    BY <2>5, <2>9 DEF begin, end
<1>6. CASE dialect = "Anthropic"
  <2> DEFINE start == [V("message_start") EXCEPT !.usage = <<usage[1]>>]
             ping == V("ping")
             all == All(items, AnthropicItem)
             error == [V("error") EXCEPT !.reason = refusal]
             last == [V("message_delta") EXCEPT !.reason = reason, !.usage = <<usage[2]>>]
             stop == V("message_stop")
             end == IF refusal # None THEN <<error>> ELSE <<last, stop>>
  <2>1. Written(start) /\ Written(ping) /\ Written(error) /\ Written(last) /\ Written(stop)
    BY <1>0 DEF V, Value, Chunk, Written, Tame
  <2>2. Says(all, {})
    <3> DEFINE f == [i \in 1 .. Len(items) |-> AnthropicItem(items, i)]
    <3>1. \A i \in 1 .. Len(items) : Says(f[i], {})
      BY <1>1, AnthropicSays
    <3>2. Says(FlattenSeq(f), {})
      BY <1>1, <3>1, SaysAll
    <3>3. QED
      BY <3>2 DEF All
  <2>3. Values(dialect, answer) = <<start, ping>> \o all \o end
    BY <1>6 DEF Values
  <2> HIDE DEF start, ping, all, error, last, stop
  <2>4. Says(<<start, ping>>, {}) /\ Says(end, {})
    BY <1>3, <1>4, <2>1
  <2>5. QED
    BY <1>2, <2>2, <2>3, <2>4
<1>7. CASE dialect = "Gemini"
  <2> DEFINE all == [i \in 1 .. Len(items) |->
                       [V("generate") EXCEPT !.parts = <<Part(items[i].name, items[i].data)>>]]
             last == [V("generate") EXCEPT !.reason = reason, !.usage = usage]
  <2>1. Written(last)
    BY <1>0 DEF V, Value, Chunk, Written, Tame
  <2>2. Says(all, {})
    <3>1. ASSUME NEW j \in 1 .. Len(items)
          PROVE  Written(all[j])
      <4> DEFINE parts == <<Part(items[j].name, items[j].data)>>
      <4>1. IsSeq(parts) /\ all[j] = [V("generate") EXCEPT !.parts = parts]
        BY Singleton
      <4> HIDE DEF parts
      <4>2. Written([V("generate") EXCEPT !.parts = parts])
        BY <4>1, <1>0 DEF V, Value, Chunk, Written, Tame
      <4>3. QED
        BY <4>1, <4>2
    <3>2. all \in [1 .. Len(items) -> {all[j] : j \in 1 .. Len(items)}]
      OBVIOUS
    <3> HIDE DEF all
    <3>3. IsSeq(all) /\ Len(all) = Len(items)
      BY <1>1, <3>2, FamilyIsSeq
    <3>4. QED
      BY <3>1, <3>3 DEF Says
  <2>3. Values(dialect, answer) = all \o <<last>>
    BY <1>7 DEF Values
  <2> DEFINE end == <<last>>
  <2>4. Says(end, {})
    BY <1>4, <2>1
  <2> HIDE DEF all, last, end
  <2>5. Says(all \o end, {})
    BY <2>2, <2>4, SaysFacts
  <2>6. QED
    BY <2>3, <2>5 DEF end
<1>8. CASE dialect = "Bedrock"
  <2> DEFINE start == V("messageStart")
             all == All(items, BedrockItem)
             error == [V("exception") EXCEPT !.reason = refusal]
             stop == [V("messageStop") EXCEPT !.reason = reason]
             last == [V("metadata") EXCEPT !.usage = usage]
             end == IF refusal # None THEN <<error>> ELSE <<stop, last>>
  <2>1. Written(start) /\ Written(error) /\ Written(last) /\ Written(stop)
    BY <1>0 DEF V, Value, Chunk, Written, Tame
  <2>2. Says(all, {})
    <3> DEFINE f == [i \in 1 .. Len(items) |-> BedrockItem(items, i)]
    <3>1. \A i \in 1 .. Len(items) : Says(f[i], {})
      BY <1>1, BedrockSays
    <3>2. Says(FlattenSeq(f), {})
      BY <1>1, <3>1, SaysAll
    <3>3. QED
      BY <3>2 DEF All
  <2>3. Values(dialect, answer) = <<start>> \o all \o end
    BY <1>8 DEF Values
  <2> HIDE DEF start, all, error, last, stop
  <2>4. Says(<<start>>, {}) /\ Says(end, {})
    BY <1>3, <1>4, <2>1
  <2>5. QED
    BY <1>2, <2>2, <2>3, <2>4
<1>9. CASE dialect = "Codex"
  <2> DEFINE start == V("response.created")
             all == All(items, CodexItem)
             error == [V("error") EXCEPT !.reason = refusal]
             failed == [V("response.failed") EXCEPT !.reason = refusal]
             last == [V(IF answer.stop = "length" THEN "response.incomplete"
                        ELSE "response.completed") EXCEPT !.usage = usage]
             end == IF refusal # None THEN <<error, failed>> ELSE <<last>>
  <2>1. Written(start) /\ Written(error) /\ Written(failed) /\ Written(last)
    BY <1>0 DEF V, Value, Chunk, Written, Tame
  <2>2. Says(all, {})
    <3> DEFINE f == [i \in 1 .. Len(items) |-> CodexItem(items, i)]
    <3>1. \A i \in 1 .. Len(items) : Says(f[i], {})
      BY <1>1, CodexSays DEF Says
    <3>2. Says(FlattenSeq(f), {})
      BY <1>1, <3>1, SaysAll
    <3>3. QED
      BY <3>2 DEF All
  <2>3. Values(dialect, answer) = <<start>> \o all \o end
    BY <1>9 DEF Values
  <2> HIDE DEF start, all, error, failed, last
  <2>4. Says(<<start>>, {}) /\ Says(end, {})
    BY <1>3, <1>4, <2>1
  <2>5. QED
    BY <1>2, <2>2, <2>3, <2>4
<1>10. QED
  BY <1>5, <1>6, <1>7, <1>8, <1>9 DEF Dialects
----------------------------------------------------------------

\* Bytes that carry one value only.
Bears(s, v) == IsSeq(s) /\ \A k \in 1 .. Len(s) : \A x : Carries(s[k], x) => x = v

LEMMA BearsFacts ==
  ASSUME NEW v
  PROVE  /\ Bears(<< >>, v)
         /\ \A b : (\A x : Carries(b, x) => x = v) => Bears(<<b>>, v)
         /\ \A s, t : Bears(s, v) /\ Bears(t, v) => Bears(s \o t, v)
<1>1. Bears(<< >>, v)
  BY DEF Bears, IsSeq
<1>2. ASSUME NEW b, \A x : Carries(b, x) => x = v
      PROVE  Bears(<<b>>, v)
  <2>1. IsSeq(<<b>>) /\ Len(<<b>>) = 1 /\ <<b>>[1] = b
    BY Singleton
  <2>2. QED
    BY <1>2, <2>1 DEF Bears
<1>3. ASSUME NEW s, NEW t, Bears(s, v), Bears(t, v)
      PROVE  Bears(s \o t, v)
  <2>1. IsSeq(s) /\ IsSeq(t)
    BY <1>3 DEF Bears
  <2>2. /\ IsSeq(s \o t) /\ Len(s \o t) = Len(s) + Len(t)
        /\ \A k \in 1 .. Len(s) + Len(t) :
             \/ k \in 1 .. Len(s) /\ (s \o t)[k] = s[k]
             \/ k - Len(s) \in 1 .. Len(t) /\ (s \o t)[k] = t[k - Len(s)]
    BY <2>1, Joined
  <2>3. QED
    BY <1>3, <2>2 DEF Bears
<1>4. QED
  BY <1>1, <1>2, <1>3

LEMMA BytesBear ==
  ASSUME NEW e, NEW v
  PROVE  Bears(Bytes(e, v), v)
<1>1. /\ \A x : ~Carries(CR, x) /\ ~Carries(LF, x) /\ ~Carries(<<"comment">>, x)
      /\ \A x, n : ~Carries(<<"event", n>>, x) /\ ~Carries(<<"prelude", n>>, x) /\ ~Carries(<<"sum", n>>, x)
      /\ \A x, y : Carries(<<"data", y>>, x) \/ Carries(<<"payload", y>>, x) => x = y
  BY DEF Carries, CR, LF
<1>2. /\ Bears(<<CR>>, v) /\ Bears(<<LF>>, v) /\ Bears(<<<<"comment">>>>, v)
      /\ \A n : Bears(<<<<"event", n>>>>, v) /\ Bears(<<<<"prelude", n>>>>, v) /\ Bears(<<<<"sum", n>>>>, v)
      /\ Bears(<<<<"data", v>>>>, v) /\ Bears(<<<<"payload", v>>>>, v) /\ Bears(<< >>, v)
  BY <1>1, BearsFacts
<1>3. CASE e.dialect = "Bedrock"
  <2> DEFINE a == <<"prelude", FrameLen>>
             b == <<"payload", v>>
             c == <<"sum", TRUE>>
  <2>1. Bytes(e, v) = <<a, b, c>>
    BY <1>3 DEF Bytes, Frame
  <2> HIDE DEF a, b, c
  <2>3. <<a, b, c>> \in Seq({a, b, c})
    OBVIOUS
  <2> DEFINE s == <<a, b, c>>
  <2>4. IsSeq(s) /\ Len(s) = 3 /\ s[1] = a /\ s[2] = b /\ s[3] = c
    BY <2>3 DEF IsSeq
  <2> HIDE DEF s
  <2>5. \A x \in {a, b, c} : \A y : Carries(x, y) => y = v
    BY <1>1 DEF a, b, c
  <2>6. Bears(s, v)
    BY <2>4, <2>5 DEF Bears
  <2>7. QED
    BY <2>1, <2>6 DEF s
<1>4. CASE e.dialect # "Bedrock"
  <2> DEFINE break == IF e.crlf THEN <<CR, LF>> ELSE <<LF>>
             named == <<<<"event", v.kind>>>>
             name == IF e.dialect \in {"Anthropic", "Codex"} THEN named \o break ELSE << >>
             data == <<<<"data", v>>>>
             comment == <<<<"comment">>>>
             ping == IF e.comments THEN comment \o break \o break ELSE << >>
  <2>1. Bytes(e, v) = name \o data \o break \o break \o ping
    BY <1>4 DEF Bytes
  <2>2. Bears(<<CR>> \o <<LF>>, v)
    <3> DEFINE cr == <<CR>>
               lf == <<LF>>
    <3>1. Bears(cr, v) /\ Bears(lf, v)
      BY <1>2
    <3> HIDE DEF cr, lf
    <3>2. Bears(cr \o lf, v)
      BY <3>1, BearsFacts
    <3>3. QED
      BY <3>2 DEF cr, lf
  <2>3. Bears(break, v)
    <3>1. <<CR, LF>> = <<CR>> \o <<LF>>
      BY Pair, Zenon
    <3>2. Bears(<<CR, LF>>, v)
      BY <2>2, <3>1
    <3>3. QED
      BY <1>2, <3>2
  <2>4. Bears(named, v) /\ Bears(data, v) /\ Bears(comment, v)
    BY <1>2
  <2> HIDE DEF break, named, data, comment
  <2>5. Bears(name, v) /\ Bears(ping, v)
    BY <2>3, <2>4, BearsFacts
  <2> HIDE DEF name, ping
  <2>6. Bears(name \o data, v)
    BY <2>4, <2>5, BearsFacts
  <2>7. Bears(name \o data \o break, v)
    BY <2>3, <2>6, BearsFacts
  <2>8. Bears(name \o data \o break \o break, v)
    BY <2>3, <2>7, BearsFacts
  <2>9. Bears(name \o data \o break \o break \o ping, v)
    BY <2>5, <2>8, BearsFacts
  <2>10. QED
    BY <2>1, <2>9
<1>5. QED
  BY <1>3, <1>4

\* Frames that follow one another, each as long as it declares.
LEMMA FramesFollow ==
  ASSUME NEW ss, IsSeq(ss), \A i \in 1 .. Len(ss) : \E v : ss[i] = Frame(v, TRUE)
  PROVE  Declared(FlattenSeq(ss)) /\ Sequent(FlattenSeq(ss))
<1>1. \A i \in 1 .. Len(ss) : /\ IsSeq(ss[i]) /\ Len(ss[i]) = 3
                              /\ ss[i][1] = <<"prelude", FrameLen>>
                              /\ ss[i][2][1] = "payload" /\ ss[i][3][1] = "sum"
  <2> SUFFICES ASSUME NEW v
               PROVE  /\ IsSeq(Frame(v, TRUE)) /\ Len(Frame(v, TRUE)) = 3
                      /\ Frame(v, TRUE)[1] = <<"prelude", FrameLen>>
                      /\ Frame(v, TRUE)[2][1] = "payload" /\ Frame(v, TRUE)[3][1] = "sum"
    OBVIOUS
  <2> DEFINE a == <<"prelude", FrameLen>>
             b == <<"payload", v>>
             c == <<"sum", TRUE>>
  <2>1. Frame(v, TRUE) = <<a, b, c>>
    BY DEF Frame
  <2>2. b[1] = "payload" /\ c[1] = "sum"
    OBVIOUS
  <2> HIDE DEF a, b, c
  <2>3. <<a, b, c>> \in Seq({a, b, c})
    OBVIOUS
  <2> DEFINE s == <<a, b, c>>
  <2>4. /\ IsSeq(s) /\ Len(s) = 3 /\ s[1] = a /\ s[2] = b /\ s[3] = c
    BY <2>3 DEF IsSeq
  <2> HIDE DEF s
  <2>5. Frame(v, TRUE) = s /\ a = <<"prelude", FrameLen>>
    BY <2>1 DEF s, a
  <2>6. QED
    BY <2>2, <2>4, <2>5
<1>2. PICK f : Flowing(f, ss) /\ FlattenSeq(ss) = f[Len(ss)]
  BY <1>1, Flattened
<1>3. f[0] = << >> /\ \A i \in 1 .. Len(ss) : f[i] = f[i - 1] \o ss[i]
  BY <1>2 DEF Flowing
<1>4. Len(ss) \in Nat
  BY SeqFacts
<1> DEFINE Fine(s, n) == IsSeq(s) /\ Len(s) = 3 * n /\ Declared(s) /\ Sequent(s)
           T == {n \in Nat : n <= Len(ss) => Fine(f[n], n)}
<1>5. 0 \in T
  <2>1. IsSeq(<< >>) /\ Len(<< >>) = 0
    BY DEF IsSeq
  <2>2. QED
    BY <1>3, <2>1 DEF Declared, Sequent
<1>6. ASSUME NEW n \in T
      PROVE  n + 1 \in T
  <2> SUFFICES ASSUME n + 1 <= Len(ss)
               PROVE  Fine(f[n + 1], n + 1)
    BY <1>6
  <2> DEFINE m == n + 1
             a == f[n]
             b == ss[m]
             w == a \o b
  <2>1. n \in Nat /\ m \in 1 .. Len(ss) /\ m - 1 = n /\ Fine(a, n)
    BY <1>4, <1>6
  <2> HIDE DEF m
  <2>2. f[n + 1] = w
    <3>1. f[m] = f[m - 1] \o ss[m]
      BY <1>3, <2>1
    <3>2. QED
      BY <2>1, <3>1 DEF m
  <2>3. /\ IsSeq(b) /\ Len(b) = 3 /\ b[1] = <<"prelude", FrameLen>>
        /\ b[2][1] = "payload" /\ b[3][1] = "sum"
    BY <1>1, <2>1
  <2> HIDE DEF a, b
  <2>4. /\ IsSeq(w) /\ Len(w) = 3 * n + 3
        /\ \A k \in 1 .. 3 * n : w[k] = a[k]
        /\ \A k \in 1 .. 3 : w[3 * n + k] = b[k]
    <3>1. IsSeq(a) /\ Len(a) = 3 * n /\ IsSeq(b) /\ Len(b) = 3
      BY <2>1, <2>3
    <3>0. IsSeq(a) /\ IsSeq(b)
      BY <3>1
    <3>2. IsSeq(w) /\ Len(w) = Len(a) + Len(b)
      BY <3>0, Joined
    <3>3. \A k \in 1 .. Len(a) : w[k] = a[k]
      BY <3>0, Joined
    <3>4. \A k \in 1 .. Len(b) : w[Len(a) + k] = b[k]
      BY <3>0, Joined
    <3> HIDE DEF w
    <3>5. QED
      BY <3>1, <3>2, <3>3, <3>4
  <2>5. \A k \in 1 .. 3 * n + 3 : \/ k \in 1 .. 3 * n /\ w[k] = a[k]
                                  \/ k = 3 * n + 1 /\ w[k] = b[1]
                                  \/ k = 3 * n + 2 /\ w[k] = b[2]
                                  \/ k = 3 * n + 3 /\ w[k] = b[3]
    <3> HIDE DEF w
    <3>1. 1 \in 1 .. 3 /\ 2 \in 1 .. 3 /\ 3 \in 1 .. 3
      OBVIOUS
    <3>2. w[3 * n + 1] = b[1] /\ w[3 * n + 2] = b[2] /\ w[3 * n + 3] = b[3]
      BY <2>4, <3>1
    <3>3. QED
      BY <2>1, <2>4, <3>2
  <2> HIDE DEF w
  <2>6. <<"prelude", FrameLen>>[1] = "prelude" /\ <<"prelude", FrameLen>>[2] = FrameLen
    OBVIOUS
  <2>7. Declared(w)
    BY <2>1, <2>3, <2>4, <2>5, <2>6 DEF Declared
  <2>8. Sequent(w)
    <3> SUFFICES ASSUME NEW i \in 1 .. Len(w), NEW k \in Nat
                 PROVE  /\ i = 3 * k + 1 => w[i][1] = "prelude"
                        /\ i = 3 * k + 2 => w[i][1] = "payload"
      BY DEF Sequent
    <3>1. CASE i \in 1 .. 3 * n /\ w[i] = a[i]
      BY <2>1, <3>1 DEF Sequent
    <3>2. CASE i = 3 * n + 1 /\ w[i] = b[1]
      BY <2>1, <2>3, <2>6, <3>2
    <3>3. CASE i = 3 * n + 2 /\ w[i] = b[2]
      BY <2>1, <2>3, <3>3
    <3>4. CASE i = 3 * n + 3 /\ w[i] = b[3]
      BY <2>1, <3>4
    <3>5. QED
      BY <2>4, <2>5, <3>1, <3>2, <3>3, <3>4
  <2>9. 3 * (n + 1) = 3 * n + 3
    BY <2>1
  <2>10. QED
    BY <2>2, <2>4, <2>7, <2>8, <2>9
<1> HIDE DEF Fine
<1>7. Fine(f[Len(ss)], Len(ss))
  <2> HIDE DEF T
  <2>1. T \in SUBSET Nat
    BY DEF T
  <2>2. T = Nat
    BY <1>5, <1>6, <2>1, Climb
  <2>3. QED
    BY <1>4, <2>2 DEF T
<1>8. QED
  BY <1>2, <1>7 DEF Fine

\* What an exchange speaks is well-formed, and carries the values it is written in.
LEMMA SpokenFacts ==
  ASSUME NEW e \in Exchange
  PROVE  LET values == Values(e.dialect, e.answer)
         IN  /\ WellFormed(e.dialect, Spoken(e))
             /\ \A k \in 1 .. Len(Spoken(e)) : \A x :
                  Carries(Spoken(e)[k], x) => \E i \in 1 .. Len(values) : x = values[i]
<1> DEFINE values == Values(e.dialect, e.answer)
           ss == [i \in 1 .. Len(values) |-> Bytes(e, values[i])]
<1>1. e.dialect \in Dialects /\ e.answer \in Answer
  BY DEF Exchange
<1>2. IsSeq(values)
  BY <1>1, ValuesSay DEF Says
<1> HIDE DEF values
<1>3. Len(values) \in Nat
  BY <1>2, SeqFacts
<1>4. IsSeq(ss) /\ Len(ss) = Len(values)
  <2>1. ss \in [1 .. Len(values) -> {ss[i] : i \in 1 .. Len(values)}]
    OBVIOUS
  <2> HIDE DEF ss
  <2>2. QED
    BY <1>3, <2>1, FamilyIsSeq
<1>5. \A i \in 1 .. Len(ss) : Bears(ss[i], values[i])
  BY <1>4, BytesBear
<1>6. Spoken(e) = FlattenSeq(ss)
  BY DEF Spoken, values
<1> HIDE DEF ss
<1>7. \A i \in 1 .. Len(ss) : IsSeq(ss[i])
  BY <1>5 DEF Bears
<1> DEFINE s == FlattenSeq(ss)
<1>8. /\ IsSeq(s)
      /\ \A k \in 1 .. Len(s) : \E i \in 1 .. Len(ss) : \E j \in 1 .. Len(ss[i]) : s[k] = ss[i][j]
  BY <1>4, <1>7, FlattenedFacts
<1>9. \A k \in 1 .. Len(s) : \A x : Carries(s[k], x) => \E i \in 1 .. Len(values) : x = values[i]
  BY <1>4, <1>5, <1>8 DEF Bears
<1>10. e.dialect = "Bedrock" => Declared(s) /\ Sequent(s)
  <2> SUFFICES ASSUME e.dialect = "Bedrock"
               PROVE  Declared(s) /\ Sequent(s)
    OBVIOUS
  <2>1. \A i \in 1 .. Len(ss) : \E v : ss[i] = Frame(v, TRUE)
    BY <1>4 DEF ss, Bytes
  <2>2. QED
    BY <1>4, <2>1, FramesFollow
<1>11. QED
  BY <1>6, <1>8, <1>9, <1>10 DEF WellFormed, values
----------------------------------------------------------------

\* An event of an exchange: its data are values of the answer.
Conveys(e, event) ==
  /\ IsSeq(event.data)
  /\ \A j \in 1 .. Len(event.data) :
       \E i \in 1 .. Len(Values(e.dialect, e.answer)) : event.data[j] = Values(e.dialect, e.answer)[i]

LEMMA PartSpoken ==
  ASSUME NEW e \in Exchange, NEW s, NEW t, IsSeq(s), IsSeq(t), s \o t = Spoken(e)
  PROVE  LET events == Parse(e.dialect, s).events
         IN  /\ WellFormed(e.dialect, s) /\ Sound(e.dialect, Parse(e.dialect, s), s)
             /\ IsSeq(events)
             /\ \A k \in 1 .. Len(events) : Conveys(e, events[k]) /\ Talks(e.dialect, events[k])
<1> DEFINE events == Parse(e.dialect, s).events
           values == Values(e.dialect, e.answer)
<1>1. WellFormed(e.dialect, s \o t)
  BY SpokenFacts
<1>2. WellFormed(e.dialect, s)
  BY <1>1, PrefixWellFormed
<1>3. Sound(e.dialect, Parse(e.dialect, s), s)
  BY <1>2, ParseSound
<1>4. IsSeq(events) /\ \A k \in 1 .. Len(events) : SpelledBy(events[k], s)
  BY <1>3 DEF Sound
<1>5. \A i \in 1 .. Len(s) : i \in 1 .. Len(s \o t) /\ (s \o t)[i] = s[i]
  BY Joined, SeqFacts
<1>6. \A i \in 1 .. Len(s) : \A x : Carries(s[i], x) => \E j \in 1 .. Len(values) : x = values[j]
  <2>1. \A i \in 1 .. Len(s \o t) : \A x :
          Carries((s \o t)[i], x) => \E j \in 1 .. Len(values) : x = values[j]
    BY SpokenFacts
  <2> HIDE DEF values
  <2>2. QED
    BY <1>5, <2>1
<1> HIDE DEF events, values
<1>7. \A k \in 1 .. Len(events) : Conveys(e, events[k])
  BY <1>4, <1>6 DEF SpelledBy, Conveys, values
<1>8. e.dialect \in Dialects /\ e.answer \in Answer
  BY DEF Exchange
<1>9. \A i \in 1 .. Len(values) : Written(values[i])
  BY <1>8, ValuesSay DEF Says, values
<1>10. \A k \in 1 .. Len(events) : Talks(e.dialect, events[k])
  <2> SUFFICES ASSUME NEW k \in 1 .. Len(events)
               PROVE  Talks(e.dialect, events[k])
    OBVIOUS
  <2> DEFINE event == events[k]
  <2>1. IsSeq(event.data) /\ \A j \in 1 .. Len(event.data) : Written(event.data[j])
    BY <1>7, <1>9 DEF Conveys, values
  <2> HIDE DEF event
  <2>2. Talks(e.dialect, event)
    BY <1>8, <2>1, WrittenTalks
  <2>3. QED
    BY <2>2 DEF event
<1>11. QED
  BY <1>2, <1>3, <1>4, <1>7, <1>10 DEF events

LEMMA Nothing ==
  ASSUME NEW dialect, NEW target, NEW d, NEW r, NEW c
  PROVE  /\ Parse(dialect, << >>) = Holds(<< >>, << >>)
         /\ OnEvents(dialect, d, << >>) = Yield(d, << >>)
         /\ OnChunks(target, r, << >>) = Out(r, << >>)
         /\ ReadAll(target, c, << >>) = c
<1>1. IsSeq(<< >>) /\ Len(<< >>) = 0
  BY DEF IsSeq
<1>2. WellFormed(dialect, << >>)
  BY <1>1 DEF WellFormed, Declared, Sequent
<1>3. NextOf(dialect, << >>).bytes \in 0 .. 0
  BY <1>1, <1>2, NextTakes DEF Takes
<1>4. Parse(dialect, << >>) = Holds(<< >>, << >>)
  BY <1>2, <1>3, Unfolds
<1>5. OnEvents(dialect, d, << >>) = Yield(d, << >>)
  <2>1. PICK f : Translating(f, dialect, d, << >>) /\ OnEvents(dialect, d, << >>) = f[Len(<< >>)]
    BY <1>1, EventsTraced
  <2>2. QED
    BY <1>1, <2>1 DEF Translating
<1>6. OnChunks(target, r, << >>) = Out(r, << >>)
  <2>1. PICK f : Rendering(f, target, r, << >>) /\ OnChunks(target, r, << >>) = f[Len(<< >>)]
    BY <1>1, ChunksTraced
  <2>2. QED
    BY <1>1, <2>1 DEF Rendering
<1>7. ReadAll(target, c, << >>) = c
  <2>1. PICK f : Listening(f, target, c, << >>) /\ ReadAll(target, c, << >>) = f[Len(<< >>)]
    BY <1>1, FramesTraced
  <2>2. QED
    BY <1>1, <2>1 DEF Listening
<1>8. QED
  BY <1>4, <1>5, <1>6, <1>7

-----------------------------------------------------------------------------
(* Where the bytes of an answer have put the gateway and the client. *)

Decoded(e, s) == OnEvents(e.dialect, Decoder(e.answer.emulated), Parse(e.dialect, s).events)
Rendered(e, s) == OnChunks(e.target, Renderer, Decoded(e, s).chunks)
Put(e, s, b, d, r, c) ==
  /\ b = Parse(e.dialect, s).rest
  /\ d = Decoded(e, s).d
  /\ r = Rendered(e, s).r
  /\ c = ReadAll(e.target, Blank, Rendered(e, s).frames)

LEMMA Fields ==
  ASSUME NEW x, NEW y
  PROVE  /\ Holds(x, y).events = x /\ Holds(x, y).rest = y
         /\ Yield(x, y).d = x /\ Yield(x, y).chunks = y
         /\ Out(x, y).r = x /\ Out(x, y).frames = y
BY DEF Holds, Yield, Out

\* A burst puts them where the bytes so far would have, at once.
LEMMA BurstPuts ==
  ASSUME NEW e \in Exchange, NEW s, NEW u, NEW t, IsSeq(s), IsSeq(u), IsSeq(t),
         (s \o u) \o t = Spoken(e), s \o (u \o t) = Spoken(e), NEW b, NEW d, NEW r, NEW c, Put(e, s, b, d, r, c)
  PROVE  LET pushed == Push(e.dialect, b, u)
             decoded == OnEvents(e.dialect, d, pushed.events)
             out == OnChunks(e.target, r, decoded.chunks)
         IN  Put(e, s \o u, pushed.rest, decoded.d, out.r, ReadAll(e.target, c, out.frames))
<1> DEFINE before == Parse(e.dialect, s)
           now == Push(e.dialect, b, u)
           all == Parse(e.dialect, s \o u)
           p == before.events
           q == now.events
<1>1. IsSeq(s \o u) /\ IsSeq(u \o t) /\ s \o (u \o t) = Spoken(e)
  <2>1. IsSeq(s \o u) /\ IsSeq(u \o t)
    BY Joined
  <2>2. QED
    BY <2>1
<1>2. /\ WellFormed(e.dialect, s) /\ IsSeq(p)
      /\ \A k \in 1 .. Len(p) : Talks(e.dialect, p[k])
  BY <1>1, PartSpoken
<1>3. /\ WellFormed(e.dialect, s \o u) /\ IsSeq(all.events)
      /\ \A k \in 1 .. Len(all.events) : Talks(e.dialect, all.events[k])
  BY <1>1, PartSpoken
<1>4. b = before.rest /\ now = Parse(e.dialect, before.rest \o u)
  BY DEF Put, Push
<1>5. WellFormed(e.dialect, before.rest \o u) /\ all = Ahead(p, now)
  BY <1>3, <1>4, Bursting
<1>6. IsSeq(q)
  BY <1>4, <1>5, ParseSound DEF Sound
<1>7. all.events = p \o q /\ all.rest = now.rest
  <2>1. Ahead(p, now) = Holds(p \o q, now.rest)
    BY DEF Ahead
  <2> DEFINE w == p \o q
             rest == now.rest
  <2>2. all = Holds(w, rest)
    BY <1>5, <2>1
  <2> HIDE DEF all, w, rest
  <2>3. all.events = w /\ all.rest = rest
    BY <2>2, Fields
  <2>4. QED
    BY <2>3 DEF w, rest
<1> DEFINE emulated == e.answer.emulated
           first == OnEvents(e.dialect, Decoder(emulated), p)
           second == OnEvents(e.dialect, d, q)
           both == OnEvents(e.dialect, Decoder(emulated), p \o q)
<1>8. d = first.d
  BY DEF Put, Decoded
<1> HIDE DEF p, q, all, now, before
<1>9. \A k \in 1 .. Len(q) : Talks(e.dialect, q[k])
  <2>1. \A k \in 1 .. Len(q) : Len(p) + k \in 1 .. Len(p \o q) /\ (p \o q)[Len(p) + k] = q[k]
    BY <1>2, <1>6, Joined, SeqFacts
  <2>2. QED
    BY <1>3, <1>7, <2>1
<1>10. both = Yield(second.d, first.chunks \o second.chunks)
  BY <1>2, <1>6, <1>8, <1>9, EventsJoined
<1>11. both.d = second.d /\ both.chunks = first.chunks \o second.chunks
  <2> DEFINE g == second.d
             w == first.chunks \o second.chunks
  <2>1. both = Yield(g, w)
    BY <1>10
  <2> HIDE DEF both, g, w
  <2>2. both.d = g /\ both.chunks = w
    BY <2>1, Fields
  <2>3. QED
    BY <2>2 DEF g, w
<1> DEFINE x == first.chunks
           y == second.chunks
<1>12. IsSeq(x) /\ \A k \in 1 .. Len(x) : Tame(x[k])
  BY <1>2, EventsYield
<1>13. IsSeq(y) /\ \A k \in 1 .. Len(y) : Tame(y[k])
  BY <1>6, <1>9, EventsYield
<1>14. e.target \in Targets
  BY DEF Exchange
<1> HIDE DEF first, second, both, x, y
<1>15. /\ \A k \in 1 .. Len(x) : Shows(e.target, x[k])
       /\ \A k \in 1 .. Len(y) : Shows(e.target, y[k])
  BY <1>12, <1>13, <1>14, TameShows
<1> DEFINE a == OnChunks(e.target, Renderer, x)
           z == OnChunks(e.target, a.r, y)
<1>16. OnChunks(e.target, Renderer, x \o y) = Out(z.r, a.frames \o z.frames)
  BY <1>12, <1>13, <1>15, ChunksJoined
<1>17. IsSeq(a.frames) /\ IsSeq(z.frames)
  BY <1>12, <1>13, <1>15, ChunksYield
<1> HIDE DEF a, z
<1>18. ReadAll(e.target, Blank, a.frames \o z.frames) = ReadAll(e.target, ReadAll(e.target, Blank, a.frames), z.frames)
  BY <1>17, FramesJoined
<1>19. Decoded(e, s) = first /\ Decoded(e, s \o u) = both
  BY <1>7 DEF Decoded, first, both, p, before, all
<1>20. Rendered(e, s) = a /\ Rendered(e, s \o u) = Out(z.r, a.frames \o z.frames)
  BY <1>11, <1>16, <1>19 DEF Rendered, a, x, y
<1>21. r = a.r /\ c = ReadAll(e.target, Blank, a.frames)
  BY <1>20 DEF Put
<1>22. Rendered(e, s \o u).r = z.r /\ Rendered(e, s \o u).frames = a.frames \o z.frames
  <2> DEFINE v == z.r
             w == a.frames \o z.frames
  <2>1. Rendered(e, s \o u) = Out(v, w)
    BY <1>20
  <2> HIDE DEF v, w
  <2>2. Rendered(e, s \o u).r = v /\ Rendered(e, s \o u).frames = w
    BY <2>1, Fields
  <2>3. QED
    BY <2>2 DEF v, w
<1>23. z = OnChunks(e.target, r, y)
  BY <1>21 DEF z
<1>24. Put(e, s \o u, now.rest, second.d, z.r, ReadAll(e.target, c, z.frames))
  BY <1>7, <1>11, <1>18, <1>19, <1>21, <1>22 DEF Put, all
<1>25. QED
  BY <1>23, <1>24 DEF now, second, q, y
----------------------------------------------------------------

-----------------------------------------------------------------------------
(* Where the network cuts the bytes cannot be seen *)

\* While an answer is under way, what has arrived and what has not are the bytes
\* of the exchange, and every part of the gateway is where they put it.
Coursing ==
  /\ exchange \in Exchange
  /\ pc = "open" =>
       /\ IsSeq(got) /\ IsSeq(wire) /\ got \o wire = Spoken(exchange)
       /\ Put(exchange, got, buffer, decoder, renderer, client)
       /\ held = 0
       /\ ~exchange.stream => got = << >>

LEMMA Begun == Init => Coursing
<1> SUFFICES ASSUME Init
             PROVE  Coursing
  OBVIOUS
<1>1. exchange \in Exchange
  BY StreamsAssumption DEF Init
<1>2. IsSeq(Spoken(exchange)) /\ IsSeq(<< >>)
  BY <1>1, SpokenFacts DEF WellFormed, IsSeq
<1>3. << >> \o Spoken(exchange) = Spoken(exchange)
  BY <1>2, Neutral
<1> DEFINE e == exchange
           d == Decoder(e.answer.emulated)
<1>4. Parse(e.dialect, << >>) = Holds(<< >>, << >>)
  BY Nothing
<1>5. Decoded(e, << >>) = Yield(d, << >>)
  BY <1>4, Nothing DEF Decoded, Holds
<1>6. Rendered(e, << >>) = Out(Renderer, << >>)
  BY <1>5, Nothing DEF Rendered, Yield
<1>7. ReadAll(e.target, Blank, << >>) = Blank
  BY Nothing
<1> HIDE DEF d
<1>8. Put(e, << >>, << >>, d, Renderer, Blank)
  BY <1>4, <1>5, <1>6, <1>7 DEF Put, Holds, Yield, Out
<1>9. QED
  BY <1>1, <1>2, <1>3, <1>8 DEF Coursing, Init, d

LEMMA CoursingKept == Coursing /\ [Next]_vars => Coursing'
<1> SUFFICES ASSUME Coursing, [Next]_vars
             PROVE  Coursing'
  OBVIOUS
<1>1. CASE UNCHANGED vars
  BY <1>1 DEF Coursing, vars
<1>2. ASSUME NEW n, Arrive(n)
      PROVE  Coursing'
  <2> DEFINE e == exchange
             u == Upto(wire, n)
             t == After(wire, n)
             pushed == Push(e.dialect, buffer, u)
             decoded == OnEvents(e.dialect, decoder, pushed.events)
             out == OnChunks(e.target, renderer, decoded.chunks)
  <2>1. /\ e \in Exchange /\ IsSeq(got) /\ IsSeq(wire) /\ got \o wire = Spoken(e)
        /\ Put(e, got, buffer, decoder, renderer, client) /\ held = 0 /\ e.stream
    BY <1>2 DEF Arrive, Coursing
  <2>2. n \in 0 .. Len(wire) /\ 0 \in 0 .. Len(wire) - n
    BY <1>2, <2>1, SeqFacts DEF Arrive
  <2>3. IsSeq(u) /\ IsSeq(t) /\ u \o t = wire
    BY <2>1, <2>2, Cuts, CutTwice
  <2>4. /\ got' = got \o u /\ wire' = t /\ exchange' = e /\ pc' = pc /\ held' = held
        /\ buffer' = pushed.rest /\ decoder' = decoded.d /\ renderer' = out.r
        /\ client' = ReadAll(e.target, client, out.frames)
    BY <1>2 DEF Arrive
  <2> HIDE DEF u, t
  <2>5. IsSeq(got \o u) /\ (got \o u) \o t = Spoken(e) /\ got \o (u \o t) = Spoken(e)
    <3>1. IsSeq(got \o u)
      BY <2>1, <2>3, Joined
    <3>2. (got \o u) \o t = got \o (u \o t)
      <4>1. IsSeq(got) /\ IsSeq(u) /\ IsSeq(t)
        BY <2>1, <2>3
      <4>2. QED
        BY <4>1, Associates
    <3>3. QED
      BY <2>1, <2>3, <3>1, <3>2
  <2>6. Put(e, got \o u, pushed.rest, decoded.d, out.r, ReadAll(e.target, client, out.frames))
    BY <2>1, <2>3, <2>5, BurstPuts
  <2> HIDE DEF pushed, decoded, out
  <2>7. QED
    BY <2>1, <2>3, <2>4, <2>5, <2>6 DEF Coursing
<1>3. CASE Close
  BY <1>3 DEF Close, Coursing
<1>4. CASE HangUp
  BY <1>4 DEF HangUp, Coursing
<1>5. CASE Collect
  BY <1>5 DEF Collect, Answered, Coursing
<1>6. CASE CollectFails
  BY <1>6 DEF CollectFails, Coursing
<1>7. QED
  BY <1>1, <1>2, <1>3, <1>4, <1>5, <1>6 DEF Next, EndOfStream, BreakOff

\* SseParser.push, EventStreamParser.push and the translators: where the network
\* cuts the bytes cannot be seen, whatever is said and however it arrives.
THEOREM SplitsNeverSeen == Spec => []SplitsUnseen
<1>1. Coursing => SplitsUnseen
  <2> SUFFICES ASSUME Coursing, pc = "open"
               PROVE  SplitsUnseen
    BY DEF SplitsUnseen
  <2>1. IsSeq(got) /\ Put(exchange, got, buffer, decoder, renderer, client)
    BY DEF Coursing
  <2>2. << >> \o got = got
    BY <2>1, Neutral
  <2>3. QED
    BY <2>1, <2>2 DEF Put, Decoded, Rendered, SplitsUnseen, Push
<1>2. QED
  BY <1>1, Begun, CoursingKept, PTL DEF Spec
----------------------------------------------------------------

-----------------------------------------------------------------------------
(* Which answers leave a failure behind *)

Bearing(d, x) == "failure" \in DOMAIN d /\ d.failure = x

LEMMA FailureKept ==
  ASSUME NEW d, NEW x, Bearing(d, x), NEW y
  PROVE  /\ Bearing([d EXCEPT !.role = y], x) /\ Bearing([d EXCEPT !.finish = y], x)
         /\ Bearing(Numbered(d, y), x) /\ Bearing(Opened(d), x)
         /\ \A z : Bearing([d EXCEPT !.role = y, !.input = z], x)
         /\ \A z : Yield(d, z).d = d
BY DEF Bearing, Numbered, Opened, Yield

\* Only Codex tells a failure, and only in an event of its own.
LEMMA Unfailed ==
  ASSUME NEW dialect \in Dialects, NEW d, NEW x, Bearing(d, x), NEW event, IsSeq(event.data),
         \A j \in 1 .. Len(event.data) : /\ Written(event.data[j])
                                         /\ dialect = "Codex" => event.data[j].kind \notin Refusals
  PROVE  Bearing(OnEvent(dialect, d, event).d, x)
<1>1. \A g, z : Bearing(g, x) => Bearing(Yield(g, z).d, x)
  BY DEF Yield
<1>2. CASE Len(event.data) # 1
  BY <1>1, <1>2 DEF OnEvent
<1>3. CASE Len(event.data) = 1
  <2> DEFINE v == event.data[1]
  <2>1. Written(v) /\ (dialect = "Codex" => v.kind \notin Refusals)
    BY <1>3
  <2>2. CASE dialect = "OpenAi"
    BY <1>1, <1>3, <2>2 DEF OnEvent
  <2>3. CASE dialect = "Anthropic"
    <3>1. /\ \A y, z : Bearing([d EXCEPT !.role = y, !.input = z], x)
          /\ \A y : Bearing(Numbered(d, y), x) /\ Bearing([d EXCEPT !.finish = y], x)
      BY FailureKept
    <3>2. Bearing(Anthropic(d, v).d, x)
      BY <1>1, <3>1 DEF Anthropic
    <3>3. QED
      BY <1>3, <2>3, <3>2 DEF OnEvent
  <2>4. CASE dialect = "Gemini"
    <3> DEFINE parts == v.parts
               begun == Yield([d EXCEPT !.role = TRUE], IF d.role THEN << >> ELSE <<RoleChunk>>)
    <3>1. IsSeq(parts) /\ Bearing(begun.d, x)
      BY <1>1, <2>1, FailureKept DEF Written
    <3>2. PICK f : Parting(f, begun, parts) /\ Gemini(d, v) = Spoke(f[Len(parts)], v)
      BY <3>1, PartsTraced
    <3> HIDE DEF parts, begun
    <3>3. f[0] = begun /\ \A i \in 1 .. Len(parts) : f[i] = GeminiPart(f[i - 1], parts[i])
      BY <3>2 DEF Parting
    <3>4. Len(parts) \in Nat
      BY <3>1, SeqFacts
    <3> DEFINE T == {n \in Nat : n <= Len(parts) => Bearing(f[n].d, x)}
    <3>5. 0 \in T
      BY <3>1, <3>3
    <3>6. ASSUME NEW n \in T
          PROVE  n + 1 \in T
      <4> SUFFICES ASSUME n + 1 <= Len(parts)
                   PROVE  Bearing(f[n + 1].d, x)
        BY <3>6
      <4>1. n \in Nat /\ n + 1 \in 1 .. Len(parts) /\ n + 1 - 1 = n /\ Bearing(f[n].d, x)
        BY <3>4, <3>6
      <4>2. f[n + 1] = GeminiPart(f[n], parts[n + 1])
        BY <3>3, <4>1
      <4>3. \A y : Bearing(Numbered(f[n].d, y), x)
        BY <4>1, FailureKept
      <4>4. QED
        BY <1>1, <4>1, <4>2, <4>3 DEF GeminiPart
    <3> HIDE DEF T
    <3>7. T \in SUBSET Nat
      BY DEF T
    <3>8. T = Nat
      BY <3>5, <3>6, <3>7, Climb
    <3>9. Bearing(f[Len(parts)].d, x)
      BY <3>4, <3>8 DEF T
    <3>10. Bearing(Gemini(d, v).d, x)
      BY <1>1, <3>2, <3>9 DEF Spoke
    <3>11. QED
      BY <1>3, <2>4, <3>10 DEF OnEvent
  <2>5. CASE dialect = "Bedrock"
    <3>1. \A y : Bearing([d EXCEPT !.role = y], x) /\ Bearing(Numbered(d, y), x)
                 /\ Bearing([d EXCEPT !.finish = y], x)
      BY FailureKept
    <3>2. Bearing(Bedrock(d, v).d, x)
      BY <1>1, <3>1 DEF Bedrock
    <3>3. QED
      BY <1>3, <2>5, <3>2 DEF OnEvent
  <2>6. CASE dialect = "Codex"
    <3>1. \A g : Bearing(g, x) => Bearing(Opened(g), x) /\ \A y : Bearing(Numbered(g, y), x)
      BY FailureKept
    <3>2. Bearing(CodexCall(d, v).d, x)
      BY <1>1, <3>1 DEF CodexCall
    <3>3. v.kind # "error" /\ v.kind # "response.failed"
      BY <2>1, <2>6 DEF Refusals
    <3>4. Bearing(Codex(d, v).d, x)
      BY <1>1, <3>1, <3>2, <3>3 DEF Codex
    <3>5. QED
      BY <1>3, <2>6, <3>4 DEF OnEvent
  <2>7. QED
    BY <2>2, <2>3, <2>4, <2>5, <2>6 DEF Dialects
<1>4. QED
  BY <1>2, <1>3

LEMMA AllUnfailed ==
  ASSUME NEW dialect \in Dialects, NEW d, NEW x, Bearing(d, x), NEW events, IsSeq(events),
         \A k \in 1 .. Len(events) :
           /\ IsSeq(events[k].data)
           /\ \A j \in 1 .. Len(events[k].data) :
                /\ Written(events[k].data[j])
                /\ dialect = "Codex" => events[k].data[j].kind \notin Refusals
  PROVE  Bearing(OnEvents(dialect, d, events).d, x)
<1>1. PICK f : Translating(f, dialect, d, events) /\ OnEvents(dialect, d, events) = f[Len(events)]
  BY EventsTraced
<1>2. /\ f[0] = Yield(d, << >>)
      /\ \A i \in 1 .. Len(events) :
           f[i] = Yield(OnEvent(dialect, f[i - 1].d, events[i]).d,
                        f[i - 1].chunks \o OnEvent(dialect, f[i - 1].d, events[i]).chunks)
  BY <1>1 DEF Translating
<1>3. \A g, z : Yield(g, z).d = g
  BY DEF Yield
<1>4. Len(events) \in Nat
  BY SeqFacts
<1> DEFINE T == {n \in Nat : n <= Len(events) => Bearing(f[n].d, x)}
<1>5. 0 \in T
  BY <1>2, <1>3
<1>6. ASSUME NEW n \in T
      PROVE  n + 1 \in T
  <2> SUFFICES ASSUME n + 1 <= Len(events)
               PROVE  Bearing(f[n + 1].d, x)
    BY <1>6
  <2>1. n \in Nat /\ n + 1 \in 1 .. Len(events) /\ n + 1 - 1 = n /\ Bearing(f[n].d, x)
    BY <1>4, <1>6
  <2> DEFINE event == events[n + 1]
  <2>2. f[n + 1].d = OnEvent(dialect, f[n].d, event).d
    BY <1>2, <1>3, <2>1
  <2>3. IsSeq(event.data) /\ \A j \in 1 .. Len(event.data) :
                               /\ Written(event.data[j])
                               /\ dialect = "Codex" => event.data[j].kind \notin Refusals
    BY <2>1
  <2> HIDE DEF event
  <2>4. QED
    BY <2>1, <2>2, <2>3, Unfailed
<1> HIDE DEF T
<1>7. T \in SUBSET Nat
  BY DEF T
<1>8. T = Nat
  BY <1>5, <1>6, <1>7, Climb
<1>9. QED
  BY <1>1, <1>4, <1>8 DEF T
----------------------------------------------------------------

-----------------------------------------------------------------------------
(* Each value of a seat's answer becomes an event. *)

\* What a block that is whole comes to.
LEMMA WholeBlock ==
  ASSUME NEW s, IsSeq(s), NEW i \in 1 .. Len(s), LineBreak(s, i) > 0,
         LineBreak(s, i + LineBreak(s, i)) > 0,
         \A k \in 1 .. i - 1 : LineBreak(s, k) = 0 \/ LineBreak(s, k + LineBreak(s, k)) = 0,
         i + LineBreak(s, i) + LineBreak(s, i + LineBreak(s, i)) - 1 = Len(s)
  PROVE  Parse("Codex", s) = Holds(Spelled(Upto(s, i - 1)), << >>)
<1>1. Len(s) \in Nat /\ Len(s) # 0
  BY SeqFacts
<1>2. i \in Terminators(s) /\ Terminators(s) \in SUBSET Nat
  BY <1>1 DEF Terminators
<1>3. Min(Terminators(s)) = i
  <2>1. Min(Terminators(s)) \in Terminators(s) /\ Min(Terminators(s)) <= i
    BY <1>2, MinIsLeast
  <2>2. \A k \in Terminators(s) : k >= i
    BY <1>1 DEF Terminators
  <2>3. QED
    BY <1>2, <2>1, <2>2
<1>4. NextBlock(s) = Taken(Spelled(Upto(s, i - 1)), Len(s))
  BY <1>2, <1>3 DEF NextBlock
<1>5. NextOf("Codex", s).bytes = Len(s) /\ NextOf("Codex", s).events = Spelled(Upto(s, i - 1))
  BY <1>4 DEF NextOf, Taken
<1>6. After(s, Len(s)) = << >>
  <2>1. 0 \in 0 .. Len(s) /\ 0 \in 0 .. Len(s) - 0
    BY <1>1
  <2>2. QED
    BY <2>1, CutTwice
<1>7. WellFormed("Codex", s)
  BY DEF WellFormed
<1> DEFINE x == Spelled(Upto(s, i - 1))
<1>8. Parse("Codex", s) = Ahead(x, Holds(<< >>, << >>))
  BY <1>1, <1>5, <1>6, <1>7, Unfolds, Nothing
<1>9. IsSeq(x)
  BY <1>5, <1>7, NextTakes DEF Takes
<1> HIDE DEF x
<1>10. x \o << >> = x
  BY <1>9, Neutral
<1>11. QED
  BY <1>8, <1>10 DEF Ahead, Holds, x

\* Lines that say nothing leave an event as it is.
LEMMA SpelledLines ==
  ASSUME NEW v, NEW name, NEW b, IsSeq(b)
  PROVE  LET one == <<Event(name, <<v>>)>>
             E == <<"event", name>>
             D == <<"data", v>>
         IN  /\ Len(b) = 3 /\ b[1] = E /\ b[2] = LF /\ b[3] = D => Spelled(b) = one
             /\ Len(b) = 4 /\ b[1] = E /\ b[2] = CR /\ b[3] = LF /\ b[4] = D => Spelled(b) = one
             /\ Len(b) = 1 /\ b[1] = <<"comment">> => Spelled(b) = << >>
<1> DEFINE blank == Event(NoName, << >>)
           named == Event(name, << >>)
           full == Event(name, <<v>>)
           E == <<"event", name>>
           D == <<"data", v>>
           C == <<"comment">>
<1>1. ReadLine(blank, E) = named /\ ReadLine(named, D) = full
  BY DEF ReadLine, Event
<1>2. ReadLine(named, LF) = named /\ ReadLine(named, CR) = named /\ ReadLine(blank, C) = blank
  BY DEF ReadLine, LF, CR
<1>3. full # blank
  BY DEF Event
<1> HIDE DEF blank, named, full, E, D, C
<1>4. PICK f : Reading(f, b) /\ ReadLines(b) = f[Len(b)]
  BY LinesRead
<1>5. f[0] = blank /\ \A i \in 1 .. Len(b) : f[i] = ReadLine(f[i - 1], b[i])
  BY <1>4 DEF Reading, blank
<1>6. ASSUME Len(b) = 3, b[1] = E, b[2] = LF, b[3] = D
      PROVE  Spelled(b) = <<full>>
  <2>1. f[1] = ReadLine(f[0], E) /\ f[2] = ReadLine(f[1], LF) /\ f[3] = ReadLine(f[2], D)
    BY <1>5, <1>6
  <2>2. ReadLines(b) = full
    BY <1>1, <1>2, <1>4, <1>5, <1>6, <2>1
  <2>3. QED
    BY <1>3, <2>2 DEF Spelled, blank
<1>7. ASSUME Len(b) = 4, b[1] = E, b[2] = CR, b[3] = LF, b[4] = D
      PROVE  Spelled(b) = <<full>>
  <2>1. /\ f[1] = ReadLine(f[0], E) /\ f[2] = ReadLine(f[1], CR) /\ f[3] = ReadLine(f[2], LF)
        /\ f[4] = ReadLine(f[3], D)
    BY <1>5, <1>7
  <2>2. ReadLines(b) = full
    BY <1>1, <1>2, <1>4, <1>5, <1>7, <2>1
  <2>3. QED
    BY <1>3, <2>2 DEF Spelled, blank
<1>8. ASSUME Len(b) = 1, b[1] = C
      PROVE  Spelled(b) = << >>
  <2>1. f[1] = ReadLine(f[0], C)
    BY <1>5, <1>8
  <2>2. ReadLines(b) = blank
    BY <1>2, <1>4, <1>5, <1>8, <2>1
  <2>3. QED
    BY <2>2 DEF Spelled, blank
<1>9. QED
  BY <1>6, <1>7, <1>8 DEF E, D, C, full

\* A sequence with one or two elements more.
Longer(w, s, x) ==
  /\ IsSeq(w) /\ Len(w) = Len(s) + 1
  /\ \A i \in 1 .. Len(s) : w[i] = s[i]
  /\ w[Len(s) + 1] = x
LongerByTwo(w, s, x, y) ==
  /\ IsSeq(w) /\ Len(w) = Len(s) + 2
  /\ \A i \in 1 .. Len(s) : w[i] = s[i]
  /\ w[Len(s) + 1] = x /\ w[Len(s) + 2] = y

LEMMA Lengthened ==
  ASSUME NEW s, NEW t, IsSeq(s), IsSeq(t)
  PROVE  /\ Len(t) = 1 => Longer(s \o t, s, t[1])
         /\ Len(t) = 2 => LongerByTwo(s \o t, s, t[1], t[2])
<1> DEFINE w == s \o t
<1>1. IsSeq(w) /\ Len(w) = Len(s) + Len(t)
  BY Joined
<1>2. \A i \in 1 .. Len(s) : w[i] = s[i]
  BY Joined
<1>3. \A i \in 1 .. Len(t) : w[Len(s) + i] = t[i]
  BY Joined
<1> HIDE DEF w
<1>4. Len(t) = 1 => w[Len(s) + 1] = t[1]
  BY <1>3
<1>5. Len(t) = 2 => w[Len(s) + 1] = t[1] /\ w[Len(s) + 2] = t[2]
  BY <1>3
<1>6. Len(t) = 1 => Longer(w, s, t[1])
  BY <1>1, <1>2, <1>4 DEF Longer
<1>7. Len(t) = 2 => LongerByTwo(w, s, t[1], t[2])
  BY <1>1, <1>2, <1>5 DEF LongerByTwo
<1>8. QED
  BY <1>6, <1>7 DEF w
----------------------------------------------------------------

\* The bytes of a value of a seat's answer come to one event.
LEMMA ValueParsed ==
  ASSUME NEW e, NEW v, e.dialect = "Codex"
  PROVE  Parse("Codex", Bytes(e, v)) = Holds(<<Event(v.kind, <<v>>)>>, << >>)
<1> DEFINE E == <<"event", v.kind>>
           D == <<"data", v>>
           C == <<"comment">>
           one == <<Event(v.kind, <<v>>)>>
<1>1. E \notin {CR, LF} /\ D \notin {CR, LF} /\ C \notin {CR, LF} /\ CR # LF
  BY DEF CR, LF
<1>s. \A b : IsSeq(b) =>
        /\ Len(b) = 3 /\ b[1] = E /\ b[2] = LF /\ b[3] = D => Spelled(b) = one
        /\ Len(b) = 4 /\ b[1] = E /\ b[2] = CR /\ b[3] = LF /\ b[4] = D => Spelled(b) = one
        /\ Len(b) = 1 /\ b[1] = C => Spelled(b) = << >>
  BY SpelledLines
<1> HIDE DEF E, D, C, one
<1>2. ASSUME NEW s, IsSeq(s), Len(s) = 5, s[1] = E, s[2] = LF, s[3] = D, s[4] = LF, s[5] = LF
      PROVE  Parse("Codex", s) = Holds(one, << >>)
  <2> DEFINE b == Upto(s, 3)
  <2>1. IsSeq(b) /\ Len(b) = 3 /\ \A i \in 1 .. 3 : b[i] = s[i]
    <3>1. IsSeq(s) /\ 3 \in 0 .. Len(s)
      BY <1>2
    <3>2. QED
      BY <3>1, Cuts
  <2>2. /\ LineBreak(s, 4) > 0 /\ LineBreak(s, 4 + LineBreak(s, 4)) > 0
        /\ 4 + LineBreak(s, 4) + LineBreak(s, 4 + LineBreak(s, 4)) - 1 = 5
        /\ \A k \in 1 .. 3 : LineBreak(s, k) = 0 \/ LineBreak(s, k + LineBreak(s, k)) = 0
    BY <1>1, <1>2 DEF LineBreak
  <2>3. 4 \in 1 .. Len(s) /\ 4 - 1 = 3
    BY <1>2
  <2>4. Parse("Codex", s) = Holds(Spelled(b), << >>)
    BY <1>2, <2>2, <2>3, WholeBlock
  <2> HIDE DEF b
  <2>5. Spelled(b) = one
    BY <1>2, <1>s, <2>1
  <2>6. QED
    BY <2>4, <2>5
<1>3. ASSUME NEW s, IsSeq(s), Len(s) = 8, s[1] = E, s[2] = CR, s[3] = LF, s[4] = D,
             s[5] = CR, s[6] = LF, s[7] = CR, s[8] = LF
      PROVE  Parse("Codex", s) = Holds(one, << >>)
  <2> DEFINE b == Upto(s, 4)
  <2>1. IsSeq(b) /\ Len(b) = 4 /\ \A i \in 1 .. 4 : b[i] = s[i]
    <3>1. IsSeq(s) /\ 4 \in 0 .. Len(s)
      BY <1>3
    <3>2. QED
      BY <3>1, Cuts
  <2>2. /\ LineBreak(s, 5) > 0 /\ LineBreak(s, 5 + LineBreak(s, 5)) > 0
        /\ 5 + LineBreak(s, 5) + LineBreak(s, 5 + LineBreak(s, 5)) - 1 = 8
        /\ \A k \in 1 .. 4 : LineBreak(s, k) = 0 \/ LineBreak(s, k + LineBreak(s, k)) = 0
    BY <1>1, <1>3 DEF LineBreak
  <2>3. 5 \in 1 .. Len(s) /\ 5 - 1 = 4
    BY <1>3
  <2>4. Parse("Codex", s) = Holds(Spelled(b), << >>)
    BY <1>3, <2>2, <2>3, WholeBlock
  <2> HIDE DEF b
  <2>5. Spelled(b) = one
    BY <1>3, <1>s, <2>1
  <2>6. QED
    BY <2>4, <2>5
<1>4. ASSUME NEW s, IsSeq(s), Len(s) = 3, s[1] = C, s[2] = LF, s[3] = LF
      PROVE  Parse("Codex", s) = Holds(<< >>, << >>)
  <2> DEFINE b == Upto(s, 1)
  <2>1. IsSeq(b) /\ Len(b) = 1 /\ \A i \in 1 .. 1 : b[i] = s[i]
    <3>1. IsSeq(s) /\ 1 \in 0 .. Len(s)
      BY <1>4
    <3>2. QED
      BY <3>1, Cuts
  <2>2. /\ LineBreak(s, 2) > 0 /\ LineBreak(s, 2 + LineBreak(s, 2)) > 0
        /\ 2 + LineBreak(s, 2) + LineBreak(s, 2 + LineBreak(s, 2)) - 1 = 3
        /\ \A k \in 1 .. 1 : LineBreak(s, k) = 0 \/ LineBreak(s, k + LineBreak(s, k)) = 0
    BY <1>1, <1>4 DEF LineBreak
  <2>3. 2 \in 1 .. Len(s) /\ 2 - 1 = 1
    BY <1>4
  <2>4. Parse("Codex", s) = Holds(Spelled(b), << >>)
    BY <1>4, <2>2, <2>3, WholeBlock
  <2> HIDE DEF b
  <2>5. Spelled(b) = << >>
    BY <1>4, <1>s, <2>1
  <2>6. QED
    BY <2>4, <2>5
<1>5. ASSUME NEW s, IsSeq(s), Len(s) = 5, s[1] = C, s[2] = CR, s[3] = LF, s[4] = CR, s[5] = LF
      PROVE  Parse("Codex", s) = Holds(<< >>, << >>)
  <2> DEFINE b == Upto(s, 1)
  <2>1. IsSeq(b) /\ Len(b) = 1 /\ \A i \in 1 .. 1 : b[i] = s[i]
    <3>1. IsSeq(s) /\ 1 \in 0 .. Len(s)
      BY <1>5
    <3>2. QED
      BY <3>1, Cuts
  <2>2. /\ LineBreak(s, 2) > 0 /\ LineBreak(s, 2 + LineBreak(s, 2)) > 0
        /\ 2 + LineBreak(s, 2) + LineBreak(s, 2 + LineBreak(s, 2)) - 1 = 5
        /\ \A k \in 1 .. 1 : LineBreak(s, k) = 0 \/ LineBreak(s, k + LineBreak(s, k)) = 0
    BY <1>1, <1>5 DEF LineBreak
  <2>3. 2 \in 1 .. Len(s) /\ 2 - 1 = 1
    BY <1>5
  <2>4. Parse("Codex", s) = Holds(Spelled(b), << >>)
    BY <1>5, <2>2, <2>3, WholeBlock
  <2> HIDE DEF b
  <2>5. Spelled(b) = << >>
    BY <1>5, <1>s, <2>1
  <2>6. QED
    BY <2>4, <2>5
<1> DEFINE break == IF e.crlf THEN <<CR, LF>> ELSE <<LF>>
           event == <<E>>
           data == <<D>>
           comment == <<C>>
           s1 == event \o break
           s2 == s1 \o data
           s3 == s2 \o break
           said == s3 \o break
           p1 == comment \o break
           p2 == p1 \o break
           ping == IF e.comments THEN p2 ELSE << >>
<1>6. Bytes(e, v) = said \o ping
  <2>1. Bytes(e, v) = <<E>> \o break \o <<D>> \o break \o break \o ping
    BY DEF Bytes, E, D, C
  <2> HIDE DEF E, D, C, break, ping
  <2>2. QED
    BY <2>1
<1>b. /\ IsSeq(event) /\ Len(event) = 1 /\ event[1] = E
      /\ IsSeq(data) /\ Len(data) = 1 /\ data[1] = D
      /\ IsSeq(comment) /\ Len(comment) = 1 /\ comment[1] = C
  BY Singleton
<1>c. e.crlf => IsSeq(break) /\ Len(break) = 2 /\ break[1] = CR /\ break[2] = LF
  <2> DEFINE w == <<CR, LF>>
  <2>1. w \in Seq({CR, LF}) /\ Len(w) = 2 /\ w[1] = CR /\ w[2] = LF
    OBVIOUS
  <2>2. IsSeq(w)
    BY <2>1 DEF IsSeq
  <2>3. e.crlf => break = w
    OBVIOUS
  <2> HIDE DEF w, break
  <2>4. QED
    BY <2>1, <2>2, <2>3
<1>d. ~e.crlf => IsSeq(break) /\ Len(break) = 1 /\ break[1] = LF
  <2> DEFINE w == <<LF>>
  <2>1. IsSeq(w) /\ Len(w) = 1 /\ w[1] = LF
    BY Singleton
  <2>2. ~e.crlf => break = w
    OBVIOUS
  <2> HIDE DEF w, break
  <2>3. QED
    BY <2>1, <2>2
<1>e. /\ s1 = event \o break /\ s2 = s1 \o data /\ s3 = s2 \o break /\ said = s3 \o break
      /\ p1 = comment \o break /\ p2 = p1 \o break
  OBVIOUS
<1> HIDE DEF event, data, comment, break, s1, s2, s3, said, p1, p2
<1>f. /\ \A s : IsSeq(s) => Longer(s \o data, s, D)
      /\ e.crlf => \A s : IsSeq(s) => LongerByTwo(s \o break, s, CR, LF)
      /\ ~e.crlf => \A s : IsSeq(s) => Longer(s \o break, s, LF)
  BY <1>b, <1>c, <1>d, Lengthened
<1>7. Parse("Codex", said) = Holds(one, << >>) /\ IsSeq(said)
  <2>1. CASE e.crlf
    <3>1. IsSeq(s1) /\ Len(s1) = 3 /\ s1[1] = E /\ s1[2] = CR /\ s1[3] = LF
      <4>1. LongerByTwo(s1, event, CR, LF)
        BY <1>e, <1>f, <2>1, <1>b
      <4>2. QED
        BY <1>b, <4>1 DEF LongerByTwo
    <3>2. IsSeq(s2) /\ Len(s2) = 4 /\ s2[1] = E /\ s2[2] = CR /\ s2[3] = LF /\ s2[4] = D
      <4>1. Longer(s2, s1, D)
        BY <1>e, <1>f, <3>1
      <4>2. QED
        BY <3>1, <4>1 DEF Longer
    <3>3. /\ IsSeq(s3) /\ Len(s3) = 6 /\ s3[1] = E /\ s3[2] = CR /\ s3[3] = LF /\ s3[4] = D
          /\ s3[5] = CR /\ s3[6] = LF
      <4>1. LongerByTwo(s3, s2, CR, LF)
        BY <1>e, <1>f, <2>1, <3>2
      <4>2. QED
        BY <3>2, <4>1 DEF LongerByTwo
    <3>4. /\ IsSeq(said) /\ Len(said) = 8 /\ said[1] = E /\ said[2] = CR /\ said[3] = LF
          /\ said[4] = D /\ said[5] = CR /\ said[6] = LF /\ said[7] = CR /\ said[8] = LF
      <4>1. LongerByTwo(said, s3, CR, LF)
        BY <1>e, <1>f, <2>1, <3>3
      <4>2. QED
        BY <3>3, <4>1 DEF LongerByTwo
    <3>5. QED
      BY <1>3, <3>4
  <2>2. CASE ~e.crlf
    <3>1. IsSeq(s1) /\ Len(s1) = 2 /\ s1[1] = E /\ s1[2] = LF
      <4>1. Longer(s1, event, LF)
        BY <1>e, <1>f, <2>2, <1>b
      <4>2. QED
        BY <1>b, <4>1 DEF Longer
    <3>2. IsSeq(s2) /\ Len(s2) = 3 /\ s2[1] = E /\ s2[2] = LF /\ s2[3] = D
      <4>1. Longer(s2, s1, D)
        BY <1>e, <1>f, <3>1
      <4>2. QED
        BY <3>1, <4>1 DEF Longer
    <3>3. IsSeq(s3) /\ Len(s3) = 4 /\ s3[1] = E /\ s3[2] = LF /\ s3[3] = D /\ s3[4] = LF
      <4>1. Longer(s3, s2, LF)
        BY <1>e, <1>f, <2>2, <3>2
      <4>2. QED
        BY <3>2, <4>1 DEF Longer
    <3>4. /\ IsSeq(said) /\ Len(said) = 5 /\ said[1] = E /\ said[2] = LF /\ said[3] = D
          /\ said[4] = LF /\ said[5] = LF
      <4>1. Longer(said, s3, LF)
        BY <1>e, <1>f, <2>2, <3>3
      <4>2. QED
        BY <3>3, <4>1 DEF Longer
    <3>5. QED
      BY <1>2, <3>4
  <2>3. QED
    BY <2>1, <2>2
<1>8. Parse("Codex", ping) = Holds(<< >>, << >>) /\ IsSeq(ping)
  <2>1. CASE ~e.comments
    BY <2>1, Nothing DEF IsSeq
  <2>2. CASE e.comments /\ e.crlf
    <3>1. IsSeq(p1) /\ Len(p1) = 3 /\ p1[1] = C /\ p1[2] = CR /\ p1[3] = LF
      <4>1. LongerByTwo(p1, comment, CR, LF)
        BY <1>e, <1>f, <2>2, <1>b
      <4>2. QED
        BY <1>b, <4>1 DEF LongerByTwo
    <3>2. IsSeq(p2) /\ Len(p2) = 5 /\ p2[1] = C /\ p2[2] = CR /\ p2[3] = LF /\ p2[4] = CR /\ p2[5] = LF
      <4>1. LongerByTwo(p2, p1, CR, LF)
        BY <1>e, <1>f, <2>2, <3>1
      <4>2. QED
        BY <3>1, <4>1 DEF LongerByTwo
    <3>3. QED
      BY <1>5, <2>2, <3>2
  <2>3. CASE e.comments /\ ~e.crlf
    <3>1. IsSeq(p1) /\ Len(p1) = 2 /\ p1[1] = C /\ p1[2] = LF
      <4>1. Longer(p1, comment, LF)
        BY <1>e, <1>f, <2>3, <1>b
      <4>2. QED
        BY <1>b, <4>1 DEF Longer
    <3>2. IsSeq(p2) /\ Len(p2) = 3 /\ p2[1] = C /\ p2[2] = LF /\ p2[3] = LF
      <4>1. Longer(p2, p1, LF)
        BY <1>e, <1>f, <2>3, <3>1
      <4>2. QED
        BY <3>1, <4>1 DEF Longer
    <3>3. QED
      BY <1>4, <2>3, <3>2
  <2>4. QED
    BY <2>1, <2>2, <2>3
<1> HIDE DEF ping
<1>9. Parse("Codex", said).rest = << >> /\ Parse("Codex", said).events = one
  BY <1>7, Fields
<1>10. << >> \o ping = ping /\ IsSeq(said \o ping)
  BY <1>7, <1>8, Neutral, Joined
<1>11. Parse("Codex", said \o ping) = Ahead(one, Parse("Codex", ping))
  <2>1. WellFormed("Codex", said \o ping)
    BY <1>10 DEF WellFormed
  <2>2. QED
    <3>1. IsSeq(said) /\ IsSeq(ping)
      BY <1>7, <1>8
    <3>2. Parse("Codex", said \o ping)
            = Ahead(Parse("Codex", said).events, Parse("Codex", Parse("Codex", said).rest \o ping))
      BY <2>1, <3>1, Bursting
    <3>3. QED
      BY <1>9, <1>10, <3>2
<1>12. one \o << >> = one
  BY Singleton, Neutral DEF one
<1>13. Ahead(one, Holds(<< >>, << >>)) = Holds(one \o << >>, << >>)
  BY DEF Ahead, Holds
<1>14. Parse("Codex", Bytes(e, v)) = Holds(one, << >>)
  BY <1>6, <1>8, <1>11, <1>12, <1>13
<1>15. QED
  BY <1>14 DEF one
----------------------------------------------------------------

\* The bytes of a seat's answer come to its values, one event each.
LEMMA AnswerParsed ==
  ASSUME NEW e \in Exchange, e.dialect = "Codex"
  PROVE  LET values == Values(e.dialect, e.answer)
             events == Parse("Codex", Spoken(e)).events
         IN  /\ IsSeq(events) /\ Len(events) = Len(values)
             /\ \A i \in 1 .. Len(values) : events[i] = Event(values[i].kind, <<values[i]>>)
<1> DEFINE values == Values(e.dialect, e.answer)
           N == Len(values)
           ss == [i \in 1 .. N |-> Bytes(e, values[i])]
<1>1. e.dialect \in Dialects /\ e.answer \in Answer
  BY DEF Exchange
<1>2. IsSeq(values) /\ N \in Nat
  <2>1. IsSeq(values)
    BY <1>1, ValuesSay DEF Says
  <2>2. QED
    BY <2>1, SeqFacts
<1>3. IsSeq(ss) /\ Len(ss) = N
  <2>1. ss \in [1 .. N -> {ss[i] : i \in 1 .. N}]
    OBVIOUS
  <2> HIDE DEF ss, N
  <2>2. QED
    BY <1>2, <2>1, FamilyIsSeq
<1>4. \A i \in 1 .. N : ss[i] = Bytes(e, values[i]) /\ IsSeq(ss[i])
  <2>1. \A v : IsSeq(Bytes(e, v))
    BY BytesBear DEF Bears
  <2>2. QED
    BY <2>1
<1>5. Spoken(e) = FlattenSeq(ss)
  BY DEF Spoken
<1> HIDE DEF values, ss, N
<1>6. PICK f : Flowing(f, ss) /\ FlattenSeq(ss) = f[N]
  BY <1>3, <1>4, Flattened
<1>7. f[0] = << >> /\ \A i \in 1 .. N : f[i] = f[i - 1] \o ss[i]
  BY <1>3, <1>6 DEF Flowing
<1> DEFINE Told(p, n) == /\ IsSeq(p.events) /\ Len(p.events) = n /\ p.rest = << >>
                         /\ \A i \in 1 .. n : p.events[i] = Event(values[i].kind, <<values[i]>>)
           T == {n \in Nat : n <= N => IsSeq(f[n]) /\ Told(Parse("Codex", f[n]), n)}
<1>8. 0 \in T
  <2>1. IsSeq(<< >>) /\ Len(<< >>) = 0
    BY DEF IsSeq
  <2>2. QED
    BY <1>7, <2>1, Nothing DEF Holds
<1>9. ASSUME NEW n \in T
      PROVE  n + 1 \in T
  <2> SUFFICES ASSUME n + 1 <= N
               PROVE  IsSeq(f[n + 1]) /\ Told(Parse("Codex", f[n + 1]), n + 1)
    BY <1>9
  <2> DEFINE m == n + 1
             s == f[n]
             t == ss[m]
             v == values[m]
             p == Parse("Codex", s)
             a == p.events
             x == Event(v.kind, <<v>>)
  <2>1. n \in Nat /\ m \in 1 .. N /\ m - 1 = n /\ IsSeq(s) /\ Told(p, n)
    BY <1>2, <1>9
  <2> HIDE DEF m
  <2>2. f[n + 1] = s \o t /\ IsSeq(t) /\ t = Bytes(e, v)
    <3>1. f[m] = f[m - 1] \o ss[m]
      BY <1>7, <2>1
    <3>2. IsSeq(t) /\ t = Bytes(e, v)
      BY <1>4, <2>1
    <3>3. QED
      BY <2>1, <3>1, <3>2 DEF m
  <2>3. Parse("Codex", t) = Holds(<<x>>, << >>)
    BY <2>2, ValueParsed
  <2> HIDE DEF s, t, p
  <2>4. IsSeq(s \o t)
    BY <2>1, <2>2, Joined
  <2>5. p.rest \o t = t
    BY <2>1, <2>2, Neutral
  <2>6. Parse("Codex", s \o t) = Ahead(a, Parse("Codex", t))
    <3>1. WellFormed("Codex", s \o t)
      BY <2>4 DEF WellFormed
    <3>2. IsSeq(s) /\ IsSeq(t)
      BY <2>1, <2>2
    <3>3. Parse("Codex", s \o t)
            = Ahead(Parse("Codex", s).events, Parse("Codex", Parse("Codex", s).rest \o t))
      BY <3>1, <3>2, Bursting
    <3>4. QED
      BY <2>5, <3>3 DEF p
  <2> DEFINE q == Parse("Codex", f[n + 1])
  <2>7. q = Holds(a \o <<x>>, << >>)
    <3> DEFINE one == <<x>>
    <3>1. Parse("Codex", t) = Holds(one, << >>)
      BY <2>3
    <3> HIDE DEF one, a
    <3>2. Ahead(a, Holds(one, << >>)) = Holds(a \o one, << >>)
      BY Fields DEF Ahead
    <3>3. QED
      BY <2>2, <2>6, <3>1, <3>2 DEF one
  <2>8. IsSeq(a) /\ Len(a) = n /\ \A i \in 1 .. n : a[i] = Event(values[i].kind, <<values[i]>>)
    BY <2>1
  <2> HIDE DEF a, q
  <2> DEFINE z == a \o <<x>>
  <2>9. IsSeq(z) /\ Len(z) = n + 1 /\ (\A i \in 1 .. n : z[i] = a[i]) /\ z[n + 1] = x
    <3> DEFINE one == <<x>>
    <3>1. IsSeq(one) /\ Len(one) = 1 /\ one[1] = x
      BY Singleton
    <3>2. z = a \o one
      OBVIOUS
    <3> HIDE DEF one, z, x
    <3>3. Longer(z, a, x)
      BY <2>8, <3>1, <3>2, Lengthened
    <3>4. QED
      BY <2>8, <3>3 DEF Longer
  <2> HIDE DEF z
  <2>10. \A i \in 1 .. n + 1 : z[i] = Event(values[i].kind, <<values[i]>>)
    <3> SUFFICES ASSUME NEW i \in 1 .. n + 1
                 PROVE  z[i] = Event(values[i].kind, <<values[i]>>)
      OBVIOUS
    <3>1. CASE i = n + 1
      BY <2>9, <3>1 DEF m
    <3>2. CASE i # n + 1
      <4>1. i \in 1 .. n
        BY <2>1, <3>2
      <4>2. QED
        BY <2>8, <2>9, <4>1
    <3>3. QED
      BY <3>1, <3>2
  <2>11. q.events = z /\ q.rest = << >>
    BY <2>7 DEF Holds, z
  <2>12. Told(q, n + 1)
    BY <2>9, <2>10, <2>11
  <2>13. QED
    BY <2>2, <2>4, <2>12 DEF q
<1> HIDE DEF Told
<1>10. Told(Parse("Codex", f[N]), N)
  <2> HIDE DEF T
  <2>1. T \in SUBSET Nat
    BY DEF T
  <2>2. T = Nat
    BY <1>8, <1>9, <2>1, Climb
  <2>3. QED
    BY <1>2, <2>2 DEF T
<1>11. QED
  BY <1>5, <1>6, <1>10 DEF Told, values, N

\* A seat that does not refuse says nothing of the kinds that do; one that does
\* says so last.
LEMMA CodexEnds ==
  ASSUME NEW answer \in Answer
  PROVE  LET values == Values("Codex", answer)
             last == values[Len(values)]
         IN  /\ answer.refusal = None => Says(values, Refusals)
             /\ answer.refusal # None =>
                  /\ Len(values) \in Nat /\ Len(values) > 0
                  /\ last.kind = "response.failed" /\ last.block = None /\ last.reason = answer.refusal
<1> DEFINE values == Values("Codex", answer)
           items == answer.items
           refusal == answer.refusal
           start == V("response.created")
           all == All(items, CodexItem)
           error == [V("error") EXCEPT !.reason = refusal]
           failed == [V("response.failed") EXCEPT !.reason = refusal]
           end == [V(IF answer.stop = "length" THEN "response.incomplete"
                     ELSE "response.completed") EXCEPT !.usage = answer.usage]
<1>1. items \in Seq(Piece) /\ Len(items) \in Nat
  BY DEF Answer
<1>0. IsSeq(<< >>)
  BY DEF IsSeq
<1>2. Written(start) /\ start.kind \notin Refusals /\ Written(end) /\ end.kind \notin Refusals
  BY <1>0 DEF V, Value, Chunk, Written, Tame, Refusals
<1>3. failed.kind = "response.failed" /\ failed.block = None /\ failed.reason = refusal
  BY DEF V, Value
<1>4. Says(all, Refusals)
  <2> DEFINE f == [i \in 1 .. Len(items) |-> CodexItem(items, i)]
  <2>1. \A i \in 1 .. Len(items) : Says(f[i], Refusals)
    BY <1>1, CodexSays
  <2>2. Says(FlattenSeq(f), Refusals)
    BY <1>1, <2>1, SaysAll
  <2>3. QED
    BY <2>2 DEF All
<1>5. values = <<start>> \o all \o (IF refusal # None THEN <<error, failed>> ELSE <<end>>)
  BY DEF Values
<1> HIDE DEF start, all, error, failed, end, values
<1>6. Says(<<start>>, Refusals) /\ Says(<<end>>, Refusals)
  BY <1>2, SaysFacts
<1>7. refusal = None => Says(values, Refusals)
  BY <1>4, <1>5, <1>6, SaysFacts
<1>8. ASSUME refusal # None
      PROVE  Len(values) \in Nat /\ Len(values) > 0 /\ values[Len(values)] = failed
  <2> DEFINE s == <<start>> \o all
             t == <<error, failed>>
  <2>1. Says(s, Refusals)
    BY <1>4, <1>6, SaysFacts
  <2>2. t \in Seq({error, failed}) /\ Len(t) = 2 /\ t[2] = failed
    OBVIOUS
  <2>3. IsSeq(s) /\ IsSeq(t)
    BY <2>1, <2>2 DEF Says, IsSeq
  <2>4. values = s \o t
    BY <1>5, <1>8
  <2> HIDE DEF s, t
  <2>5. Len(s \o t) = Len(s) + 2 /\ (s \o t)[Len(s) + 2] = failed /\ Len(s) \in Nat
    <3>1. LongerByTwo(s \o t, s, t[1], t[2])
      BY <2>2, <2>3, Lengthened
    <3>2. QED
      BY <2>2, <2>3, <3>1, SeqFacts DEF LongerByTwo
  <2>6. QED
    BY <2>4, <2>5
<1>9. QED
  BY <1>3, <1>7, <1>8 DEF values
----------------------------------------------------------------

LEMMA FailureKnown ==
  ASSUME NEW d, "failure" \in DOMAIN d, NEW event
  PROVE  "failure" \in DOMAIN OnEvent("Codex", d, event).d
<1> DEFINE Known(g) == "failure" \in DOMAIN g
           v == event.data[1]
<1>1. \A g, z : Known(g) => Known(Yield(g, z).d)
  BY DEF Yield
<1>2. \A g : Known(g) => Known(Opened(g)) /\ \A y : Known(Numbered(g, y)) /\ Known([g EXCEPT !.failure = y])
  BY DEF Opened, Numbered
<1>3. Known(d)
  OBVIOUS
<1> HIDE DEF Known
<1>4. Known(CodexCall(d, v).d)
  BY <1>1, <1>2, <1>3 DEF CodexCall
<1>5. Known(NoteFailure(d, v.reason).d)
  BY <1>1, <1>2, <1>3 DEF NoteFailure
<1>6. Known(Codex(d, v).d)
  BY <1>1, <1>2, <1>3, <1>4, <1>5 DEF Codex
<1>7. Known(OnEvent("Codex", d, event).d)
  BY <1>1, <1>3, <1>6 DEF OnEvent
<1>8. QED
  BY <1>7 DEF Known

\* A whole answer leaves a failure behind exactly if a seat refused in it.
LEMMA FailureIsRefusal ==
  ASSUME NEW e \in Exchange, NEW d, Bearing(d, None)
  PROVE  OnEvents(e.dialect, d, Parse(e.dialect, Spoken(e)).events).d.failure = None
           <=> ~(e.dialect = "Codex" /\ e.answer.refusal # None)
<1> DEFINE values == Values(e.dialect, e.answer)
           events == Parse(e.dialect, Spoken(e)).events
           refused == e.dialect = "Codex" /\ e.answer.refusal # None
<1>1. e.dialect \in Dialects /\ e.answer \in Answer
  BY DEF Exchange
<1>2. IsSeq(Spoken(e)) /\ IsSeq(<< >>) /\ Spoken(e) \o << >> = Spoken(e)
  BY SpokenFacts, Neutral DEF WellFormed
<1>3. IsSeq(events) /\ \A k \in 1 .. Len(events) : Conveys(e, events[k])
  BY <1>2, PartSpoken
<1>4. ASSUME ~refused
      PROVE  OnEvents(e.dialect, d, events).d.failure = None
  <2>1. \A i \in 1 .. Len(values) : Written(values[i])
    BY <1>1, ValuesSay DEF Says
  <2>2. e.dialect = "Codex" => \A i \in 1 .. Len(values) : values[i].kind \notin Refusals
    BY <1>1, <1>4, CodexEnds DEF Says
  <2> HIDE DEF events
  <2>3. \A k \in 1 .. Len(events) :
          /\ IsSeq(events[k].data)
          /\ \A j \in 1 .. Len(events[k].data) :
               /\ Written(events[k].data[j])
               /\ e.dialect = "Codex" => events[k].data[j].kind \notin Refusals
    BY <1>3, <2>1, <2>2 DEF Conveys
  <2>4. Bearing(OnEvents(e.dialect, d, events).d, None)
    BY <1>1, <1>3, <2>3, AllUnfailed
  <2>5. QED
    BY <2>4 DEF Bearing
<1>5. ASSUME refused
      PROVE  OnEvents(e.dialect, d, events).d.failure # None
  <2> DEFINE N == Len(values)
             last == values[N]
  <2>1. /\ N \in Nat /\ N > 0
        /\ last.kind = "response.failed" /\ last.block = None /\ last.reason # None
    BY <1>1, <1>5, CodexEnds
  <2>2. Len(events) = N /\ events[N] = Event(last.kind, <<last>>)
    BY <1>5, <2>1, AnswerParsed
  <2> HIDE DEF events
  <2>3. PICK f : Translating(f, "Codex", d, events) /\ OnEvents("Codex", d, events) = f[Len(events)]
    BY <1>3, EventsTraced
  <2>4. /\ f[0] = Yield(d, << >>)
        /\ \A i \in 1 .. N :
             f[i] = Yield(OnEvent("Codex", f[i - 1].d, events[i]).d,
                          f[i - 1].chunks \o OnEvent("Codex", f[i - 1].d, events[i]).chunks)
    BY <2>2, <2>3 DEF Translating
  <2>5. \A g, z : Yield(g, z).d = g
    BY DEF Yield
  <2> HIDE DEF last, N
  <2> DEFINE T == {n \in Nat : n <= N => "failure" \in DOMAIN f[n].d}
  <2>6. 0 \in T
    BY <2>4, <2>5 DEF Bearing
  <2>7. ASSUME NEW n \in T
        PROVE  n + 1 \in T
    <3> SUFFICES ASSUME n + 1 <= N
                 PROVE  "failure" \in DOMAIN f[n + 1].d
      BY <2>7
    <3>1. n \in Nat /\ n + 1 \in 1 .. N /\ n + 1 - 1 = n /\ "failure" \in DOMAIN f[n].d
      BY <2>1, <2>7
    <3>2. f[n + 1].d = OnEvent("Codex", f[n].d, events[n + 1]).d
      BY <2>4, <2>5, <3>1
    <3>3. QED
      BY <3>1, <3>2, FailureKnown
  <2>8. T = Nat
    <3> HIDE DEF T
    <3>1. T \in SUBSET Nat
      BY DEF T
    <3>2. QED
      BY <2>6, <2>7, <3>1, Climb
  <2> DEFINE g == f[N - 1].d
  <2>9. "failure" \in DOMAIN g /\ f[N].d = OnEvent("Codex", g, events[N]).d
    <3>1. N - 1 \in Nat /\ N - 1 <= N /\ N \in 1 .. N
      BY <2>1
    <3>2. N - 1 \in T
      BY <2>8, <3>1
    <3>3. QED
      BY <2>4, <2>5, <3>1, <3>2
  <2> HIDE DEF g, T
  <2>10. Len(<<last>>) = 1 /\ <<last>>[1] = last
    BY Singleton
  <2>11. OnEvent("Codex", g, events[N]) = Codex(g, last)
    BY <2>2, <2>10 DEF OnEvent, Event
  <2>12. Codex(g, last) = NoteFailure(g, last.reason)
    BY <2>1 DEF Codex, None
  <2>13. NoteFailure(g, last.reason).d.failure # None
    BY <2>1, <2>9 DEF NoteFailure, Yield
  <2>14. QED
    BY <1>5, <2>2, <2>3, <2>9, <2>11, <2>12, <2>13
<1>6. QED
  BY <1>4, <1>5

\* Until an answer is over no seat is held out for it.
Settling == Coursing /\ HeldOut

LEMMA Settles == Settling /\ [Next]_vars => Settling'
<1> SUFFICES ASSUME Settling, [Next]_vars
             PROVE  HeldOut'
  BY CoursingKept DEF Settling
<1> DEFINE e == exchange
<1>1. e \in Exchange
  BY DEF Settling, Coursing
<1>2. \A b : Bearing(Decoder(b), None)
  BY DEF Bearing, Decoder
<1>3. CASE UNCHANGED vars
  BY <1>3 DEF Settling, HeldOut, Refusal, vars
<1>4. ASSUME NEW n, Arrive(n)
      PROVE  HeldOut'
  BY <1>4 DEF Arrive, HeldOut
<1>5. CASE EndOfStream
  <2>1. wire = << >> /\ pc = "open" /\ Settled(decoder.failure) /\ exchange' = exchange
    BY <1>5 DEF EndOfStream, Close
  <2>2. got = Spoken(e) /\ Put(e, got, buffer, decoder, renderer, client) /\ held = 0
    BY <2>1, Neutral DEF Settling, Coursing
  <2>3. decoder = OnEvents(e.dialect, Decoder(e.answer.emulated), Parse(e.dialect, Spoken(e)).events).d
    BY <2>2 DEF Put, Decoded
  <2>4. decoder.failure = None <=> ~(e.dialect = "Codex" /\ e.answer.refusal # None)
    BY <1>1, <1>2, <2>3, FailureIsRefusal
  <2>5. held' = IF e.dialect = "Codex" /\ e.answer.refusal # None THEN 1 ELSE 0
    BY <2>1, <2>2, <2>4 DEF Settled
  <2>6. QED
    BY <2>1, <2>5 DEF HeldOut, Refusal
<1>6. CASE BreakOff
  BY <1>6 DEF BreakOff, HeldOut
<1>7. CASE HangUp
  BY <1>7 DEF HangUp, HeldOut
<1>8. CASE Collect
  <2>1. pc = "open" /\ ~e.stream /\ exchange' = e
    BY <1>8 DEF Collect
  <2>2. IsSeq(wire) /\ wire = Spoken(e) /\ held = 0
    BY <2>1, Neutral DEF Settling, Coursing
  <2>3. CASE e.dialect # "Codex"
    BY <1>8, <2>1, <2>2, <2>3 DEF Collect, Answered, Settled, HeldOut
  <2>4. CASE e.dialect = "Codex"
    <3>1. << >> \o wire = wire
      BY <2>2, Neutral
    <3>2. ReadWhole(wire) = OnEvents(e.dialect, Decoder(FALSE), Parse(e.dialect, Spoken(e)).events)
      BY <2>2, <2>4, <3>1 DEF ReadWhole, Push
    <3>3. ReadWhole(wire).d.failure = None <=> e.answer.refusal = None
      BY <1>1, <1>2, <2>4, <3>2, FailureIsRefusal
    <3>4. Settled(ReadWhole(wire).d.failure)
      BY <1>8, <2>4 DEF Collect, Answered
    <3>5. held' = IF e.answer.refusal # None THEN 1 ELSE 0
      BY <2>2, <3>3, <3>4 DEF Settled
    <3>6. QED
      BY <2>1, <2>4, <3>5 DEF HeldOut, Refusal
  <2>5. QED
    BY <2>3, <2>4
<1>9. CASE CollectFails
  BY <1>9 DEF CollectFails, HeldOut
<1>10. QED
  BY <1>3, <1>4, <1>5, <1>6, <1>7, <1>8, <1>9 DEF Next

\* StreamHold.settle, hold_out_refused_seat: a seat whose backend refused inside its
\* 200 is held out once when the answer has come to its end, however the network cut
\* its bytes, and no other is.  Only Codex's are told apart from a failure.
THEOREM RefusedHeldOut == Spec => []HeldOut
<1>1. Init => Settling
  BY Begun DEF Settling, Init, HeldOut
<1>2. Settling => HeldOut
  BY DEF Settling
<1>3. QED
  BY <1>1, <1>2, Settles, PTL DEF Spec
=============================================================================
